----------------------------- MODULE MCPairing -----------------------------
(* Small instances of Pairing for TLC.                                     *)
EXTENDS Pairing, TLC

Interchangeable == Permutations(Key)
MCSkews == {-1, 1}

(* `among` is SelectSeq, on every short list of keys.                      *)
ASSUME AmongSelects ==
  \A len \in 0 .. 4, S \in SUBSET Key : \A s \in [1 .. len -> Key] :
    among(s, S) = SelectSeq(s, LAMBDA k : k \in S)
=============================================================================
