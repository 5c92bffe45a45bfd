----------------------------- MODULE MCDialogue ------------------------------
(***************************************************************************)
(* Every command against a contract wrong about at most one name, with     *)
(* one late answer and one fault.                                          *)
(***************************************************************************)
EXTENDS Dialogue

MCCommands == Tools

\* The longest script has the late answer or the fault, the others both.
MCTrouble == [t \in Tools |-> IF t = "records" THEN {<<1, 0>>, <<0, 1>>} ELSE {<<1, 1>>}]
=============================================================================
