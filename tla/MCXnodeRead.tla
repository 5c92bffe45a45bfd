---------------------------- MODULE MCXnodeRead ----------------------------
(* Small instances of XnodeRead for TLC.  The order of the file is fixed   *)
(* up to the names of the keys, which symmetry makes interchangeable.      *)
EXTENDS XnodeRead, TLC

Interchangeable == Permutations(Key)
=============================================================================
