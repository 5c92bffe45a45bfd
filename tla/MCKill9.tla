------------------------------ MODULE MCKill9 ------------------------------
(* Small instances of Kill9 for TLC.                                       *)
EXTENDS Kill9
=============================================================================
