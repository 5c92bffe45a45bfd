------------------------------ MODULE MCHedge ------------------------------
(* Small instances of Hedge for TLC.                                       *)
EXTENDS Hedge
=============================================================================
