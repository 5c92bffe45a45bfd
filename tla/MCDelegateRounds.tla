-------------------------- MODULE MCDelegateRounds --------------------------
(* Small instances of DelegateRounds for TLC.                              *)
EXTENDS DelegateRounds
=============================================================================
