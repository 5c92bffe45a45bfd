------------------------------ MODULE MCParity ------------------------------
(* Small instances of Parity for TLC.                                      *)
EXTENDS Parity
MCSizes == <<1>>
=============================================================================
