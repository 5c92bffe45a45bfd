---------------------------- MODULE MCPutMinted ----------------------------
(* Small instances of PutMinted for TLC.                                   *)
EXTENDS PutMinted
=============================================================================
