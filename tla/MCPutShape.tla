----------------------------- MODULE MCPutShape -----------------------------
(* Small instances of PutShape, and of the batches of ParallelBatch.       *)
EXTENDS PutShape

TwoBatches == <<2, 2>>
=============================================================================
