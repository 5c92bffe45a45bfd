------------------------------ MODULE MCLedger ------------------------------
(* Small instances of Ledger for TLC: the uses of a connection.            *)
EXTENDS Ledger

Use(f, a, r, n) == [forms |-> f, awaits |-> a, refuse |-> r, notify |-> n]

Write == Use({"blind"}, TRUE, TRUE, 0)
PlainBatch == Use({"plain"}, FALSE, TRUE, 0)
KeyedBatch == Use({"keyed"}, FALSE, FALSE, 0)
BlindBatch == Use({"blind"}, FALSE, FALSE, 0)
Mixed == Use(AllForms, FALSE, TRUE, 1)

Every == {Write, PlainBatch, KeyedBatch, BlindBatch, Mixed}
=============================================================================
