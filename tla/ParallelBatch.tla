---------------------------- MODULE ParallelBatch ----------------------------
(***************************************************************************)
(* The parallel puts of the latency ladder (src/src/latency.rs,            *)
(* measure_parallel): on ONE connection, batch after batch, N puts go out  *)
(* back to back and then every acknowledgement is collected until one      *)
(* deadline.  The series measured before left requests unanswered on the   *)
(* same connection, and a batch that stops at its deadline leaves more.    *)
(***************************************************************************)
EXTENDS Naturals, Sequences, FiniteSets, SequencesExt

CONSTANTS
  Sizes,     \* the batches' sizes, in order
  Left,      \* bound: requests the series before left unanswered
  MayRefuse, \* TRUE: the node may answer a put with an error
  MaxRepeat  \* bound: acknowledgements the node sends once more

ASSUME BatchAssumption ==
  /\ Sizes \in Seq(Nat \ {0}) /\ Sizes # <<>>
  /\ Left \in Nat /\ MaxRepeat \in Nat
  /\ MayRefuse \in BOOLEAN

Batch == 1 .. Len(Sizes)

(* The i-th put of batch b; batch 0 is what the series before left.        *)
Put == {<<0, i>> : i \in 1 .. Left} \cup {<<b, i>> : b \in Batch, i \in 1 .. Max(Range(Sizes))}
Order(b) == [i \in 1 .. Sizes[b] |-> <<b, i>>]

VARIABLES
  batch,    \* the batch being measured
  phase,    \* "issue", "collect", "done" or "bailed"
  sent,     \* puts of this batch that have been sent
  perPut,   \* puts of this batch with a sample
  done,     \* the curve: acknowledgements of this batch, in arrival order
  due,      \* puts the node has not answered
  repeats,  \* acknowledgements sent once more so far
  answered, \* history: puts whose acknowledgement has been read
  runs      \* the ParallelRuns: samples and curve of each batch

vars == <<batch, phase, sent, perPut, done, due, repeats, answered, runs>>

-----------------------------------------------------------------------------
Init ==
  /\ batch = 1
  /\ phase = "issue"
  /\ sent = {}
  /\ perPut = {}
  /\ done = <<>>
  /\ due \in {{<<0, i>> : i \in 1 .. n} : n \in 0 .. Left}
  /\ repeats = 0
  /\ answered = {}
  /\ runs = <<>>

(* One put of the batch goes out.                                          *)
Issue ==
  /\ phase = "issue"
  /\ Cardinality(sent) < Sizes[batch]
  /\ LET p == <<batch, Cardinality(sent) + 1>> IN
       /\ sent' = sent \cup {p}
       /\ due' = due \cup {p}
  /\ UNCHANGED <<batch, phase, perPut, done, repeats, answered, runs>>

SendFailed ==
  /\ phase = "issue"
  /\ Cardinality(sent) < Sizes[batch]
  /\ phase' = "bailed"
  /\ UNCHANGED <<batch, sent, perPut, done, due, repeats, answered, runs>>

Collect ==
  /\ phase = "issue"
  /\ Cardinality(sent) = Sizes[batch]
  /\ phase' = "collect"
  /\ UNCHANGED <<batch, sent, perPut, done, due, repeats, answered, runs>>

Collecting == phase = "collect" /\ Cardinality(perPut) < Sizes[batch]

(* Slip: a duplicate advances the curve.                                   *)
CountRepeats(p) ==
  /\ perPut' = IF p \in sent THEN perPut \cup {p} ELSE perPut
  /\ done' = IF p \in sent THEN Append(done, p) ELSE done

(* Only a first acknowledgement of a put of this batch advances the curve; *)
(* a straggler of an earlier batch is not ours to count.                   *)
Count(p) ==
  /\ perPut' = IF p \in sent THEN perPut \cup {p} ELSE perPut
  /\ done' = IF p \in sent \ perPut THEN Append(done, p) ELSE done

(* recv yields an acknowledgement; the node may say it a second time.      *)
Ack(p) ==
  /\ Collecting
  /\ \/ p \in due /\ due' = due \ {p} /\ UNCHANGED repeats
     \/ p \in answered /\ repeats < MaxRepeat /\ repeats' = repeats + 1
        /\ UNCHANGED due
  /\ answered' = answered \cup {p}
  /\ Count(p)
  /\ UNCHANGED <<batch, phase, sent, runs>>

(* recv yields an error: the batch, and the run, end.                      *)
NodeError(p) ==
  /\ MayRefuse
  /\ Collecting
  /\ p \in due
  /\ due' = due \ {p}
  /\ phase' = "bailed"
  /\ UNCHANGED <<batch, sent, perPut, done, repeats, answered, runs>>

(* A put that is still unanswered is a failed sample, in issue order.      *)
Report ==
  runs' = Append(runs,
    [samples |-> [i \in 1 .. Sizes[batch] |->
                    IF Order(batch)[i] \in perPut THEN "ms" ELSE "no response"],
     curve |-> done])

(* Every put of the batch has a sample, or the deadline passes.            *)
EndBatch ==
  /\ phase = "collect"
  /\ Report
  /\ sent' = {} /\ perPut' = {} /\ done' = <<>>
  /\ IF batch < Len(Sizes)
     THEN batch' = batch + 1 /\ phase' = "issue"
     ELSE phase' = "done" /\ UNCHANGED batch
  /\ UNCHANGED <<due, repeats, answered>>

Client == Issue \/ Collect \/ EndBatch

Next == Client \/ SendFailed \/ \E p \in Put : Ack(p) \/ NodeError(p)

Spec == Init /\ [][Next]_vars

-----------------------------------------------------------------------------
(* Properties.                                                             *)

Answered(r) == {i \in 1 .. Len(r.samples) : r.samples[i] = "ms"}

TypeOK ==
  /\ batch \in Batch
  /\ phase \in {"issue", "collect", "done", "bailed"}
  /\ sent \subseteq Put /\ perPut \subseteq Put /\ due \subseteq Put
  /\ answered \subseteq Put
  /\ \A i \in 1 .. Len(done) : done[i] \in Put
  /\ repeats \in 0 .. MaxRepeat
  /\ Len(runs) <= Len(Sizes)

(* The curve of a batch is its own: its points are the first               *)
(* acknowledgements of the very puts whose samples are latencies, whatever *)
(* stragglers and duplicates arrive in between (the 50 % and 100 % points  *)
(* are read off it); and also the batch that reached its deadline reports  *)
(* N samples ("so the count in the table is N every time").                *)
CurveIsOwn ==
  \A b \in 1 .. Len(runs) :
    /\ IsInjective(runs[b].curve)
    /\ Range(runs[b].curve) = {<<b, i>> : i \in Answered(runs[b])}
    /\ Range(runs[b].curve) \subseteq answered
    /\ Len(runs[b].samples) = Sizes[b]
=============================================================================
