------------------------------ MODULE PutShape -------------------------------
(***************************************************************************)
(* One payload put as one contract or as several at once, watched on two   *)
(* connections (src/src/putshape.rs, trial).  The pieces go out and their  *)
(* acknowledgements are collected as in ParallelBatch; beside that, a      *)
(* second connection asks for the pieces in turn until each reads back.    *)
(* Both loops end at one deadline, and the trial when both have ended.     *)
(* Both connections are kept from trial to trial, with all that is still   *)
(* unanswered on them.                                                     *)
(***************************************************************************)
EXTENDS ParallelBatch

VARIABLES
  kind,     \* "parallel": the ladder's batches, "split": the trials here
  expired,  \* the trial's deadline has passed
  stale,    \* answers to earlier trials' puts that this one discarded
  left,     \* pieces the reader's pass has still to try
  still,    \* pieces the pass has tried in vain
  asking,   \* the piece of the running probe, NoPiece between probes
  read,     \* pieces of this trial that were read back
  gets,     \* pieces with a GET the node may still answer
  stored,   \* pieces the node can serve
  trials    \* what each finished trial says

rvars == <<left, still, asking, read, gets>>
svars == <<kind, expired, stale, rvars, stored, trials>>
pvars == <<vars, svars>>

NoPiece == <<0, 0>>
Pieces == Range(Order(batch))

PInit ==
  /\ Init
  /\ kind \in {"parallel", "split"}
  /\ kind = "split" => due = {}
  /\ expired = FALSE /\ stale = 0
  /\ left = {} /\ still = {} /\ asking = NoPiece /\ read = {}
  /\ gets = {} /\ stored = {} /\ trials = <<>>

Parallel == kind = "parallel" /\ Next /\ UNCHANGED svars

-----------------------------------------------------------------------------
(* The writer's side.  The budget is looked at before every trial.         *)
Budget ==
  /\ kind = "split" /\ phase = "issue" /\ sent = {}
  /\ phase' = "done"
  /\ UNCHANGED <<batch, sent, perPut, done, due, repeats, answered, runs, svars>>

PutPiece ==
  /\ kind = "split" /\ (Issue \/ SendFailed)
  /\ UNCHANGED svars

(* All are sent: both loops begin.                                         *)
BothBegin ==
  /\ kind = "split" /\ Collect
  /\ left' = Pieces
  /\ UNCHANGED <<kind, expired, stale, still, asking, read, gets, stored, trials>>

(* An answer names its put: this trial's are collected, others are stale.  *)
CollectAck(p) ==
  /\ kind = "split" /\ ~expired /\ Ack(p)
  /\ stale' = IF p \in sent THEN stale ELSE stale + 1
  /\ UNCHANGED <<kind, expired, rvars, stored, trials>>

AckError(p) == kind = "split" /\ ~expired /\ NodeError(p) /\ UNCHANGED svars

Deadline ==
  /\ kind = "split" /\ phase = "collect" /\ ~expired
  /\ expired' = TRUE
  /\ UNCHANGED <<vars, kind, stale, rvars, stored, trials>>

-----------------------------------------------------------------------------
(* The reader's side: one bounded attempt per piece and pass, and none     *)
(* begun after the deadline.                                               *)
Polling == kind = "split" /\ phase = "collect"

Ask(p) ==
  /\ Polling /\ asking = NoPiece /\ ~expired /\ p \in left
  /\ \A q \in left : p[2] <= q[2]
  /\ asking' = p /\ gets' = gets \cup {p}
  /\ UNCHANGED <<vars, kind, expired, stale, left, still, read, stored, trials>>

(* Slip: any piece that is still wanted is taken for the one asked for.    *)
ReadAnswerAny(p) ==
  /\ Polling /\ asking # NoPiece /\ p \in gets \cap stored
  /\ gets' = gets \ {p}
  /\ read' = read \cup {asking} /\ left' = left \ {asking} /\ asking' = NoPiece
  /\ UNCHANGED <<vars, kind, expired, stale, still, stored, trials>>

(* A late answer, of another piece or of another trial, is read and left.  *)
ReadAnswer(p) ==
  /\ Polling /\ asking # NoPiece /\ p \in gets \cap stored
  /\ gets' = gets \ {p}
  /\ IF p = asking
     THEN read' = read \cup {p} /\ left' = left \ {p} /\ asking' = NoPiece
     ELSE UNCHANGED <<read, left, asking>>
  /\ UNCHANGED <<vars, kind, expired, stale, still, stored, trials>>

(* The attempt's bound passes, or an error is read.                        *)
Missed ==
  /\ Polling /\ asking # NoPiece
  /\ left' = left \ {asking} /\ still' = still \cup {asking} /\ asking' = NoPiece
  /\ UNCHANGED <<vars, kind, expired, stale, read, gets, stored, trials>>

NextPass ==
  /\ Polling /\ left = {} /\ still # {} /\ ~expired
  /\ left' = still /\ still' = {}
  /\ UNCHANGED <<vars, kind, expired, stale, asking, read, gets, stored, trials>>

(* A failed send on the reader's connection ends the run.                  *)
AskFails ==
  /\ Polling /\ asking = NoPiece /\ ~expired /\ left # {}
  /\ phase' = "bailed"
  /\ UNCHANGED <<batch, sent, perPut, done, due, repeats, answered, runs, svars>>

(* Both loops are over, because they have everything or the deadline has   *)
(* passed.  A clock that did not see all the pieces has no last one.       *)
EndTrial ==
  /\ Polling
  /\ perPut = Pieces \/ expired
  /\ asking = NoPiece /\ (left \cup still = {} \/ expired)
  /\ trials' = Append(trials,
       [acks |-> Len(done), readable |-> Cardinality(read), stale |-> stale,
        ack_last |-> Len(done) = Sizes[batch],
        readable_last |-> Cardinality(read) = Sizes[batch]])
  /\ sent' = {} /\ perPut' = {} /\ done' = <<>>
  /\ IF batch < Len(Sizes)
     THEN batch' = batch + 1 /\ phase' = "issue"
     ELSE phase' = "done" /\ UNCHANGED batch
  /\ expired' = FALSE /\ stale' = 0
  /\ left' = {} /\ still' = {} /\ read' = {}
  /\ UNCHANGED <<due, repeats, answered, runs, kind, asking, gets, stored>>

(* The node can serve a piece it was put, some time or never.              *)
Store(p) ==
  /\ kind = "split" /\ phase \in {"issue", "collect"}
  /\ p \in sent \cup gets /\ p \notin stored
  /\ stored' = stored \cup {p}
  /\ UNCHANGED <<vars, kind, expired, stale, rvars, trials>>

Split ==
  \/ Budget \/ PutPiece \/ BothBegin \/ Deadline \/ Missed \/ NextPass
  \/ AskFails \/ EndTrial
  \/ \E p \in Put : CollectAck(p) \/ AckError(p) \/ Ask(p) \/ ReadAnswer(p) \/ Store(p)

PNext == Parallel \/ Split

PSpec == PInit /\ [][PNext]_pvars

-----------------------------------------------------------------------------
(* Properties.                                                             *)

Of(b, ps) == Cardinality({p \in ps : p[1] = b})

(* "An incomplete trial is not a fast one", and a late answer of an        *)
(* earlier trial is not charged to a later one: of each of a trial's       *)
(* clocks, the last piece is given only when every piece of THAT trial was *)
(* acknowledged, or was there to be read, whatever else the two            *)
(* connections yielded; what it counts short of that is not more; and what *)
(* it discards as late is of earlier trials, so the first discards none.   *)
TrialIsOwn ==
  \A t \in DOMAIN trials :
    /\ trials[t].acks <= Of(t, answered)
    /\ trials[t].readable <= Of(t, stored)
    /\ trials[t].ack_last => Range(Order(t)) \subseteq answered
    /\ trials[t].readable_last => Range(Order(t)) \subseteq stored
    /\ LET earlier == {p \in answered : p[1] < t}
       IN  trials[t].stale <= IF earlier = {} THEN 0
                              ELSE Cardinality(earlier) + MaxRepeat
=============================================================================
