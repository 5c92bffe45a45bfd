--------------------------- MODULE DelegateRounds ---------------------------
(***************************************************************************)
(* The delegate-put probe: the rounds the harness runs (latency.rs,        *)
(* probe_delegate_put; main.rs, ask_raw and poll_stat) against the probe   *)
(* delegate (probe-delegate/src/lib.rs), whose tally lives in secrets.     *)
(*                                                                         *)
(* Round k asks the delegate for k puts from one process() call and polls  *)
(* the tally.  Every message has a connection of its own, so nothing       *)
(* orders a put's answer, a `putk` and a `putstat` at the delegate.        *)
(***************************************************************************)
EXTENDS Naturals, Sequences, FiniteSets

CONSTANT MaxK   \* rounds: the probe asks for 1, 2, ..., MaxK puts

ASSUME RoundsAssumption == MaxK \in Nat \ {0}

Round == 1 .. MaxK
Put == {p \in Round \X Round : p[2] <= p[1]}   \* the i-th put of round k
None == [asked |-> 0, ok |-> 0, err |-> 0]

VARIABLES
  settles,   \* TRUE: this node answers every put before the round gives up
  round,     \* the round the harness runs, MaxK + 1 once it is over
  phase,     \* "send", "listen", "poll" or "bailed"
  inbox,     \* rounds whose `putk` the delegate has not processed
  pending,   \* puts the host has not answered
  tally,     \* the secrets put-asked, put-ok and put-err
  counted,   \* history: the puts the tally counts since its last reset
  inherited, \* history: puts of earlier rounds unanswered at that reset
  reports    \* the rows reported, one per round

vars == <<settles, round, phase, inbox, pending, tally, counted, inherited, reports>>

harness == <<settles, round, phase, reports>>
delegate == <<pending, tally, counted, inherited>>

Init ==
  /\ settles \in BOOLEAN
  /\ round = 1
  /\ phase = "send"
  /\ inbox = {}
  /\ pending = {}
  /\ tally = None
  /\ counted = {}
  /\ inherited = {}
  /\ reports = <<>>

-----------------------------------------------------------------------------
(* The delegate: one process() call per message.                           *)

(* Slip: the tally is told the new round but not reset.                    *)
ProcessPutkKeeps(k) ==
  /\ k \in inbox
  /\ inbox' = inbox \ {k}
  /\ tally' = [tally EXCEPT !.asked = k]
  /\ pending' = pending \cup {p \in Put : p[1] = k}
  /\ counted' = {}
  /\ inherited' = pending
  /\ UNCHANGED harness

(* "putk" resets the tally and returns the round's puts to the host.       *)
ProcessPutk(k) ==
  /\ k \in inbox
  /\ inbox' = inbox \ {k}
  /\ tally' = [asked |-> k, ok |-> 0, err |-> 0]
  /\ pending' = pending \cup {p \in Put : p[1] = k}
  /\ counted' = {}
  /\ inherited' = pending
  /\ UNCHANGED harness

(* Slip: the counter is set, not incremented.                              *)
bumpSets(t, field) == [t EXCEPT ![field] = 1]

bump(t, field) == [t EXCEPT ![field] = @ + 1]

(* PutContractResponse: the tally is bumped whichever round asked.         *)
ProcessPutResponse(p, field) ==
  /\ p \in pending
  /\ pending' = pending \ {p}
  /\ tally' = bump(tally, field)
  /\ counted' = counted \cup {p}
  /\ UNCHANGED <<harness, inbox, inherited>>

-----------------------------------------------------------------------------
(* The harness.                                                            *)

SendPutk ==
  /\ phase = "send" /\ round \in Round
  /\ inbox' = inbox \cup {round}
  /\ phase' = "listen"
  /\ UNCHANGED <<settles, round, reports, delegate>>

(* ask_raw stops at its first reply, at an error or after its bound; an    *)
(* error of this connection is printed beside the row, nothing more.       *)
StopListening ==
  /\ phase = "listen"
  /\ phase' = "poll"
  /\ UNCHANGED <<settles, round, reports, inbox, delegate>>

Report(row) ==
  /\ reports' = Append(reports, row)
  /\ round' = round + 1
  /\ phase' = "send"
  /\ UNCHANGED <<settles, inbox, delegate>>

(* Slip: any tally whose asked and answered agree is this round's.         *)
CompleteAny(t) == t.ok + t.err = t.asked

Complete(t) == t.asked = round /\ t.ok + t.err = round   \* "put=k/k"

(* poll_stat finds as many answers as this round asked for.                *)
PollDone ==
  /\ phase = "poll"
  /\ Complete(tally)
  /\ Report(tally)

(* Slip: the poll has no deadline, it waits for the last answer.           *)
PollPatient ==
  /\ phase = "poll"
  /\ inbox = {} /\ pending = {}
  /\ Report(tally)

(* The settle time is over: the last `putstat` is reported as it stands,   *)
(* and when no reply comes the row says so (None, "no reply to putstat").  *)
PollExpired ==
  /\ phase = "poll"
  /\ \/ /\ settles => inbox = {} /\ pending = {}
        /\ Report(tally)
     \/ ~settles /\ Report(None)

(* The connection of a `putk` cannot be opened, or the one of a poll       *)
(* reports an error (`ask` fails): the probe ends.                         *)
ConnectionError ==
  /\ \/ phase = "send" /\ round \in Round
     \/ phase = "poll"
  /\ phase' = "bailed"
  /\ UNCHANGED <<settles, round, reports, inbox, delegate>>

Harness == SendPutk \/ StopListening \/ PollDone \/ PollExpired

Delegate ==
  \/ \E k \in Round : ProcessPutk(k)
  \/ \E p \in Put, field \in {"ok", "err"} : ProcessPutResponse(p, field)

Next == Harness \/ ConnectionError \/ Delegate

Spec == Init /\ [][Next]_vars

(* The harness runs and its timers fire.  A node that settles also         *)
(* answers; of another nothing is assumed.                                 *)
FairSpec == Spec /\ WF_vars(Harness) /\ WF_vars(settles /\ Delegate)

-----------------------------------------------------------------------------
(* Properties.                                                             *)

Row == [asked : 0 .. MaxK, ok : Nat, err : Nat]

TypeOK ==
  /\ settles \in BOOLEAN
  /\ round \in 1 .. MaxK + 1
  /\ phase \in {"send", "listen", "poll", "bailed"}
  /\ phase \in {"listen", "poll"} => round \in Round
  /\ inbox \subseteq Round
  /\ pending \subseteq Put /\ counted \subseteq Put /\ inherited \subseteq Put
  /\ tally \in Row
  /\ reports \in Seq(Row) /\ Len(reports) = round - 1

(* No answer is lost and none is counted twice across the reset: what the  *)
(* tally counts and what is still unanswered together are the puts of the  *)
(* round it names and the ones an earlier round left behind.               *)
TallyConserved ==
  tally.ok + tally.err + Cardinality(pending)
    = tally.asked + Cardinality(inherited)

(* A row can only exceed what its round asked for by answers that earlier  *)
(* rounds had given up on.                                                 *)
ExcessIsInherited ==
  tally.ok + tally.err > tally.asked => counted \cap inherited # {}

(* On a node that settles, every row is its own round's: as many answers *)
(* as it asked for, and none of another round.                             *)
RowsExact ==
  settles =>
    \A k \in 1 .. Len(reports) :
      reports[k].asked = k /\ reports[k].ok + reports[k].err = k

(* The probe reports a row for every k, or a connection fails.             *)
Terminates == <>(round = MaxK + 1 \/ phase = "bailed")
=============================================================================
