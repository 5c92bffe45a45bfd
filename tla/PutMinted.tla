------------------------------ MODULE PutMinted ------------------------------
(***************************************************************************)
(* The put role of the cross-node measurement (src/src/xnode.rs,           *)
(* put_minted).  One loop issues the planned puts, one per pass, reads the *)
(* acknowledgements, marks each trial at its own T, re-puts ("hedges") the *)
(* unacknowledged trials of one arm, reads one block back, and decides     *)
(* whether to stop.  Every put is awaited, so answers keep arriving in the *)
(* socket while the loop is busy with something else.                      *)
(***************************************************************************)
EXTENDS Naturals, FiniteSets

CONSTANTS
  N,         \* planned trials
  T,         \* the hedge instant after a trial's send (the run has one)
  Until,     \* milestone: conditioned trials wanted in each arm, 0 for none
  Settle,    \* how long stragglers are waited for
  Budget,    \* --timeout-secs
  Lag,       \* the longest time one put's send takes
  Lags,      \* bound: the times it may take
  ProbeTime, \* bound: the longest time a read-back takes, its own send included
  MayRefuse  \* TRUE: the node may answer a put with an error

ASSUME MintedAssumption ==
  /\ N \in Nat \ {0}
  /\ Budget \in Nat \ {0} /\ ProbeTime \in Nat \ {0}
  /\ Lags \subseteq 0 .. Lag /\ Lags # {}
  /\ T \in Nat /\ Settle \in Nat /\ Lag \in Nat /\ Until \in Nat
  /\ MayRefuse \in BOOLEAN

Trial == 1 .. N

(* The arms are interleaved when the trials are minted.                    *)
Arm(i) == IF i % 2 = 1 THEN "control" ELSE "hedge"

VARIABLES
  now,       \* the clock; a pass takes a unit at least
  phase,     \* the step of the pass; "done" or "bailed" after the loop
  sent,      \* trials.len(): trials 1 .. sent have been sent
  t0,        \* t0[i]: when trial i was sent
  due,       \* puts the node has not answered: <<trial, attempt>>
  socket,    \* answers that arrived and are not read
  errors,    \* errors that arrived and are not read
  acked,     \* trials whose acknowledgement has been read (ack_ms)
  mark,      \* unacked_at_t: "none", "unacked" or "acked"
  seen,      \* the instant the marks of this pass are taken at
  hedged,    \* trials that were put again
  readable,  \* trials this node served back (confirm_ms)
  ended,     \* why the loop stopped
  early,     \* trials whose acknowledgement arrived before their T
  behind     \* trials whose acknowledgement a drain left behind an error

node == <<due, socket, errors, early>>
vars == <<now, phase, sent, t0, node, acked, mark, seen, hedged, readable,
          ended, behind>>

Sent == 1 .. sent

-----------------------------------------------------------------------------
Init ==
  /\ now = 0
  /\ phase = "send"
  /\ sent = 0
  /\ t0 = [i \in Trial |-> 0]
  /\ due = {} /\ socket = {} /\ errors = 0
  /\ acked = {}
  /\ mark = [i \in Trial |-> "none"]
  /\ seen = 0
  /\ hedged = {}
  /\ readable = {}
  /\ ended = "no"
  /\ early = {} /\ behind = {}

(* send_req: the put leaves, and the await takes its time.                 *)
SendReq(put) ==
  /\ due' = due \cup {put}
  /\ \E lag \in Lags : now' = now + lag
  /\ UNCHANGED <<socket, errors, early>>

(* Slip: every put is sent before the loop looks at anything else.         *)
SendAllFirst ==
  /\ phase = "send" /\ sent < N
  /\ sent' = sent + 1
  /\ t0' = [t0 EXCEPT ![sent + 1] = now]
  /\ SendReq(<<sent + 1, 1>>)
  /\ phase' = IF sent' = N THEN "drain" ELSE phase
  /\ UNCHANGED <<acked, mark, seen, hedged, readable, ended, behind>>

(* One send per pass, so a trial's clock starts when its bytes go out.     *)
SendOne ==
  /\ phase = "send" /\ sent < N
  /\ sent' = sent + 1
  /\ t0' = [t0 EXCEPT ![sent + 1] = now]
  /\ SendReq(<<sent + 1, 1>>)
  /\ phase' = "drain"
  /\ UNCHANGED <<acked, mark, seen, hedged, readable, ended, behind>>

AllSent ==
  /\ phase = "send" /\ sent = N
  /\ phase' = "drain"
  /\ UNCHANGED <<now, sent, t0, node, acked, mark, seen, hedged, readable, ended, behind>>

(* Slip: the drain waits for an answer instead of looking for one.         *)
DrainWaits ==
  /\ phase = "drain"
  /\ socket # {}
  /\ socket' = {}
  /\ acked' = acked \cup {p[1] : p \in socket}
  /\ seen' = now
  /\ phase' = "mark"
  /\ UNCHANGED <<now, sent, t0, due, errors, early, mark, hedged, readable, ended, behind>>

(* Slip: one answer is read per pass.                                      *)
DrainOne ==
  /\ phase = "drain"
  /\ \E got \in SUBSET socket :
       /\ got = {} => socket = {} \/ errors > 0
       /\ Cardinality(got) <= 1
       /\ socket' = socket \ got
       /\ acked' = acked \cup {p[1] : p \in got}
  /\ errors' = IF errors = 0 THEN 0 ELSE errors - 1
  /\ behind' = IF errors = 0 THEN behind ELSE behind \cup {p[1] : p \in socket'}
  /\ seen' = now
  /\ phase' = "mark"
  /\ UNCHANGED <<now, sent, t0, due, early, mark, hedged, readable, ended>>

(* Everything that has arrived is read without waiting; an error ends the  *)
(* drain, and what is behind it stays in the socket for the next pass.     *)
Drain ==
  /\ phase = "drain"
  /\ \E got \in SUBSET socket :
       /\ errors = 0 => got = socket
       /\ socket' = socket \ got
       /\ acked' = acked \cup {p[1] : p \in got}
       /\ behind' = behind \cup {p[1] : p \in socket \ got}
  /\ errors' = IF errors = 0 THEN 0 ELSE errors - 1
  /\ seen' = now
  /\ phase' = "mark"
  /\ UNCHANGED <<now, sent, t0, due, early, mark, hedged, readable, ended>>

(* The trials whose T has passed and that are not marked, oldest first.    *)
Overdue == {i \in Sent : mark[i] = "none" /\ seen >= t0[i] + T}

(* The mark is taken in both arms; only the hedge arm acts on it.  The     *)
(* instant and the acknowledgements are those of the pass, whatever is     *)
(* sent on the way.                                                        *)
Mark(i) ==
  /\ phase = "mark"
  /\ i \in Overdue /\ \A j \in Overdue : i <= j
  /\ mark' = [mark EXCEPT ![i] = IF i \in acked THEN "acked" ELSE "unacked"]
  /\ phase' = IF Arm(i) = "hedge" /\ i \notin acked THEN "reput" ELSE phase
  /\ UNCHANGED <<now, sent, t0, node, acked, seen, hedged, readable, ended, behind>>

Conditioned(arm) == {i \in Sent : Arm(i) = arm /\ mark[i] = "unacked"}
Firing == Conditioned("hedge") \ hedged

(* The same bytes are sent again, under the same key; the trial counts as  *)
(* hedged when the send is over.                                           *)
Reput(i) ==
  /\ phase = "reput" /\ i \in Firing
  /\ SendReq(<<i, 2>>)
  /\ hedged' = hedged \cup {i}
  /\ phase' = "mark"
  /\ UNCHANGED <<sent, t0, acked, mark, seen, readable, ended, behind>>

EndMarks ==
  /\ phase = "mark" /\ Overdue = {}
  /\ phase' = "probe"
  /\ UNCHANGED <<now, sent, t0, node, acked, mark, seen, hedged, readable, ended, behind>>

Marked == {i \in Sent : mark[i] # "none"}

(* One read-back attempt per pass, of a trial that has none yet (which one *)
(* is left open), on a connection of its own: a send and a short wait.     *)
Probe ==
  /\ phase = "probe"
  /\ \/ UNCHANGED readable
     \/ \E i \in Sent \ readable : readable' = readable \cup {i}
  /\ \E took \in 1 .. ProbeTime : now' = now + took
  /\ phase' = "check"
  /\ UNCHANGED <<sent, t0, node, acked, mark, seen, hedged, ended, behind>>

Milestone ==
  /\ Until > 0
  /\ \A arm \in {"control", "hedge"} : Cardinality(Conditioned(arm)) >= Until

Settled == Sent \subseteq readable /\ Sent \subseteq acked

(* Everything that can still happen has happened.                          *)
Exhausted ==
  /\ sent = N
  /\ Marked = Sent
  /\ Settled \/ now >= Settle     \* spent_waiting started with the run

Verdict ==
  IF Milestone THEN "milestone"
  ELSE IF Exhausted THEN (IF Settled THEN "settled" ELSE "expired")
  ELSE IF now >= Budget THEN "budget"
  ELSE "no"

(* The end of a pass, and the test of the next one's loop condition.  A    *)
(* run that stops short of its plan, not at its milestone, is refused      *)
(* (stimulus_ok).                                                          *)
Check ==
  /\ phase = "check"
  /\ ended' = Verdict
  /\ phase' = IF Verdict = "no" THEN "send"
              ELSE IF Verdict = "budget" /\ sent < N THEN "bailed"
              ELSE "done"
  /\ UNCHANGED <<now, sent, t0, node, acked, mark, seen, hedged, readable, behind>>

(* A send or a probe fails, and the error ends the run.                    *)
Fail ==
  /\ \/ phase = "send" /\ sent < N
     \/ phase = "reput"
     \/ phase = "probe" /\ Sent \ readable # {}
  /\ phase' = "bailed"
  /\ UNCHANGED <<now, sent, t0, node, acked, mark, seen, hedged, readable, ended, behind>>

Running == phase \notin {"done", "bailed"}

(* The node answers a put, at any moment, in any order.                    *)
Arrive(put) ==
  /\ Running
  /\ put \in due
  /\ due' = due \ {put}
  /\ \/ /\ socket' = socket \cup {put}
        /\ early' = IF now < t0[put[1]] + T THEN early \cup {put[1]} ELSE early
        /\ UNCHANGED errors
     \/ MayRefuse /\ errors' = errors + 1 /\ UNCHANGED <<socket, early>>
  /\ UNCHANGED <<now, phase, sent, t0, acked, mark, seen, hedged, readable, ended, behind>>

Pass ==
  \/ SendOne \/ AllSent \/ Drain
  \/ \E i \in Trial : Mark(i) \/ Reput(i)
  \/ EndMarks \/ Probe \/ Check

Next == Pass \/ Fail \/ \E put \in Trial \X {1, 2} : Arrive(put)

Spec == Init /\ [][Next]_vars

(* Every await of the loop is bounded, so the loop always goes on; nothing *)
(* is assumed of the node.                                                 *)
FairSpec == Spec /\ WF_vars(Pass)

-----------------------------------------------------------------------------
(* Properties.                                                             *)

TypeOK ==
  /\ now \in Nat
  /\ phase \in {"send", "drain", "mark", "reput", "probe", "check", "done", "bailed"}
  /\ sent \in 0 .. N
  /\ t0 \in [Trial -> Nat]
  /\ due \subseteq Sent \X {1, 2} /\ socket \subseteq Sent \X {1, 2}
  /\ errors \in Nat
  /\ acked \subseteq Sent /\ hedged \subseteq Sent /\ readable \subseteq Sent
  /\ early \subseteq Sent /\ behind \subseteq Sent
  /\ mark \in [Trial -> {"none", "unacked", "acked"}]
  /\ seen \in 0 .. now
  /\ ended \in {"no", "milestone", "settled", "expired", "budget"}

(* A trial is conditioned only if its acknowledgement had not arrived by   *)
(* its own T, whatever the loop was sending at T and in either arm; the    *)
(* exception is an acknowledgement a drain left behind an error.           *)
ConditionedIsTrue ==
  \A i \in Sent : mark[i] = "unacked" /\ i \in early => i \in behind

(* "The hedges keep their timing" (src/src/xnode.rs:215): a re-put starts  *)
(* at its own T, but for one read-back, one send of another put, and the   *)
(* sends of the re-puts before it; however many trials the run has.        *)
HedgesKeepTime ==
  phase = "reput" =>
    \A i \in Firing : now < t0[i] + T + ProbeTime + Lag * (1 + Cardinality(hedged))

(* The role ends: the loop stops by itself or by its budget.               *)
Terminates == <>(phase \in {"done", "bailed"})
=============================================================================
