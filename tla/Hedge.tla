-------------------------------- MODULE Hedge --------------------------------
(***************************************************************************)
(* Does a second offer of a block make its acknowledgement arrive sooner?  *)
(* (src/src/hedge.rs.)  Rounds of one trial per arm: the control and one   *)
(* arm per hedge instant T.  A trial puts a block, hedges it once if it is *)
(* unacknowledged when its T comes round, and watches the acknowledgement  *)
(* (on the writer) and the read-back (on the reader) until it has both or  *)
(* its deadline passes.  The table compares, at each T, the trials that    *)
(* were hedged with the control's trials that `unacked_at` counts.         *)
(***************************************************************************)
EXTENDS Naturals, Sequences, FiniteSetsExt

CONSTANTS
  Ts,        \* the hedge instants, ts_ms
  MaxRounds, \* --max-rounds
  Target,    \* conditioned trials wanted on both sides of every T
  Deadline,  \* the longest a trial goes on
  Probe,     \* PROBE: the longest an answer to a read-back is waited for
  Lag,       \* SEND: the longest a send is waited for
  MaxErr     \* bound: puts that the node refuses

ASSUME HedgeAssumption ==
  /\ Ts \subseteq Nat \ {0} /\ Ts # {}
  /\ MaxRounds \in Nat \ {0} /\ Deadline \in Nat \ {0}
  /\ Target \in Nat /\ MaxErr \in Nat
  /\ Probe \in Nat \ {0} /\ Lag \in Nat \ {0}

Control == 0         \* the arm that never hedges
Arms == {Control} \cup Ts
Unread == 0          \* a trial's ack while it has none: no answer is instant

VARIABLES
  phase,     \* the step of the pass; "over" or "bailed" after the run
  round,     \* rounds begun
  todo,      \* arms the round has still to run, the current one included
  clock,     \* time since the current trial's first send
  ack,       \* when its acknowledgement was read
  readable,  \* its block was read back
  hedged,    \* it was put a second time
  marked,    \* its T has come round
  probeAt,   \* when the next read-back attempt is due
  due,       \* puts the node has not answered: of this trial, of older ones
  socket,    \* answers that arrived at the writer, oldest first
  refused,   \* puts answered with an error
  trials,    \* what each arm's finished trials say
  reason     \* why the run stopped

hvars == <<phase, round, todo, clock, ack, readable, hedged, marked, probeAt,
          due, socket, refused, trials, reason>>

outcome == <<ack, readable, hedged, marked>>
node == <<due, socket, refused>>
run == <<round, todo, trials, reason>>

arm == Min(todo)

-----------------------------------------------------------------------------
HInit ==
  /\ phase = "round" /\ round = 0 /\ todo = {}
  /\ clock = 0 /\ ack = Unread /\ readable = FALSE
  /\ hedged = FALSE /\ marked = FALSE /\ probeAt = 0
  /\ due = [own |-> 0, old |-> 0] /\ socket = <<>> /\ refused = 0
  /\ trials = [a \in Arms |-> <<>>]
  /\ reason = "no"

(* A send takes its time; the put is answered some time, or never.         *)
put ==
  /\ \E lag \in 1 .. Lag : clock' = clock + lag
  /\ due' = [due EXCEPT !.own = @ + 1]
  /\ UNCHANGED <<socket, refused>>

(* `trial` begins: the answers still to come are those of other keys.      *)
Begin ==
  /\ phase = "arm"
  /\ phase' = "while"
  /\ \E lag \in 1 .. Lag : clock' = lag
  /\ due' = [own |-> 1, old |-> due.own + due.old]
  /\ socket' = [i \in DOMAIN socket |->
                  IF socket[i] = "own" THEN "old" ELSE socket[i]]
  /\ UNCHANGED <<outcome, probeAt, refused, run>>

Unfinished == clock < Deadline /\ (ack = Unread \/ ~readable)

(* The head of a pass: the mark, the hedge of a trial whose                *)
(* acknowledgement has not been READ by then, and whether a read-back is   *)
(* due, all by the clock as it was before the hedge was sent.              *)
Mark ==
  /\ phase = "while" /\ Unfinished
  /\ phase' = IF ~readable /\ clock >= probeAt THEN "probe" ELSE "look"
  /\ IF arm # Control /\ ~marked /\ clock >= arm
     THEN /\ marked' = TRUE
          /\ IF ack = Unread
             THEN hedged' = TRUE /\ put
             ELSE UNCHANGED <<hedged, clock, node>>
     ELSE UNCHANGED <<marked, hedged, clock, node>>
  /\ UNCHANGED <<ack, readable, probeAt, run>>

(* One read-back attempt on the reader: the get is sent, which takes its   *)
(* time, and only then the wait for its answer begins.  It is matched by   *)
(* key, so whatever else the reader yields only takes time.                *)
ReadBack ==
  /\ phase = "probe"
  /\ phase' = "look"
  /\ \E sent \in 0 .. Lag, took \in 1 .. Probe, hit \in BOOLEAN :
       /\ readable' = hit
       /\ clock' = clock + sent + took
       /\ probeAt' = clock' + Probe
  /\ UNCHANGED <<ack, hedged, marked, node, run>>

(* The short look at the writer: one answer, or a tick without one.        *)
Look ==
  /\ phase = "look"
  /\ \/ /\ ack # Unread
        /\ phase' = "while"
        /\ clock' = clock + 1      \* the loop spins until a read-back is due
        /\ UNCHANGED <<ack, socket>>
     \/ /\ ack = Unread /\ socket = <<>>
        /\ phase' = "while"
        /\ clock' = clock + 1
        /\ UNCHANGED <<ack, socket>>
     \/ /\ ack = Unread /\ socket # <<>>
        /\ socket' = Tail(socket)
        /\ ack' = IF Head(socket) = "own" THEN clock ELSE ack
        /\ phase' = IF Head(socket) = "error" THEN "bailed" ELSE "while"
        /\ UNCHANGED clock
  /\ UNCHANGED <<readable, hedged, marked, probeAt, due, refused, run>>

(* Slip: a trial that never acked is not in the population.                *)
unacked_atAcked(a, t) == a # Unread /\ a > t

(* "its ack came later than T, or never".                                  *)
unacked_at(a, t) == a = Unread \/ a > t

(* What the tables ask of a trial: of the control, what unacked_at says.   *)
Row == [hedged |-> hedged,
        unacked |-> {t \in Ts : arm = Control /\ unacked_at(ack, t)}]

(* The population of each side at T.                                       *)
Fired(t) == {i \in DOMAIN trials[t] : trials[t][i].hedged}
Pool(t) == {i \in DOMAIN trials[Control] : t \in trials[Control][i].unacked}

(* Slip: one T that has its population is enough.                          *)
enoughOne ==
  \E t \in Ts : Cardinality(Pool(t)) >= Target /\ Cardinality(Fired(t)) >= Target

enough ==
  \A t \in Ts : Cardinality(Pool(t)) >= Target /\ Cardinality(Fired(t)) >= Target

(* The trial's own variables are gone with it.                             *)
NoTrial ==
  /\ clock' = 0 /\ ack' = Unread /\ probeAt' = 0
  /\ readable' = FALSE /\ hedged' = FALSE /\ marked' = FALSE

(* A trial is over: its row is filed under its arm, and the next arm, or   *)
(* the next round, is begun.                                               *)
EndTrial ==
  /\ phase = "while" /\ ~Unfinished
  /\ trials' = [trials EXCEPT ![arm] = Append(@, Row)]
  /\ todo' = todo \ {arm}
  /\ phase' = IF todo' = {} THEN "round" ELSE "arm"
  /\ NoTrial
  /\ UNCHANGED <<round, node, reason>>

(* The head of the next round; `enough` is asked before it is begun.       *)
EndRound ==
  /\ phase = "round"
  /\ reason' = IF round = MaxRounds THEN "cap" ELSE IF enough THEN "target" ELSE "no"
  /\ IF reason' = "no"
     THEN phase' = "arm" /\ round' = round + 1 /\ todo' = Arms
     ELSE phase' = "over" /\ UNCHANGED <<round, todo>>
  /\ UNCHANGED <<clock, outcome, probeAt, node, trials>>

(* The run's budget is looked at before every trial.                       *)
Budget ==
  /\ phase = "arm"
  /\ phase' = "over" /\ reason' = "budget"
  /\ UNCHANGED <<round, todo, clock, outcome, probeAt, node, trials>>

(* A send fails on either connection.                                      *)
SendFails ==
  /\ \/ phase = "arm"
     \/ /\ phase = "while" /\ Unfinished
        /\ arm # Control /\ ~marked /\ clock >= arm /\ ack = Unread
     \/ phase = "probe"
  /\ phase' = "bailed"
  /\ UNCHANGED <<clock, outcome, probeAt, node, run>>

(* The node answers a put, this trial's or an older one's, at any moment.  *)
Answer(whose) ==
  /\ phase \notin {"over", "bailed"}
  /\ due[whose] > 0
  /\ due' = [due EXCEPT ![whose] = @ - 1]
  /\ \/ socket' = Append(socket, whose) /\ UNCHANGED refused
     \/ /\ refused < MaxErr
        /\ refused' = refused + 1
        /\ socket' = Append(socket, "error")
  /\ UNCHANGED <<phase, clock, outcome, probeAt, run>>

Harness == Begin \/ Mark \/ ReadBack \/ Look \/ EndTrial \/ EndRound \/ Budget

HNext == Harness \/ SendFails \/ \E whose \in {"own", "old"} : Answer(whose)

HSpec == HInit /\ [][HNext]_hvars

-----------------------------------------------------------------------------
(* Properties.                                                             *)

(* A hedged trial is over.                                                 *)
Finished == phase = "while" /\ ~Unfinished /\ arm # Control

(* What one pass may add to the clock before it looks at the writer.       *)
Pass == Lag + Probe

(* The population of the hedged arm is part of what `unacked_at` would     *)
(* have counted of it, and leaves out only trials that were acknowledged   *)
(* in the very pass in which T came round, a send and a wait long: a hedge *)
(* never fires on a trial the control would not count, and a trial that    *)
(* never acked is always hedged, if its deadline leaves that pass after T. *)
PopulationsMatch ==
  Finished =>
    /\ hedged => unacked_at(ack, arm)
    /\ ~hedged /\ unacked_at(ack, arm) /\ arm + Pass < Deadline =>
         ack # Unread /\ ack < arm + Pass

(* The run stops for the reason it prints: on its target only when both    *)
(* sides of EVERY T have their population, and otherwise only after all    *)
(* its rounds or on its budget; and no arm is ever more than one trial     *)
(* ahead of another, whatever made it stop.                                *)
StopsForItsReason ==
  /\ reason = "target" =>
       \A t \in Ts : Cardinality(Pool(t)) >= Target
                       /\ Cardinality(Fired(t)) >= Target
  /\ reason = "cap" => \A a \in Arms : Len(trials[a]) = MaxRounds
  /\ \A a, b \in Arms : Len(trials[a]) <= Len(trials[b]) + 1
=============================================================================
