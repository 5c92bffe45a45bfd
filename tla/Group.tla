-------------------------------- MODULE Group --------------------------------
(***************************************************************************)
(* One group of the k-of-n probe (src/src/group.rs, one_group): n pieces   *)
(* are put on one node and read on another, by one of three arms.          *)
(*   raw       each put waits for its acknowledgement, each piece is read  *)
(*             alone with the platform's own bound;                        *)
(*   conc      the same puts, all pieces asked for at once, one attempt;   *)
(*   baseline  puts without waiting, bounded attempts repeated, and        *)
(*             re-puts of the pieces no read has confirmed.                *)
(* Time is counted from the group's first send.                            *)
(***************************************************************************)
EXTENDS Naturals, FiniteSetsExt

CONSTANTS
  N, K,       \* pieces of a group, and how many of them make it readable
  Offer,      \* SEND: the longest a put, or a get of RAW-CONC, is being sent
  AckBound,   \* ACK_BOUND: the longest one acknowledgement is waited for
  TTL,        \* the platform's bound on a read (RAW, RAW-CONC)
  Attempt,    \* attempt_ms: BASELINE's bound on one
  Deadline,   \* group_secs
  Quarter,    \* deadline_in / 4: between two rounds of re-puts
  MaxFaults   \* bound: errors and wrong bodies the nodes send

ASSUME GroupAssumption ==
  /\ N \in Nat \ {0} /\ K \in 1 .. N
  /\ Offer \in Nat /\ AckBound \in Nat \ {0} /\ TTL \in Nat \ {0} /\ Attempt \in Nat \ {0}
  /\ Deadline \in Nat \ {0} /\ Quarter \in Nat \ {0} /\ MaxFaults \in Nat

Arms == {"raw", "conc", "baseline"}
Pieces == 1 .. N
None == 0

VARIABLES
  arm,       \* the group's arm
  stage,     \* put, ack (of a put), ask, collect, round, probe, over, bailed
  clock,     \* time since the first send
  piece,     \* the piece at hand
  until,     \* when the wait at hand is given up
  todo,      \* pieces this round has still to try
  still,     \* pieces of this round that were not read
  hits,      \* when each piece was read
  late,      \* late_acks
  hedgeAt,   \* hedge_after
  hedged,    \* re-puts
  offered,   \* pieces the writer's node was given
  landed,    \* pieces the reader's node can serve
  gets,      \* pieces with a GET the reader's node may still answer
  arrived,   \* answers that arrived at the reader, not read
  faults,    \* errors and wrong bodies so far
  ended      \* connections that have come to their end

loop == <<piece, until, todo, still>>
result == <<hits, late, hedgeAt, hedged>>
far == <<landed, gets, arrived, faults>>
gvars == <<arm, stage, clock, loop, result, offered, far, ended>>

GInit ==
  /\ arm \in Arms
  /\ stage = "put" /\ clock = 0 /\ piece = 1 /\ until = 0
  /\ todo = {} /\ still = {}
  /\ hits = <<>> /\ late = 0 /\ hedgeAt = Quarter /\ hedged = 0
  /\ offered = {} /\ landed = {} /\ gets = {} /\ arrived = {} /\ faults = 0
  /\ ended = {}

Least(a, b) == IF a < b THEN a ELSE b
Read == DOMAIN hits
Up(c) == c \notin ended
Outstanding == todo \cup still
Hedging == arm = "baseline" /\ clock >= hedgeAt /\ Outstanding # {}
RoundDone == stage = "round" /\ (todo = {} \/ clock >= Deadline)

(* `drain` reads until a read times out; on a connection that has ended    *)
(* every read returns, with an error, and the drain goes on.               *)
Stalled ==
  \/ ~Up("writer") /\ (stage = "put" \/ (RoundDone /\ Hedging))
  \/ ~Up("reader") /\ stage = "ask" /\ piece = 1

-----------------------------------------------------------------------------
(* The write side.  BASELINE sends on; the other arms wait first.          *)
ReadSide == IF arm = "conc" THEN "ask" ELSE "round"

NextPiece ==
  IF piece = N
  THEN stage' = ReadSide /\ piece' = 1 /\ todo' = Pieces
  ELSE stage' = "put" /\ piece' = piece + 1 /\ todo' = todo

(* A send is awaited, and takes its time.                                  *)
Sending(bound) == \E d \in 0 .. bound : clock' = clock + d

Put ==
  /\ stage = "put" /\ ~Stalled
  /\ Sending(Offer)
  /\ offered' = offered \cup {piece}
  /\ IF arm = "baseline"
     THEN NextPiece /\ UNCHANGED until
     ELSE /\ stage' = "ack" /\ until' = Least(clock' + AckBound, Deadline)
          /\ UNCHANGED <<piece, todo>>
  /\ UNCHANGED <<arm, still, result, far, ended>>

(* The acknowledgement that names this piece; others are read and left.    *)
Acked ==
  /\ stage = "ack" /\ clock < until
  /\ NextPiece
  /\ UNCHANGED <<arm, clock, until, still, result, offered, far, ended>>

(* No acknowledgement within its bound, or an error instead of it.         *)
NotAcked ==
  /\ stage = "ack"
  /\ \/ clock >= until /\ UNCHANGED faults
     \/ ~Up("writer") /\ UNCHANGED faults
     \/ faults < MaxFaults /\ faults' = faults + 1
  /\ late' = late + 1
  /\ NextPiece
  /\ UNCHANGED <<arm, clock, until, still, hits, hedgeAt, hedged, offered,
                 landed, gets, arrived, ended>>

-----------------------------------------------------------------------------
(* RAW-CONC.  The reader is drained once, and every piece asked for.       *)
AskDraining ==   \* Slip: drained before every send
  /\ stage = "ask" /\ Up("reader")
  /\ Sending(Offer)
  /\ gets' = gets \cup {piece} /\ arrived' = {}
  /\ IF piece = N
     THEN stage' = "collect" /\ until' = Least(TTL, Deadline) /\ UNCHANGED piece
     ELSE piece' = piece + 1 /\ UNCHANGED <<stage, until>>
  /\ UNCHANGED <<arm, todo, still, result, offered, landed, faults, ended>>

Ask ==
  /\ stage = "ask" /\ Up("reader")
  /\ Sending(Offer)
  /\ gets' = gets \cup {piece}
  /\ IF piece = N
     THEN stage' = "collect" /\ until' = Least(TTL, Deadline) /\ UNCHANGED piece
     ELSE piece' = piece + 1 /\ UNCHANGED <<stage, until>>
  /\ UNCHANGED <<arm, todo, still, result, offered, landed, arrived, faults, ended>>

Collect(p) ==
  /\ stage = "collect" /\ Read # Pieces /\ clock < until /\ p \in arrived
  /\ arrived' = arrived \ {p}
  /\ hits' = [q \in Read \cup {p} |-> IF q \in Read THEN hits[q] ELSE clock]
  /\ UNCHANGED <<arm, stage, clock, loop, late, hedgeAt, hedged, offered,
                 landed, gets, faults, ended>>

(* All n are there, the time is over, or an error was read.                *)
CollectOver ==
  /\ stage = "collect"
  /\ \/ (Read = Pieces \/ clock >= until \/ ~Up("reader")) /\ UNCHANGED faults
     \/ faults < MaxFaults /\ faults' = faults + 1
  /\ stage' = "over"
  /\ UNCHANGED <<arm, clock, loop, result, offered, landed, gets, arrived, ended>>

-----------------------------------------------------------------------------
(* RAW and BASELINE.  The next piece of the round is asked for.  One bound *)
(* is computed, and spent twice: on the send, and then on the answer.      *)
Bound == IF arm = "raw" THEN Least(TTL, Deadline - clock) ELSE Attempt

Probe ==
  /\ stage = "round" /\ todo # {} /\ clock < Deadline /\ Up("reader")
  /\ Sending(Bound)
  /\ stage' = "probe" /\ piece' = Min(todo) /\ until' = clock' + Bound
  /\ gets' = gets \cup {piece'}
  /\ UNCHANGED <<arm, todo, still, result, offered, landed, arrived, faults, ended>>

(* Slip: any piece's answer is taken for this one's.                       *)
ProbeReadAny(p) ==
  /\ stage = "probe" /\ clock < until /\ p \in arrived
  /\ arrived' = arrived \ {p}
  /\ hits' = [q \in Read \cup {piece} |-> IF q \in Read THEN hits[q] ELSE clock]
  /\ todo' = todo \ {piece} /\ stage' = "round"
  /\ UNCHANGED <<arm, clock, piece, until, still, late, hedgeAt, hedged, offered,
                 landed, gets, faults, ended>>

(* Its own answer ends the probe, another piece's is read and left.        *)
ProbeRead(p) ==
  /\ stage = "probe" /\ clock < until /\ p \in arrived
  /\ arrived' = arrived \ {p}
  /\ IF p = piece
     THEN /\ hits' = [q \in Read \cup {p} |-> IF q = p THEN clock ELSE hits[q]]
          /\ todo' = todo \ {p} /\ stage' = "round"
     ELSE UNCHANGED <<hits, todo, stage>>
  /\ UNCHANGED <<arm, clock, piece, until, still, late, hedgeAt, hedged, offered,
                 landed, gets, faults, ended>>

(* Slip: a probe has no bound of its own.                                  *)
ProbeMissesNever ==
  /\ stage = "probe"
  /\ faults < MaxFaults /\ faults' = faults + 1
  /\ todo' = todo \ {piece} /\ still' = still \cup {piece} /\ stage' = "round"
  /\ UNCHANGED <<arm, clock, piece, until, result, offered, landed, gets, arrived, ended>>

(* Its bound passes, or an error or a wrong body is read.                  *)
ProbeMisses ==
  /\ stage = "probe"
  /\ \/ (clock >= until \/ ~Up("reader")) /\ UNCHANGED faults
     \/ faults < MaxFaults /\ faults' = faults + 1
  /\ todo' = todo \ {piece} /\ still' = still \cup {piece} /\ stage' = "round"
  /\ UNCHANGED <<arm, clock, piece, until, result, offered, landed, gets, arrived, ended>>

(* A round is over: what was not read is put again (BASELINE, and not more *)
(* often than every quarter of the deadline), and the next round begins    *)
(* unless all are read or the deadline has passed.                         *)
RoundOver ==
  /\ RoundDone /\ ~Stalled
  /\ IF Hedging
     THEN /\ Sending(Cardinality(Outstanding) * Offer)
          /\ hedged' = hedged + Cardinality(Outstanding)
          /\ hedgeAt' = clock' + Quarter
     ELSE UNCHANGED <<clock, hedged, hedgeAt>>
  /\ IF Outstanding = {} \/ clock' >= Deadline
     THEN stage' = "over" /\ UNCHANGED <<todo, still>>
     ELSE stage' = "round" /\ todo' = Outstanding /\ still' = {}
  /\ UNCHANGED <<arm, piece, until, hits, late, offered, far, ended>>

(* A send that fails, or that exceeds its bound, ends the whole run.       *)
SendFails ==
  /\ ~Stalled
  /\ \/ stage \in {"put", "ask"}
     \/ stage = "round" /\ todo # {} /\ clock < Deadline
     \/ RoundDone /\ Hedging
  /\ stage' = "bailed"
  /\ UNCHANGED <<arm, clock, loop, result, offered, far, ended>>

Harness ==
  \/ Put \/ Acked \/ NotAcked
  \/ Ask \/ CollectOver \/ (\E p \in Pieces : Collect(p))
  \/ Probe \/ ProbeMisses \/ RoundOver \/ (\E p \in Pieces : ProbeRead(p))

(* On the reader's connection that has ended, a send does fail.            *)
CutOff ==
  /\ ~Up("reader")
  /\ \/ stage = "ask"
     \/ stage = "round" /\ todo # {} /\ clock < Deadline
  /\ SendFails

ConnectionEnds(c) ==
  /\ stage \notin {"over", "bailed"} /\ Up(c)
  /\ ended' = ended \cup {c}
  /\ UNCHANGED <<arm, stage, clock, loop, result, offered, far>>

(* Time passes while something is waited for, and between two rounds.      *)
Tick ==
  /\ \/ stage \in {"ack", "collect", "probe"} /\ clock < until
     \/ stage = "round" /\ clock < Deadline
  /\ clock' = clock + 1
  /\ UNCHANGED <<arm, stage, loop, result, offered, far, ended>>

(* A piece becomes readable on the far node, some time or never; and a GET *)
(* is answered, some time or never.                                        *)
Land(p) ==
  /\ p \in offered \ landed
  /\ landed' = landed \cup {p}
  /\ UNCHANGED <<arm, stage, clock, loop, result, offered, gets, arrived, faults, ended>>

Answer(p) ==
  /\ p \in gets \cap landed
  /\ gets' = gets \ {p} /\ arrived' = arrived \cup {p}
  /\ UNCHANGED <<arm, stage, clock, loop, result, offered, landed, faults, ended>>

Node == stage \notin {"over", "bailed"} /\ \E p \in Pieces : Land(p) \/ Answer(p)

GNext ==
  \/ Harness \/ SendFails \/ Tick \/ Node
  \/ \E c \in {"writer", "reader"} : ConnectionEnds(c)

GSpec == GInit /\ [][GNext]_gvars

(* Every wait has a bound, and time passes; nothing is assumed of the nodes.*)
GFairSpec == GSpec /\ WF_gvars(Harness) /\ WF_gvars(Tick) /\ WF_gvars(CutOff)

-----------------------------------------------------------------------------
(* What the group reports: when its kth, and its last, piece was read.     *)
nth(n) ==
  Min({t \in {hits[p] : p \in Read} :
         Cardinality({p \in Read : hits[p] <= t}) >= n})
to_k == nth(K)

(* Properties.                                                             *)

(* The last moment an arm may read at.  RAW-CONC stops at the deadline.    *)
(* The other arms begin their last probe before the deadline, and may      *)
(* spend its bound on the send and once more on the answer.                *)
LastRead ==
  IF arm = "raw" THEN Deadline + Least(TTL, Deadline)
  ELSE IF arm = "baseline" THEN Deadline + 2 * Attempt
  ELSE Deadline

(* A piece counts as read only when the far node had it, and a group that  *)
(* is not recorded as `not within T` has a time its arm could read at.     *)
HonestHits ==
  /\ Read \subseteq landed
  /\ Cardinality(Read) >= K => to_k < LastRead

(* RAW-CONC throws no answer away: a piece that was answered after it was  *)
(* asked for is a hit, unless its answer is still unread when the time is  *)
(* over, or an error cut the collection short.                             *)
ConcLosesNone ==
  arm = "conc" /\ stage = "over" =>
    /\ Pieces \subseteq Read \cup gets \cup arrived
    /\ clock < until /\ Read # Pieces => faults > 0 \/ ~Up("reader")

(* The group comes to its end, whatever the nodes leave unanswered, as     *)
(* long as no connection that has ended is drained.                        *)
EndsOrStalls == <>(stage \in {"over", "bailed"} \/ Stalled)
=============================================================================
