------------------------------ MODULE XnodeRead ------------------------------
(***************************************************************************)
(* The read role of the cross-node measurement (src/src/xnode.rs, read and *)
(* probe_once): a cold control looks at every key once, then rounds of at  *)
(* most Burst probes rotate through the keys that are still pending.  One  *)
(* connection carries every probe; a probe that gave up leaves its answer  *)
(* to arrive later.  The unit of the clock is one probe of a round; the    *)
(* control waits up to Bound units for an answer.  An error ends a probe   *)
(* as a miss, like a bound that expires.                                   *)
(***************************************************************************)
EXTENDS Naturals, Sequences, FiniteSets, SequencesExt

CONSTANTS
  Key,    \* the keys of the file
  Burst,  \* BURST: probes per round
  Bound,  \* probe_ms: what the control waits for one answer
  Limit   \* the run's limit

ASSUME ReadAssumption ==
  /\ IsFiniteSet(Key) /\ Key # {}
  /\ Burst \in Nat \ {0}
  /\ Bound \in Nat \ {0}
  /\ Limit \in Nat

VARIABLES
  now,      \* time since the run started
  phase,    \* "control", "round", "done" or "bailed"
  todo,     \* the lines of the file the control has not looked at
  pending,  \* the cold keys, in order
  void,     \* the keys that were warm at the start
  reads,    \* the READ lines, in order
  cursor,   \* where the round starts
  step,     \* probes made in this round
  hits,     \* `seen`: the keys this round found
  has,      \* blocks this node holds
  owed,     \* keys a GET asked for whose answer has not arrived
  socket,   \* keys whose answer arrived and is not read
  hit_at,   \* the time on each key's READ line: when its round was over
  looked    \* history: when each key was last probed

vars == <<now, phase, todo, pending, void, reads, cursor, step, hits, has,
          owed, socket, hit_at, looked>>

wire == <<owed, socket>>

-----------------------------------------------------------------------------
Init ==
  /\ now = 0
  /\ phase = "control"
  /\ todo \in {s \in [1 .. Cardinality(Key) -> Key] : IsInjective(s)}
  /\ pending = <<>>
  /\ void = {}
  /\ reads = <<>>
  /\ cursor = 0
  /\ step = 0
  /\ hits = {}
  /\ has \in SUBSET Key
  /\ owed = {}
  /\ socket = {}
  /\ hit_at = [k \in Key |-> 0]
  /\ looked = [k \in Key |-> 0]

(* Slip: whatever is queued answers the probe that is running.             *)
ProbeOnceAny(id, hit, bound) ==
  /\ \E d \in 1 .. bound : now' = now + d
  /\ socket' = {}
  /\ IF socket # {}
     THEN hit /\ UNCHANGED owed
     ELSE \/ ~hit /\ owed' = owed \cup {id}
          \/ hit /\ id \in has /\ owed' = owed \ {id}

(* One bounded GET.  What is queued is drained first, and an answer for    *)
(* this very key is the hit; otherwise the request goes out, and answers   *)
(* for other keys that arrive meanwhile are consumed and discarded.  The   *)
(* answer may come after the bound, or never.                              *)
probe_once(id, hit, bound) ==
  /\ \E d \in 1 .. bound : now' = now + d
  /\ socket' = {}
  /\ IF id \in socket
     THEN hit /\ UNCHANGED owed
     ELSE /\ hit => id \in has
          /\ \E late \in SUBSET ((owed \cap has) \ {id}) :
               owed' = (IF hit THEN owed \ {id} ELSE owed \cup {id}) \ late

(* The cold control: one probe of each line, within the limit.             *)
ControlProbe(hit) ==
  /\ phase = "control" /\ todo # <<>>
  /\ now < Limit
  /\ LET id == Head(todo) IN
       /\ probe_once(id, hit, Bound)
       /\ IF hit
          THEN void' = void \cup {id} /\ UNCHANGED pending
          ELSE /\ pending' = Append(pending, id)
               /\ UNCHANGED void
  /\ todo' = Tail(todo)
  /\ UNCHANGED <<phase, reads, cursor, step, hits, has, hit_at, looked>>

ControlRanOut ==
  /\ phase = "control" /\ todo # <<>>
  /\ now >= Limit
  /\ phase' = "bailed"
  /\ UNCHANGED <<now, todo, pending, void, reads, cursor, step, hits, has,
                 wire, hit_at, looked>>

EndControl ==
  /\ phase = "control" /\ todo = <<>>
  /\ phase' = "round"
  /\ looked' = [k \in Key |-> now]
  /\ UNCHANGED <<now, todo, pending, void, reads, cursor, step, hits, has,
                 wire, hit_at>>

InRound == phase = "round" /\ pending # <<>>
RoundSize == IF Len(pending) < Burst THEN Len(pending) ELSE Burst

(* The key the next probe of the round is for.                             *)
At == pending[1 + ((cursor + step) % Len(pending))]

RoundProbe(hit) ==
  /\ InRound /\ step < RoundSize
  /\ now < Limit
  /\ probe_once(At, hit, 1)
  /\ hits' = IF hit THEN hits \cup {At} ELSE hits
  /\ looked' = [looked EXCEPT ![At] = now]
  /\ step' = step + 1
  /\ UNCHANGED <<phase, todo, pending, void, reads, cursor, has, hit_at>>

(* The keys of s that are in S, in the order of s: SelectSeq, in a form    *)
(* the proofs can expand.                                                  *)
among(s, S) ==
  LET at == {n \in 1 .. Len(s) : s[n] \in S}
      nth(k) == CHOOSE n \in at : Cardinality({m \in at : m <= n}) = k
  IN  [k \in 1 .. Cardinality(at) |-> s[nth(k)]]

(* Slips: a round that the limit cuts short never ends; the keys that were *)
(* read stay pending.                                                      *)
EndRoundFull ==
  /\ InRound
  /\ step = RoundSize
  /\ cursor' = (cursor + RoundSize) % Len(pending)
  /\ reads' = reads \o among(pending, hits)
  /\ pending' = among(pending, Key \ hits)
  /\ hit_at' = [k \in Key |-> IF k \in hits THEN now ELSE hit_at[k]]
  /\ step' = 0 /\ hits' = {}
  /\ UNCHANGED <<now, phase, todo, void, has, wire, looked>>

EndRoundKeeps ==
  /\ InRound
  /\ step = RoundSize \/ now >= Limit
  /\ step > 0
  /\ cursor' = (cursor + RoundSize) % Len(pending)
  /\ reads' = reads \o among(pending, hits)
  /\ hit_at' = [k \in Key |-> IF k \in hits THEN now ELSE hit_at[k]]
  /\ step' = 0 /\ hits' = {}
  /\ UNCHANGED <<now, phase, todo, pending, void, has, wire, looked>>

(* The end of a round: the keys it found are printed, all with the time    *)
(* it is then, and leave the list.  The cursor is moved along the OLD list.*)
EndRound ==
  /\ InRound
  /\ step = RoundSize \/ now >= Limit
  /\ step > 0
  /\ cursor' = (cursor + RoundSize) % Len(pending)
  /\ reads' = reads \o among(pending, hits)
  /\ pending' = among(pending, Key \ hits)
  /\ hit_at' = [k \in Key |-> IF k \in hits THEN now ELSE hit_at[k]]
  /\ step' = 0 /\ hits' = {}
  /\ UNCHANGED <<now, phase, todo, void, has, wire, looked>>

Finish ==
  /\ phase = "round" /\ step = 0
  /\ pending = <<>> \/ now >= Limit
  /\ phase' = "done"
  /\ UNCHANGED <<now, todo, pending, void, reads, cursor, step, hits, has,
                 wire, hit_at, looked>>

(* A probe's send fails, and the error ends the run.                       *)
Fail ==
  /\ now < Limit
  /\ \/ phase = "control" /\ todo # <<>>
     \/ InRound /\ step < RoundSize
  /\ phase' = "bailed"
  /\ UNCHANGED <<now, todo, pending, void, reads, cursor, step, hits, has,
                 wire, hit_at, looked>>

Running == phase \in {"control", "round"}

(* The block reaches this node.                                            *)
Store(k) ==
  /\ Running
  /\ k \notin has
  /\ has' = has \cup {k}
  /\ UNCHANGED <<now, phase, todo, pending, void, reads, cursor, step, hits,
                 wire, hit_at, looked>>

(* An answer arrives that no probe is waiting for any more.                *)
LateAnswer(k) ==
  /\ Running
  /\ k \in owed \cap has
  /\ owed' = owed \ {k}
  /\ socket' = socket \cup {k}
  /\ UNCHANGED <<now, phase, todo, pending, void, reads, cursor, step, hits,
                 has, hit_at, looked>>

Reader ==
  \/ \E hit \in BOOLEAN : ControlProbe(hit) \/ RoundProbe(hit)
  \/ ControlRanOut \/ EndControl \/ EndRound \/ Finish

Next == Reader \/ Fail \/ \E k \in Key : Store(k) \/ LateAnswer(k)

Spec == Init /\ [][Next]_vars

-----------------------------------------------------------------------------
(* Properties.                                                             *)

TypeOK ==
  /\ now \in 0 .. Limit + Bound - 1
  /\ phase \in {"control", "round", "done", "bailed"}
  /\ {todo, pending, reads} \subseteq Seq(Key)
  /\ void \subseteq Key /\ hits \subseteq Key /\ has \subseteq Key
  /\ owed \subseteq Key /\ socket \subseteq has
  /\ cursor \in Nat /\ step \in 0 .. Burst
  /\ {looked, hit_at} \subseteq [Key -> 0 .. now]

(* Every key of the file is in exactly one place, and no key is printed    *)
(* twice: "cold-confirmed", "void", "read" and "missed" add up.            *)
EachKeyOnce ==
  /\ IsInjective(todo \o pending \o reads)
  /\ Key = void \cup Range(todo \o pending \o reads)
  /\ void \cap Range(todo \o pending \o reads) = {}

(* A key is read, or called warm, only when this node holds its block: no  *)
(* probe takes another key's answer for its own (probe_once, "never a      *)
(* false hit").                                                            *)
HonestHits == void \cup hits \cup Range(reads) \subseteq has

(* The run ends, whatever the node leaves unanswered.                      *)
Terminates == <>(phase \in {"done", "bailed"})

(* "A key's first-readable time is resolved to a full cycle": a pending    *)
(* key waits at most one cycle, rounds_per_cycle rounds of Burst probes,   *)
(* between two looks at it (comment in read, and the grid line it prints). *)
Cycle == ((Cardinality(Key) - Cardinality(void) + Burst - 1) \div Burst) * Burst
LookedEachCycle ==
  phase = "round" => \A n \in 1 .. Len(pending) : now - looked[pending[n]] <= Cycle
=============================================================================
