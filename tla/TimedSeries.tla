----------------------------- MODULE TimedSeries -----------------------------
(***************************************************************************)
(* The measured series of the latency ladder (src/src/latency.rs): on ONE  *)
(* connection, each series times N fresh puts one after the other and then *)
(* one warm get of every block whose put was acknowledged.  A wait that    *)
(* expires does not cancel its request, so a later sample of the same      *)
(* connection can read an earlier request's answer.                        *)
(***************************************************************************)
EXTENDS Naturals, Sequences, FiniteSets, SequencesExt

CONSTANTS
  NSeries,   \* series one run measures: its kinds and sizes
  N,         \* puts per series (samples)
  MayRefuse  \* TRUE: the node may answer a request with an error

ASSUME SeriesAssumption ==
  /\ NSeries \in Nat \ {0}
  /\ N \in Nat \ {0}
  /\ MayRefuse \in BOOLEAN

Key == (1 .. NSeries) \X (1 .. N)           \* every put mints a fresh key
Request == [op : {"put", "get"}, key : Key]
Verdict == {"ms", "no response", "node error", "state mismatch"}
Idle == [op |-> "idle", key |-> <<0, 0>>]

VARIABLES
  series,   \* the series being measured
  phase,    \* "put", "get", "done" or "bailed"
  samples,  \* Series::put and Series::get of the whole run, in order
  held,     \* the keys of this series that can be read warm
  waiting,  \* the request being timed, Idle when none
  late,     \* Awaiting::stale of the running wait
  stale,    \* Series::stale, over the whole run
  over,     \* the run's budget has passed
  due,      \* requests the node has not answered
  heard     \* history: what was read, and which request was then timed

vars == <<series, phase, samples, held, waiting, late, stale, over, due, heard>>

Sample(op, s) == {n \in 1 .. Len(samples) :
                    samples[n].op = op /\ samples[n].key[1] = s}
Taken(op) == Cardinality(Sample(op, series))

-----------------------------------------------------------------------------
Init ==
  /\ series = 1
  /\ phase = "put"
  /\ samples = <<>>
  /\ held = <<>>
  /\ waiting = Idle
  /\ late = 0
  /\ stale = 0
  /\ over = FALSE
  /\ due = {}
  /\ heard = {}

Between(p) == phase = p /\ waiting = Idle

(* A request goes out and its wait begins: a fresh Awaiting.               *)
Start(r) ==
  /\ waiting' = r
  /\ late' = 0
  /\ due' = due \cup {r}
  /\ UNCHANGED <<series, phase, samples, held, stale, over, heard>>

StartPut ==
  /\ Between("put")
  /\ ~over
  /\ Taken("put") < N
  /\ Start([op |-> "put", key |-> <<series, Taken("put") + 1>>])

StartGet ==
  /\ Between("get")
  /\ ~over
  /\ Taken("get") < Len(held)
  /\ Start([op |-> "get", key |-> held[Taken("get") + 1]])

(* The send fails or does not complete within its bound: send_req_ctx      *)
(* bails and the error ends the run.                                       *)
SendBlocked ==
  /\ waiting = Idle
  /\ ~over
  /\ \/ phase = "put" /\ Taken("put") < N
     \/ phase = "get" /\ Taken("get") < Len(held)
  /\ phase' = "bailed"
  /\ UNCHANGED <<series, samples, held, waiting, late, stale, over, due, heard>>

EndPuts ==
  /\ Between("put")
  /\ over \/ Taken("put") = N
  /\ phase' = "get"
  /\ UNCHANGED <<series, samples, held, waiting, late, stale, over, due, heard>>

EndSeries ==
  /\ Between("get")
  /\ over \/ Taken("get") = Len(held)
  /\ held' = <<>>
  /\ IF series < NSeries
     THEN series' = series + 1 /\ phase' = "put"
     ELSE phase' = "done" /\ UNCHANGED series
  /\ UNCHANGED <<samples, waiting, late, stale, over, due, heard>>

(* Slip: what the wait discarded is not added up.                          *)
JudgeForgets(v) ==
  /\ samples' = Append(samples, [op |-> waiting.op, key |-> waiting.key,
                                 verdict |-> v])
  /\ held' = IF waiting.op = "put" /\ v = "ms"
             THEN Append(held, waiting.key) ELSE held
  /\ UNCHANGED stale
  /\ late' = 0
  /\ waiting' = Idle

(* The wait ends with a verdict; only an acknowledged block is held.       *)
Judge(v) ==
  /\ samples' = Append(samples, [op |-> waiting.op, key |-> waiting.key,
                                 verdict |-> v])
  /\ held' = IF waiting.op = "put" /\ v = "ms"
             THEN Append(held, waiting.key) ELSE held
  /\ stale' = stale + late
  /\ late' = 0
  /\ waiting' = Idle

(* Slip: the next response of the kind wins, whichever key it names (the   *)
(* logic the code had before: the_old_next_response_wins_logic_fails).     *)
offerNext(r) == r.op = waiting.op

(* Awaiting::offer: an answer is the awaited one only if it is of the kind *)
(* the wait reads and names the key it wants.                              *)
offer(r) == r = waiting

Read(r, kind) ==
  /\ waiting # Idle
  /\ r \in due
  /\ due' = due \ {r}
  /\ heard' = heard \cup {[req |-> r, kind |-> kind, during |-> waiting]}
  /\ UNCHANGED <<series, phase, over>>

(* recv yields an answer that names its key.  A get also compares bytes.   *)
Answer(r, bytes) ==
  /\ bytes \in IF r.op = "get" THEN {"same", "other"} ELSE {"same"}
  /\ Read(r, "answer")
  /\ IF offer(r)
     THEN Judge(IF bytes = "same" THEN "ms" ELSE "state mismatch")
     ELSE /\ late' = late + 1
          /\ UNCHANGED <<samples, held, stale, waiting>>

(* recv yields an error, which names nothing: whatever the node refused,   *)
(* the wait that is running ends.                                          *)
NodeError(r) ==
  /\ MayRefuse
  /\ Read(r, "error")
  /\ Judge("node error")

(* Slip: a wait that expired is timed like an answer.                      *)
DeadlineTimes ==
  /\ waiting # Idle
  /\ Judge("ms")
  /\ UNCHANGED <<series, phase, over, due, heard>>

(* The wait's deadline passes.                                             *)
Deadline ==
  /\ waiting # Idle
  /\ Judge("no response")
  /\ UNCHANGED <<series, phase, over, due, heard>>

(* The budget of the whole run passes; it is looked at between samples.    *)
Budget ==
  /\ phase \in {"put", "get"}
  /\ ~over
  /\ over' = TRUE
  /\ UNCHANGED <<series, phase, samples, held, waiting, late, stale, due, heard>>

Client == StartPut \/ StartGet \/ EndPuts \/ EndSeries

Next ==
  \/ Client
  \/ SendBlocked
  \/ \E r \in Request :
       \/ \E bytes \in {"same", "other"} : Answer(r, bytes)
       \/ NodeError(r)
  \/ Deadline
  \/ Budget

Spec == Init /\ [][Next]_vars

-----------------------------------------------------------------------------
(* Properties.                                                             *)

Asked(s) == [op |-> s.op, key |-> s.key]
Matched == {n \in 1 .. Len(samples) :
              samples[n].verdict \in {"ms", "state mismatch"}}

(* The samples, the history and the wait are well formed.                  *)
TypeOK ==
  /\ series \in 1 .. NSeries
  /\ phase \in {"put", "get", "done", "bailed"}
  /\ samples \in Seq([op : {"put", "get"}, key : Key, verdict : Verdict])
  /\ held \in Seq(Key)
  /\ waiting \in Request \cup {Idle}
  /\ late \in Nat /\ stale \in Nat
  /\ over \in BOOLEAN
  /\ due \subseteq Request
  /\ heard \subseteq [req : Request, kind : {"answer", "error"}, during : Request]

(* A latency is always the latency of the request's own answer, read while *)
(* that request was being timed: a put given up on in one series never     *)
(* turns into a fast sample of a later put (timed_put, timed_get).         *)
OwnAnswer ==
  \A n \in 1 .. Len(samples) :
    samples[n].verdict = "ms" =>
      [req |-> Asked(samples[n]), kind |-> "answer",
       during |-> Asked(samples[n])] \in heard

(* Nothing is discarded silently: every answer read either gave a sample   *)
(* its verdict or is counted as stale, also when the wait that discarded   *)
(* it ended in a timeout or in an error (test nothing_is_discarded_        *)
(* silently).                                                              *)
NothingSilent ==
  Cardinality({h \in heard : h.kind = "answer"})
    = Cardinality(Matched) + stale + late

(* What the run shows of each request: sampled, asked for, answered, judged.*)
Sampled == {Asked(samples[n]) : n \in 1 .. Len(samples)}
AskedFor == Sampled \cup ({waiting} \ {Idle})
Answered == {h.req : h \in {g \in heard : g.kind = "answer"}}
At(r) == CHOOSE n \in 1 .. Len(samples) : Asked(samples[n]) = r
VerdictOf == [r \in Request |->
  IF r \notin Sampled THEN "none"
  ELSE IF samples[At(r)].verdict = "ms" THEN "ms" ELSE "failed"]

Abstract == INSTANCE Sampling WITH
  Requests <- Request,
  Needed <- [r \in Request |->
               IF r.op = "get" THEN {[op |-> "put", key |-> r.key]} ELSE {}],
  closed <- over,
  asked <- AskedFor,
  answered <- Answered,
  verdict <- VerdictOf

(* A run of series is a run of the abstract sampling.                      *)
ImplementsSampling == Abstract!Spec
=============================================================================
