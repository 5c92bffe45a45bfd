------------------------------ MODULE Sampling ------------------------------
(* What a measured series promises, whatever the connection does: requests *)
(* are asked one at a time, none once the budget is over and none before   *)
(* the requests it builds on succeeded; each gets at most one verdict, and *)
(* a verdict of "ms" is given only for a request that was itself answered. *)
CONSTANTS
  Requests,
  Needed     \* Needed[r]: the requests that must have succeeded before r

VARIABLES
  asked,     \* the requests asked so far
  answered,  \* the requests whose answer has been read
  verdict,   \* verdict[r]: "none", "ms" (a latency) or "failed"
  closed     \* the budget is over

vars == <<asked, answered, verdict, closed>>

Init ==
  /\ asked = {}
  /\ answered = {}
  /\ verdict = [r \in Requests |-> "none"]
  /\ closed = FALSE

Ask(r) ==
  /\ ~closed
  /\ r \notin asked
  /\ \A q \in asked : verdict[q] # "none"
  /\ \A q \in Needed[r] : verdict[q] = "ms"
  /\ asked' = asked \cup {r}
  /\ UNCHANGED <<answered, verdict, closed>>

Close ==
  /\ closed' = TRUE
  /\ UNCHANGED <<asked, answered, verdict>>

(* An answer is read and ends nothing: it is late.                         *)
Late(r) ==
  /\ r \in asked
  /\ answered' = answered \cup {r}
  /\ UNCHANGED <<asked, verdict, closed>>

Judge(r, v) ==
  /\ r \in asked
  /\ verdict[r] = "none"
  /\ verdict' = [verdict EXCEPT ![r] = v]
  /\ answered' \in {answered, answered \cup {r}}
  /\ v = "ms" => r \in answered' \ answered
  /\ UNCHANGED <<asked, closed>>

Next ==
  \/ Close
  \/ \E r \in Requests :
       \/ Ask(r)
       \/ Late(r)
       \/ \E v \in {"ms", "failed"} : Judge(r, v)

Spec == Init /\ [][Next]_vars
=============================================================================
