------------------------------- MODULE Ledger -------------------------------
(***************************************************************************)
(* The accounting of one instrumented client connection (src/src/probe.rs) *)
(* together with the callers that drive it and the node that answers.      *)
(*                                                                         *)
(* The client API carries no correlation id.  An answer that names its     *)
(* contract closes the operation labelled by that contract; any other      *)
(* answer, and every error, closes the OLDEST open operation, unless the   *)
(* connection is owed an answer it gave up on, in which case it closes     *)
(* nothing.                                                                *)
(*                                                                         *)
(* Operation i is the i-th request of the connection.  Its label is i      *)
(* itself when it was sent with `send` (req#n in the code) and its contract*)
(* key when it was sent with `send_keyed` (contract#n).                    *)
(***************************************************************************)
EXTENDS Naturals, Sequences, SequencesExt

CONSTANTS
  Keys,       \* contract keys a request may be about
  MaxReq,     \* bound: requests one connection sends
  Callers     \* the uses of a connection; one run has one of them:
              \*   forms   the request forms it sends
              \*   awaits  TRUE: it waits for each answer (xnode write),
              \*           FALSE: it drains answers as they come (a batch)
              \*   refuse  the node may answer with an error instead
              \*   notify  bound: notifications nobody asked for

(* "plain"  sent with `send`, and the answer names no contract;            *)
(* "blind"  sent with `send`, although the answer names its contract;      *)
(* "keyed"  sent with `send_keyed`, and the answer names its contract.     *)
AllForms == {"plain", "blind", "keyed"}

ASSUME LedgerAssumption ==
  /\ MaxReq \in Nat
  /\ Callers \subseteq [forms : SUBSET AllForms, awaits : BOOLEAN,
                         refuse : BOOLEAN, notify : Nat]
  /\ \A c \in Callers : c.awaits => c.forms = {"blind"} /\ c.notify = 0
  /\ Keys # {}
  /\ Keys \cap Nat = {}

Req == 1 .. MaxReq
Label == Req \cup Keys

VARIABLES
  caller,    \* how this connection is used; it does not change
  ledger,    \* the Ledger: open requests, counters and endings
  form,      \* form[i]: how operation i was sent ("none" before that)
  key,       \* key[i]: the contract operation i is about
  answer,    \* answer[i]: "none" before i is sent, "due", then "read"
  current,   \* the operation the waiting caller waits for, 0 when none
  up,        \* FALSE once a caller bailed out after a failed send
  notified   \* notifications received so far

vars == <<caller, ledger, form, key, answer, current, up, notified>>

Awaits == caller.awaits
Sent == 1 .. ledger.sent
NoKey == CHOOSE k \in Keys : TRUE   \* placeholder for requests not yet sent

-----------------------------------------------------------------------------
(* The operations of the ledger, as functions from ledger to ledger.       *)
(* `endings` counts the Exit events per label, `okEnded` holds the labels  *)
(* the TRANSPORT (not a caller) ended as Ok.                               *)

EmptyLedger ==
  [open |-> <<>>, owed |-> 0, sent |-> 0, received |-> 0, ambiguous |-> 0,
   endings |-> [l \in Label |-> 0], okEnded |-> {}]

request(L, l) == [L EXCEPT !.open = Append(@, l), !.sent = @ + 1]

(* Slip: the answer closes the oldest open operation, whatever it names.   *)
answeredOldest(L, k) ==
  [L EXCEPT !.open = IF @ = <<>> THEN @ ELSE Tail(@), !.received = @ + 1]

answered(L, k) == [L EXCEPT !.open = RemoveFirst(@, k), !.received = @ + 1]

(* Slip: the debt is not consulted, so a late answer closes an operation.  *)
responseNoDebt(L) ==
  IF L.open = <<>>
  THEN [L EXCEPT !.received = @ + 1]
  ELSE [L EXCEPT !.open = Tail(@), !.received = @ + 1,
                 !.endings[Head(L.open)] = @ + 1,
                 !.okEnded = @ \cup {Head(L.open)}]

(* Slip: every unnamed answer is taken for ambiguous (owed >= 0).          *)
responseShy(L) == [L EXCEPT !.received = @ + 1, !.ambiguous = @ + 1]

response(L) ==
  IF L.owed > 0
  THEN [L EXCEPT !.received = @ + 1, !.ambiguous = @ + 1]
  ELSE IF L.open = <<>>
  THEN [L EXCEPT !.received = @ + 1]
  ELSE [L EXCEPT !.open = Tail(@), !.received = @ + 1,
                 !.endings[Head(L.open)] = @ + 1,
                 !.okEnded = @ \cup {Head(L.open)}]

(* Slips: the operation stays open; only a refusal leaves a debt.          *)
finishOpen(L, l, outcome) ==
  [L EXCEPT !.endings[l] = @ + 1,
            !.owed = IF outcome \in {"Timeout", "Blocked"} THEN @ + 1 ELSE @]

finishForgives(L, l, outcome) ==
  [L EXCEPT !.open = RemoveFirst(@, l),
            !.endings[l] = @ + 1,
            !.owed = IF outcome = "Blocked" THEN @ + 1 ELSE @]

finish(L, l, outcome) ==
  [L EXCEPT !.open = RemoveFirst(@, l),
            !.endings[l] = @ + 1,
            !.owed = IF outcome \in {"Timeout", "Blocked"} THEN @ + 1 ELSE @]

-----------------------------------------------------------------------------
Init ==
  /\ caller \in Callers
  /\ ledger = EmptyLedger
  /\ form = [i \in Req |-> "none"]
  /\ key = [i \in Req |-> NoKey]
  /\ answer = [i \in Req |-> "none"]
  /\ current = 0
  /\ up = TRUE
  /\ notified = 0

LabelOf(f, i, k) == IF f = "keyed" THEN k ELSE i

(* The waiting caller mints a fresh block per put, so it never repeats a   *)
(* key; it sends only when it waits for nothing.                           *)
MaySend(k) ==
  /\ up
  /\ ledger.sent < MaxReq
  /\ Awaits => current = 0 /\ \A j \in Sent : key[j] # k

(* Client::send or Client::send_keyed, and the send completes in time.  It *)
(* may complete with an error: the caller bails and nobody ends the        *)
(* operation.                                                              *)
Send(f, k, ok) ==
  LET i == ledger.sent + 1 IN
  /\ MaySend(k)
  /\ ledger' = request(ledger, LabelOf(f, i, k))
  /\ form' = [form EXCEPT ![i] = f]
  /\ key' = [key EXCEPT ![i] = k]
  /\ answer' = [answer EXCEPT ![i] = "due"]
  /\ current' = IF Awaits THEN i ELSE 0
  /\ up' = ok
  /\ UNCHANGED <<caller, notified>>

(* The send itself exceeds its bound: the operation is finished as a       *)
(* Timeout and the caller bails, so the connection is used no more.        *)
SendBlocked(f, k) ==
  LET i == ledger.sent + 1
      l == LabelOf(f, i, k) IN
  /\ MaySend(k)
  /\ ledger' = finish(request(ledger, l), l, "Timeout")
  /\ form' = [form EXCEPT ![i] = f]
  /\ key' = [key EXCEPT ![i] = k]
  /\ up' = FALSE
  /\ UNCHANGED <<caller, answer, current, notified>>

(* A caller is inside recv: the waiting caller only while it waits.        *)
Receiving == up /\ (Awaits => current # 0)

Read(i) ==
  /\ Receiving
  /\ answer[i] = "due"
  /\ answer' = [answer EXCEPT ![i] = "read"]

(* recv yields an answer that names its contract.  The waiting caller      *)
(* compares the name with the key it asked for and closes its own          *)
(* operation when they agree; another answer is stale and it waits on.     *)
NamedAnswer(i) ==
  /\ Read(i)
  /\ form[i] \in {"blind", "keyed"}
  /\ IF Awaits /\ key[i] = key[current]
     THEN /\ ledger' = finish(answered(ledger, key[i]), current, "Ok")
          /\ current' = 0
     ELSE /\ ledger' = answered(ledger, key[i])
          /\ UNCHANGED current
  /\ UNCHANGED <<caller, form, key, up, notified>>

(* recv yields an answer that names nothing.                               *)
UnnamedAnswer(i) ==
  /\ Read(i)
  /\ form[i] = "plain"
  /\ ledger' = response(ledger)
  /\ UNCHANGED <<caller, form, key, current, up, notified>>

(* recv yields an error.  The waiting caller takes it for the answer to    *)
(* its own operation, whichever operation the node refused.                *)
Refused(i) ==
  /\ caller.refuse
  /\ Read(i)
  /\ IF Awaits
     THEN /\ ledger' = finish(response(ledger), current, "Blocked")
          /\ current' = 0
     ELSE /\ ledger' = response(ledger)
          /\ UNCHANGED current
  /\ UNCHANGED <<caller, form, key, up, notified>>

(* recv yields an update notification of a subscription.                   *)
Notification ==
  /\ Receiving
  /\ notified < caller.notify
  /\ notified' = notified + 1
  /\ ledger' = response(ledger)
  /\ UNCHANGED <<caller, form, key, answer, current, up>>

(* The waiting caller's bounded wait expires.                              *)
GiveUp ==
  /\ Awaits /\ up
  /\ current # 0
  /\ ledger' = finish(ledger, current, "Timeout")
  /\ current' = 0
  /\ UNCHANGED <<caller, form, key, answer, up, notified>>

Next ==
  \/ \E f \in caller.forms, k \in Keys :
       \/ \E ok \in BOOLEAN : Send(f, k, ok)
       \/ SendBlocked(f, k)
  \/ \E i \in Req : NamedAnswer(i) \/ UnnamedAnswer(i) \/ Refused(i)
  \/ Notification
  \/ GiveUp

Spec == Init /\ [][Next]_vars

(* The deadline of a wait is a timer of the client: it always expires.     *)
(* Nothing is assumed of the node.                                         *)
FairSpec == Spec /\ WF_vars(GiveUp)

-----------------------------------------------------------------------------
(* Properties.                                                             *)

Live == {i \in Req : answer[i] = "due"}

OpenCount(l) == Cardinality({n \in 1 .. Len(ledger.open) : ledger.open[n] = l})

LedgerShape ==
  [open : Seq(Label), owed : Nat, sent : Nat, received : Nat,
   ambiguous : Nat, endings : [Label -> Nat], okEnded : SUBSET Label]

(* The ledger holds well-formed values (struct Ledger, src/src/probe.rs)   *)
(* and the connection never sends more than its bound.                     *)
TypeOK ==
  /\ caller \in Callers
  /\ ledger \in LedgerShape
  /\ ledger.sent <= MaxReq
  /\ form \in [Req -> AllForms \cup {"none"}]
  /\ key \in [Req -> Keys]
  /\ answer \in [Req -> {"none", "due", "read"}]
  /\ current \in 0 .. MaxReq
  /\ up \in BOOLEAN
  /\ notified \in 0 .. caller.notify

(* The requests the node has still to answer are reported: they are not    *)
(* more than what is OUTSTANDING or owed on the heartbeat line             *)
(* (Ledger::line), but for one for each notification.  A notification      *)
(* names nothing either, and `response` lets it close the oldest open      *)
(* request.  Late answers, errors and timeouts hide none.                  *)
UnansweredReported ==
  Cardinality(Live) <= Len(ledger.open) + ledger.owed + notified

(* The transport ends an operation as Ok only when that very operation was *)
(* answered: a late answer to an operation the caller gave up on never     *)
(* closes the operation that is running, where one caller waits for each   *)
(* answer (harness#38, Ledger::response).                                  *)
OkMeansAnswered ==
  Awaits => \A i \in ledger.okEnded \cap Req : answer[i] = "read"

(* On a batch whose answers name nothing, OUTSTANDING is the subtraction   *)
(* sent - received, in whatever order answers and errors come.             *)
CountExact ==
  caller.forms = {"plain"} /\ caller.notify = 0 /\ up =>
    Len(ledger.open) = ledger.sent - ledger.received

(* A keyed answer closes an operation for its own contract whatever else   *)
(* is outstanding: per contract, OUTSTANDING holds exactly the requests    *)
(* the node still has to answer, unless it refused one, for an error names *)
(* nothing (Ledger::answered).                                             *)
KeyedExact ==
  caller.forms = {"keyed"} /\ ~caller.refuse /\ caller.notify = 0 /\ up =>
    \A k \in Keys : OpenCount(k) = Cardinality({i \in Live : key[i] = k})

(* An operation a caller waits for is never OUTSTANDING for ever: it is    *)
(* answered, refused or given up on, and each of the three ends it         *)
(* (Ledger::finish, "however it ended"), unless the send itself failed.    *)
NoneLeftOutstanding ==
  \A i \in Req :
    Awaits /\ i \in Range(ledger.open) ~> (i \notin Range(ledger.open) \/ ~up)
=============================================================================
