------------------------------ MODULE Dialogue -------------------------------
(***************************************************************************)
(* An acceptance command and the node it runs against (set.rs, bag.rs,     *)
(* register.rs, pack.rs, upgrade.rs, validate_cost.rs). The command makes  *)
(* one request at a time and waits for it no longer than its deadline; the *)
(* node takes the requests it was sent in any order, and may be late. The  *)
(* node and the contract are outside the repository: they are modelled by  *)
(* what the waits provide for.                                             *)
(***************************************************************************)
EXTENDS Scripts

CONSTANTS
  Commands,   \* the commands run
  MaxWrong,   \* bound: names the contract is wrong about
  Trouble     \* bound, per command: pairs of how many waits may end before
              \* the node's answer is read and how many requests may fail

ASSUME DialogueAssumption ==
  /\ Commands \subseteq Tools
  /\ MaxWrong \in Nat
  /\ \A t \in Commands : Trouble[t] \subseteq Nat \X Nat

VARIABLES
  tool,     \* the command
  at,       \* the request at hand
  stage,    \* send, wait, over, bailed
  got,      \* per request that a check looks at: what ended its wait
  pending,  \* requests the node has still to handle
  inbox,    \* per connection: the messages that arrived, unread
  takes,    \* the names the contract takes
  store,    \* per contract: the names it has taken
  decided,  \* of the names judged by a read showing less: those offered
  told,     \* and what the node answered to the read that judges each
  gaveUp,   \* requests given up before their answer was read
  faults    \* requests lost, failed or not sent

command == <<tool, at, stage, got>>
node == <<takes, store, decided, told>>
dvars == <<command, pending, inbox, node, gaveUp, faults>>

Bearable(late, failed) == \E b \in Trouble[tool] : late <= b[1] /\ failed <= b[2]

Conns == {"c", "w", "r"}
script == Script[tool]
request == script[at]

\* A wait that ended without an answer.
Nothing == [ok |-> FALSE, held |-> {}, own |-> FALSE]

\* Names whose check is met by a read that shows less: what is refused, and
\* the denial of set.rs's control, judged by one item fewer.
ByAbsence == Refused(tool) \cup ({"deny_other"} \cap Offered(tool))

DInit ==
  /\ tool \in Commands
  /\ at = 1 /\ stage = "send" /\ got = [i \in {} |-> Nothing]
  /\ pending = {} /\ inbox = [c \in Conns |-> <<>>]
  /\ \E n \in 0 .. MaxWrong : \E wrong \in kSubset(n, Offered(tool)) :
        takes = SymDiff(Wanted(tool), wrong)
  /\ store = [k \in {Script[tool][i].key : i \in DOMAIN Script[tool]} |-> {}]
  /\ decided = {}
  /\ told = [x \in ByAbsence |-> Nothing]
  /\ gaveUp = {} /\ faults = 0

-----------------------------------------------------------------------------
(***************************************************************************)
(* The command.                                                            *)
(***************************************************************************)

\* What the read named id returned.
Got(id) ==
  LET i == CHOOSE j \in DOMAIN script : script[j].id = id
  IN  IF i \in DOMAIN got THEN got[i] ELSE Nothing
Read(id) == [ok |-> Got(id).ok, held |-> Got(id).held]
Reads == [id \in {script[i].id : i \in DOMAIN script} |-> Read(id)]

\* The wait ends with a message, or without one: a check reads the state it
\* brought, the rest is of no more use. put_container's `seed put failed` is
\* the only answer a command bails on.
Ends(answer) ==
  /\ got' = IF request.id = Sent THEN got
            ELSE [i \in DOMAIN got \cup {at} |-> IF i = at THEN answer ELSE got[i]]
  /\ IF request.id = "seed" /\ ~answer.ok THEN stage' = "bailed" /\ UNCHANGED at
     ELSE /\ stage' = (IF at = Len(script) THEN "over" ELSE "send")
          /\ at' = at + 1

\* A request an earlier read makes unnecessary is not made.
Needed == \A need \in request.needs : Read(need[1]).ok = need[2]

Skip ==
  /\ stage = "send" /\ ~Needed
  /\ Ends(Nothing)
  /\ UNCHANGED <<tool, pending, inbox, node, gaveUp, faults>>

\* SLIP: the next request goes out with this one.
SendAhead ==
  /\ stage = "send" /\ Needed
  /\ pending' = pending \cup ({at, at + 1} \cap DOMAIN script)
  /\ stage' = "wait"
  /\ UNCHANGED <<tool, at, got, inbox, node, gaveUp, faults>>

Send ==
  /\ stage = "send" /\ Needed
  /\ pending' = pending \cup {at}
  /\ stage' = "wait"
  /\ UNCHANGED <<tool, at, got, inbox, node, gaveUp, faults>>

\* send_req: a request that cannot be sent in time ends the command.
SendFails ==
  /\ stage = "send" /\ Needed /\ Bearable(Cardinality(gaveUp), faults + 1)
  /\ stage' = "bailed" /\ faults' = faults + 1
  /\ UNCHANGED <<tool, at, got, pending, inbox, node, gaveUp>>

\* The awaited answer is known by its kind and its contract, and by no more.
Awaited(m) == m.kind = request.send /\ script[m.of].key = request.key

AnswerOf(m) ==
  [ok |-> m.kind = request.send, held |-> m.held, own |-> m.of = at]

\* One message: the awaited one or an error ends the wait, any other is
\* passed over; where only the next message is read, it ends it whatever it is.
Take ==
  /\ stage = "wait" /\ inbox[request.conn] # <<>>
  /\ inbox' = [inbox EXCEPT ![request.conn] = Tail(@)]
  /\ LET m == Head(inbox[request.conn])
     IN  CASE request.wait = "next" \/ Awaited(m) -> Ends(AnswerOf(m))
           [] request.wait = "own" /\ m.kind = "error" -> Ends(Nothing)
           [] OTHER -> UNCHANGED <<at, stage, got>>
  /\ UNCHANGED <<tool, pending, node, gaveUp, faults>>

\* The request was handled and will not be answered, or was lost.
Unanswered == at \notin pending /\ inbox[request.conn] = <<>>

\* The deadline passes: for want of an answer, or before it was read.
GiveUp ==
  /\ stage = "wait"
  /\ \/ Unanswered /\ UNCHANGED gaveUp
     \/ ~Unanswered /\ gaveUp' = gaveUp \cup {at} /\ Bearable(Cardinality(gaveUp'), faults)
  /\ Ends(Nothing)
  /\ UNCHANGED <<tool, pending, inbox, node, faults>>

-----------------------------------------------------------------------------
(***************************************************************************)
(* The node.                                                               *)
(***************************************************************************)

\* The answer to request i goes out, unless the node keeps silent.
Says(i, kind, held, sent) ==
  /\ pending' = pending \ {i}
  /\ inbox' = IF sent
              THEN [inbox EXCEPT ![script[i].conn] =
                      Append(@, [of |-> i, kind |-> kind, held |-> held])]
              ELSE inbox
  /\ UNCHANGED <<command, takes, gaveUp>>

\* What a put offers; for the one whose bytes were read, the record read.
ItemOf(i) ==
  IF script[i].item # Copy THEN script[i].item
  ELSE IF "five_a" \in Read("8A").held THEN "five_b" ELSE "three_b"

\* A put or a delta is decided by the contract. What it takes is
\* acknowledged; a refusal may be acknowledged, an error, or nothing.
Decide(i) ==
  LET x == ItemOf(i)
      k == script[i].key
      ok == x \in takes /\ (script[i].send = "put" \/ store[k] # {})
  IN  /\ script[i].send # "get"
      /\ store' = IF ok THEN [store EXCEPT ![k] = @ \cup {x}] ELSE store
      /\ decided' = decided \cup ({x} \cap ByAbsence)
      /\ \/ Says(i, script[i].send, {}, TRUE)
         \/ ~ok /\ \E sent \in BOOLEAN : Says(i, "error", {}, sent)
      /\ UNCHANGED <<told, faults>>

\* A read of a contract the node does not hold is an error, or nothing.
Answer(i) ==
  LET held == store[script[i].key]
      x == script[i].id
  IN  /\ script[i].send = "get"
      /\ \/ held # {} /\ Says(i, "get", held, TRUE)
         \/ held = {} /\ \E sent \in BOOLEAN : Says(i, "error", {}, sent)
      /\ told' = IF x \in decided
                 THEN [told EXCEPT ![x] = [ok |-> held # {}, held |-> held, own |-> TRUE]]
                 ELSE told
      /\ UNCHANGED <<store, decided, faults>>

\* A request fails at the node, or is lost on the way.
Fault(i) ==
  /\ Bearable(Cardinality(gaveUp), faults + 1) /\ faults' = faults + 1
  /\ \E sent \in BOOLEAN : Says(i, "error", {}, sent)
  /\ UNCHANGED <<store, decided, told>>

Ended == stage \in {"over", "bailed"} /\ UNCHANGED dvars

Harness == Skip \/ Send \/ SendFails \/ Take \/ GiveUp
Node == /\ stage \in {"send", "wait"}
        /\ \E i \in pending : Decide(i) \/ Answer(i) \/ Fault(i)
DNext == Harness \/ Node \/ Ended

DSpec == DInit /\ [][DNext]_dvars

-----------------------------------------------------------------------------
(***************************************************************************)
(* Properties.                                                             *)
(***************************************************************************)

\* validate_cost.rs measures and does not judge.
Judges == stage = "over" /\ tool # "cost"
Pass == Judges /\ Verdict(tool, Reads)
Prompt == gaveUp = {} /\ faults = 0

\* What a PASS is a verdict on. register.rs compares the state after its
\* last delta with the one before it, and so never asks whether the terminal
\* record was stored at all.
Judged(names) == names \ {"term"}
ContractRight == Judged(takes) = Judged(Wanted(tool))

\* On a node that is neither late nor failing, a command passes exactly if
\* the contract takes what it must take and refuses what it must refuse: the
\* checks of run() leave no contract unnoticed and blame none that is right,
\* whatever form the node gives its refusals (set.rs, bag.rs, register.rs,
\* pack.rs, upgrade.rs: the `all`, `failed` and `ok` each run ends with).
VerdictExact ==
  Judges /\ Prompt => (Pass <=> ContractRight)

\* The read that judges x was answered after the contract had decided on x,
\* and what the command took for its answer says what that answer says.
ReadAfterDecision(x) ==
  told[x].own /\ Read(x) = [ok |-> told[x].ok, held |-> told[x].held]

\* Whatever is late, lost or failing, a command passes only if the contract
\* is right, provided every name judged by absence was read after it was
\* decided: a stale answer, a leftover one or an early read elsewhere in the
\* script can make a command fail and never makes it pass (get_state, get,
\* offer: an answer is known by its contract only).
PassIsEarned == Pass /\ (\A x \in ByAbsence : ReadAfterDecision(x)) => ContractRight

\* validate_cost.rs reads one message per update (timed_update): up to the
\* first update given up, the time of every row is the time of its own update.
RowsAreOwn ==
  tool = "cost" => \A i \in DOMAIN got :
    got[i].ok /\ (\A j \in gaveUp : i < j) => got[i].own
=============================================================================
