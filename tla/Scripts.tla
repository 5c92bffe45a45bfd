------------------------------- MODULE Scripts -------------------------------
(***************************************************************************)
(* What the acceptance commands ask of a node and how they judge it:       *)
(* set.rs, bag.rs, register.rs, pack.rs, upgrade.rs, and the update loop   *)
(* of validate_cost.rs. Each is a fixed script of requests over one or two *)
(* connections; a request is followed by one wait. The bytes of a delta,   *)
(* a block or a record are a name, and a contract's state is the set of    *)
(* names it has taken, so a contract that takes what it should refuse, or  *)
(* the reverse, is one that takes another set.                             *)
(***************************************************************************)
EXTENDS Naturals, SequencesExt

Tools == {"set", "bag", "register", "pack", "blocks", "records", "cost"}

(***************************************************************************)
(* A request: the connection it goes out on, what it is, the contract and  *)
(* the name it is about, and which message ends the wait: the request's    *)
(* own kind for its own contract ("own"), or whatever comes next ("next"). *)
(* `needs` says when it is made at all: <<read, hit>> for every earlier    *)
(* read it depends on.                                                     *)
(***************************************************************************)
Request(id, conn, send, key, item, wait, needs) ==
  [id |-> id, conn |-> conn, send |-> send, key |-> key, item |-> item,
   wait |-> wait, needs |-> needs]

Sent == "-"     \* the id of a request whose answer no check looks at

\* A read, named for the check that uses it.
ReadAs(id, conn, key, needs) ==
  <<Request(id, conn, "get", key, Sent, "own", needs)>>

\* A put, one message read, and the read-back, named for what was put.
PutThenRead(id, conn, key, item, needs) ==
  <<Request(Sent, conn, "put", key, item, "next", needs)>>
    \o ReadAs(id, conn, key, needs)

\* update(): the delta, its own answer awaited, and the read-back.
UpdateThenRead(item) ==
  <<Request(Sent, "c", "update", "k", item, "own", {})>>
    \o ReadAs(item, "c", "k", {})

\* A round trip: the first name is put, the others are deltas.
RoundTrip(items) ==
  PutThenRead(Head(items), "c", "k", Head(items), {})
    \o FlattenSeq([i \in 1 .. Len(items) - 1 |-> UpdateThenRead(items[i + 1])])

SetScript == RoundTrip(<<"owner", "cap", "deny", "self_deny", "other", "deny_other">>)

BagScript == RoundTrip(<<"empty", "writer_a", "writer_b", "cheap", "paid", "extra">>)

RegisterScript ==
  RoundTrip(<<"first", "second", "stale", "conflicting", "term", "after">>)

\* Each case is a contract of its own.
PackScript ==
  FlattenSeq([i \in 1 .. 3 |->
    LET case == <<"valid", "corrupted", "control">>[i]
    IN  PutThenRead(case, "c", case, case, {})])

\* The seed, and updates of which one message each is read.
CostScript ==
  <<Request("seed", "c", "put", "k", "seed", "own", {})>>
    \o [i \in 1 .. 3 |->
         LET row == <<"row1", "row2", "row3">>[i]
         IN  Request(row, "c", "update", "k", row, "next", {})]

(***************************************************************************)
(* upgrade.rs, whose two halves are two scripts here: they share no        *)
(* contract. "A" and "B" are a contract under the two codes, "w" and "r"   *)
(* the writer's and the reader's connection.                               *)
(***************************************************************************)
BlockHalf ==
  LET missed == {<<"2B", FALSE>>}
      found  == missed \cup {<<"2A", TRUE>>}
  IN  PutThenRead("block_a", "w", "block A", "block_a", {})
        \o ReadAs("2B", "r", "block B", {})
        \o ReadAs("2A", "r", "block A", missed)
        \o PutThenRead("block_b", "w", "block B", "block_b", found)
        \o ReadAs("2bB", "r", "block B", {})
        \o ReadAs("2bA", "r", "block A", {<<"2bB", FALSE>>})
        \o ReadAs("3B", "r", "block B", {})
        \o PutThenRead("lie", "w", "lie B", "lie", {})

Copy == "copy"  \* the record that was read under A, put under B

RegisterHalf ==
     PutThenRead("three_a", "w", "record A", "three_a", {})
  \o ReadAs("5A", "r", "record A", {})
  \o PutThenRead("carried", "w", "record B", "three_b", {<<"5A", TRUE>>})
  \o PutThenRead("five_a", "w", "record A", "five_a", {})
  \o ReadAs("6B", "r", "record B", {})
  \o ReadAs("6A", "r", "record A", {})
  \o ReadAs("7B", "r", "record B", {})
  \o ReadAs("8A", "r", "record A", {})
  \o PutThenRead("healed", "w", "record B", Copy, {<<"8A", TRUE>>})
  \o ReadAs("8B", "r", "record B", {})
  \o ReadAs("9B", "r", "record B", {})
  \o PutThenRead("forged", "w", "record B", "forged", {})
  \o ReadAs("9B after", "r", "record B", {})
  \o PutThenRead("nine", "w", "record B", "nine", {})
  \o ReadAs("10B", "r", "record B", {})

Script == [tool \in Tools |->
  CASE tool = "set"      -> SetScript
    [] tool = "bag"      -> BagScript
    [] tool = "register" -> RegisterScript
    [] tool = "pack"     -> PackScript
    [] tool = "blocks"   -> BlockHalf
    [] tool = "records"  -> RegisterHalf
    [] tool = "cost"     -> CostScript]

\* What the commands offer, and what of it a contract must not take.
Offered(tool) ==
  ({Script[tool][i].item : i \in DOMAIN Script[tool]} \ {Sent, Copy})
    \cup (IF tool = "records" THEN {"five_b"} ELSE {})

Refused(tool) ==
  Offered(tool) \cap {"self_deny", "cheap", "stale", "after", "corrupted",
                      "lie", "forged"}

Wanted(tool) == Offered(tool) \ Refused(tool)

-----------------------------------------------------------------------------
(***************************************************************************)
(* The verdicts. R[id] is what the read named id returned: whether it      *)
(* returned a state at all, and the names that state had taken.            *)
(***************************************************************************)

\* counts(): items held, and items no denial hides.
Held(r) == Cardinality(r.held \cap {"owner", "cap", "other"})

Visible(r) ==
  LET denial == [owner |-> "self_deny", cap |-> "deny", other |-> "deny_other"]
  IN  Cardinality({x \in DOMAIN denial : x \in r.held /\ denial[x] \notin r.held})

\* SLIP: the control is left out, that a denial by its own writer does hide.
SetVerdictUncontrolled(R) ==
  /\ Held(R["owner"]) = 1 /\ Visible(R["owner"]) = 1
  /\ Held(R["cap"]) = 2 /\ Visible(R["cap"]) = 2
  /\ Held(R["deny"]) = 2 /\ Visible(R["deny"]) = 1
  /\ Held(R["self_deny"]) = Held(R["deny"])
  /\ Visible(R["self_deny"]) = Visible(R["deny"])

SetVerdict(R) ==
  /\ Held(R["owner"]) = 1 /\ Visible(R["owner"]) = 1
  /\ Held(R["cap"]) = 2 /\ Visible(R["cap"]) = 2
  /\ Held(R["deny"]) = 2 /\ Visible(R["deny"]) = 1
  /\ Held(R["self_deny"]) = Held(R["deny"])
  /\ Visible(R["self_deny"]) = Visible(R["deny"])
  /\ Visible(R["deny_other"]) + 1 = Visible(R["other"])

\* count(): the pointers of the bag, cut to M.
M == 8
Pointers(r) ==
  LET n == [writer_a |-> 3, writer_b |-> 3, cheap |-> 1, paid |-> 1, extra |-> M]
      sum == FoldSet(LAMBDA x, s : n[x] + s, 0, r.held \cap DOMAIN n)
  IN  IF sum > M THEN M ELSE sum

\* SLIP: the control is left out, that a paid pointer does extend the bag.
BagVerdictUncontrolled(R) ==
  /\ R["empty"].ok /\ R["empty"].held = {"empty"}
  /\ Pointers(R["writer_b"]) = 6
  /\ R["cheap"] = R["writer_b"]
  /\ Pointers(R["extra"]) = M

BagVerdict(R) ==
  /\ R["empty"].ok /\ R["empty"].held = {"empty"}
  /\ Pointers(R["writer_b"]) = 6
  /\ R["cheap"] = R["writer_b"]
  /\ Pointers(R["paid"]) > Pointers(R["cheap"])
  /\ Pointers(R["extra"]) = M

\* seq_of(): the seq of the record a state holds, 0 when there is none. A
\* contract that takes what it must refuse lets it displace the rest.
RecordSeq(r) ==
  LET order == <<<<"after", 99>>, <<"term", 9>>, <<"stale", 1>>,
                 <<"second", 2>>, <<"first", 1>>>>
      there == SelectSeq(order, LAMBDA p : p[1] \in r.held)
  IN  IF there = <<>> THEN 0 ELSE there[1][2]

RegisterVerdict(R) ==
  /\ RecordSeq(R["first"]) = 1
  /\ RecordSeq(R["second"]) = 2
  /\ RecordSeq(R["stale"]) = 2
  /\ "conflicting" \in R["conflicting"].held
  /\ RecordSeq(R["after"]) = RecordSeq(R["term"])

PackVerdict(R) ==
  \A case \in Offered("pack") : (case \in R[case].held) = (case \in Wanted("pack"))

\* The record a state under one code holds.
Record(r) ==
  LET there == SelectSeq(<<"forged", "nine", "five_b", "three_b", "five_a", "three_a">>,
                         LAMBDA x : x \in r.held)
  IN  IF there = <<>> THEN Sent ELSE Head(there)

BlockVerdict(R) ==
  /\ "block_a" \in R["block_a"].held
  /\ ~R["2B"].ok /\ R["2A"].ok /\ "block_b" \in R["block_b"].held
  /\ R["2bB"].ok
  /\ "block_b" \in R["3B"].held
  /\ "lie" \notin R["lie"].held

RecordVerdict(R) ==
  /\ Record(R["three_a"]) = "three_a" /\ Record(R["carried"]) = "three_b"
  /\ Record(R["five_a"]) = "five_a" /\ Record(R["6A"]) = "five_a"
  /\ Record(R["7B"]) = "three_b"
  /\ Record(R["healed"]) = "five_b" /\ Record(R["8B"]) = "five_b"
  /\ Record(R["forged"]) # "forged" /\ Record(R["9B after"]) = Record(R["9B"])
  /\ Record(R["nine"]) = "nine" /\ Record(R["10B"]) \in {"nine", "forged"}

Verdict(tool, R) ==
  CASE tool = "set"      -> SetVerdict(R)
    [] tool = "bag"      -> BagVerdict(R)
    [] tool = "register" -> RegisterVerdict(R)
    [] tool = "pack"     -> PackVerdict(R)
    [] tool = "blocks"   -> BlockVerdict(R)
    [] tool = "records"  -> RecordVerdict(R)
    [] tool = "cost"     -> TRUE
=============================================================================
