# TLA+ models of the freenet-harness

The harness (`src/src`, the binary `fnh`) measures Freenet nodes: it connects to
a node's websocket, puts blocks, reads them back, times the answers and prints
tables. Its results are only worth something if every number in a table means
what its heading says. The client API carries **no correlation id**, answers come
late, out of order or never, errors name nothing, and a wait that expires does
not cancel its request. Most of the code is about keeping the books straight
under these conditions. These modules model that bookkeeping; TLC checks it on small
instances and TLAPS proves almost all of it for every instance.

## 1. Inventory

| Component | State | Operations | Interacts with | Status |
|---|---|---|---|---|
| Connection ledger: `probe.rs` (`Ledger`, `Client`), `latency.rs` (`send_req*`) | open requests, owed answers, sent / received / ambiguous counts, one ending per request | `request`, `request_keyed`, `answered`, `response`, `finish`, `send`, `recv` | every other part uses a `Client` | `Ledger` |
| Timed series: `latency.rs` (`Awaiting`, `timed_put`, `timed_get`, `measure_series`) | samples, held blocks, stale count | a put or get and its bounded wait | one connection for all series | `TimedSeries`, `Sampling` |
| Parallel puts: `latency.rs` (`measure_parallel`) | sample per put, completion curve | issue N puts, collect to one deadline | the same connection as the series | `ParallelBatch` |
| Delegate-put rounds: `latency.rs` (`probe_delegate_put`), `main.rs` (`ask_raw`, `poll_stat`), `probe-delegate` | tally in the delegate's secrets, rows | `putk`, answers to puts, `putstat`, polling | harness, node and delegate, one connection per message | `DelegateRounds` |
| `kill9` | node process, counters per cell | spawn, put, read back, kill, restart, read again | a node of its own and its disk | `Kill9` |
| `xnode`, write | ledger | put, wait by key | ledger | `Ledger` (waiting caller) |
| `xnode`, put_minted | trials, marks, hedges, read-backs | send, drain, mark, hedge, probe, end | two connections | `PutMinted` |
| `xnode`, read | cold / pending / read keys, cursor | cold control, rounds, `probe_once` | one connection; the blocks of another machine | `XnodeRead` |
| `xnode`, pairing and report | the two files, two clocks | `pair`, `proxy`; mint, conditional table, verdict line | files of the two roles | `Pairing`, in part |
| `hedge` | trials per arm, rounds | put, hedge at T, read back, two populations per T | two connections | `Hedge` |
| `group` | pieces read, re-puts | put n pieces, read until k, in three arms | two connections | `Group` (one group) |
| `parity` | groups file, two read files, re-put file | write, read, re-put, read again, score | one connection per role, files between roles | `ParityWrite`, `Parity` |
| `set`, `bag`, `register`, `pack` | one contract each | scripted puts, deltas and gets, checks | one node | `Scripts`, `Dialogue` |
| `upgrade` | a contract under two codes | as above, some steps depend on a read | one node, two connections | `Scripts`, `Dialogue` |
| `validate_cost` | rows of one contract | timed updates, one message read for each | one node | `Scripts`, `Dialogue` |
| `putshape` | trials per split, two clocks | put pieces, collect, poll until readable | two connections | `PutShape` |
| `latency`, readable part | one poll | put, poll until readable | two connections | not modelled |
| `batchblock`, `watch` | counters | sends until one blocks; polls | one node | not modelled |
| `stats` | none | percentiles, bounds | all tables | not modelled |
| `wasm_check`, command line, fixtures, build files | none | hashing, parsing | | not modelled |

What makes it hard, and where:

* **Pairing without ids** (`probe.rs`). An answer with a contract name closes the
  operation labelled by it; any other closes the oldest, unless an answer is owed.
  Correct means: late answers, errors and timeouts take no unanswered request out
  of the printed numbers, and no late answer ends an operation it is not the
  answer of. (A notification does take one out: on a connection that owes nothing
  it closes the oldest open request, `probe.rs:341-349`, `516`.)
* **Late answers** (`latency.rs`, `xnode.rs`). A sample, a hit or a point of a
  curve must come from its own request's answer, read while it was waited for.
* **Timeouts and budgets.** A run must end whatever the node leaves unanswered, and
  what a timeout throws away must be counted.
* **Rounds against a delegate.** The tally is reset per round, answers are not
  ordered with the reset.
* **Crash and restart** (`kill9.rs`). A read-back that times out looks like a block
  that is gone: what the loss column counts must be the one or the other, and with
  prompt read-backs only what the kill destroyed.
* **One loop, many clocks** (`put_minted`). Sends take time inside the loop, so
  marks, acknowledgements and hedges drift.
* **A bound that is spent twice** (`group.rs`, `hedge.rs`, `parity.rs`). A request's
  send is awaited for up to a bound of its own before the wait for the answer
  begins, so "one probe" after a deadline is a send and a probe.
* **A rotating cursor over a shrinking list** (`read`).
* **Two clocks on two machines** (`pair`). Which came first can only be said
  beyond the clock bound, and a read is dated by the end of its round.
* **Two populations that must be the same** (`hedge.rs`). One is made by what the
  loop did, the other computed afterwards.
* **Files as the only memory** (`parity.rs`). A writer, a reader that runs twice and
  a re-put may each fail or be killed, times are rounded on their way through a
  file, and the tables must agree on what is left.
* **Judging by what is absent** (`set.rs` and its kin). A contract that ignored a
  forbidden item and a node that lost it look the same.

The hazards are listed at their lines in `PROJECT.json`.

## 2. Modules and how they follow the code

In every module an action is one handler or one iteration step of the code up to
its next `await`, and the node is an environment that answers in any order, late,
twice where it may, or never. Time is a number only where an order of instants matters
(`PutMinted`, `XnodeRead`, `Pairing`, `Hedge`, `ParityWrite`, `Parity`, `Group`);
elsewhere a deadline is an action that may always
happen. Definitions marked *Slip* are plausible bugs of the definition that
follows them; no specification uses them, they exist to show that each property
can be broken.

**`Ledger`** - `Ledger::request/answered/response/finish` are functions from
ledger record to ledger record (`open` is the `Vec` of open labels, in order).
A request sent with `send` is labelled by its number (req#n), with `send_keyed` by its
contract. `caller` says how the connection is used and never changes: the write
role, which waits for each answer and finishes its operation itself
(`Awaits`), or a batch that drains what comes. `Send` with `ok = FALSE` and
`SendBlocked` are the two ways a send fails; both end the caller.
`NamedAnswer`, `UnnamedAnswer`, `Refused`, `Notification` are what `recv` can
yield. `answer` is history: what the node has done with each request.

**`TimedSeries`** - `Start*` sends and begins a wait with a fresh `Awaiting`,
`offer` is `Awaiting::offer`, `Judge` the pushing of a `Sample`, `Deadline`,
`NodeError` and `Answer` the arms of the match in `timed_put` / `timed_get`,
`Budget` the passing of the run's budget. `heard` is history. A key is the
series and the number of its put. It implements **`Sampling`**, the promise of a
series: one request at a time, one verdict each, and `ms` only for a request that
was itself answered. The mapping reads `Sampling`'s state off the samples:
`AskedFor` is what was sampled or is waited for, `Answered` what was heard, and
`VerdictOf` the verdict of a request's sample.

**`ParallelBatch`** - `Issue`, `Collect`, `Ack`, `NodeError`, `EndBatch` are the
two loops of `measure_parallel`. The first batch starts with requests that the
series before left unanswered. **`PutShape`** extends it with `put-shape`'s trials:
the same sends and collection (`collect_acks`), beside a reader's passes
(`poll_readable`) on a second connection; both loops must be over for
`EndTrial`.

**`DelegateRounds`** - the harness (`SendPutk`, `StopListening`, `PollDone`,
`PollExpired`) and the delegate (`ProcessPutk`, `ProcessPutResponse`, one
`process()` call each). Each message has a connection of its own, so the
delegate may process them in any order. `settles` says which node the run meets.

**`Kill9`** - one action per step of a trial; `block` is what the node holds of
it: on its way, in memory, on disk. `NodeStep` is the node storing and flushing
on its own time. `Drop` of the `Node` value is the `kill9` in `Fail` and
`Finish`. Two histories are kept of the trials a column is about: `destroyed`,
whose block was nowhere on the disk when the kill came, and `unread`, whose block
was there and was not handed over; the code cannot tell them apart
(`kill9.rs:196-199`).

**`PutMinted`** - the loop body, one action per part, in the code's order: send
one, drain acknowledgements, mark what is overdue, probe one block, check for the
end. Marking one trial (`Mark`) and putting it again (`Reput`) are two steps, as
the second is awaited (`xnode.rs:344-355`) and the node answers meanwhile; `seen` is
the instant all marks of a pass are taken at. `now` moves while a send, a re-put or
a read-back is awaited; a pass takes one unit at least. `early` and `behind` are
history: whose acknowledgement arrived before its T, and whose a drain left
unread behind an error.

**`XnodeRead`** - `ControlProbe` and `RoundProbe` both call `probe_once`, which
drains, sends, and waits by key; `EndRound` moves the cursor along the old list
and then drops what was read. `among` is the `retain` of that step: it gives the
n-th kept element in closed form, so that it can be proved about, and `MCPairing`
assumes, and TLC evaluates, that it is `SelectSeq` on all short lists.

**`Pairing`** extends `XnodeRead` with the writer on the other machine, whose
clock is `skew` ahead. A READ line's time is `hit_at`, one stamp for all keys of a
round, taken when the round is over (`xnode.rs:818-824`), and both files round
theirs (`rounded`, to a multiple of `Grain`); `looked` is when a key was really
asked for. `refused`, `deltas` and `unmatched` are the three ways a
READ line goes in `pair`, `far_first`, `ack_first` and `far_without_ack` the
counts of `proxy`.

**`Hedge`** - `Begin`, then per pass `Mark`, `ReadBack`, `Look`, as `trial` has
them, with one clock. `ReadBack` is a send of up to `Lag` and then a wait of up to
`Probe`, and nothing looks at the writer in between: together they are a `Pass`.
`EndTrial` files the row, `EndRound` asks `enough` and
`MaxRounds`. `Fired` and `Pool` are the two populations at a T. `ack` is when the
acknowledgement was read, which is all the code has.

**`ParityWrite`** - the write role up to its read-back: `SendBlock`,
`drain_acks` (between groups and in the tail), `EndGroup` with its flush,
`ReadBack` with `parse_groups`'s `fold`. `sink` is what is written and not
flushed; `insert` and `over` are the two things done to a `HashMap`. An ACK line
is `rounded` to a multiple of `Grain` (`parity.rs:362`), the recording keeps the time
as it was. **`Parity`** runs the roles one after another over the files they left;
a role may be killed, a read may start from any file a writer can leave. A reader
begins no probe after `PerKey`, but one begun before takes up to `ProbeTime` more.
The re-put sends block after block (`ReputSend`) and has a file only if it comes to
its end (`ReputOver`); a failed send, a failed re-mint and a kill are `ReputDies`.
The tables of `score` are operators of the files.

**`Group`** - `one_group`, one action per wait; `arm` chooses the branch.
`Stalled` is a `drain` on a connection that has ended. Time is counted from the
first send. `Offer` bounds a put's send; the send of a get (`Sending`) takes up to
the bound of the wait that follows it, and that wait then begins anew
(`group.rs:150-161`).

**`Scripts`** holds each acceptance command as a sequence of requests, one wait
each, and its checks as predicates of what the reads returned. A contract is the
set of names it takes. **`Dialogue`** runs a script against a node: `Take` is a
wait's next message, `GiveUp` its deadline, `Decide`, `Answer` and `Fault` the
node.

**`MC*`** give the constants values for TLC. The proofs about a component are in
a module of their own: **`TimedSeriesProofs`**, **`DelegateRoundsProofs`**,
**`PutMintedProofs`**, **`PairingProofs`** (the reader and the pairing that extends
it) and **`ParityProofs`** (both modules of parity). Three modules hold the proofs
of two components each, one behind the other: **`LedgerHedgeProofs`**,
**`Kill9GroupProofs`** and **`BatchDialogueProofs`** (`PutShape` with the
`ParallelBatch` it extends, and `Dialogue`). So that the two can be extended
together, `Hedge`, `Group` and `Dialogue` give their `Init`, `Next`, `Spec` and
`vars` a letter of their own (`HSpec`, `GSpec`, `DSpec`), and the last two call
`stage` what the other modules call `phase`.

## 3. Runs

| Run | Instance | Shows |
|---|---|---|
| `LedgerRun` | five uses of a connection, 3 requests, 3 contracts | `UnansweredReported`, `OkMeansAnswered`, `CountExact`, `KeyedExact`, and that no operation a caller waits for stays OUTSTANDING |
| `SeriesRun` | two series of two puts and their warm gets | own answers only, nothing discarded silently, and the refinement of `Sampling`: gets only of held blocks, nothing started after the budget |
| `BatchRun` | two batches of 2 with up to two older requests, or two trials of 2 pieces, one duplicate | the curve is the batch's own and N samples are reported; a trial's clocks are its own and a last piece is reported only with all pieces |
| `RoundsRun` | rounds of 1, 2, 3 puts, both kinds of node | the tally is conserved across resets, excess comes only from earlier rounds, rows are exact when rounds settle, termination |
| `Kill9Run` | two delay cells and the control, two trials each, prompt and slow read-backs | one node at a time and none left behind; every loss is of a block that was destroyed or, when read-backs are slow, was not handed over |
| `MintedRun` | four trials, T = 2, milestone 1, sends and re-puts of 0 or 2, read-backs of 1, errors | a trial is conditioned only if it was unacknowledged at its own T, hedges keep their time however slow the sends, termination |
| `ReadRun` | three keys of which the writer sends one, rounds of two, limit 6, bound 3, clocks one unit apart either way, times rounded to 2 | every key in exactly one list, hits are honest, pairs are sound up to a round and all accounted for, "the far node was first" is true, "the ack was first" is true of the round's end, termination |
| `HedgeRun` | T of 1 and 2, two rounds, deadline 6, a send of 1 and a wait of up to 2 per pass, one refused put | the hedged population is what `unacked_at` would count, but for trials acknowledged within one pass, and the run stops for the reason it prints |
| `ParityRun` | one full and one control group of one data and one parity block | every outcome is its own key's, a run that dies leaves every completed group readable, only an error or a rounded time makes the file disagree with the recording, reads are honest, the tables agree but for late blocks, recovery is of what was missed however far the re-put got |
| `GroupRun` | 2 of 3 pieces, three arms, one fault, connections that end | hits are honest and no later than the deadline and what the last probe may take, RAW-CONC throws no answer away, a group ends or stalls in `drain` |
| `ScriptsRun` | seven scripts, a contract wrong about at most one name, one late answer, one fault | a PASS is exactly a right contract when the node is prompt, and is earned when it is not; rows are own up to the first timeout |
| `ReadCycle` | five keys, rounds of two | **violated**, see below |

**Bounds.** The hazards need two requests (a late answer and a running
operation), and a third where something must be between them or repeat; two
series, batches or rounds for what one leaves to the next; three rounds so that a
round inherits from two others. Four trials give each arm of `PutMinted` two, so
that in one pass the slow re-put of one stands before the other's, and sends as long
as T let a trial fall due while another is sent; the bound of `HedgesKeepTime` is
reached there. Two rounds and two T of `Hedge` let one side of one T reach its
target without the others. Two of three pieces leave one unread when a group
is readable. A full and a control group of one data and one parity block let one
group's late acknowledgements meet the other's, and make parity that is asked
for and parity that is not. A late answer and a fault together are what the
acceptance commands can confuse; the longest script, of two contracts, has one or
the other. The clocks' limits are set so that the limit can pass in every
phase, `Lag` so that a send can cross a mark's instant, `Grain` so that a rounded time
can cross the bound, `ProbeTime` so that a probe can outlast its reader, and `ReadRun`'s `Bound` so
that the limit can pass inside the cold control. Names of the bounds: `MaxReq`,
`notify`, `MaxRepeat`, `Left`, `MaxK`, `Want`, `Cells`, `N`, `NSeries`, `Budget`,
`Limit`, `Lag`, `Lags`, `Offer`, `ProbeTime`, `Grain`, `MaxRounds`, `MaxErr`, `MaxSend`, `MaxFaults`, `MaxWrong`,
`Trouble`. Deadlock is checked in `ScriptsRun`, where every end is an action of
its own; elsewhere each run of the harness ends, and a node may stop answering.

**Fairness** is only ever weak fairness of the harness's own steps: tokio runs
a ready task, and a `timeout` always fires. Nothing is assumed of the node,
except in `DelegateRounds` for the node that settles by definition. Termination
therefore holds against a node that answers nothing. It is stated where an
end could be missed: the waiting caller, the delegate's rounds, the loops of
`PutMinted` and `XnodeRead`, and a group of `Group`, whose time passes by a
fair `Tick` as the timer of its waits does, and whose sends do fail on a
connection that has ended (`CutOff`). Other failures, and kills, may happen and
need not.

### What the violated property shows

* `LookedEachCycle`: the cursor is moved along the list before the found keys
  leave it, so a key can wait longer than the cycle the run prints
  (`xnode.rs:803`, against lines 745 and 752).

### Where the code and its comments differ, or a number is weaker than it reads

These were met while modelling. The models follow the code, and the properties
are stated so that they say what does hold.

* `probe.rs:234`: a request sent with `send` is labelled req#n; when its answer
  names its contract, `recv` looks for contract#n and closes nothing. Such a
  request is reported OUTSTANDING though it was answered, against the comment at
  `probe.rs:747`, "a healthy run prints 0".
* `xnode.rs:639`: the write role ends an operation as `Blocked` after it has read
  an error, so `owed` counts an answer that did come; `probe.rs:281` calls
  `Timeout` and `Blocked` "the two outcomes where nothing came back".
* `probe-delegate/src/lib.rs:163`: an answer bumps the tally whichever round
  asked, so an answer of round k that arrives after the next `putk` is counted in
  the round after; line 124 says "a later round can never inherit an earlier one's
  answers". `ExcessIsInherited` says that this is the only source of excess.
* `kill9.rs:196`, `198`: a read that times out or errs after the restart counts as a
  loss, so the column may overstate what the kill destroyed; `LossAccounted` says by
  how much. If it is the control's, line 506 prints "the kill does destroy an
  unconfirmed put", which need not have happened. The column may understate too:
  `survived` (line 481) also counts trials that were never confirmed, so an
  unconfirmed survivor hides a confirmed loss (line 432).
* `probe.rs:516`: a notification of a subscription is an answer to `recv` like any
  other, and on a connection that owes nothing it closes the oldest open request:
  that request is then unanswered and in no number. `UnansweredReported` allows one
  for each notification, and shows that nothing else hides one.
* `hedge.rs:139`: "the mark is taken in BOTH arms, so 'still unacked at T' means the
  same thing on each side", but the control's population is computed from
  acknowledgement times (line 222), while the hedged arm asks whether the
  acknowledgement has been read when the pass comes round (line 146): a trial
  acknowledged in between is in one population and not in the other.
  `PopulationsMatch` bounds the difference by one pass after T. A pass is the send of
  a read-back, up to `SEND` (60 s, line 39), and its wait, `PROBE` (250 ms, line 41). So the
  second half of the property, that a trial never acknowledged is hedged, binds a
  T only if T and a whole pass end before the trial does; where sends may really take
  60 s of a 90 s trial, that is a T below 29 s. The same holds of a first send
  that outlasts the trial, whose deadline is counted from before it
  (`hedge.rs:125`): the trial is over before its first mark and is not hedged,
  although the control counts its like as unacked at T.
* `xnode.rs:818`: every key a round found is printed with the time at which the
  round was over, so a block served before its acknowledgement can be called
  acknowledged first although the clocks agree. Line 1028 calls that time "the
  absolute time this node first served it", and line 1455 says "an order inside this
  is not decided" of the clock bound alone. `FarFirstIsTrue` gives "the ack was
  first" the rest of the round; "the far node was first" needs no such allowance,
  as a late stamp can only make the far node look later.
* `group.rs:161`: a probe begun before the group's deadline spends its bound on the
  send and once more on the answer, and a hit it brings is counted; `main.rs:300`
  says "what is not readable by then is `not within T`". `LastRead` in `HonestHits` is
  the time that arm can really read at.
* `parity.rs:330`: `drain_acks` returns false "only if the connection itself
  ended", but any error of the node does it, in the tail too. The error is paired
  with the oldest open put by the recording and with none by the file
  (`parity.rs:367`), so the two disagree and the role bails.
* `parity.rs:362`: the file has an acknowledgement rounded to a tenth of a
  millisecond, the recording (line 598) as it was; one less than half of that
  after the bound is late in one and within it in the other. The role then bails
  too, with a message (line 625) that calls the mismatch "a serialisation fault in this
  tool, not a disagreement about what happened". `BailIsExplained` says that these two
  are all that makes it.
* `parity.rs:721`: a reader looks at its deadline between probes only, so a block can be
  read up to 30 s and `probe_ms` after it; `main.rs:406` says "give up asking for a key
  after this long". Such a block is not counted by table 3 at that time and is not
  a miss of table 4; `SectionsAgree` names it as the only disagreement.
* `parity.rs:1295`: in a re-put, a repeated acknowledgement replaces the first, so
  a key answered in time can become late.
* `group.rs:140`: `drain` reads until a wait times out; on a connection that has
  ended each `recv` returns at once, with an error, and it never does.
  `EndsOrStalls` says that a group ends unless it comes to that.
* `set.rs:200`: the control compares with the state before it, so it can pass on
  two reads that returned nothing; `v5a - 1` then underflows.
  `register.rs:206`: step 5 compares with the previous read, so a terminal record
  that was never stored passes; `VerdictExact` leaves that name out.
* `bag.rs:82`: an update's wait that ends with an error or a timeout is followed
  by the read-back all the same; silence therefore counts as a refusal, in
  `pack.rs` and `upgrade.rs` too. `PassIsEarned` says under which condition a PASS
  is still earned.
* `validate_cost.rs:91` reads one message per update: after one timeout every
  later row has the time of the update before it.
* `xnode.rs:1148`: `never_far` is never counted.
* `xnode.rs:242`: `SETTLE`, "how long to wait for straggler acknowledgements once
  nothing else can change" (line 238), is measured from the start of the run
  (line 464): a run whose sends take longer waits for no straggler.
* `xnode.rs:306`: the drain stops at the first error, and an acknowledgement behind
  it is read a pass later, though line 304 says "an ack sitting unread in the socket is
  a hedge fired for nothing". `ConditionedIsTrue` says that this is the only way to
  such a hedge.
* `putshape.rs:222`: an answer that is not for the key being asked for is discarded,
  and not each is counted as stale; `TrialIsOwn` bounds that count from above only.
* `main.rs:690`, `722`: the sends of `ask_raw` have no bound of their own.
  `DelegateRounds` has a message as sent in one step, so its termination is that of
  the waits and the polls.
* Any error ends the sample or the batch that is running (`latency.rs:572`, `1085`);
  a node slower than the control's bound passes for cold (`xnode.rs:720`).

## 4. Proofs

Every theorem is for all values of the constants that the module's `ASSUME`
allows, of which each says no more than that counts are naturals and that
what has to exist does. "The invariant" is always inductive; where a property
is not, the text says what was missing.

**`LedgerHedgeProofs`**, about `Ledger` (in `LedgerAssumption`: a waiting caller sends its puts with
`send` and subscribes to nothing, as the write role does).

* `TypeCorrect`: from one lemma per ledger operation (`RequestEffect`,
  `AnsweredEffect`, `ResponseEffect`, `FinishEffect`) that says what it returns.
* `UnansweredReportedHolds`. The count is not inductive: the waiting caller closes
  an operation that the transport may have closed already, so one answer could
  take two requests off the list. `OnlyCurrentOpen` - nothing but the operation
  it waits for is ever open - rules that out, and `CountDown` is the arithmetic
  of a refusal that closes twice and owes once. A notification is the one step that
  closes a request and reads no answer, and pays for it by its own number.
* `OkMeansAnsweredHolds`. `OkInv` adds `OnlyCurrentDue`: while nothing is owed,
  the only answer still due is that of the running operation, so the oldest open
  operation is the one answered. This is what `owed` is for.
* `CountExactHolds` and `KeyedExactHolds`: the two forms of batch. `BatchInv`
  relates the open list to the set of requests the node still has to answer,
  by size for plain requests (`PlainCounts`) and label by label for keyed ones
  (`KeyedCounts`); it needs that only sent requests are due, that they have a
  form the caller uses, and that nothing is owed (`History`).

About `Hedge`, for every set of T, cap, target, budget, lag and deadline. `HedgeInv`
is proved by `HedgeInvHolds`; it has what is filed per arm and round, the reason,
and two facts `PopulationsMatch` rests on: a trial begins without a mark of the one
before (`FreshTrial`), and what a trial's marks say of its clock and of its
acknowledgement (`MarkedInTime`).

* `PopulationsMatchHolds`: the first mark at or after T comes within one pass of
  it, the send and the wait of one read-back (`ReadBackStep`), and the deadline leaves
  room for it under the property's premise.
* `StopsForItsReasonHolds`: `TrialsFiled` and `ReasonHeld`; nothing is filed
  between the question and the end, so what was reached stays reached.

**`TimedSeriesProofs`**, for every number of series and of puts.

* `TypeCorrect`: `SeriesInv` and `HeardInv`. That no request is asked for twice
  (`Once`) is what lets a late answer be told from the running one's, and it holds
  because puts come in the order of their keys (`PutsInOrder`) and gets in the
  order of the held blocks, each put and acknowledged once (`GetsInOrder`).
* `OwnAnswerHolds`, `NothingSilentHolds`: with `ReadsAreAsked` - what was heard was
  asked for and is no longer due - an answer is heard once, so the answers heard
  are in a one-to-one relation with `ms` samples and stale counts.
* `ImplementsSamplingHolds`: the refinement. Initial states map to initial
  states, and each step to the step of `Sampling` it is named for or to a stutter;
  the fairness-free specification of `Sampling` is what is implemented.

**`DelegateRoundsProofs`**, for every number of rounds.

* `TypeCorrect`: `RoundsInv`, of which `Accounted` says that the counted and the
  pending puts together are those of the tally's round and the inherited ones, and
  `OncePerRound` that a round's puts do not exist before its `putk` is processed.
* `TallyConservedHolds`, `ExcessIsInheritedHolds`: the same as cardinalities; a
  tally above `asked` has more counted puts than its round has puts.
* `RowsExactHolds`: with `SettledRounds`, where a round stands with a node that
  settles; the two polls see a row only when it is complete.

**`Kill9GroupProofs`**, about `Kill9`, for every number of cells and of trials per cell.

* `TypeCorrect`. That no counter passes `Want` is not inductive: `After` adds to
  `survived` without looking at `trials`. `CountInv` adds that `confirmed` and
  `survived` never pass `trials`, and that the running trial is in `trials` before
  it can be in `survived`.
* `OneNodeHolds`. `NodeInv` says in which phases a node is alive; the property
  alone does not say that `Respawn` finds none.
* `LossAccountedHolds`. The property speaks of the moments between trials;
  `LossInv` carries it through a trial: what was asked of a cell (`Asked`) has
  survived, was destroyed, went unread, or is the running trial, whose block the kill
  left on the disk (`Pending`).
  `ColumnBound` draws the column from it.
* `LossIsRealHolds`: where read-backs are prompt, `LossInv` has nothing unread.

About `Group`, for every N, K, length of a send, bound, attempt, deadline and number
of faults.
`GroupInv` is proved by `GroupInvHolds`.

* `HonestHitsHolds`: `FarNodeHas` - what is read has arrived, what arrived the far
  node had - and `InTime`, which bounds the wait at hand, and with it every read,
  by the deadline, or by the send and the wait of a probe that began before it
  (`SpentWithin`, `SpentTwice`). That the k-th smallest
  of the reading times is one of them, and so bounded too, is `NatMin` and a count.
* `ConcLosesNoneHolds`: `ConcAsks` says which pieces the second loop has asked for;
  from then on a piece moves from asked to arrived to read and is dropped nowhere.

**`PutMintedProofs`**, for every plan, T, milestone, limit and lag.

* `TypeCorrect`: `LoopInv`, with the facts that a trial not sent has no mark, and
  that a mark is taken at or after its trial's T.
* `ConditionedIsTrueHolds`. `Arrivals` follows an early acknowledgement from the
  socket to the list of those read: once a pass has drained the socket at or after
  T it is read or was left behind an error, and so it stays while re-puts of other
  trials are awaited.
* `HedgesKeepTimeHolds`. `Punctual` bounds, phase by phase, how long a trial that waits
  for its mark or its re-put may have waited: a read-back and a send (`Slack`), and
  the re-puts since, which are paid for by their number (`Spent`). It needs that at
  most one trial is marked and not yet put again.

**`PairingProofs`**, for every set of keys, burst, limits, clock skew and margin.

* `ReaderCorrect`: `ReadInv`. `Placed` says that the three lists are injective and,
  with `void`, a partition of the keys. The step that needs work is `EndRound`:
  `AmongFacts` shows that what `among` keeps is each element that should be
  kept, once, from the fact that ranks in a finite set are a bijection
  (`RankFacts`), and the cursor's bound from the remainder.
* `EachKeyOnceHolds`, `HonestHitsHolds`: stated of `PSpec`, the reader beside the
  writer, as the run checks them.
* `PairCorrect`, `PairsAreSoundHolds`, `FarFirstIsTrueHolds`: a read is dated after it
  was served and by less than a round (`Stamped`, an invariant of the reader), and
  rounding moves a difference by less than a grain (`RoundedFacts`); the rest is
  arithmetic with any skew within the margin (`SendOrder`, `AckOrder`).

**`ParityProofs`**, for every plan of group sizes, full and control groups and
parity, any bound, budget, number of faults and deadline.

* `WriterCorrect`: `WInv`, the invariant of the writer. What has been sent is the
  blocks behind `next` in the plan's order; the lines in file and buffer are
  exactly the acknowledgements timed, and without an error the recording has an
  answer exactly for those (`Recorded`). `OwnAckHolds` follows.
* `CrashSafeHolds`: `InFiles` and `GroupsOnDisk`; what a kill leaves is the plan up
  to some block, because flushes come at the ends of groups and at errors.
* `BailIsExplainedHolds`: it is about the step that reads the file back. Without an
  error and without a time that rounding takes back within the bound, `ReadsBack` shows,
  block by block, that `fold` of the file is `recorded`. That rounding never takes a
  time over the bound is `RoundedFacts`, and needs the bound to be a multiple of the
  grain, as milliseconds are of a tenth of one.
* `ReadersCorrect`: `RInv`. Each key a role is to read is in its read file, the
  lines of its round or its cold keys (`Reading`), and a MISS line appears only in
  the step that accounts for all of them (`ReadsOK`), so a killed reader leaves a
  file without one.
* `HonestReadsHolds` follows from `RInv`, and so does `RecoveryIsOwnHolds`, by its part
  `Reput`: what was sent again was missed, and a re-put file that names anything
  names all that was missed, all of which was sent.
* `SectionsAgreeHolds`: counting the blocks fetched by a time and looking for the
  time of the m-th block are the same question (`CountedByTime`), applied to a
  whole group and to its data; a block is missed or was read in time unless its
  probe ran late, and the rest is cardinalities of a group's blocks.

**`BatchDialogueProofs`**, about `PutShape` and `ParallelBatch`, for every list of
batch sizes, number of older requests and of repeats, of `PSpec`, whose `kind` is
either of the two commands. `BatchInv` is proved by `BatchInvHolds`.

* `CurveIsOwnHolds`: neither property is inductive, as both speak of what has been
  filed. `SentOwn` says that the puts sent are the first of their batch,
  `CurveOwn` that the curve is injective and its range the puts with a sample;
  `CountStep` shows that an acknowledgement extends both or neither.
* `TrialIsOwnHolds`: `ReadOwn` keeps the reader to this trial's pieces, and `StaleOwn`
  bounds what was discarded by the earlier trials' acknowledgements and the
  repeats. It rests on `OthersEarlier`: what is due or answered is of an earlier
  trial or was sent in this one, so that an acknowledgement that is not counted
  is a late one. What a finished trial reports stays true as more is answered
  (`TrialStaysOk`).

About `Dialogue`, for any number of late answers, faults and wrong names.

* `RowsAreOwnHolds`: with `OwesOne` - until a request is given up, the node has
  received, or has answered, the one that is waited for and no other - the next
  message is the right one. Behind the first request given up that is lost, and
  `InOrder` says that every later row is behind it.

In several modules: what `RemoveFirst` does to a sequence and to the number of
occurrences in it, that `FlattenSeq` of sequences over S is one over S, and the
least and greatest element of a set of naturals. Induction is done by the least
counterexample, as the library's induction theorems cannot be applied here.

Only model-checked:

* Liveness and everything under fairness: `Terminates` (three modules),
  `NoneLeftOutstanding`, `EndsOrStalls`. It is outside the prover's logic.
* `VerdictExact`, `PassIsEarned` (`Dialogue`): they are about seven given scripts,
  so there is no parameter to generalise but the numbers of late answers, faults
  and wrong names, and the scripts and verdicts are computed by `FlattenSeq`,
  `SelectSeq` and `FoldSet`, whose values on given arguments the prover does not
  compute.

## 5. Not modelled, and why

Instrumentation beyond the ledger's numbers (event log, dumps on panic) is in
another crate. Building, hashing and encoding of blocks, packs, records and
items, table layout, percentiles, argument parsing and environment description
are pure and do not interact. Contracts and merges are in other repositories:
`Dialogue` has a contract as the set of names it takes.

* `Kill9`: the free-space and port checks and the pooling over sizes.
* `PutMinted`: which block the read-back picks is left open, so the properties
  hold for every choice.
* `Pairing`: minting, the conditional table, the verdict line and the text of the
  files.
* `Hedge`: percentiles of the populations.
* `ParityWrite`, `Parity`: the old file format, tables 2 and 6 (quantiles, the
  binomial), and what a buffered writer puts on disk when its buffer fills
  before a flush.
* `Group`: the loop over groups and arms, and its tables.
* `Dialogue`: a run begins with no contract on the node. `set.rs:102-109` salts its
  world with one byte, so a rerun can meet an earlier run's contract
  (`register.rs:108-115` measured such collisions); the properties are about runs
  that do not. A contract that drops a denied item where it should retain it is not
  a set of names taken, so the checks on what is retained never decide. The two
  halves of `upgrade.rs` share their connections, and are two scripts here, each
  with fresh ones.
* `Scripts`: minting, and the fit that `validate_cost` reports.
* `PutShape`: percentiles, bytes, and the control that no key repeats.
* The readable part of `latency`: a timed put as `TimedSeries` has it beside a poll
  as `PutShape` has it, which share nothing but their start.
* `batchblock`, `watch`: they count and print, and judge nothing.
* `stats`: floating-point samples. `wasm_check`, the endpoint guard: bytes and
  strings.

## 6. What is left

The models are as wide as this code repays, and every invariant that the runs
check is proved except the two verdicts above. For those, a next step is to give
each script and verdict in closed form, check the form against the definitions
with TLC as `MCPairing` does for `among`, and prove `PassIsEarned` from two facts:
no read shows a name that the contract does not take, and a read that is
answered after a name was decided shows it if it was taken.
