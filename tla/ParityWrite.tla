----------------------------- MODULE ParityWrite -----------------------------
(***************************************************************************)
(* The write role of the group probe (src/src/parity.rs).  Whole groups of *)
(* m data and some parity blocks are put, one concurrent batch per group;  *)
(* acknowledgements are taken between groups without waiting and, once, at *)
(* the end with the tail's wait.  Records and acknowledgements go to one   *)
(* append-only file, which parse_groups folds into one outcome per key; at *)
(* its end the run compares that fold with what the connection recorded.   *)
(***************************************************************************)
EXTENDS Integers, SequencesExt, FiniteSetsExt

CONSTANTS
  Sizes,     \* ms: the sequence of group sizes m
  Groups,    \* full groups of each size
  Controls,  \* control groups of each size
  Parity,    \* parity blocks per group
  Bound,     \* ack_secs
  Grain,     \* what the file rounds a time in ms to, a tenth of one
  Budget,    \* budget_mins: no group is begun at or after it
  MaxSend,   \* bound: how long the writer goes on sending
  MaxFaults  \* bound: errors, and repeated acknowledgements, of the node

ASSUME ParityWriteAssumption ==
  /\ Sizes \in Seq(Nat \ {0}) /\ Groups \in Nat /\ Controls \in Nat
  /\ Parity \in Nat /\ Bound \in Nat \ {0} /\ Budget \in Nat
  /\ Grain \in Nat \ {0} /\ Bound % Grain = 0
  /\ MaxSend \in Nat /\ MaxFaults \in Nat

Full == "full"
Control == "control"

-----------------------------------------------------------------------------
(* The plan, interleaved: arms and sizes alternate.                        *)
Plan ==
  LET Of(arm, i, n, m) == IF i <= n THEN <<[m |-> m, arm |-> arm]>> ELSE <<>>
      Both(i, m) == Of(Full, i, Groups, m) \o Of(Control, i, Controls, m)
      Row(i) == FlattenSeq([j \in DOMAIN Sizes |-> Both(i, Sizes[j])])
  IN  FlattenSeq([i \in 1 .. Max({Groups, Controls}) |-> Row(i)])

(* A block is its group and its index in it; data first, then parity.      *)
Width(g) == Plan[g].m + Parity
Members(g) == {g} \X (1 .. Width(g))
Blocks == UNION {Members(g) : g \in DOMAIN Plan}
IsParity(b) == b[2] > Plan[b[1]].m
Before(b, c) == b[1] < c[1] \/ (b[1] = c[1] /\ b[2] < c[2])

(* The time an ACK line says, {ms:.1}; a tie is decided for the lower one. *)
rounded(t) == LET up == t + (Grain - 1) \div 2 IN up - (up % Grain)

(* A file is its block records and its ACK lines.  A key's ACK lines are   *)
(* appended as time goes on, so its first line has its least time.         *)
NoFile == [blocks |-> {}, acks |-> {}]
Lines(f, g) == [blocks |-> f.blocks \cup g.blocks, acks |-> f.acks \cup g.acks]
AckLines(f, b) == {l \in f.acks : l[1] = b}

Outcomes == {"Within", "Late", "Never"}

(* The fold of a file with the bound in its header: the first ACK decides. *)
fold(f, b) ==
  IF AckLines(f, b) = {} THEN "Never"
  ELSE IF Min({l[2] : l \in AckLines(f, b)}) <= Bound THEN "Within" ELSE "Late"

(* HashMap::insert of one entry, and the entries of f over those of g.     *)
insert(f, b, v) == [x \in DOMAIN f \cup {b} |-> IF x = b THEN v ELSE f[x]]
over(f, g) ==
  [x \in DOMAIN f \cup DOMAIN g |-> IF x \in DOMAIN f THEN f[x] ELSE g[x]]

VARIABLES
  phase,     \* what the writer does; its last phase says how it ended
  next,      \* the next block to send
  now,       \* its clock
  sentAt,    \* when each sent block was sent: a function on the sent ones
  ackMs,     \* how long each read acknowledgement took: on the read ones
  account,   \* the connection's recording: answers per sent key
  tailEnd,   \* until when the tail waits
  sink,      \* lines written and not yet flushed
  disk,      \* the file
  due,       \* puts the node has not answered
  done,      \* puts the node has acknowledged
  socket,    \* answers that arrived and were not read
  faults     \* errors and repeats so far

memory == <<next, now, sentAt, ackMs, account, tailEnd, sink>>
node == <<due, done, socket, faults>>
wvars == <<phase, memory, disk, node>>

NoName == <<0, 0>>   \* an error names no contract

sent == DOMAIN sentAt
Wanted == Cardinality(sent)
Seen == Cardinality(DOMAIN ackMs)

Ended == {"wrote", "bailed", "failed", "killed"}

WInit ==
  /\ phase = "send"
  /\ next = <<1, 1>> /\ now = 0 /\ sentAt = <<>> /\ ackMs = <<>>
  /\ account = <<>> /\ tailEnd = 0 /\ sink = NoFile
  /\ due = {} /\ done = {} /\ socket = <<>>
  /\ faults = [err |-> 0, dup |-> 0]

-----------------------------------------------------------------------------
(* One member of the group is put, keyed, and its record is written with   *)
(* its outcome unknown.  Nothing is read until its group is sent.          *)
SendBlock ==
  /\ phase = "send" /\ next[1] <= Len(Plan)
  /\ next[2] = 1 => now < Budget
  /\ sentAt' = insert(sentAt, next, now)
  /\ account' = insert(account, next, 0)
  /\ sink' = Lines(sink, [blocks |-> {next}, acks |-> {}])
  /\ due' = due \cup {next}
  /\ IF next[2] = Width(next[1])
     THEN next' = <<next[1] + 1, 1>> /\ phase' = "drain"
     ELSE next' = <<next[1], next[2] + 1>> /\ phase' = phase
  /\ UNCHANGED <<now, ackMs, tailEnd, disk, done, socket, faults>>

(* A failed send ends the role; dropping the writer flushes its buffer.    *)
SendFails ==
  /\ phase = "send" /\ next[1] <= Len(Plan)
  /\ next[2] = 1 => now < Budget
  /\ phase' = "failed"
  /\ disk' = Lines(disk, sink) /\ sink' = NoFile
  /\ UNCHANGED <<next, now, sentAt, ackMs, account, tailEnd, node>>

(* The plan is through, or no budget is left: on to the tail.              *)
AllSent ==
  /\ phase = "send"
  /\ \/ next[1] > Len(Plan)
     \/ next[2] = 1 /\ now >= Budget
  /\ phase' = "tail" /\ tailEnd' = now + 2 * Bound
  /\ UNCHANGED <<next, now, sentAt, ackMs, account, sink, disk, node>>

(* What Client::recv does to the recording: an answer that names its key   *)
(* is that key's, any other answer is the oldest open operation's.         *)
Open == {b \in sent : account[b] = 0}
Oldest == CHOOSE b \in Open : \A c \in Open : ~Before(c, b)
paired(m) ==
  IF m # NoName THEN [account EXCEPT ![m] = @ + 1]
  ELSE IF Open = {} THEN account
  ELSE [account EXCEPT ![Oldest] = @ + 1]

(* Slip: an acknowledgement fills the quota of the oldest open block.      *)
filedByCount(m) ==
  LET missing == sent \ DOMAIN ackMs
      b == IF missing = {} THEN m
           ELSE CHOOSE x \in missing : \A y \in missing : ~Before(y, x)
      age == now - sentAt[b]
  IN  /\ ackMs' = insert(ackMs, b, age)
      /\ sink' = Lines(sink, [blocks |-> {}, acks |-> {<<b, rounded(age)>>}])

(* Slip: the acknowledgement is timed, and not written to the file.        *)
filedNowhere(m) ==
  /\ ackMs' = IF m \in DOMAIN ackMs THEN ackMs ELSE insert(ackMs, m, now - sentAt[m])
  /\ UNCHANGED sink

(* An acknowledgement is filed under the key it names, the first time: the *)
(* time it took is kept as it is, and written rounded.                     *)
filed(m) ==
  LET age == now - sentAt[m] IN
  IF m \in DOMAIN ackMs THEN UNCHANGED <<ackMs, sink>>
  ELSE /\ ackMs' = insert(ackMs, m, age)
       /\ sink' = Lines(sink, [blocks |-> {}, acks |-> {<<m, rounded(age)>>}])

(* drain_acks reads one answer; an error ends it, for whatever reason.     *)
drain_acks(onError) ==
  /\ Seen < Wanted /\ socket # <<>>
  /\ socket' = Tail(socket)
  /\ account' = paired(Head(socket))
  /\ IF Head(socket) = NoName
     THEN phase' = onError /\ UNCHANGED <<ackMs, sink>>
     ELSE phase' = phase /\ filed(Head(socket))
  /\ UNCHANGED <<next, now, sentAt, tailEnd, disk, due, done, faults>>

(* Between groups: what has arrived, without waiting.                      *)
DrainBetween == phase = "drain" /\ drain_acks("flush")

NothingThere ==
  /\ phase = "drain" /\ (socket = <<>> \/ Seen = Wanted)
  /\ phase' = "flush"
  /\ UNCHANGED <<memory, disk, node>>

(* Slip: the group is counted and its lines stay in the buffer.            *)
EndGroupUnflushed ==
  /\ phase = "flush"
  /\ phase' = "send"
  /\ UNCHANGED <<memory, disk, node>>

EndGroup ==
  /\ phase = "flush"
  /\ disk' = Lines(disk, sink) /\ sink' = NoFile
  /\ phase' = "send"
  /\ UNCHANGED <<next, now, sentAt, ackMs, account, tailEnd, node>>

(* The tail, once for all groups: it waits for stragglers.                 *)
DrainTail == phase = "tail" /\ drain_acks("check")

TailOver ==
  /\ phase = "tail" /\ (Seen = Wanted \/ now >= tailEnd)
  /\ phase' = "check"
  /\ UNCHANGED <<memory, disk, node>>

(* The recording's tally, with ack_ms for the time only.                   *)
recorded(b) ==
  IF account[b] = 0 THEN "Never"
  ELSE IF b \in DOMAIN ackMs /\ ackMs[b] <= Bound THEN "Within" ELSE "Late"

tally(outcome(_), bs) ==
  [o \in Outcomes |-> Cardinality({b \in bs : outcome(b) = o})]

(* The last flush, and the file read back against the recording.           *)
ReadBack ==
  /\ phase = "check"
  /\ disk' = Lines(disk, sink) /\ sink' = NoFile
  /\ LET Read(b) == fold(disk', b) IN
     phase' = IF disk'.blocks # {}
                /\ tally(recorded, sent) = tally(Read, disk'.blocks)
              THEN "wrote" ELSE "bailed"
  /\ UNCHANGED <<next, now, sentAt, ackMs, account, tailEnd, node>>

Writer ==
  \/ SendBlock \/ AllSent \/ DrainBetween \/ NothingThere
  \/ EndGroup \/ DrainTail \/ TailOver \/ ReadBack

-----------------------------------------------------------------------------
(* The process is killed: what it had not flushed is gone.                 *)
Killed ==
  /\ phase \in {"send", "drain", "flush", "tail", "check"}
  /\ phase' = "killed"
  /\ UNCHANGED <<memory, disk, node>>

(* Time passes while a send is under way or the tail waits.                *)
Tick ==
  /\ \/ phase = "send" /\ now < MaxSend
     \/ phase = "tail" /\ now < tailEnd
  /\ now' = now + 1
  /\ UNCHANGED <<phase, next, sentAt, ackMs, account, tailEnd, sink, disk, node>>

Faults == faults.err + faults.dup
Working == phase \notin Ended /\ sent # {}

(* The node acknowledges a put, some time or never, in any order;          *)
Acknowledge(b) ==
  /\ Working /\ b \in due
  /\ due' = due \ {b} /\ done' = done \cup {b}
  /\ socket' = Append(socket, b)
  /\ UNCHANGED <<phase, memory, disk, faults>>

(* refuses one, with an error that names no contract;                      *)
Refuse(b) ==
  /\ Working /\ b \in due /\ Faults < MaxFaults
  /\ due' = due \ {b}
  /\ socket' = Append(socket, NoName)
  /\ faults' = [faults EXCEPT !.err = @ + 1]
  /\ UNCHANGED <<phase, memory, disk, done>>

(* or sends an acknowledgement again.                                      *)
Repeat(b) ==
  /\ Working /\ b \in done /\ Faults < MaxFaults
  /\ socket' = Append(socket, b)
  /\ faults' = [faults EXCEPT !.dup = @ + 1]
  /\ UNCHANGED <<phase, memory, disk, due, done>>

Node == \E b \in Blocks : Acknowledge(b) \/ Refuse(b) \/ Repeat(b)

WNext == Writer \/ SendFails \/ Killed \/ Tick \/ Node
=============================================================================
