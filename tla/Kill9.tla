------------------------------- MODULE Kill9 -------------------------------
(***************************************************************************)
(* Does a read-back-confirmed PUT survive the node dying?                  *)
(* (src/src/kill9.rs.)  The run starts a node of its own and, trial after  *)
(* trial, puts one fresh block, reads it back (not in the control cell),   *)
(* kills the node, starts it again on the same directory and asks for the  *)
(* block once more.  Each trial's key is fresh, so the block of the        *)
(* running trial is all the node state that matters.                       *)
(***************************************************************************)
EXTENDS Naturals, FiniteSets

CONSTANTS
  Cells,     \* the cells of one table with a delay, run in order 1, 2, ...
  Want       \* trials per cell

ASSUME Kill9Assumption ==
  /\ Cells \in Nat \ {0}
  /\ Want \in Nat \ {0}

(* `run` appends the control cell after the cells with a delay.            *)
Cell == 1 .. Cells + 1
Control == Cells + 1
Fresh == [confirmed |-> 0, survived |-> 0, trials |-> 0]
NoBlock == [memory |-> FALSE, disk |-> FALSE, coming |-> FALSE]

VARIABLES
  slow,      \* TRUE: a read-back may time out although the node has the block
  cell,      \* the cell being run
  table,     \* the counters of each cell
  phase,     \* where the trial is; "done" or "bailed" once the run is over
  alive,     \* node processes this run started that are still running
  block,     \* the trial's block: on its way, in memory, on disk
  confirmed, \* the trial's read-back confirmed the block
  destroyed, \* history: trials of the cell whose block the kill destroyed
  unread     \* history: those whose block was there and was not read again

vars == <<slow, cell, table, phase, alive, block, confirmed, destroyed, unread>>

trial == <<block, confirmed>>
history == <<destroyed, unread>>

-----------------------------------------------------------------------------
Init ==
  /\ slow \in BOOLEAN
  /\ cell = 1
  /\ table = [c \in Cell |-> Fresh]
  /\ phase = "start"
  /\ alive = 0
  /\ block = NoBlock
  /\ confirmed = FALSE
  /\ destroyed = [c \in Cell |-> 0]
  /\ unread = [c \in Cell |-> 0]

(* Node::spawn; the process may exit early or never accept connections.    *)
(* The Node value then goes out of scope and its Drop kills and reaps.     *)
Spawn(ready, next) ==
  /\ alive' = IF ready THEN alive + 1 ELSE alive
  /\ phase' = IF ready THEN next ELSE "bailed"

FirstSpawn(ready) ==
  /\ phase = "start"
  /\ Spawn(ready, "trial")
  /\ UNCHANGED <<slow, cell, table, trial, history>>

(* Slip: the process is signalled but not reaped, and still there.         *)
kill9Detached == UNCHANGED alive

(* Node::kill9: SIGKILL, then reap.                                        *)
kill9 == alive' = 0

TrialLeft == phase = "trial" /\ table[cell].trials < Want

(* Every trial is taken, or the budget has passed before the next one.     *)
Finish ==
  /\ \/ TrialLeft
     \/ phase = "trial" /\ cell = Control /\ table[cell].trials = Want
  /\ kill9
  /\ phase' = "done"
  /\ UNCHANGED <<slow, cell, table, trial, history>>

NextCell ==
  /\ phase = "trial"
  /\ cell # Control /\ table[cell].trials = Want
  /\ cell' = cell + 1
  /\ UNCHANGED <<slow, table, phase, alive, trial, history>>

(* The put's send completes: the request has left, nothing is confirmed.   *)
PutBlock ==
  /\ TrialLeft
  /\ block' = [NoBlock EXCEPT !.coming = TRUE]
  /\ confirmed' = FALSE
  /\ phase' = IF cell = Control THEN "kill" ELSE "readback"
  /\ UNCHANGED <<slow, cell, table, alive, history>>

(* The node serves the block from its memory or its disk.                  *)
Served == block.memory \/ block.disk

ReadBack(ok) ==
  /\ phase = "readback"
  /\ ok => Served
  /\ ~ok => ~Served \/ slow
  /\ confirmed' = ok
  /\ phase' = "kill"     \* a confirmed trial first sleeps for its delay
  /\ UNCHANGED <<slow, cell, table, alive, block, history>>

(* A connection or a send fails: the error ends the run, Drop reaps.       *)
Fail ==
  /\ TrialLeft \/ phase \in {"readback", "after"}
  /\ phase' = "bailed"
  /\ kill9
  /\ UNCHANGED <<slow, cell, table, trial, history>>

(* A trial of the cell's question, which the column "lost / n" is about:   *)
(* one that was confirmed; in the control cell, every one.                 *)
OfTheQuestion == confirmed \/ cell = Control

(* Whether the kill destroys a block that the column will speak of.        *)
CountDestroyed ==
  destroyed' = [destroyed EXCEPT ![cell] =
                  IF OfTheQuestion /\ ~block.disk THEN @ + 1 ELSE @]

(* Slips: every trial is counted as confirmed; the restart wipes the disk. *)
KillCountsAll ==
  /\ phase = "kill"
  /\ table' = [table EXCEPT ![cell].trials = @ + 1, ![cell].confirmed = @ + 1]
  /\ kill9
  /\ block' = [NoBlock EXCEPT !.disk = block.disk]
  /\ CountDestroyed
  /\ phase' = "spawn"
  /\ UNCHANGED <<slow, cell, confirmed, unread>>

KillWipes ==
  /\ phase = "kill"
  /\ table' = [table EXCEPT ![cell].trials = @ + 1,
                            ![cell].confirmed = IF confirmed THEN @ + 1 ELSE @]
  /\ kill9
  /\ block' = NoBlock
  /\ CountDestroyed
  /\ phase' = "spawn"
  /\ UNCHANGED <<slow, cell, confirmed, unread>>

(* restart, first half: SIGKILL and reap.  Memory is gone, and whatever    *)
(* was still in the socket; the disk stays.                                *)
Kill ==
  /\ phase = "kill"
  /\ table' = [table EXCEPT ![cell].trials = @ + 1,
                            ![cell].confirmed = IF confirmed THEN @ + 1 ELSE @]
  /\ kill9
  /\ block' = [NoBlock EXCEPT !.disk = block.disk]
  /\ CountDestroyed
  /\ phase' = "spawn"
  /\ UNCHANGED <<slow, cell, confirmed, unread>>

(* restart, second half.                                                   *)
Respawn(ready) ==
  /\ phase = "spawn"
  /\ Spawn(ready, "after")
  /\ UNCHANGED <<slow, cell, table, trial, history>>

(* The block is asked for once more, of the restarted node.  An answer     *)
(* that does not come in time, or an error, counts as a block that is gone. *)
After(survived) ==
  /\ phase = "after"
  /\ survived => Served
  /\ ~survived => ~Served \/ slow
  /\ table' = [table EXCEPT ![cell].survived = IF survived THEN @ + 1 ELSE @]
  /\ unread' = [unread EXCEPT ![cell] =
                  IF OfTheQuestion /\ Served /\ ~survived THEN @ + 1 ELSE @]
  /\ phase' = "trial"
  /\ UNCHANGED <<slow, cell, alive, trial, destroyed>>

(* The node, on its own: it accepts the put, and writes it to its disk.    *)
NodeStep ==
  /\ alive > 0
  /\ \/ /\ block.coming
        /\ block' = [block EXCEPT !.coming = FALSE, !.memory = TRUE]
     \/ /\ block.memory /\ ~block.disk
        /\ block' = [block EXCEPT !.disk = TRUE]
  /\ UNCHANGED <<slow, cell, table, phase, alive, confirmed, history>>

Run ==
  \/ \E b \in BOOLEAN : FirstSpawn(b) \/ ReadBack(b) \/ Respawn(b) \/ After(b)
  \/ Finish \/ NextCell \/ PutBlock \/ Kill

Next == Run \/ Fail \/ NodeStep

Spec == Init /\ [][Next]_vars

-----------------------------------------------------------------------------
(* Properties.                                                             *)

(* "lost / n" of a cell with a delay, and of the control cell.             *)
Smaller(a, b) == IF a < b THEN a ELSE b
LostOf(c) == IF c = Control
             THEN table[c].trials - table[c].survived
             ELSE table[c].confirmed
                    - Smaller(table[c].survived, table[c].confirmed)
AtRest == phase \in {"trial", "done"}

TypeOK ==
  /\ slow \in BOOLEAN
  /\ cell \in Cell
  /\ table \in [Cell -> [confirmed : 0 .. Want, survived : 0 .. Want,
                         trials : 0 .. Want]]
  /\ phase \in {"start", "trial", "readback", "kill", "spawn", "after",
                "done", "bailed"}
  /\ alive \in Nat
  /\ block \in [memory : BOOLEAN, disk : BOOLEAN, coming : BOOLEAN]
  /\ confirmed \in BOOLEAN

(* The run never has two nodes on its port, and leaves none behind however *)
(* it ends (Node::kill9, Node::restart, Drop).                             *)
OneNode == alive <= 1 /\ (phase \in {"done", "bailed"} => alive = 0)

(* Every loss in the table is a trial of the question whose block the kill *)
(* destroyed, or one whose block the restarted node had and did not hand   *)
(* over in time, which `get` cannot tell from it.                          *)
LossAccounted ==
  AtRest => \A c \in Cell : LostOf(c) <= destroyed[c] + unread[c]

(* Where read-backs are not slow, a confirmed trial is lost only when the  *)
(* node died before its disk had the block, and a control that lost one    *)
(* did destroy a block ("the kill does destroy an unconfirmed put").       *)
LossIsReal == ~slow /\ AtRest => \A c \in Cell : LostOf(c) <= destroyed[c]
=============================================================================
