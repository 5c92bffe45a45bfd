-------------------------- MODULE Kill9GroupProofs --------------------------
(* Proofs, for every value of their constants, about Kill9 and, behind it, *)
(* about Group: two probes that put on one node and ask again, one after   *)
(* the node was killed and one on another node.  Neither half cites a      *)
(* definition of the other's module.                                       *)
EXTENDS Kill9, Group, FiniteSetTheorems, WellFoundedInduction, TLAPS

-----------------------------------------------------------------------------
(* The cells are numbered, and the control is the last.                    *)
LEMMA CellFacts ==
  /\ Cells \in Nat /\ Want \in Nat /\ Cells >= 1 /\ Want >= 1
  /\ Cell = 1 .. Cells + 1 /\ Control = Cells + 1
  /\ Control \in Cell /\ 1 \in Cell
BY Kill9Assumption DEF Cell, Control

Row == [confirmed : 0 .. Want, survived : 0 .. Want, trials : 0 .. Want]

-----------------------------------------------------------------------------
(* The inductive invariant.  A node is alive exactly while a trial may use *)
(* it.  The counters of a cell agree with each other, and the running      *)
(* trial is counted in `trials` before it can be counted in `survived`.    *)

NodeRuns == phase \in {"trial", "readback", "kill", "after"}
NodeInv == alive = IF NodeRuns THEN 1 ELSE 0

Counted(c) == table[c].confirmed <= table[c].trials
                /\ table[c].survived <= table[c].trials
CountInv ==
  /\ \A c \in Cell : Counted(c)
  /\ phase \in {"readback", "kill"} => table[cell].trials < Want
  /\ phase \in {"spawn", "after"} => table[cell].survived < table[cell].trials

(* A trial of the question has survived, was destroyed or went unread, or  *)
(* it is the running one, whose block is on the disk.                      *)
Asked(c) == IF c = Control THEN table[c].trials ELSE table[c].confirmed
Pending(c) ==
  IF c = cell /\ phase \in {"spawn", "after"} /\ OfTheQuestion /\ block.disk
  THEN 1 ELSE 0
LossInv ==
  /\ destroyed \in [Cell -> Nat] /\ unread \in [Cell -> Nat]
  /\ phase \in {"spawn", "after"} => ~block.memory /\ ~block.coming
  /\ ~slow => \A c \in Cell : unread[c] = 0
  /\ phase # "bailed" =>
       \A c \in Cell : Asked(c) <= table[c].survived + destroyed[c]
                                     + unread[c] + Pending(c)

-----------------------------------------------------------------------------
(* What a trial does to the table.                                         *)

Rows == [Cell -> [confirmed : Nat, survived : Nat, trials : Nat]]

(* The kill counts the trial of the running cell and touches no other.     *)
LEMMA KillEffect ==
  ASSUME TypeOK, Kill
  PROVE  /\ table' \in Rows
         /\ \A c \in Cell : c # cell => table'[c] = table[c]
         /\ table'[cell].trials = table[cell].trials + 1
         /\ table'[cell].survived = table[cell].survived
         /\ table'[cell].confirmed =
              table[cell].confirmed + (IF confirmed THEN 1 ELSE 0)
<1>1. cell \in Cell /\ table \in [Cell -> Row] /\ table[cell] \in Row
  BY DEF TypeOK, Row
<1> DEFINE r1 == [table[cell] EXCEPT !.trials = @ + 1]
           r2 == [r1 EXCEPT !.confirmed = IF confirmed THEN @ + 1 ELSE @]
<1>2. /\ r1.trials = table[cell].trials + 1
      /\ r1.survived = table[cell].survived
      /\ r1.confirmed = table[cell].confirmed
      /\ r1 \in [confirmed : Nat, survived : Nat, trials : Nat]
  BY <1>1 DEF Row
<1>3. table' = [table EXCEPT ![cell] = r2]
  BY <1>1 DEF Kill
<1> HIDE DEF r1
<1>4. /\ r2.trials = r1.trials /\ r2.survived = r1.survived
      /\ r2.confirmed = r1.confirmed + (IF confirmed THEN 1 ELSE 0)
      /\ r2 \in [confirmed : Nat, survived : Nat, trials : Nat]
  BY <1>2
<1> HIDE DEF r2
<1>5. table \in Rows
  BY <1>1 DEF Rows, Row
<1> QED
  BY <1>1, <1>2, <1>3, <1>4, <1>5 DEF Rows

(* The last read counts a survivor of the running cell.                    *)
LEMMA AfterEffect ==
  ASSUME TypeOK, NEW survived \in BOOLEAN, After(survived)
  PROVE  /\ table' \in Rows
         /\ \A c \in Cell : c # cell => table'[c] = table[c]
         /\ table'[cell].trials = table[cell].trials
         /\ table'[cell].confirmed = table[cell].confirmed
         /\ table'[cell].survived =
              table[cell].survived + (IF survived THEN 1 ELSE 0)
<1>1. cell \in Cell /\ table \in [Cell -> Row] /\ table[cell] \in Row
  BY DEF TypeOK, Row
<1> DEFINE r == [table[cell] EXCEPT !.survived = IF survived THEN @ + 1 ELSE @]
<1>2. /\ r.trials = table[cell].trials
      /\ r.confirmed = table[cell].confirmed
      /\ r.survived = table[cell].survived + (IF survived THEN 1 ELSE 0)
      /\ r \in [confirmed : Nat, survived : Nat, trials : Nat]
  BY <1>1 DEF Row
<1>3. table' = [table EXCEPT ![cell] = r]
  BY <1>1 DEF After
<1> HIDE DEF r
<1>4. table \in Rows
  BY <1>1 DEF Rows, Row
<1> QED
  BY <1>1, <1>2, <1>3, <1>4 DEF Rows

-----------------------------------------------------------------------------
(* Types and counters.                                                     *)

(* A step that leaves the table alone keeps the counters' agreement, if    *)
(* the conditions it establishes on the running cell hold.                 *)
LEMMA TypeInductive == TypeOK /\ CountInv /\ [Next]_vars => TypeOK' /\ CountInv'
<1> SUFFICES ASSUME TypeOK, CountInv, [Next]_vars PROVE TypeOK' /\ CountInv'
  OBVIOUS
<1> USE CellFacts
<1>0. /\ cell \in Cell /\ table \in [Cell -> Row] /\ alive \in Nat
      /\ slow \in BOOLEAN /\ confirmed \in BOOLEAN
      /\ block \in [memory : BOOLEAN, disk : BOOLEAN, coming : BOOLEAN]
      /\ table[cell].trials \in Nat
  BY DEF TypeOK, Row
<1>1. ASSUME NEW b \in BOOLEAN, FirstSpawn(b) PROVE TypeOK' /\ CountInv'
  BY <1>0, <1>1 DEF FirstSpawn, Spawn, trial, history, TypeOK, CountInv, Counted
<1>2. ASSUME NEW b \in BOOLEAN, ReadBack(b) PROVE TypeOK' /\ CountInv'
  BY <1>0, <1>2 DEF ReadBack, history, TypeOK, CountInv, Counted
<1>3. ASSUME NEW b \in BOOLEAN, Respawn(b) PROVE TypeOK' /\ CountInv'
  BY <1>0, <1>3 DEF Respawn, Spawn, trial, history, TypeOK, CountInv, Counted
<1>4. ASSUME NEW b \in BOOLEAN, After(b) PROVE TypeOK' /\ CountInv'
  <2>1. /\ table' \in Rows /\ cell' = cell /\ phase' = "trial"
        /\ \A c \in Cell : c # cell => table'[c] = table[c]
        /\ table'[cell].trials = table[cell].trials
        /\ table'[cell].confirmed = table[cell].confirmed
        /\ table'[cell].survived <= table[cell].survived + 1
    <3>1. cell' = cell /\ phase' = "trial" /\ table[cell].survived \in Nat
      BY <1>0, <1>4 DEF After, Row
    <3> QED
      BY <1>4, <3>1, AfterEffect
  <2>2. /\ table[cell].confirmed \in Nat /\ table[cell].survived \in Nat
        /\ table[cell].trials <= Want
        /\ table[cell].confirmed <= table[cell].trials
        /\ table[cell].survived < table[cell].trials
    BY <1>0, <1>4 DEF After, CountInv, Counted, Row
  <2>3. /\ table'[cell].survived <= table'[cell].trials
        /\ table'[cell].confirmed <= table'[cell].trials
        /\ table'[cell].trials <= Want
        /\ table'[cell] \in Row
    <3>1. table'[cell] \in [confirmed : Nat, survived : Nat, trials : Nat]
      BY <1>0, <2>1 DEF Rows
    <3>2. /\ table'[cell].survived <= table'[cell].trials
          /\ table'[cell].confirmed <= table'[cell].trials
          /\ table'[cell].trials <= Want
      BY <1>0, <2>1, <2>2, <3>1
    <3> QED
      BY <3>1, <3>2 DEF Row
  <2>4. table' \in [Cell -> Row]
    BY <1>0, <2>1, <2>3 DEF Rows
  <2>5. CountInv'
    BY <2>1, <2>3 DEF CountInv, Counted
  <2> QED
    BY <1>0, <1>4, <2>1, <2>4, <2>5 DEF After, trial, TypeOK, Row
<1>5. ASSUME Kill PROVE TypeOK' /\ CountInv'
  <2>1. /\ table' \in Rows /\ cell' = cell /\ phase' = "spawn"
        /\ \A c \in Cell : c # cell => table'[c] = table[c]
        /\ table'[cell].trials = table[cell].trials + 1
        /\ table'[cell].survived = table[cell].survived
        /\ table'[cell].confirmed <= table[cell].confirmed + 1
    <3>1. cell' = cell /\ phase' = "spawn" /\ table[cell].confirmed \in Nat
      BY <1>0, <1>5 DEF Kill, Row
    <3> QED
      BY <1>5, <3>1, KillEffect
  <2>2. /\ table[cell].confirmed \in Nat /\ table[cell].survived \in Nat
        /\ table[cell].trials < Want
        /\ table[cell].confirmed <= table[cell].trials
        /\ table[cell].survived <= table[cell].trials
    BY <1>0, <1>5 DEF Kill, CountInv, Counted, Row
  <2>3. /\ table'[cell].survived < table'[cell].trials
        /\ table'[cell].survived <= table'[cell].trials
        /\ table'[cell].confirmed <= table'[cell].trials
        /\ table'[cell].trials <= Want
        /\ table'[cell] \in Row
    <3>1. table'[cell] \in [confirmed : Nat, survived : Nat, trials : Nat]
      BY <1>0, <2>1 DEF Rows
    <3>2. /\ table'[cell].survived < table'[cell].trials
          /\ table'[cell].survived <= table'[cell].trials
          /\ table'[cell].confirmed <= table'[cell].trials
          /\ table'[cell].trials <= Want
      BY <1>0, <2>1, <2>2, <3>1
    <3> QED
      BY <3>1, <3>2 DEF Row
  <2>4. table' \in [Cell -> Row]
    BY <1>0, <2>1, <2>3 DEF Rows
  <2>5. CountInv'
    BY <2>1, <2>3 DEF CountInv, Counted
  <2>6. /\ alive' = 0 /\ slow' = slow /\ confirmed' = confirmed
        /\ block' \in [memory : BOOLEAN, disk : BOOLEAN, coming : BOOLEAN]
    BY <1>0, <1>5 DEF Kill, kill9, NoBlock
  <2> QED
    BY <1>0, <2>1, <2>4, <2>5, <2>6 DEF TypeOK, Row
<1>6. CASE Finish
  BY <1>0, <1>6 DEF Finish, kill9, trial, history, TypeOK, CountInv, Counted
<1>7. CASE NextCell
  BY <1>0, <1>7 DEF NextCell, trial, history, TypeOK, CountInv, Counted
<1>8. CASE PutBlock
  <2>1. /\ table[cell].trials < Want /\ table' = table /\ cell' = cell
        /\ phase' \in {"readback", "kill"} /\ alive' = alive /\ slow' = slow
        /\ confirmed' = FALSE
        /\ block' \in [memory : BOOLEAN, disk : BOOLEAN, coming : BOOLEAN]
    BY <1>8 DEF PutBlock, TrialLeft, NoBlock, history
  <2> QED
    BY <1>0, <2>1 DEF TypeOK, CountInv, Counted
<1>9. CASE Fail
  BY <1>0, <1>9 DEF Fail, kill9, trial, history, TypeOK, CountInv, Counted
<1>10. CASE NodeStep
  <2>1. block' \in [memory : BOOLEAN, disk : BOOLEAN, coming : BOOLEAN]
    BY <1>0, <1>10 DEF NodeStep
  <2> QED
    BY <1>0, <1>10, <2>1 DEF NodeStep, history, TypeOK, CountInv, Counted
<1>11. CASE UNCHANGED vars
  BY <1>0, <1>11 DEF vars, TypeOK, CountInv, Counted
<1> QED
  BY <1>1, <1>2, <1>3, <1>4, <1>5, <1>6, <1>7, <1>8, <1>9, <1>10, <1>11
     DEF Next, Run

(* Every reachable state is well formed, and the counters of every cell    *)
(* agree with each other.                                                  *)
LEMMA TypeAndCounts == Spec => [](TypeOK /\ CountInv)
<1>1. ASSUME Init PROVE TypeOK /\ CountInv
  <2>1. Fresh \in Row
    BY CellFacts DEF Fresh, Row
  <2>2. table \in [Cell -> Row] /\ \A c \in Cell : table[c] = Fresh
    BY <1>1, <2>1 DEF Init
  <2>3. CountInv
    BY <1>1, <2>2 DEF Init, CountInv, Counted, Fresh
  <2>4. block \in [memory : BOOLEAN, disk : BOOLEAN, coming : BOOLEAN]
    BY <1>1 DEF Init, NoBlock
  <2> QED
    BY <1>1, <2>2, <2>3, <2>4, CellFacts DEF Init, TypeOK, Row
<1> QED
  BY <1>1, TypeInductive, PTL DEF Spec

(* Whatever fails, the run's state stays well formed, and no cell counts   *)
(* more trials than it was to take.                                        *)
THEOREM TypeCorrect == Spec => []TypeOK
BY TypeAndCounts, PTL

-----------------------------------------------------------------------------
(* The node processes.                                                     *)

(* Every action leaves a node alive exactly when its next phase uses one.  *)
LEMMA NodeInductive == NodeInv /\ [Next]_vars => NodeInv'
<1> SUFFICES ASSUME NodeInv, [Next]_vars PROVE NodeInv'
  OBVIOUS
<1> USE DEF NodeInv, NodeRuns
<1>1. ASSUME NEW b \in BOOLEAN, FirstSpawn(b) PROVE NodeInv'
  BY <1>1 DEF FirstSpawn, Spawn
<1>2. ASSUME NEW b \in BOOLEAN, ReadBack(b) PROVE NodeInv'
  BY <1>2 DEF ReadBack
<1>3. ASSUME NEW b \in BOOLEAN, Respawn(b) PROVE NodeInv'
  BY <1>3 DEF Respawn, Spawn
<1>4. ASSUME NEW b \in BOOLEAN, After(b) PROVE NodeInv'
  BY <1>4 DEF After
<1>5. CASE Kill
  BY <1>5 DEF Kill, kill9
<1>6. CASE Finish
  BY <1>6 DEF Finish, kill9
<1>7. CASE NextCell
  BY <1>7 DEF NextCell
<1>8. CASE PutBlock
  BY <1>8 DEF PutBlock, TrialLeft
<1>9. CASE Fail
  BY <1>9 DEF Fail, kill9
<1>10. CASE NodeStep
  BY <1>10 DEF NodeStep
<1>11. CASE UNCHANGED vars
  BY <1>11 DEF vars
<1> QED
  BY <1>1, <1>2, <1>3, <1>4, <1>5, <1>6, <1>7, <1>8, <1>9, <1>10, <1>11
     DEF Next, Run

(* However the run ends, by an error at any await, by a node that does not *)
(* come up or after the last trial, none of its node processes is left,    *)
(* and a restart never has the old node and the new one on the port at     *)
(* once (Node::kill9 reaps before Node::restart spawns; Drop reaps).       *)
THEOREM OneNodeHolds == Spec => []OneNode
<1>1. Init => NodeInv
  BY DEF Init, NodeInv, NodeRuns
<1>2. NodeInv => OneNode
  BY DEF NodeInv, NodeRuns, OneNode
<1> QED
  BY <1>1, <1>2, NodeInductive, PTL DEF Spec

-----------------------------------------------------------------------------
(* The losses.                                                             *)

(* A step that leaves the counters and the histories alone keeps LossInv   *)
(* when it leaves the running trial as pending as it was.                  *)
LEMMA SameLosses ==
  ASSUME LossInv, table' = table, destroyed' = destroyed, unread' = unread,
         slow' = slow, phase # "bailed",
         phase' \in {"spawn", "after"} => ~block'.memory /\ ~block'.coming,
         \A c \in Cell : Pending(c)' = Pending(c)
  PROVE  LossInv'
BY DEF LossInv, Asked

(* The last read counts the running cell's trial as survived, or as unread *)
(* if its block is there; if it is not, the kill had destroyed it.         *)
LEMMA AfterLosses ==
  ASSUME TypeOK, LossInv, NEW b \in BOOLEAN, After(b) PROVE LossInv'
<1>0. /\ cell \in Cell /\ table \in [Cell -> Row]
      /\ destroyed \in [Cell -> Nat] /\ unread \in [Cell -> Nat]
      /\ block \in [memory : BOOLEAN, disk : BOOLEAN, coming : BOOLEAN]
  BY DEF TypeOK, Row, LossInv
<1>1. /\ phase = "after" /\ phase' = "trial" /\ cell' = cell
      /\ slow' = slow /\ destroyed' = destroyed /\ block' = block
      /\ ~b /\ block.disk => slow
  BY DEF After, trial, Served
<1> DEFINE missed == IF OfTheQuestion /\ block.disk /\ ~b THEN 1 ELSE 0
<1>2. /\ unread' \in [Cell -> Nat]
      /\ \A c \in Cell : c # cell => unread'[c] = unread[c]
      /\ unread'[cell] = unread[cell] + missed
  <2>1. Served <=> block.disk
    BY <1>0, <1>1 DEF Served, LossInv
  <2> QED
    BY <1>0, <2>1 DEF After
<1>3. /\ table' \in Rows
      /\ \A c \in Cell : c # cell => table'[c] = table[c]
      /\ table'[cell].trials = table[cell].trials
      /\ table'[cell].confirmed = table[cell].confirmed
      /\ table'[cell].survived = table[cell].survived + (IF b THEN 1 ELSE 0)
  BY AfterEffect
<1>4. ASSUME NEW c \in Cell
      PROVE  Asked(c)' <= table'[c].survived + destroyed'[c]
                            + unread'[c] + Pending(c)'
  <2>1. /\ Asked(c) <= table[c].survived + destroyed[c] + unread[c] + Pending(c)
        /\ Asked(c) \in Nat /\ table[c].survived \in Nat
        /\ destroyed[c] \in Nat /\ unread[c] \in Nat
    BY <1>0, <1>1 DEF LossInv, Row, Asked
  <2>2. Asked(c)' = Asked(c) /\ Pending(c)' = 0
    BY <1>1, <1>3 DEF Asked, Pending
  <2>3. CASE c # cell
    <3>1. Pending(c) = 0
      BY <2>3 DEF Pending
    <3> QED
      BY <1>1, <1>2, <1>3, <2>1, <2>2, <2>3, <3>1
  <2>4. CASE c = cell
    <3>1. Pending(c) = IF OfTheQuestion /\ block.disk THEN 1 ELSE 0
      BY <1>1, <2>4 DEF Pending
    <3>2. Pending(c) <= (IF b THEN 1 ELSE 0) + missed /\ Pending(c) \in Nat
      BY <3>1
    <3> HIDE DEF missed
    <3>3. missed \in Nat
      BY DEF missed
    <3> QED
      BY <1>1, <1>2, <1>3, <2>1, <2>2, <2>4, <3>2, <3>3
  <2> QED
    BY <2>3, <2>4
<1>5. ~slow' => \A c \in Cell : unread'[c] = 0
  <2>1. ~slow => missed = 0
    BY <1>1
  <2> HIDE DEF missed
  <2> QED
    BY <1>0, <1>1, <1>2, <2>1 DEF LossInv
<1> HIDE DEF missed
<1> QED
  BY <1>0, <1>1, <1>2, <1>4, <1>5 DEF LossInv

(* The kill counts the trial, and destroys its block or leaves it pending. *)
LEMMA KillLosses == ASSUME TypeOK, LossInv, Kill PROVE LossInv'
<1>0. /\ cell \in Cell /\ table \in [Cell -> Row] /\ confirmed \in BOOLEAN
      /\ destroyed \in [Cell -> Nat] /\ unread \in [Cell -> Nat]
  BY DEF TypeOK, Row, LossInv
<1>1. /\ phase = "kill" /\ phase' = "spawn" /\ cell' = cell /\ slow' = slow
      /\ confirmed' = confirmed /\ unread' = unread
      /\ block'.disk = block.disk /\ ~block'.memory /\ ~block'.coming
  BY DEF Kill, NoBlock
<1> DEFINE gone == IF OfTheQuestion /\ ~block.disk THEN 1 ELSE 0
           kept == IF OfTheQuestion /\ block.disk THEN 1 ELSE 0
<1>2. /\ destroyed' \in [Cell -> Nat]
      /\ \A c \in Cell : c # cell => destroyed'[c] = destroyed[c]
      /\ destroyed'[cell] = destroyed[cell] + gone
  BY <1>0 DEF Kill, CountDestroyed
<1>3. /\ table' \in Rows
      /\ \A c \in Cell : c # cell => table'[c] = table[c]
      /\ table'[cell].trials = table[cell].trials + 1
      /\ table'[cell].survived = table[cell].survived
      /\ table'[cell].confirmed =
           table[cell].confirmed + (IF confirmed THEN 1 ELSE 0)
  BY KillEffect
<1>4. ASSUME NEW c \in Cell
      PROVE  Asked(c)' <= table'[c].survived + destroyed'[c]
                            + unread'[c] + Pending(c)'
  <2>1. /\ Asked(c) <= table[c].survived + destroyed[c] + unread[c]
        /\ Asked(c) \in Nat /\ table[c].survived \in Nat
        /\ destroyed[c] \in Nat /\ unread[c] \in Nat
    <3>1. Pending(c) = 0
      BY <1>1 DEF Pending
    <3>2. /\ Asked(c) <= table[c].survived + destroyed[c] + unread[c] + Pending(c)
          /\ Asked(c) \in Nat /\ table[c].survived \in Nat
          /\ destroyed[c] \in Nat /\ unread[c] \in Nat
      BY <1>0, <1>1 DEF LossInv, Row, Asked
    <3> QED
      BY <3>1, <3>2
  <2>2. CASE c # cell
    <3>1. Pending(c)' = 0 /\ Asked(c)' = Asked(c)
      BY <1>1, <1>3, <2>2 DEF Pending, Asked
    <3> QED
      BY <1>1, <1>2, <1>3, <2>1, <2>2, <3>1
  <2>3. CASE c = cell
    <3>1. Pending(c)' = kept
      BY <1>1, <2>3 DEF Pending, OfTheQuestion
    <3>2. Asked(c)' = Asked(c) + (IF OfTheQuestion THEN 1 ELSE 0)
      BY <1>0, <1>3, <2>3 DEF Asked, OfTheQuestion
    <3>3. (IF OfTheQuestion THEN 1 ELSE 0) = gone + kept /\ gone \in Nat /\ kept \in Nat
      OBVIOUS
    <3> HIDE DEF gone, kept
    <3> QED
      BY <1>1, <1>2, <1>3, <2>1, <2>3, <3>1, <3>2, <3>3
  <2> QED
    BY <2>2, <2>3
<1> HIDE DEF gone, kept
<1> QED
  BY <1>0, <1>1, <1>2, <1>4 DEF LossInv

(* Every step keeps what was asked accounted for.                          *)
LEMMA LossInductive == TypeOK /\ LossInv /\ [Next]_vars => LossInv'
<1> SUFFICES ASSUME TypeOK, LossInv, [Next]_vars PROVE LossInv'
  OBVIOUS
<1>1. ASSUME NEW b \in BOOLEAN, FirstSpawn(b) PROVE LossInv'
  BY <1>1, SameLosses DEF FirstSpawn, Spawn, trial, history, Pending
<1>2. ASSUME NEW b \in BOOLEAN, ReadBack(b) PROVE LossInv'
  BY <1>2, SameLosses DEF ReadBack, history, Pending
<1>3. ASSUME NEW b \in BOOLEAN, Respawn(b) PROVE LossInv'
  BY <1>3 DEF Respawn, Spawn, trial, history, Pending, OfTheQuestion, Asked, LossInv
<1>4. ASSUME NEW b \in BOOLEAN, After(b) PROVE LossInv'
  BY <1>4, AfterLosses
<1>5. CASE Kill
  BY <1>5, KillLosses
<1>6. CASE Finish
  BY <1>6, SameLosses DEF Finish, TrialLeft, trial, history, Pending
<1>7. CASE NextCell
  BY <1>7, SameLosses DEF NextCell, trial, history, Pending
<1>8. CASE PutBlock
  BY <1>8, SameLosses DEF PutBlock, TrialLeft, history, Pending
<1>9. CASE Fail
  BY <1>9 DEF Fail, history, LossInv
<1>10. CASE NodeStep
  <2>1. phase \notin {"spawn", "after"}
    BY <1>10 DEF NodeStep, LossInv
  <2> QED
    BY <1>10, <2>1 DEF NodeStep, history, Pending, Asked, LossInv
<1>11. CASE UNCHANGED vars
  BY <1>11 DEF vars, Pending, OfTheQuestion, Asked, LossInv
<1> QED
  BY <1>1, <1>2, <1>3, <1>4, <1>5, <1>6, <1>7, <1>8, <1>9, <1>10, <1>11
     DEF Next, Run

(* The invariant holds throughout.                                         *)
LEMMA LossesHold == Spec => [](TypeOK /\ LossInv)
<1>1. Init => LossInv
  <2> SUFFICES ASSUME Init PROVE LossInv
    OBVIOUS
  <2>1. \A c \in Cell : /\ Asked(c) = 0 /\ table[c].survived = 0
                        /\ destroyed[c] = 0 /\ unread[c] = 0 /\ Pending(c) = 0
    BY DEF Init, Fresh, Asked, Pending
  <2> QED
    BY <2>1 DEF Init, LossInv
<1> QED
  BY <1>1, TypeCorrect, LossInductive, PTL DEF Spec

(* Between trials nothing is pending, so the column is within the trials   *)
(* destroyed and those that went unread.                                   *)
LEMMA ColumnBound ==
  ASSUME TypeOK, LossInv, AtRest, NEW c \in Cell
  PROVE  LostOf(c) <= destroyed[c] + unread[c]
<1>1. Pending(c) = 0 /\ phase # "bailed"
  BY DEF AtRest, Pending
<1>2. /\ table[c].confirmed \in Nat /\ table[c].survived \in Nat
      /\ table[c].trials \in Nat /\ destroyed[c] \in Nat /\ unread[c] \in Nat
  BY DEF TypeOK, LossInv
<1>3. Asked(c) <= table[c].survived + destroyed[c] + unread[c] + Pending(c)
  BY <1>1 DEF LossInv
<1> QED
  BY <1>1, <1>2, <1>3 DEF LostOf, Smaller, Asked

(* Whatever the read-backs answered, each loss in the column "lost / n" is *)
(* a trial of the cell's question whose block the kill destroyed, or whose *)
(* block the restarted node had and did not hand over in time.             *)
THEOREM LossAccountedHolds == Spec => []LossAccounted
<1>1. TypeOK /\ LossInv => LossAccounted
  BY ColumnBound DEF LossAccounted
<1> QED
  BY <1>1, LossesHold, PTL

(* Where the deadline of a read-back is never what makes it fail, a cell    *)
(* reports a loss only for a trial whose block was not on the disk when the *)
(* node was killed, the control cell included.                              *)
THEOREM LossIsRealHolds == Spec => []LossIsReal
<1>1. TypeOK /\ LossInv => LossIsReal
  <2> SUFFICES ASSUME TypeOK, LossInv, ~slow, AtRest, NEW c \in Cell
               PROVE  LostOf(c) <= destroyed[c]
    BY DEF LossIsReal
  <2>1. unread[c] = 0 /\ destroyed[c] \in Nat
    BY DEF LossInv
  <2> QED
    BY <2>1, ColumnBound
<1> QED
  BY <1>1, LossesHold, PTL

-----------------------------------------------------------------------------
(***************************************************************************)
(* Group.                                                                  *)
(***************************************************************************)
(* Facts about naturals, of no component.                                  *)

LessThan == {ss \in Nat \X Nat : ss[1] < ss[2]}

(* No set of naturals descends for ever.                                   *)
LEMMA LessThanWellFounded == IsWellFoundedOn(LessThan, Nat)
BY NatLessThanWellFounded, Zenon DEF OpToRel, LessThan

(* A nonempty set of naturals has a least element.                         *)
LEMMA NatMin ==
  ASSUME NEW I \in SUBSET Nat, I # {}
  PROVE  Min(I) \in I /\ \A y \in I : Min(I) <= y
<1>1. PICK x \in I : \A y \in I : <<y, x>> \notin LessThan
  BY LessThanWellFounded, WFMin, Zenon
<1>2. \A y \in I : x <= y
  <2> TAKE y \in I
  <2>1. <<y, x>> \in Nat \X Nat /\ <<y, x>>[1] = y /\ <<y, x>>[2] = x
    OBVIOUS
  <2>2. ~ (y < x)
    BY <1>1, <2>1, Zenon DEF LessThan
  <2> QED
    BY <2>2, SMT
<1> QED
  BY <1>2 DEF Min

(* A nonempty set of naturals with a bound has a greatest element.         *)
LEMMA NatMax ==
  ASSUME NEW B \in Nat, NEW I \in SUBSET (0 .. B), I # {}
  PROVE  \E u \in I : \A y \in I : y <= u
<1> DEFINE D == {d \in Nat : B - d \in I}
           n == Min(D)
<1>1. PICK x \in I : TRUE
  OBVIOUS
<1>2. B - x \in Nat /\ B - (B - x) = x
  OBVIOUS
<1>3. B - x \in D
  BY <1>2
<1>4. D \in SUBSET Nat /\ D # {}
  BY <1>3
<1> HIDE DEF D
<1>5. n \in D /\ \A d \in D : n <= d
  BY <1>4, NatMin
<1> HIDE DEF n
<1>6. n \in Nat /\ B - n \in I
  BY <1>5 DEF D
<1>7. ASSUME NEW y \in I PROVE y <= B - n
  <2>1. B - y \in Nat /\ B - (B - y) = y
    OBVIOUS
  <2>2. B - y \in D
    BY <2>1 DEF D
  <2> QED
    BY <1>5, <1>6, <2>1, <2>2
<1> QED
  BY <1>6, <1>7

-----------------------------------------------------------------------------
Steps == {"put", "ack", "ask", "collect", "round", "probe", "over", "bailed"}

GroupTypeOK ==
  /\ arm \in Arms /\ stage \in Steps
  /\ clock \in Nat /\ until \in Nat /\ faults \in Nat
  /\ piece \in Pieces /\ todo \subseteq Pieces /\ still \subseteq Pieces
  /\ hits \in [Read -> Nat]
  /\ arrived \subseteq Pieces /\ gets \subseteq Pieces

(* What was read had arrived, and what arrived the far node had.           *)
FarNodeHas == Read \subseteq landed /\ arrived \subseteq landed /\ landed \subseteq Pieces /\ offered \subseteq Pieces

(* No arm waits, or reads, beyond the time it may.                         *)
InTime ==
  /\ stage = "collect" => until <= Deadline
  /\ stage = "probe" => until <= LastRead
  /\ \A p \in Read : hits[p] < LastRead

(* RAW-CONC asks for every piece before it collects, and has no rounds.    *)
Kept == Read \cup gets \cup arrived

ConcAsks ==
  arm = "conc" =>
    /\ stage \in {"put", "ack", "ask", "collect", "over", "bailed"}
    /\ stage = "ask" => \A p \in Pieces : p < piece => p \in Kept
    /\ stage \in {"collect", "over"} => Pieces \subseteq Kept
    /\ stage = "over" /\ clock < until /\ Read # Pieces =>
         faults > 0 \/ ~Up("reader")

GroupInv == GroupTypeOK /\ FarNodeHas /\ InTime /\ ConcAsks

-----------------------------------------------------------------------------
(* The constants are naturals, and the pieces are numbered from one.       *)
LEMMA GroupFacts ==
  /\ N \in Nat \ {0} /\ K \in Nat \ {0} /\ Pieces = 1 .. N
  /\ Offer \in Nat /\ AckBound \in Nat /\ TTL \in Nat /\ Attempt \in Nat \ {0}
  /\ Deadline \in Nat \ {0} /\ Quarter \in Nat
  /\ Arms = {"raw", "conc", "baseline"}
BY GroupAssumption DEF Pieces, Arms

(* The lesser of two naturals is one of them, and no greater than either.  *)
LEMMA LeastFacts ==
  ASSUME NEW a \in Nat, NEW b \in Nat
  PROVE  Least(a, b) \in Nat /\ Least(a, b) <= a /\ Least(a, b) <= b
BY DEF Least

(* A bound spent twice from a time before the deadline.                    *)
LEMMA SpentTwice ==
  ASSUME NEW a \in Nat, NEW b \in Nat, NEW c \in Nat, NEW d \in Nat,
         a <= b + d, b <= c
  PROVE  a + d \in Nat /\ a + d <= c + 2 * d
OBVIOUS

(* And one that does not exceed what was left of the time.                 *)
LEMMA SpentWithin ==
  ASSUME NEW a \in Nat, NEW b \in Nat, NEW c \in Nat, NEW d \in Nat,
         NEW e \in Nat, a <= b + d, b < c, d <= c - b, d <= e
  PROVE  a + d \in Nat /\ a + d <= c + e
OBVIOUS

(* A send that takes its time leaves a time.                               *)
LEMMA SendingFacts ==
  ASSUME GroupInv, NEW bound \in Nat, Sending(bound)
  PROVE  \E now \in Nat : now = clock' /\ now <= clock + bound
BY DEF Sending, GroupInv, GroupTypeOK

(* The last moment a read may be at is a time, and not before the deadline. *)
LEMMA LastReadFacts == LastRead \in Nat /\ Deadline <= LastRead
<1> DEFINE least == Least(TTL, Deadline)
           twice == 2 * Attempt
<1>1. LastRead \in {Deadline + least, Deadline + twice, Deadline}
  BY DEF LastRead
<1>2. TTL \in Nat /\ Deadline \in Nat /\ Attempt \in Nat
  BY GroupFacts
<1>3. least \in Nat
  BY <1>2, LeastFacts
<1>4. twice \in Nat
  BY <1>2
<1> HIDE DEF least, twice
<1> QED
  BY <1>1, <1>2, <1>3, <1>4

(* The group begins with the invariant.                                    *)
LEMMA GroupInitial == GInit => GroupInv
<1> SUFFICES ASSUME GInit PROVE GroupInv
  OBVIOUS
<1>1. Read = {} /\ arm \in Arms /\ stage = "put"
  BY DEF GInit, Read
<1>2. GroupTypeOK
  <2>1. hits \in [{} -> Nat]
    BY DEF GInit
  <2> QED
    BY <1>1, <2>1, GroupFacts DEF GInit, GroupTypeOK, Steps
<1> QED
  BY <1>1, <1>2 DEF GInit, GroupInv, FarNodeHas, InTime, ConcAsks

(* What a step leaves alone that takes part neither in the reads nor in    *)
(* the node's work.                                                        *)
LEMMA ReadsHeld ==
  ASSUME GroupInv, UNCHANGED <<arm, hits>>
  PROVE  /\ Read' = Read /\ LastRead' = LastRead
         /\ hits' \in [Read' -> Nat]
         /\ \A p \in Read' : hits'[p] < LastRead'
BY DEF GroupInv, GroupTypeOK, InTime, Read, LastRead

(* The write side asks for nothing yet.                                    *)
LEMMA WriteStep == GroupInv /\ (Put \/ Acked \/ NotAcked) => GroupInv'
<1> SUFFICES ASSUME GroupInv, Put \/ Acked \/ NotAcked PROVE GroupInv'
  OBVIOUS
<1>1. /\ stage \in {"put", "ack"}
      /\ UNCHANGED <<arm, still, hits, landed, gets, arrived, ended>>
      /\ offered' = offered \/ offered' = offered \cup {piece}
      /\ faults' \in {faults, faults + 1}
  BY DEF Put, Acked, NotAcked, result, far
<1>2. \/ NextPiece
      \/ stage' = "ack" /\ piece' = piece /\ todo' = todo
  BY DEF Put, Acked, NotAcked
<1>3. until' \in Nat /\ clock' \in Nat
  <2>1. CASE Put
    <3>1. Sending(Offer) /\ until' \in {until, Least(clock' + AckBound, Deadline)}
      BY <2>1 DEF Put
    <3>2. PICK now \in Nat : now = clock'
      BY <3>1, SendingFacts, GroupFacts
    <3>3. now + AckBound \in Nat /\ Deadline \in Nat /\ until \in Nat
      BY GroupFacts DEF GroupInv, GroupTypeOK
    <3>4. Least(now + AckBound, Deadline) \in Nat
      BY <3>3, LeastFacts
    <3> QED
      BY <3>1, <3>2, <3>3, <3>4
  <2>2. CASE Acked \/ NotAcked
    BY <2>2 DEF Acked, NotAcked, GroupInv, GroupTypeOK
  <2> QED
    BY <2>1, <2>2
<1>4. /\ stage' \in {"put", "ack", "ask", "round"}
      /\ stage' = "ask" => piece' = 1
      /\ stage' = "round" => arm # "conc"
      /\ piece' \in Pieces /\ todo' \subseteq Pieces
  <2>1. piece \in 1 .. N /\ todo \subseteq Pieces
    BY GroupFacts DEF GroupInv, GroupTypeOK
  <2>2. CASE NextPiece
    <3>1. CASE piece = N
      BY <2>2, <3>1, GroupFacts DEF NextPiece, ReadSide
    <3>2. CASE piece # N
      <4>1. stage' = "put" /\ piece' = piece + 1 /\ todo' = todo
        BY <2>2, <3>2 DEF NextPiece
      <4>2. piece' \in 1 .. N
        BY <2>1, <3>2, <4>1, GroupFacts
      <4> QED
        BY <2>1, <4>1, <4>2, GroupFacts
    <3> QED
      BY <3>1, <3>2
  <2>3. CASE stage' = "ack" /\ piece' = piece /\ todo' = todo
    BY <2>1, <2>3, GroupFacts
  <2> QED
    BY <1>2, <2>2, <2>3
<1>5. GroupTypeOK'
  BY <1>1, <1>3, <1>4, ReadsHeld DEF GroupInv, GroupTypeOK, Steps
<1>6. FarNodeHas'
  BY <1>1, ReadsHeld DEF GroupInv, GroupTypeOK, FarNodeHas
<1>7. InTime'
  BY <1>1, <1>4, ReadsHeld DEF InTime
<1>8. ConcAsks'
  <2>1. \A q \in Pieces : ~ (q < 1)
    BY GroupFacts
  <2> QED
    BY <1>1, <1>4, <2>1 DEF ConcAsks
<1> QED
  BY <1>5, <1>6, <1>7, <1>8 DEF GroupInv

(* RAW-CONC asks for one piece after the other and drops none.             *)
LEMMA AskStep == GroupInv /\ Ask => GroupInv'
<1> SUFFICES ASSUME GroupInv, Ask PROVE GroupInv'
  OBVIOUS
<1>1. /\ stage = "ask" /\ gets' = gets \cup {piece} /\ piece \in 1 .. N
      /\ UNCHANGED <<arm, todo, still, hits, offered, landed, arrived, faults, ended>>
  BY GroupFacts DEF Ask, result, GroupInv, GroupTypeOK
<1>0. clock' \in Nat
  BY SendingFacts, GroupFacts DEF Ask
<1>2. Read' = Read /\ Kept' = Kept \cup {piece}
  BY <1>1, ReadsHeld DEF Kept
<1>3. CASE piece = N
  <2>1. stage' = "collect" /\ until' = Least(TTL, Deadline) /\ piece' = piece
    BY <1>3 DEF Ask
  <2>2. until' \in Nat /\ until' <= Deadline
    BY <2>1, LeastFacts, GroupFacts
  <2>3. GroupTypeOK'
    BY <1>0, <1>1, <2>1, <2>2, ReadsHeld, GroupFacts DEF GroupInv, GroupTypeOK, Steps
  <2>4. FarNodeHas' /\ InTime'
    BY <1>1, <2>1, <2>2, ReadsHeld DEF GroupInv, FarNodeHas, InTime
  <2>5. ConcAsks'
    <3> SUFFICES ASSUME arm = "conc" PROVE Pieces \subseteq Kept'
      BY <1>1, <2>1 DEF ConcAsks
    <3>1. \A p \in Pieces : p < piece => p \in Kept
      BY <1>1 DEF GroupInv, ConcAsks
    <3>2. \A p \in Pieces : p < piece \/ p = piece
      BY <1>1, <1>3, GroupFacts
    <3> QED
      BY <1>2, <3>1, <3>2
  <2> QED
    BY <2>3, <2>4, <2>5 DEF GroupInv
<1>4. CASE piece # N
  <2>1. piece' = piece + 1 /\ UNCHANGED <<stage, until>>
    BY <1>4 DEF Ask
  <2>2. piece' \in Pieces
    BY <1>1, <1>4, <2>1, GroupFacts
  <2>3. GroupTypeOK'
    BY <1>0, <1>1, <2>1, <2>2, ReadsHeld, GroupFacts DEF GroupInv, GroupTypeOK
  <2>4. FarNodeHas' /\ InTime'
    BY <1>1, <2>1, ReadsHeld DEF GroupInv, FarNodeHas, InTime
  <2>5. ConcAsks'
    <3> SUFFICES ASSUME arm = "conc", NEW p \in Pieces, p < piece + 1
                 PROVE  p \in Kept'
      BY <1>1, <2>1 DEF ConcAsks
    <3>1. p < piece \/ p = piece
      BY <1>1, GroupFacts
    <3>2. p < piece => p \in Kept
      BY <1>1 DEF GroupInv, ConcAsks
    <3> QED
      BY <1>2, <3>1, <3>2
  <2> QED
    BY <2>3, <2>4, <2>5 DEF GroupInv
<1> QED
  BY <1>3, <1>4

(* A piece collected was asked for, had landed, and is in time.            *)
LEMMA CollectStep == ASSUME NEW p \in Pieces, GroupInv, Collect(p) PROVE GroupInv'
<1>1. /\ stage = "collect" /\ clock < until /\ p \in arrived
      /\ arrived' = arrived \ {p}
      /\ hits' = [q \in Read \cup {p} |-> IF q \in Read THEN hits[q] ELSE clock]
      /\ UNCHANGED <<arm, stage, clock, piece, until, todo, still, offered,
                     landed, gets, faults, ended>>
  BY DEF Collect, loop
<1>2. Read' = Read \cup {p} /\ LastRead' = LastRead
  BY <1>1 DEF Read, LastRead
<1>3. clock \in Nat /\ until \in Nat /\ until <= Deadline /\ clock < LastRead
  BY <1>1, LastReadFacts, GroupFacts DEF GroupInv, GroupTypeOK, InTime
<1>4. \A q \in Read : hits[q] \in Nat /\ hits[q] < LastRead
  BY DEF GroupInv, GroupTypeOK, InTime
<1>5. \A q \in Read' : hits'[q] \in Nat /\ hits'[q] < LastRead
  BY <1>1, <1>2, <1>3, <1>4
<1>6. hits' \in [Read' -> Nat]
  BY <1>1, <1>2, <1>3, <1>4
<1>7. GroupTypeOK'
  BY <1>1, <1>6 DEF GroupInv, GroupTypeOK
<1>8. FarNodeHas' /\ InTime'
  BY <1>1, <1>2, <1>5 DEF GroupInv, FarNodeHas, InTime
<1>9. ConcAsks'
  <2>1. Kept' = Kept
    BY <1>1, <1>2 DEF Kept
  <2> QED
    BY <1>1, <2>1 DEF GroupInv, ConcAsks
<1> QED
  BY <1>7, <1>8, <1>9 DEF GroupInv

(* The collection ends for one of its reasons.                             *)
LEMMA CollectOverStep == GroupInv /\ CollectOver => GroupInv'
<1> SUFFICES ASSUME GroupInv, CollectOver PROVE GroupInv'
  OBVIOUS
<1>1. /\ stage = "collect" /\ stage' = "over"
      /\ UNCHANGED <<arm, clock, piece, until, todo, still, hits, offered,
                     landed, gets, arrived, ended>>
      /\ \/ (Read = Pieces \/ clock >= until \/ ~Up("reader")) /\ faults' = faults
         \/ faults' = faults + 1
  BY DEF CollectOver, loop, result
<1>2. faults \in Nat /\ clock \in Nat /\ until \in Nat
  BY DEF GroupInv, GroupTypeOK
<1>3. GroupTypeOK'
  BY <1>1, <1>2, ReadsHeld DEF GroupInv, GroupTypeOK, Steps
<1>4. FarNodeHas' /\ InTime'
  BY <1>1, ReadsHeld DEF GroupInv, FarNodeHas, InTime
<1>5. ConcAsks'
  <2>1. Kept' = Kept /\ Read' = Read
    BY <1>1, ReadsHeld DEF Kept
  <2>2. clock < until /\ Read # Pieces => faults' > 0 \/ ~Up("reader")
    BY <1>1, <1>2
  <2> QED
    BY <1>1, <2>1, <2>2 DEF GroupInv, ConcAsks, Up
<1> QED
  BY <1>3, <1>4, <1>5 DEF GroupInv

(* A probe begins before the deadline, and spends its bound on the send    *)
(* and once more on the answer; RAW's bound is what was left of the time.  *)
LEMMA ProbeStep == GroupInv /\ Probe => GroupInv'
<1> SUFFICES ASSUME GroupInv, Probe PROVE GroupInv'
  OBVIOUS
<1>1. /\ stage = "round" /\ todo # {} /\ clock < Deadline /\ stage' = "probe"
      /\ piece' = Min(todo) /\ until' = clock' + Bound
      /\ gets' = gets \cup {piece'}
      /\ UNCHANGED <<arm, todo, still, hits, offered, landed, arrived, faults, ended>>
  BY DEF Probe, result
<1>2. piece' \in Pieces
  <2>1. todo \in SUBSET Nat /\ todo \subseteq Pieces
    BY GroupFacts DEF GroupInv, GroupTypeOK
  <2>2. Min(todo) \in todo
    BY <1>1, <2>1, NatMin
  <2> QED
    BY <1>1, <2>1, <2>2
<1>3. arm # "conc" /\ arm \in Arms /\ clock \in Nat
  BY <1>1 DEF GroupInv, ConcAsks, GroupTypeOK
<1>4. clock' \in Nat /\ until' \in Nat /\ until' <= LastRead
  <2>0. clock \in Nat /\ Deadline \in Nat /\ clock < Deadline
    BY <1>1, <1>3, GroupFacts
  <2>1. CASE arm = "raw"
    <3>1. Deadline - clock \in Nat
      BY <1>1, <1>3, GroupFacts
    <3> DEFINE least == Least(TTL, Deadline - clock)
               most == Least(TTL, Deadline)
    <3>2. least \in Nat /\ least <= Deadline - clock
      BY <3>1, LeastFacts, GroupFacts
    <3>3. most \in Nat /\ least <= most
      BY <1>3, <3>1, GroupFacts DEF Least
    <3>4. Bound = least /\ LastRead = Deadline + most
      BY <2>1 DEF Bound, LastRead
    <3> HIDE DEF least, most
    <3>5. PICK now \in Nat : now = clock' /\ now <= clock + least
      BY <3>2, <3>4, SendingFacts DEF Probe
    <3>6. until' = now + least /\ Deadline \in Nat
      BY <1>1, <3>4, <3>5, GroupFacts
    <3>7. now + least \in Nat /\ now + least <= Deadline + most
      <4>1. now <= clock + least
        BY <3>5
      <4> QED
        BY <2>0, <3>2, <3>3, <4>1, SpentWithin
    <3> QED
      BY <3>4, <3>5, <3>6, <3>7
  <2>2. CASE arm = "baseline"
    <3>1. Bound = Attempt /\ LastRead = Deadline + 2 * Attempt
      BY <2>2 DEF Bound, LastRead
    <3>2. Deadline \in Nat /\ Attempt \in Nat
      BY GroupFacts
    <3>3. PICK now \in Nat : now = clock' /\ now <= clock + Attempt
      BY <3>1, <3>2, SendingFacts DEF Probe
    <3>4. now + Attempt \in Nat /\ now + Attempt <= Deadline + 2 * Attempt
      <4>1. now <= clock + Attempt /\ clock <= Deadline
        BY <2>0, <3>3
      <4> QED
        BY <2>0, <3>2, <4>1, SpentTwice
    <3> QED
      BY <1>1, <3>1, <3>3, <3>4
  <2> QED
    BY <1>3, <2>1, <2>2, GroupFacts
<1>5. GroupTypeOK'
  BY <1>1, <1>2, <1>4, ReadsHeld DEF GroupInv, GroupTypeOK, Steps
<1>6. FarNodeHas' /\ InTime'
  BY <1>1, <1>4, ReadsHeld DEF GroupInv, FarNodeHas, InTime
<1>7. ConcAsks'
  BY <1>1, <1>3 DEF ConcAsks
<1> QED
  BY <1>5, <1>6, <1>7 DEF GroupInv

(* A probe takes its own piece's answer, in its time.                      *)
LEMMA ProbeReadStep ==
  ASSUME NEW p \in Pieces, GroupInv, ProbeRead(p) PROVE GroupInv'
<1>1. /\ stage = "probe" /\ clock < until /\ p \in arrived
      /\ arrived' = arrived \ {p}
      /\ UNCHANGED <<arm, clock, piece, until, still, offered, landed, gets,
                     faults, ended>>
  BY DEF ProbeRead
<1>2. arm # "conc"
  BY <1>1 DEF GroupInv, ConcAsks
<1>3. clock \in Nat /\ until \in Nat /\ clock < LastRead
  BY <1>1, LastReadFacts DEF GroupInv, GroupTypeOK, InTime
<1>4. \A q \in Read : hits[q] \in Nat /\ hits[q] < LastRead
  BY DEF GroupInv, GroupTypeOK, InTime
<1>5. CASE p = piece
  <2>1. /\ hits' = [q \in Read \cup {p} |-> IF q = p THEN clock ELSE hits[q]]
        /\ todo' = todo \ {p} /\ stage' = "round"
    BY <1>5 DEF ProbeRead
  <2>2. Read' = Read \cup {p} /\ LastRead' = LastRead
    BY <1>1, <2>1 DEF Read, LastRead
  <2>3. \A q \in Read' : hits'[q] \in Nat /\ hits'[q] < LastRead
    BY <1>3, <1>4, <2>1, <2>2
  <2>4. hits' \in [Read' -> Nat]
    BY <1>3, <1>4, <2>1, <2>2
  <2>5. GroupTypeOK'
    BY <1>1, <2>1, <2>4 DEF GroupInv, GroupTypeOK, Steps
  <2>6. FarNodeHas' /\ InTime'
    BY <1>1, <2>1, <2>2, <2>3 DEF GroupInv, FarNodeHas, InTime
  <2> QED
    BY <1>1, <1>2, <2>5, <2>6 DEF GroupInv, ConcAsks
<1>6. CASE p # piece
  <2>1. UNCHANGED <<hits, todo, stage>>
    BY <1>6 DEF ProbeRead
  <2>2. GroupTypeOK'
    BY <1>1, <2>1, ReadsHeld DEF GroupInv, GroupTypeOK
  <2>3. FarNodeHas' /\ InTime'
    BY <1>1, <2>1, ReadsHeld DEF GroupInv, FarNodeHas, InTime
  <2> QED
    BY <1>1, <1>2, <2>2, <2>3 DEF GroupInv, ConcAsks
<1> QED
  BY <1>5, <1>6

(* A probe that misses, and the end of a round, read nothing.              *)
LEMMA RoundStep == GroupInv /\ (ProbeMisses \/ RoundOver) => GroupInv'
<1> SUFFICES ASSUME GroupInv, ProbeMisses \/ RoundOver PROVE GroupInv'
  OBVIOUS
<1>1. /\ stage \in {"probe", "round"} /\ stage' \in {"round", "over"}
      /\ faults' \in {faults, faults + 1}
      /\ UNCHANGED <<arm, piece, until, hits, offered, landed, gets, arrived, ended>>
  BY DEF ProbeMisses, RoundOver, RoundDone, result, far
<1>0. clock' \in Nat
  <2>1. clock' = clock \/ Sending(Cardinality(Outstanding) * Offer)
    BY DEF ProbeMisses, RoundOver
  <2>2. Outstanding \in SUBSET (1 .. N) /\ IsFiniteSet(1 .. N)
    BY FS_Interval, GroupFacts DEF Outstanding, GroupInv, GroupTypeOK
  <2>3. Cardinality(Outstanding) \in Nat
    BY <2>2, FS_Subset, FS_CardinalityType
  <2>4. Cardinality(Outstanding) * Offer \in Nat
    BY <2>3, GroupFacts
  <2>5. clock \in Nat
    BY DEF GroupInv, GroupTypeOK
  <2> QED
    BY <2>1, <2>4, <2>5, SendingFacts
<1>2. todo' \subseteq Pieces /\ still' \subseteq Pieces
  BY DEF ProbeMisses, RoundOver, Outstanding, GroupInv, GroupTypeOK
<1>3. arm # "conc"
  BY <1>1 DEF GroupInv, ConcAsks
<1>4. GroupTypeOK'
  BY <1>0, <1>1, <1>2, ReadsHeld DEF GroupInv, GroupTypeOK, Steps
<1>5. FarNodeHas' /\ InTime' /\ ConcAsks'
  BY <1>1, <1>3, ReadsHeld DEF GroupInv, FarNodeHas, InTime, ConcAsks
<1> QED
  BY <1>4, <1>5 DEF GroupInv

(* A send that fails, a connection that ends and the passing of time.      *)
LEMMA SideStep ==
  ASSUME GroupInv,
         SendFails \/ Tick \/ \E c \in {"writer", "reader"} : ConnectionEnds(c)
  PROVE  GroupInv'
<1>1. /\ UNCHANGED <<arm, piece, until, todo, still, hits, offered, landed,
                     gets, arrived, faults>>
      /\ clock' \in {clock, clock + 1}
      /\ stage' = stage \/ stage' = "bailed"
      /\ stage = "over" => stage' = stage /\ clock' = clock /\ ended' = ended
  BY DEF SendFails, RoundDone, Tick, ConnectionEnds, loop, result, far
<1>2. GroupTypeOK'
  BY <1>1, ReadsHeld DEF GroupInv, GroupTypeOK, Steps
<1>3. FarNodeHas' /\ InTime'
  BY <1>1, ReadsHeld DEF GroupInv, FarNodeHas, InTime
<1>4. ConcAsks'
  <2>1. Kept' = Kept /\ Read' = Read
    BY <1>1, ReadsHeld DEF Kept
  <2>2. stage' = "bailed" \/ (stage' = stage /\ stage # "over")
          \/ (stage' = "over" /\ stage = "over" /\ clock' = clock /\ ended' = ended)
    BY <1>1
  <2> QED
    BY <1>1, <2>1, <2>2 DEF GroupInv, ConcAsks, Up
<1> QED
  BY <1>2, <1>3, <1>4 DEF GroupInv

(* The far node answers only for a piece it has.                           *)
LEMMA FarStep == GroupInv /\ Node => GroupInv'
<1> SUFFICES ASSUME GroupInv, NEW p \in Pieces, Land(p) \/ Answer(p), stage # "over"
             PROVE  GroupInv'
  BY DEF Node
<1>1. UNCHANGED <<arm, stage, clock, piece, until, todo, still, hits, offered,
                  faults, ended>>
  BY DEF Land, Answer, loop, result
<1>2. /\ landed \subseteq landed' /\ landed' \subseteq Pieces
      /\ gets' \subseteq Pieces /\ arrived' \subseteq Pieces
      /\ arrived \subseteq landed /\ arrived' \subseteq landed'
      /\ gets \cup arrived \subseteq gets' \cup arrived'
  BY DEF Land, Answer, GroupInv, GroupTypeOK, FarNodeHas
<1>3. GroupTypeOK'
  BY <1>1, <1>2, ReadsHeld DEF GroupInv, GroupTypeOK
<1>4. FarNodeHas' /\ InTime'
  BY <1>1, <1>2, ReadsHeld DEF GroupInv, FarNodeHas, InTime
<1>5. ConcAsks'
  <2>1. Kept \subseteq Kept'
    BY <1>1, <1>2, ReadsHeld DEF Kept
  <2> QED
    BY <1>1, <2>1 DEF GroupInv, ConcAsks
<1> QED
  BY <1>3, <1>4, <1>5 DEF GroupInv

(* The invariant holds in every state of every run.                        *)
THEOREM GroupInvHolds == GSpec => []GroupInv
<1>1. GInit => GroupInv
  BY GroupInitial
<1>2. GroupInv /\ [GNext]_gvars => GroupInv'
  <2> SUFFICES ASSUME GroupInv, [GNext]_gvars PROVE GroupInv'
    OBVIOUS
  <2>1. CASE Harness
    BY <2>1, WriteStep, AskStep, CollectStep, CollectOverStep, ProbeStep,
       ProbeReadStep, RoundStep DEF Harness
  <2>2. CASE SendFails \/ Tick \/ \E c \in {"writer", "reader"} : ConnectionEnds(c)
    BY <2>2, SideStep
  <2>3. CASE Node
    BY <2>3, FarStep
  <2>4. CASE UNCHANGED gvars
    <3>1. Read' = Read /\ Kept' = Kept /\ LastRead' = LastRead
      BY <2>4 DEF gvars, loop, result, far, Read, Kept, LastRead
    <3> QED
      BY <2>4, <3>1 DEF gvars, loop, result, far, GroupInv, GroupTypeOK,
                        FarNodeHas, InTime, ConcAsks, Up
  <2> QED
    BY <2>1, <2>2, <2>3, <2>4 DEF GNext
<1> QED
  BY <1>1, <1>2, PTL DEF GSpec

-----------------------------------------------------------------------------
(* When K pieces were read, the time to the K-th is the time of a read.    *)
LEMMA KthIsARead ==
  ASSUME GroupTypeOK, Cardinality(Read) >= K,
         NEW bound \in Nat, \A p \in Read : hits[p] < bound
  PROVE  to_k < bound
<1> DEFINE times == {hits[p] : p \in Read}
           Enough == {t \in times : Cardinality({p \in Read : hits[p] <= t}) >= K}
<1>1. \A p \in Read : hits[p] \in Nat
  BY DEF GroupTypeOK
<1>2. Read # {}
  BY GroupFacts, FS_EmptySet
<1>3. times \in SUBSET (0 .. bound) /\ times # {}
  BY <1>1, <1>2
<1>4. PICK u \in times : \A y \in times : y <= u
  <2> HIDE DEF times
  <2> QED
    BY <1>3, NatMax
<1>5. {p \in Read : hits[p] <= u} = Read
  BY <1>4
<1>6. u \in Enough
  BY <1>4, <1>5
<1>7. Enough \in SUBSET Nat /\ Enough # {}
  <2>1. times \subseteq Nat
    BY <1>3
  <2>2. Enough \subseteq times
    OBVIOUS
  <2> HIDE DEF Enough, times
  <2> QED
    BY <1>6, <2>1, <2>2
<1>8. to_k = Min(Enough)
  BY DEF to_k, nth
<1>9. Min(Enough) \in Enough
  <2> HIDE DEF Enough
  <2> QED
    BY <1>7, NatMin
<1>10. to_k \in times
  BY <1>8, <1>9
<1> QED
  BY <1>10

(* A group never counts as readable through a piece the far node did not   *)
(* have, nor with a time beyond the last its arm may read at: the deadline *)
(* for RAW-CONC, and for the others the bound of a probe begun before it,  *)
(* spent on the send and again on the answer (probe in group.rs).          *)
THEOREM HonestHitsHolds == GSpec => []HonestHits
<1>1. GroupInv => HonestHits
  <2> SUFFICES ASSUME GroupInv PROVE HonestHits
    OBVIOUS
  <2>1. Read \subseteq landed
    BY DEF GroupInv, FarNodeHas
  <2>2. LastRead \in Nat /\ \A p \in Read : hits[p] < LastRead
    BY LastReadFacts DEF GroupInv, InTime
  <2>3. Cardinality(Read) >= K => to_k < LastRead
    BY <2>2, KthIsARead DEF GroupInv
  <2> QED
    BY <2>1, <2>3 DEF HonestHits
<1> QED
  BY <1>1, GroupInvHolds, PTL

(* RAW-CONC loses no answer: every piece is read, still asked for or still *)
(* unread when it ends, and it ends early only on an error (the collection *)
(* of one_group in group.rs).                                              *)
THEOREM ConcLosesNoneHolds == GSpec => []ConcLosesNone
<1>1. GroupInv => ConcLosesNone
  BY DEF GroupInv, ConcAsks, ConcLosesNone, Kept
<1> QED
  BY <1>1, GroupInvHolds, PTL
=============================================================================
