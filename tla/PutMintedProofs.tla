--------------------------- MODULE PutMintedProofs ---------------------------
(* Proofs about PutMinted, for every plan, instant, milestone and limit.    *)
EXTENDS PutMinted, FiniteSetTheorems, TLAPS

-----------------------------------------------------------------------------
(* The shape of the loop's state.  A trial that was not sent carries no     *)
(* mark, and one that carries a mark got it at or after its own T.          *)
FreshUnmarked == \A i \in Trial \ Sent : mark[i] = "none"
MarkedAfterT == \A i \in Trial : mark[i] # "none" => seen >= t0[i] + T

LoopInv ==
  /\ TypeOK
  /\ FreshUnmarked
  /\ MarkedAfterT

(* The loop begins with nothing sent.                                      *)
LEMMA LoopInit == Init => LoopInv
BY MintedAssumption DEF Init, LoopInv, TypeOK, FreshUnmarked, MarkedAfterT,
  Trial, Sent

(* What was sent are trials.                                               *)
LEMMA SentTrials == TypeOK => Sent \subseteq Trial
BY MintedAssumption DEF TypeOK, Sent, Trial

(* Each step keeps the shape of the state, and marks only what was sent.    *)
LEMMA LoopInductive == LoopInv /\ [Next]_vars => LoopInv'
<1> SUFFICES ASSUME LoopInv, [Next]_vars
             PROVE  LoopInv'
  OBVIOUS
<1> USE MintedAssumption
<1> USE DEF LoopInv
<1>0. TypeOK /\ FreshUnmarked /\ MarkedAfterT /\ Sent \subseteq Trial
  BY SentTrials
<1>1. CASE SendOne
  <2>1. /\ sent < N /\ sent \in Nat /\ sent' = sent + 1 /\ sent' \in 0 .. N
        /\ Sent' = Sent \cup {sent + 1} /\ sent + 1 \in Trial \ Sent
    BY <1>0, <1>1 DEF SendOne, TypeOK, Sent, Trial
  <2>2. /\ due' \subseteq Sent' \X {1, 2} /\ socket' \subseteq Sent' \X {1, 2}
        /\ early' = early
    BY <1>0, <1>1, <2>1 DEF SendOne, SendReq, TypeOK
  <2>3. now' \in Nat /\ seen' \in 0 .. now' /\ t0' \in [Trial -> Nat]
    <3>1. now' \in Nat /\ now <= now' /\ seen' = seen
      BY <1>0, <1>1 DEF SendOne, SendReq, TypeOK
    <3>2. t0' \in [Trial -> Nat]
      BY <1>0, <1>1 DEF SendOne, TypeOK
    <3> QED
      BY <1>0, <3>1, <3>2 DEF TypeOK
  <2>4. TypeOK'
    BY <1>0, <1>1, <2>1, <2>2, <2>3 DEF SendOne, SendReq, TypeOK
  <2>5. FreshUnmarked'
    BY <1>0, <1>1, <2>1 DEF SendOne, FreshUnmarked
  <2>6. MarkedAfterT'
    <3>1. mark[sent + 1] = "none" /\ mark' = mark /\ seen' = seen
      BY <1>0, <1>1, <2>1 DEF SendOne, FreshUnmarked
    <3>2. \A i \in Trial : i # sent + 1 => t0'[i] = t0[i]
      BY <1>0, <1>1 DEF SendOne, TypeOK
    <3> QED
      BY <1>0, <3>1, <3>2 DEF MarkedAfterT
  <2> QED
    BY <2>4, <2>5, <2>6
<1>2. CASE AllSent
  BY <1>0, <1>2 DEF AllSent, node, TypeOK, FreshUnmarked, MarkedAfterT,
    Sent, Trial
<1>3. CASE Drain
  <2>1. PICK got \in SUBSET socket :
          /\ acked' = acked \cup {p[1] : p \in got}
          /\ socket' = socket \ got
          /\ behind' = behind \cup {p[1] : p \in socket \ got}
    BY <1>3 DEF Drain
  <2>2. \A p \in socket : p[1] \in Sent
    BY <1>0 DEF TypeOK
  <2>3. /\ acked' \subseteq Sent /\ socket' \subseteq Sent \X {1, 2}
        /\ behind' \subseteq Sent
    BY <1>0, <2>1, <2>2 DEF TypeOK
  <2>4. errors' \in Nat /\ seen' \in 0 .. now' /\ Sent' = Sent
    BY <1>0, <1>3 DEF Drain, TypeOK, Sent
  <2>5. TypeOK' /\ FreshUnmarked'
    BY <1>0, <1>3, <2>3, <2>4 DEF Drain, TypeOK, FreshUnmarked
  <2>6. MarkedAfterT'
    <3>1. ASSUME NEW i \in Trial, mark[i] # "none" PROVE now >= t0[i] + T
      <4>1. seen \in Nat /\ seen <= now /\ now \in Nat /\ t0[i] \in Nat
        BY <1>0, <3>1 DEF TypeOK
      <4>2. seen >= t0[i] + T
        BY <1>0, <3>1 DEF MarkedAfterT
      <4> QED
        BY <4>1, <4>2
    <3> QED
      BY <1>3, <3>1 DEF Drain, MarkedAfterT
  <2> QED
    BY <2>5, <2>6
<1>4. ASSUME NEW i \in Trial, Mark(i)
      PROVE  LoopInv'
  <2>1. /\ i \in Sent /\ Sent' = Sent /\ phase' \in {"mark", "reput"}
        /\ seen >= t0[i] + T
    BY <1>4 DEF Mark, Overdue, Sent
  <2>2. mark' \in [Trial -> {"none", "unacked", "acked"}] /\ FreshUnmarked'
    BY <1>0, <1>4, <2>1 DEF Mark, TypeOK, FreshUnmarked
  <2>3. TypeOK'
    BY <1>0, <1>4, <2>1, <2>2 DEF Mark, node, TypeOK
  <2>4. MarkedAfterT'
    BY <1>0, <1>4, <2>1 DEF Mark, TypeOK, MarkedAfterT
  <2> QED
    BY <2>2, <2>3, <2>4
<1>5. ASSUME NEW i \in Trial, Reput(i)
      PROVE  LoopInv'
  <2>1. /\ i \in Sent /\ Sent' = Sent /\ phase' = "mark"
        /\ UNCHANGED <<sent, t0, acked, mark, seen, readable, ended, behind>>
    BY <1>5 DEF Reput, Firing, Conditioned, Sent
  <2>2. /\ due' \subseteq Sent \X {1, 2} /\ hedged' \subseteq Sent
        /\ UNCHANGED <<socket, errors, early>>
    BY <1>0, <1>5, <2>1 DEF Reput, SendReq, TypeOK
  <2>3. now' \in Nat /\ now <= now'
    BY <1>0, <1>5 DEF Reput, SendReq, TypeOK
  <2>4. seen' \in 0 .. now'
    BY <1>0, <2>1, <2>3 DEF TypeOK
  <2>5. TypeOK'
    BY <1>0, <2>1, <2>2, <2>3, <2>4 DEF TypeOK
  <2>6. FreshUnmarked' /\ MarkedAfterT'
    BY <1>0, <2>1 DEF FreshUnmarked, MarkedAfterT
  <2> QED
    BY <2>5, <2>6
<1>6. CASE EndMarks
  BY <1>0, <1>6 DEF EndMarks, node, TypeOK, FreshUnmarked, MarkedAfterT,
    Sent, Trial
<1>7. CASE Probe
  <2>1. /\ readable' \subseteq Sent /\ Sent' = Sent /\ phase' = "check"
        /\ UNCHANGED <<sent, t0, due, socket, errors, early, acked, mark, seen,
                       hedged, ended, behind>>
    BY <1>0, <1>7 DEF Probe, node, TypeOK, Sent
  <2>2. now' \in Nat /\ now <= now'
    BY <1>0, <1>7 DEF Probe, TypeOK
  <2>3. seen' \in 0 .. now'
    BY <1>0, <2>1, <2>2 DEF TypeOK
  <2>4. TypeOK'
    BY <1>0, <2>1, <2>2, <2>3 DEF TypeOK
  <2>5. FreshUnmarked' /\ MarkedAfterT'
    BY <1>0, <2>1 DEF FreshUnmarked, MarkedAfterT
  <2> QED
    BY <2>4, <2>5
<1>8. CASE Check
  BY <1>0, <1>8 DEF Check, Verdict, node, TypeOK, FreshUnmarked, MarkedAfterT,
    Sent, Trial
<1>9. CASE Fail
  BY <1>0, <1>9 DEF Fail, node, TypeOK, FreshUnmarked, MarkedAfterT, Sent, Trial
<1>10. ASSUME NEW put \in Trial \X {1, 2}, Arrive(put)
       PROVE  LoopInv'
  <2>1. /\ UNCHANGED <<now, phase, sent, t0, acked, mark, seen, hedged, readable,
                       ended, behind>>
        /\ Sent' = Sent /\ put \in due /\ due' = due \ {put}
        /\ socket' \subseteq socket \cup {put} /\ errors' \in {errors, errors + 1}
        /\ early' \subseteq early \cup {put[1]}
    BY <1>10 DEF Arrive, Sent
  <2>2. /\ due' \subseteq Sent \X {1, 2} /\ socket' \subseteq Sent \X {1, 2}
        /\ errors' \in Nat /\ early' \subseteq Sent
    BY <1>0, <2>1 DEF TypeOK
  <2>3. TypeOK'
    BY <1>0, <2>1, <2>2 DEF TypeOK
  <2>4. FreshUnmarked' /\ MarkedAfterT'
    BY <1>0, <2>1 DEF FreshUnmarked, MarkedAfterT
  <2> QED
    BY <2>3, <2>4
<1>11. CASE UNCHANGED vars
  BY <1>0, <1>11 DEF vars, node, TypeOK, FreshUnmarked, MarkedAfterT, Sent, Trial
<1> QED
  BY <1>1, <1>2, <1>3, <1>4, <1>5, <1>6, <1>7, <1>8, <1>9, <1>10, <1>11
  DEF Next, Pass

(* Every reachable state of the loop has its shape (put_minted).            *)
THEOREM TypeCorrect == Spec => []LoopInv
<1> QED
  BY LoopInit, LoopInductive, PTL DEF Spec

-----------------------------------------------------------------------------
(* Who was early.  An acknowledgement that arrived before its trial's T has *)
(* been read or lies in the socket; once a pass has drained the socket at   *)
(* or after T, it lies there only if that drain left it.                    *)
Unread(i) == \E p \in socket : p[1] = i
Drained == phase \in {"mark", "reput"}

Arrivals ==
  /\ \A i \in early : i \in acked \/ Unread(i)
  /\ Drained => \A i \in early : seen >= t0[i] + T => i \in acked \cup behind
  /\ ConditionedIsTrue

(* Each step keeps the account of the early ones.                           *)
LEMMA ArrivalsInductive == LoopInv /\ Arrivals /\ [Next]_vars => Arrivals'
<1> SUFFICES ASSUME LoopInv, Arrivals, [Next]_vars
             PROVE  Arrivals'
  OBVIOUS
<1> USE MintedAssumption
<1>0. TypeOK /\ FreshUnmarked /\ MarkedAfterT /\ Sent \subseteq Trial
  BY SentTrials DEF LoopInv
<1>1. CASE SendOne
  <2>1. /\ Sent' = Sent \cup {sent + 1} /\ sent + 1 \in Trial \ Sent
        /\ UNCHANGED <<mark, acked, early, behind, socket>>
        /\ phase' = "drain"
    BY <1>0, <1>1 DEF SendOne, SendReq, TypeOK, Sent, Trial
  <2>2. mark[sent + 1] = "none"
    BY <1>0, <2>1 DEF FreshUnmarked
  <2>3. ConditionedIsTrue'
    BY <2>1, <2>2 DEF Arrivals, ConditionedIsTrue
  <2> QED
    BY <2>1, <2>3 DEF Arrivals, Unread, Drained
<1>2. CASE Drain
  <2>1. PICK got \in SUBSET socket :
          /\ socket' = socket \ got
          /\ acked' = acked \cup {p[1] : p \in got}
          /\ behind' = behind \cup {p[1] : p \in socket \ got}
    BY <1>2 DEF Drain
  <2>2. UNCHANGED <<sent, mark, early, t0>> /\ Sent' = Sent
    BY <1>2 DEF Drain, Sent
  <2>3. ASSUME NEW i \in early
        PROVE  i \in acked' \/ (Unread(i)' /\ i \in behind')
    BY <2>1 DEF Arrivals, Unread
  <2>4. ConditionedIsTrue'
    BY <2>1, <2>2 DEF Arrivals, ConditionedIsTrue
  <2> QED
    BY <2>2, <2>3, <2>4 DEF Arrivals
<1>3. ASSUME NEW i \in Trial, Mark(i)
      PROVE  Arrivals'
  <2>1. /\ i \in Sent /\ seen >= t0[i] + T /\ Drained
        /\ mark' = [mark EXCEPT ![i] = IF i \in acked THEN "acked" ELSE "unacked"]
        /\ UNCHANGED <<sent, t0, seen, early, acked, behind, socket>>
        /\ Sent' = Sent
    BY <1>3 DEF Mark, Overdue, Drained, node, Sent
  <2>2. ASSUME NEW j \in Sent, mark'[j] = "unacked", j \in early
        PROVE  j \in behind
    <3>1. CASE j = i
      <4>1. i \notin acked
        BY <1>0, <2>1, <2>2, <3>1 DEF TypeOK
      <4> QED
        BY <2>1, <2>2, <3>1, <4>1 DEF Arrivals
    <3>2. CASE j # i
      <4>1. mark'[j] = mark[j]
        BY <1>0, <2>1, <3>2 DEF TypeOK
      <4> QED
        BY <2>2, <4>1 DEF Arrivals, ConditionedIsTrue
    <3> QED
      BY <3>1, <3>2
  <2> QED
    BY <2>1, <2>2 DEF Arrivals, ConditionedIsTrue, Unread
<1>4. ASSUME NEW put \in Trial \X {1, 2}, Arrive(put)
      PROVE  Arrivals'
  <2>1. /\ UNCHANGED <<now, phase, sent, t0, acked, mark, seen, behind>>
        /\ Sent' = Sent /\ put[1] \in Sent /\ socket \subseteq socket'
        /\ put \in due /\ Drained' = Drained
    BY <1>0, <1>4 DEF Arrive, TypeOK, Sent, Drained
  <2>2. CASE early' = early
    BY <2>1, <2>2 DEF Arrivals, ConditionedIsTrue, Unread
  <2>3. CASE early' # early
    <3>1. /\ early' = early \cup {put[1]} /\ put \in socket'
          /\ now < t0[put[1]] + T
      BY <1>4, <2>3 DEF Arrive
    <3>2. ~ (seen >= t0[put[1]] + T)
      <4>1. /\ t0[put[1]] \in Nat /\ now \in Nat /\ seen \in Nat /\ seen <= now
        BY <1>0, <2>1 DEF TypeOK
      <4> QED
        BY <3>1, <4>1
    <3>3. mark[put[1]] # "unacked"
      BY <1>0, <2>1, <3>2 DEF MarkedAfterT
    <3> QED
      BY <2>1, <3>1, <3>2, <3>3 DEF Arrivals, ConditionedIsTrue, Unread
  <2> QED
    BY <2>2, <2>3
<1>5. ASSUME UNCHANGED <<sent, t0, socket, early, acked, mark, seen, behind>>,
             Drained' => Drained
      PROVE  Arrivals'
  BY <1>5 DEF Arrivals, ConditionedIsTrue, Unread, Sent
<1>6. CASE AllSent \/ EndMarks \/ Probe \/ Check \/ Fail \/ UNCHANGED vars
  BY <1>5, <1>6 DEF AllSent, EndMarks, Probe, Check, Fail, vars, node, Drained
<1>7. CASE \E i \in Trial : Reput(i)
  BY <1>5, <1>7 DEF Reput, SendReq, Drained
<1> QED
  BY <1>1, <1>2, <1>3, <1>4, <1>6, <1>7 DEF Next, Pass

(* A conditioned trial's acknowledgement had not arrived by its own T, in   *)
(* either arm, but for one that a drain left behind an error.               *)
THEOREM ConditionedIsTrueHolds == Spec => []ConditionedIsTrue
<1>1. Init => Arrivals
  BY DEF Init, Arrivals, ConditionedIsTrue, Drained, Sent
<1>2. Arrivals => ConditionedIsTrue
  BY DEF Arrivals
<1> QED
  BY <1>1, <1>2, ArrivalsInductive, TypeCorrect, PTL DEF Spec

-----------------------------------------------------------------------------
(* How late a re-put can be.  Between two passes' instants lie the re-puts  *)
(* of the first, one read-back and one send; what the re-puts took is paid  *)
(* for by their number.                                                     *)
Spent == Lag * Cardinality(hedged)
Waiting == {i \in Sent : mark[i] = "none"} \cup Firing

Slack ==
  IF phase = "probe" THEN 0
  ELSE IF phase \in {"send", "check"} THEN ProbeTime ELSE ProbeTime + Lag

Punctual ==
  /\ \A i, j \in Firing : i = j
  /\ phase \notin {"reput", "bailed"} => Firing = {}
  /\ Drained => now <= seen + Spent
  /\ Running => \A i \in Waiting : now < t0[i] + T + Slack + Spent

(* What re-puts may have taken is a number, and one more adds one send.     *)
LEMMA SpentFacts ==
  ASSUME TypeOK
  PROVE  /\ Spent \in Nat /\ IsFiniteSet(hedged) /\ Cardinality(hedged) \in Nat
         /\ \A i : i \notin hedged =>
              Lag * Cardinality(hedged \cup {i}) = Spent + Lag
<1>1. IsFiniteSet(1 .. N)
  BY MintedAssumption, FS_Interval
<1>2. hedged \in SUBSET (1 .. N)
  BY SentTrials DEF TypeOK, Trial
<1>3. IsFiniteSet(hedged) /\ Cardinality(hedged) \in Nat
  BY <1>1, <1>2, FS_Subset, FS_CardinalityType
<1>4. ASSUME NEW c \in Nat PROVE Lag * c \in Nat /\ Lag * (c + 1) = Lag * c + Lag
  BY MintedAssumption
<1>5. ASSUME NEW i, i \notin hedged
      PROVE  Lag * Cardinality(hedged \cup {i}) = Spent + Lag
  <2>1. Cardinality(hedged \cup {i}) = Cardinality(hedged) + 1
    BY <1>3, <1>5, FS_AddElement
  <2> QED
    BY <1>3, <1>4, <2>1 DEF Spent
<1> QED
  BY <1>3, <1>4, <1>5 DEF Spent

(* A send takes Lag at most.                                               *)
LEMMA SendTime ==
  ASSUME now \in Nat, NEW put, SendReq(put)
  PROVE  now' \in Nat /\ now' <= now + Lag
<1>1. PICK lag \in Lags : now' = now + lag
  BY DEF SendReq
<1>2. lag \in Nat /\ lag <= Lag /\ Lag \in Nat
  BY MintedAssumption
<1> QED
  BY <1>1, <1>2

(* Each step keeps what the trials that wait for their mark may have waited.*)
LEMMA PunctualInductive == LoopInv /\ Punctual /\ [Next]_vars => Punctual'
<1> SUFFICES ASSUME LoopInv, Punctual, [Next]_vars
             PROVE  Punctual'
  OBVIOUS
<1>0. TypeOK /\ FreshUnmarked /\ Sent \subseteq Trial
  BY SentTrials DEF LoopInv
<1>a. /\ T \in Nat /\ Lag \in Nat /\ ProbeTime \in Nat \ {0}
      /\ now \in Nat /\ seen \in Nat /\ Spent \in Nat
      /\ \A i \in Trial : t0[i] \in Nat
  BY <1>0, MintedAssumption, SpentFacts DEF TypeOK
<1>b. Waiting \subseteq Trial
  BY <1>0 DEF Waiting, Firing, Conditioned
<1>c. ASSUME UNCHANGED hedged PROVE Spent' = Spent
  BY <1>c DEF Spent
<1>d. ASSUME UNCHANGED <<sent, mark, hedged>>
      PROVE  Firing' = Firing /\ Waiting' = Waiting /\ Spent' = Spent
  BY <1>d DEF Waiting, Firing, Conditioned, Sent, Spent
<1>1. CASE SendOne
  <2>1. /\ phase = "send" /\ phase' = "drain" /\ sent + 1 \in Trial \ Sent
        /\ Sent' = Sent \cup {sent + 1} /\ UNCHANGED <<mark, hedged>>
        /\ t0' = [t0 EXCEPT ![sent + 1] = now]
    <3>1. /\ phase = "send" /\ phase' = "drain" /\ sent' = sent + 1 /\ sent < N
          /\ UNCHANGED <<mark, hedged>>
          /\ t0' = [t0 EXCEPT ![sent + 1] = now]
      BY <1>1 DEF SendOne
    <3>2. sent \in Nat /\ N \in Nat
      BY <1>0, MintedAssumption DEF TypeOK
    <3>3. sent + 1 \in Trial \ Sent /\ Sent' = Sent \cup {sent + 1}
      BY <3>1, <3>2 DEF Sent, Trial
    <3> QED
      BY <3>1, <3>3
  <2>2. now' \in Nat /\ now' <= now + Lag
    BY <1>a, <1>1, SendTime DEF SendOne
  <2>3. mark[sent + 1] = "none"
    BY <1>0, <2>1 DEF FreshUnmarked
  <2>4. Firing' = Firing /\ Waiting' = Waiting \cup {sent + 1} /\ Spent' = Spent
    BY <2>1, <2>3 DEF Waiting, Firing, Conditioned, Spent
  <2>5. Slack = ProbeTime /\ Slack' = ProbeTime + Lag /\ Running
    BY <2>1 DEF Slack, Running
  <2>6. ASSUME NEW i \in Waiting' PROVE now' < t0'[i] + T + Slack' + Spent'
    <3>1. CASE i = sent + 1
      <4>1. t0'[i] = now
        BY <1>0, <2>1, <3>1 DEF TypeOK
      <4> QED
        BY <1>a, <2>2, <2>4, <2>5, <4>1
    <3>2. CASE i # sent + 1
      <4>1. i \in Waiting /\ i \in Trial /\ t0'[i] = t0[i]
        BY <1>0, <1>b, <2>1, <2>4, <3>2 DEF TypeOK
      <4>2. now < t0[i] + T + ProbeTime + Spent /\ t0[i] \in Nat
        BY <1>a, <2>5, <4>1 DEF Punctual
      <4> QED
        BY <1>a, <2>2, <2>4, <2>5, <4>1, <4>2
    <3> QED
      BY <3>1, <3>2
  <2> QED
    BY <2>1, <2>4, <2>6 DEF Punctual, Drained
<1>2. CASE AllSent
  <2>1. /\ phase = "send" /\ phase' = "drain"
        /\ UNCHANGED <<now, sent, mark, hedged, t0>>
    BY <1>2 DEF AllSent
  <2>2. Slack = ProbeTime /\ Slack' = ProbeTime + Lag /\ Running
    BY <2>1 DEF Slack, Running
  <2>3. ASSUME NEW i \in Waiting PROVE now < t0[i] + T + (ProbeTime + Lag) + Spent
    <3>1. now < t0[i] + T + ProbeTime + Spent /\ t0[i] \in Nat
      BY <1>a, <1>b, <2>2 DEF Punctual
    <3> QED
      BY <1>a, <3>1
  <2> QED
    BY <1>d, <2>1, <2>2, <2>3 DEF Punctual, Drained
<1>3. CASE Drain
  <2>1. /\ phase = "drain" /\ phase' = "mark" /\ seen' = now
        /\ UNCHANGED <<now, sent, mark, hedged, t0>>
    BY <1>3 DEF Drain
  <2>2. Slack' = Slack /\ Running
    BY <2>1 DEF Slack, Running
  <2>3. now <= now + Spent
    BY <1>a
  <2> QED
    BY <1>d, <2>1, <2>2, <2>3 DEF Punctual
<1>4. ASSUME NEW i \in Trial, Mark(i)
      PROVE  Punctual'
  <2>1. /\ i \in Sent /\ mark[i] = "none" /\ phase = "mark" /\ Sent' = Sent
        /\ mark' = [mark EXCEPT ![i] = IF i \in acked THEN "acked" ELSE "unacked"]
        /\ phase' = IF Arm(i) = "hedge" /\ i \notin acked THEN "reput" ELSE phase
        /\ UNCHANGED <<now, seen, t0, hedged>>
    BY <1>4 DEF Mark, Overdue, Sent
  <2>2. Firing = {} /\ Running /\ Drained
    BY <2>1 DEF Punctual, Running, Drained
  <2>3. mark'[i] = (IF i \in acked THEN "acked" ELSE "unacked")
        /\ \A j \in Trial \ {i} : mark'[j] = mark[j]
    BY <1>0, <2>1 DEF TypeOK
  <2>4. Firing' \subseteq {i} /\ (phase' = "mark" => Firing' = {})
    BY <1>0, <2>1, <2>2, <2>3 DEF Firing, Conditioned
  <2>5. Waiting' \subseteq Waiting
    BY <1>0, <2>1, <2>3, <2>4 DEF Waiting
  <2>6. Slack' = Slack /\ phase' \in {"mark", "reput"} /\ Spent' = Spent
    BY <1>c, <2>1 DEF Slack
  <2> QED
    BY <2>1, <2>2, <2>4, <2>5, <2>6 DEF Punctual
<1>5. ASSUME NEW i \in Trial, Reput(i)
      PROVE  Punctual'
  <2>1. /\ i \in Firing /\ i \notin hedged /\ hedged' = hedged \cup {i}
        /\ phase = "reput" /\ phase' = "mark" /\ Sent' = Sent
        /\ UNCHANGED <<mark, t0, seen>>
    BY <1>5 DEF Reput, Firing, Sent
  <2>2. now' \in Nat /\ now' <= now + Lag
    BY <1>a, <1>5, SendTime DEF Reput
  <2>3. Spent' = Spent + Lag
    BY <1>0, <2>1, SpentFacts DEF Spent
  <2>4. Firing' = {}
    BY <2>1 DEF Punctual, Firing, Conditioned
  <2>5. Waiting' \subseteq Waiting
    BY <2>1, <2>4 DEF Waiting
  <2>6. Slack' = Slack /\ Slack \in Nat /\ Running /\ Drained
    BY <1>a, <2>1 DEF Slack, Running, Drained
  <2>7. now' <= seen + (Spent + Lag)
    <3>1. now <= seen + Spent
      BY <2>6 DEF Punctual
    <3> QED
      BY <1>a, <2>2, <3>1
  <2>8. ASSUME NEW j \in Waiting PROVE now' < t0[j] + T + Slack + (Spent + Lag)
    <3>1. now < t0[j] + T + Slack + Spent /\ t0[j] \in Nat
      BY <1>a, <1>b, <2>6 DEF Punctual
    <3> QED
      BY <1>a, <2>2, <2>6, <3>1
  <2> QED
    BY <2>1, <2>3, <2>4, <2>5, <2>6, <2>7, <2>8 DEF Punctual
<1>6. CASE EndMarks
  <2>1. /\ phase = "mark" /\ phase' = "probe" /\ Overdue = {}
        /\ UNCHANGED <<now, sent, mark, hedged, t0>>
    BY <1>6 DEF EndMarks
  <2>2. Firing = {} /\ now <= seen + Spent /\ Slack' = 0
    BY <2>1 DEF Punctual, Drained, Slack
  <2>3. ASSUME NEW i \in Waiting PROVE now < t0[i] + T + 0 + Spent
    <3>1. ~ (seen >= t0[i] + T) /\ t0[i] \in Nat
      BY <1>a, <1>b, <2>1, <2>2 DEF Overdue, Waiting
    <3> QED
      BY <1>a, <2>2, <3>1
  <2> QED
    BY <1>d, <2>1, <2>2, <2>3 DEF Punctual, Drained
<1>7. CASE Probe
  <2>1. /\ phase = "probe" /\ phase' = "check"
        /\ UNCHANGED <<sent, mark, hedged, t0>>
    BY <1>7 DEF Probe
  <2>2. now' \in Nat /\ now' <= now + ProbeTime
    BY <1>a, <1>7 DEF Probe
  <2>3. Slack = 0 /\ Slack' = ProbeTime /\ Running
    BY <2>1 DEF Slack, Running
  <2>4. ASSUME NEW i \in Waiting PROVE now' < t0[i] + T + ProbeTime + Spent
    <3>1. now < t0[i] + T + 0 + Spent /\ t0[i] \in Nat
      BY <1>a, <1>b, <2>3 DEF Punctual
    <3> QED
      BY <1>a, <2>2, <3>1
  <2> QED
    BY <1>d, <2>1, <2>3, <2>4 DEF Punctual, Drained
<1>8. CASE Check
  <2>1. /\ phase = "check" /\ phase' \in {"send", "bailed", "done"}
        /\ UNCHANGED <<now, sent, mark, hedged, t0>>
    BY <1>8 DEF Check
  <2>2. Running /\ (phase' = "send" => Slack' = Slack)
    BY <2>1 DEF Slack, Running
  <2> QED
    BY <1>d, <2>1, <2>2 DEF Punctual, Drained, Running
<1>9. CASE Fail
  <2>1. phase' = "bailed" /\ UNCHANGED <<sent, mark, hedged>>
    BY <1>9 DEF Fail
  <2> QED
    BY <1>d, <2>1 DEF Punctual, Drained, Running
<1>10. ASSUME UNCHANGED <<now, phase, sent, t0, mark, seen, hedged>>
       PROVE  Punctual'
  BY <1>d, <1>10 DEF Punctual, Drained, Running, Slack
<1>11. CASE (\E put \in Trial \X {1, 2} : Arrive(put)) \/ UNCHANGED vars
  BY <1>10, <1>11 DEF Arrive, vars
<1> QED
  BY <1>1, <1>2, <1>3, <1>4, <1>5, <1>6, <1>7, <1>8, <1>9, <1>11
  DEF Next, Pass

(* A re-put starts at its own T, but for one read-back, one send and the    *)
(* re-puts before it, for any number of trials and any lag.                 *)
THEOREM HedgesKeepTimeHolds == Spec => []HedgesKeepTime
<1>1. Init => Punctual
  BY DEF Init, Punctual, Firing, Conditioned, Waiting, Drained, Sent
<1>2. LoopInv /\ Punctual => HedgesKeepTime
  <2> SUFFICES ASSUME LoopInv, Punctual, phase = "reput", NEW i \in Firing
               PROVE  now < t0[i] + T + ProbeTime + Lag * (1 + Cardinality(hedged))
    BY DEF HedgesKeepTime
  <2> DEFINE c == Cardinality(hedged)
  <2>1. i \in Trial /\ TypeOK
    BY SentTrials DEF LoopInv, Firing, Conditioned
  <2>2. now < t0[i] + T + (ProbeTime + Lag) + Spent
    BY DEF Punctual, Waiting, Slack, Running
  <2>3. t0[i] \in Nat /\ now \in Nat /\ c \in Nat
    BY <2>1, SpentFacts DEF TypeOK
  <2>4. Spent = Lag * c
    BY DEF Spent
  <2> HIDE DEF c
  <2>5. Lag * (1 + c) = Lag + Lag * c /\ Lag * c \in Nat
    BY <2>3, MintedAssumption
  <2>6. now < t0[i] + T + ProbeTime + Lag * (1 + c)
    BY <2>2, <2>3, <2>4, <2>5, MintedAssumption
  <2> QED
    BY <2>6 DEF c
<1> QED
  BY <1>1, <1>2, PunctualInductive, TypeCorrect, PTL DEF Spec
=============================================================================
