------------------------ MODULE DelegateRoundsProofs ------------------------
(* Proofs about DelegateRounds, for every number of rounds.                 *)
EXTENDS DelegateRounds, FiniteSetTheorems, TLAPS

-----------------------------------------------------------------------------
(* The puts of one round, as the delegate hands them to the host.           *)
Of(k) == {p \in Put : p[1] = k}

(* Round k asks for k puts.                                                 *)
LEMMA RoundHasK ==
  ASSUME NEW k \in 0 .. MaxK
  PROVE  IsFiniteSet(Of(k)) /\ Cardinality(Of(k)) = k
<1> USE RoundsAssumption
<1> DEFINE f == [i \in 1 .. k |-> <<k, i>>]
<1>1. Of(k) = {<<k, i>> : i \in 1 .. k}
  BY DEF Of, Put, Round
<1>2. f \in Bijection(1 .. k, Of(k))
  BY <1>1 DEF Bijection, Injection, Surjection, IsInjective
<1>3. k \in Nat /\ IsFiniteSet(1 .. k) /\ Cardinality(1 .. k) = k
  BY FS_Interval
<1> QED
  BY <1>2, <1>3, FS_Bijection DEF ExistsBijection

(* What is counted once in each of two sets is counted twice in neither.    *)
LEMMA DisjointUnion ==
  ASSUME NEW S, NEW T, IsFiniteSet(S), IsFiniteSet(T), S \cap T = {}
  PROVE  Cardinality(S \cup T) = Cardinality(S) + Cardinality(T)
<1>1. Cardinality(S) \in Nat /\ Cardinality(T) \in Nat /\ Cardinality({}) = 0
  BY FS_CardinalityType, FS_EmptySet
<1>2. Cardinality(S \cup T) = Cardinality(S) + Cardinality(T) - Cardinality(S \cap T)
  BY FS_Union
<1>3. Cardinality(S \cap T) = 0
  BY <1>1, Zenon
<1> QED
  BY <1>1, <1>2, <1>3

(* There are finitely many puts.                                           *)
LEMMA PutFinite == IsFiniteSet(Put)
<1>1. IsFiniteSet(Round)
  BY RoundsAssumption, FS_Interval DEF Round
<1>2. IsFiniteSet(Round \X Round)
  BY <1>1, FS_Product
<1> QED
  BY <1>2, FS_Subset DEF Put

-----------------------------------------------------------------------------
(* The inductive invariant.                                                 *)

(* A `putk` is processed at most once: its round has no put on its way, and *)
(* none counted, before that.                                               *)
OncePerRound ==
  /\ \A k \in inbox : k <= round
  /\ \A p \in counted \cup pending : p[1] \notin inbox /\ p[1] <= round
  /\ phase = "send" => /\ round \notin inbox
                       /\ \A p \in counted \cup pending : p[1] # round

(* What is counted and what is awaited are, without overlap, the puts of    *)
(* the round the tally names and the ones inherited from earlier rounds.    *)
Accounted ==
  /\ counted \cup pending = Of(tally.asked) \cup inherited
  /\ counted \cap pending = {}
  /\ Of(tally.asked) \cap inherited = {}
  /\ tally.ok + tally.err = Cardinality(counted)

(* On a node that settles, a round leaves nothing behind for the next.      *)
SettledRounds ==
  settles =>
    /\ phase = "send" => inbox = {} /\ pending = {}
    /\ phase \in {"listen", "poll"} =>
         \/ inbox = {round} /\ pending = {}
         \/ inbox = {} /\ tally.asked = round /\ inherited = {}

RoundsInv == TypeOK /\ OncePerRound /\ Accounted

(* The rounds begin well formed.                                           *)
LEMMA RoundsInit == Init => RoundsInv
<1> SUFFICES ASSUME Init PROVE RoundsInv
  OBVIOUS
<1>1. TypeOK
  BY RoundsAssumption DEF Init, TypeOK, None, Row
<1>2. OncePerRound
  BY DEF Init, OncePerRound
<1>3. Accounted
  <2>1. Of(0) = {}
    BY RoundsAssumption DEF Of, Put, Round
  <2> QED
    BY <2>1, FS_EmptySet DEF Init, Accounted, None
<1> QED
  BY <1>1, <1>2, <1>3 DEF RoundsInv

(* A reset: the puts of round k join what is awaited, and what was awaited  *)
(* is inherited.                                                            *)
LEMMA PutkKeeps ==
  ASSUME RoundsInv, NEW k \in Round, ProcessPutk(k)
  PROVE  RoundsInv'
<1> USE RoundsAssumption
<1>0. TypeOK /\ OncePerRound /\ Accounted
  BY DEF RoundsInv
<1>1. /\ k \in inbox /\ inbox' = inbox \ {k}
      /\ tally' = [asked |-> k, ok |-> 0, err |-> 0]
      /\ pending' = pending \cup Of(k)
      /\ counted' = {} /\ inherited' = pending
      /\ UNCHANGED <<settles, round, phase, reports>>
  BY DEF ProcessPutk, harness, Of
<1>2. Of(k) \subseteq Put /\ \A p \in Of(k) : p[1] = k
  BY DEF Of
<1>3. TypeOK'
  BY <1>0, <1>1, <1>2 DEF TypeOK, Row, Round
<1>4. OncePerRound'
  BY <1>0, <1>1, <1>2 DEF OncePerRound
<1>5. Accounted'
  <2>1. Of(k) \cap pending = {}
    BY <1>0, <1>1, <1>2 DEF OncePerRound
  <2>2. tally'.asked = k /\ tally'.ok = 0 /\ tally'.err = 0
    BY <1>1
  <2>3. Of(tally.asked)' = Of(k)
    BY <2>2 DEF Of
  <2> QED
    BY <1>1, <2>1, <2>2, <2>3, FS_EmptySet DEF Accounted
<1> QED
  BY <1>3, <1>4, <1>5 DEF RoundsInv

(* An answer: one put moves from what is awaited to what is counted.        *)
LEMMA ResponseKeeps ==
  ASSUME RoundsInv, NEW p \in Put, NEW field \in {"ok", "err"},
         ProcessPutResponse(p, field)
  PROVE  RoundsInv'
<1> USE RoundsAssumption
<1>0. TypeOK /\ OncePerRound /\ Accounted
  BY DEF RoundsInv
<1>1. /\ p \in pending /\ pending' = pending \ {p}
      /\ counted' = counted \cup {p} /\ inherited' = inherited
      /\ UNCHANGED <<settles, round, phase, reports, inbox>>
  BY DEF ProcessPutResponse, harness
<1>2. /\ tally' \in Row /\ tally'.asked = tally.asked
      /\ tally'.ok + tally'.err = tally.ok + tally.err + 1
  <2>1. tally' = [tally EXCEPT ![field] = @ + 1]
    BY DEF ProcessPutResponse, bump
  <2>2. tally \in Row
    BY <1>0 DEF TypeOK
  <2>3. CASE field = "ok"
    BY <2>1, <2>2, <2>3 DEF Row
  <2>4. CASE field = "err"
    BY <2>1, <2>2, <2>4 DEF Row
  <2> QED
    BY <2>3, <2>4
<1>3. TypeOK'
  BY <1>0, <1>1, <1>2 DEF TypeOK
<1>4. OncePerRound'
  BY <1>0, <1>1 DEF OncePerRound
<1>5. Accounted'
  <2>1. p \notin counted
    BY <1>0, <1>1 DEF Accounted
  <2>2. IsFiniteSet(counted)
    BY <1>0, PutFinite, FS_Subset DEF TypeOK
  <2>3. Cardinality(counted \cup {p}) = Cardinality(counted) + 1
    BY <2>1, <2>2, FS_AddElement
  <2>4. Of(tally.asked)' = Of(tally.asked)
    BY <1>2 DEF Of
  <2> QED
    BY <1>0, <1>1, <1>2, <2>1, <2>3, <2>4 DEF Accounted
<1> QED
  BY <1>3, <1>4, <1>5 DEF RoundsInv

(* A row is reported: the next round begins, and nothing was sent for it.   *)
LEMMA ReportKeeps ==
  ASSUME RoundsInv, NEW row \in Row, Report(row), phase = "poll"
  PROVE  TypeOK' /\ OncePerRound'
<1> USE RoundsAssumption
<1>0. TypeOK /\ OncePerRound
  BY DEF RoundsInv
<1>1. reports' \in Seq(Row) /\ Len(reports') = round
  BY <1>0 DEF Report, TypeOK
<1>2. TypeOK'
  BY <1>0, <1>1 DEF Report, TypeOK, delegate, Round
<1>3. OncePerRound'
  BY <1>0 DEF Report, TypeOK, OncePerRound, delegate, Put, Round
<1> QED
  BY <1>2, <1>3

(* Every step of harness and delegate keeps the rounds in order.           *)
LEMMA RoundsInductive == RoundsInv /\ [Next]_vars => RoundsInv'
<1> SUFFICES ASSUME RoundsInv, [Next]_vars
             PROVE  RoundsInv'
  OBVIOUS
<1> USE RoundsAssumption
<1>0. TypeOK /\ OncePerRound /\ Accounted
  BY DEF RoundsInv
<1>1. ASSUME UNCHANGED delegate PROVE Accounted'
  BY <1>0, <1>1 DEF Accounted, delegate, Of
<1>2. CASE SendPutk
  BY <1>0, <1>1, <1>2
  DEF SendPutk, TypeOK, Row, OncePerRound, delegate, RoundsInv, Round
<1>3. CASE StopListening
  BY <1>0, <1>1, <1>3
  DEF StopListening, TypeOK, Row, OncePerRound, delegate, RoundsInv
<1>4. tally \in Row /\ None \in Row
  BY <1>0 DEF TypeOK, None, Row
<1>5. CASE PollDone
  BY <1>1, <1>4, <1>5, ReportKeeps DEF PollDone, Report, RoundsInv
<1>6. CASE PollExpired
  BY <1>1, <1>4, <1>6, ReportKeeps DEF PollExpired, Report, RoundsInv
<1>7. CASE ConnectionError
  BY <1>0, <1>1, <1>7
  DEF ConnectionError, TypeOK, Row, OncePerRound, delegate, RoundsInv
<1>8. CASE Delegate
  BY <1>8, PutkKeeps, ResponseKeeps DEF Delegate
<1>9. CASE UNCHANGED vars
  BY <1>0, <1>1, <1>9 DEF vars, delegate, TypeOK, OncePerRound, RoundsInv
<1> QED
  BY <1>2, <1>3, <1>5, <1>6, <1>7, <1>8, <1>9 DEF Next, Harness

(* The rounds, the delegate's tally and the rows are well formed.           *)
THEOREM TypeCorrect == Spec => []RoundsInv
<1> QED
  BY RoundsInit, RoundsInductive, PTL DEF Spec

-----------------------------------------------------------------------------
(* The cardinalities behind both properties of the tally.                   *)
LEMMA TallyFacts ==
  ASSUME RoundsInv
  PROVE  /\ IsFiniteSet(counted) /\ IsFiniteSet(pending) /\ IsFiniteSet(inherited)
         /\ IsFiniteSet(Of(tally.asked)) /\ Cardinality(Of(tally.asked)) = tally.asked
         /\ Cardinality(counted) \in Nat /\ Cardinality(pending) \in Nat
         /\ Cardinality(inherited) \in Nat
<1>1. TypeOK
  BY DEF RoundsInv
<1>2. IsFiniteSet(counted) /\ IsFiniteSet(pending) /\ IsFiniteSet(inherited)
  BY <1>1, PutFinite, FS_Subset DEF TypeOK
<1>3. tally.asked \in 0 .. MaxK
  BY <1>1 DEF TypeOK, Row
<1> QED
  BY <1>2, <1>3, RoundHasK, FS_CardinalityType

(* No answer is lost and none counted twice across the delegate's reset,    *)
(* however the answers, the `putk`s and the give-ups are ordered.           *)
THEOREM TallyConservedHolds == Spec => []TallyConserved
<1>1. RoundsInv => TallyConserved
  <2> SUFFICES ASSUME RoundsInv PROVE TallyConserved
    OBVIOUS
  <2>1. Accounted
    BY DEF RoundsInv
  <2>2. Cardinality(counted \cup pending) = Cardinality(counted) + Cardinality(pending)
    BY <2>1, TallyFacts, DisjointUnion, Zenon DEF Accounted
  <2>3. Cardinality(Of(tally.asked) \cup inherited)
          = Cardinality(Of(tally.asked)) + Cardinality(inherited)
    BY <2>1, TallyFacts, DisjointUnion, Zenon DEF Accounted
  <2> QED
    BY <2>1, <2>2, <2>3, TallyFacts DEF Accounted, TallyConserved
<1> QED
  BY <1>1, TypeCorrect, PTL

(* A row exceeds what its round asked for only by answers that earlier      *)
(* rounds had given up on: what is counted then cannot all be the round's.  *)
THEOREM ExcessIsInheritedHolds == Spec => []ExcessIsInherited
<1>1. RoundsInv => ExcessIsInherited
  <2> SUFFICES ASSUME RoundsInv, tally.ok + tally.err > tally.asked,
                      counted \cap inherited = {}
               PROVE  FALSE
    BY DEF ExcessIsInherited
  <2>1. counted \subseteq Of(tally.asked)
    BY DEF RoundsInv, Accounted
  <2>2. Cardinality(counted) <= tally.asked
    BY <2>1, TallyFacts, FS_Subset
  <2>3. Cardinality(counted) = tally.ok + tally.err
    BY DEF RoundsInv, Accounted
  <2>4. tally.asked \in Nat
    BY DEF RoundsInv, TypeOK, Row
  <2> QED
    BY <2>2, <2>3, <2>4, TallyFacts
<1> QED
  BY <1>1, TypeCorrect, PTL

-----------------------------------------------------------------------------
(* On a node that settles, a complete tally of a round that inherited       *)
(* nothing leaves nothing to arrive.                                        *)
LEMMA CompleteIsSettled ==
  ASSUME RoundsInv, Complete(tally), inherited = {}
  PROVE  pending = {}
<1>1. counted \subseteq Of(tally.asked) /\ counted \cup pending = Of(tally.asked)
      /\ counted \cap pending = {}
  BY DEF RoundsInv, Accounted
<1>2. Cardinality(counted) = Cardinality(Of(tally.asked))
  BY TallyFacts DEF RoundsInv, Accounted, Complete
<1>3. counted = Of(tally.asked)
  BY <1>1, <1>2, TallyFacts, FS_Subset
<1> QED
  BY <1>1, <1>3

(* The converse: with nothing inherited and nothing awaited, the tally has  *)
(* as many answers as the round asked for.                                  *)
LEMMA SettledIsComplete ==
  ASSUME RoundsInv, pending = {}, inherited = {}
  PROVE  tally.ok + tally.err = tally.asked
<1>1. counted = Of(tally.asked)
  BY DEF RoundsInv, Accounted
<1> QED
  BY <1>1, TallyFacts DEF RoundsInv, Accounted

(* On a node that settles, no round leaves an answer to the next.          *)
LEMMA SettledInductive ==
  RoundsInv /\ SettledRounds /\ RowsExact /\ [Next]_vars
    => SettledRounds' /\ RowsExact'
<1> SUFFICES ASSUME RoundsInv, SettledRounds, RowsExact, [Next]_vars, settles
             PROVE  SettledRounds' /\ RowsExact'
  BY DEF Next, Harness, Delegate, SendPutk, StopListening, PollDone, PollExpired,
    Report, ConnectionError, ProcessPutk, ProcessPutResponse, harness, vars,
    SettledRounds, RowsExact
<1>0. TypeOK /\ OncePerRound /\ Accounted
  BY DEF RoundsInv
<1>1. CASE UNCHANGED <<settles, reports>>
  <2>1. RowsExact'
    BY <1>1 DEF RowsExact
  <2>2. CASE SendPutk
    BY <1>0, <2>1, <2>2 DEF SendPutk, SettledRounds, delegate, TypeOK
  <2>3. CASE StopListening
    BY <1>0, <2>1, <2>3 DEF StopListening, SettledRounds, delegate, TypeOK
  <2>4. CASE ConnectionError
    BY <1>0, <2>1, <2>4 DEF ConnectionError, SettledRounds, TypeOK
  <2>5. ASSUME NEW k \in Round, ProcessPutk(k)
        PROVE  SettledRounds'
    BY <1>0, <2>5 DEF ProcessPutk, harness, SettledRounds, TypeOK
  <2>6. ASSUME NEW p \in Put, NEW field \in {"ok", "err"}, ProcessPutResponse(p, field)
        PROVE  SettledRounds'
    <3>1. tally'.asked = tally.asked
      BY <1>0, <2>6 DEF ProcessPutResponse, bump, TypeOK, Row
    <3> QED
      BY <1>0, <2>6, <3>1 DEF ProcessPutResponse, harness, SettledRounds
  <2>7. CASE UNCHANGED vars
    BY <1>0, <2>1, <2>7 DEF vars, SettledRounds, TypeOK
  <2>8. ~PollDone /\ ~PollExpired
    BY <1>0, <1>1 DEF PollDone, PollExpired, Report, TypeOK
  <2> QED
    BY <2>1, <2>2, <2>3, <2>4, <2>5, <2>6, <2>7, <2>8 DEF Next, Harness, Delegate
<1>2. CASE PollDone \/ PollExpired
  <2>1. Report(tally) /\ phase = "poll"
    BY <1>2 DEF PollDone, PollExpired
  <2>2. inbox = {} /\ tally.asked = round /\ inherited = {}
    <3>1. CASE PollDone
      <4>1. tally.asked = round /\ round \in Round
        BY <1>0, <3>1 DEF PollDone, Complete, TypeOK
      <4>2. <<round, 1>> \in Of(tally.asked) /\ <<round, 1>>[1] = round
        BY <4>1, RoundsAssumption DEF Of, Put, Round
      <4>3. round \notin inbox
        BY <1>0, <4>2 DEF Accounted, OncePerRound
      <4> QED
        BY <4>3, <2>1 DEF SettledRounds
    <3>2. CASE PollExpired
      BY <3>2, <2>1 DEF PollExpired, SettledRounds
    <3> QED
      BY <1>2, <3>1, <3>2
  <2>3. pending = {} /\ tally.ok + tally.err = round
    BY <1>2, <2>2, CompleteIsSettled, SettledIsComplete DEF PollDone, PollExpired, Complete
  <2>4. SettledRounds'
    BY <2>1, <2>2, <2>3 DEF Report, SettledRounds, delegate
  <2>5. /\ Len(reports') = Len(reports) + 1 /\ reports'[Len(reports) + 1] = tally
        /\ \A k \in 1 .. Len(reports) : reports'[k] = reports[k]
        /\ Len(reports) + 1 = round /\ Len(reports) \in Nat
    BY <1>0, <2>1 DEF Report, TypeOK
  <2>6. RowsExact'
    BY <2>1, <2>2, <2>3, <2>5 DEF Report, RowsExact
  <2> QED
    BY <2>4, <2>6
<1> QED
  BY <1>1, <1>2 DEF Next, Harness, Delegate, SendPutk, StopListening,
    ConnectionError, ProcessPutk, ProcessPutResponse, harness, vars

(* On a node that settles every row is its own round's, whenever the polls  *)
(* look: a poll that finds a complete tally leaves nothing for the next.    *)
THEOREM RowsExactHolds == Spec => []RowsExact
<1>1. Init => SettledRounds /\ RowsExact
  BY DEF Init, SettledRounds, RowsExact
<1> QED
  BY <1>1, SettledInductive, TypeCorrect, PTL DEF Spec
=============================================================================
