-------------------------- MODULE TimedSeriesProofs --------------------------
(* Proofs about TimedSeries, for every number of series and of puts in one. *)
EXTENDS TimedSeries, FiniteSetTheorems, TLAPS

Row == [op : {"put", "get"}, key : Key, verdict : Verdict]

(* Nothing that is timed is Idle.                                           *)
LEMMA IdleIsNoRequest == Idle \notin Request
BY DEF Idle, Request

-----------------------------------------------------------------------------
(* The inductive invariant.                                                 *)

(* A request is sampled at most once, and not before its wait has ended.    *)
Once ==
  /\ \A m, n \in 1 .. Len(samples) : Asked(samples[m]) = Asked(samples[n]) => m = n
  /\ waiting \notin Sampled

(* The puts of a series are asked for in the order of their keys.           *)
PutsInOrder ==
  /\ \A n \in 1 .. Len(samples) :
       /\ samples[n].key[1] <= series
       /\ n \in Sample("put", series) => samples[n].key[2] <= Taken("put")
  /\ waiting # Idle => phase \in {"put", "get"} /\ waiting.op = phase
  /\ waiting.op = "put" => waiting.key = <<series, Taken("put") + 1>>

(* What is held is what this series put and saw acknowledged; the gets go   *)
(* through it in order.                                                     *)
GetsInOrder ==
  phase \in {"put", "get"} =>
    /\ IsInjective(held)
    /\ \A i \in 1 .. Len(held) :
         /\ held[i][1] = series
         /\ [op |-> "put", key |-> held[i], verdict |-> "ms"]
              \in {samples[n] : n \in 1 .. Len(samples)}
    /\ \A n \in Sample("get", series) :
         \E i \in 1 .. Len(held) : i <= Taken("get") /\ samples[n].key = held[i]
    /\ waiting.op = "get" =>
         Taken("get") < Len(held) /\ waiting.key = held[Taken("get") + 1]

SeriesInv == TypeOK /\ Once /\ PutsInOrder /\ GetsInOrder

-----------------------------------------------------------------------------
(* The number of samples taken is a number.                                 *)
LEMMA TakenNat ==
  ASSUME TypeOK, NEW op
  PROVE  /\ IsFiniteSet(Sample(op, series)) /\ Taken(op) \in Nat
         /\ Len(samples) \in Nat /\ Sample(op, series) \subseteq 1 .. Len(samples)
         /\ (Taken(op) = 0 <=> Sample(op, series) = {})
<1>1. Len(samples) \in Nat
  BY DEF TypeOK
<1>2. IsFiniteSet(1 .. Len(samples)) /\ Sample(op, series) \subseteq 1 .. Len(samples)
  BY <1>1, FS_Interval DEF Sample
<1>3. IsFiniteSet(Sample(op, series))
  BY <1>2, FS_Subset
<1> QED
  BY <1>1, <1>2, <1>3, FS_CardinalityType, FS_EmptySet DEF Taken

(* Every sample is a row.                                                   *)
LEMMA RowsTyped ==
  ASSUME TypeOK
  PROVE  samples \in Seq(Row) /\ \A n \in 1 .. Len(samples) : samples[n] \in Row
<1>1. samples \in Seq(Row)
  BY DEF TypeOK, Row
<1> QED
  BY <1>1

(* What the end of a wait does to the samples.                              *)
LEMMA JudgeEffect ==
  ASSUME SeriesInv, waiting \in Request, NEW v \in Verdict, Judge(v),
         UNCHANGED <<series, phase>>
  PROVE  LET row == [op |-> waiting.op, key |-> waiting.key, verdict |-> v] IN
         /\ row \in Row /\ Asked(row) = waiting
         /\ samples' \in Seq(Row) /\ Len(samples') = Len(samples) + 1
         /\ \A n \in 1 .. Len(samples) : samples'[n] = samples[n]
         /\ samples'[Len(samples) + 1] = row
         /\ Sampled' = Sampled \cup {waiting}
         /\ waiting' = Idle /\ AskedFor' = AskedFor
<1> DEFINE row == [op |-> waiting.op, key |-> waiting.key, verdict |-> v]
<1>1. row \in Row /\ Asked(row) = waiting
  BY DEF Request, Row, Asked
<1>2. samples \in Seq(Row) /\ Len(samples) \in Nat
  BY DEF SeriesInv, TypeOK, Row
<1>3. samples' = Append(samples, row) /\ waiting' = Idle
  BY DEF Judge
<1> HIDE DEF row
<1>4. /\ samples' \in Seq(Row) /\ Len(samples') = Len(samples) + 1
      /\ \A n \in 1 .. Len(samples) : samples'[n] = samples[n]
      /\ samples'[Len(samples) + 1] = row
  BY <1>1, <1>2, <1>3
<1>5. Sampled' = Sampled \cup {waiting}
  <2>1. 1 .. Len(samples') = 1 .. Len(samples) \cup {Len(samples) + 1}
    BY <1>2, <1>4
  <2>2. Asked(samples'[Len(samples) + 1]) = waiting
    BY <1>1, <1>4
  <2>3. \A n \in 1 .. Len(samples) : Asked(samples'[n]) = Asked(samples[n])
    BY <1>4
  <2>4. /\ Sampled' = {Asked(samples'[n]) : n \in 1 .. Len(samples')}
        /\ Sampled = {Asked(samples[n]) : n \in 1 .. Len(samples)}
    BY DEF Sampled
  <2>5. ASSUME NEW q PROVE q \in Sampled' <=> q \in Sampled \/ q = waiting
    <3>1. q \in Sampled' <=>
            \/ \E n \in 1 .. Len(samples) : q = Asked(samples'[n])
            \/ q = Asked(samples'[Len(samples) + 1])
      BY <2>1, <2>4, Zenon
    <3>2. (\E n \in 1 .. Len(samples) : q = Asked(samples'[n]))
            <=> (\E n \in 1 .. Len(samples) : q = Asked(samples[n]))
      BY <2>3, Zenon
    <3> QED
      BY <2>2, <2>4, <3>1, <3>2, Zenon
  <2> QED
    BY <2>5, Zenon
<1>6. AskedFor' = AskedFor
  BY <1>3, <1>5, IdleIsNoRequest DEF AskedFor
<1> QED
  BY <1>1, <1>3, <1>4, <1>5, <1>6 DEF row

(* The samples of a kind and series, after the wait.                        *)
LEMMA JudgeSamples ==
  ASSUME SeriesInv, waiting \in Request, NEW v \in Verdict, Judge(v),
         UNCHANGED <<series, phase>>, waiting.key[1] = series, NEW op
  PROVE  /\ Sample(op, series)' = IF op = waiting.op
                                  THEN Sample(op, series) \cup {Len(samples) + 1}
                                  ELSE Sample(op, series)
         /\ Taken(op)' = IF op = waiting.op THEN Taken(op) + 1 ELSE Taken(op)
<1> DEFINE row == [op |-> waiting.op, key |-> waiting.key, verdict |-> v]
<1>1. /\ Len(samples') = Len(samples) + 1 /\ samples'[Len(samples) + 1] = row
      /\ \A n \in 1 .. Len(samples) : samples'[n] = samples[n]
      /\ row.op = waiting.op /\ row.key[1] = series
  BY JudgeEffect
<1>2. /\ Len(samples) \in Nat /\ IsFiniteSet(Sample(op, series))
      /\ Len(samples) + 1 \notin Sample(op, series) /\ Taken(op) \in Nat
  BY TakenNat DEF SeriesInv
<1>3. Sample(op, series)' = {n \in 1 .. Len(samples) + 1 :
                               samples'[n].op = op /\ samples'[n].key[1] = series}
  BY <1>1 DEF Sample
<1> HIDE DEF row
<1>4. Sample(op, series)' = IF op = waiting.op
                            THEN Sample(op, series) \cup {Len(samples) + 1}
                            ELSE Sample(op, series)
  BY <1>1, <1>2, <1>3 DEF Sample
<1>5. Taken(op)' = Cardinality(Sample(op, series)')
  BY DEF Taken
<1> QED
  BY <1>2, <1>4, <1>5, FS_AddElement DEF Taken

-----------------------------------------------------------------------------
(* The request being timed is of the running series, and of its phase.      *)
LEMMA WaitingFacts ==
  ASSUME SeriesInv, waiting \in Request
  PROVE  /\ phase \in {"put", "get"} /\ waiting.op = phase
         /\ waiting.key \in Key /\ waiting.key[1] = series
         /\ waiting # Idle
<1>1. waiting # Idle /\ waiting.op \in {"put", "get"} /\ waiting.key \in Key
  BY IdleIsNoRequest DEF Request
<1>2. phase \in {"put", "get"} /\ waiting.op = phase
  BY <1>1 DEF SeriesInv, PutsInOrder
<1>3. CASE waiting.op = "put"
  BY <1>1, <1>2, <1>3 DEF SeriesInv, PutsInOrder
<1>4. CASE waiting.op = "get"
  <2>1. Taken("get") < Len(held) /\ waiting.key = held[Taken("get") + 1]
    BY <1>2, <1>4 DEF SeriesInv, GetsInOrder
  <2>2. Taken("get") + 1 \in 1 .. Len(held)
    BY <2>1, TakenNat DEF SeriesInv, TypeOK
  <2> QED
    BY <1>1, <1>2, <2>1, <2>2 DEF SeriesInv, GetsInOrder
<1> QED
  BY <1>1, <1>2, <1>3, <1>4

(* The end of a wait keeps each part of the invariant.                      *)
LEMMA JudgeKeeps ==
  ASSUME SeriesInv, waiting \in Request, NEW v \in Verdict, Judge(v),
         UNCHANGED <<series, phase>>
  PROVE  /\ samples' \in Seq(Row) /\ held' \in Seq(Key)
         /\ Once' /\ PutsInOrder' /\ GetsInOrder'
<1> DEFINE row == [op |-> waiting.op, key |-> waiting.key, verdict |-> v]
           last == Len(samples) + 1
<1>0. TypeOK /\ Once /\ PutsInOrder /\ GetsInOrder
  BY DEF SeriesInv
<1>1. /\ row \in Row /\ Asked(row) = waiting
      /\ samples' \in Seq(Row) /\ Len(samples') = last
      /\ \A n \in 1 .. Len(samples) : samples'[n] = samples[n]
      /\ samples'[last] = row
      /\ Sampled' = Sampled \cup {waiting} /\ waiting' = Idle
  BY JudgeEffect
<1>2. /\ phase \in {"put", "get"} /\ waiting.op = phase
      /\ waiting.key \in Key /\ waiting.key[1] = series
      /\ row.op = waiting.op /\ row.key = waiting.key /\ row.verdict = v
  BY WaitingFacts
<1>3. /\ \A op : Sample(op, series)' = IF op = waiting.op
                                  THEN Sample(op, series) \cup {last}
                                  ELSE Sample(op, series)
      /\ \A op : Taken(op)' = IF op = waiting.op THEN Taken(op) + 1 ELSE Taken(op)
  BY <1>2, JudgeSamples
<1>4. Len(samples) \in Nat /\ (\A op : Taken(op) \in Nat)
      /\ (\A op : Sample(op, series) \subseteq 1 .. Len(samples))
  BY <1>0, TakenNat
<1>5. \A n \in 1 .. Len(samples') : n \in 1 .. Len(samples) \/ n = last
  BY <1>1, <1>4
<1>5a. \A n \in 1 .. Len(samples) : samples[n] \in Row
  BY <1>0, RowsTyped
<1> HIDE DEF row, last
<1>6. Once'
  <2>1. \A n \in 1 .. Len(samples) : Asked(samples[n]) # waiting
    BY <1>0 DEF Once, Sampled
  <2>2. ASSUME NEW m \in 1 .. Len(samples'), NEW n \in 1 .. Len(samples'),
               Asked(samples'[m]) = Asked(samples'[n])
        PROVE  m = n
    BY <1>0, <1>1, <1>5, <2>1, <2>2, Zenon DEF Once
  <2>3. Sampled \subseteq Request
    BY <1>5a DEF Row, Sampled, Asked, Request
  <2> QED
    BY <1>1, <2>2, <2>3, IdleIsNoRequest DEF Once
<1>7. PutsInOrder'
  <2>1. ASSUME NEW n \in 1 .. Len(samples')
        PROVE  /\ samples'[n].key[1] <= series'
               /\ n \in Sample("put", series)' => samples'[n].key[2] <= Taken("put")'
    <3>1. CASE n \in 1 .. Len(samples)
      <4>1. samples'[n] = samples[n] /\ series' = series /\ n # last
        BY <1>1, <1>4, <3>1 DEF last
      <4>2. samples[n] \in Row
        BY <1>5a, <3>1
      <4>3. samples[n].key[2] \in Nat
        BY <4>2 DEF Row, Key
      <4> QED
        BY <1>0, <1>3, <1>4, <3>1, <4>1, <4>3 DEF PutsInOrder
    <3>2. CASE n = last
      <4>1. samples'[n].key = waiting.key /\ waiting.key[1] <= series /\ series' = series
        BY <1>0, <1>1, <1>2, <3>2 DEF TypeOK
      <4>2. CASE waiting.op = "put"
        <5>1. waiting.key[2] = Taken("put") + 1
          BY <1>0, <4>2 DEF PutsInOrder
        <5> QED
          BY <1>3, <1>4, <4>1, <4>2, <5>1
      <4>3. CASE waiting.op # "put"
        <5>1. n \notin Sample("put", series)'
          BY <1>3, <1>4, <4>3, <3>2 DEF last
        <5> QED
          BY <4>1, <5>1
      <4> QED
        BY <4>2, <4>3
    <3> QED
      BY <1>5, <3>1, <3>2
  <2> QED
    BY <1>1, <2>1 DEF PutsInOrder, Idle
<1>8. held' \in Seq(Key)
  BY <1>0, <1>2 DEF Judge, TypeOK
<1>9. GetsInOrder'
  <2>1. /\ IsInjective(held)
        /\ \A i \in 1 .. Len(held) :
             /\ held[i][1] = series
             /\ [op |-> "put", key |-> held[i], verdict |-> "ms"]
                  \in {samples[n] : n \in 1 .. Len(samples)}
        /\ \A n \in Sample("get", series) :
             \E i \in 1 .. Len(held) : i <= Taken("get") /\ samples[n].key = held[i]
    BY <1>0, <1>2 DEF GetsInOrder
  <2>2. /\ Len(held) \in Nat /\ held \in Seq(Key) /\ series' = series
        /\ waiting' = Idle /\ Idle.op = "idle"
    BY <1>0, <1>1 DEF TypeOK, Idle
  <2>3. \A s \in {samples[n] : n \in 1 .. Len(samples)} :
          s \in {samples'[n] : n \in 1 .. Len(samples')}
    BY <1>1, <1>4 DEF last
  <2>4. row \in {samples'[n] : n \in 1 .. Len(samples')}
    BY <1>1, <1>4 DEF last
  <2>5. CASE waiting.op = "put" /\ v = "ms"
    <3>1. /\ held' = Append(held, waiting.key) /\ Len(held') = Len(held) + 1
          /\ \A i \in 1 .. Len(held) : held'[i] = held[i]
          /\ held'[Len(held) + 1] = waiting.key
          /\ held' \in Seq(Key)
      BY <1>2, <2>2, <2>5 DEF Judge
    <3>2. row = [op |-> "put", key |-> waiting.key, verdict |-> "ms"]
      BY <2>5 DEF row
    <3>3. \A i \in 1 .. Len(held) : held[i] # waiting.key
      <4> SUFFICES ASSUME NEW i \in 1 .. Len(held), held[i] = waiting.key
                   PROVE  FALSE
        OBVIOUS
      <4>1. row \in {samples[n] : n \in 1 .. Len(samples)}
        BY <2>1, <3>2
      <4>2. waiting \in Sampled
        BY <1>1, <4>1 DEF Sampled
      <4> QED
        BY <1>0, <4>2 DEF Once
    <3>4. IsInjective(held')
      <4> SUFFICES ASSUME NEW a \in 1 .. Len(held'), NEW b \in 1 .. Len(held'),
                          held'[a] = held'[b]
                   PROVE  a = b
        BY <3>1 DEF IsInjective
      <4>1. DOMAIN held = 1 .. Len(held)
        BY <2>2
      <4>2. (a \in 1 .. Len(held) \/ a = Len(held) + 1)
            /\ (b \in 1 .. Len(held) \/ b = Len(held) + 1)
        BY <3>1, <2>2
      <4> QED
        BY <2>1, <3>1, <3>3, <4>1, <4>2 DEF IsInjective
    <3>5. ASSUME NEW i \in 1 .. Len(held')
          PROVE  /\ held'[i][1] = series
                 /\ [op |-> "put", key |-> held'[i], verdict |-> "ms"]
                      \in {samples'[n] : n \in 1 .. Len(samples')}
      <4>1. CASE i \in 1 .. Len(held)
        BY <2>1, <2>3, <3>1, <4>1
      <4>2. CASE i = Len(held) + 1
        BY <1>2, <2>4, <3>1, <3>2, <4>2
      <4> QED
        BY <2>2, <3>1, <4>1, <4>2
    <3>6. ASSUME NEW n \in Sample("get", series)'
          PROVE  \E i \in 1 .. Len(held') : i <= Taken("get")' /\ samples'[n].key = held'[i]
      <4>1. n \in Sample("get", series) /\ Taken("get")' = Taken("get")
        BY <1>3, <2>5
      <4>2. PICK i \in 1 .. Len(held) : i <= Taken("get") /\ samples[n].key = held[i]
        BY <2>1, <4>1
      <4>3. samples'[n] = samples[n] /\ i \in 1 .. Len(held') /\ held'[i] = held[i]
        BY <1>1, <1>4, <2>2, <3>1, <4>1
      <4> QED
        BY <4>1, <4>2, <4>3
    <3> QED
      BY <2>2, <3>4, <3>5, <3>6 DEF GetsInOrder
  <2>6. CASE ~(waiting.op = "put" /\ v = "ms")
    <3>1. held' = held
      BY <2>6 DEF Judge
    <3>2. ASSUME NEW n \in Sample("get", series)'
          PROVE  \E i \in 1 .. Len(held') : i <= Taken("get")' /\ samples'[n].key = held'[i]
      <4>1. CASE n \in Sample("get", series)
        <5>1. PICK i \in 1 .. Len(held) : i <= Taken("get") /\ samples[n].key = held[i]
          BY <2>1, <4>1
        <5>2. samples'[n] = samples[n] /\ Taken("get")' \in {Taken("get"), Taken("get") + 1}
          BY <1>1, <1>3, <1>4, <4>1
        <5> QED
          BY <1>4, <2>2, <3>1, <5>1, <5>2
      <4>2. CASE n = last /\ waiting.op = "get"
        <5>1. Taken("get") < Len(held) /\ waiting.key = held[Taken("get") + 1]
          BY <1>0, <1>2, <4>2 DEF GetsInOrder
        <5>2. Taken("get")' = Taken("get") + 1 /\ samples'[n].key = waiting.key
          BY <1>1, <1>2, <1>3, <4>2
        <5> QED
          BY <1>4, <2>2, <3>1, <5>1, <5>2
      <4> QED
        BY <1>3, <4>1, <4>2
    <3>3. \A i \in 1 .. Len(held') :
            /\ held'[i][1] = series
            /\ [op |-> "put", key |-> held'[i], verdict |-> "ms"]
                 \in {samples'[n] : n \in 1 .. Len(samples')}
      BY <2>1, <2>3, <3>1
    <3> QED
      BY <2>1, <2>2, <3>1, <3>2, <3>3 DEF GetsInOrder
  <2> QED
    BY <2>5, <2>6
<1> QED
  BY <1>1, <1>6, <1>7, <1>8, <1>9

-----------------------------------------------------------------------------
(* Steps that take no sample.                                               *)

(* What is read off the samples stays when they and the series stay.        *)
LEMMA SameSamples ==
  ASSUME UNCHANGED <<series, samples>>
  PROVE  /\ \A op : Sample(op, series)' = Sample(op, series)
         /\ \A op : Taken(op)' = Taken(op)
         /\ Sampled' = Sampled
<1>1. Sampled' = Sampled
  BY DEF Sampled
<1>2. ASSUME NEW op
      PROVE  Sample(op, series)' = Sample(op, series) /\ Taken(op)' = Taken(op)
  BY DEF Sample, Taken
<1> QED
  BY <1>1, <1>2

(* A put that goes out asks for a key nothing asked for before.             *)
LEMMA PutIsFresh ==
  ASSUME SeriesInv, phase = "put", waiting = Idle, Taken("put") < N
  PROVE  LET r == [op |-> "put", key |-> <<series, Taken("put") + 1>>] IN
         r \in Request /\ r \notin AskedFor
<1> DEFINE r == [op |-> "put", key |-> <<series, Taken("put") + 1>>]
<1>1. Taken("put") \in Nat
  BY TakenNat DEF SeriesInv
<1>2. r \in Request
  BY <1>1, SeriesAssumption DEF SeriesInv, TypeOK, Request, Key
<1>3. r \notin Sampled
  <2> SUFFICES ASSUME NEW n \in 1 .. Len(samples), Asked(samples[n]) = r
               PROVE  FALSE
    BY DEF Sampled
  <2>1. /\ samples[n].op = "put" /\ samples[n].key[1] = series
        /\ samples[n].key[2] = Taken("put") + 1
    BY DEF Asked
  <2>2. n \in Sample("put", series)
    BY <2>1 DEF Sample
  <2>3. samples[n].key[2] <= Taken("put")
    BY <2>2 DEF SeriesInv, PutsInOrder
  <2> QED
    BY <1>1, <2>1, <2>3
<1> QED
  BY <1>2, <1>3 DEF AskedFor

(* So does a get: the keys held are distinct and gone through in order.     *)
LEMMA GetIsFresh ==
  ASSUME SeriesInv, phase = "get", waiting = Idle, Taken("get") < Len(held)
  PROVE  LET r == [op |-> "get", key |-> held[Taken("get") + 1]] IN
         /\ r \in Request /\ r \notin AskedFor
         /\ [op |-> "put", key |-> r.key, verdict |-> "ms"]
              \in {samples[n] : n \in 1 .. Len(samples)}
<1> DEFINE r == [op |-> "get", key |-> held[Taken("get") + 1]]
<1>1. /\ Taken("get") \in Nat /\ Len(held) \in Nat
      /\ held \in Seq(Key) /\ DOMAIN held = 1 .. Len(held)
  BY TakenNat DEF SeriesInv, TypeOK
<1>2. Taken("get") + 1 \in 1 .. Len(held)
  BY <1>1
<1>3. r \in Request
  BY <1>1, <1>2 DEF Request
<1>4. /\ IsInjective(held) /\ held[Taken("get") + 1][1] = series
      /\ [op |-> "put", key |-> r.key, verdict |-> "ms"]
           \in {samples[n] : n \in 1 .. Len(samples)}
  BY <1>2 DEF SeriesInv, GetsInOrder
<1>5. r \notin Sampled
  <2> SUFFICES ASSUME NEW n \in 1 .. Len(samples), Asked(samples[n]) = r
               PROVE  FALSE
    BY DEF Sampled
  <2>1. /\ samples[n].op = "get" /\ samples[n].key[1] = series
        /\ samples[n].key = held[Taken("get") + 1]
    BY <1>4 DEF Asked
  <2>2. n \in Sample("get", series)
    BY <2>1 DEF Sample
  <2>3. PICK i \in 1 .. Len(held) : i <= Taken("get") /\ samples[n].key = held[i]
    BY <2>2 DEF SeriesInv, GetsInOrder
  <2>4. i = Taken("get") + 1
    BY <1>1, <1>2, <1>4, <2>1, <2>3 DEF IsInjective
  <2> QED
    BY <1>1, <2>3, <2>4
<1> QED
  BY <1>3, <1>4, <1>5 DEF AskedFor

(* A request that goes out is a fresh one.                                  *)
LEMMA StartKeeps ==
  ASSUME SeriesInv, StartPut \/ StartGet
  PROVE  /\ waiting = Idle /\ ~over /\ waiting' \in Request /\ waiting' \notin AskedFor
         /\ Start(waiting')
         /\ SeriesInv'
         /\ waiting'.op = "get" =>
              [op |-> "put", key |-> waiting'.key, verdict |-> "ms"]
                 \in {samples[n] : n \in 1 .. Len(samples)}
<1>0. TypeOK /\ Once /\ PutsInOrder /\ GetsInOrder
  BY DEF SeriesInv
<1>1. /\ waiting = Idle /\ ~over /\ phase \in {"put", "get"}
      /\ Start(waiting') /\ waiting'.op = phase
      /\ waiting' \in Request /\ waiting' \notin AskedFor
      /\ phase = "put" => waiting'.key = <<series, Taken("put") + 1>>
      /\ phase = "get" => /\ Taken("get") < Len(held)
                          /\ waiting'.key = held[Taken("get") + 1]
                          /\ [op |-> "put", key |-> waiting'.key, verdict |-> "ms"]
                               \in {samples[n] : n \in 1 .. Len(samples)}
  <2>1. CASE StartPut
    <3>1. /\ waiting = Idle /\ phase = "put" /\ ~over /\ Taken("put") < N
          /\ waiting' = [op |-> "put", key |-> <<series, Taken("put") + 1>>]
      BY <2>1 DEF StartPut, Between, Start
    <3>2. Start(waiting')
      BY <2>1, <3>1 DEF StartPut
    <3> QED
      BY <3>1, <3>2, PutIsFresh
  <2>2. CASE StartGet
    <3>1. /\ waiting = Idle /\ phase = "get" /\ ~over /\ Taken("get") < Len(held)
          /\ waiting' = [op |-> "get", key |-> held[Taken("get") + 1]]
      BY <2>2 DEF StartGet, Between, Start
    <3>2. Start(waiting')
      BY <2>2, <3>1 DEF StartGet
    <3> QED
      BY <3>1, <3>2, GetIsFresh
  <2> QED
    BY <2>1, <2>2
<1>2. UNCHANGED <<series, phase, samples, held, stale, over, heard>>
      /\ late' = 0 /\ due' = due \cup {waiting'}
  BY <1>1 DEF Start
<1>3. /\ \A op : Sample(op, series)' = Sample(op, series)
      /\ \A op : Taken(op)' = Taken(op)
      /\ Sampled' = Sampled
  BY <1>2, SameSamples
<1>4. TypeOK'
  BY <1>0, <1>1, <1>2 DEF TypeOK
<1>5. Once'
  BY <1>0, <1>1, <1>2, <1>3 DEF Once, AskedFor
<1>6. PutsInOrder'
  BY <1>0, <1>1, <1>2, <1>3 DEF PutsInOrder
<1>7. GetsInOrder'
  BY <1>0, <1>1, <1>2, <1>3 DEF GetsInOrder
<1> QED
  BY <1>1, <1>4, <1>5, <1>6, <1>7 DEF SeriesInv

(* The end of the puts, of a series, of the run by a send that fails.       *)
LEMMA PhaseKeeps ==
  ASSUME SeriesInv, EndPuts \/ EndSeries \/ SendBlocked
  PROVE  SeriesInv' /\ UNCHANGED <<samples, waiting, late, stale, over, due, heard>>
<1>0. TypeOK /\ Once /\ PutsInOrder /\ GetsInOrder
  BY DEF SeriesInv
<1>1. UNCHANGED <<samples, waiting, late, stale, over, due, heard>> /\ waiting = Idle
  BY DEF EndPuts, EndSeries, SendBlocked, Between
<1>2. Sampled' = Sampled
  BY <1>1 DEF Sampled
<1>3. Once'
  BY <1>0, <1>1, <1>2 DEF Once
<1>4. Idle.op = "idle"
  BY DEF Idle
<1>5. CASE EndPuts \/ SendBlocked \/ (EndSeries /\ ~series < NSeries)
  <2>1. series' = series /\ phase' \in {"get", "done", "bailed"}
        /\ (phase' = "get" => phase \in {"put", "get"} /\ held' = held)
        /\ (held' = held \/ held' = <<>>)
    BY <1>5 DEF EndPuts, EndSeries, SendBlocked, Between
  <2>2. /\ \A op : Sample(op, series)' = Sample(op, series)
        /\ \A op : Taken(op)' = Taken(op)
    BY <1>1, <2>1, SameSamples
  <2>3. TypeOK'
    <3>1. held' \in Seq(Key)
      <4>1. held \in Seq(Key) /\ <<>> \in Seq(Key)
        BY <1>0 DEF TypeOK
      <4> QED
        BY <2>1, <4>1
    <3> QED
      BY <1>0, <1>1, <2>1, <3>1 DEF TypeOK
  <2>4. PutsInOrder'
    BY <1>0, <1>1, <1>4, <2>1, <2>2 DEF PutsInOrder
  <2>5. GetsInOrder'
    BY <1>0, <1>1, <1>4, <2>1, <2>2 DEF GetsInOrder
  <2> QED
    BY <1>1, <1>3, <2>3, <2>4, <2>5 DEF SeriesInv
<1>6. CASE EndSeries /\ series < NSeries
  <2>1. series' = series + 1 /\ phase' = "put" /\ held' = <<>>
    BY <1>6 DEF EndSeries
  <2>2. series \in Nat /\ series + 1 \in 1 .. NSeries
    BY <1>0, <1>6, SeriesAssumption DEF TypeOK
  <2>3. TypeOK'
    <3>1. held' \in Seq(Key)
      BY <2>1
    <3> QED
      BY <1>0, <1>1, <2>1, <2>2, <3>1 DEF TypeOK
  <2>4. \A n \in 1 .. Len(samples) :
          samples[n].key[1] \in Nat /\ samples[n].key[1] <= series
    <3>1. \A n \in 1 .. Len(samples) : samples[n].key[1] <= series
      BY <1>0 DEF PutsInOrder
    <3>2. \A n \in 1 .. Len(samples) : samples[n] \in Row
      BY <1>0, RowsTyped
    <3>3. \A n \in 1 .. Len(samples) : samples[n].key \in Key
      BY <3>2 DEF Row
    <3> QED
      BY <3>1, <3>3, SeriesAssumption DEF Key
  <2>5. \A op : Sample(op, series)' = {}
    <3> TAKE op
    <3>1. Sample(op, series)' = {n \in 1 .. Len(samples) :
                         samples[n].op = op /\ samples[n].key[1] = series + 1}
      BY <1>1, <2>1 DEF Sample
    <3> QED
      BY <2>2, <2>4, <3>1
  <2>6. PutsInOrder'
    <3>1. \A n \in 1 .. Len(samples) : samples[n].key[1] <= series + 1
      BY <2>2, <2>4
    <3> QED
      BY <1>1, <1>4, <2>1, <2>5, <3>1 DEF PutsInOrder
  <2>7. GetsInOrder'
    <3>1. Len(held') = 0 /\ DOMAIN held' = {} /\ 1 .. Len(held') = {}
      BY <2>1
    <3>2. IsInjective(held')
      BY <3>1 DEF IsInjective
    <3> QED
      BY <1>1, <1>4, <2>5, <3>1, <3>2 DEF GetsInOrder
  <2> QED
    BY <1>1, <1>3, <2>3, <2>6, <2>7 DEF SeriesInv
<1> QED
  BY <1>5, <1>6

-----------------------------------------------------------------------------
(* What was read.                                                           *)

(* Only what was asked for is due, and what was read is due no more.        *)
ReadsAreAsked ==
  /\ due \subseteq AskedFor
  /\ \A h \in heard : h.req \in AskedFor \ due
  /\ IsFiniteSet(heard)

(* Nothing is late to a wait that has ended.                                *)
HeardInv ==
  ReadsAreAsked /\ OwnAnswer /\ NothingSilent /\ (waiting = Idle => late = 0)

Answers == {h \in heard : h.kind = "answer"}

(* A read takes one request off what is due and adds one entry, a new one.  *)
LEMMA ReadKeeps ==
  ASSUME SeriesInv, ReadsAreAsked, NEW r \in Request, NEW kind \in {"answer", "error"},
         Read(r, kind), AskedFor' = AskedFor
  PROVE  LET h == [req |-> r, kind |-> kind, during |-> waiting] IN
         /\ ReadsAreAsked'
         /\ waiting \in Request /\ r \in AskedFor
         /\ heard' = heard \cup {h}
         /\ due' \subseteq Request
         /\ heard' \subseteq [req : Request, kind : {"answer", "error"}, during : Request]
         /\ IsFiniteSet(Answers)
         /\ r \notin Answered
         /\ Answered' = IF kind = "answer" THEN Answered \cup {r} ELSE Answered
         /\ Cardinality(Answers') = IF kind = "answer"
                                    THEN Cardinality(Answers) + 1
                                    ELSE Cardinality(Answers)
<1> DEFINE h == [req |-> r, kind |-> kind, during |-> waiting]
<1>1. /\ waiting \in Request /\ r \in due /\ due' = due \ {r}
      /\ heard' = heard \cup {h} /\ h.req = r /\ h.kind = kind
  BY DEF Read, SeriesInv, TypeOK
<1>2. /\ due' \subseteq Request
      /\ heard' \subseteq [req : Request, kind : {"answer", "error"}, during : Request]
  BY <1>1 DEF SeriesInv, TypeOK
<1> HIDE DEF h
<1>3. r \in AskedFor /\ \A g \in heard : g.req \in AskedFor /\ g.req # r /\ g.req \notin due
  BY <1>1 DEF ReadsAreAsked
<1>4. ReadsAreAsked'
  <2>1. IsFiniteSet(heard')
    BY <1>1, FS_AddElement DEF ReadsAreAsked
  <2> QED
    BY <1>1, <1>3, <2>1 DEF ReadsAreAsked
<1>5. IsFiniteSet(Answers) /\ h \notin Answers /\ r \notin Answered
  <2>1. IsFiniteSet(Answers)
    BY FS_Subset DEF ReadsAreAsked, Answers
  <2> QED
    BY <1>1, <1>3, <2>1 DEF Answers, Answered
<1>6. CASE kind = "answer"
  <2>1. Answers' = Answers \cup {h}
    BY <1>1, <1>6 DEF Answers
  <2>2. Answered' = Answered \cup {r}
    BY <1>1, <1>6 DEF Answered
  <2> QED
    BY <1>1, <1>2, <1>3, <1>4, <1>5, <1>6, <2>1, <2>2, FS_AddElement DEF h
<1>7. CASE kind # "answer"
  <2>1. Answers' = Answers /\ Answered' = Answered
    BY <1>1, <1>7 DEF Answers, Answered
  <2> QED
    BY <1>1, <1>2, <1>3, <1>4, <1>5, <1>7, <2>1 DEF h
<1> QED
  BY <1>6, <1>7

(* The samples with a verdict of an answer, after the wait.                 *)
LEMMA JudgeMatched ==
  ASSUME SeriesInv, waiting \in Request, NEW v \in Verdict, Judge(v),
         UNCHANGED <<series, phase>>
  PROVE  /\ Cardinality(Matched) \in Nat
         /\ Cardinality(Matched') = IF v \in {"ms", "state mismatch"}
                                    THEN Cardinality(Matched) + 1
                                    ELSE Cardinality(Matched)
<1> DEFINE row == [op |-> waiting.op, key |-> waiting.key, verdict |-> v]
           last == Len(samples) + 1
<1>1. /\ Len(samples') = last /\ samples'[last] = row /\ row.verdict = v
      /\ \A n \in 1 .. Len(samples) : samples'[n] = samples[n]
  BY JudgeEffect
<1>2. Len(samples) \in Nat /\ last \notin 1 .. Len(samples)
      /\ 1 .. last = 1 .. Len(samples) \cup {last}
  BY DEF SeriesInv, TypeOK
<1> HIDE DEF row, last
<1>3. IsFiniteSet(Matched) /\ last \notin Matched
  <2>1. IsFiniteSet(1 .. Len(samples))
    BY <1>2, FS_Interval
  <2> QED
    BY <1>2, <2>1, FS_Subset DEF Matched
<1>4. Matched' = IF v \in {"ms", "state mismatch"} THEN Matched \cup {last} ELSE Matched
  BY <1>1, <1>2 DEF Matched
<1> QED
  BY <1>3, <1>4, FS_AddElement, FS_CardinalityType

(* The end of a wait keeps what is known of the samples, given that a       *)
(* latency comes with the answer to the request timed.                      *)
LEMMA JudgeOwn ==
  ASSUME SeriesInv, OwnAnswer, waiting \in Request, NEW v \in Verdict, Judge(v),
         UNCHANGED <<series, phase>>, heard \subseteq heard',
         v = "ms" => [req |-> waiting, kind |-> "answer", during |-> waiting] \in heard'
  PROVE  OwnAnswer'
<1> DEFINE row == [op |-> waiting.op, key |-> waiting.key, verdict |-> v]
           last == Len(samples) + 1
<1>1. /\ Len(samples') = last /\ samples'[last] = row
      /\ row.verdict = v /\ Asked(row) = waiting
      /\ \A n \in 1 .. Len(samples) : samples'[n] = samples[n]
      /\ \A n \in 1 .. last : n \in 1 .. Len(samples) \/ n = last
  BY JudgeEffect DEF SeriesInv, TypeOK
<1> HIDE DEF row, last
<1> SUFFICES ASSUME NEW n \in 1 .. Len(samples'), samples'[n].verdict = "ms"
             PROVE  [req |-> Asked(samples'[n]), kind |-> "answer",
                     during |-> Asked(samples'[n])] \in heard'
  BY DEF OwnAnswer
<1>2. CASE n \in 1 .. Len(samples)
  <2>1. samples'[n] = samples[n] /\ samples[n].verdict = "ms"
    BY <1>1, <1>2
  <2>2. [req |-> Asked(samples[n]), kind |-> "answer",
         during |-> Asked(samples[n])] \in heard
    BY <1>2, <2>1 DEF OwnAnswer
  <2>3. Asked(samples'[n]) = Asked(samples[n])
    BY <2>1
  <2> QED
    BY <2>2, <2>3
<1>3. CASE n = last
  BY <1>1, <1>3
<1> QED
  BY <1>1, <1>2, <1>3

-----------------------------------------------------------------------------
(* What the abstract sampling sees of a step.                               *)

(* The sample of a request is where it is looked for.                       *)
LEMMA AtSample ==
  ASSUME Once, NEW n \in 1 .. Len(samples)
  PROVE  At(Asked(samples[n])) = n
BY DEF At, Once

(* The end of a wait gives the request timed its one verdict.               *)
LEMMA JudgeVerdict ==
  ASSUME SeriesInv, waiting \in Request, NEW v \in Verdict, Judge(v),
         UNCHANGED <<series, phase>>
  PROVE  /\ AskedFor' = AskedFor /\ waiting \in AskedFor
         /\ VerdictOf[waiting] = "none"
         /\ VerdictOf' = [VerdictOf EXCEPT ![waiting] =
                            IF v = "ms" THEN "ms" ELSE "failed"]
<1> DEFINE last == Len(samples) + 1
           w == IF v = "ms" THEN "ms" ELSE "failed"
<1> DEFINE row == [op |-> waiting.op, key |-> waiting.key, verdict |-> v]
<1>1. /\ AskedFor' = AskedFor /\ Sampled' = Sampled \cup {waiting}
      /\ Len(samples') = last
      /\ Asked(samples'[last]) = waiting /\ samples'[last].verdict = v
      /\ \A n \in 1 .. Len(samples) : samples'[n] = samples[n]
  <2>1. /\ AskedFor' = AskedFor /\ Sampled' = Sampled \cup {waiting}
        /\ Len(samples') = last /\ samples'[last] = row /\ Asked(row) = waiting
        /\ \A n \in 1 .. Len(samples) : samples'[n] = samples[n]
    BY JudgeEffect
  <2> QED
    BY <2>1
<1>2. Once /\ Once' /\ Len(samples) \in Nat
  BY JudgeKeeps DEF SeriesInv, TypeOK
<1>3. last \in 1 .. Len(samples') /\ 1 .. Len(samples) \subseteq 1 .. Len(samples')
  BY <1>1, <1>2
<1> HIDE DEF last
<1>4. waiting \notin Sampled /\ waiting \in AskedFor
  BY <1>2, IdleIsNoRequest DEF Once, AskedFor
<1>5. VerdictOf[waiting] = "none"
  BY <1>4 DEF VerdictOf
<1>6. ASSUME NEW r, NEW n \in 1 .. Len(samples'), Asked(samples'[n]) = r
      PROVE  At(r)' = n
  <2>1. \A m \in 1 .. Len(samples') : Asked(samples'[m]) = r => m = n
    BY <1>2, <1>6 DEF Once
  <2>2. At(r)' = CHOOSE m \in 1 .. Len(samples') : Asked(samples'[m]) = r
    BY DEF At
  <2> QED
    BY <1>6, <2>1, <2>2
<1>7. ASSUME NEW r \in Request
      PROVE  VerdictOf'[r] = IF r = waiting THEN w ELSE VerdictOf[r]
  <2>1. VerdictOf'[r] = IF r \notin Sampled' THEN "none"
                        ELSE IF samples'[At(r)'].verdict = "ms" THEN "ms" ELSE "failed"
    BY DEF VerdictOf
  <2>2. VerdictOf[r] = IF r \notin Sampled THEN "none"
                       ELSE IF samples[At(r)].verdict = "ms" THEN "ms" ELSE "failed"
    BY DEF VerdictOf
  <2>3. CASE r = waiting
    <3>1. At(r)' = last
      BY <1>1, <1>3, <1>6, <2>3
    <3> QED
      BY <1>1, <2>1, <2>3, <3>1
  <2>4. CASE r # waiting /\ r \notin Sampled
    BY <1>1, <2>1, <2>2, <2>4
  <2>5. CASE r # waiting /\ r \in Sampled
    <3>1. PICK n \in 1 .. Len(samples) : Asked(samples[n]) = r
      BY <2>5 DEF Sampled
    <3>2. At(r) = n
      BY <1>2, <3>1, AtSample
    <3>3. n \in 1 .. Len(samples') /\ samples'[n] = samples[n] /\ Asked(samples'[n]) = r
      BY <1>1, <1>3, <3>1
    <3>4. At(r)' = n
      BY <1>6, <3>3
    <3> QED
      BY <1>1, <2>1, <2>2, <2>5, <3>2, <3>3, <3>4
  <2> QED
    BY <2>3, <2>4, <2>5
<1>8. VerdictOf' = [VerdictOf EXCEPT ![waiting] = w]
  BY <1>7, Zenon DEF VerdictOf
<1> QED
  BY <1>1, <1>4, <1>5, <1>8

-----------------------------------------------------------------------------
(* Every step keeps the invariant and is a step of the abstract sampling.   *)

Kept == SeriesInv' /\ HeardInv' /\ [Abstract!Next]_(Abstract!vars)

(* A request goes out: the abstract sampling asks.                          *)
LEMMA StartStep ==
  ASSUME SeriesInv, HeardInv, StartPut \/ StartGet
  PROVE  Kept
<1>1. /\ waiting = Idle /\ ~over /\ waiting' \in Request /\ waiting' \notin AskedFor
      /\ Start(waiting') /\ SeriesInv'
      /\ waiting'.op = "get" =>
           [op |-> "put", key |-> waiting'.key, verdict |-> "ms"]
              \in {samples[n] : n \in 1 .. Len(samples)}
  BY StartKeeps
<1>2. /\ UNCHANGED <<series, phase, samples, held, stale, over, heard>>
      /\ late' = 0 /\ due' = due \cup {waiting'}
  BY <1>1 DEF Start
<1>3. /\ Sampled' = Sampled /\ Matched' = Matched
      /\ VerdictOf' = VerdictOf /\ Answered' = Answered
  BY <1>2 DEF Sampled, Matched, VerdictOf, At, Answered
<1>4. AskedFor = Sampled /\ AskedFor' = AskedFor \cup {waiting'}
  BY <1>1, <1>3, IdleIsNoRequest DEF AskedFor
<1>5. HeardInv'
  <2>1. ReadsAreAsked'
    BY <1>1, <1>2, <1>4 DEF HeardInv, ReadsAreAsked
  <2>2. OwnAnswer'
    BY <1>2 DEF HeardInv, OwnAnswer
  <2>3. late' = late /\ stale' = stale /\ Matched' = Matched /\ heard' = heard
    BY <1>1, <1>2, <1>3 DEF HeardInv
  <2>4. NothingSilent'
    BY <2>3 DEF HeardInv, NothingSilent
  <2> QED
    BY <1>2, <2>1, <2>2, <2>4 DEF HeardInv
<1>6. Abstract!Ask(waiting')
  <2>1. \A q \in AskedFor : VerdictOf[q] # "none"
    <3> SUFFICES ASSUME NEW n \in 1 .. Len(samples)
                 PROVE  VerdictOf[Asked(samples[n])] # "none"
      BY <1>4 DEF Sampled
    <3>1. Asked(samples[n]) \in Request /\ Asked(samples[n]) \in Sampled
      BY RowsTyped DEF Sampled, Asked, Row, Request, SeriesInv
    <3> QED
      BY <3>1 DEF VerdictOf
  <2>2. waiting'.op = "get" => VerdictOf[[op |-> "put", key |-> waiting'.key]] = "ms"
    <3> SUFFICES ASSUME waiting'.op = "get"
                 PROVE  VerdictOf[[op |-> "put", key |-> waiting'.key]] = "ms"
      OBVIOUS
    <3> DEFINE q == [op |-> "put", key |-> waiting'.key]
    <3>1. PICK n \in 1 .. Len(samples) :
            [op |-> "put", key |-> waiting'.key, verdict |-> "ms"] = samples[n]
      BY <1>1
    <3>2. Asked(samples[n]) = q /\ samples[n].verdict = "ms"
      BY <3>1 DEF Asked
    <3>3. At(q) = n /\ q \in Sampled
      BY <3>2, AtSample DEF SeriesInv, Sampled
    <3>4. q \in Request
      BY <1>1 DEF Request
    <3> QED
      BY <3>2, <3>3, <3>4 DEF VerdictOf
  <2> DEFINE needed == [r \in Request |->
               IF r.op = "get" THEN {[op |-> "put", key |-> r.key]} ELSE {}]
  <2>3. \A q \in needed[waiting'] : VerdictOf[q] = "ms"
    BY <1>1, <2>2
  <2> QED
    BY <1>1, <1>2, <1>3, <1>4, <2>1, <2>3 DEF Abstract!Ask
<1>7. Abstract!Next
  BY <1>1, <1>6 DEF Abstract!Next
<1> QED
  BY <1>1, <1>5, <1>7 DEF Kept

(* A step of the phases is none of the abstract sampling's.                 *)
LEMMA PhaseStep ==
  ASSUME SeriesInv, HeardInv, EndPuts \/ EndSeries \/ SendBlocked
  PROVE  Kept
<1>1. SeriesInv' /\ UNCHANGED <<samples, waiting, late, stale, over, due, heard>>
  BY PhaseKeeps
<1>2. /\ Matched' = Matched /\ AskedFor' = AskedFor
      /\ VerdictOf' = VerdictOf /\ Answered' = Answered
  BY <1>1 DEF Sampled, AskedFor, Matched, VerdictOf, At, Answered
<1>3. HeardInv'
  BY <1>1, <1>2 DEF HeardInv, ReadsAreAsked, OwnAnswer, NothingSilent
<1>4. UNCHANGED Abstract!vars
  BY <1>1, <1>2 DEF Abstract!vars
<1> QED
  BY <1>1, <1>3, <1>4 DEF Kept

(* The budget passes: the abstract sampling closes.                         *)
LEMMA BudgetStep ==
  ASSUME SeriesInv, HeardInv, Budget
  PROVE  Kept
<1>1. over' = TRUE
      /\ UNCHANGED <<series, phase, samples, held, waiting, late, stale, due, heard>>
  BY DEF Budget
<1>2. /\ Matched' = Matched /\ AskedFor' = AskedFor /\ Sampled' = Sampled
      /\ VerdictOf' = VerdictOf /\ Answered' = Answered
  BY <1>1 DEF Sampled, AskedFor, Matched, VerdictOf, At, Answered
<1>3. HeardInv'
  BY <1>1, <1>2 DEF HeardInv, ReadsAreAsked, OwnAnswer, NothingSilent
<1>4. SeriesInv'
  BY <1>1, <1>2, SameSamples DEF SeriesInv, TypeOK, Once, PutsInOrder, GetsInOrder
<1>5. Abstract!Close
  BY <1>1, <1>2 DEF Abstract!Close
<1> QED
  BY <1>3, <1>4, <1>5 DEF Kept, Abstract!Next

(* The verdicts no answer gives.                                            *)
Failures == {"node error", "no response"}

(* A wait ends with no latency: by an error or at its deadline.             *)
LEMMA FailedStep ==
  ASSUME SeriesInv, HeardInv,
         (\E r \in Request : NodeError(r)) \/ Deadline
  PROVE  Kept
<1>1. PICK v \in Failures : Judge(v)
  BY DEF NodeError, Deadline, Failures
<1>2. /\ waiting \in Request /\ UNCHANGED <<series, phase, over>>
      /\ v \in Verdict /\ v # "ms" /\ v \notin {"ms", "state mismatch"}
  <2>1. waiting \in Request /\ UNCHANGED <<series, phase, over>>
    BY DEF NodeError, Deadline, Read, SeriesInv, TypeOK
  <2>2. v \in Verdict /\ v # "ms" /\ v \notin {"ms", "state mismatch"}
    BY DEF Failures, Verdict
  <2> QED
    BY <2>1, <2>2
<1>3. /\ samples' \in Seq(Row) /\ held' \in Seq(Key)
      /\ Once' /\ PutsInOrder' /\ GetsInOrder'
  BY <1>1, <1>2, JudgeKeeps
<1>4. /\ AskedFor' = AskedFor /\ waiting \in AskedFor /\ VerdictOf[waiting] = "none"
      /\ VerdictOf' = [VerdictOf EXCEPT ![waiting] = "failed"]
  BY <1>1, <1>2, JudgeVerdict
<1>5. waiting' = Idle /\ late' = 0 /\ stale' = stale + late /\ late' \in Nat /\ stale' \in Nat
  <2>1. late \in Nat /\ stale \in Nat
    BY DEF SeriesInv, TypeOK
  <2>2. waiting' = Idle /\ late' = 0 /\ stale' = stale + late
    BY <1>1 DEF Judge
  <2>3. stale + late \in Nat /\ 0 \in Nat
    BY <2>1
  <2> QED
    BY <2>2, <2>3, Zenon
<1>6. /\ ReadsAreAsked' /\ heard \subseteq heard' /\ due' \subseteq Request
      /\ heard' \subseteq [req : Request, kind : {"answer", "error"}, during : Request]
      /\ Answered' = Answered /\ Cardinality(Answers') = Cardinality(Answers)
  <2>1. CASE Deadline
    <3>1. due' = due /\ heard' = heard
      BY <2>1 DEF Deadline
    <3> QED
      BY <1>4, <3>1 DEF HeardInv, ReadsAreAsked, SeriesInv, TypeOK, Answered, Answers
  <2>2. CASE \E r \in Request : NodeError(r)
    <3>1. PICK r \in Request : Read(r, "error")
      BY <2>2 DEF NodeError
    <3> QED
      BY <1>4, <3>1, ReadKeeps DEF HeardInv
  <2> QED
    BY <2>1, <2>2
<1>7. SeriesInv'
  BY <1>2, <1>3, <1>5, <1>6 DEF SeriesInv, TypeOK, Row
<1>8. HeardInv'
  <2>1. OwnAnswer'
    BY <1>1, <1>2, <1>6, JudgeOwn DEF HeardInv
  <2>2. Cardinality(Matched') = Cardinality(Matched) /\ Cardinality(Matched) \in Nat
    BY <1>1, <1>2, JudgeMatched
  <2>3. late \in Nat /\ stale \in Nat
    BY DEF SeriesInv, TypeOK
  <2>4. Cardinality(Answers') = Cardinality(Matched') + stale' + late'
    <3>1. Cardinality(Answers) = Cardinality(Matched) + stale + late
      BY DEF HeardInv, NothingSilent, Answers
    <3>2. Cardinality(Matched) + stale + late = Cardinality(Matched) + (stale + late) + 0
      BY <2>2, <2>3
    <3> QED
      BY <1>5, <1>6, <2>2, <3>1, <3>2, Zenon
  <2>5. NothingSilent'
    BY <2>4 DEF NothingSilent, Answers
  <2> QED
    BY <1>5, <1>6, <2>1, <2>5 DEF HeardInv
<1>9. Abstract!Judge(waiting, "failed")
  BY <1>2, <1>4, <1>6 DEF Abstract!Judge
<1> QED
  BY <1>2, <1>7, <1>8, <1>9 DEF Kept, Abstract!Next

(* An answer is read: the one awaited gets its verdict, any other is late.  *)
LEMMA AnswerStep ==
  ASSUME SeriesInv, HeardInv, NEW r \in Request, NEW bytes \in {"same", "other"},
         Answer(r, bytes)
  PROVE  Kept
<1>1. Read(r, "answer") /\ waiting \in Request /\ UNCHANGED <<series, phase, over>>
  BY DEF Answer, Read, SeriesInv, TypeOK
<1> DEFINE h == [req |-> r, kind |-> "answer", during |-> waiting]
<1>2. late \in Nat /\ stale \in Nat
  BY DEF SeriesInv, TypeOK
<1>3. CASE offer(r)
  <2> DEFINE v == IF bytes = "same" THEN "ms" ELSE "state mismatch"
             w == IF v = "ms" THEN "ms" ELSE "failed"
  <2>1. r = waiting /\ Judge(v) /\ v \in Verdict
    BY <1>3 DEF Answer, offer, Verdict
  <2> HIDE DEF v
  <2>2. /\ samples' \in Seq(Row) /\ held' \in Seq(Key)
        /\ Once' /\ PutsInOrder' /\ GetsInOrder'
    BY <1>1, <2>1, JudgeKeeps
  <2>3. /\ AskedFor' = AskedFor /\ waiting \in AskedFor /\ VerdictOf[waiting] = "none"
        /\ VerdictOf' = [VerdictOf EXCEPT ![waiting] = w]
    BY <1>1, <2>1, JudgeVerdict
  <2>4. waiting' = Idle /\ late' = 0 /\ stale' = stale + late
    BY <2>1 DEF Judge
  <2>5. /\ ReadsAreAsked' /\ heard' = heard \cup {h} /\ due' \subseteq Request
        /\ heard' \subseteq [req : Request, kind : {"answer", "error"}, during : Request]
        /\ r \notin Answered /\ Answered' = Answered \cup {r}
        /\ IsFiniteSet(Answers) /\ Cardinality(Answers') = Cardinality(Answers) + 1
    BY <1>1, <2>3, ReadKeeps DEF HeardInv
  <2>6. SeriesInv'
    BY <1>1, <1>2, <2>2, <2>4, <2>5 DEF SeriesInv, TypeOK, Row
  <2>7. OwnAnswer'
    BY <1>1, <2>1, <2>5, JudgeOwn DEF HeardInv
  <2>8. NothingSilent'
    <3>1. /\ Cardinality(Matched') = Cardinality(Matched) + 1
          /\ Cardinality(Matched) \in Nat
      BY <1>1, <2>1, JudgeMatched DEF v
    <3>2. Cardinality(Answers') = Cardinality(Matched') + stale' + late'
      BY <1>2, <2>4, <2>5, <3>1 DEF HeardInv, NothingSilent, Answers
    <3> QED
      BY <3>2 DEF NothingSilent, Answers
  <2>9. Abstract!Judge(r, w)
    BY <1>1, <2>1, <2>3, <2>5 DEF Abstract!Judge
  <2>10. w \in {"ms", "failed"}
    OBVIOUS
  <2> QED
    BY <2>4, <2>5, <2>6, <2>7, <2>8, <2>9, <2>10 DEF Kept, HeardInv, Abstract!Next
<1>4. CASE ~offer(r)
  <2>1. late' = late + 1 /\ UNCHANGED <<samples, held, stale, waiting>>
    BY <1>4 DEF Answer
  <2>2. /\ AskedFor' = AskedFor /\ Sampled' = Sampled
        /\ Matched' = Matched /\ VerdictOf' = VerdictOf
    BY <2>1 DEF Sampled, AskedFor, Matched, VerdictOf, At
  <2>3. /\ ReadsAreAsked' /\ heard' = heard \cup {h} /\ due' \subseteq Request
        /\ heard' \subseteq [req : Request, kind : {"answer", "error"}, during : Request]
        /\ r \in AskedFor /\ Answered' = Answered \cup {r} /\ waiting # Idle
        /\ IsFiniteSet(Answers) /\ Cardinality(Answers') = Cardinality(Answers) + 1
    BY <1>1, <2>2, ReadKeeps DEF HeardInv, Read
  <2>4. SeriesInv'
    <3>1. TypeOK'
      BY <1>1, <1>2, <2>1, <2>3 DEF SeriesInv, TypeOK
    <3> QED
      BY <1>1, <2>1, <2>2, <3>1, SameSamples
      DEF SeriesInv, Once, PutsInOrder, GetsInOrder
  <2>5. OwnAnswer'
    BY <2>1, <2>3 DEF HeardInv, OwnAnswer
  <2>6. Cardinality(Matched) \in Nat
    <3>1. Len(samples) \in Nat
      BY DEF SeriesInv, TypeOK
    <3>2. IsFiniteSet(1 .. Len(samples))
      BY <3>1, FS_Interval
    <3>3. IsFiniteSet(Matched)
      BY <3>2, FS_Subset DEF Matched
    <3> QED
      BY <3>3, FS_CardinalityType
  <2>7. Cardinality(Answers') = Cardinality(Matched') + stale' + late'
    BY <1>2, <2>1, <2>2, <2>3, <2>6 DEF HeardInv, NothingSilent, Answers
  <2>8. NothingSilent'
    BY <2>7 DEF NothingSilent, Answers
  <2>9. Abstract!Late(r)
    BY <1>1, <2>2, <2>3 DEF Abstract!Late
  <2> QED
    BY <2>1, <2>3, <2>4, <2>5, <2>8, <2>9 DEF Kept, HeardInv, Abstract!Next
<1> QED
  BY <1>3, <1>4

-----------------------------------------------------------------------------
(* The theorems.                                                            *)

(* The invariant is inductive, and a run is a run of the abstract sampling. *)
LEMMA InitHolds == Init => SeriesInv /\ HeardInv /\ Abstract!Init
<1> SUFFICES ASSUME Init PROVE SeriesInv /\ HeardInv /\ Abstract!Init
  OBVIOUS
<1>1. /\ series = 1 /\ phase = "put" /\ samples = <<>> /\ held = <<>>
      /\ waiting = Idle /\ late = 0 /\ stale = 0 /\ over = FALSE
      /\ due = {} /\ heard = {}
  BY DEF Init
<1>2. Len(samples) = 0 /\ 1 .. Len(samples) = {} /\ Len(held) = 0
      /\ 1 .. Len(held) = {} /\ DOMAIN held = {} /\ Idle.op = "idle"
  BY <1>1 DEF Idle
<1>3. Sampled = {} /\ AskedFor = {} /\ Matched = {} /\ Answered = {} /\ Answers = {}
  BY <1>1, <1>2 DEF Sampled, AskedFor, Matched, Answered, Answers
<1>4. \A op : Sample(op, series) = {}
  BY <1>2 DEF Sample
<1>5. TypeOK
  <2>1. samples \in Seq([op : {"put", "get"}, key : Key, verdict : Verdict])
        /\ held \in Seq(Key)
    BY <1>1
  <2>2. series \in 1 .. NSeries
    BY <1>1, SeriesAssumption
  <2>3. phase \in {"put", "get", "done", "bailed"}
        /\ late \in Nat /\ stale \in Nat /\ over \in BOOLEAN
        /\ waiting \in Request \cup {Idle}
    BY <1>1
  <2> QED
    BY <1>1, <2>1, <2>2, <2>3, Zenon DEF TypeOK
<1>6. Once /\ PutsInOrder /\ GetsInOrder
  BY <1>1, <1>2, <1>3, <1>4 DEF Once, PutsInOrder, GetsInOrder, IsInjective
<1>7. HeardInv
  BY <1>1, <1>2, <1>3, FS_EmptySet
  DEF HeardInv, ReadsAreAsked, OwnAnswer, NothingSilent, Answers
<1>8. Abstract!Init
  BY <1>1, <1>3 DEF Abstract!Init, VerdictOf
<1> QED
  BY <1>5, <1>6, <1>7, <1>8 DEF SeriesInv

(* Every step of the client and of the node keeps both invariants.         *)
LEMMA StepHolds ==
  SeriesInv /\ HeardInv /\ [Next]_vars =>
    SeriesInv' /\ HeardInv' /\ [Abstract!Next]_(Abstract!vars)
<1> SUFFICES ASSUME SeriesInv, HeardInv, [Next]_vars PROVE Kept
  BY DEF Kept
<1>1. CASE StartPut \/ StartGet
  BY <1>1, StartStep
<1>2. CASE EndPuts \/ EndSeries \/ SendBlocked
  BY <1>2, PhaseStep
<1>3. CASE \E r \in Request, bytes \in {"same", "other"} : Answer(r, bytes)
  BY <1>3, AnswerStep
<1>4. CASE (\E r \in Request : NodeError(r)) \/ Deadline
  BY <1>4, FailedStep
<1>5. CASE Budget
  BY <1>5, BudgetStep
<1>6. CASE UNCHANGED vars
  <2>1. UNCHANGED <<series, phase, samples, held, waiting, late, stale, over, due, heard>>
    BY <1>6 DEF vars
  <2>2. /\ Matched' = Matched /\ AskedFor' = AskedFor /\ Sampled' = Sampled
        /\ VerdictOf' = VerdictOf /\ Answered' = Answered
    BY <2>1 DEF Sampled, AskedFor, Matched, VerdictOf, At, Answered
  <2>3. HeardInv'
    BY <2>1, <2>2 DEF HeardInv, ReadsAreAsked, OwnAnswer, NothingSilent
  <2>4. SeriesInv'
    BY <2>1, <2>2, SameSamples DEF SeriesInv, TypeOK, Once, PutsInOrder, GetsInOrder
  <2> QED
    BY <2>1, <2>2, <2>3, <2>4 DEF Kept, Abstract!vars
<1> QED
  BY <1>1, <1>2, <1>3, <1>4, <1>5, <1>6 DEF Next, Client

(* Types, and the order the requests of a series come in: each is sampled   *)
(* at most once, and a warm get only of a key this series saw acknowledged. *)
THEOREM TypeCorrect == Spec => [](SeriesInv /\ HeardInv)
BY InitHolds, StepHolds, PTL DEF Spec

(* A latency is always the latency of the request's own answer, read while  *)
(* that request was being timed.                                            *)
THEOREM OwnAnswerHolds == Spec => []OwnAnswer
BY TypeCorrect, PTL DEF HeardInv

(* Every answer read gave a sample its verdict or is counted as stale.      *)
THEOREM NothingSilentHolds == Spec => []NothingSilent
BY TypeCorrect, PTL DEF HeardInv

(* A run of series is a run of the abstract sampling: the refinement that   *)
(* the run checks, for every number of series and of samples.               *)
THEOREM ImplementsSamplingHolds == Spec => ImplementsSampling
BY InitHolds, StepHolds, TypeCorrect, PTL DEF Spec, ImplementsSampling, Abstract!Spec
=============================================================================
