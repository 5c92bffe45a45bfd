------------------------ MODULE BatchDialogueProofs -------------------------
(* Proofs, for every value of their constants, about PutShape with the     *)
(* ParallelBatch it extends and, behind them, about Dialogue: requests     *)
(* whose answers are told apart by their key, or only by their place.      *)
(* Neither half cites a definition of the other's modules.                 *)
EXTENDS PutShape, Dialogue, SequenceTheorems, FiniteSetTheorems, TLAPS

-----------------------------------------------------------------------------
Statuses == {"ms", "no response"}
RunRows == [samples : Seq(Statuses), curve : Seq(Put)]
TrialRows == [acks : Nat, readable : Nat, stale : Nat,
              ack_last : BOOLEAN, readable_last : BOOLEAN]

BatchTypeOK ==
  /\ batch \in Batch /\ phase \in {"issue", "collect", "done", "bailed"}
  /\ repeats \in 0 .. MaxRepeat /\ stale \in Nat
  /\ done \in Seq(Put)
  /\ kind \in {"parallel", "split"}
  /\ runs \in Seq(RunRows) /\ trials \in Seq(TrialRows)
  /\ IsFiniteSet(sent) /\ IsFiniteSet(answered) /\ IsFiniteSet(stored)

(* What is sent of a batch is its first puts, and all before collecting.   *)
FirstPuts(b, n) == {<<b, i>> : i \in 1 .. n}

SentOwn ==
  /\ Cardinality(sent) \in 0 .. Sizes[batch]
  /\ sent = FirstPuts(batch, Cardinality(sent))
  /\ phase = "collect" => Cardinality(sent) = Sizes[batch]

(* The curve has each of the batch's samples once.                         *)
CurveOwn ==
  /\ perPut \subseteq sent /\ perPut \subseteq answered
  /\ Range(done) = perPut /\ IsInjective(done)
  /\ Len(done) = Cardinality(perPut)

(* What is not of this batch is of an earlier one; no put is both answered *)
(* and due.                                                                *)
OthersEarlier ==
  phase # "done" =>
    /\ \A p \in due \cup answered :
         p[1] \in Nat /\ (p[1] < batch \/ p \in sent)
    /\ due \cap answered = {}

(* The reader asks for pieces of this trial only, and reads what is stored. *)
ReadOwn ==
  /\ left \subseteq Pieces /\ still \subseteq Pieces
  /\ asking \in Pieces \cup {NoPiece}
  /\ read \subseteq Pieces /\ read \subseteq stored
  /\ kind = "parallel" =>
       left = {} /\ still = {} /\ asking = NoPiece /\ read = {} /\ stale = 0

Earlier == {p \in answered : p[1] < batch}

StaleOwn ==
  phase # "done" =>
    /\ stale <= Cardinality(Earlier) + repeats
    /\ stale > 0 => Earlier # {}

(* One run, or one trial, for every batch that is over.                    *)
Filed ==
  phase \in {"issue", "collect"} =>
    /\ kind = "parallel" => Len(runs) = batch - 1
    /\ kind = "split" => Len(trials) = batch - 1

(* What one finished batch, and one finished trial, may report.            *)
CurveOk(b, r, as) ==
  /\ IsInjective(r.curve)
  /\ Range(r.curve) = {<<b, i>> : i \in Answered(r)}
  /\ Range(r.curve) \subseteq as
  /\ Len(r.samples) = Sizes[b]

TrialOk(t, r, as, ss) ==
  /\ r.acks <= Of(t, as) /\ r.readable <= Of(t, ss)
  /\ r.ack_last => Range(Order(t)) \subseteq as
  /\ r.readable_last => Range(Order(t)) \subseteq ss
  /\ r.stale <= IF {p \in as : p[1] < t} = {} THEN 0
                ELSE Cardinality({p \in as : p[1] < t}) + MaxRepeat

Reported ==
  /\ \A b \in 1 .. Len(runs) : CurveOk(b, runs[b], answered)
  /\ \A t \in 1 .. Len(trials) : TrialOk(t, trials[t], answered, stored)

BatchInv ==
  /\ BatchTypeOK /\ SentOwn /\ CurveOwn /\ OthersEarlier /\ ReadOwn /\ StaleOwn
  /\ Filed /\ Reported

-----------------------------------------------------------------------------
(* Every batch has its size.                                               *)
LEMMA SizeFacts ==
  /\ Len(Sizes) \in Nat \ {0} /\ Batch = 1 .. Len(Sizes)
  /\ \A b \in Batch : Sizes[b] \in Nat \ {0}
  /\ Left \in Nat /\ MaxRepeat \in Nat
BY BatchAssumption, EmptySeq DEF Batch

(* A batch's puts, in order, are its first puts.                           *)
LEMMA OrderFacts ==
  ASSUME NEW b \in Batch
  PROVE  /\ Range(Order(b)) = FirstPuts(b, Sizes[b])
         /\ \A i \in 1 .. Sizes[b] : Order(b)[i] = <<b, i>>
<1>1. DOMAIN Order(b) = 1 .. Sizes[b] /\ \A i \in 1 .. Sizes[b] : Order(b)[i] = <<b, i>>
  BY DEF Order
<1>2. Range(Order(b)) = {Order(b)[i] : i \in 1 .. Sizes[b]}
  BY <1>1 DEF Range
<1> QED
  BY <1>1, <1>2 DEF FirstPuts

(* More answers never make fewer of one batch.                             *)
LEMMA OfGrows ==
  ASSUME NEW A, NEW B, A \subseteq B, IsFiniteSet(B), NEW t
  PROVE  Of(t, A) \in Nat /\ Of(t, B) \in Nat /\ Of(t, A) <= Of(t, B)
<1> DEFINE a == {p \in A : p[1] = t}
           b == {p \in B : p[1] = t}
<1>1. a \subseteq b /\ b \subseteq B
  OBVIOUS
<1> HIDE DEF a, b
<1>2. IsFiniteSet(b) /\ IsFiniteSet(a)
  BY <1>1, FS_Subset
<1>3. Cardinality(a) <= Cardinality(b)
  BY <1>1, <1>2, FS_Subset
<1>4. Cardinality(a) \in Nat /\ Cardinality(b) \in Nat
  BY <1>2, FS_CardinalityType
<1> QED
  BY <1>3, <1>4 DEF Of, a, b

(* Nor fewer of the earlier ones.                                          *)
LEMMA EarlierGrow ==
  ASSUME NEW A, NEW B, A \subseteq B, IsFiniteSet(B), NEW t
  PROVE  LET a == {p \in A : p[1] < t}
             b == {p \in B : p[1] < t}
         IN  /\ Cardinality(a) \in Nat /\ Cardinality(b) \in Nat
             /\ Cardinality(a) <= Cardinality(b) /\ a \subseteq b
             /\ IsFiniteSet(a) /\ IsFiniteSet(b)
<1> DEFINE a == {p \in A : p[1] < t}
           b == {p \in B : p[1] < t}
<1>1. a \subseteq b /\ b \subseteq B
  OBVIOUS
<1> HIDE DEF a, b
<1>2. IsFiniteSet(b) /\ IsFiniteSet(a)
  BY <1>1, FS_Subset
<1>3. Cardinality(a) <= Cardinality(b)
  BY <1>1, <1>2, FS_Subset
<1>4. Cardinality(a) \in Nat /\ Cardinality(b) \in Nat
  BY <1>2, FS_CardinalityType
<1> QED
  BY <1>1, <1>2, <1>3, <1>4 DEF a, b

(* What a trial may report it may still report when more was answered.     *)
LEMMA TrialStaysOk ==
  ASSUME NEW t, NEW r \in TrialRows,
         NEW A, NEW B, A \subseteq B, IsFiniteSet(B),
         NEW S, NEW T, S \subseteq T, IsFiniteSet(T),
         TrialOk(t, r, A, S)
  PROVE  TrialOk(t, r, B, T)
<1> DEFINE a == {p \in A : p[1] < t}
           b == {p \in B : p[1] < t}
<1>1. r.acks \in Nat /\ r.readable \in Nat /\ r.stale \in Nat /\ MaxRepeat \in Nat
  BY SizeFacts DEF TrialRows
<1>2. /\ Of(t, A) \in Nat /\ Of(t, B) \in Nat /\ Of(t, A) <= Of(t, B)
      /\ Of(t, S) \in Nat /\ Of(t, T) \in Nat /\ Of(t, S) <= Of(t, T)
  BY OfGrows
<1>3. /\ Cardinality(a) \in Nat /\ Cardinality(b) \in Nat
      /\ Cardinality(a) <= Cardinality(b) /\ a \subseteq b
  BY EarlierGrow
<1>4. /\ r.acks <= Of(t, A) /\ r.readable <= Of(t, S)
      /\ r.ack_last => Range(Order(t)) \subseteq A
      /\ r.readable_last => Range(Order(t)) \subseteq S
      /\ r.stale <= IF a = {} THEN 0 ELSE Cardinality(a) + MaxRepeat
  BY DEF TrialOk
<1> HIDE DEF a, b
<1>5. r.stale <= IF b = {} THEN 0 ELSE Cardinality(b) + MaxRepeat
  <2>1. CASE a = {}
    BY <1>1, <1>3, <1>4, <2>1
  <2>2. CASE a # {}
    <3>1. b # {}
      BY <1>3, <2>2
    <3>2. r.stale <= Cardinality(a) + MaxRepeat
      BY <1>4, <2>2
    <3>3. r.stale <= Cardinality(b) + MaxRepeat
      BY <1>1, <1>3, <3>2
    <3> QED
      BY <3>1, <3>3
  <2> QED
    BY <2>1, <2>2
<1>6. r.acks <= Of(t, B) /\ r.readable <= Of(t, T)
  BY <1>1, <1>2, <1>4
<1> QED
  BY <1>4, <1>5, <1>6 DEF TrialOk, b

(* So does what all the finished batches and trials report.                *)
LEMMA ReportedKept ==
  ASSUME BatchTypeOK, Reported, UNCHANGED <<runs, trials>>,
         answered \subseteq answered', IsFiniteSet(answered'),
         stored \subseteq stored', IsFiniteSet(stored')
  PROVE  Reported'
<1>1. ASSUME NEW b \in 1 .. Len(runs) PROVE CurveOk(b, runs[b], answered')
  BY DEF Reported, CurveOk
<1>2. ASSUME NEW t \in 1 .. Len(trials)
      PROVE  TrialOk(t, trials[t], answered', stored')
  <2>1. trials[t] \in TrialRows /\ TrialOk(t, trials[t], answered, stored)
    BY DEF BatchTypeOK, Reported
  <2> QED
    BY <2>1, TrialStaysOk
<1> QED
  BY <1>1, <1>2 DEF Reported

(* The run begins with the invariant.                                      *)
LEMMA BatchInitial == PInit => BatchInv
<1> SUFFICES ASSUME PInit PROVE BatchInv
  OBVIOUS
<1>1. /\ batch = 1 /\ phase = "issue" /\ sent = {} /\ perPut = {} /\ done = <<>>
      /\ repeats = 0 /\ answered = {} /\ runs = <<>>
      /\ kind \in {"parallel", "split"} /\ stale = 0
      /\ left = {} /\ still = {} /\ asking = NoPiece /\ read = {}
      /\ stored = {} /\ trials = <<>>
  BY DEF PInit, Init
<1>2. \A p \in due : p[1] = 0
  BY DEF PInit, Init
<1>3. batch \in Batch /\ Sizes[batch] \in Nat \ {0}
  BY <1>1, SizeFacts
<1>4. IsFiniteSet({}) /\ Cardinality({}) = 0
  BY FS_EmptySet
<1>5. BatchTypeOK
  BY <1>1, <1>3, <1>4, SizeFacts DEF BatchTypeOK
<1>6. SentOwn
  BY <1>1, <1>3, <1>4 DEF SentOwn, FirstPuts
<1>7. CurveOwn
  BY <1>1, <1>4 DEF CurveOwn, Range, IsInjective
<1>8. OthersEarlier /\ ReadOwn
  BY <1>1, <1>2 DEF OthersEarlier, ReadOwn
<1>9. StaleOwn
  <2>1. Earlier = {}
    BY <1>1 DEF Earlier
  <2> QED
    BY <1>1, <1>4, <2>1 DEF StaleOwn
<1>10. Filed /\ Reported
  BY <1>1 DEF Filed, Reported
<1> QED
  BY <1>5, <1>6, <1>7, <1>8, <1>9, <1>10 DEF BatchInv

-----------------------------------------------------------------------------
(* The next put of the batch goes out; no answer can name it yet.          *)
LEMMA IssueStep == BatchInv /\ Issue /\ UNCHANGED svars => BatchInv'
<1> SUFFICES ASSUME BatchInv, Issue, UNCHANGED svars PROVE BatchInv'
  OBVIOUS
<1> DEFINE k == Cardinality(sent)
           p == <<batch, k + 1>>
<1>1. /\ phase = "issue" /\ k < Sizes[batch]
      /\ sent' = sent \cup {p} /\ due' = due \cup {p}
      /\ UNCHANGED <<batch, phase, perPut, done, repeats, answered, runs>>
      /\ UNCHANGED <<kind, stale, left, still, asking, read, stored, trials>>
  BY DEF Issue, svars, rvars
<1>2. /\ batch \in Batch /\ batch \in Nat /\ Sizes[batch] \in Nat
      /\ k \in Nat /\ sent = FirstPuts(batch, k) /\ IsFiniteSet(sent)
  BY SizeFacts DEF BatchInv, BatchTypeOK, SentOwn
<1>3. p \notin sent /\ p[1] = batch
  BY <1>2 DEF FirstPuts
<1>4. IsFiniteSet(sent') /\ Cardinality(sent') = k + 1
  BY <1>1, <1>2, <1>3, FS_AddElement
<1>5. sent' = FirstPuts(batch, k + 1)
  <2>1. 1 .. k + 1 = (1 .. k) \cup {k + 1}
    BY <1>2
  <2> HIDE DEF k
  <2> QED
    BY <1>1, <1>2, <2>1 DEF FirstPuts
<1> HIDE DEF k, p
<1>6. BatchTypeOK'
  BY <1>1, <1>4 DEF BatchInv, BatchTypeOK
<1>7. SentOwn'
  BY <1>1, <1>2, <1>4, <1>5 DEF SentOwn
<1>8. CurveOwn'
  BY <1>1 DEF BatchInv, CurveOwn
<1>9. OthersEarlier'
  <2>1. \A q \in due \cup answered : q[1] \in Nat /\ (q[1] < batch \/ q \in sent)
    BY <1>1 DEF BatchInv, OthersEarlier
  <2>2. due \cap answered = {}
    BY <1>1 DEF BatchInv, OthersEarlier
  <2>3. p \notin answered
    BY <1>2, <1>3, <2>1
  <2> QED
    BY <1>1, <1>2, <1>3, <2>1, <2>2, <2>3 DEF OthersEarlier
<1>10. ReadOwn' /\ StaleOwn' /\ Filed'
  BY <1>1 DEF BatchInv, ReadOwn, Pieces, StaleOwn, Earlier, Filed
<1>11. Reported'
  BY <1>1, ReportedKept DEF BatchInv, BatchTypeOK
<1> QED
  BY <1>6, <1>7, <1>8, <1>9, <1>10, <1>11 DEF BatchInv

(* The batch that is not finished files nothing: a send that fails, an     *)
(* error that is read, and a budget that is spent.                         *)
LEMMA StopStep ==
  ASSUME BatchInv, phase' \in {"done", "bailed"},
         phase \in {"issue", "collect"}, due' \subseteq due,
         UNCHANGED <<batch, sent, perPut, done, repeats, answered, runs, kind,
                     stale, left, still, asking, read, stored, trials>>
  PROVE  BatchInv'
<1>1. BatchTypeOK' /\ SentOwn' /\ CurveOwn'
  BY DEF BatchInv, BatchTypeOK, SentOwn, CurveOwn
<1>2. OthersEarlier'
  <2>1. /\ \A q \in due \cup answered : q[1] \in Nat /\ (q[1] < batch \/ q \in sent)
        /\ due \cap answered = {}
    BY DEF BatchInv, OthersEarlier
  <2>2. (due \cup answered)' \subseteq due \cup answered /\ (due \cap answered)' = {}
    BY <2>1
  <2> QED
    BY <2>1, <2>2 DEF OthersEarlier
<1>3. ReadOwn' /\ StaleOwn' /\ Filed'
  BY DEF BatchInv, ReadOwn, Pieces, StaleOwn, Earlier, Filed
<1>4. Reported'
  BY ReportedKept DEF BatchInv, BatchTypeOK
<1> QED
  BY <1>1, <1>2, <1>3, <1>4 DEF BatchInv

(* All are sent: the loops begin, the reader with all the pieces.          *)
LEMMA CollectStep ==
  ASSUME BatchInv, Collect,
         UNCHANGED <<kind, stale, still, asking, read, stored, trials>>,
         left' = left \/ (kind = "split" /\ left' = Pieces)
  PROVE  BatchInv'
<1>1. /\ phase = "issue" /\ phase' = "collect" /\ Cardinality(sent) = Sizes[batch]
      /\ UNCHANGED <<batch, sent, perPut, done, due, repeats, answered, runs>>
  BY DEF Collect
<1>2. BatchTypeOK' /\ SentOwn' /\ CurveOwn' /\ OthersEarlier' /\ StaleOwn' /\ Filed'
  BY <1>1 DEF BatchInv, BatchTypeOK, SentOwn, CurveOwn, OthersEarlier,
              StaleOwn, Earlier, Filed
<1>3. ReadOwn'
  BY <1>1 DEF BatchInv, ReadOwn, Pieces
<1>4. Reported'
  BY <1>1, ReportedKept DEF BatchInv, BatchTypeOK
<1> QED
  BY <1>2, <1>3, <1>4 DEF BatchInv

(* A first acknowledgement of a put of this batch advances the curve by    *)
(* one point.                                                              *)
LEMMA CountStep ==
  ASSUME BatchInv, NEW p \in Put, Count(p), UNCHANGED sent,
         answered' = answered \cup {p}
  PROVE  CurveOwn' /\ done' \in Seq(Put)
<1>1. /\ perPut \subseteq sent /\ perPut \subseteq answered
      /\ Range(done) = perPut /\ IsInjective(done)
      /\ Len(done) = Cardinality(perPut) /\ done \in Seq(Put)
      /\ IsFiniteSet(perPut)
  <2>1. IsFiniteSet(sent)
    BY DEF BatchInv, BatchTypeOK
  <2>2. perPut \subseteq sent
    BY DEF BatchInv, CurveOwn
  <2> QED
    BY <2>1, <2>2, FS_Subset DEF BatchInv, BatchTypeOK, CurveOwn
<1>2. CASE p \in sent \ perPut
  <2>1. perPut' = perPut \cup {p} /\ done' = Append(done, p)
    BY <1>2 DEF Count
  <2>2. /\ done' \in Seq(Put) /\ Len(done') = Len(done) + 1
        /\ DOMAIN done' = 1 .. Len(done) + 1
        /\ DOMAIN done = 1 .. Len(done) /\ Len(done) \in Nat
        /\ done'[Len(done) + 1] = p
        /\ \A n \in 1 .. Len(done) : done'[n] = done[n]
    BY <1>1, <2>1
  <2>3. Cardinality(perPut') = Cardinality(perPut) + 1
    BY <1>1, <1>2, <2>1, FS_AddElement
  <2>4. \A n \in 1 .. Len(done) : done[n] \in perPut
    BY <1>1, <2>2 DEF Range
  <2>5. IsInjective(done')
    <3>1. \A m, n \in 1 .. Len(done) : done[m] = done[n] => m = n
      BY <1>1, <2>2 DEF IsInjective
    <3>2. p \notin perPut
      BY <1>2
    <3>3. \A m, n \in 1 .. Len(done) + 1 : done'[m] = done'[n] => m = n
      <4> TAKE m, n \in 1 .. Len(done) + 1
      <4>1. m \in 1 .. Len(done) \/ m = Len(done) + 1
        BY <2>2
      <4>2. n \in 1 .. Len(done) \/ n = Len(done) + 1
        BY <2>2
      <4> QED
        BY <2>2, <2>4, <3>1, <3>2, <4>1, <4>2
    <3> QED
      BY <2>2, <3>3 DEF IsInjective
  <2>6. Range(done') = perPut'
    <3>1. perPut = {done[n] : n \in 1 .. Len(done)}
      BY <1>1, <2>2 DEF Range
    <3>2. 1 .. Len(done) + 1 = (1 .. Len(done)) \cup {Len(done) + 1}
      BY <2>2
    <3>3. Range(done') = {done'[n] : n \in 1 .. Len(done) + 1}
      BY <2>2 DEF Range
    <3>4. ASSUME NEW q PROVE q \in Range(done') <=> q \in perPut \/ q = p
      <4>1. q \in Range(done') <=>
              \/ \E n \in 1 .. Len(done) : q = done'[n]
              \/ q = done'[Len(done) + 1]
        BY <3>2, <3>3, Zenon
      <4>2. (\E n \in 1 .. Len(done) : q = done'[n])
              <=> (\E n \in 1 .. Len(done) : q = done[n])
        BY <2>2, Zenon
      <4> QED
        BY <2>2, <3>1, <4>1, <4>2, Zenon
    <3> QED
      BY <2>1, <3>4, Zenon
  <2>7. perPut' \subseteq sent' /\ perPut' \subseteq answered'
    BY <1>1, <1>2, <2>1
  <2> QED
    BY <1>1, <2>2, <2>3, <2>5, <2>6, <2>7 DEF CurveOwn
<1>3. CASE p \notin sent \ perPut
  <2>1. perPut' = perPut /\ done' = done
    BY <1>3 DEF Count
  <2> QED
    BY <1>1, <2>1 DEF CurveOwn
<1> QED
  BY <1>2, <1>3

(* An answer that is read is of this batch, or of an earlier one, and then *)
(* it is stale; the node's own repeats are counted apart.                  *)
LEMMA AckStep ==
  ASSUME BatchInv, NEW p \in Put, Ack(p),
         UNCHANGED <<kind, left, still, asking, read, stored, trials>>,
         \/ stale' = stale
         \/ kind = "split" /\ p \notin sent /\ stale' = stale + 1
  PROVE  BatchInv'
<1>1. /\ phase = "collect" /\ answered' = answered \cup {p} /\ Count(p)
      /\ UNCHANGED <<batch, phase, sent, runs>>
      /\ \/ p \in due /\ due' = due \ {p} /\ repeats' = repeats
         \/ /\ p \in answered /\ due' = due
            /\ repeats < MaxRepeat /\ repeats' = repeats + 1
  BY DEF Ack, Collecting
<1>2. /\ \A q \in due \cup answered : q[1] \in Nat /\ (q[1] < batch \/ q \in sent)
      /\ due \cap answered = {}
  BY <1>1 DEF BatchInv, OthersEarlier
<1>3. /\ IsFiniteSet(answered) /\ IsFiniteSet(stored)
      /\ repeats \in Nat /\ repeats <= MaxRepeat /\ stale \in Nat /\ batch \in Nat
  BY SizeFacts DEF BatchInv, BatchTypeOK
<1>4. IsFiniteSet(answered')
  BY <1>1, <1>3, FS_AddElement
<1>5. CurveOwn' /\ done' \in Seq(Put)
  BY <1>1, CountStep
<1>6. repeats' \in 0 .. MaxRepeat /\ stale' \in Nat
  BY <1>1, <1>3, SizeFacts
<1>7. BatchTypeOK'
  BY <1>1, <1>4, <1>5, <1>6 DEF BatchInv, BatchTypeOK
<1>8. SentOwn'
  BY <1>1 DEF BatchInv, SentOwn
<1>9. OthersEarlier'
  <2>1. due' \cup answered' \subseteq due \cup answered /\ due' \cap answered' = {}
    BY <1>1, <1>2
  <2> QED
    BY <1>1, <1>2, <2>1 DEF OthersEarlier
<1>10. ReadOwn'
  <2>1. kind = "parallel" => stale' = stale
    OBVIOUS
  <2> QED
    BY <1>1, <2>1 DEF BatchInv, ReadOwn, Pieces
<1>11. StaleOwn'
  <2> DEFINE E == Earlier
  <2>1. Cardinality(E) \in Nat /\ IsFiniteSet(E)
    BY <1>3, EarlierGrow DEF Earlier
  <2>2. stale <= Cardinality(E) + repeats /\ (stale > 0 => E # {})
    BY <1>1 DEF BatchInv, StaleOwn
  <2>3. Earlier' = IF p[1] < batch THEN E \cup {p} ELSE E
    BY <1>1 DEF Earlier
  <2>4. p \notin sent => p[1] < batch
    BY <1>1, <1>2
  <2>5. p \in answered /\ p[1] < batch => E \cup {p} = E
    BY DEF Earlier
  <2>6. p \notin answered => p \notin E
    BY DEF Earlier
  <2> HIDE DEF E
  <2>7. CASE p \in due /\ repeats' = repeats
    <3>1. p \notin E
      BY <1>2, <2>6, <2>7
    <3>2. Cardinality(E \cup {p}) = Cardinality(E) + 1
      BY <2>1, <3>1, FS_AddElement
    <3>3. CASE p[1] < batch
      <4>1. Earlier' = E \cup {p} /\ Cardinality(Earlier') = Cardinality(E) + 1
        BY <2>3, <3>2, <3>3
      <4>2. stale' <= Cardinality(E) + 1 + repeats
        BY <1>3, <2>1, <2>2
      <4> QED
        BY <2>1, <2>7, <4>1, <4>2 DEF StaleOwn
    <3>4. CASE ~ (p[1] < batch)
      <4>1. Earlier' = E /\ stale' = stale
        BY <2>3, <2>4, <3>4
      <4> QED
        BY <2>2, <2>7, <4>1 DEF StaleOwn
    <3> QED
      BY <3>3, <3>4
  <2>8. CASE p \in answered /\ repeats' = repeats + 1
    <3>1. Earlier' = E
      BY <2>3, <2>5, <2>8
    <3>2. stale' <= Cardinality(E) + (repeats + 1)
      BY <1>3, <2>1, <2>2
    <3>3. stale' > 0 => E # {}
      <4>1. CASE stale' = stale
        BY <2>2, <4>1
      <4>2. CASE p \notin sent
        <5>1. p \in E
          BY <2>4, <2>8, <4>2 DEF E, Earlier
        <5> QED
          BY <5>1
      <4> QED
        BY <4>1, <4>2
    <3> QED
      BY <2>8, <3>1, <3>2, <3>3 DEF StaleOwn
  <2> QED
    BY <1>1, <2>7, <2>8
<1>12. Filed'
  BY <1>1 DEF BatchInv, Filed
<1>13. Reported'
  BY <1>1, <1>3, <1>4, ReportedKept DEF BatchInv
<1> QED
  BY <1>5, <1>7, <1>8, <1>9, <1>10, <1>11, <1>12, <1>13 DEF BatchInv

-----------------------------------------------------------------------------
(* Clearing a batch leaves the next with nothing sent and nothing counted. *)
LEMMA ClearStep ==
  ASSUME BatchInv, phase = "collect",
         sent' = {}, perPut' = {}, done' = <<>>, stale' = 0,
         UNCHANGED <<due, repeats, answered, kind, stored>>,
         \/ batch' = batch + 1 /\ batch < Len(Sizes) /\ phase' = "issue"
         \/ batch' = batch /\ phase' = "done"
  PROVE  /\ batch' \in Batch /\ phase' \in {"issue", "done"}
         /\ IsFiniteSet(sent') /\ SentOwn' /\ CurveOwn' /\ OthersEarlier' /\ StaleOwn'
<1>1. batch \in Batch /\ batch \in Nat /\ repeats \in Nat /\ IsFiniteSet(answered)
  BY SizeFacts DEF BatchInv, BatchTypeOK
<1>2. batch' \in Batch /\ batch' \in Nat /\ Sizes[batch'] \in Nat
  BY <1>1, SizeFacts
<1>3. IsFiniteSet({}) /\ Cardinality({}) = 0
  BY FS_EmptySet
<1>4. SentOwn' /\ CurveOwn'
  BY <1>2, <1>3 DEF SentOwn, FirstPuts, CurveOwn, Range, IsInjective
<1>5. OthersEarlier'
  <2> SUFFICES ASSUME phase' # "done" PROVE OthersEarlier'
    BY DEF OthersEarlier
  <2>1. /\ \A q \in due \cup answered : q[1] \in Nat /\ (q[1] < batch \/ q \in sent)
        /\ due \cap answered = {}
    BY DEF BatchInv, OthersEarlier
  <2>2. sent = FirstPuts(batch, Cardinality(sent))
    BY DEF BatchInv, SentOwn
  <2>3. \A q \in sent : q[1] = batch
    BY <2>2 DEF FirstPuts
  <2>4. \A q \in due \cup answered : q[1] \in Nat /\ q[1] < batch + 1
    BY <1>1, <2>1, <2>3
  <2> QED
    BY <2>1, <2>4 DEF OthersEarlier
<1>6. StaleOwn'
  <2>1. Cardinality({p \in answered : p[1] < batch'}) \in Nat
    BY <1>1, EarlierGrow
  <2>2. Cardinality(Earlier') \in Nat
    BY <2>1 DEF Earlier
  <2> HIDE DEF Earlier
  <2> QED
    BY <1>1, <2>2 DEF StaleOwn
<1> QED
  BY <1>2, <1>3, <1>4, <1>5, <1>6

(* A batch that is over files its samples and its curve.                   *)
LEMMA EndBatchStep ==
  ASSUME BatchInv, kind = "parallel", EndBatch, UNCHANGED svars
  PROVE  BatchInv'
<1> DEFINE row == [samples |-> [i \in 1 .. Sizes[batch] |->
                                  IF Order(batch)[i] \in perPut THEN "ms"
                                  ELSE "no response"],
                   curve |-> done]
<1>1. /\ phase = "collect" /\ runs' = Append(runs, row)
      /\ sent' = {} /\ perPut' = {} /\ done' = <<>>
      /\ UNCHANGED <<due, repeats, answered>>
      /\ UNCHANGED <<kind, stale, left, still, asking, read, stored, trials>>
      /\ \/ batch' = batch + 1 /\ batch < Len(Sizes) /\ phase' = "issue"
         \/ batch' = batch /\ phase' = "done"
  BY DEF EndBatch, Report, svars, rvars
<1>2. /\ batch \in Batch /\ batch \in Nat /\ Sizes[batch] \in Nat
      /\ perPut \subseteq FirstPuts(batch, Sizes[batch]) /\ perPut \subseteq answered
      /\ Range(done) = perPut /\ IsInjective(done) /\ done \in Seq(Put)
      /\ runs \in Seq(RunRows) /\ Len(runs) = batch - 1
      /\ stale = 0 /\ left = {} /\ still = {} /\ asking = NoPiece /\ read = {}
  <2>1. /\ batch \in Batch /\ batch \in Nat /\ Sizes[batch] \in Nat
        /\ done \in Seq(Put) /\ runs \in Seq(RunRows)
    BY SizeFacts DEF BatchInv, BatchTypeOK
  <2>2. sent = FirstPuts(batch, Sizes[batch])
    BY <1>1 DEF BatchInv, SentOwn
  <2>3. /\ perPut \subseteq sent /\ perPut \subseteq answered
        /\ Range(done) = perPut /\ IsInjective(done)
    BY DEF BatchInv, CurveOwn
  <2>4. Len(runs) = batch - 1
    BY <1>1 DEF BatchInv, Filed
  <2>5. stale = 0 /\ left = {} /\ still = {} /\ asking = NoPiece /\ read = {}
    BY DEF BatchInv, ReadOwn
  <2> QED
    BY <2>1, <2>2, <2>3, <2>4, <2>5
<1>3. row \in RunRows /\ CurveOk(batch, row, answered)
  <2>1. \A i \in 1 .. Sizes[batch] : Order(batch)[i] = <<batch, i>>
    BY <1>2, OrderFacts
  <2>2. /\ row.samples \in Seq(Statuses) /\ Len(row.samples) = Sizes[batch]
        /\ row.curve = done
        /\ \A i \in 1 .. Sizes[batch] :
             row.samples[i] = "ms" <=> <<batch, i>> \in perPut
    <3> DEFINE said == [i \in 1 .. Sizes[batch] |->
                          IF Order(batch)[i] \in perPut THEN "ms"
                          ELSE "no response"]
    <3>1. /\ DOMAIN said = 1 .. Sizes[batch]
          /\ \A i \in 1 .. Sizes[batch] : said[i] \in Statuses
      BY DEF Statuses
    <3>2. \A i \in 1 .. Sizes[batch] : said[i] = "ms" <=> <<batch, i>> \in perPut
      BY <2>1
    <3>3. row.samples = said /\ row.curve = done
      OBVIOUS
    <3>4. said = [i \in 1 .. Sizes[batch] |-> said[i]]
      OBVIOUS
    <3> HIDE DEF said
    <3>5. said \in Seq(Statuses) /\ Len(said) = Sizes[batch]
      <4> DEFINE n == Sizes[batch]
      <4>1. said \in [1 .. n -> Statuses]
        BY <3>1, <3>4, Zenon
      <4>2. n \in Nat
        BY <1>2
      <4> HIDE DEF n, row
      <4>3. said \in Seq(Statuses) /\ Len(said) = n
        BY <4>1, <4>2
      <4> QED
        BY <4>3 DEF n
    <3> HIDE DEF row
    <3> QED
      BY <3>2, <3>3, <3>5
  <2>3. row \in RunRows
    BY <1>2, <2>2 DEF RunRows
  <2> HIDE DEF row
  <2>4. Answered(row) = {i \in 1 .. Sizes[batch] : <<batch, i>> \in perPut}
    BY <2>2 DEF Answered
  <2>5. {<<batch, i>> : i \in Answered(row)} = perPut
    BY <1>2, <2>4 DEF FirstPuts
  <2> QED
    BY <1>2, <2>2, <2>3, <2>5 DEF CurveOk
<1> HIDE DEF row
<1>4. /\ batch' \in Batch /\ phase' \in {"issue", "done"} /\ IsFiniteSet(sent')
      /\ SentOwn' /\ CurveOwn' /\ OthersEarlier' /\ StaleOwn'
  BY <1>1, <1>2, ClearStep
<1>5. /\ runs' \in Seq(RunRows) /\ Len(runs') = batch /\ runs'[batch] = row
      /\ \A b \in 1 .. Len(runs) : runs'[b] = runs[b]
  BY <1>1, <1>2, <1>3
<1>6. BatchTypeOK'
  BY <1>1, <1>4, <1>5 DEF BatchInv, BatchTypeOK
<1>7. ReadOwn'
  BY <1>1, <1>2 DEF ReadOwn
<1>8. Filed'
  BY <1>1, <1>2, <1>5 DEF Filed
<1>9. Reported'
  <2>1. ASSUME NEW b \in 1 .. Len(runs') PROVE CurveOk(b, runs'[b], answered)
    <3>1. CASE b = batch
      BY <1>3, <1>5, <3>1
    <3>2. CASE b # batch
      <4>1. b \in 1 .. Len(runs) /\ runs'[b] = runs[b]
        BY <1>2, <1>5, <3>2
      <4> QED
        BY <4>1 DEF BatchInv, Reported
    <3> QED
      BY <3>1, <3>2
  <2> QED
    BY <1>1, <2>1 DEF BatchInv, Reported
<1> QED
  BY <1>4, <1>6, <1>7, <1>8, <1>9 DEF BatchInv

(* What a trial has counted when both its loops are over is its own.       *)
LEMMA CountedOwn ==
  ASSUME BatchInv, phase = "collect",
         NEW r \in TrialRows,
         r.acks = Len(done), r.readable = Cardinality(read), r.stale = stale,
         r.ack_last => Len(done) = Sizes[batch],
         r.readable_last => Cardinality(read) = Sizes[batch]
  PROVE  TrialOk(batch, r, answered, stored)
<1>1. /\ batch \in Batch /\ batch \in Nat /\ Sizes[batch] \in Nat
      /\ IsFiniteSet(answered) /\ IsFiniteSet(stored) /\ IsFiniteSet(sent)
      /\ repeats \in Nat /\ repeats <= MaxRepeat /\ MaxRepeat \in Nat /\ stale \in Nat
  BY SizeFacts DEF BatchInv, BatchTypeOK
<1>2. /\ sent = FirstPuts(batch, Sizes[batch]) /\ Cardinality(sent) = Sizes[batch]
      /\ Pieces = sent /\ Range(Order(batch)) = sent
  BY <1>1, OrderFacts DEF BatchInv, SentOwn, Pieces
<1>3. /\ perPut \subseteq sent /\ perPut \subseteq answered
      /\ Len(done) = Cardinality(perPut)
      /\ read \subseteq sent /\ read \subseteq stored
  BY <1>2 DEF BatchInv, CurveOwn, ReadOwn
<1>4. \A p \in sent : p[1] = batch
  BY <1>2 DEF FirstPuts
<1>5. /\ IsFiniteSet(perPut) /\ IsFiniteSet(read)
      /\ Cardinality(perPut) = Cardinality(sent) => perPut = sent
      /\ Cardinality(read) = Cardinality(sent) => read = sent
  BY <1>1, <1>3, FS_Subset
<1>6. Cardinality(perPut) <= Of(batch, answered)
  <2>1. {p \in perPut : p[1] = batch} = perPut
    BY <1>3, <1>4
  <2>2. Of(batch, perPut) <= Of(batch, answered)
    BY <1>1, <1>3, OfGrows
  <2> QED
    BY <2>1, <2>2 DEF Of
<1>7. Cardinality(read) <= Of(batch, stored)
  <2>1. {p \in read : p[1] = batch} = read
    BY <1>3, <1>4
  <2>2. Of(batch, read) <= Of(batch, stored)
    BY <1>1, <1>3, OfGrows
  <2> QED
    BY <2>1, <2>2 DEF Of
<1>8. r.ack_last => Range(Order(batch)) \subseteq answered
  BY <1>2, <1>3, <1>5
<1>9. r.readable_last => Range(Order(batch)) \subseteq stored
  BY <1>2, <1>3, <1>5
<1>10. stale <= IF Earlier = {} THEN 0 ELSE Cardinality(Earlier) + MaxRepeat
  <2>1. stale <= Cardinality(Earlier) + repeats /\ (stale > 0 => Earlier # {})
    BY DEF BatchInv, StaleOwn
  <2>2. Cardinality(Earlier) \in Nat
    BY <1>1, EarlierGrow DEF Earlier
  <2> QED
    BY <1>1, <2>1, <2>2
<1> QED
  BY <1>3, <1>6, <1>7, <1>8, <1>9, <1>10 DEF TrialOk, Earlier

(* A trial that is over files what each of its clocks saw.                 *)
LEMMA EndTrialStep == BatchInv /\ EndTrial => BatchInv'
<1> SUFFICES ASSUME BatchInv, EndTrial PROVE BatchInv'
  OBVIOUS
<1> DEFINE row == [acks |-> Len(done), readable |-> Cardinality(read),
                   stale |-> stale,
                   ack_last |-> Len(done) = Sizes[batch],
                   readable_last |-> Cardinality(read) = Sizes[batch]]
<1>1. /\ kind = "split" /\ phase = "collect" /\ trials' = Append(trials, row)
      /\ sent' = {} /\ perPut' = {} /\ done' = <<>> /\ stale' = 0
      /\ left' = {} /\ still' = {} /\ read' = {} /\ asking = NoPiece
      /\ UNCHANGED <<due, repeats, answered, runs, kind, asking, stored>>
      /\ \/ batch' = batch + 1 /\ batch < Len(Sizes) /\ phase' = "issue"
         \/ batch' = batch /\ phase' = "done"
  BY DEF EndTrial, Polling
<1>2. /\ batch \in Nat /\ trials \in Seq(TrialRows) /\ Len(trials) = batch - 1
      /\ IsFiniteSet(answered) /\ IsFiniteSet(stored)
  BY <1>1, SizeFacts DEF BatchInv, BatchTypeOK, Filed
<1>3. row \in TrialRows
  <2>1. Cardinality(read) \in Nat
    <3>1. read \subseteq stored
      BY DEF BatchInv, ReadOwn
    <3> QED
      BY <1>2, <3>1, FS_Subset, FS_CardinalityType
  <2>2. Len(done) \in Nat /\ stale \in Nat
    BY DEF BatchInv, BatchTypeOK
  <2> QED
    BY <2>1, <2>2 DEF TrialRows
<1>4. /\ row.acks = Len(done) /\ row.readable = Cardinality(read)
      /\ row.stale = stale
      /\ row.ack_last => Len(done) = Sizes[batch]
      /\ row.readable_last => Cardinality(read) = Sizes[batch]
  OBVIOUS
<1> HIDE DEF row
<1>5. TrialOk(batch, row, answered, stored)
  BY <1>1, <1>3, <1>4, CountedOwn
<1>6. /\ batch' \in Batch /\ phase' \in {"issue", "done"} /\ IsFiniteSet(sent')
      /\ SentOwn' /\ CurveOwn' /\ OthersEarlier' /\ StaleOwn'
  BY <1>1, ClearStep
<1>7. /\ trials' \in Seq(TrialRows) /\ Len(trials') = batch /\ trials'[batch] = row
      /\ \A t \in 1 .. Len(trials) : trials'[t] = trials[t]
  BY <1>1, <1>2, <1>3
<1>8. BatchTypeOK'
  BY <1>1, <1>6, <1>7 DEF BatchInv, BatchTypeOK
<1>9. ReadOwn' /\ Filed'
  BY <1>1, <1>2, <1>7 DEF ReadOwn, Filed
<1>10. Reported'
  <2>1. ASSUME NEW t \in 1 .. Len(trials')
        PROVE  TrialOk(t, trials'[t], answered, stored)
    <3>1. CASE t = batch
      BY <1>5, <1>7, <3>1
    <3>2. CASE t # batch
      <4>1. t \in 1 .. Len(trials) /\ trials'[t] = trials[t]
        BY <1>2, <1>7, <3>2
      <4> QED
        BY <4>1 DEF BatchInv, Reported
    <3> QED
      BY <3>1, <3>2
  <2> QED
    BY <1>1, <2>1 DEF BatchInv, Reported
<1> QED
  BY <1>6, <1>8, <1>9, <1>10 DEF BatchInv

(* The reader's side moves pieces of this trial about, and a piece is read *)
(* only when the node can serve it.                                        *)
LEMMA ReaderStep ==
  ASSUME BatchInv, kind = "split", UNCHANGED <<vars, kind, stale, trials>>,
         left' \subseteq Pieces, still' \subseteq Pieces,
         asking' \in Pieces \cup {NoPiece},
         read' \subseteq Pieces, read' \subseteq stored',
         stored \subseteq stored', IsFiniteSet(stored')
  PROVE  BatchInv'
<1>1. UNCHANGED <<batch, phase, sent, perPut, done, due, repeats, answered, runs>>
  BY DEF vars
<1>2. /\ BatchTypeOK' /\ SentOwn' /\ CurveOwn' /\ OthersEarlier' /\ StaleOwn'
      /\ Filed'
  BY <1>1 DEF BatchInv, BatchTypeOK, SentOwn, CurveOwn, OthersEarlier,
              StaleOwn, Earlier, Filed
<1>3. Pieces' = Pieces
  BY <1>1 DEF Pieces
<1>4. ReadOwn'
  BY <1>3 DEF BatchInv, ReadOwn
<1>5. Reported'
  BY <1>1, ReportedKept DEF BatchInv, BatchTypeOK
<1> QED
  BY <1>2, <1>4, <1>5 DEF BatchInv

(* Every step of the parallel batches keeps the invariant.                 *)
LEMMA ParallelStep == BatchInv /\ Parallel => BatchInv'
<1> SUFFICES ASSUME BatchInv, Parallel PROVE BatchInv'
  OBVIOUS
<1>1. kind = "parallel" /\ Next /\ UNCHANGED svars
  BY DEF Parallel
<1>2. UNCHANGED <<kind, stale, left, still, asking, read, stored, trials>>
  BY <1>1 DEF svars, rvars
<1>3. CASE Issue
  BY <1>1, <1>3, IssueStep
<1>4. CASE SendFailed
  BY <1>2, <1>4, StopStep DEF SendFailed
<1>5. CASE Collect
  BY <1>2, <1>5, CollectStep
<1>6. CASE EndBatch
  BY <1>1, <1>6, EndBatchStep
<1>7. ASSUME NEW p \in Put, Ack(p) PROVE BatchInv'
  BY <1>2, <1>7, AckStep
<1>8. ASSUME NEW p \in Put, NodeError(p) PROVE BatchInv'
  <2>1. due' \subseteq due /\ phase = "collect" /\ phase' = "bailed"
        /\ UNCHANGED <<batch, sent, perPut, done, repeats, answered, runs>>
    BY <1>8 DEF NodeError, Collecting
  <2> QED
    BY <1>2, <2>1, StopStep
<1> QED
  BY <1>1, <1>3, <1>4, <1>5, <1>6, <1>7, <1>8 DEF Next, Client

(* And every step of the trials of a split put.                            *)
LEMMA SplitStep == BatchInv /\ Split => BatchInv'
<1> SUFFICES ASSUME BatchInv, Split PROVE BatchInv'
  OBVIOUS
<1>0. /\ IsFiniteSet(stored) /\ read \subseteq Pieces /\ read \subseteq stored
      /\ asking \in Pieces \cup {NoPiece}
      /\ left \subseteq Pieces /\ still \subseteq Pieces
  BY DEF BatchInv, BatchTypeOK, ReadOwn
<1>1. CASE Budget
  BY <1>1, StopStep DEF Budget, svars, rvars
<1>2. CASE PutPiece
  <2>1. UNCHANGED <<kind, stale, left, still, asking, read, stored, trials>>
    BY <1>2 DEF PutPiece, svars, rvars
  <2>2. CASE Issue
    BY <1>2, <2>2, IssueStep DEF PutPiece
  <2>3. CASE SendFailed
    BY <2>1, <2>3, StopStep DEF SendFailed
  <2> QED
    BY <1>2, <2>2, <2>3 DEF PutPiece
<1>3. CASE BothBegin
  BY <1>3, CollectStep DEF BothBegin
<1>4. CASE Deadline
  BY <1>0, <1>4, ReaderStep DEF Deadline, rvars
<1>5. CASE Missed
  <2>1. /\ kind = "split" /\ UNCHANGED <<vars, kind, stale, read, stored, trials>>
        /\ left' = left \ {asking} /\ asking' = NoPiece
        /\ still' = still \cup {asking} /\ asking # NoPiece
    BY <1>5 DEF Missed, Polling
  <2> QED
    BY <1>0, <2>1, ReaderStep
<1>6. CASE NextPass
  BY <1>0, <1>6, ReaderStep DEF NextPass, Polling
<1>7. CASE AskFails
  BY <1>7, StopStep DEF AskFails, Polling, svars, rvars
<1>8. CASE EndTrial
  BY <1>8, EndTrialStep
<1>9. ASSUME NEW p \in Put, CollectAck(p) PROVE BatchInv'
  <2>1. /\ kind = "split" /\ Ack(p)
        /\ UNCHANGED <<kind, left, still, asking, read, stored, trials>>
        /\ \/ stale' = stale
           \/ kind = "split" /\ p \notin sent /\ stale' = stale + 1
    BY <1>9 DEF CollectAck, rvars
  <2> QED
    BY <2>1, AckStep
<1>10. ASSUME NEW p \in Put, AckError(p) PROVE BatchInv'
  <2>1. /\ due' \subseteq due /\ phase = "collect" /\ phase' = "bailed"
        /\ UNCHANGED <<batch, sent, perPut, done, repeats, answered, runs>>
        /\ UNCHANGED <<kind, stale, left, still, asking, read, stored, trials>>
    BY <1>10 DEF AckError, NodeError, Collecting, svars, rvars
  <2> QED
    BY <2>1, StopStep
<1>11. ASSUME NEW p \in Put, Ask(p) PROVE BatchInv'
  BY <1>0, <1>11, ReaderStep DEF Ask, Polling
<1>12. ASSUME NEW p \in Put, ReadAnswer(p) PROVE BatchInv'
  <2>1. /\ kind = "split" /\ p \in stored /\ asking # NoPiece
        /\ UNCHANGED <<vars, kind, stale, still, stored, trials>>
        /\ \/ /\ p = asking /\ read' = read \cup {p}
              /\ left' = left \ {p} /\ asking' = NoPiece
           \/ UNCHANGED <<read, left, asking>>
    BY <1>12 DEF ReadAnswer, Polling
  <2> QED
    BY <1>0, <2>1, ReaderStep
<1>13. ASSUME NEW p \in Put, Store(p) PROVE BatchInv'
  <2>1. /\ kind = "split" /\ stored' = stored \cup {p}
        /\ UNCHANGED <<vars, kind, stale, left, still, asking, read, trials>>
    BY <1>13 DEF Store, rvars
  <2>2. IsFiniteSet(stored')
    BY <1>0, <2>1, FS_AddElement
  <2> QED
    BY <1>0, <2>1, <2>2, ReaderStep
<1> QED
  BY <1>1, <1>2, <1>3, <1>4, <1>5, <1>6, <1>7, <1>8, <1>9, <1>10, <1>11, <1>12,
     <1>13 DEF Split

(* The invariant holds in every state of every run.                        *)
THEOREM BatchInvHolds == PSpec => []BatchInv
<1>1. PInit => BatchInv
  BY BatchInitial
<1>2. BatchInv /\ [PNext]_pvars => BatchInv'
  <2> SUFFICES ASSUME BatchInv, [PNext]_pvars PROVE BatchInv'
    OBVIOUS
  <2>1. CASE UNCHANGED pvars
    BY <2>1 DEF pvars, vars, svars, rvars, BatchInv, BatchTypeOK, SentOwn,
                CurveOwn, OthersEarlier, ReadOwn, Pieces, StaleOwn, Earlier,
                Filed, Reported
  <2> QED
    BY <2>1, ParallelStep, SplitStep DEF PNext
<1> QED
  BY <1>1, <1>2, PTL DEF PSpec

(* Of every batch, also of one that reached its deadline, the report has   *)
(* as many samples as puts, and a curve of its own first acknowledgements, *)
(* whatever stragglers and repeats were read in between (measure_parallel  *)
(* of latency.rs).                                                         *)
THEOREM CurveIsOwnHolds == PSpec => []CurveIsOwn
<1>1. BatchInv => CurveIsOwn
  BY DEF BatchInv, Reported, CurveOk, CurveIsOwn
<1> QED
  BY <1>1, BatchInvHolds, PTL

(* Of every trial of a split put, each clock counts this trial's own       *)
(* pieces, its last one only when all were acknowledged or there to be     *)
(* read, and what it discards as late is an earlier trial's (trial of      *)
(* putshape.rs).                                                           *)
THEOREM TrialIsOwnHolds == PSpec => []TrialIsOwn
<1>1. BatchInv => TrialIsOwn
  <2> SUFFICES ASSUME BatchInv PROVE TrialIsOwn
    OBVIOUS
  <2>1. DOMAIN trials = 1 .. Len(trials)
    BY DEF BatchInv, BatchTypeOK
  <2> QED
    BY <2>1 DEF BatchInv, Reported, TrialOk, TrialIsOwn
<1> QED
  BY <1>1, BatchInvHolds, PTL

-----------------------------------------------------------------------------
(***************************************************************************)
(* Dialogue.                                                               *)
(***************************************************************************)
(* The requests are made in order, each once: what was read, or given up,  *)
(* is of an earlier one than the one at hand.                              *)
Running == stage \in {"send", "wait"}

InOrder ==
  /\ DOMAIN inbox = Conns
  /\ at \in Nat
  /\ Running => at \in DOMAIN script
  /\ Running => \A i \in DOMAIN got \cup gaveUp : i \in Nat /\ i < at

(* Until a request is given up, the node has received, or answered, the    *)
(* one that is waited for and no other.                                    *)
OwesOne ==
  gaveUp = {} =>
    /\ stage = "send" => pending = {} /\ inbox["c"] = <<>>
    /\ stage = "wait" =>
         /\ pending \subseteq {at}
         /\ \/ inbox["c"] = <<>>
            \/ pending = {} /\ \E m : inbox["c"] = <<m>> /\ m.of = at

RowsInv == tool = "cost" => InOrder /\ OwesOne /\ RowsAreOwn

-----------------------------------------------------------------------------
(* An element of S and n more in a row.                                   *)
LEMMA OneAndMore ==
  ASSUME NEW S, NEW a \in S, NEW n \in Nat, NEW u \in [1 .. n -> S]
  PROVE  <<a>> \o u \in Seq(S) /\ Len(<<a>> \o u) = 1 + n
<1>1. <<a>> \in Seq(S) /\ Len(<<a>>) = 1
  OBVIOUS
<1>2. u \in Seq(S) /\ Len(u) = n
  OBVIOUS
<1> QED
  BY <1>1, <1>2

(* validate_cost has a seed and three updates, on one connection.          *)
LEMMA CostFacts ==
  ASSUME tool = "cost"
  PROVE  /\ DOMAIN script = 1 .. 4 /\ Len(script) = 4
         /\ \A i \in 1 .. 4 : script[i].conn = "c"
<1> DEFINE names == <<"row1", "row2", "row3">>
           seed == Request("seed", "c", "put", "k", "seed", "own", {})
           updates == [i \in 1 .. 3 |->
                         Request(names[i], "c", "update", "k", names[i], "next", {})]
           All == {seed} \cup {updates[i] : i \in 1 .. 3}
<1>1. script = <<seed>> \o updates
  BY DEF script, Script, Tools, CostScript
<1>2. \A x \in All : x.conn = "c"
  BY DEF Request
<1>3. updates \in [1 .. 3 -> All] /\ seed \in All
  OBVIOUS
<1> HIDE DEF seed, updates, All
<1>4. ASSUME NEW n \in Nat, n = 3 PROVE script \in Seq(All) /\ Len(script) = 1 + n
  <2>1. updates \in [1 .. n -> All]
    BY <1>3, <1>4, Zenon
  <2>2. <<seed>> \o updates \in Seq(All) /\ Len(<<seed>> \o updates) = 1 + n
    BY <1>3, <2>1, OneAndMore
  <2> QED
    BY <1>1, <2>2, Zenon
<1>5. script \in Seq(All) /\ Len(script) = 4
  <2>1. 3 \in Nat /\ 1 + 3 = 4
    OBVIOUS
  <2> QED
    BY <1>4, <2>1
<1>6. ASSUME NEW s \in Seq(All), NEW k \in Nat, Len(s) = k
      PROVE  DOMAIN s = 1 .. k /\ \A i \in 1 .. k : s[i] \in All
  BY <1>6
<1>7. DOMAIN script = 1 .. 4 /\ \A i \in 1 .. 4 : script[i] \in All
  BY <1>5, <1>6
<1> QED
  BY <1>2, <1>5, <1>7

(* A command begins with nothing sent.                                     *)
LEMMA RowsInitial == DInit => RowsInv
<1> SUFFICES ASSUME DInit, tool = "cost" PROVE RowsInv
  BY DEF RowsInv
<1>1. /\ at = 1 /\ stage = "send" /\ DOMAIN got = {} /\ pending = {}
      /\ inbox = [c \in Conns |-> <<>>] /\ gaveUp = {}
  BY DEF DInit
<1>2. "c" \in Conns /\ at \in DOMAIN script
  BY <1>1, CostFacts DEF Conns
<1> QED
  BY <1>1, <1>2 DEF RowsInv, InOrder, OwesOne, RowsAreOwn, Running

-----------------------------------------------------------------------------
(* However a wait ends, the row it leaves is its own, or no row's, or of a *)
(* request behind one that was given up.                                   *)
LEMMA EndsStep ==
  ASSUME tool = "cost", RowsInv, Running, UNCHANGED tool,
         gaveUp' = gaveUp \/ gaveUp' = gaveUp \cup {at},
         DOMAIN inbox' = DOMAIN inbox,
         NEW answer, Ends(answer),
         answer.ok => answer.own \/ gaveUp # {}
  PROVE  InOrder' /\ RowsAreOwn' /\ stage' # "wait"
<1>1. /\ at \in DOMAIN script /\ at \in Nat /\ DOMAIN inbox = Conns
      /\ \A i \in DOMAIN got \cup gaveUp : i \in Nat /\ i < at
      /\ \A i \in DOMAIN got :
           got[i].ok /\ (\A j \in gaveUp : i < j) => got[i].own
  BY DEF RowsInv, InOrder, RowsAreOwn
<1>2. DOMAIN script = 1 .. 4 /\ Len(script) = 4 /\ script' = script
  BY CostFacts DEF script
<1>3. /\ stage' # "wait"
      /\ stage' = "send" => at' = at + 1 /\ at # 4
      /\ at' = at \/ at' = at + 1
  BY <1>2 DEF Ends
<1>4. \/ got' = got
      \/ /\ DOMAIN got' = DOMAIN got \cup {at} /\ got'[at] = answer
         /\ \A i \in DOMAIN got : got'[i] = got[i]
  <2>1. CASE request.id = Sent
    BY <2>1 DEF Ends
  <2>2. CASE request.id # Sent
    <3>1. got' = [i \in DOMAIN got \cup {at} |-> IF i = at THEN answer ELSE got[i]]
      BY <2>2 DEF Ends
    <3>2. at \notin DOMAIN got
      BY <1>1
    <3> QED
      BY <3>1, <3>2
  <2> QED
    BY <2>1, <2>2
<1>5. InOrder'
  <2>1. Running' => at' = at + 1 /\ at' \in DOMAIN script
    BY <1>1, <1>2, <1>3 DEF Running
  <2>2. \A i \in DOMAIN got' \cup gaveUp' : i \in Nat /\ i < at + 1
    BY <1>1, <1>4
  <2> QED
    BY <1>1, <1>2, <1>3, <2>1, <2>2 DEF InOrder
<1>6. RowsAreOwn'
  <2> SUFFICES ASSUME NEW i \in DOMAIN got', got'[i].ok, \A j \in gaveUp' : i < j
               PROVE  got'[i].own
    BY DEF RowsAreOwn
  <2>1. \A j \in gaveUp : i < j
    OBVIOUS
  <2>2. CASE i \in DOMAIN got
    BY <1>1, <1>4, <2>1, <2>2
  <2>3. CASE i \notin DOMAIN got
    <3>1. i = at /\ got'[i] = answer
      BY <1>4, <2>3
    <3>2. gaveUp = {}
      BY <1>1, <2>1, <3>1
    <3> QED
      BY <3>1, <3>2
  <2> QED
    BY <2>2, <2>3
<1> QED
  BY <1>3, <1>5, <1>6

(* The command's own steps.                                                *)
LEMMA HarnessStep == tool = "cost" /\ RowsInv /\ Harness => RowsInv'
<1> SUFFICES ASSUME tool = "cost", RowsInv, Harness PROVE RowsInv'
  OBVIOUS
<1>1. Running /\ UNCHANGED tool
  BY DEF Harness, Skip, Send, SendFails, Take, GiveUp, Running
<1>2. at \in DOMAIN script /\ request.conn = "c" /\ script' = script
  BY <1>1, CostFacts DEF RowsInv, InOrder, request, script
<1>3. InOrder /\ OwesOne /\ RowsAreOwn /\ DOMAIN inbox = Conns /\ "c" \in Conns
  BY DEF RowsInv, InOrder, Conns
<1>4. Nothing.ok = FALSE
  BY DEF Nothing
<1>5. CASE Skip
  <2>1. /\ stage = "send" /\ Ends(Nothing)
        /\ UNCHANGED <<tool, pending, inbox, gaveUp>>
    BY <1>5 DEF Skip
  <2>2. InOrder' /\ RowsAreOwn' /\ stage' # "wait"
    BY <1>1, <1>4, <2>1, EndsStep
  <2>3. OwesOne'
    BY <1>3, <2>1, <2>2 DEF OwesOne
  <2> QED
    BY <2>2, <2>3 DEF RowsInv
<1>6. CASE Send
  <2>1. /\ stage = "send" /\ stage' = "wait" /\ pending' = pending \cup {at}
        /\ UNCHANGED <<tool, at, got, inbox, gaveUp>>
    BY <1>6 DEF Send
  <2>2. InOrder' /\ RowsAreOwn'
    BY <1>2, <1>3, <2>1 DEF InOrder, RowsAreOwn, Running
  <2>3. OwesOne'
    BY <1>3, <2>1 DEF OwesOne
  <2> QED
    BY <2>2, <2>3 DEF RowsInv
<1>7. CASE SendFails
  <2>1. stage' = "bailed" /\ UNCHANGED <<tool, at, got, pending, inbox, gaveUp>>
    BY <1>7 DEF SendFails
  <2> QED
    BY <1>3, <2>1 DEF RowsInv, InOrder, OwesOne, RowsAreOwn, Running
<1>8. CASE Take
  <2> DEFINE m == Head(inbox["c"])
  <2>1. /\ stage = "wait" /\ inbox["c"] # <<>>
        /\ inbox' = [inbox EXCEPT !["c"] = Tail(@)]
        /\ \/ Ends(AnswerOf(m)) \/ Ends(Nothing)
           \/ UNCHANGED <<at, stage, got>>
        /\ UNCHANGED <<tool, pending, gaveUp>>
    BY <1>2, <1>8 DEF Take
  <2>2. DOMAIN inbox' = DOMAIN inbox /\ inbox'["c"] = Tail(inbox["c"])
    BY <1>3, <2>1
  <2>3. gaveUp = {} => m.of = at /\ Tail(inbox["c"]) = <<>> /\ pending = {}
    BY <1>3, <2>1 DEF OwesOne
  <2>4. AnswerOf(m).own = (m.of = at)
    BY DEF AnswerOf
  <2> HIDE DEF m
  <2>5. InOrder' /\ RowsAreOwn'
    <3>1. CASE Ends(AnswerOf(m))
      BY <1>1, <2>1, <2>2, <2>3, <2>4, <3>1, EndsStep
    <3>2. CASE Ends(Nothing)
      BY <1>1, <1>4, <2>1, <2>2, <3>2, EndsStep
    <3>3. CASE UNCHANGED <<at, stage, got>>
      BY <1>2, <1>3, <2>1, <2>2, <3>3 DEF InOrder, RowsAreOwn, Running
    <3> QED
      BY <2>1, <3>1, <3>2, <3>3
  <2>6. OwesOne'
    BY <2>1, <2>2, <2>3 DEF OwesOne
  <2> QED
    BY <2>5, <2>6 DEF RowsInv
<1>9. CASE GiveUp
  <2>1. /\ stage = "wait" /\ Ends(Nothing) /\ UNCHANGED <<tool, pending, inbox>>
        /\ \/ Unanswered /\ gaveUp' = gaveUp
           \/ gaveUp' = gaveUp \cup {at}
    BY <1>9 DEF GiveUp
  <2>2. InOrder' /\ RowsAreOwn' /\ stage' # "wait"
    BY <1>1, <1>4, <2>1, EndsStep
  <2>3. OwesOne'
    <3> SUFFICES ASSUME gaveUp' = {} PROVE pending' = {} /\ inbox'["c"] = <<>>
      BY <2>2 DEF OwesOne
    <3>1. Unanswered /\ gaveUp = {}
      BY <2>1
    <3> QED
      BY <1>2, <1>3, <2>1, <3>1 DEF OwesOne, Unanswered
  <2> QED
    BY <2>2, <2>3 DEF RowsInv
<1> QED
  BY <1>5, <1>6, <1>7, <1>8, <1>9 DEF Harness

(* The node's: it answers what it was sent, once, or not at all.           *)
LEMMA RowsNodeStep == tool = "cost" /\ RowsInv /\ Node => RowsInv'
<1> SUFFICES ASSUME tool = "cost", RowsInv, Node PROVE RowsInv'
  OBVIOUS
<1>0. PICK i \in pending : Decide(i) \/ Answer(i) \/ Fault(i)
  BY DEF Node
<1>1. PICK what, held, out : Says(i, what, held, out)
  BY <1>0 DEF Decide, Answer, Fault
<1>2. Running /\ UNCHANGED gaveUp
  BY DEF Node, Decide, Answer, Fault, Says, Running
<1> DEFINE m == [of |-> i, kind |-> what, held |-> held]
<1>3. /\ pending' = pending \ {i}
      /\ \/ inbox' = inbox
         \/ inbox' = [inbox EXCEPT ![script[i].conn] = Append(@, m)]
      /\ UNCHANGED <<tool, at, stage, got>>
  BY <1>1 DEF Says, command
<1>4. m.of = i
  OBVIOUS
<1> HIDE DEF m
<1>5. InOrder /\ OwesOne /\ RowsAreOwn /\ DOMAIN inbox = Conns /\ "c" \in Conns
  BY DEF RowsInv, InOrder, Conns
<1>6. InOrder' /\ RowsAreOwn'
  <2>1. script' = script /\ DOMAIN inbox' = DOMAIN inbox
    BY <1>3 DEF script
  <2> QED
    BY <1>2, <1>3, <1>5, <2>1 DEF InOrder, RowsAreOwn, Running
<1>7. OwesOne'
  <2> SUFFICES ASSUME gaveUp = {}
               PROVE  /\ stage = "wait" /\ pending' = {}
                      /\ inbox'["c"] = <<>> \/ (inbox'["c"] = <<m>> /\ m.of = at)
    BY <1>2, <1>3 DEF OwesOne
  <2>1. stage = "wait" /\ i = at /\ pending = {at} /\ inbox["c"] = <<>>
    BY <1>1, <1>2, <1>5 DEF OwesOne, Running
  <2>2. script[i].conn = "c"
    BY <1>2, <1>5, <2>1, CostFacts DEF InOrder
  <2>3. Append(<<>>, m) = <<m>>
    OBVIOUS
  <2> QED
    BY <1>3, <1>4, <1>5, <2>1, <2>2, <2>3
<1> QED
  BY <1>6, <1>7 DEF RowsInv

(* The invariant holds in every state of every run.                        *)
THEOREM RowsInvHolds == DSpec => []RowsInv
<1>1. DInit => RowsInv
  BY RowsInitial
<1>2. RowsInv /\ [DNext]_dvars => RowsInv'
  <2> SUFFICES ASSUME RowsInv, [DNext]_dvars PROVE RowsInv'
    OBVIOUS
  <2>1. UNCHANGED tool
    BY DEF DNext, Harness, Skip, Send, SendFails, Take, GiveUp, Node, Decide,
           Answer, Fault, Says, Ended, dvars, command
  <2>2. CASE tool # "cost"
    BY <2>1, <2>2 DEF RowsInv
  <2>3. CASE UNCHANGED dvars
    BY <2>3 DEF dvars, command, RowsInv, InOrder, OwesOne, RowsAreOwn, Running,
                script
  <2> QED
    BY <2>2, <2>3, HarnessStep, RowsNodeStep DEF DNext, Ended
<1> QED
  BY <1>1, <1>2, PTL DEF DSpec

(* Up to the first update whose wait ended without its answer having been  *)
(* read, the time of every row of validate_cost is the time of that row's  *)
(* own update, for any number of late answers and failures                 *)
(* (timed_update).                                                         *)
THEOREM RowsAreOwnHolds == DSpec => []RowsAreOwn
<1>1. RowsInv => RowsAreOwn
  BY DEF RowsInv, RowsAreOwn
<1> QED
  BY <1>1, RowsInvHolds, PTL
=============================================================================
