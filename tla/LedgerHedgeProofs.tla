------------------------- MODULE LedgerHedgeProofs --------------------------
(* Proofs, for every value of their constants, about Ledger and, behind    *)
(* it, about Hedge.  The two share the facts about naturals, and nothing   *)
(* else: neither half cites a definition of the other's module.            *)
EXTENDS Ledger, Hedge, SequencesExt, SequenceTheorems, FiniteSetTheorems,
        WellFoundedInduction, TLAPS

-----------------------------------------------------------------------------
(* Facts about naturals and sequences, of no component.                    *)

LessThan == {ss \in Nat \X Nat : ss[1] < ss[2]}

(* No set of naturals descends for ever.                                   *)
LEMMA LessThanWellFounded == IsWellFoundedOn(LessThan, Nat)
BY NatLessThanWellFounded, Zenon DEF OpToRel, LessThan

(* A nonempty set of naturals has a least element.                         *)
LEMMA NatMin ==
  ASSUME NEW I \in SUBSET Nat, I # {}
  PROVE  Min(I) \in I /\ \A y \in I : Min(I) <= y
<1>1. PICK x \in I : \A y \in I : <<y, x>> \notin LessThan
  BY LessThanWellFounded, WFMin, Zenon
<1>2. \A y \in I : x <= y
  <2> TAKE y \in I
  <2>1. <<y, x>> \in Nat \X Nat /\ <<y, x>>[1] = y /\ <<y, x>>[2] = x
    OBVIOUS
  <2>2. ~ (y < x)
    BY <1>1, <2>1, Zenon DEF LessThan
  <2> QED
    BY <2>2, SMT
<1> QED
  BY <1>2 DEF Min

(* r is s without one occurrence of e.                                     *)
WithoutOne(S, s, e, r) ==
  /\ r \in Seq(S) /\ Len(r) = Len(s) - 1
  /\ \E i \in 1 .. Len(s) :
       /\ s[i] = e
       /\ \A n \in 1 .. Len(s) - 1 : r[n] = IF n < i THEN s[n] ELSE s[n + 1]

(* Removing an element that occurs takes one occurrence out and moves up    *)
(* what is behind it (Vec::remove at the position found, in Ledger::answered *)
(* and Ledger::finish).                                                      *)
LEMMA RemoveFirstExact ==
  ASSUME NEW S, NEW s \in Seq(S), NEW e, \E i \in 1 .. Len(s) : s[i] = e
  PROVE  WithoutOne(S, s, e, RemoveFirst(s, e))
<1> DEFINE I == {n \in 1 .. Len(s) : s[n] = e}
           i == Min(I)
           a == SubSeq(s, 1, i - 1)
           b == SubSeq(s, i + 1, Len(s))
           r == RemoveFirst(s, e)
<1>1. i \in 1 .. Len(s) /\ s[i] = e
  <2>1. I \in SUBSET Nat /\ I # {}
    OBVIOUS
  <2>2. i \in I
    <3> HIDE DEF I
    <3> QED
      BY <2>1, NatMin
  <2> QED
    BY <2>2
<1>2. r = a \o b
  BY Zenon DEF RemoveFirst, RemoveAt, SelectInSeq
<1> HIDE DEF i
<1>3. /\ a \in Seq(S) /\ Len(a) = i - 1
      /\ \A n \in 1 .. (i - 1) : a[n] = s[n]
  BY <1>1, SubSeqProperties
<1>4. /\ b \in Seq(S) /\ Len(b) = Len(s) - i
      /\ \A n \in 1 .. (Len(s) - i) : b[n] = s[n + i]
  BY <1>1, SubSeqProperties
<1> HIDE DEF a, b
<1>5. /\ a \o b \in Seq(S)
      /\ Len(a \o b) = Len(a) + Len(b)
      /\ \A n \in 1 .. Len(a) + Len(b) :
           (a \o b)[n] = IF n <= Len(a) THEN a[n] ELSE b[n - Len(a)]
  BY <1>3, <1>4, ConcatProperties
<1> HIDE DEF r
<1>6. r \in Seq(S) /\ Len(r) = Len(s) - 1
  BY <1>1, <1>2, <1>3, <1>4, <1>5
<1>7. ASSUME NEW n \in 1 .. Len(s) - 1
      PROVE  r[n] = IF n < i THEN s[n] ELSE s[n + 1]
  <2>1. CASE n < i
    BY <2>1, <1>1, <1>2, <1>3, <1>4, <1>5, <1>6
  <2>2. CASE ~ n < i
    <3>1. r[n] = b[n - (i - 1)] /\ n - (i - 1) \in 1 .. (Len(s) - i)
      BY <2>2, <1>1, <1>2, <1>3, <1>4, <1>5, <1>6
    <3>2. b[n - (i - 1)] = s[(n - (i - 1)) + i] /\ (n - (i - 1)) + i = n + 1
      BY <3>1, <1>4, <1>1, <1>6
    <3> QED
      BY <2>2, <3>1, <3>2
  <2> QED
    BY <2>1, <2>2
<1>8. WithoutOne(S, s, e, r)
  BY <1>1, <1>6, <1>7 DEF WithoutOne
<1> QED
  BY <1>8 DEF r

(* It leaves a sequence without that element alone, and adds nothing.       *)
LEMMA RemoveFirstShape ==
  ASSUME NEW S, NEW s \in Seq(S), NEW e
  PROVE  /\ RemoveFirst(s, e) \in Seq(S)
         /\ (e \in {s[i] : i \in 1 .. Len(s)}) => Len(RemoveFirst(s, e)) = Len(s) - 1
         /\ (e \notin {s[i] : i \in 1 .. Len(s)}) => RemoveFirst(s, e) = s
         /\ \A n \in 1 .. Len(RemoveFirst(s, e)) :
              \E m \in 1 .. Len(s) : RemoveFirst(s, e)[n] = s[m]
<1>1. CASE ~ \E i \in 1 .. Len(s) : s[i] = e
  BY <1>1 DEF RemoveFirst
<1>2. CASE \E i \in 1 .. Len(s) : s[i] = e
  <2> DEFINE r == RemoveFirst(s, e)
  <2>0. WithoutOne(S, s, e, r)
    BY <1>2, RemoveFirstExact
  <2> HIDE DEF r
  <2>1. r \in Seq(S) /\ Len(r) = Len(s) - 1 /\ Len(s) \in Nat
    BY <2>0 DEF WithoutOne
  <2>2. PICK i \in 1 .. Len(s) :
          \A n \in 1 .. Len(s) - 1 : r[n] = IF n < i THEN s[n] ELSE s[n + 1]
    BY <2>0, Zenon DEF WithoutOne
  <2>3. ASSUME NEW n \in 1 .. Len(r)
        PROVE  \E m \in 1 .. Len(s) : r[n] = s[m]
    <3>1. n \in 1 .. Len(s) /\ n + 1 \in 1 .. Len(s) /\ n \in 1 .. Len(s) - 1
      BY <2>1
    <3> QED
      BY <2>2, <3>1
  <2> QED
    BY <1>2, <2>1, <2>3 DEF r
<1> QED
  BY <1>1, <1>2

-----------------------------------------------------------------------------
(* How often an element occurs in a sequence.                              *)

Places(s, e) == {n \in 1 .. Len(s) : s[n] = e}
Occurrences(s, e) == Cardinality(Places(s, e))

(* A sequence has finitely many places.                                    *)
LEMMA PlacesFinite ==
  ASSUME NEW S, NEW s \in Seq(S), NEW e
  PROVE  IsFiniteSet(Places(s, e)) /\ Occurrences(s, e) \in Nat
<1>1. IsFiniteSet(1 .. Len(s))
  <2>1. Len(s) \in Int
    OBVIOUS
  <2> QED
    BY <2>1, FS_Interval
<1>2. IsFiniteSet(Places(s, e))
  BY <1>1, FS_Subset, Zenon DEF Places
<1> QED
  BY <1>2, FS_CardinalityType, Zenon DEF Occurrences

(* Appending x makes one more occurrence of x and no other.                *)
LEMMA AppendOccurrences ==
  ASSUME NEW S, NEW s \in Seq(S), NEW x \in S, NEW e
  PROVE  Occurrences(Append(s, x), e) =
           IF x = e THEN Occurrences(s, e) + 1 ELSE Occurrences(s, e)
<1> DEFINE t == Append(s, x)
           m == Len(s) + 1
<1>1. /\ Len(s) \in Nat /\ t \in Seq(S) /\ Len(t) = m /\ t[m] = x
      /\ \A n \in 1 .. Len(s) : t[n] = s[n]
  OBVIOUS
<1>2. 1 .. m = (1 .. Len(s)) \cup {m} /\ m \notin 1 .. Len(s)
  BY <1>1
<1> HIDE DEF t, m
<1>3. IsFiniteSet(Places(s, e)) /\ m \notin Places(s, e)
  BY <1>2, PlacesFinite DEF Places
<1>4. CASE x = e
  <2>1. Places(t, e) = Places(s, e) \cup {m}
    BY <1>1, <1>2, <1>4 DEF Places
  <2> QED
    BY <1>3, <1>4, <2>1, FS_AddElement DEF Occurrences, t
<1>5. CASE x # e
  <2>1. Places(t, e) = Places(s, e)
    BY <1>1, <1>2, <1>5 DEF Places
  <2> QED
    BY <1>5, <2>1 DEF Occurrences, t
<1> QED
  BY <1>4, <1>5

(* Removing the first occurrence of an element leaves one fewer of it and  *)
(* as many of every other.                                                 *)
LEMMA RemoveFirstOccurrences ==
  ASSUME NEW S, NEW s \in Seq(S), NEW e, NEW x,
         \E i \in 1 .. Len(s) : s[i] = e
  PROVE  Occurrences(RemoveFirst(s, e), x) =
           IF x = e THEN Occurrences(s, x) - 1 ELSE Occurrences(s, x)
<1> DEFINE r == RemoveFirst(s, e)
<1>0. WithoutOne(S, s, e, r)
  BY RemoveFirstExact
<1> HIDE DEF r
<1>1. r \in Seq(S) /\ Len(r) = Len(s) - 1 /\ Len(s) \in Nat
  BY <1>0 DEF WithoutOne
<1>2. PICK i \in 1 .. Len(s) :
        /\ s[i] = e
        /\ \A n \in 1 .. Len(s) - 1 : r[n] = IF n < i THEN s[n] ELSE s[n + 1]
  BY <1>0, Zenon DEF WithoutOne
<1> DEFINE A == Places(s, x) \ {i}
           B == Places(r, x)
           f == [n \in B |-> IF n < i THEN n ELSE n + 1]
<1>3. IsFiniteSet(B) /\ IsFiniteSet(Places(s, x))
  BY <1>1, PlacesFinite
<1>4. \A n \in B : /\ n \in 1 .. Len(s) - 1 /\ r[n] = x
                   /\ f[n] = IF n < i THEN n ELSE n + 1
  BY <1>1 DEF Places
<1>5. \A n \in B : f[n] \in A
  <2> TAKE n \in B
  <2>1. f[n] \in 1 .. Len(s) /\ f[n] # i
    BY <1>1, <1>4
  <2>2. s[f[n]] = x
    BY <1>2, <1>4
  <2> QED
    BY <2>1, <2>2 DEF Places
<1>6. \A m, n \in B : f[m] = f[n] => m = n
  BY <1>1, <1>4
<1>7. \A m \in A : \E n \in B : f[n] = m
  <2> TAKE m \in A
  <2>1. m \in 1 .. Len(s) /\ s[m] = x /\ m # i
    BY DEF Places
  <2>2. CASE m < i
    <3>1. m \in 1 .. Len(s) - 1 /\ r[m] = x
      BY <1>1, <1>2, <2>1, <2>2
    <3>2. m \in B
      BY <1>1, <3>1 DEF Places
    <3> QED
      BY <1>4, <2>2, <3>2
  <2>3. CASE ~ m < i
    <3>1. /\ m - 1 \in 1 .. Len(s) - 1 /\ ~ (m - 1 < i) /\ (m - 1) + 1 = m
      BY <1>1, <2>1, <2>3
    <3>2. r[m - 1] = x
      BY <1>2, <2>1, <3>1
    <3>3. m - 1 \in B
      BY <1>1, <3>1, <3>2 DEF Places
    <3> QED
      BY <1>4, <3>1, <3>3
  <2> QED
    BY <2>2, <2>3
<1>8. ExistsBijection(B, A)
  <2>1. f \in [B -> A]
    BY <1>5
  <2> HIDE DEF f
  <2>2. f \in Bijection(B, A)
    BY <1>6, <1>7, <2>1 DEF Bijection, Injection, Surjection, IsInjective
  <2> QED
    BY <2>2 DEF ExistsBijection
<1>9. Cardinality(A) = Occurrences(r, x)
  <2> HIDE DEF A, B, f
  <2>1. Cardinality(A) = Cardinality(B)
    BY <1>3, <1>8, FS_Bijection
  <2> QED
    BY <2>1 DEF B, Occurrences
<1>10. i \in Places(s, x) <=> x = e
  BY <1>2 DEF Places
<1> QED
  BY <1>3, <1>9, <1>10, FS_RemoveElement DEF Occurrences, r

-----------------------------------------------------------------------------
(* What each operation of the ledger returns.                              *)

(* Ledger::request opens one more request.                                 *)
LEMMA RequestEffect ==
  ASSUME NEW L \in LedgerShape, NEW l \in Label
  PROVE  /\ request(L, l) \in LedgerShape
         /\ request(L, l).open = Append(L.open, l)
         /\ Len(request(L, l).open) = Len(L.open) + 1
         /\ request(L, l).sent = L.sent + 1
         /\ request(L, l).received = L.received
         /\ request(L, l).owed = L.owed
         /\ request(L, l).okEnded = L.okEnded
<1>1. L.open \in Seq(Label) /\ L.sent + 1 \in Nat
  BY DEF LedgerShape
<1>2. Append(L.open, l) \in Seq(Label) /\ Len(Append(L.open, l)) = Len(L.open) + 1
  BY <1>1
<1>3. request(L, l) \in LedgerShape
  BY <1>1, <1>2 DEF request, LedgerShape
<1>4. request(L, l).open = Append(L.open, l)
  BY DEF request, LedgerShape
<1>5. /\ request(L, l).sent = L.sent + 1
      /\ request(L, l).received = L.received
      /\ request(L, l).owed = L.owed
      /\ request(L, l).okEnded = L.okEnded
  BY DEF request, LedgerShape
<1> QED
  BY <1>2, <1>3, <1>4, <1>5

(* Ledger::answered closes at most one request.                            *)
LEMMA AnsweredEffect ==
  ASSUME NEW L \in LedgerShape, NEW k \in Label
  PROVE  LET R == answered(L, k) IN
         /\ R \in LedgerShape
         /\ R.open = RemoveFirst(L.open, k)
         /\ Len(R.open) \in (Len(L.open) - 1) .. Len(L.open)
         /\ R.received = L.received + 1
         /\ R.sent = L.sent /\ R.owed = L.owed /\ R.okEnded = L.okEnded
<1>1. L.open \in Seq(Label)
  BY DEF LedgerShape
<1>2. /\ RemoveFirst(L.open, k) \in Seq(Label)
      /\ Len(RemoveFirst(L.open, k)) \in (Len(L.open) - 1) .. Len(L.open)
  <2>1. Len(L.open) \in Nat /\ RemoveFirst(L.open, k) \in Seq(Label)
    BY <1>1, RemoveFirstShape
  <2>2. \/ Len(RemoveFirst(L.open, k)) = Len(L.open)
        \/ Len(RemoveFirst(L.open, k)) = Len(L.open) - 1
    BY <1>1, RemoveFirstShape
  <2> QED
    BY <2>1, <2>2
<1> DEFINE r == RemoveFirst(L.open, k)
<1>3. answered(L, k) \in LedgerShape
  <2>1. L.received + 1 \in Nat
    BY DEF LedgerShape
  <2>2. answered(L, k) = [L EXCEPT !.open = r, !.received = @ + 1]
    BY DEF answered
  <2> HIDE DEF r
  <2> QED
    BY <1>2, <2>1, <2>2 DEF LedgerShape, r
<1>4. /\ answered(L, k).open = RemoveFirst(L.open, k)
      /\ answered(L, k).received = L.received + 1
      /\ answered(L, k).sent = L.sent
      /\ answered(L, k).owed = L.owed
      /\ answered(L, k).okEnded = L.okEnded
  BY DEF answered, LedgerShape
<1> QED
  BY <1>2, <1>3, <1>4

(* Ledger::response closes at most one request, and none while an answer   *)
(* is owed.                                                                *)
LEMMA ResponseEffect ==
  ASSUME NEW L \in LedgerShape
  PROVE  LET R == response(L) IN
         /\ R \in LedgerShape
         /\ Len(R.open) \in (Len(L.open) - 1) .. Len(L.open)
         /\ R.received = L.received + 1
         /\ R.sent = L.sent /\ R.owed = L.owed
         /\ L.owed > 0 => R.open = L.open /\ R.okEnded = L.okEnded
         /\ (L.owed = 0 /\ L.open = <<>>) =>
              R.open = <<>> /\ R.okEnded = L.okEnded
         /\ (L.owed = 0 /\ L.open # <<>>) =>
              /\ R.open = Tail(L.open)
              /\ R.okEnded = L.okEnded \cup {Head(L.open)}
<1>1. /\ L.open \in Seq(Label) /\ L.owed \in Nat
      /\ L.received + 1 \in Nat /\ L.ambiguous + 1 \in Nat
  BY DEF LedgerShape
<1>2. CASE L.owed > 0
  <2>1. response(L) = [L EXCEPT !.received = @ + 1, !.ambiguous = @ + 1]
    BY <1>2 DEF response
  <2>2. response(L) \in LedgerShape
    BY <1>1, <2>1 DEF LedgerShape
  <2>3. /\ response(L).open = L.open
        /\ response(L).received = L.received + 1
        /\ response(L).sent = L.sent
        /\ response(L).owed = L.owed
        /\ response(L).okEnded = L.okEnded
    BY <2>1 DEF LedgerShape
  <2> QED
    BY <1>1, <1>2, <2>2, <2>3
<1>3. CASE ~ L.owed > 0 /\ L.open = <<>>
  <2>1. response(L) = [L EXCEPT !.received = @ + 1]
    BY <1>3 DEF response
  <2>2. response(L) \in LedgerShape
    BY <1>1, <2>1 DEF LedgerShape
  <2>3. /\ response(L).open = L.open
        /\ response(L).received = L.received + 1
        /\ response(L).sent = L.sent
        /\ response(L).owed = L.owed
        /\ response(L).okEnded = L.okEnded
    BY <2>1 DEF LedgerShape
  <2> QED
    BY <1>1, <1>3, <2>2, <2>3
<1>4. CASE ~ L.owed > 0 /\ L.open # <<>>
  <2> DEFINE h == Head(L.open)
             e == [L.endings EXCEPT ![h] = @ + 1]
             o == L.okEnded \cup {h}
  <2>1. /\ h \in Label /\ Tail(L.open) \in Seq(Label)
        /\ Len(Tail(L.open)) = Len(L.open) - 1
    BY <1>1, <1>4
  <2>2. response(L) = [L EXCEPT !.open = Tail(@), !.received = @ + 1,
                                !.endings = e, !.okEnded = o]
    BY <1>4 DEF response
  <2> HIDE DEF h
  <2>3. e \in [Label -> Nat] /\ o \in SUBSET Label
    BY <2>1 DEF LedgerShape
  <2> HIDE DEF e, o
  <2>4. response(L) \in LedgerShape
    BY <1>1, <2>1, <2>2, <2>3 DEF LedgerShape
  <2>5. /\ response(L).open = Tail(L.open)
        /\ response(L).received = L.received + 1
        /\ response(L).sent = L.sent
        /\ response(L).owed = L.owed
        /\ response(L).okEnded = o
    BY <2>2 DEF LedgerShape
  <2> QED
    BY <1>1, <1>4, <2>1, <2>4, <2>5 DEF h, o
<1> QED
  BY <1>2, <1>3, <1>4

(* Ledger::finish closes at most one request, and an ending for which      *)
(* nothing came back leaves one more answer owed.                          *)
LEMMA FinishEffect ==
  ASSUME NEW L \in LedgerShape, NEW l \in Label, NEW res
  PROVE  LET R == finish(L, l, res) IN
         /\ R \in LedgerShape
         /\ R.open = RemoveFirst(L.open, l)
         /\ Len(R.open) \in (Len(L.open) - 1) .. Len(L.open)
         /\ R.received = L.received
         /\ R.sent = L.sent /\ R.okEnded = L.okEnded
         /\ R.owed = IF res \in {"Timeout", "Blocked"}
                     THEN L.owed + 1 ELSE L.owed
<1>1. L.open \in Seq(Label) /\ L.owed \in Nat /\ L.endings \in [Label -> Nat]
  BY DEF LedgerShape
<1>2. /\ RemoveFirst(L.open, l) \in Seq(Label)
      /\ Len(RemoveFirst(L.open, l)) \in (Len(L.open) - 1) .. Len(L.open)
  <2>1. Len(L.open) \in Nat /\ RemoveFirst(L.open, l) \in Seq(Label)
    BY <1>1, RemoveFirstShape
  <2>2. \/ Len(RemoveFirst(L.open, l)) = Len(L.open)
        \/ Len(RemoveFirst(L.open, l)) = Len(L.open) - 1
    BY <1>1, RemoveFirstShape
  <2> QED
    BY <2>1, <2>2
<1>3. finish(L, l, res) \in LedgerShape
  <2>1. [L.endings EXCEPT ![l] = @ + 1] \in [Label -> Nat]
    BY <1>1
  <2>2. (IF res \in {"Timeout", "Blocked"} THEN L.owed + 1 ELSE L.owed) \in Nat
    BY <1>1
  <2> QED
    BY <1>2, <2>1, <2>2 DEF finish, LedgerShape
<1>4. /\ finish(L, l, res).open = RemoveFirst(L.open, l)
      /\ finish(L, l, res).received = L.received
      /\ finish(L, l, res).sent = L.sent
      /\ finish(L, l, res).okEnded = L.okEnded
      /\ finish(L, l, res).owed = IF res \in {"Timeout", "Blocked"}
                                      THEN L.owed + 1 ELSE L.owed
  BY DEF finish, LedgerShape
<1> QED
  BY <1>2, <1>3, <1>4

-----------------------------------------------------------------------------
(* Type correctness.                                                       *)

(* Every label a request may carry is a label, and 0 is none of them.      *)
LEMMA LabelFacts ==
  /\ Req \subseteq Label /\ Keys \subseteq Label /\ 0 \notin Label
  /\ \A i \in Req, k \in Keys, f \in AllForms : LabelOf(f, i, k) \in Label
  /\ \A i \in Req, k \in Keys : i # k
  /\ NoKey \in Keys
BY LedgerAssumption DEF Req, Label, LabelOf, NoKey

(* A connection is used in one way from beginning to end.                  *)
LEMMA CallerStays == [Next]_vars => caller' = caller /\ Awaits' = Awaits
BY DEF Next, Send, SendBlocked, NamedAnswer, UnnamedAnswer, Refused,
       Notification, GiveUp, vars, Awaits

(* What is assumed of every use of a connection.                           *)
LEMMA CallerFacts ==
  TypeOK => /\ caller \in Callers
            /\ \A f \in caller.forms : f \in AllForms
            /\ caller.notify \in Nat
            /\ Awaits => caller.forms = {"blind"} /\ caller.notify = 0
BY LedgerAssumption DEF TypeOK, Awaits

(* Every step keeps the ledger and the history well formed.                *)
LEMMA TypeInductive == TypeOK /\ [Next]_vars => TypeOK'
<1> SUFFICES ASSUME TypeOK, [Next]_vars PROVE TypeOK'
  OBVIOUS
<1> USE LabelFacts
<1>0. /\ ledger \in LedgerShape /\ ledger.sent \in Nat /\ MaxReq \in Nat
      /\ \A f \in caller.forms : f \in AllForms
      /\ caller' = caller /\ caller \in Callers /\ caller.notify \in Nat
  BY LedgerAssumption, CallerStays, CallerFacts DEF TypeOK, LedgerShape
<1>1. ASSUME NEW f \in caller.forms, NEW k \in Keys, NEW ok \in BOOLEAN, Send(f, k, ok) PROVE TypeOK'
  <2> DEFINE i == ledger.sent + 1
             l == LabelOf(f, i, k)
  <2>1. i \in Req /\ l \in Label /\ i \in 0 .. MaxReq /\ i <= MaxReq
    BY <1>0, <1>1 DEF Send, MaySend, Req
  <2>2. /\ ledger' = request(ledger, l)
        /\ form' = [form EXCEPT ![i] = f] /\ key' = [key EXCEPT ![i] = k]
        /\ answer' = [answer EXCEPT ![i] = "due"]
        /\ current' = (IF Awaits THEN i ELSE 0)
        /\ up' = ok /\ notified' = notified
    BY <1>1 DEF Send
  <2> HIDE DEF l
  <2>3. ledger' \in LedgerShape /\ ledger'.sent = i
    BY <1>0, <2>1, <2>2, RequestEffect
  <2> HIDE DEF i
  <2> QED
    BY <1>0, <2>1, <2>2, <2>3 DEF TypeOK
<1>2. ASSUME NEW f \in caller.forms, NEW k \in Keys, SendBlocked(f, k)
      PROVE  TypeOK'
  <2> DEFINE i == ledger.sent + 1
             l == LabelOf(f, i, k)
             R == request(ledger, l)
  <2>1. i \in Req /\ l \in Label /\ i <= MaxReq
    BY <1>0, <1>2 DEF SendBlocked, MaySend, Req
  <2>2. /\ ledger' = finish(R, l, "Timeout")
        /\ form' = [form EXCEPT ![i] = f] /\ key' = [key EXCEPT ![i] = k]
        /\ up' = FALSE
        /\ answer' = answer /\ current' = current /\ notified' = notified
    BY <1>2 DEF SendBlocked
  <2> HIDE DEF l
  <2>3. R \in LedgerShape /\ R.sent = i
    BY <1>0, <2>1, RequestEffect
  <2> HIDE DEF R, i
  <2>4. ledger' \in LedgerShape /\ ledger'.sent = i
    BY <2>1, <2>2, <2>3, FinishEffect
  <2> QED
    BY <1>0, <2>1, <2>2, <2>4 DEF TypeOK
<1>3. ASSUME NEW i \in Req, NamedAnswer(i) PROVE TypeOK'
  <2>1. /\ key[i] \in Label
        /\ answered(ledger, key[i]) \in LedgerShape
        /\ answered(ledger, key[i]).sent = ledger.sent
    BY <1>0, AnsweredEffect DEF TypeOK
  <2>2. ledger' \in LedgerShape /\ ledger'.sent = ledger.sent
    <3>1. CASE Awaits /\ key[i] = key[current]
      <4>1. current \in Label
        BY <1>3, <3>1 DEF NamedAnswer, Read, Receiving, TypeOK, Req
      <4> QED
        BY <1>3, <2>1, <3>1, <4>1, FinishEffect DEF NamedAnswer
    <3>2. CASE ~ (Awaits /\ key[i] = key[current])
      BY <1>3, <2>1, <3>2 DEF NamedAnswer
    <3> QED
      BY <3>1, <3>2
  <2> QED
    BY <1>0, <1>3, <2>2 DEF NamedAnswer, Read, TypeOK
<1>4. ASSUME NEW i \in Req, UnnamedAnswer(i) PROVE TypeOK'
  <2>1. ledger' \in LedgerShape /\ ledger'.sent = ledger.sent
    BY <1>0, <1>4, ResponseEffect DEF UnnamedAnswer
  <2> QED
    BY <1>0, <1>4, <2>1 DEF UnnamedAnswer, Read, TypeOK
<1>5. ASSUME NEW i \in Req, Refused(i) PROVE TypeOK'
  <2>1. response(ledger) \in LedgerShape /\ response(ledger).sent = ledger.sent
    BY <1>0, ResponseEffect
  <2>2. ledger' \in LedgerShape /\ ledger'.sent = ledger.sent
    <3>1. CASE Awaits
      <4>1. current \in Label
        BY <1>5, <3>1 DEF Refused, Read, Receiving, TypeOK, Req
      <4> QED
        BY <1>5, <2>1, <3>1, <4>1, FinishEffect DEF Refused
    <3>2. CASE ~ Awaits
      BY <1>5, <2>1, <3>2 DEF Refused
    <3> QED
      BY <3>1, <3>2
  <2> QED
    BY <1>0, <1>5, <2>2 DEF Refused, Read, TypeOK
<1>6. CASE Notification
  <2>1. ledger' \in LedgerShape /\ ledger'.sent = ledger.sent
    BY <1>0, <1>6, ResponseEffect DEF Notification
  <2> QED
    BY <1>0, <1>6, <2>1, LedgerAssumption DEF Notification, TypeOK
<1>7. CASE GiveUp
  <2>1. current \in Label
    BY <1>7 DEF GiveUp, TypeOK, Req
  <2>2. ledger' \in LedgerShape /\ ledger'.sent = ledger.sent
    BY <1>0, <1>7, <2>1, FinishEffect DEF GiveUp
  <2> QED
    BY <1>0, <1>7, <2>2 DEF GiveUp, TypeOK
<1>8. CASE UNCHANGED vars
  BY <1>8 DEF vars, TypeOK
<1> QED
  BY <1>1, <1>2, <1>3, <1>4, <1>5, <1>6, <1>7, <1>8 DEF Next

(* Whatever the callers send and however the node answers, the ledger and  *)
(* the history stay well formed.                                           *)
THEOREM TypeCorrect == Spec => []TypeOK
<1>1. Init => TypeOK
  <2> SUFFICES ASSUME Init PROVE TypeOK
    OBVIOUS
  <2>1. ledger \in LedgerShape /\ ledger.sent = 0
    BY DEF Init, EmptyLedger, LedgerShape
  <2> QED
    BY <2>1, LabelFacts, LedgerAssumption DEF Init, TypeOK
<1> QED
  BY <1>1, TypeInductive, PTL DEF Spec

-----------------------------------------------------------------------------
(* Unanswered requests are reported.  The count is not inductive: one      *)
(* answer must not close two requests, and the waiting caller closes twice *)
(* for one answer (the transport, then `finish`).  It is safe because the  *)
(* only request open while it waits is its own.                            *)

OnlyCurrentOpen ==
  Awaits => \/ ledger.open = <<>>
            \/ (current # 0 /\ ledger.open = <<current>>)

(* Closing in a ledger that holds at most the request c.                   *)
LEMMA RemoveFromOne ==
  ASSUME NEW c \in Label, NEW l \in Label
  PROVE  /\ RemoveFirst(<<>>, l) = <<>>
         /\ RemoveFirst(<<c>>, c) = <<>>
         /\ l # c => RemoveFirst(<<c>>, l) = <<c>>
<1>1. RemoveFirst(<<>>, l) = <<>>
  BY DEF RemoveFirst
<1>2. ASSUME l # c PROVE RemoveFirst(<<c>>, l) = <<c>>
  <2>1. /\ <<c>> \in Seq(Label)
        /\ \A i \in 1 .. Len(<<c>>) : <<c>>[i] # l
    BY <1>2
  <2>2. l \notin {<<c>>[i] : i \in 1 .. Len(<<c>>)}
    BY <2>1
  <2> QED
    BY <2>1, <2>2, RemoveFirstShape
<1>3. RemoveFirst(<<c>>, c) = <<>>
  <2>1. <<c>> \in Seq(Label) /\ Len(<<c>>) = 1 /\ <<c>>[1] = c
    OBVIOUS
  <2>2. c \in {<<c>>[i] : i \in 1 .. Len(<<c>>)}
    BY <2>1
  <2>3. /\ RemoveFirst(<<c>>, c) \in Seq(Label)
        /\ Len(RemoveFirst(<<c>>, c)) = Len(<<c>>) - 1
    BY <2>1, <2>2, RemoveFirstShape, Zenon
  <2>4. Len(RemoveFirst(<<c>>, c)) = 0
    BY <2>1, <2>3
  <2> QED
    BY <2>3, <2>4, EmptySeq
<1> QED
  BY <1>1, <1>2, <1>3

(* The transport leaves a ledger that holds at most the request c so.      *)
LEMMA ResponseToOne ==
  ASSUME NEW L \in LedgerShape, NEW c, L.open = <<>> \/ L.open = <<c>>
  PROVE  response(L).open = <<>> \/ response(L).open = <<c>>
<1>1. Tail(<<c>>) = <<>> /\ <<c>> # <<>> /\ L.owed \in Nat
  BY DEF LedgerShape
<1>2. CASE L.owed > 0
  BY <1>2, ResponseEffect
<1>3. CASE L.owed = 0 /\ L.open = <<>>
  BY <1>3, ResponseEffect
<1>4. CASE L.owed = 0 /\ L.open = <<c>>
  BY <1>1, <1>4, ResponseEffect
<1> QED
  BY <1>1, <1>2, <1>3, <1>4

(* While the waiting caller waits, no request but its own is open.         *)
LEMMA OnlyCurrentInductive ==
  TypeOK /\ OnlyCurrentOpen /\ [Next]_vars => OnlyCurrentOpen'
<1> SUFFICES ASSUME TypeOK, OnlyCurrentOpen, [Next]_vars, Awaits
             PROVE  \/ ledger'.open = <<>>
                    \/ (current' # 0 /\ ledger'.open = <<current'>>)
  BY CallerStays DEF OnlyCurrentOpen
<1> USE LabelFacts
<1>0. /\ ledger \in LedgerShape /\ ledger.sent \in Nat /\ MaxReq \in Nat
      /\ caller.forms = {"blind"} /\ current \in 0 .. MaxReq
      /\ ledger.open = <<>> \/ (current # 0 /\ ledger.open = <<current>>)
  BY LedgerAssumption, CallerFacts DEF TypeOK, LedgerShape, OnlyCurrentOpen
<1>1. ASSUME NEW f \in caller.forms, NEW k \in Keys, NEW ok \in BOOLEAN, Send(f, k, ok)
      PROVE  current' # 0 /\ ledger'.open = <<current'>>
  <2> DEFINE i == ledger.sent + 1
  <2>1. i \in Req /\ i # 0 /\ LabelOf(f, i, k) = i
    BY <1>0, <1>1 DEF Send, MaySend, Req, LabelOf
  <2>2. /\ ledger' = request(ledger, i) /\ current' = i
        /\ ledger.open = <<>>
    BY <1>0, <1>1, <2>1 DEF Send, MaySend
  <2>3. ledger'.open = Append(<<>>, i)
    BY <1>0, <2>1, <2>2, RequestEffect
  <2> QED
    BY <2>1, <2>2, <2>3
<1>2. ASSUME NEW f \in caller.forms, NEW k \in Keys, SendBlocked(f, k)
      PROVE  ledger'.open = <<>>
  <2> DEFINE i == ledger.sent + 1
             R == request(ledger, i)
  <2>1. i \in Label /\ LabelOf(f, i, k) = i
    BY <1>0, <1>2 DEF SendBlocked, MaySend, Req, LabelOf
  <2>2. ledger' = finish(R, i, "Timeout") /\ ledger.open = <<>>
    BY <1>0, <1>2, <2>1 DEF SendBlocked, MaySend
  <2>3. R \in LedgerShape /\ R.open = Append(<<>>, i)
    <3>1. R \in LedgerShape /\ R.open = Append(ledger.open, i)
      BY <1>0, <2>1, RequestEffect
    <3> HIDE DEF R
    <3> QED
      BY <2>2, <3>1
  <2> HIDE DEF R
  <2>4. R.open = <<i>> /\ ledger'.open = RemoveFirst(R.open, i)
    BY <2>1, <2>2, <2>3, FinishEffect
  <2> QED
    BY <2>1, <2>4, RemoveFromOne
<1>3. ASSUME NEW i \in Req, NamedAnswer(i)
      PROVE  \/ ledger'.open = <<>>
             \/ (current' # 0 /\ ledger'.open = <<current'>>)
  <2> DEFINE A == answered(ledger, key[i])
  <2>1. key[i] \in Keys /\ current # 0 /\ current \in Req
    BY <1>0, <1>3 DEF TypeOK, NamedAnswer, Read, Receiving, Req
  <2>2. A \in LedgerShape /\ A.open = RemoveFirst(ledger.open, key[i])
    BY <1>0, <2>1, AnsweredEffect
  <2>3. A.open = <<>> \/ A.open = <<current>>
    BY <1>0, <2>1, <2>2, RemoveFromOne
  <2> HIDE DEF A
  <2>4. CASE key[i] = key[current]
    <3>1. ledger' = finish(A, current, "Ok")
      BY <1>3, <2>4 DEF NamedAnswer, A
    <3>2. ledger'.open = RemoveFirst(A.open, current)
      BY <2>1, <2>2, <3>1, FinishEffect
    <3> QED
      BY <2>1, <2>3, <3>2, RemoveFromOne
  <2>5. CASE key[i] # key[current]
    <3>1. ledger' = A /\ current' = current
      BY <1>3, <2>5 DEF NamedAnswer, A
    <3> QED
      BY <2>1, <2>3, <3>1
  <2> QED
    BY <2>4, <2>5
<1>4. ASSUME NEW i \in Req, UnnamedAnswer(i)
      PROVE  \/ ledger'.open = <<>>
             \/ (current' # 0 /\ ledger'.open = <<current'>>)
  <2>1. ledger' = response(ledger) /\ current' = current /\ current # 0
    BY <1>4 DEF UnnamedAnswer, Read, Receiving
  <2> QED
    BY <1>0, <2>1, ResponseToOne
<1>5. ASSUME NEW i \in Req, Refused(i) PROVE ledger'.open = <<>>
  <2> DEFINE R == response(ledger)
  <2>1. current # 0 /\ current \in Req
    BY <1>0, <1>5 DEF Refused, Read, Receiving, Req
  <2>2. R \in LedgerShape /\ (R.open = <<>> \/ R.open = <<current>>)
    BY <1>0, ResponseToOne, ResponseEffect
  <2> HIDE DEF R
  <2>3. ledger' = finish(R, current, "Blocked")
    BY <1>5 DEF Refused, R
  <2>4. ledger'.open = RemoveFirst(R.open, current)
    BY <2>1, <2>2, <2>3, FinishEffect
  <2> QED
    BY <2>1, <2>2, <2>4, RemoveFromOne
<1>6. CASE GiveUp
  <2>1. current \in Req /\ ledger' = finish(ledger, current, "Timeout")
    BY <1>0, <1>6 DEF GiveUp, Req
  <2>2. ledger'.open = RemoveFirst(ledger.open, current)
    BY <1>0, <2>1, FinishEffect
  <2> QED
    BY <1>0, <2>1, <2>2, RemoveFromOne
<1>7. CASE UNCHANGED vars
  BY <1>0, <1>7 DEF vars
<1>8. CASE Notification
  <2>1. ledger' = response(ledger) /\ current' = current /\ current # 0
    BY <1>8 DEF Notification, Receiving
  <2> QED
    BY <1>0, <2>1, ResponseToOne
<1> QED
  BY <1>1, <1>2, <1>3, <1>4, <1>5, <1>6, <1>7, <1>8 DEF Next

(* The requests still due are finitely many.                               *)
LEMMA LiveFinite ==
  ASSUME TypeOK
  PROVE  IsFiniteSet(Live) /\ Cardinality(Live) \in Nat /\ Live \subseteq Req
<1>1. IsFiniteSet(Req)
  <2>1. MaxReq \in Int
    BY LedgerAssumption
  <2> QED
    BY <2>1, FS_Interval DEF Req
<1>2. Live \subseteq Req
  BY DEF Live
<1> QED
  BY <1>1, <1>2, FS_Subset, FS_CardinalityType

(* One more is due once a request is sent.                                 *)
LEMMA LiveSent ==
  ASSUME TypeOK, NEW i \in Req, answer' = [answer EXCEPT ![i] = "due"]
  PROVE  /\ Live' = Live \cup {i}
         /\ Cardinality(Live') \in Nat /\ Cardinality(Live') <= Cardinality(Live) + 1
<1>1. Live' = Live \cup {i}
  BY DEF Live, TypeOK
<1> QED
  BY <1>1, LiveFinite, FS_AddElement

(* One fewer is due once its answer is read.                               *)
LEMMA LiveRead ==
  ASSUME TypeOK, NEW i \in Req, Read(i)
  PROVE  /\ i \in Live /\ Live' = Live \ {i}
         /\ Cardinality(Live') \in Nat /\ Cardinality(Live') + 1 = Cardinality(Live)
<1>1. i \in Live /\ Live' = Live \ {i}
  BY DEF Live, Read, TypeOK
<1>2. /\ IsFiniteSet(Live) /\ Cardinality(Live) \in Nat
      /\ IsFiniteSet(Live \ {i}) /\ Cardinality(Live \ {i}) = Cardinality(Live) - 1
  BY <1>1, LiveFinite, FS_RemoveElement
<1>3. Cardinality(Live \ {i}) \in Nat
  BY <1>2, FS_CardinalityType
<1> QED
  BY <1>1, <1>2, <1>3

(* With d requests due, o open, w owed and t notifications: an answer read *)
(* may close one open request, a refusal two if it leaves one owed.        *)
LEMMA CountDown ==
  ASSUME NEW d \in Nat, NEW o \in Nat, NEW w \in Nat, NEW t \in Nat,
         NEW n \in Nat, d + 1 <= o + w + t
  PROVE  /\ n >= o - 1 => d <= n + w + t
         /\ n >= o - 2 => d <= n + (w + 1) + t
OBVIOUS

(* Every step keeps the unanswered requests accounted for.                 *)
LEMMA ReportInductive ==
  TypeOK /\ OnlyCurrentOpen /\ UnansweredReported /\ [Next]_vars
    => UnansweredReported'
<1> SUFFICES ASSUME TypeOK, OnlyCurrentOpen, UnansweredReported, [Next]_vars
             PROVE  UnansweredReported'
  OBVIOUS
<1> USE LabelFacts
<1> DEFINE d == Cardinality(Live)
           o == Len(ledger.open)
<1>0. /\ ledger \in LedgerShape /\ MaxReq \in Nat /\ ledger.sent \in Nat
      /\ ledger.owed \in Nat /\ o \in Nat /\ d \in Nat /\ notified \in Nat
      /\ d <= o + ledger.owed + notified
      /\ \A f \in caller.forms : f \in AllForms
  <2>1. ledger \in LedgerShape /\ MaxReq \in Nat /\ notified \in Nat
    BY LedgerAssumption DEF TypeOK
  <2>2. ledger.sent \in Nat /\ ledger.owed \in Nat /\ o \in Nat
    BY <2>1 DEF LedgerShape
  <2>3. d \in Nat /\ d <= o + ledger.owed + notified
    BY LiveFinite DEF UnansweredReported
  <2>4. \A f \in caller.forms : f \in AllForms
    BY CallerFacts
  <2> QED
    BY <2>1, <2>2, <2>3, <2>4
<1>9. o \in Nat /\ ledger.owed \in Nat /\ notified \in Nat
  BY <1>0
<1>1. ASSUME NEW f \in caller.forms, NEW k \in Keys, NEW ok \in BOOLEAN, Send(f, k, ok)
      PROVE  UnansweredReported'
  <2> DEFINE i == ledger.sent + 1
             l == LabelOf(f, i, k)
  <2>1. /\ i \in Req /\ l \in Label /\ ledger' = request(ledger, l)
        /\ answer' = [answer EXCEPT ![i] = "due"] /\ notified' = notified
    <3>1. f \in AllForms /\ i \in Req
      BY <1>0, <1>1 DEF Send, MaySend, Req
    <3>2. l \in Label
      BY <3>1
    <3> QED
      BY <1>1, <3>1, <3>2 DEF Send
  <2> HIDE DEF l, i
  <2>2. Len(ledger'.open) = o + 1 /\ ledger'.owed = ledger.owed
    BY <1>0, <2>1, RequestEffect
  <2>3. Cardinality(Live') \in Nat /\ Cardinality(Live') <= d + 1
    BY <2>1, LiveSent
  <2> HIDE DEF d, o
  <2> QED
    BY <1>0, <2>1, <2>2, <2>3 DEF UnansweredReported
<1>2. ASSUME NEW f \in caller.forms, NEW k \in Keys, SendBlocked(f, k)
      PROVE  UnansweredReported'
  <2> DEFINE l == LabelOf(f, ledger.sent + 1, k)
             R == request(ledger, l)
  <2>1. /\ l \in Label /\ ledger' = finish(R, l, "Timeout")
        /\ answer' = answer /\ notified' = notified
    BY <1>0, <1>2 DEF SendBlocked, MaySend, Req
  <2> HIDE DEF l
  <2>2. R \in LedgerShape /\ Len(R.open) = o + 1 /\ R.owed = ledger.owed
    BY <1>0, <2>1, RequestEffect
  <2> HIDE DEF R
  <2>3. /\ Len(ledger'.open) \in (Len(R.open) - 1) .. Len(R.open)
        /\ ledger'.owed = R.owed + 1
    BY <2>1, <2>2, FinishEffect
  <2>4. Cardinality(Live') = d
    BY <2>1 DEF Live
  <2> HIDE DEF d, o
  <2> QED
    BY <1>0, <2>1, <2>2, <2>3, <2>4 DEF UnansweredReported
<1>3. ASSUME NEW i \in Req, NamedAnswer(i) PROVE UnansweredReported'
  <2> DEFINE A == answered(ledger, key[i])
             e == Cardinality(Live')
  <2>1. key[i] \in Keys /\ Read(i) /\ notified' = notified
    BY <1>3 DEF NamedAnswer, TypeOK
  <2>2. /\ A \in LedgerShape /\ A.owed = ledger.owed
        /\ A.open = RemoveFirst(ledger.open, key[i])
        /\ Len(A.open) \in (o - 1) .. o
    BY <1>0, <2>1, AnsweredEffect
  <2>3. e \in Nat /\ e + 1 <= o + ledger.owed + notified
    BY <1>0, <2>1, LiveRead
  <2>4. CASE Awaits /\ key[i] = key[current]
    <3>1. current \in Req /\ current # 0
      BY <1>3, <2>4 DEF NamedAnswer, Read, Receiving, TypeOK, Req
    <3>2. A.open = ledger.open
      BY <2>1, <2>2, <2>4, <3>1, RemoveFromOne DEF OnlyCurrentOpen
    <3>3. ledger' = finish(A, current, "Ok")
      BY <1>3, <2>4 DEF NamedAnswer
    <3> HIDE DEF A
    <3>4. /\ Len(ledger'.open) \in (Len(A.open) - 1) .. Len(A.open)
          /\ ledger'.owed = A.owed /\ ledger' \in LedgerShape
      BY <2>2, <3>1, <3>3, FinishEffect
    <3>5. Len(ledger'.open) \in Nat
      BY <3>4 DEF LedgerShape
    <3>6. e <= Len(ledger'.open) + ledger.owed + notified
      <4> DEFINE n == Len(ledger'.open)
      <4>1. n \in Nat /\ n >= o - 1
        <5>1. n \in (o - 1) .. o /\ n \in Nat
          BY <3>2, <3>4, <3>5
        <5> HIDE DEF n, o
        <5> QED
          BY <1>9, <5>1
      <4> HIDE DEF e, n, o
      <4>2. e <= n + ledger.owed + notified
        BY <1>9, <2>3, <4>1, CountDown
      <4> QED
        BY <4>2 DEF n
    <3> QED
      BY <2>1, <2>2, <3>4, <3>6 DEF UnansweredReported
  <2>5. CASE ~ (Awaits /\ key[i] = key[current])
    <3>1. ledger' = A
      BY <1>3, <2>5 DEF NamedAnswer
    <3>2. Len(A.open) \in Nat
      BY <2>2 DEF LedgerShape
    <3> HIDE DEF A
    <3>3. e <= Len(A.open) + ledger.owed + notified
      <4> HIDE DEF e
      <4> QED
        BY <1>9, <2>2, <2>3, <3>2, CountDown
    <3> QED
      BY <2>1, <2>2, <3>1, <3>3 DEF UnansweredReported
  <2> QED
    BY <2>4, <2>5
<1>4. ASSUME NEW i \in Req, UnnamedAnswer(i) PROVE UnansweredReported'
  <2> DEFINE e == Cardinality(Live')
  <2>1. ledger' = response(ledger) /\ Read(i) /\ notified' = notified
    BY <1>4 DEF UnnamedAnswer
  <2>2. /\ Len(ledger'.open) \in (o - 1) .. o /\ ledger'.owed = ledger.owed
        /\ ledger' \in LedgerShape
    BY <1>0, <2>1, ResponseEffect
  <2>3. e \in Nat /\ e + 1 <= o + ledger.owed + notified
    BY <1>0, <2>1, LiveRead
  <2>4. Len(ledger'.open) \in Nat
    BY <2>2 DEF LedgerShape
  <2>5. e <= Len(ledger'.open) + ledger.owed + notified
    <3> HIDE DEF e
    <3> QED
      BY <1>9, <2>2, <2>3, <2>4, CountDown
  <2> QED
    BY <2>1, <2>2, <2>5 DEF UnansweredReported
<1>5. ASSUME NEW i \in Req, Refused(i) PROVE UnansweredReported'
  <2> DEFINE R == response(ledger)
             e == Cardinality(Live')
  <2>1. /\ R \in LedgerShape /\ R.owed = ledger.owed
        /\ Len(R.open) \in (o - 1) .. o
    BY <1>0, ResponseEffect
  <2>2. Read(i) /\ notified' = notified
    BY <1>5 DEF Refused
  <2>3. e \in Nat /\ e + 1 <= o + ledger.owed + notified
    BY <1>0, <2>2, LiveRead
  <2>4. CASE Awaits
    <3>1. current \in Req /\ ledger' = finish(R, current, "Blocked")
      BY <1>5, <2>4 DEF Refused, Read, Receiving, TypeOK, Req
    <3> HIDE DEF R
    <3>2. /\ Len(ledger'.open) \in (Len(R.open) - 1) .. Len(R.open)
          /\ ledger'.owed = R.owed + 1 /\ ledger' \in LedgerShape
      BY <2>1, <3>1, FinishEffect
    <3>3. Len(ledger'.open) \in Nat /\ Len(R.open) \in Nat
      <4>1. \A L \in LedgerShape : Len(L.open) \in Nat
        BY DEF LedgerShape
      <4> QED
        BY <2>1, <3>2, <4>1
    <3>5. Len(ledger'.open) >= o - 2
      <4> HIDE DEF o
      <4> QED
        BY <1>0, <2>1, <3>2, <3>3
    <3>4. e <= Len(ledger'.open) + (ledger.owed + 1) + notified
      <4> HIDE DEF e
      <4> QED
        BY <1>9, <2>3, <3>3, <3>5, CountDown
    <3> QED
      BY <2>1, <2>2, <3>2, <3>4 DEF UnansweredReported
  <2>5. CASE ~ Awaits
    <3>1. ledger' = R
      BY <1>5, <2>5 DEF Refused
    <3>2. Len(R.open) \in Nat
      BY <2>1 DEF LedgerShape
    <3> HIDE DEF R
    <3>3. e <= Len(R.open) + ledger.owed + notified
      <4> HIDE DEF e
      <4> QED
        BY <1>9, <2>1, <2>3, <3>2, CountDown
    <3> QED
      BY <2>1, <2>2, <3>1, <3>3 DEF UnansweredReported
  <2> QED
    BY <2>4, <2>5
<1>6. CASE Notification
  <2>1. ledger' = response(ledger) /\ answer' = answer /\ notified' = notified + 1
    BY <1>6 DEF Notification
  <2>2. Len(ledger'.open) \in (o - 1) .. o /\ ledger'.owed = ledger.owed
    BY <1>0, <2>1, ResponseEffect
  <2>3. Cardinality(Live') = d
    BY <2>1 DEF Live
  <2> HIDE DEF d, o
  <2> QED
    BY <1>0, <2>1, <2>2, <2>3 DEF UnansweredReported
<1>7. CASE GiveUp
  <2>1. /\ current \in Req /\ ledger' = finish(ledger, current, "Timeout")
        /\ answer' = answer /\ notified' = notified
    BY <1>7 DEF GiveUp, TypeOK, Req
  <2>2. Len(ledger'.open) \in (o - 1) .. o /\ ledger'.owed = ledger.owed + 1
    BY <1>0, <2>1, FinishEffect
  <2>3. Cardinality(Live') = d
    BY <2>1 DEF Live
  <2> HIDE DEF d, o
  <2> QED
    BY <1>0, <2>1, <2>2, <2>3 DEF UnansweredReported
<1>8. CASE UNCHANGED vars
  BY <1>8 DEF vars, UnansweredReported, Live
<1> QED
  BY <1>1, <1>2, <1>3, <1>4, <1>5, <1>6, <1>7, <1>8 DEF Next

(* Whatever mixture of answers, errors and timeouts comes, as many         *)
(* requests are OUTSTANDING or owed as the node has still to answer; each  *)
(* notification may hide one.                                              *)
THEOREM UnansweredReportedHolds == Spec => []UnansweredReported
<1>1. Init => OnlyCurrentOpen /\ UnansweredReported
  <2> SUFFICES ASSUME Init PROVE OnlyCurrentOpen /\ UnansweredReported
    OBVIOUS
  <2>1. ledger.open = <<>> /\ ledger.owed = 0 /\ notified = 0
    BY DEF Init, EmptyLedger
  <2>2. Live = {}
    BY DEF Init, Live
  <2>3. Cardinality(Live) = 0
    BY <2>2, FS_EmptySet
  <2> QED
    BY <2>1, <2>3 DEF OnlyCurrentOpen, UnansweredReported
<1> QED
  BY <1>1, TypeCorrect, OnlyCurrentInductive, ReportInductive, PTL DEF Spec

-----------------------------------------------------------------------------
(* A late answer never closes the operation that is running.  What makes   *)
(* this true is `owed`: while it is 0, the only answer still due is that   *)
(* of the operation the caller waits for.                                  *)

OwnDue ==
  /\ current \in Sent \cup {0}
  /\ \A i \in Req : i > ledger.sent => answer[i] = "none"
  /\ \A i, j \in Sent : key[i] = key[j] => i = j
  /\ ledger.owed = 0 => \A i \in Sent : answer[i] = "due" => i = current

OnlyCurrentDue == Awaits => OwnDue
OkRead == \A i \in ledger.okEnded \cap Req : answer[i] = "read"

OkInv == TypeOK /\ OnlyCurrentOpen /\ OnlyCurrentDue /\ OkMeansAnswered

(* Every step of one waiting caller keeps the invariant.                   *)
LEMMA OkInductive == OkInv /\ [Next]_vars => OnlyCurrentDue' /\ OkMeansAnswered'
<1> SUFFICES ASSUME OkInv, [Next]_vars, Awaits
             PROVE  OwnDue' /\ OkRead'
  BY CallerStays DEF OnlyCurrentDue, OkMeansAnswered, OkRead
<1> USE LabelFacts DEF OwnDue, OkRead
<1>0. /\ ledger \in LedgerShape /\ MaxReq \in Nat
      /\ ledger.sent \in Nat /\ ledger.owed \in Nat /\ ledger.sent <= MaxReq
      /\ key \in [Req -> Keys]
      /\ answer \in [Req -> {"none", "due", "read"}]
      /\ current \in 0 .. MaxReq
      /\ OnlyCurrentOpen /\ OwnDue /\ OkRead
      /\ \A f \in caller.forms : f \in AllForms
  BY LedgerAssumption, CallerFacts DEF OkInv, TypeOK, LedgerShape, OnlyCurrentDue,
                          OkMeansAnswered
<1>1. ASSUME NEW f \in caller.forms, NEW k \in Keys, NEW ok \in BOOLEAN, Send(f, k, ok)
      PROVE  OwnDue' /\ OkRead'
  <2> DEFINE i == ledger.sent + 1
             l == LabelOf(f, i, k)
  <2>1. i \in Req /\ l \in Label /\ current = 0 /\ \A j \in Sent : key[j] # k
    BY <1>0, <1>1 DEF Send, MaySend, Req
  <2>2. /\ ledger' = request(ledger, l) /\ current' = i
        /\ key' = [key EXCEPT ![i] = k] /\ answer' = [answer EXCEPT ![i] = "due"]
    BY <1>1 DEF Send
  <2> HIDE DEF l
  <2>3. /\ ledger'.sent = i /\ ledger'.owed = ledger.owed
        /\ ledger'.okEnded = ledger.okEnded
    BY <1>0, <2>1, <2>2, RequestEffect
  <2>4. Sent' = Sent \cup {i} /\ i \notin Sent /\ Sent \subseteq Req
    BY <1>0, <2>1, <2>3 DEF Sent, Req
  <2>5. i \notin ledger.okEnded /\ answer[i] = "none"
    BY <1>0, <2>1
  <2>6. \A j \in Req : j > i => j > ledger.sent /\ j # i
    BY <1>0 DEF Req
  <2> HIDE DEF i
  <2>7. \A a, b \in Sent' : key'[a] = key'[b] => a = b
    BY <1>0, <2>1, <2>2, <2>4
  <2>8. \A j \in Req : j > i => answer'[j] = "none"
    BY <1>0, <2>2, <2>6
  <2>9. ledger.owed = 0 => \A j \in Sent' : answer'[j] = "due" => j = i
    <3>1. 0 \notin Sent
      BY DEF Sent
    <3> QED
      BY <1>0, <2>1, <2>2, <2>4, <3>1
  <2>10. OkRead'
    BY <1>0, <2>2, <2>3, <2>5
  <2> QED
    BY <2>2, <2>3, <2>4, <2>7, <2>8, <2>9, <2>10
<1>2. ASSUME NEW f \in caller.forms, NEW k \in Keys, SendBlocked(f, k)
      PROVE  OwnDue' /\ OkRead'
  <2> DEFINE i == ledger.sent + 1
             l == LabelOf(f, i, k)
             R == request(ledger, l)
  <2>1. i \in Req /\ l \in Label /\ current = 0 /\ \A j \in Sent : key[j] # k
    BY <1>0, <1>2 DEF SendBlocked, MaySend, Req
  <2>2. /\ ledger' = finish(R, l, "Timeout") /\ current' = current
        /\ key' = [key EXCEPT ![i] = k] /\ answer' = answer
    BY <1>2 DEF SendBlocked
  <2> HIDE DEF l
  <2>3. /\ R \in LedgerShape /\ R.sent = i /\ R.owed = ledger.owed
        /\ R.okEnded = ledger.okEnded
    BY <1>0, <2>1, RequestEffect
  <2> HIDE DEF R
  <2>4. /\ ledger'.sent = i /\ ledger'.owed = ledger.owed + 1
        /\ ledger'.okEnded = ledger.okEnded
    BY <2>1, <2>2, <2>3, FinishEffect
  <2>5. Sent' = Sent \cup {i} /\ i \notin Sent /\ Sent \subseteq Req
    BY <1>0, <2>1, <2>4 DEF Sent, Req
  <2>6. \A j \in Req : j > i => j > ledger.sent
    BY <1>0 DEF Req
  <2>7. ledger'.owed # 0
    BY <1>0, <2>4
  <2> HIDE DEF i
  <2>8. \A a, b \in Sent' : key'[a] = key'[b] => a = b
    BY <1>0, <2>1, <2>2, <2>5
  <2> QED
    BY <1>0, <2>1, <2>2, <2>4, <2>5, <2>6, <2>7, <2>8
<1>3. ASSUME NEW i \in Req, NamedAnswer(i)
      PROVE  OwnDue' /\ OkRead'
  <2> DEFINE A == answered(ledger, key[i])
  <2>1. /\ current # 0 /\ current \in Req /\ current \in Sent
        /\ answer[i] = "due" /\ i \in Sent /\ key[i] \in Keys
        /\ answer' = [answer EXCEPT ![i] = "read"] /\ key' = key
    BY <1>0, <1>3 DEF NamedAnswer, Read, Receiving, Req, Sent
  <2>2. /\ A \in LedgerShape /\ A.sent = ledger.sent
        /\ A.owed = ledger.owed /\ A.okEnded = ledger.okEnded
    BY <1>0, <2>1, AnsweredEffect
  <2>3. CASE key[i] = key[current]
    <3>1. i = current
      BY <1>0, <2>1, <2>3
    <3>2. ledger' = finish(A, current, "Ok") /\ current' = 0
      BY <1>3, <2>3 DEF NamedAnswer
    <3> HIDE DEF A
    <3>3. /\ ledger'.sent = ledger.sent /\ ledger'.owed = ledger.owed
          /\ ledger'.okEnded = ledger.okEnded
      BY <2>1, <2>2, <3>2, FinishEffect
    <3> QED
      BY <1>0, <2>1, <3>1, <3>2, <3>3 DEF Sent
  <2>4. CASE key[i] # key[current]
    <3>1. ledger' = A /\ current' = current
      BY <1>3, <2>4 DEF NamedAnswer
    <3> HIDE DEF A
    <3> QED
      BY <1>0, <2>1, <2>2, <3>1 DEF Sent
  <2> QED
    BY <2>3, <2>4
<1>4. ASSUME NEW i \in Req, answer[i] = "due", i \in Sent,
             answer' = [answer EXCEPT ![i] = "read"],
             current # 0, current \in Req
      PROVE  LET R == response(ledger) IN
             /\ R.sent = ledger.sent /\ R.owed = ledger.owed
             /\ \A j \in R.okEnded \cap Req : answer'[j] = "read"
  <2>1. CASE ledger.owed > 0 \/ ledger.open = <<>>
    <3>1. response(ledger).okEnded = ledger.okEnded
      BY <1>0, <2>1, ResponseEffect
    <3> QED
      BY <1>0, <1>4, <3>1, ResponseEffect
  <2>2. CASE ledger.owed = 0 /\ ledger.open # <<>>
    <3>1. i = current /\ ledger.open = <<current>>
      BY <1>0, <1>4, <2>2 DEF OnlyCurrentOpen
    <3>2. response(ledger).okEnded = ledger.okEnded \cup {Head(ledger.open)}
      BY <1>0, <2>2, ResponseEffect
    <3>3. Head(ledger.open) = current
      BY <3>1
    <3> QED
      BY <1>0, <1>4, <3>1, <3>2, <3>3, ResponseEffect
  <2> QED
    BY <1>0, <2>1, <2>2
<1>5. ASSUME NEW i \in Req, UnnamedAnswer(i)
      PROVE  OwnDue' /\ OkRead'
  <2>1. /\ current # 0 /\ current \in Req /\ answer[i] = "due" /\ i \in Sent
        /\ answer' = [answer EXCEPT ![i] = "read"] /\ key' = key
        /\ ledger' = response(ledger) /\ current' = current
    BY <1>0, <1>5 DEF UnnamedAnswer, Read, Receiving, Req, Sent
  <2>2. /\ ledger'.sent = ledger.sent /\ ledger'.owed = ledger.owed
        /\ \A j \in ledger'.okEnded \cap Req : answer'[j] = "read"
    BY <1>4, <2>1
  <2>3. Sent' = Sent /\ \A j \in Req : answer[j] = "none" => answer'[j] = "none"
    BY <1>0, <2>1, <2>2 DEF Sent
  <2>4. \A j \in Sent : answer'[j] = "due" => answer[j] = "due"
    BY <1>0, <2>1 DEF Sent, Req
  <2> QED
    BY <1>0, <2>1, <2>2, <2>3, <2>4
<1>6. ASSUME NEW i \in Req, Refused(i)
      PROVE  OwnDue' /\ OkRead'
  <2> DEFINE R == response(ledger)
  <2>1. /\ current # 0 /\ current \in Req /\ answer[i] = "due" /\ i \in Sent
        /\ answer' = [answer EXCEPT ![i] = "read"] /\ key' = key
        /\ ledger' = finish(R, current, "Blocked") /\ current' = 0
    BY <1>0, <1>6 DEF Refused, Read, Receiving, Req, Sent
  <2>2. /\ R \in LedgerShape /\ R.sent = ledger.sent /\ R.owed = ledger.owed
        /\ \A j \in R.okEnded \cap Req : answer'[j] = "read"
    BY <1>0, <1>4, <2>1, ResponseEffect
  <2> HIDE DEF R
  <2>3. /\ ledger'.sent = ledger.sent /\ ledger'.owed = ledger.owed + 1
        /\ ledger'.okEnded = R.okEnded
    BY <2>1, <2>2, FinishEffect
  <2>4. ledger'.owed # 0
    BY <1>0, <2>3
  <2> QED
    BY <1>0, <2>1, <2>2, <2>3, <2>4 DEF Sent
<1>7. CASE Notification
  BY <1>7, CallerFacts DEF Notification, OkInv, TypeOK
<1>8. CASE GiveUp
  <2>1. /\ current \in Req /\ ledger' = finish(ledger, current, "Timeout")
        /\ current' = 0 /\ key' = key /\ answer' = answer
    BY <1>0, <1>8 DEF GiveUp, Req
  <2>2. /\ ledger'.sent = ledger.sent /\ ledger'.owed = ledger.owed + 1
        /\ ledger'.okEnded = ledger.okEnded
    BY <1>0, <2>1, FinishEffect
  <2>3. ledger'.owed # 0
    BY <1>0, <2>2
  <2> QED
    BY <1>0, <2>1, <2>2, <2>3 DEF Sent
<1>9. CASE UNCHANGED vars
  BY <1>0, <1>9 DEF vars, Sent
<1> QED
  BY <1>1, <1>2, <1>3, <1>5, <1>6, <1>7, <1>8, <1>9 DEF Next

(* On a connection with one caller that waits for each of its answers, as  *)
(* the write role does, an answer that comes after its operation was given *)
(* up on never ends another operation as Ok.                               *)
THEOREM OkMeansAnsweredHolds == Spec => []OkMeansAnswered
<1>1. Init => OnlyCurrentOpen /\ OnlyCurrentDue /\ OkMeansAnswered
  BY DEF Init, EmptyLedger, OnlyCurrentOpen, OnlyCurrentDue, OwnDue,
         OkMeansAnswered, Sent
<1>2. OkInv /\ [Next]_vars => OnlyCurrentDue' /\ OkMeansAnswered'
  BY OkInductive
<1>3. OkInv <=> TypeOK /\ OnlyCurrentOpen /\ OnlyCurrentDue /\ OkMeansAnswered
  BY DEF OkInv
<1> QED
  BY <1>1, <1>2, <1>3, TypeCorrect, OnlyCurrentInductive, PTL DEF Spec

-----------------------------------------------------------------------------
(* OUTSTANDING is exact where no caller ends an operation itself.  What    *)
(* makes the count exact is the history: only requests that were sent are  *)
(* due, each in a form the caller uses, and a connection that is still up  *)
(* gave up on none of them.                                                *)

DueOf(k) == {i \in Live : key[i] = k}

OnlySentDue == \A i \in Req : i > ledger.sent => answer[i] = "none"
DueInForm == \A i \in Req : answer[i] = "due" => form[i] \in caller.forms

(* Batches whose answers name nothing, and batches whose answers name      *)
(* their contract.                                                         *)
Plain == caller.forms = {"plain"} /\ caller.notify = 0
Keyed == caller.forms = {"keyed"} /\ ~caller.refuse /\ caller.notify = 0

PlainCounts ==
  Plain => /\ Len(ledger.open) = Cardinality(Live)
           /\ ledger.sent = ledger.received + Cardinality(Live)

KeyedCounts ==
  Keyed => \A k \in Keys : OpenCount(k) = Cardinality(DueOf(k))

History == OnlySentDue /\ DueInForm /\ ledger.owed = 0

BatchInv == ~Awaits /\ up => History /\ PlainCounts /\ KeyedCounts

(* Of one contract, too, finitely many are still due.                      *)
LEMMA DueFinite ==
  ASSUME TypeOK, NEW k
  PROVE  IsFiniteSet(DueOf(k))
<1>1. DueOf(k) \subseteq Live
  BY DEF DueOf
<1> QED
  BY <1>1, LiveFinite, FS_Subset

(* A batch never ends an operation itself: it sends, reads answers and     *)
(* takes notifications, and once it bailed it does nothing.                *)
LEMMA BatchSteps ==
  ASSUME [Next]_vars, up', ~Awaits
  PROVE  /\ up
         /\ \/ \E f \in caller.forms, k \in Keys, ok \in BOOLEAN : Send(f, k, ok)
            \/ \E i \in Req : NamedAnswer(i)
            \/ \E i \in Req : UnnamedAnswer(i) \/ Refused(i)
            \/ Notification
            \/ UNCHANGED vars
BY DEF Next, Send, MaySend, SendBlocked, NamedAnswer, UnnamedAnswer, Refused,
       Read, Receiving, Notification, GiveUp, vars

(* What a send does to the history.                                        *)
LEMMA SendHistory ==
  ASSUME TypeOK, NEW f \in caller.forms, NEW k \in Keys,
         NEW ok \in BOOLEAN, OnlySentDue, Send(f, k, ok)
  PROVE  LET i == ledger.sent + 1 IN
         /\ i \in Req /\ i \notin Live
         /\ Live' = Live \cup {i}
         /\ key' = [key EXCEPT ![i] = k]
         /\ form' = [form EXCEPT ![i] = f]
         /\ ledger'.sent = i /\ ledger'.received = ledger.received
         /\ ledger'.owed = ledger.owed
         /\ ledger'.open = Append(ledger.open, LabelOf(f, i, k))
         /\ OnlySentDue'
         /\ DueInForm => DueInForm'
<1> DEFINE i == ledger.sent + 1
           l == LabelOf(f, i, k)
<1>1. /\ ledger \in LedgerShape /\ ledger.sent \in Nat /\ MaxReq \in Nat
      /\ answer \in [Req -> {"none", "due", "read"}]
      /\ f \in AllForms /\ form \in [Req -> AllForms \cup {"none"}]
  BY LedgerAssumption, CallerFacts DEF TypeOK, LedgerShape
<1>2. i \in Req /\ i > ledger.sent /\ l \in Label
  BY <1>1, LabelFacts DEF Send, MaySend, Req
<1>3. /\ ledger' = request(ledger, l)
      /\ key' = [key EXCEPT ![i] = k] /\ form' = [form EXCEPT ![i] = f]
      /\ answer' = [answer EXCEPT ![i] = "due"]
  BY DEF Send
<1> HIDE DEF l
<1>4. /\ ledger'.sent = i /\ ledger'.received = ledger.received
      /\ ledger'.owed = ledger.owed /\ ledger'.open = Append(ledger.open, l)
  BY <1>1, <1>2, <1>3, RequestEffect
<1> HIDE DEF i
<1>5. i \notin Live
  BY <1>2 DEF Live, OnlySentDue
<1>6. Live' = Live \cup {i}
  BY <1>1, <1>2, <1>3 DEF Live
<1>7. OnlySentDue'
  <2>1. \A j \in Req : j > i => j > ledger.sent /\ j # i
    BY <1>1 DEF i, Req
  <2> QED
    BY <1>1, <1>3, <1>4, <2>1 DEF OnlySentDue
<1>8. DueInForm => DueInForm'
  <2>1. caller' = caller
    BY DEF Send
  <2> QED
    BY <1>1, <1>2, <1>3, <2>1 DEF DueInForm
<1> QED
  BY <1>2, <1>3, <1>4, <1>5, <1>6, <1>7, <1>8 DEF i, l

(* What reading an answer does to it.                                      *)
LEMMA ReadHistory ==
  ASSUME TypeOK, History, NEW i \in Req, Read(i),
         ledger'.sent = ledger.sent, key' = key, form' = form, caller' = caller
  PROVE  /\ i \in Live /\ form[i] \in caller.forms
         /\ Live' = Live \ {i}
         /\ OnlySentDue' /\ DueInForm'
<1>1. /\ ledger.sent \in Nat /\ ledger.sent <= MaxReq /\ MaxReq \in Nat
      /\ answer \in [Req -> {"none", "due", "read"}]
      /\ answer[i] = "due" /\ answer' = [answer EXCEPT ![i] = "read"]
      /\ OnlySentDue /\ DueInForm
  BY LedgerAssumption DEF History, TypeOK, LedgerShape, Read
<1>2. i \in Live /\ form[i] \in caller.forms
  BY <1>1 DEF DueInForm, Live
<1>3. Live' = Live \ {i}
  BY <1>1 DEF Live
<1>4. OnlySentDue' /\ DueInForm'
  BY <1>1 DEF OnlySentDue, DueInForm
<1> QED
  BY <1>2, <1>3, <1>4

(* Every step of a batch keeps the counts exact.                           *)
LEMMA BatchInductive == TypeOK /\ BatchInv /\ [Next]_vars => BatchInv'
<1> SUFFICES ASSUME TypeOK, BatchInv, [Next]_vars, ~Awaits, up'
             PROVE  History' /\ PlainCounts' /\ KeyedCounts'
  BY CallerStays DEF BatchInv
<1>0. /\ ledger \in LedgerShape /\ ledger.open \in Seq(Label)
      /\ ledger.sent \in Nat /\ ledger.received \in Nat
      /\ key \in [Req -> Keys] /\ caller' = caller
      /\ up /\ History /\ PlainCounts /\ KeyedCounts /\ ledger.owed = 0
  BY BatchSteps, CallerStays DEF TypeOK, BatchInv, History, LedgerShape
<1>k. /\ Plain' <=> Plain
      /\ Keyed' <=> Keyed
  BY <1>0 DEF Plain, Keyed
<1>1. ASSUME NEW f \in caller.forms, NEW k \in Keys, NEW ok \in BOOLEAN,
             Send(f, k, ok)
      PROVE  History' /\ PlainCounts' /\ KeyedCounts'
  <2> DEFINE i == ledger.sent + 1
             l == LabelOf(f, i, k)
  <2>1. /\ i \in Req /\ i \notin Live /\ Live' = Live \cup {i}
        /\ key' = [key EXCEPT ![i] = k]
        /\ ledger'.sent = ledger.sent + 1 /\ ledger'.received = ledger.received
        /\ ledger'.owed = 0 /\ ledger'.open = Append(ledger.open, l)
        /\ OnlySentDue' /\ DueInForm'
    BY <1>0, <1>1, SendHistory DEF History
  <2>2. l \in Label
    BY <2>1, LabelFacts, CallerFacts DEF TypeOK
  <2>3. History'
    BY <2>1 DEF History
  <2>4. /\ Cardinality(Live') = Cardinality(Live) + 1
        /\ Cardinality(Live) \in Nat
    BY <2>1, LiveFinite, FS_AddElement
  <2> HIDE DEF l, i
  <2>5. PlainCounts'
    <3>1. Len(ledger'.open) = Len(ledger.open) + 1
      BY <1>0, <2>1, <2>2
    <3>2. ASSUME Plain
          PROVE  /\ Len(ledger'.open) = Cardinality(Live')
                 /\ ledger'.sent = ledger'.received + Cardinality(Live')
      <4>1. /\ Len(ledger.open) = Cardinality(Live)
            /\ ledger.sent = ledger.received + Cardinality(Live)
            /\ ledger.sent \in Nat /\ ledger.received \in Nat
        BY <1>0, <3>2 DEF PlainCounts
      <4> QED
        BY <2>1, <2>4, <3>1, <4>1
    <3> QED
      BY <1>k, <3>2 DEF PlainCounts
  <2>6. ASSUME Keyed, NEW x \in Keys
        PROVE  OpenCount(x)' = Cardinality(DueOf(x)')
    <3>1. l = k /\ OpenCount(x) = Cardinality(DueOf(x))
      BY <1>0, <2>6 DEF l, LabelOf, Keyed, KeyedCounts
    <3>2. OpenCount(x)' = IF k = x THEN OpenCount(x) + 1 ELSE OpenCount(x)
      <4>1. OpenCount(x) = Occurrences(ledger.open, x)
        BY DEF OpenCount, Occurrences, Places
      <4>2. OpenCount(x)' = Occurrences(Append(ledger.open, k), x)
        BY <2>1, <3>1, Zenon DEF OpenCount, Occurrences, Places
      <4> QED
        BY <1>0, <2>2, <3>1, <4>1, <4>2, AppendOccurrences
    <3>3. DueOf(x)' = IF k = x THEN DueOf(x) \cup {i} ELSE DueOf(x)
      <4>1. Live \subseteq Req
        BY LiveFinite
      <4> QED
        BY <1>0, <2>1, <4>1 DEF DueOf
    <3>4. i \notin DueOf(x)
      BY <2>1 DEF DueOf
    <3>5. /\ IsFiniteSet(DueOf(x))
          /\ Cardinality(DueOf(x) \cup {i}) = Cardinality(DueOf(x)) + 1
      BY <3>4, DueFinite, FS_AddElement
    <3>6. CASE k = x
      BY <3>1, <3>2, <3>3, <3>5, <3>6
    <3>7. CASE k # x
      BY <3>1, <3>2, <3>3, <3>7
    <3> QED
      BY <3>6, <3>7
  <2>7. KeyedCounts'
    BY <1>k, <2>6 DEF KeyedCounts
  <2> QED
    BY <2>3, <2>5, <2>7
<1>2. ASSUME NEW i \in Req, NamedAnswer(i)
      PROVE  History' /\ PlainCounts' /\ KeyedCounts'
  <2> DEFINE k == key[i]
  <2>1. /\ k \in Keys /\ k \in Label
        /\ ledger' = answered(ledger, k)
        /\ key' = key /\ form' = form /\ Read(i)
        /\ form[i] \in {"blind", "keyed"}
    BY <1>0, <1>2, LabelFacts DEF NamedAnswer
  <2> HIDE DEF k
  <2>2. /\ ledger'.sent = ledger.sent /\ ledger'.owed = 0
        /\ ledger'.open = RemoveFirst(ledger.open, k)
    BY <1>0, <2>1, AnsweredEffect
  <2>3. /\ i \in Live /\ form[i] \in caller.forms /\ Live' = Live \ {i}
        /\ OnlySentDue' /\ DueInForm'
    BY <1>0, <2>1, <2>2, ReadHistory
  <2>4. History'
    BY <2>2, <2>3 DEF History
  <2>5. PlainCounts'
    BY <1>k, <2>1, <2>3 DEF PlainCounts, Plain
  <2>6. ASSUME Keyed, NEW x \in Keys
        PROVE  OpenCount(x)' = Cardinality(DueOf(x)')
    <3>1. \A y \in Keys : /\ OpenCount(y) = Cardinality(DueOf(y))
                          /\ OpenCount(y) = Occurrences(ledger.open, y)
      BY <1>0, <2>6 DEF KeyedCounts, OpenCount, Occurrences, Places
    <3>2. i \in DueOf(k) /\ IsFiniteSet(DueOf(k)) /\ IsFiniteSet(DueOf(x))
      BY <2>3, DueFinite DEF DueOf, k
    <3>3. \E n \in 1 .. Len(ledger.open) : ledger.open[n] = k
      <4>1. Occurrences(ledger.open, k) # 0
        BY <2>1, <3>1, <3>2, FS_EmptySet
      <4>2. Places(ledger.open, k) # {}
        BY <4>1, FS_EmptySet DEF Occurrences
      <4> QED
        BY <4>2 DEF Places
    <3>4. OpenCount(x)' = IF x = k THEN OpenCount(x) - 1 ELSE OpenCount(x)
      <4>1. OpenCount(x)' = Occurrences(RemoveFirst(ledger.open, k), x)
        BY <2>2, Zenon DEF OpenCount, Occurrences, Places
      <4> QED
        BY <1>0, <3>1, <3>3, <4>1, RemoveFirstOccurrences
    <3>5. DueOf(x)' = IF x = k THEN DueOf(x) \ {i} ELSE DueOf(x)
      BY <2>1, <2>3 DEF DueOf, k
    <3>6. CASE x = k
      <4>1. Cardinality(DueOf(x) \ {i}) = Cardinality(DueOf(x)) - 1
        BY <3>2, <3>6, FS_RemoveElement
      <4> QED
        BY <3>1, <3>4, <3>5, <3>6, <4>1
    <3>7. CASE x # k
      BY <3>1, <3>4, <3>5, <3>7
    <3> QED
      BY <3>6, <3>7
  <2>7. KeyedCounts'
    BY <1>k, <2>6 DEF KeyedCounts
  <2> QED
    BY <2>4, <2>5, <2>7
<1>3. ASSUME NEW i \in Req, UnnamedAnswer(i) \/ Refused(i)
      PROVE  History' /\ PlainCounts' /\ KeyedCounts'
  <2>1. /\ ledger' = response(ledger)
        /\ key' = key /\ form' = form /\ Read(i)
        /\ form[i] = "plain" \/ caller.refuse
    BY <1>3 DEF UnnamedAnswer, Refused
  <2>2. /\ ledger'.sent = ledger.sent /\ ledger'.owed = 0
        /\ ledger'.received = ledger.received + 1
        /\ ledger.open # <<>> => ledger'.open = Tail(ledger.open)
    BY <1>0, <2>1, ResponseEffect
  <2>3. /\ i \in Live /\ form[i] \in caller.forms /\ Live' = Live \ {i}
        /\ OnlySentDue' /\ DueInForm'
    BY <1>0, <2>1, <2>2, ReadHistory
  <2>4. History'
    BY <2>2, <2>3 DEF History
  <2>5. PlainCounts'
    <3>1. /\ IsFiniteSet(Live) /\ Cardinality(Live) \in Nat
          /\ Cardinality(Live) # 0
          /\ Cardinality(Live') = Cardinality(Live) - 1
      BY <2>3, LiveFinite, FS_RemoveElement, FS_EmptySet
    <3>2. ASSUME Plain PROVE Len(ledger'.open) = Len(ledger.open) - 1
      <4>1. Len(ledger.open) # 0
        BY <1>0, <3>1, <3>2 DEF PlainCounts
      <4>2. ledger.open # <<>>
        BY <4>1
      <4>3. ledger.open \in Seq(Label) /\ ledger'.open = Tail(ledger.open)
        BY <1>0, <2>2, <4>2
      <4>4. Len(Tail(ledger.open)) = Len(ledger.open) - 1
        BY <4>2, <4>3
      <4> QED
        BY <4>3, <4>4
    <3> QED
      BY <1>0, <1>k, <2>2, <3>1, <3>2 DEF PlainCounts
  <2>6. KeyedCounts'
    BY <1>k, <2>1, <2>3 DEF KeyedCounts, Keyed
  <2> QED
    BY <2>4, <2>5, <2>6
<1>4. CASE Notification
  <2>1. /\ ledger' = response(ledger) /\ notified < caller.notify
        /\ answer' = answer /\ form' = form
    BY <1>4 DEF Notification
  <2>2. ~ Plain /\ ~ Keyed
    BY <2>1 DEF Plain, Keyed, TypeOK
  <2>3. ledger'.sent = ledger.sent /\ ledger'.owed = 0
    BY <1>0, <2>1, ResponseEffect
  <2> QED
    BY <1>0, <1>k, <2>1, <2>2, <2>3
       DEF History, OnlySentDue, DueInForm, PlainCounts, KeyedCounts
<1>5. CASE UNCHANGED vars
  BY <1>0, <1>k, <1>5
     DEF vars, History, OnlySentDue, DueInForm, PlainCounts, KeyedCounts,
         Live, Sent, OpenCount, DueOf
<1> QED
  BY <1>1, <1>2, <1>3, <1>4, <1>5, BatchSteps

(* The counts are exact as long as the batch is up.                        *)
THEOREM BatchExact == Spec => []BatchInv
<1>1. Init => BatchInv
  <2> SUFFICES ASSUME Init PROVE History /\ PlainCounts /\ KeyedCounts
    BY DEF BatchInv
  <2>1. /\ ledger = EmptyLedger /\ answer = [i \in Req |-> "none"]
    BY DEF Init
  <2>2. Live = {} /\ History /\ ledger.open = <<>>
    BY <2>1 DEF EmptyLedger, Live, Sent, Req, History, OnlySentDue, DueInForm
  <2>3. \A k \in Keys : DueOf(k) = {} /\ Places(ledger.open, k) = {}
    BY <2>2 DEF DueOf, Places
  <2>4. PlainCounts
    BY <2>1, <2>2, FS_EmptySet DEF EmptyLedger, PlainCounts
  <2>5. KeyedCounts
    BY <2>3, FS_EmptySet DEF KeyedCounts, OpenCount, Places
  <2> QED
    BY <2>2, <2>4, <2>5
<1> QED
  BY <1>1, TypeCorrect, BatchInductive, PTL DEF Spec

(* On a batch whose answers name nothing, OUTSTANDING is sent - received,  *)
(* whatever the order of answers and errors.                               *)
THEOREM CountExactHolds == Spec => []CountExact
<1>1. TypeOK /\ BatchInv => CountExact
  <2> SUFFICES ASSUME TypeOK, BatchInv, Plain, up
               PROVE  Len(ledger.open) = ledger.sent - ledger.received
    BY DEF CountExact, Plain
  <2>1. ~ Awaits /\ ledger.sent \in Nat /\ ledger.received \in Nat
    BY CallerFacts DEF TypeOK, LedgerShape, Plain
  <2>2. /\ Len(ledger.open) = Cardinality(Live)
        /\ ledger.sent = ledger.received + Cardinality(Live)
        /\ Cardinality(Live) \in Nat
    BY <2>1, LiveFinite DEF BatchInv, PlainCounts
  <2> QED
    BY <2>1, <2>2
<1> QED
  BY <1>1, TypeCorrect, BatchExact, PTL

(* On a batch whose answers all name their contract, OUTSTANDING holds,    *)
(* per contract, exactly the requests the node still has to answer.        *)
THEOREM KeyedExactHolds == Spec => []KeyedExact
<1>1. TypeOK /\ BatchInv => KeyedExact
  <2> SUFFICES ASSUME TypeOK, BatchInv, Keyed, up
               PROVE  \A k \in Keys :
                        OpenCount(k) = Cardinality({i \in Live : key[i] = k})
    BY DEF KeyedExact, Keyed
  <2>1. ~ Awaits
    BY CallerFacts DEF Keyed
  <2> QED
    BY <2>1 DEF BatchInv, KeyedCounts, DueOf
<1> QED
  BY <1>1, TypeCorrect, BatchExact, PTL

-----------------------------------------------------------------------------
(***************************************************************************)
(* Hedge.                                                                  *)
(***************************************************************************)
Phases == {"round", "arm", "while", "probe", "look", "over", "bailed"}
InTrial == phase \in {"while", "probe", "look"}

Rows == [hedged : BOOLEAN, unacked : SUBSET Ts]

HedgeTypeOK ==
  /\ phase \in Phases /\ reason \in {"no", "cap", "target", "budget"}
  /\ round \in Nat /\ todo \in SUBSET Arms
  /\ clock \in Nat /\ ack \in Nat
  /\ readable \in BOOLEAN /\ hedged \in BOOLEAN /\ marked \in BOOLEAN
  /\ trials \in [Arms -> Seq(Rows)]

(* Which arms the round has still to run says how many trials each has.    *)
TrialsFiled ==
  /\ phase = "round" => todo = {}
  /\ phase = "arm" \/ InTrial => todo # {}
  /\ \A a \in Arms : Len(trials[a]) = IF a \in todo THEN round - 1 ELSE round

(* A reason is given once, by a run that is over.                          *)
ReasonHeld ==
  /\ phase # "over" => reason = "no"
  /\ reason = "cap" => todo = {} /\ round = MaxRounds
  /\ reason = "target" => enough

(* No mark is left of the trial before.                                    *)
FreshTrial ==
  phase \in {"round", "arm"} => ack = Unread /\ ~hedged /\ ~marked

(* What the marks of a trial say of its clock and of its acknowledgement.  *)
(* The clock of a trial whose T has not come round stays below it: what    *)
(* one pass adds before the next looks at the clock is one read-back, the  *)
(* send of its get included.                                               *)
MarkedInTime ==
  InTrial /\ arm # Control =>
    /\ hedged => marked /\ clock > arm /\ (ack = Unread \/ ack > arm)
    /\ ~hedged /\ ack # Unread => ack < arm + Pass
    /\ ~hedged /\ ack = Unread => ~marked
    /\ ~marked /\ ack = Unread =>
         /\ phase = "probe" => clock < arm
         /\ phase = "look" => clock < arm + Pass
         /\ phase = "while" => clock <= arm + Pass

HedgeInv == HedgeTypeOK /\ TrialsFiled /\ ReasonHeld /\ FreshTrial /\ MarkedInTime

-----------------------------------------------------------------------------
(* The arm of the trial is one that the round has still to run.            *)
LEMMA ArmFacts ==
  ASSUME HedgeTypeOK, todo # {}
  PROVE  arm \in todo /\ arm \in Arms /\ arm \in Nat
<1>1. Arms \in SUBSET Nat
  BY HedgeAssumption DEF Arms, Control
<1>2. todo \in SUBSET Nat /\ todo \in SUBSET Arms
  BY <1>1 DEF HedgeTypeOK
<1>3. Min(todo) \in todo
  BY <1>2, NatMin
<1> QED
  BY <1>2, <1>3 DEF arm

(* The constants are naturals.                                             *)
LEMMA ConstantFacts ==
  /\ Deadline \in Nat /\ Probe \in Nat \ {0} /\ Lag \in Nat \ {0}
  /\ Pass \in Nat \ {0} /\ Lag <= Pass
  /\ MaxRounds \in Nat \ {0} /\ Arms = {0} \cup Ts /\ Control = 0 /\ Unread = 0
  /\ \A t \in Ts : t \in Nat \ {0}
BY HedgeAssumption DEF Arms, Control, Unread, Pass

(* The run begins with the invariant.                                      *)
LEMMA HedgeInitial == HInit => HedgeInv
<1> SUFFICES ASSUME HInit PROVE HedgeInv
  OBVIOUS
<1>1. \A a \in Arms : trials[a] = <<>> /\ Len(trials[a]) = 0
  BY DEF HInit
<1>2. HedgeTypeOK
  <2>1. trials \in [Arms -> Seq(Rows)]
    BY DEF HInit
  <2> QED
    BY <2>1 DEF HInit, HedgeTypeOK, Phases, Unread
<1>3. TrialsFiled
  BY <1>1 DEF HInit, TrialsFiled, InTrial
<1>4. ReasonHeld /\ FreshTrial /\ MarkedInTime
  BY DEF HInit, ReasonHeld, FreshTrial, MarkedInTime, InTrial
<1> QED
  BY <1>2, <1>3, <1>4 DEF HedgeInv

(* A step inside a trial, and one of the node, file nothing and give no    *)
(* reason.                                                                 *)
LEMMA RunHeld ==
  ASSUME HedgeInv, UNCHANGED run,
         phase' \in {"while", "probe", "look", "bailed"} \/ phase' = phase,
         phase \in {"arm", "while", "probe", "look"} \/ phase' = phase
  PROVE  TrialsFiled' /\ ReasonHeld'
<1>1. TrialsFiled'
  BY DEF HedgeInv, TrialsFiled, run, InTrial
<1>2. enough' = enough
  BY DEF enough, Pool, Fired, run
<1>3. ReasonHeld'
  BY <1>2 DEF HedgeInv, ReasonHeld, run
<1> QED
  BY <1>1, <1>3

(* A trial begins unmarked, at the time its first send took.               *)
LEMMA BeginStep == HedgeInv /\ Begin => HedgeInv'
<1> SUFFICES ASSUME HedgeInv, Begin PROVE HedgeInv'
  OBVIOUS
<1>1. TrialsFiled' /\ ReasonHeld'
  BY RunHeld DEF Begin
<1>2. clock' \in Nat /\ clock' <= Lag
  BY ConstantFacts DEF Begin
<1>3. HedgeTypeOK'
  BY <1>2 DEF HedgeInv, HedgeTypeOK, Begin, outcome, run, Phases
<1>4. FreshTrial'
  BY DEF Begin, FreshTrial
<1>5. ack' = Unread /\ ~hedged' /\ ~marked' /\ phase' = "while"
  BY DEF HedgeInv, FreshTrial, Begin, outcome
<1>6. MarkedInTime'
  <2>1. arm \in Nat /\ arm' = arm
    BY ArmFacts DEF HedgeInv, TrialsFiled, Begin, run, arm
  <2>2. clock' <= arm + Pass
    BY <1>2, <2>1, ConstantFacts
  <2> QED
    BY <1>5, <2>1, <2>2 DEF MarkedInTime
<1> QED
  BY <1>1, <1>3, <1>4, <1>6 DEF HedgeInv

(* The head of a pass marks a trial whose T has come round, and hedges it  *)
(* unless its acknowledgement was read before.                             *)
LEMMA MarkStep == HedgeInv /\ Mark => HedgeInv'
<1> SUFFICES ASSUME HedgeInv, Mark PROVE HedgeInv'
  OBVIOUS
<1>1. /\ phase = "while" /\ phase' \in {"probe", "look"}
      /\ UNCHANGED <<ack, readable, probeAt, run>> /\ arm' = arm
  BY DEF Mark, run, arm
<1>2. TrialsFiled' /\ ReasonHeld'
  BY <1>1, RunHeld
<1>3. arm \in Arms /\ arm \in Nat
  BY <1>1, ArmFacts DEF HedgeInv, TrialsFiled, InTrial
<1>4. clock \in Nat /\ ack \in Nat /\ marked \in BOOLEAN /\ hedged \in BOOLEAN
  BY DEF HedgeInv, HedgeTypeOK
<1>5. FreshTrial'
  BY <1>1 DEF FreshTrial
<1>6. CASE arm # Control /\ ~marked /\ clock >= arm /\ ack = Unread
  <2>1. marked' = TRUE /\ hedged' = TRUE /\ put
    BY <1>6 DEF Mark
  <2>2. clock' \in Nat /\ clock' > clock
    BY <1>4, <2>1, ConstantFacts DEF put
  <2>3. HedgeTypeOK'
    BY <1>1, <2>1, <2>2 DEF HedgeInv, HedgeTypeOK, run, Phases
  <2>4. ack' = Unread /\ clock' > arm'
    BY <1>1, <1>3, <1>4, <1>6, <2>2
  <2>5. MarkedInTime'
    BY <2>1, <2>4 DEF MarkedInTime
  <2> QED
    BY <1>2, <1>5, <2>3, <2>5 DEF HedgeInv
<1>7. CASE arm # Control /\ ~marked /\ clock >= arm /\ ack # Unread
  <2>1. marked' = TRUE /\ hedged' = hedged /\ clock' = clock
    BY <1>7 DEF Mark
  <2>2. HedgeTypeOK'
    BY <1>1, <2>1 DEF HedgeInv, HedgeTypeOK, run, Phases
  <2>3. ~hedged /\ ack < arm + Pass
    BY <1>1, <1>7 DEF HedgeInv, MarkedInTime, InTrial
  <2>4. MarkedInTime'
    BY <1>1, <1>7, <2>1, <2>3 DEF MarkedInTime
  <2> QED
    BY <1>2, <1>5, <2>2, <2>4 DEF HedgeInv
<1>8. CASE ~ (arm # Control /\ ~marked /\ clock >= arm)
  <2>1. marked' = marked /\ hedged' = hedged /\ clock' = clock
    BY <1>8 DEF Mark
  <2>2. HedgeTypeOK'
    BY <1>1, <2>1 DEF HedgeInv, HedgeTypeOK, run, Phases
  <2>3. arm # Control /\ ~marked => clock < arm /\ clock < arm + Pass
    BY <1>3, <1>4, <1>8, ConstantFacts
  <2>4. MarkedInTime'
    BY <1>1, <2>1, <2>3 DEF HedgeInv, MarkedInTime, InTrial
  <2> QED
    BY <1>2, <1>5, <2>2, <2>4 DEF HedgeInv
<1> QED
  BY <1>6, <1>7, <1>8

(* A read-back attempt takes at most a send and a wait of the trial's time. *)
LEMMA ReadBackStep == HedgeInv /\ ReadBack => HedgeInv'
<1> SUFFICES ASSUME HedgeInv, ReadBack PROVE HedgeInv'
  OBVIOUS
<1>1. /\ phase = "probe" /\ phase' = "look" /\ readable' \in BOOLEAN
      /\ UNCHANGED <<ack, hedged, marked, run>> /\ arm' = arm
  BY DEF ReadBack, run, arm
<1>2. TrialsFiled' /\ ReasonHeld'
  BY <1>1, RunHeld
<1>3. arm \in Nat
  BY <1>1, ArmFacts DEF HedgeInv, TrialsFiled, InTrial
<1>4. PICK sent \in 0 .. Lag : \E took \in 1 .. Probe : clock' = clock + sent + took
  BY DEF ReadBack
<1>5. clock \in Nat /\ clock' \in Nat /\ clock' > clock /\ clock' <= clock + Pass
  BY <1>4, ConstantFacts DEF HedgeInv, HedgeTypeOK, Pass
<1>6. HedgeTypeOK'
  BY <1>1, <1>5 DEF HedgeInv, HedgeTypeOK, run, Phases
<1>7. FreshTrial'
  BY <1>1 DEF FreshTrial
<1>8. MarkedInTime'
  <2> SUFFICES ASSUME arm # Control
               PROVE  /\ hedged => marked /\ clock' > arm /\ (ack = Unread \/ ack > arm)
                      /\ ~hedged /\ ack # Unread => ack < arm + Pass
                      /\ ~hedged /\ ack = Unread => ~marked
                      /\ ~marked /\ ack = Unread => clock' < arm + Pass
    BY <1>1 DEF MarkedInTime
  <2>1. /\ hedged => marked /\ clock > arm /\ (ack = Unread \/ ack > arm)
        /\ ~hedged /\ ack # Unread => ack < arm + Pass
        /\ ~hedged /\ ack = Unread => ~marked
        /\ ~marked /\ ack = Unread => clock < arm
    BY <1>1 DEF HedgeInv, MarkedInTime, InTrial
  <2> QED
    BY <1>3, <1>5, <2>1, ConstantFacts
<1> QED
  BY <1>2, <1>6, <1>7, <1>8 DEF HedgeInv

(* A look at the writer reads at most one answer: an acknowledgement is    *)
(* read before the next pass could mark the trial.                         *)
LEMMA LookStep == HedgeInv /\ Look => HedgeInv'
<1> SUFFICES ASSUME HedgeInv, Look PROVE HedgeInv'
  OBVIOUS
<1>1. /\ phase = "look" /\ phase' \in {"while", "bailed"}
      /\ UNCHANGED <<readable, hedged, marked, run>> /\ arm' = arm
  BY DEF Look, run, arm
<1>2. TrialsFiled' /\ ReasonHeld'
  BY <1>1, RunHeld
<1>3. arm \in Nat
  BY <1>1, ArmFacts DEF HedgeInv, TrialsFiled, InTrial
<1>4. clock \in Nat /\ ack \in Nat /\ marked \in BOOLEAN /\ hedged \in BOOLEAN
  BY DEF HedgeInv, HedgeTypeOK
<1>5. \/ ack' = ack /\ clock' = clock + 1
      \/ ack = Unread /\ ack' \in {ack, clock} /\ clock' = clock
  BY DEF Look
<1>6. HedgeTypeOK'
  BY <1>1, <1>4, <1>5 DEF HedgeInv, HedgeTypeOK, run, Phases
<1>7. FreshTrial'
  BY <1>1 DEF FreshTrial
<1>8. MarkedInTime'
  <2> SUFFICES ASSUME arm # Control
               PROVE  /\ hedged => /\ marked /\ clock' > arm
                                   /\ ack' = Unread \/ ack' > arm
                      /\ ~hedged /\ ack' # Unread => ack' < arm + Pass
                      /\ ~hedged /\ ack' = Unread => ~marked
                      /\ ~marked /\ ack' = Unread => clock' <= arm + Pass
    BY <1>1 DEF MarkedInTime
  <2>1. /\ hedged => marked /\ clock > arm /\ (ack = Unread \/ ack > arm)
        /\ ~hedged /\ ack # Unread => ack < arm + Pass
        /\ ~hedged /\ ack = Unread => ~marked
        /\ ~marked /\ ack = Unread => clock < arm + Pass
    BY <1>1 DEF HedgeInv, MarkedInTime, InTrial
  <2>2. CASE ack' = ack /\ clock' = clock + 1
    BY <1>3, <1>4, <2>1, <2>2, ConstantFacts
  <2>3. CASE ack = Unread /\ ack' \in {ack, clock} /\ clock' = clock
    BY <1>3, <1>4, <2>1, <2>3, ConstantFacts
  <2> QED
    BY <1>5, <2>2, <2>3
<1> QED
  BY <1>2, <1>6, <1>7, <1>8 DEF HedgeInv

(* A trial's row is filed under the arm that ran it and no other.          *)
LEMMA EndTrialStep == HedgeInv /\ EndTrial => HedgeInv'
<1> SUFFICES ASSUME HedgeInv, EndTrial PROVE HedgeInv'
  OBVIOUS
<1> DEFINE a == arm
<1>1. /\ phase = "while" /\ UNCHANGED <<round, reason>> /\ NoTrial
      /\ trials' = [trials EXCEPT ![a] = Append(@, Row)]
      /\ todo' = todo \ {a}
      /\ phase' = IF todo' = {} THEN "round" ELSE "arm"
  BY DEF EndTrial
<1>2. a \in todo /\ a \in Arms
  BY <1>1, ArmFacts DEF HedgeInv, TrialsFiled, InTrial
<1>3. Row \in Rows
  BY DEF Row, Rows, HedgeInv, HedgeTypeOK
<1> HIDE DEF a
<1>4. /\ trials' \in [Arms -> Seq(Rows)]
      /\ Len(trials'[a]) = Len(trials[a]) + 1
      /\ \A b \in Arms : b # a => trials'[b] = trials[b]
  BY <1>1, <1>2, <1>3 DEF HedgeInv, HedgeTypeOK
<1>5. HedgeTypeOK'
  BY <1>1, <1>4 DEF HedgeInv, HedgeTypeOK, NoTrial, Phases, Unread
<1>6. TrialsFiled'
  <2>1. ASSUME NEW b \in Arms
        PROVE  Len(trials'[b]) = IF b \in todo' THEN round' - 1 ELSE round'
    <3>1. Len(trials[b]) = IF b \in todo THEN round - 1 ELSE round
      BY DEF HedgeInv, TrialsFiled
    <3>2. round \in Nat
      BY DEF HedgeInv, HedgeTypeOK
    <3>3. CASE b = a
      BY <1>1, <1>2, <1>4, <3>1, <3>2, <3>3
    <3>4. CASE b # a
      BY <1>1, <1>4, <3>1, <3>4
    <3> QED
      BY <3>3, <3>4
  <2> QED
    BY <1>1, <2>1 DEF TrialsFiled, InTrial
<1>7. ReasonHeld'
  BY <1>1 DEF HedgeInv, ReasonHeld
<1>8. FreshTrial' /\ MarkedInTime'
  BY <1>1 DEF NoTrial, FreshTrial, MarkedInTime, InTrial
<1> QED
  BY <1>5, <1>6, <1>7, <1>8 DEF HedgeInv

(* The next round is asked for only when no reason ends the run.           *)
LEMMA EndRoundStep == HedgeInv /\ EndRound => HedgeInv'
<1> SUFFICES ASSUME HedgeInv, EndRound PROVE HedgeInv'
  OBVIOUS
<1>1. /\ phase = "round" /\ todo = {} /\ round \in Nat
      /\ UNCHANGED <<clock, ack, readable, hedged, marked, trials>>
      /\ reason' = IF round = MaxRounds THEN "cap"
                   ELSE IF enough THEN "target" ELSE "no"
  BY DEF EndRound, HedgeInv, TrialsFiled, HedgeTypeOK, outcome
<1>2. enough' = enough
  BY <1>1 DEF enough, Pool, Fired
<1>3. CASE reason' = "no"
  <2>1. phase' = "arm" /\ round' = round + 1 /\ todo' = Arms
    BY <1>3 DEF EndRound
  <2>2. HedgeTypeOK'
    BY <1>1, <1>3, <2>1 DEF HedgeInv, HedgeTypeOK, Phases
  <2>3. TrialsFiled'
    BY <1>1, <2>1, ConstantFacts DEF HedgeInv, TrialsFiled, InTrial
  <2>4. ReasonHeld' /\ FreshTrial' /\ MarkedInTime'
    BY <1>1, <1>3, <2>1
       DEF HedgeInv, ReasonHeld, FreshTrial, MarkedInTime, InTrial
  <2> QED
    BY <2>2, <2>3, <2>4 DEF HedgeInv
<1>4. CASE reason' # "no"
  <2>1. phase' = "over" /\ UNCHANGED <<round, todo>>
    BY <1>4 DEF EndRound
  <2>2. HedgeTypeOK'
    BY <1>1, <2>1 DEF HedgeInv, HedgeTypeOK, Phases
  <2>3. TrialsFiled'
    BY <1>1, <2>1 DEF HedgeInv, TrialsFiled, InTrial
  <2>4. ReasonHeld'
    BY <1>1, <1>2, <2>1 DEF ReasonHeld
  <2>5. FreshTrial' /\ MarkedInTime'
    BY <2>1 DEF FreshTrial, MarkedInTime, InTrial
  <2> QED
    BY <2>2, <2>3, <2>4, <2>5 DEF HedgeInv
<1> QED
  BY <1>3, <1>4

(* A run whose budget is spent stops with whole trials only.               *)
LEMMA BudgetStep == HedgeInv /\ Budget => HedgeInv'
<1> SUFFICES ASSUME HedgeInv, Budget PROVE HedgeInv'
  OBVIOUS
<1>1. /\ phase = "arm" /\ phase' = "over" /\ reason' = "budget"
      /\ UNCHANGED <<round, todo, clock, ack, readable, hedged, marked, trials>>
  BY DEF Budget, outcome
<1>2. HedgeTypeOK' /\ TrialsFiled' /\ ReasonHeld'
  BY <1>1 DEF HedgeInv, HedgeTypeOK, Phases, TrialsFiled, ReasonHeld, InTrial
<1>3. FreshTrial' /\ MarkedInTime'
  BY <1>1 DEF FreshTrial, MarkedInTime, InTrial
<1> QED
  BY <1>2, <1>3 DEF HedgeInv

(* A send that fails ends the run without a reason.                        *)
LEMMA SendFailsStep == HedgeInv /\ SendFails => HedgeInv'
<1> SUFFICES ASSUME HedgeInv, SendFails PROVE HedgeInv'
  OBVIOUS
<1>1. /\ phase \in {"arm", "while", "probe"} /\ phase' = "bailed"
      /\ UNCHANGED <<clock, ack, readable, hedged, marked, run>>
  BY DEF SendFails, outcome
<1>2. TrialsFiled' /\ ReasonHeld'
  BY <1>1, RunHeld
<1>3. HedgeTypeOK' /\ FreshTrial' /\ MarkedInTime'
  BY <1>1 DEF HedgeInv, HedgeTypeOK, Phases, FreshTrial, MarkedInTime, InTrial, run
<1> QED
  BY <1>2, <1>3 DEF HedgeInv

(* What arrives at the writer changes nothing until it is read.            *)
LEMMA QuietStep ==
  ASSUME HedgeInv, UNCHANGED <<phase, clock, outcome, run>>
  PROVE  HedgeInv'
<1>1. TrialsFiled' /\ ReasonHeld'
  BY RunHeld
<1>2. arm' = arm
  BY DEF arm, run
<1>3. HedgeTypeOK' /\ FreshTrial' /\ MarkedInTime'
  BY <1>2 DEF HedgeInv, HedgeTypeOK, FreshTrial, MarkedInTime, InTrial, run, outcome
<1> QED
  BY <1>1, <1>3 DEF HedgeInv

(* The invariant holds in every state of every run.                        *)
THEOREM HedgeInvHolds == HSpec => []HedgeInv
<1>1. HInit => HedgeInv
  BY HedgeInitial
<1>2. HedgeInv /\ [HNext]_hvars => HedgeInv'
  <2> SUFFICES ASSUME HedgeInv, [HNext]_hvars PROVE HedgeInv'
    OBVIOUS
  <2>1. CASE Harness
    BY <2>1, BeginStep, MarkStep, ReadBackStep, LookStep, EndTrialStep,
       EndRoundStep, BudgetStep DEF Harness
  <2>2. CASE SendFails
    BY <2>2, SendFailsStep
  <2>3. ASSUME NEW whose \in {"own", "old"}, Answer(whose) PROVE HedgeInv'
    BY <2>3, QuietStep DEF Answer
  <2>4. CASE UNCHANGED hvars
    BY <2>4, QuietStep DEF hvars, outcome, run
  <2> QED
    BY <2>1, <2>2, <2>3, <2>4 DEF HNext
<1> QED
  BY <1>1, <1>2, PTL DEF HSpec

(* The two populations of a T are comparable in every run: a hedge fires   *)
(* only on a trial that `unacked_at` would count, and such a trial goes    *)
(* unhedged only when its acknowledgement was read in the pass in which T  *)
(* came round (trial and unacked_at of hedge.rs).                          *)
THEOREM PopulationsMatchHolds == HSpec => []PopulationsMatch
<1>1. HedgeInv => PopulationsMatch
  <2> SUFFICES ASSUME HedgeInv, phase = "while", ~Unfinished, arm # Control
               PROVE  /\ hedged => unacked_at(ack, arm)
                      /\ ~hedged /\ unacked_at(ack, arm)
                           /\ arm + Pass < Deadline =>
                           ack # Unread /\ ack < arm + Pass
    BY DEF PopulationsMatch, Finished
  <2>1. arm \in Nat /\ clock \in Nat /\ ack \in Nat
    BY ArmFacts DEF HedgeInv, HedgeTypeOK, TrialsFiled, InTrial
  <2>2. /\ hedged => ack = Unread \/ ack > arm
        /\ ~hedged /\ ack # Unread => ack < arm + Pass
        /\ ~hedged /\ ack = Unread => clock <= arm + Pass
    BY DEF HedgeInv, MarkedInTime, InTrial
  <2>3. ack = Unread => ~ (clock < Deadline)
    BY DEF Unfinished
  <2> QED
    BY <2>1, <2>2, <2>3, ConstantFacts DEF unacked_at
<1> QED
  BY <1>1, HedgeInvHolds, PTL

(* Every run stops for the reason it prints, and no arm is ever more than  *)
(* one trial ahead of another (run and enough of hedge.rs).                *)
THEOREM StopsForItsReasonHolds == HSpec => []StopsForItsReason
<1>1. HedgeInv => StopsForItsReason
  <2> SUFFICES ASSUME HedgeInv PROVE StopsForItsReason
    OBVIOUS
  <2>1. round \in Nat
        /\ \A a \in Arms : Len(trials[a]) = IF a \in todo THEN round - 1 ELSE round
    BY DEF HedgeInv, HedgeTypeOK, TrialsFiled
  <2>2. \A a, b \in Arms : Len(trials[a]) <= Len(trials[b]) + 1
    BY <2>1
  <2>3. reason = "cap" => \A a \in Arms : Len(trials[a]) = MaxRounds
    BY <2>1 DEF HedgeInv, ReasonHeld
  <2>4. reason = "target" =>
          \A t \in Ts : Cardinality(Pool(t)) >= Target
                          /\ Cardinality(Fired(t)) >= Target
    BY DEF HedgeInv, ReasonHeld, enough
  <2> QED
    BY <2>2, <2>3, <2>4 DEF StopsForItsReason
<1> QED
  BY <1>1, HedgeInvHolds, PTL
=============================================================================
