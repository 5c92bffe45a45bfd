---------------------------- MODULE PairingProofs ----------------------------
(* Proofs about XnodeRead and Pairing, for every file of keys, burst, bound *)
(* and limit, and for any two clocks.                                       *)
EXTENDS Pairing, FiniteSetTheorems, SequenceTheorems, TLAPS

-----------------------------------------------------------------------------
(* Sequences of distinct keys.                                              *)

(* The elements of a sequence are those at its places.                     *)
LEMMA SeqFacts ==
  ASSUME NEW S, NEW s \in Seq(S)
  PROVE  /\ Len(s) \in Nat /\ DOMAIN s = 1 .. Len(s)
         /\ Range(s) = {s[n] : n \in 1 .. Len(s)} /\ Range(s) \subseteq S
<1>1. Len(s) \in Nat /\ DOMAIN s = 1 .. Len(s)
  BY LenProperties
<1>2. \A n \in 1 .. Len(s) : s[n] \in S
  BY ElementOfSeq
<1> QED
  BY <1>1, <1>2 DEF Range

(* A concatenation is injective if its parts are and share no element.     *)
LEMMA ConcatFacts ==
  ASSUME NEW S, NEW s \in Seq(S), NEW t \in Seq(S)
  PROVE  /\ s \o t \in Seq(S)
         /\ Range(s \o t) = Range(s) \cup Range(t)
         /\ IsInjective(s) /\ IsInjective(t) /\ Range(s) \cap Range(t) = {}
              => IsInjective(s \o t)
<1> DEFINE u == s \o t
<1>1. /\ Len(s) \in Nat /\ DOMAIN s = 1 .. Len(s) /\ Range(s) = {s[n] : n \in 1 .. Len(s)}
      /\ Len(t) \in Nat /\ DOMAIN t = 1 .. Len(t) /\ Range(t) = {t[n] : n \in 1 .. Len(t)}
  BY SeqFacts
<1>2. /\ u \in Seq(S) /\ Len(u) = Len(s) + Len(t)
      /\ \A i \in 1 .. Len(s) + Len(t) :
           u[i] = IF i <= Len(s) THEN s[i] ELSE t[i - Len(s)]
  BY ConcatProperties
<1> HIDE DEF u
<1>3. DOMAIN u = 1 .. Len(u) /\ Range(u) = {u[n] : n \in 1 .. Len(u)}
  BY <1>2, SeqFacts
<1>4. \A i \in 1 .. Len(u) : \/ i \in 1 .. Len(s) /\ u[i] = s[i]
                             \/ i - Len(s) \in 1 .. Len(t) /\ u[i] = t[i - Len(s)]
  BY <1>1, <1>2
<1>5. ASSUME NEW i \in 1 .. Len(s)
      PROVE  i \in 1 .. Len(u) /\ u[i] = s[i]
  BY <1>1, <1>2
<1>6. ASSUME NEW i \in 1 .. Len(t)
      PROVE  i + Len(s) \in 1 .. Len(u) /\ u[i + Len(s)] = t[i]
  <2>1. i + Len(s) \in 1 .. Len(s) + Len(t) /\ ~(i + Len(s) <= Len(s))
        /\ (i + Len(s)) - Len(s) = i
    BY <1>1
  <2> QED
    BY <1>2, <2>1
<1>7. Range(u) = Range(s) \cup Range(t)
  <2>1. ASSUME NEW x \in Range(u)
        PROVE  x \in Range(s) \cup Range(t)
    BY <1>1, <1>3, <1>4, <2>1
  <2>2. ASSUME NEW x \in Range(s)
        PROVE  x \in Range(u)
    BY <1>1, <1>3, <1>5, <2>2
  <2>3. ASSUME NEW x \in Range(t)
        PROVE  x \in Range(u)
    BY <1>1, <1>3, <1>6, <2>3
  <2> QED
    BY <2>1, <2>2, <2>3
<1>8. ASSUME IsInjective(s), IsInjective(t), Range(s) \cap Range(t) = {},
             NEW a \in 1 .. Len(u), NEW b \in 1 .. Len(u), u[a] = u[b]
      PROVE  a = b
  <2>1. CASE a \in 1 .. Len(s) /\ u[a] = s[a]
    <3>1. CASE b \in 1 .. Len(s) /\ u[b] = s[b]
      BY <1>1, <1>8, <2>1, <3>1 DEF IsInjective
    <3>2. CASE b - Len(s) \in 1 .. Len(t) /\ u[b] = t[b - Len(s)]
      BY <1>1, <1>8, <2>1, <3>2
    <3> QED
      BY <1>4, <3>1, <3>2
  <2>2. CASE a - Len(s) \in 1 .. Len(t) /\ u[a] = t[a - Len(s)]
    <3>1. CASE b \in 1 .. Len(s) /\ u[b] = s[b]
      BY <1>1, <1>8, <2>2, <3>1
    <3>2. CASE b - Len(s) \in 1 .. Len(t) /\ u[b] = t[b - Len(s)]
      <4>1. a - Len(s) = b - Len(s)
        BY <1>1, <1>8, <2>2, <3>2 DEF IsInjective
      <4> QED
        BY <1>1, <1>2, <4>1
    <3> QED
      BY <1>4, <3>1, <3>2
  <2> QED
    BY <1>4, <2>1, <2>2
<1>9. IsInjective(s) /\ IsInjective(t) /\ Range(s) \cap Range(t) = {} => IsInjective(u)
  BY <1>3, <1>8 DEF IsInjective
<1> QED
  BY <1>2, <1>7, <1>9 DEF u

(* What appending a new element to a list of keys does.                    *)
LEMMA AppendFacts ==
  ASSUME NEW S, NEW s \in Seq(S), NEW x \in S
  PROVE  /\ Append(s, x) \in Seq(S)
         /\ Range(Append(s, x)) = Range(s) \cup {x}
         /\ IsInjective(s) /\ x \notin Range(s) => IsInjective(Append(s, x))
<1> DEFINE u == Append(s, x)
<1>1. /\ Len(s) \in Nat /\ DOMAIN s = 1 .. Len(s) /\ Range(s) = {s[n] : n \in 1 .. Len(s)}
  BY SeqFacts
<1>2. /\ u \in Seq(S) /\ Len(u) = Len(s) + 1
      /\ u[Len(s) + 1] = x /\ \A i \in 1 .. Len(s) : u[i] = s[i]
  BY <1>1
<1> HIDE DEF u
<1>3. DOMAIN u = 1 .. Len(u) /\ Range(u) = {u[n] : n \in 1 .. Len(u)}
  BY <1>2, SeqFacts
<1>4. 1 .. Len(u) = 1 .. Len(s) \cup {Len(s) + 1}
  BY <1>1, <1>2
<1>5. Range(u) = Range(s) \cup {x}
  <2>1. \A i \in 1 .. Len(u) : u[i] \in Range(s) \cup {x}
    BY <1>1, <1>2, <1>4
  <2>2. \A i \in 1 .. Len(s) : s[i] \in Range(u)
    BY <1>2, <1>3, <1>4
  <2>3. x \in Range(u)
    BY <1>2, <1>3, <1>4
  <2> QED
    BY <1>1, <1>3, <2>1, <2>2, <2>3
<1>6. ASSUME IsInjective(s), x \notin Range(s),
             NEW a \in 1 .. Len(u), NEW b \in 1 .. Len(u), u[a] = u[b]
      PROVE  a = b
  BY <1>1, <1>2, <1>4, <1>6 DEF IsInjective
<1>7. IsInjective(s) /\ x \notin Range(s) => IsInjective(u)
  BY <1>3, <1>6 DEF IsInjective
<1> QED
  BY <1>2, <1>5, <1>7 DEF u

(* What taking the first of a list of keys does.                           *)
LEMMA TailFacts ==
  ASSUME NEW S, NEW s \in Seq(S), s # <<>>
  PROVE  /\ Head(s) \in S /\ Tail(s) \in Seq(S)
         /\ Range(s) = Range(Tail(s)) \cup {Head(s)}
         /\ IsInjective(s) => IsInjective(Tail(s)) /\ Head(s) \notin Range(Tail(s))
<1> DEFINE t == Tail(s)
<1>1. /\ Len(s) \in Nat \ {0} /\ DOMAIN s = 1 .. Len(s)
      /\ Range(s) = {s[n] : n \in 1 .. Len(s)}
  BY SeqFacts, EmptySeq
<1>2. /\ Head(s) \in S /\ t \in Seq(S) /\ Len(t) = Len(s) - 1
      /\ \A i \in 1 .. Len(t) : t[i] = s[i + 1]
  BY HeadTailProperties
<1>3. Head(s) = s[1]
  BY <1>1
<1> HIDE DEF t
<1>4. DOMAIN t = 1 .. Len(t) /\ Range(t) = {t[n] : n \in 1 .. Len(t)}
  BY <1>2, SeqFacts
<1>5. /\ 1 \in 1 .. Len(s)
      /\ \A i \in 1 .. Len(t) : i + 1 \in 1 .. Len(s) /\ i + 1 # 1
      /\ \A i \in 1 .. Len(s) : i = 1 \/ (i - 1 \in 1 .. Len(t) /\ (i - 1) + 1 = i)
  BY <1>1, <1>2
<1>6. Range(s) = Range(t) \cup {Head(s)}
  <2>1. ASSUME NEW i \in 1 .. Len(s)
        PROVE  s[i] \in Range(t) \cup {Head(s)}
    <3>1. CASE i = 1
      BY <1>3, <3>1
    <3>2. CASE i - 1 \in 1 .. Len(t) /\ (i - 1) + 1 = i
      <4>1. t[i - 1] = s[i]
        BY <1>2, <3>2
      <4> QED
        BY <1>4, <3>2, <4>1
    <3> QED
      BY <1>5, <3>1, <3>2
  <2>2. ASSUME NEW i \in 1 .. Len(t)
        PROVE  t[i] \in Range(s)
    BY <1>1, <1>2, <1>5
  <2> QED
    BY <1>1, <1>3, <1>4, <1>5, <2>1, <2>2
<1>7. ASSUME IsInjective(s)
      PROVE  IsInjective(t) /\ Head(s) \notin Range(t)
  <2>1. ASSUME NEW a \in 1 .. Len(t), NEW b \in 1 .. Len(t), t[a] = t[b]
        PROVE  a = b
    <3>1. a + 1 = b + 1
      BY <1>1, <1>2, <1>5, <1>7, <2>1 DEF IsInjective
    <3> QED
      BY <3>1
  <2>2. ASSUME NEW a \in 1 .. Len(t), t[a] = Head(s)
        PROVE  FALSE
    <3>1. a + 1 = 1
      BY <1>1, <1>2, <1>3, <1>5, <1>7, <2>2 DEF IsInjective
    <3> QED
      BY <1>5, <3>1
  <2> QED
    BY <1>4, <2>1, <2>2 DEF IsInjective
<1> QED
  BY <1>2, <1>6, <1>7 DEF t

-----------------------------------------------------------------------------
(* The keys `among` keeps.  The rank of a position in a finite set of them  *)
(* is a bijection, so every kept key is found at its rank, once.            *)
Rank(at, n) == Cardinality({m \in at : m <= n})

(* Ranks are the numbers up to how many places are kept.                   *)
LEMMA RankFacts ==
  ASSUME NEW at, IsFiniteSet(at), at \subseteq Nat
  PROVE  /\ \A n \in at : Rank(at, n) \in 1 .. Cardinality(at)
         /\ \A m, n \in at : Rank(at, m) = Rank(at, n) => m = n
         /\ \A k \in 1 .. Cardinality(at) : \E n \in at : Rank(at, n) = k
<1> DEFINE below(n) == {m \in at : m <= n}
<1>1. \A n : IsFiniteSet(below(n)) /\ Cardinality(below(n)) \in Nat
             /\ Cardinality(below(n)) <= Cardinality(at)
  BY FS_Subset, FS_CardinalityType
<1>2. Cardinality(at) \in Nat
  BY FS_CardinalityType
<1>3. ASSUME NEW n \in at
      PROVE  Rank(at, n) \in 1 .. Cardinality(at)
  <2>1. n \in below(n)
    BY <1>3
  <2>2. Cardinality(below(n)) # 0
    BY <1>1, <2>1, FS_EmptySet
  <2> QED
    BY <1>1, <1>2, <2>2 DEF Rank
<1>4. ASSUME NEW m \in at, NEW n \in at, m < n
      PROVE  Rank(at, m) # Rank(at, n)
  <2>0. m \in Nat /\ n \in Nat
    OBVIOUS
  <2>1. n \in below(n) /\ n \notin below(m) /\ \A x \in below(m) : x \in below(n)
    BY <1>4, <2>0
  <2>2. Cardinality(below(n)) # Cardinality(below(m))
    BY <1>1, <2>1, FS_Subset
  <2> QED
    BY <2>2 DEF Rank
<1>5. \A m, n \in at : Rank(at, m) = Rank(at, n) => m = n
  <2> TAKE m, n \in at
  <2>1. m \in Nat /\ n \in Nat
    OBVIOUS
  <2> QED
    BY <1>4, <2>1
<1>6. \A k \in 1 .. Cardinality(at) : \E n \in at : Rank(at, n) = k
  <2> DEFINE f == [n \in at |-> Rank(at, n)]
             T == 1 .. Cardinality(at)
  <2>1. f \in Injection(at, T)
    BY <1>3, <1>5 DEF Injection, IsInjective
  <2>2. IsFiniteSet(T) /\ Cardinality(T) = Cardinality(at)
    BY <1>2, FS_Interval
  <2>3. \A n \in at : f[n] = Rank(at, n)
    OBVIOUS
  <2> HIDE DEF f, T
  <2>4. f \in Surjection(at, T)
    BY <2>1, <2>2, FS_Injection
  <2> QED
    BY <2>3, <2>4 DEF Surjection, T
<1> QED
  BY <1>3, <1>5, <1>6

(* What stays of a list keeps each element once, and no other.             *)
LEMMA AmongFacts ==
  ASSUME NEW S, NEW s \in Seq(S), NEW T
  PROVE  /\ among(s, T) \in Seq(S)
         /\ Range(among(s, T)) = Range(s) \cap T
         /\ IsInjective(s) => IsInjective(among(s, T))
<1> DEFINE at == {n \in 1 .. Len(s) : s[n] \in T}
           nth(k) == CHOOSE n \in at : Cardinality({m \in at : m <= n}) = k
           u == among(s, T)
           c == Cardinality(at)
<1>1. /\ Len(s) \in Nat /\ DOMAIN s = 1 .. Len(s)
      /\ Range(s) = {s[n] : n \in 1 .. Len(s)} /\ \A n \in 1 .. Len(s) : s[n] \in S
  BY SeqFacts
<1>2. at \subseteq 1 .. Len(s) /\ at \subseteq Nat /\ IsFiniteSet(at)
  <2>1. IsFiniteSet(1 .. Len(s)) /\ at \subseteq 1 .. Len(s)
    BY <1>1, FS_Interval
  <2> QED
    BY <1>1, <2>1, FS_Subset
<1>3. c \in Nat
  BY <1>2, FS_CardinalityType
<1>4. u = [k \in 1 .. c |-> s[nth(k)]]
  BY DEF among
<1>5. \A n \in at : n \in 1 .. Len(s) /\ s[n] \in T
  OBVIOUS
<1>6. \A n \in 1 .. Len(s) : s[n] \in T => n \in at
  OBVIOUS
<1> HIDE DEF at
<1>7. /\ \A n \in at : Rank(at, n) \in 1 .. c
      /\ \A m, n \in at : Rank(at, m) = Rank(at, n) => m = n
      /\ \A k \in 1 .. c : \E n \in at : Rank(at, n) = k
  BY <1>2, RankFacts
<1>8. /\ \A k \in 1 .. c : nth(k) \in at /\ Rank(at, nth(k)) = k
      /\ \A n \in at : Rank(at, n) \in 1 .. c /\ nth(Rank(at, n)) = n
  <2>1. \A k : nth(k) = CHOOSE n \in at : Rank(at, n) = k
    BY DEF Rank
  <2> HIDE DEF nth, c
  <2>2. ASSUME NEW k \in 1 .. c
        PROVE  nth(k) \in at /\ Rank(at, nth(k)) = k
    BY <1>7, <2>1
  <2>3. ASSUME NEW n \in at
        PROVE  Rank(at, n) \in 1 .. c /\ nth(Rank(at, n)) = n
    BY <1>7, <2>2
  <2> QED
    BY <2>2, <2>3
<1> HIDE DEF nth, u, c
<1>9. /\ u \in Seq(S) /\ Len(u) = c /\ DOMAIN u = 1 .. c
      /\ \A k \in 1 .. c : u[k] = s[nth(k)]
  <2>1. \A k \in 1 .. c : s[nth(k)] \in S
    BY <1>1, <1>5, <1>8
  <2> QED
    BY <1>3, <1>4, <2>1
<1>10. Range(u) = {u[k] : k \in 1 .. c}
  BY <1>9 DEF Range
<1>11. Range(u) = Range(s) \cap T
  <2>1. \A k \in 1 .. c : u[k] \in Range(s) \cap T
    BY <1>1, <1>5, <1>8, <1>9
  <2>2. ASSUME NEW n \in 1 .. Len(s), s[n] \in T
        PROVE  s[n] \in Range(u)
    <3>1. n \in at
      BY <1>6, <2>2
    <3>2. Rank(at, n) \in 1 .. c /\ u[Rank(at, n)] = s[n]
      BY <1>8, <1>9, <3>1
    <3> QED
      BY <1>10, <3>2
  <2> QED
    BY <1>1, <1>10, <2>1, <2>2
<1>12. ASSUME IsInjective(s), NEW a \in 1 .. c, NEW b \in 1 .. c, u[a] = u[b]
       PROVE  a = b
  <2>1. nth(a) \in 1 .. Len(s) /\ nth(b) \in 1 .. Len(s) /\ s[nth(a)] = s[nth(b)]
    BY <1>5, <1>8, <1>9, <1>12
  <2>2. nth(a) = nth(b)
    BY <1>1, <1>12, <2>1 DEF IsInjective
  <2> QED
    BY <1>8, <2>2
<1>13. IsInjective(s) => IsInjective(u)
  BY <1>9, <1>12 DEF IsInjective
<1> QED
  BY <1>9, <1>11, <1>13 DEF u

-----------------------------------------------------------------------------
(* The inductive invariant of the reader.                                   *)

(* Each of the three lists names its keys once, and they share none.        *)
Placed ==
  /\ IsInjective(todo) /\ IsInjective(pending) /\ IsInjective(reads)
  /\ Range(todo) \cap Range(pending) = {}
  /\ Range(todo) \cap Range(reads) = {}
  /\ Range(pending) \cap Range(reads) = {}
  /\ void \cap (Range(todo) \cup Range(pending) \cup Range(reads)) = {}
  /\ Key = void \cup Range(todo) \cup Range(pending) \cup Range(reads)

(* A key a round has found was looked at in that round, which is over when *)
(* its READ line is printed: no more than a round lies between the two.    *)
Stamped ==
  /\ phase = "control" => hits = {} /\ reads = <<>>
  /\ hits \subseteq Range(pending)
  /\ \A k \in hits : looked[k] < now /\ now <= looked[k] + step
  /\ \A k \in Range(reads) : looked[k] < hit_at[k] /\ hit_at[k] <= looked[k] + Burst

ReadInv == TypeOK /\ Placed /\ Stamped /\ HonestHits

(* The parts of the type invariant.                                         *)
LEMMA Shapes ==
  ASSUME TypeOK
  PROVE  /\ todo \in Seq(Key) /\ pending \in Seq(Key) /\ reads \in Seq(Key)
         /\ now \in Nat /\ cursor \in Nat /\ step \in Nat
BY ReadAssumption DEF TypeOK

(* The reader begins with all keys still to be looked at.                  *)
LEMMA ReadInit == Init => ReadInv
<1> SUFFICES ASSUME Init PROVE ReadInv
  OBVIOUS
<1> DEFINE T == 1 .. Cardinality(Key)
<1>1. /\ now = 0 /\ phase = "control" /\ pending = <<>> /\ void = {} /\ reads = <<>>
      /\ cursor = 0 /\ step = 0 /\ hits = {} /\ has \subseteq Key
      /\ owed = {} /\ socket = {} /\ looked = [k \in Key |-> 0]
      /\ hit_at = [k \in Key |-> 0]
      /\ todo \in [T -> Key] /\ IsInjective(todo)
  BY DEF Init
<1>2. Cardinality(Key) \in Nat /\ IsFiniteSet(T) /\ Cardinality(T) = Cardinality(Key)
  BY ReadAssumption, FS_CardinalityType, FS_Interval
<1>3. /\ todo \in Seq(Key) /\ pending \in Seq(Key) /\ reads \in Seq(Key)
  BY <1>1, <1>2
<1>4. Range(todo) = Key
  <2>1. todo \in Injection(T, Key)
    BY <1>1 DEF Injection
  <2>2. todo \in Surjection(T, Key)
    BY <1>2, <2>1, ReadAssumption, FS_Injection
  <2> HIDE DEF T
  <2>3. DOMAIN todo = T /\ \A k \in Key : \E n \in T : todo[n] = k
    BY <1>1, <2>2 DEF Surjection
  <2> QED
    BY <1>1, <2>3 DEF Range
<1>5. /\ Range(<<>>) = {} /\ IsInjective(<<>>)
  BY DEF Range, IsInjective
<1>6. TypeOK
  <2>1. now \in 0 .. Limit + Bound - 1 /\ step \in 0 .. Burst
    BY <1>1, ReadAssumption
  <2>2. looked \in [Key -> 0 .. now] /\ hit_at \in [Key -> 0 .. now]
    BY <1>1
  <2> QED
    BY <1>1, <1>3, <2>1, <2>2 DEF TypeOK
<1>7. Placed
  BY <1>1, <1>4, <1>5 DEF Placed
<1>8. HonestHits /\ Stamped
  BY <1>1, <1>5 DEF HonestHits, Stamped
<1> QED
  BY <1>6, <1>7, <1>8 DEF ReadInv

(* What a probe leaves: a hit is a key this node holds.                     *)
LEMMA ProbeEffect ==
  ASSUME TypeOK, has' = has, NEW id \in Key, NEW hit \in BOOLEAN,
         NEW bound \in 1 .. Bound, now < Limit, probe_once(id, hit, bound)
  PROVE  /\ now' \in 0 .. Limit + Bound - 1 /\ now <= now'
         /\ owed' \subseteq Key /\ socket' = {}
         /\ hit => id \in has
<1>1. PICK d \in 1 .. bound : now' = now + d
  BY DEF probe_once
<1>2. now' \in 0 .. Limit + Bound - 1 /\ now <= now'
  BY <1>1, ReadAssumption DEF TypeOK
<1>3. socket' = {} /\ owed' \subseteq Key /\ (hit => id \in has)
  BY DEF probe_once, TypeOK
<1> QED
  BY <1>2, <1>3

(* Time passing leaves the looks in the past.                               *)
LEMMA LooksPast ==
  ASSUME NEW a \in Nat, NEW b \in Nat, a <= b, NEW f \in [Key -> 0 .. a]
  PROVE  f \in [Key -> 0 .. b]
<1>1. \A x \in 0 .. a : x \in 0 .. b
  OBVIOUS
<1> QED
  BY <1>1

(* The key a round looks at is a pending one.                               *)
LEMMA AtIsPending ==
  ASSUME TypeOK, pending # <<>>
  PROVE  At \in Range(pending) /\ At \in Key
<1>1. /\ Len(pending) \in Nat \ {0} /\ Range(pending) \subseteq Key
      /\ Range(pending) = {pending[n] : n \in 1 .. Len(pending)}
  BY Shapes, SeqFacts, EmptySeq
<1>2. cursor + step \in Nat
  BY Shapes
<1>3. (cursor + step) % Len(pending) \in 0 .. Len(pending) - 1
  BY <1>1, <1>2
<1>4. 1 + ((cursor + step) % Len(pending)) \in 1 .. Len(pending)
  BY <1>1, <1>3
<1> QED
  BY <1>1, <1>4 DEF At

(* A probe of the cold control moves its key to one other list.            *)
LEMMA ControlProbeKeeps ==
  ASSUME ReadInv, NEW hit \in BOOLEAN, ControlProbe(hit)
  PROVE  ReadInv'
<1> DEFINE id == Head(todo)
<1>0. TypeOK /\ Placed /\ Stamped /\ HonestHits
  BY DEF ReadInv
<1>1. /\ phase = "control" /\ todo # <<>> /\ now < Limit /\ probe_once(id, hit, Bound)
      /\ hit => void' = void \cup {id} /\ pending' = pending
      /\ ~hit => pending' = Append(pending, id) /\ void' = void
      /\ todo' = Tail(todo)
      /\ UNCHANGED <<phase, reads, cursor, step, hits, has, hit_at, looked>>
  BY DEF ControlProbe
<1>2. /\ id \in Key /\ todo' \in Seq(Key)
      /\ Range(todo) = Range(todo') \cup {id}
      /\ IsInjective(todo') /\ id \notin Range(todo')
  BY <1>0, <1>1, Shapes, TailFacts DEF Placed
<1>3. /\ now' \in 0 .. Limit + Bound - 1 /\ now <= now'
      /\ owed' \subseteq Key /\ socket' = {} /\ (hit => id \in has)
  BY <1>0, <1>1, <1>2, ProbeEffect, ReadAssumption
<1> HIDE DEF id
<1>4. looked' \in [Key -> 0 .. now'] /\ hit_at' \in [Key -> 0 .. now']
  <2>1. looked \in [Key -> 0 .. now] /\ hit_at \in [Key -> 0 .. now] /\ now \in Nat
    BY <1>0, Shapes DEF TypeOK
  <2>2. now' \in Nat
    BY <1>3, ReadAssumption
  <2>3. 0 .. now \subseteq 0 .. now'
    BY <1>3, <2>1, <2>2
  <2>4. looked' = looked /\ hit_at' = hit_at
    BY <1>1
  <2> QED
    BY <2>1, <2>3, <2>4
<1>7. Stamped'
  BY <1>0, <1>1, EmptySeq DEF Stamped
<1>5. CASE hit
  <2>1. TypeOK'
    BY <1>0, <1>1, <1>2, <1>3, <1>4, <1>5 DEF TypeOK
  <2>2. Placed'
    BY <1>0, <1>1, <1>2, <1>5 DEF Placed
  <2>3. HonestHits'
    BY <1>0, <1>1, <1>3, <1>5 DEF HonestHits
  <2> QED
    BY <1>7, <2>1, <2>2, <2>3 DEF ReadInv
<1>6. CASE ~hit
  <2>1. /\ pending' \in Seq(Key) /\ Range(pending') = Range(pending) \cup {id}
        /\ IsInjective(pending')
    <3>1. /\ pending \in Seq(Key) /\ IsInjective(pending)
          /\ id \notin Range(pending) /\ pending' = Append(pending, id)
      BY <1>0, <1>1, <1>2, <1>6, Shapes DEF Placed
    <3> QED
      BY <1>2, <3>1, AppendFacts
  <2>2. TypeOK'
    BY <1>0, <1>1, <1>2, <1>3, <1>4, <1>6, <2>1 DEF TypeOK
  <2>3. Placed'
    BY <1>0, <1>1, <1>2, <1>6, <2>1 DEF Placed
  <2>4. HonestHits'
    BY <1>0, <1>1, <1>3, <1>6 DEF HonestHits
  <2> QED
    BY <1>7, <2>2, <2>3, <2>4 DEF ReadInv
<1> QED
  BY <1>5, <1>6

(* A probe of a round leaves the lists alone.                              *)
LEMMA RoundProbeKeeps ==
  ASSUME ReadInv, NEW hit \in BOOLEAN, RoundProbe(hit)
  PROVE  ReadInv'
<1>0. TypeOK /\ Placed /\ Stamped /\ HonestHits
  BY DEF ReadInv
<1>1. /\ phase = "round" /\ pending # <<>> /\ step < RoundSize /\ now < Limit
      /\ probe_once(At, hit, 1) /\ now' = now + 1
      /\ hits' = IF hit THEN hits \cup {At} ELSE hits
      /\ looked' = [looked EXCEPT ![At] = now] /\ step' = step + 1
      /\ UNCHANGED <<phase, todo, pending, void, reads, cursor, has, hit_at>>
  <2>1. \E d \in 1 .. 1 : now' = now + d
    BY DEF RoundProbe, probe_once
  <2>2. now' = now + 1
    BY <2>1
  <2> QED
    BY <2>2 DEF RoundProbe, InRound
<1>2. At \in Key /\ At \in Range(pending)
  BY <1>0, <1>1, AtIsPending
<1>3. /\ now' \in 0 .. Limit + Bound - 1 /\ now <= now'
      /\ owed' \subseteq Key /\ socket' = {} /\ (hit => At \in has)
  <2>1. 1 \in 1 .. Bound
    BY ReadAssumption
  <2> QED
    BY <1>0, <1>1, <1>2, <2>1, ProbeEffect
<1>4. step' \in 0 .. Burst
  <2>1. Len(pending) \in Nat /\ step \in Nat
    BY <1>0, Shapes
  <2> QED
    BY <1>1, <2>1, ReadAssumption DEF RoundSize
<1>5. looked' \in [Key -> 0 .. now'] /\ hit_at' \in [Key -> 0 .. now']
  <2>1. now \in Nat /\ now' \in Nat /\ now \in 0 .. now /\ looked \in [Key -> 0 .. now]
        /\ hit_at \in [Key -> 0 .. now]
    BY <1>0, <1>3, ReadAssumption DEF TypeOK
  <2>2. looked' \in [Key -> 0 .. now]
    BY <1>1, <2>1
  <2> QED
    BY <1>1, <1>3, <2>1, <2>2, LooksPast
<1>6. TypeOK'
  BY <1>0, <1>1, <1>2, <1>3, <1>4, <1>5 DEF TypeOK
<1>7. Placed'
  BY <1>0, <1>1 DEF Placed
<1>8. HonestHits'
  BY <1>0, <1>1, <1>3 DEF HonestHits
<1>9. Stamped'
  <2>1. /\ now \in Nat /\ step \in Nat /\ looked \in [Key -> 0 .. now]
        /\ Range(pending) \subseteq Key /\ Range(reads) \subseteq Key
    BY <1>0, Shapes, SeqFacts DEF TypeOK
  <2>2. hits' \subseteq Range(pending')
    BY <1>0, <1>1, <1>2 DEF Stamped
  <2>3. ASSUME NEW k \in hits'
        PROVE  looked'[k] < now' /\ now' <= looked'[k] + step'
    <3>1. CASE k = At
      BY <1>1, <1>2, <2>1, <3>1
    <3>2. CASE k # At
      <4>1. k \in hits /\ k \in Key /\ looked[k] \in Nat
        BY <1>0, <1>1, <2>1, <3>2 DEF Stamped
      <4>2. looked'[k] = looked[k] /\ looked[k] < now /\ now <= looked[k] + step
        BY <1>0, <1>1, <2>1, <3>2, <4>1 DEF Stamped
      <4> QED
        BY <1>1, <2>1, <4>1, <4>2
    <3> QED
      BY <3>1, <3>2
  <2>4. ASSUME NEW k \in Range(reads')
        PROVE  looked'[k] = looked[k] /\ hit_at'[k] = hit_at[k] /\ k \in Range(reads)
    <3>1. k \in Range(reads) /\ k # At /\ k \in Key
      BY <1>0, <1>1, <1>2, <2>1 DEF Placed
    <3> QED
      BY <1>1, <2>1, <3>1
  <2> QED
    BY <1>0, <1>1, <2>2, <2>3, <2>4 DEF Stamped
<1> QED
  BY <1>6, <1>7, <1>8, <1>9 DEF ReadInv

(* The end of a round moves its hits, and only them, out of pending.       *)
LEMMA EndRoundInv ==
  ASSUME ReadInv, EndRound
  PROVE  ReadInv'
<1> DEFINE found == among(pending, hits)
           still == among(pending, Key \ hits)
<1>0. TypeOK /\ Placed /\ Stamped /\ HonestHits
  BY DEF ReadInv
<1>1. /\ phase = "round" /\ pending # <<>> /\ cursor' = (cursor + RoundSize) % Len(pending)
      /\ reads' = reads \o found /\ pending' = still
      /\ step' = 0 /\ hits' = {}
      /\ hit_at' = [k \in Key |-> IF k \in hits THEN now ELSE hit_at[k]]
      /\ UNCHANGED <<now, phase, todo, void, has, wire, looked>>
  BY DEF EndRound, InRound
<1>2. /\ found \in Seq(Key) /\ Range(found) = Range(pending) \cap hits
      /\ still \in Seq(Key) /\ Range(still) = Range(pending) \cap (Key \ hits)
      /\ IsInjective(found) /\ IsInjective(still)
  BY <1>0, Shapes, AmongFacts DEF Placed
<1> HIDE DEF found, still
<1>3. Range(pending) \subseteq Key
  BY <1>0, Shapes, SeqFacts
<1>4. /\ reads' \in Seq(Key) /\ Range(reads') = Range(reads) \cup Range(found)
      /\ IsInjective(reads')
  <2>1. Range(reads) \cap Range(found) = {}
    BY <1>0, <1>2 DEF Placed
  <2> QED
    BY <1>0, <1>1, <1>2, <2>1, Shapes, ConcatFacts DEF Placed
<1>5. cursor' \in Nat
  <2>1. Len(pending) \in Nat \ {0} /\ RoundSize \in Nat /\ cursor \in Nat
    BY <1>0, <1>1, Shapes, EmptySeq, ReadAssumption DEF RoundSize
  <2>2. cursor + RoundSize \in Nat
    BY <2>1
  <2> QED
    BY <1>1, <2>1, <2>2
<1>9. hit_at' \in [Key -> 0 .. now']
  <2>1. now \in 0 .. now /\ hit_at \in [Key -> 0 .. now]
    BY <1>0, Shapes DEF TypeOK
  <2> QED
    BY <1>1, <2>1
<1>6. TypeOK'
  <2>1. still \in Seq(Key) /\ 0 \in 0 .. Burst
    BY <1>2, ReadAssumption
  <2>2. /\ now' = now /\ phase' = phase /\ todo' = todo /\ void' = void
        /\ has' = has /\ owed' = owed /\ socket' = socket /\ looked' = looked
    BY <1>1 DEF wire
  <2> QED
    BY <1>0, <1>1, <1>4, <1>5, <1>9, <2>1, <2>2 DEF TypeOK
<1>7. Placed'
  BY <1>0, <1>1, <1>2, <1>3, <1>4 DEF Placed
<1>8. HonestHits'
  BY <1>0, <1>1, <1>2, <1>4 DEF HonestHits
<1>10. Stamped'
  <2>1. /\ now \in Nat /\ step \in 0 .. Burst /\ looked \in [Key -> 0 .. now]
        /\ Range(pending) \subseteq Key /\ Range(reads') \subseteq Key
    BY <1>0, <1>2, <1>3, <1>4, Shapes, SeqFacts DEF TypeOK
  <2>2. ASSUME NEW k \in Range(reads')
        PROVE  looked[k] < hit_at'[k] /\ hit_at'[k] <= looked[k] + Burst
    <3>1. CASE k \in hits
      <4>1. hit_at'[k] = now /\ looked[k] \in Nat
        BY <1>1, <2>1, <3>1
      <4>2. looked[k] < now /\ now <= looked[k] + step
        BY <1>0, <3>1 DEF Stamped
      <4> QED
        BY <2>1, <4>1, <4>2, ReadAssumption
    <3>2. CASE k \notin hits
      BY <1>0, <1>1, <1>2, <1>4, <2>1, <3>2 DEF Stamped
    <3> QED
      BY <3>1, <3>2
  <2>3. hits' = {} /\ phase' # "control" /\ looked' = looked
    BY <1>1
  <2> QED
    BY <2>2, <2>3 DEF Stamped
<1> QED
  BY <1>6, <1>7, <1>8, <1>10 DEF ReadInv

(* The steps that move no key, and look at none.                            *)
LEMMA QuietKeeps ==
  ASSUME ReadInv, UNCHANGED <<now, todo, pending, void, reads, cursor, step, hits>>,
         phase' \in {"control", "round", "done", "bailed"},
         has \subseteq has', has' \subseteq Key,
         owed' \subseteq Key, socket' \subseteq has',
         looked' \in [Key -> 0 .. now], hit_at' = hit_at,
         phase' = "control" => phase = "control",
         looked' = looked \/ phase = "control"
  PROVE  ReadInv'
<1>4. Stamped'
  <2>1. CASE phase = "control"
    <3>1. hits = {} /\ reads = <<>>
      BY <2>1 DEF ReadInv, Stamped
    <3>2. hits' = {} /\ Range(reads') = {}
      BY <3>1 DEF Range
    <3>3. reads' = <<>>
      BY <3>1
    <3>4. hits' \subseteq Range(pending')
      BY <3>2
    <3>5. /\ \A k \in hits' : looked'[k] < now' /\ now' <= looked'[k] + step'
          /\ \A k \in Range(reads') :
               looked'[k] < hit_at'[k] /\ hit_at'[k] <= looked'[k] + Burst
      BY <3>2, Zenon
    <3> QED
      BY <3>2, <3>3, <3>4, <3>5, Zenon DEF Stamped
  <2>2. CASE phase # "control"
    <3>1. looked' = looked /\ phase' # "control"
      BY <2>2
    <3> QED
      BY <3>1 DEF ReadInv, Stamped
  <2> QED
    BY <2>1, <2>2
<1>1. TypeOK'
  BY DEF ReadInv, TypeOK
<1>2. Placed'
  BY DEF ReadInv, Placed
<1>3. HonestHits'
  BY DEF ReadInv, HonestHits
<1> QED
  BY <1>1, <1>2, <1>3, <1>4 DEF ReadInv

(* Every step of the reader keeps every key in one place.                  *)
LEMMA ReadInductive == ReadInv /\ [Next]_vars => ReadInv'
<1> SUFFICES ASSUME ReadInv, [Next]_vars PROVE ReadInv'
  OBVIOUS
<1>0. /\ TypeOK /\ now \in 0 .. now
  BY Shapes DEF ReadInv
<1>1. CASE \E hit \in BOOLEAN : ControlProbe(hit) \/ RoundProbe(hit)
  BY <1>1, ControlProbeKeeps, RoundProbeKeeps
<1>2. CASE EndRound
  BY <1>2, EndRoundInv
<1>3. CASE ControlRanOut \/ Finish \/ Fail
  BY <1>0, <1>3, QuietKeeps DEF ControlRanOut, Finish, Fail, wire, TypeOK
<1>4. CASE EndControl
  <2>1. looked' \in [Key -> 0 .. now]
    BY <1>0, <1>4 DEF EndControl
  <2> QED
    BY <1>0, <1>4, <2>1, QuietKeeps DEF EndControl, wire, TypeOK
<1>5. ASSUME NEW k \in Key, Store(k)
      PROVE  ReadInv'
  BY <1>0, <1>5, QuietKeeps DEF Store, wire, TypeOK, Running
<1>6. ASSUME NEW k \in Key, LateAnswer(k)
      PROVE  ReadInv'
  BY <1>0, <1>6, QuietKeeps DEF LateAnswer, TypeOK, Running
<1>7. CASE UNCHANGED vars
  BY <1>0, <1>7, QuietKeeps DEF vars, TypeOK
<1> QED
  BY <1>1, <1>2, <1>3, <1>4, <1>5, <1>6, <1>7 DEF Next, Reader

(* Every key of the file is in exactly one place.                           *)
LEMMA EachKeyOnceFollows == ReadInv => EachKeyOnce
<1> SUFFICES ASSUME ReadInv PROVE EachKeyOnce
  OBVIOUS
<1>0. Placed /\ todo \in Seq(Key) /\ pending \in Seq(Key) /\ reads \in Seq(Key)
  BY Shapes DEF ReadInv
<1> DEFINE u == todo \o pending
<1>1. u \in Seq(Key) /\ Range(u) = Range(todo) \cup Range(pending) /\ IsInjective(u)
  BY <1>0, ConcatFacts DEF Placed
<1> HIDE DEF u
<1>2. Range(u) \cap Range(reads) = {}
  BY <1>0, <1>1 DEF Placed
<1>3. Range(u \o reads) = Range(u) \cup Range(reads) /\ IsInjective(u \o reads)
  BY <1>0, <1>1, <1>2, ConcatFacts DEF Placed
<1>4. /\ IsInjective(todo \o pending \o reads)
      /\ Range(todo \o pending \o reads)
           = Range(todo) \cup Range(pending) \cup Range(reads)
  BY <1>1, <1>3 DEF u
<1> QED
  BY <1>0, <1>4 DEF EachKeyOnce, Placed

-----------------------------------------------------------------------------
(* The writer beside the reader.                                            *)

(* What the writer notes is a time of its own clock, and a read file holds  *)
(* keys of the file.                                                        *)
PairInv ==
  /\ ReadInv
  /\ skew \in Int
  /\ sentAt \in [Written -> Int] /\ ackAt \in [Written -> Int]

(* Before anything is put or read, the two files agree.                    *)
LEMMA PairInit == PInit => PairInv
BY ReadInit, PairingAssumption DEF PInit, PairInv, NotYet

(* Every step of either process keeps their files true to what happened.   *)
LEMMA PairInductive == PairInv /\ [PNext]_<<vars, skew, wvars>> => PairInv'
<1> SUFFICES ASSUME PairInv, [PNext]_<<vars, skew, wvars>> PROVE PairInv'
  OBVIOUS
<1>1. CASE (Next \/ UNCHANGED vars) /\ UNCHANGED <<skew, wvars>>
  BY <1>1, ReadInductive DEF PairInv, wvars
<1>2. ASSUME NEW k \in Written, Sends(k) \/ Acks(k)
      PROVE  PairInv'
  <2>1. UNCHANGED vars /\ skew' = skew /\ now \in Int
    BY <1>2, Shapes DEF Sends, Acks, PairInv, ReadInv
  <2>2. ReadInv'
    BY <2>1, ReadInductive DEF PairInv
  <2>3. sentAt' \in [Written -> Int] /\ ackAt' \in [Written -> Int]
    BY <1>2, <2>1 DEF Sends, Acks, PairInv
  <2> QED
    BY <2>1, <2>2, <2>3 DEF PairInv
<1> QED
  BY <1>1, <1>2 DEF PNext

(* The three times of a pair are numbers.                                   *)
LEMMA PairTimes ==
  ASSUME PairInv, NEW k \in Range(reads) \cap Sent
  PROVE  /\ sentAt[k] \in Int /\ ackAt[k] \in Int /\ skew \in Int
         /\ hit_at[k] \in Int /\ served(k) \in Int
         /\ served(k) <= hit_at[k] /\ hit_at[k] <= served(k) + (Burst - 1)
<1>1. k \in Written /\ k \in Key
  BY PairingAssumption DEF Sent
<1>2. looked[k] \in 0 .. now /\ hit_at[k] \in 0 .. now /\ now \in Nat
  BY <1>1, Shapes DEF PairInv, ReadInv, TypeOK
<1>3. looked[k] < hit_at[k] /\ hit_at[k] <= looked[k] + Burst
  BY DEF PairInv, ReadInv, Stamped
<1>4. sentAt[k] \in Int /\ ackAt[k] \in Int /\ skew \in Int
  BY <1>1 DEF PairInv
<1> QED
  BY <1>2, <1>3, <1>4, ReadAssumption DEF served

(* A time in a file is the time, but for less than a grain; and so is the  *)
(* difference of two.                                                      *)
LEMMA RoundedFacts ==
  ASSUME NEW a \in Int
  PROVE  /\ rounded(a) \in Int
         /\ rounded(a) <= a + Grain \div 2
         /\ a + Grain \div 2 <= rounded(a) + (Grain - 1)
         /\ Grain \in Nat \ {0} /\ Grain \div 2 \in Nat /\ Grain \div 2 <= Grain - 1
<1>1. Grain \in Nat \ {0} /\ Grain \div 2 \in Nat /\ Grain \div 2 <= Grain - 1
  BY PairingAssumption
<1> DEFINE half == Grain \div 2
           up == a + half
<1>2. half \in Nat
  BY <1>1
<1> HIDE DEF half
<1>3. up \in Int
  BY <1>2
<1> HIDE DEF up
<1>4. up % Grain \in 0 .. Grain - 1
  BY <1>1, <1>3
<1>5. rounded(a) = up - (up % Grain)
  BY DEF rounded, up, half
<1> DEFINE rest == up % Grain
<1>6. rest \in Nat /\ rest <= Grain - 1
  BY <1>1, <1>4
<1> HIDE DEF rest
<1>7. rounded(a) = up - rest
  BY <1>5 DEF rest
<1>8. rounded(a) \in Int /\ rounded(a) <= up /\ up <= rounded(a) + (Grain - 1)
  BY <1>1, <1>3, <1>6, <1>7
<1> QED
  BY <1>1, <1>8 DEF up, half

(* What a sound pair's, or a refused one's, rounded times say of the send.  *)
LEMMA SendOrder ==
  ASSUME NEW h \in Int, NEW s \in Int, NEW d \in Int,
         d + (Grain - 1) <= Margin, (Grain - 1) - d <= Margin
  PROVE  /\ ~ (rounded(h) - (s + d) < 0) => h >= s - Margin
         /\ rounded(h) - (s + d) < 0 => h < s + Margin
<1> DEFINE half == Grain \div 2
           r == rounded(h)
<1>1. /\ r \in Int /\ r <= h + half /\ h + half <= r + (Grain - 1)
      /\ Grain \in Nat /\ half \in Nat /\ half <= Grain - 1
  BY RoundedFacts
<1>2. Margin \in Nat
  BY PairingAssumption
<1> HIDE DEF half, r
<1>3. /\ ~ (r - (s + d) < 0) => h >= s - Margin
      /\ r - (s + d) < 0 => h < s + Margin
  BY <1>1, <1>2
<1> QED
  BY <1>3 DEF r

(* And what the order of two rounded times, a clock apart, says of theirs. *)
LEMMA AckOrder ==
  ASSUME NEW h \in Int, NEW s \in Int, NEW a \in Int, NEW d \in Int,
         d + (Grain - 1) <= Margin, (Grain - 1) - d <= Margin
  PROVE  /\ (rounded(h) - (s + d)) + Margin < rounded(a - s) => h < a
         /\ rounded(a - s) + Margin < rounded(h) - (s + d) => a < h
<1> DEFINE half == Grain \div 2
           r == rounded(h)
           q == rounded(a - s)
<1>1. /\ r \in Int /\ r <= h + half /\ h + half <= r + (Grain - 1)
      /\ Grain \in Nat /\ half \in Nat
  BY RoundedFacts
<1>2. a - s \in Int
  OBVIOUS
<1>3. q \in Int /\ q <= (a - s) + half /\ (a - s) + half <= q + (Grain - 1)
  BY <1>2, RoundedFacts
<1>4. Margin \in Nat
  BY PairingAssumption
<1> HIDE DEF half, r, q
<1>5. /\ (r - (s + d)) + Margin < q => h < a
      /\ q + Margin < r - (s + d) => a < h
  BY <1>1, <1>3, <1>4
<1> QED
  BY <1>5 DEF r, q

(* From true files, the pairs that are made are sound.                     *)
LEMMA PairsFollow == PairInv => PairsAreSound
<1> SUFFICES ASSUME PairInv, Close PROVE
      /\ \A k \in deltas : served(k) + (Burst - 1) >= sentAt[k] - Margin
      /\ \A k \in refused : served(k) < sentAt[k] + Margin
      /\ Range(reads) = deltas \cup refused \cup unmatched
  BY DEF PairsAreSound
<1>1. skew + (Grain - 1) <= Margin /\ (Grain - 1) - skew <= Margin
  BY DEF Close
<1>2. ASSUME NEW k \in Range(reads) \cap Sent
      PROVE  /\ ~ (far_ms(k) < 0) => served(k) + (Burst - 1) >= sentAt[k] - Margin
             /\ far_ms(k) < 0 => served(k) < sentAt[k] + Margin
  <2>1. /\ sentAt[k] \in Int /\ skew \in Int /\ hit_at[k] \in Int /\ served(k) \in Int
        /\ served(k) <= hit_at[k] /\ hit_at[k] <= served(k) + (Burst - 1)
    BY PairTimes
  <2>2. far_ms(k) = rounded(hit_at[k]) - (sentAt[k] + skew)
    BY DEF far_ms, sent_ns, at_ms
  <2>3. /\ ~ (far_ms(k) < 0) => hit_at[k] >= sentAt[k] - Margin
        /\ far_ms(k) < 0 => hit_at[k] < sentAt[k] + Margin
    BY <1>1, <2>1, <2>2, SendOrder
  <2>4. Margin \in Nat /\ Burst \in Nat
    BY PairingAssumption, ReadAssumption
  <2> QED
    BY <2>1, <2>3, <2>4
<1>3. Range(reads) = deltas \cup refused \cup unmatched
  BY DEF deltas, refused, unmatched
<1> QED
  BY <1>2, <1>3 DEF deltas, refused

(* From true files, what is said to be first was first.                    *)
LEMMA FarFirstFollows == PairInv => FarFirstIsTrue
<1> SUFFICES ASSUME PairInv PROVE FarFirstIsTrue
  OBVIOUS
<1>1. Close => skew + (Grain - 1) <= Margin /\ (Grain - 1) - skew <= Margin
  BY DEF Close
<1>2. ASSUME Close, NEW k \in deltas
      PROVE  /\ far_ms(k) + Margin < ack_ms(k) => served(k) < ackAt[k]
             /\ ack_ms(k) + Margin < far_ms(k) => ackAt[k] < served(k) + (Burst - 1)
  <2>1. /\ sentAt[k] \in Int /\ ackAt[k] \in Int /\ skew \in Int
        /\ hit_at[k] \in Int /\ served(k) \in Int
        /\ served(k) <= hit_at[k] /\ hit_at[k] <= served(k) + (Burst - 1)
    BY PairTimes DEF deltas
  <2>2. /\ far_ms(k) = rounded(hit_at[k]) - (sentAt[k] + skew)
        /\ ack_ms(k) = rounded(ackAt[k] - sentAt[k])
    BY DEF far_ms, sent_ns, at_ms, ack_ms
  <2>3. /\ far_ms(k) + Margin < ack_ms(k) => hit_at[k] < ackAt[k]
        /\ ack_ms(k) + Margin < far_ms(k) => ackAt[k] < hit_at[k]
    BY <1>1, <1>2, <2>1, <2>2, AckOrder
  <2>4. Burst \in Nat
    BY ReadAssumption
  <2> QED
    BY <2>1, <2>3, <2>4
<1>3. far_without_ack \subseteq has
  BY DEF far_without_ack, deltas, PairInv, ReadInv, HonestHits
<1> QED
  BY <1>2, <1>3 DEF FarFirstIsTrue, far_first, ack_first

-----------------------------------------------------------------------------
(* The theorems.                                                            *)

(* The reader's state is well formed, alone and beside a writer.            *)
THEOREM ReaderCorrect == Spec => []ReadInv
BY ReadInit, ReadInductive, PTL DEF Spec

(* The files that pairing reads are true to what the two processes saw.    *)
THEOREM PairCorrect == PSpec => []PairInv
BY PairInit, PairInductive, PTL DEF PSpec

(* Every key of the file is in exactly one place, and none is printed twice *)
(* (read: the cold control and the rounds).                                 *)
THEOREM EachKeyOnceHolds == PSpec => []EachKeyOnce
<1>1. PairInv => EachKeyOnce
  BY EachKeyOnceFollows DEF PairInv
<1> QED
  BY <1>1, PairCorrect, PTL

(* A key is read, or called warm, only when this node holds its block       *)
(* (probe_once, "never a false hit").                                       *)
THEOREM HonestHitsHolds == PSpec => []HonestHits
<1>1. PairInv => HonestHits
  BY DEF PairInv, ReadInv
<1> QED
  BY <1>1, PairCorrect, PTL

(* With two clocks within the margin, no pair is called sound that was      *)
(* served before its send by more than the margin and the rest of a round,  *)
(* and none refused that was served later than that (pair).                 *)
THEOREM PairsAreSoundHolds == PSpec => []PairsAreSound
BY PairCorrect, PairsFollow, PTL

(* "The far node was first" is true of every pair it is said of, and "the   *)
(* ack was first" to within a round, for any two clocks within the margin   *)
(* (proxy).                                                                 *)
THEOREM FarFirstIsTrueHolds == PSpec => []FarFirstIsTrue
BY PairCorrect, FarFirstFollows, PTL
=============================================================================
