---------------------------- MODULE ParityProofs ----------------------------
(* Proofs about Parity, for every value of its constants.                  *)
EXTENDS Parity, SequencesExt, SequenceTheorems, FiniteSetTheorems,
        WellFoundedInduction, TLAPS

-----------------------------------------------------------------------------
(* Facts about naturals and sequences, of no component.                    *)

LessThan == {ss \in Nat \X Nat : ss[1] < ss[2]}

(* No set of naturals descends for ever.                                   *)
LEMMA LessThanWellFounded == IsWellFoundedOn(LessThan, Nat)
BY NatLessThanWellFounded, Zenon DEF OpToRel, LessThan

(* A nonempty set of naturals has a least element.                         *)
LEMMA NatMin ==
  ASSUME NEW I \in SUBSET Nat, I # {}
  PROVE  Min(I) \in I /\ \A y \in I : Min(I) <= y
<1>1. PICK x \in I : \A y \in I : <<y, x>> \notin LessThan
  BY LessThanWellFounded, WFMin, Zenon
<1>2. \A y \in I : x <= y
  <2> TAKE y \in I
  <2>1. <<y, x>> \in Nat \X Nat /\ <<y, x>>[1] = y /\ <<y, x>>[2] = x
    OBVIOUS
  <2>2. ~ (y < x)
    BY <1>1, <2>1, Zenon DEF LessThan
  <2> QED
    BY <2>2, SMT
<1> QED
  BY <1>2 DEF Min

(* Sequences laid end to end are a sequence of what they hold.             *)
LEMMA FlattenSeqType ==
  ASSUME NEW S, NEW ss \in Seq(Seq(S))
  PROVE  FlattenSeq(ss) \in Seq(S)
<1>1. CASE Len(ss) = 0
  <2>1. FlattenSeq(ss) = ss /\ ss = <<>>
    BY <1>1, EmptySeq DEF FlattenSeq
  <2> QED
    BY <2>1
<1>2. CASE Len(ss) # 0
  <2> DEFINE N == Len(ss)
             then(g, i) == IF i = 1 THEN ss[i] ELSE g[i - 1] \o ss[i]
             Upto(n, g) == /\ g \in [1 .. n -> Seq(S)]
                           /\ \A i \in 1 .. n : g[i] = then(g, i)
             Bad == {n \in 0 .. N : ~ \E g : Upto(n, g)}
             flatten == CHOOSE g : g = [i \in 1 .. N |-> then(g, i)]
             Odd == {i \in 1 .. N : flatten[i] \notin Seq(S)}
  <2>1. N \in Nat \ {0} /\ \A i \in 1 .. N : ss[i] \in Seq(S)
    BY <1>2
  <2>2. FlattenSeq(ss) = flatten[N]
    BY <1>2, Zenon DEF FlattenSeq
  <2> HIDE DEF N
  <2>3. Bad = {}
    <3> SUFFICES ASSUME Bad # {} PROVE FALSE
      OBVIOUS
    <3>1. PICK n \in Bad : \A y \in Bad : n <= y
      <4>1. Bad \in SUBSET Nat
        BY <2>1
      <4> HIDE DEF Bad
      <4> QED
        BY <4>1, NatMin
    <3>2. n # 0
      <4>1. Upto(0, [i \in {} |-> <<>>])
        BY SMT
      <4> QED
        BY <4>1
    <3>3. n - 1 \in 0 .. N /\ n - 1 \notin Bad /\ n \in 1 .. N
      <4>1. n \in 0 .. N
        OBVIOUS
      <4> HIDE DEF Bad
      <4> QED
        BY <2>1, <3>1, <3>2, <4>1
    <3>4. PICK g : Upto(n - 1, g)
      BY <3>3
    <3> DEFINE h == [i \in 1 .. n |-> IF i = n THEN then(g, n) ELSE g[i]]
    <3>5. then(g, n) \in Seq(S)
      <4>1. CASE n = 1
        BY <2>1, <3>3, <4>1
      <4>2. CASE n # 1
        <5>1. n - 1 \in 1 .. n - 1
          BY <3>3, <4>2
        <5>2. g[n - 1] \in Seq(S) /\ ss[n] \in Seq(S)
          BY <2>1, <3>3, <3>4, <5>1
        <5> QED
          BY <4>2, <5>2
      <4> QED
        BY <4>1, <4>2
    <3>6. h \in [1 .. n -> Seq(S)]
      <4> SUFFICES ASSUME NEW i \in 1 .. n PROVE h[i] \in Seq(S)
        OBVIOUS
      <4>1. CASE i = n
        BY <3>5, <4>1
      <4>2. CASE i # n
        <5>1. i \in 1 .. n - 1
          BY <3>3, <4>2
        <5> QED
          BY <3>4, <4>2, <5>1
      <4> QED
        BY <4>1, <4>2
    <3>7. ASSUME NEW i \in 1 .. n PROVE h[i] = then(h, i)
      <4>1. CASE i = 1
        <5>1. CASE n = 1
          BY <4>1, <5>1
        <5>2. CASE n # 1
          <6>1. 1 \in 1 .. n - 1
            BY <3>3, <5>2
          <6>2. g[1] = ss[1]
            BY <3>4, <6>1
          <6> QED
            BY <4>1, <5>2, <6>2
        <5> QED
          BY <5>1, <5>2
      <4>2. CASE i # 1
        <5>1. i - 1 \in 1 .. n /\ i - 1 # n
          BY <3>3, <4>2
        <5>2. h[i - 1] = g[i - 1]
          BY <5>1
        <5>3. h[i] = then(g, i)
          <6>1. CASE i = n
            BY <6>1
          <6>2. CASE i # n
            <7>1. i \in 1 .. n - 1
              BY <3>3, <6>2
            <7> QED
              BY <3>4, <6>2, <7>1
          <6> QED
            BY <6>1, <6>2
        <5> QED
          BY <4>2, <5>2, <5>3
      <4> QED
        BY <4>1, <4>2
    <3>8. Upto(n, h)
      <4> HIDE DEF h
      <4> QED
        BY <3>6, <3>7
    <3> QED
      BY <3>1, <3>8
  <2>4. \E g : g = [i \in 1 .. N |-> then(g, i)]
    <3>1. N \in 0 .. N
      BY <2>1
    <3>2. PICK g : Upto(N, g)
      BY <2>3, <3>1
    <3>3. g = [i \in 1 .. N |-> then(g, i)]
      BY <3>2
    <3> QED
      BY <3>3
  <2>5. flatten = [i \in 1 .. N |-> then(flatten, i)]
    <3> DEFINE Good(g) == g = [i \in 1 .. N |-> then(g, i)]
    <3>1. \E g : Good(g)
      BY <2>4
    <3>2. Good(CHOOSE g : Good(g))
      <4> HIDE DEF Good
      <4> QED
        BY <3>1, Zenon
    <3> QED
      BY <3>2, Zenon
  <2> HIDE DEF flatten
  <2>6. Odd = {}
    <3> SUFFICES ASSUME Odd # {} PROVE FALSE
      OBVIOUS
    <3>1. PICK n \in Odd : \A y \in Odd : n <= y
      <4>1. Odd \in SUBSET Nat
        OBVIOUS
      <4> HIDE DEF Odd
      <4> QED
        BY <4>1, NatMin
    <3>2. n \in 1 .. N /\ flatten[n] \notin Seq(S) /\ flatten[n] = then(flatten, n)
      BY <2>5, <3>1
    <3>3. CASE n = 1
      BY <2>1, <3>2, <3>3
    <3>4. CASE n # 1
      <4>1. n - 1 \in 1 .. N /\ n - 1 \notin Odd
        BY <2>1, <3>1, <3>2, <3>4
      <4>2. flatten[n - 1] \in Seq(S) /\ ss[n] \in Seq(S)
        BY <2>1, <3>2, <4>1
      <4>3. flatten[n - 1] \o ss[n] \in Seq(S)
        BY <4>2
      <4> QED
        BY <3>2, <3>4, <4>3
    <3> QED
      BY <3>3, <3>4
  <2> QED
    BY <2>1, <2>2, <2>6
<1> QED
  BY <1>1, <1>2

(* A nonempty set of naturals with a bound has a greatest element.         *)
LEMMA NatMax ==
  ASSUME NEW K \in Nat, NEW I \in SUBSET (0 .. K), I # {}
  PROVE  \E u \in I : \A y \in I : y <= u
<1> DEFINE D == {d \in Nat : K - d \in I}
           n == Min(D)
<1>1. PICK x \in I : TRUE
  OBVIOUS
<1>2. K - x \in Nat /\ K - (K - x) = x
  OBVIOUS
<1>3. K - x \in D
  BY <1>2
<1>4. D \in SUBSET Nat /\ D # {}
  BY <1>3
<1> HIDE DEF D
<1>5. n \in D /\ \A d \in D : n <= d
  BY <1>4, NatMin
<1> HIDE DEF n
<1>6. n \in Nat /\ K - n \in I
  BY <1>5 DEF D
<1>7. ASSUME NEW y \in I PROVE y <= K - n
  <2>1. K - y \in Nat /\ K - (K - y) = y
    OBVIOUS
  <2>2. K - y \in D
    BY <2>1 DEF D
  <2> QED
    BY <1>5, <1>6, <2>1, <2>2
<1> QED
  BY <1>6, <1>7

-----------------------------------------------------------------------------
(* The plan, and the order in which its blocks are sent.                   *)

PlanRow == [m : Nat \ {0}, arm : {Full, Control}]

(* The plan is a sequence of groups, however many of each kind there are.  *)
LEMMA PlanType == Plan \in Seq(PlanRow)
<1> DEFINE Of_(arm, i, n, m) ==
             IF i <= n THEN <<[m |-> m, arm |-> arm]>> ELSE <<>>
           Both(i, m) == Of_(Full, i, Groups, m) \o Of_(Control, i, Controls, m)
           Rows(i) == [j \in DOMAIN Sizes |-> Both(i, Sizes[j])]
           Longest == Max({Groups, Controls})
           All == [i \in 1 .. Longest |-> FlattenSeq(Rows(i))]
<1>1. Plan = FlattenSeq(All)
  BY Zenon DEF Plan
<1>2. Longest \in Nat
  <2>1. \E x \in {Groups, Controls} : \A y \in {Groups, Controls} : x >= y
    BY ParityWriteAssumption
  <2>2. Longest \in {Groups, Controls}
    BY <2>1 DEF Max
  <2> QED
    BY <2>2, ParityWriteAssumption
<1> HIDE DEF Longest
<1>3. ASSUME NEW i, NEW m \in Nat \ {0} PROVE Both(i, m) \in Seq(PlanRow)
  <2>1. /\ [m |-> m, arm |-> Full] \in PlanRow
        /\ [m |-> m, arm |-> Control] \in PlanRow
    BY DEF PlanRow
  <2> HIDE DEF PlanRow
  <2>2. /\ Of_(Full, i, Groups, m) \in Seq(PlanRow)
        /\ Of_(Control, i, Controls, m) \in Seq(PlanRow)
    BY <2>1
  <2> HIDE DEF Of_
  <2> QED
    BY <2>2
<1> HIDE DEF Both, PlanRow
<1>4. ASSUME NEW i PROVE FlattenSeq(Rows(i)) \in Seq(PlanRow)
  <2>1. /\ DOMAIN Sizes = 1 .. Len(Sizes) /\ Len(Sizes) \in Nat
        /\ \A j \in DOMAIN Sizes : Sizes[j] \in Nat \ {0}
    BY ParityWriteAssumption
  <2>2. Rows(i) \in [1 .. Len(Sizes) -> Seq(PlanRow)]
    BY <1>3, <2>1
  <2>3. Rows(i) \in Seq(Seq(PlanRow))
    <3> HIDE DEF Rows
    <3> QED
      BY <2>1, <2>2, SeqDef
  <2> HIDE DEF Rows
  <2> QED
    BY <2>3, FlattenSeqType
<1> HIDE DEF Rows
<1>5. All \in Seq(Seq(PlanRow))
  <2>1. All \in [1 .. Longest -> Seq(PlanRow)]
    BY <1>4
  <2> HIDE DEF All
  <2> QED
    BY <1>2, <2>1, SeqDef
<1> HIDE DEF All
<1> QED
  BY <1>1, <1>5, FlattenSeqType

Gs == 1 .. Len(Plan)

(* Every group is at least one block wide.                                 *)
LEMMA GroupFacts ==
  /\ DOMAIN Plan = Gs /\ Len(Plan) \in Nat
  /\ \A g \in Gs : /\ Plan[g].m \in Nat \ {0} /\ Width(g) \in Nat \ {0}
                   /\ Width(g) = Plan[g].m + Parity
                   /\ Plan[g].arm \in {Full, Control}
<1>1. Plan \in Seq(PlanRow)
  BY PlanType
<1>2. DOMAIN Plan = Gs /\ Len(Plan) \in Nat /\ \A g \in Gs : Plan[g] \in PlanRow
  BY <1>1 DEF Gs
<1>3. ASSUME NEW g \in Gs
      PROVE  /\ Plan[g].m \in Nat \ {0} /\ Width(g) \in Nat \ {0}
             /\ Width(g) = Plan[g].m + Parity
             /\ Plan[g].arm \in {Full, Control}
  BY <1>2, ParityWriteAssumption DEF PlanRow, Width
<1> QED
  BY <1>2, <1>3

(* What a block is.                                                        *)
LEMMA BlockFacts ==
  /\ \A b \in Blocks : /\ b[1] \in Gs /\ b[2] \in 1 .. Width(b[1])
                       /\ b = <<b[1], b[2]>> /\ b[2] \in Nat
                       /\ b[1] \in Nat \ {0}
  /\ \A g \in Gs, i \in Nat : i \in 1 .. Width(g) => <<g, i>> \in Blocks
  /\ \A g \in Gs : Members(g) = {b \in Blocks : b[1] = g}
  /\ NoName \notin Blocks
<1>1. ASSUME NEW b \in Blocks
      PROVE  /\ b[1] \in Gs /\ b[2] \in 1 .. Width(b[1])
             /\ b = <<b[1], b[2]>> /\ b[2] \in Nat /\ b[1] \in Nat \ {0}
  <2>1. PICK g \in Gs : b \in Members(g)
    BY GroupFacts DEF Blocks
  <2>2. b[1] = g /\ b[2] \in 1 .. Width(g) /\ b = <<b[1], b[2]>>
    BY <2>1 DEF Members
  <2>3. g \in Nat \ {0} /\ Width(g) \in Nat
    BY GroupFacts DEF Gs
  <2> QED
    BY <2>2, <2>3
<1>2. ASSUME NEW g \in Gs, NEW i \in Nat, i \in 1 .. Width(g)
      PROVE  <<g, i>> \in Blocks
  BY <1>2, GroupFacts DEF Blocks, Members
<1>3. ASSUME NEW g \in Gs
      PROVE  Members(g) = {b \in Blocks : b[1] = g}
  <2>1. Members(g) \subseteq {b \in Blocks : b[1] = g}
    BY GroupFacts DEF Blocks, Members
  <2>2. ASSUME NEW b \in Blocks, b[1] = g PROVE b \in Members(g)
    BY <1>1, <2>2 DEF Members
  <2> QED
    BY <2>1, <2>2
<1>4. NoName \notin Blocks
  BY <1>1 DEF NoName
<1> QED
  BY <1>1, <1>2, <1>3, <1>4

(* Where the writer may stand: at a block, or behind the last one.         *)
Positions ==
  {n \in (Nat \ {0}) \X (Nat \ {0}) :
     \/ n[1] <= Len(Plan) /\ n[2] <= Width(n[1])
     \/ n[1] = Len(Plan) + 1 /\ n[2] = 1}

After(n) == IF n[2] = Width(n[1]) THEN <<n[1] + 1, 1>> ELSE <<n[1], n[2] + 1>>
Behind(n) == {b \in Blocks : Before(b, n)}

(* The step from one position to the next leaves one more block behind.    *)
LEMMA PositionStep ==
  ASSUME NEW n \in Positions, n[1] <= Len(Plan)
  PROVE  /\ n \in Blocks /\ n \notin Behind(n)
         /\ After(n) \in Positions
         /\ Behind(After(n)) = Behind(n) \cup {n}
<1>1. /\ n[1] \in Gs /\ n[2] \in 1 .. Width(n[1]) /\ n = <<n[1], n[2]>>
      /\ n[1] \in Nat \ {0} /\ n[2] \in Nat \ {0}
      /\ Len(Plan) \in Nat /\ Width(n[1]) \in Nat
      /\ n[2] <= Width(n[1])
  BY GroupFacts DEF Positions, Gs
<1>2. n \in Blocks
  BY <1>1, BlockFacts
<1>3. n \notin Behind(n)
  BY <1>1 DEF Behind, Before
<1>4. CASE n[2] = Width(n[1])
  <2>1. After(n) = <<n[1] + 1, 1>>
    BY <1>4 DEF After
  <2>2. After(n) \in Positions
    <3>1. CASE n[1] = Len(Plan)
      BY <1>1, <2>1, <3>1 DEF Positions
    <3>2. CASE n[1] # Len(Plan)
      <4>1. n[1] + 1 \in Gs /\ n[1] + 1 <= Len(Plan)
        BY <1>1, <3>2 DEF Gs
      <4>2. 1 <= Width(n[1] + 1)
        BY <4>1, GroupFacts
      <4> QED
        BY <1>1, <2>1, <4>1, <4>2 DEF Positions
    <3> QED
      BY <3>1, <3>2
  <2>3. ASSUME NEW b \in Blocks
        PROVE  Before(b, After(n)) <=> Before(b, n) \/ b = n
    <3>1. /\ b[1] \in Nat /\ b[2] \in Nat /\ b = <<b[1], b[2]>>
          /\ 1 <= b[2]
          /\ b[1] = n[1] => b[2] <= n[2]
      BY <1>1, <1>4, BlockFacts
    <3>2. Before(b, After(n)) <=> b[1] < n[1] + 1
      <4>1. After(n)[1] = n[1] + 1 /\ After(n)[2] = 1
        BY <2>1
      <4>2. Before(b, After(n))
              <=> b[1] < n[1] + 1 \/ (b[1] = n[1] + 1 /\ b[2] < 1)
        BY <4>1 DEF Before
      <4> QED
        BY <1>1, <3>1, <4>2
    <3>3. b = n <=> b[1] = n[1] /\ b[2] = n[2]
      BY <1>1, <3>1
    <3> QED
      BY <1>1, <3>1, <3>2, <3>3 DEF Before
  <2> QED
    BY <1>2, <1>3, <2>2, <2>3 DEF Behind
<1>5. CASE n[2] # Width(n[1])
  <2>1. After(n) = <<n[1], n[2] + 1>>
    BY <1>5 DEF After
  <2>2. After(n) \in Positions
    BY <1>1, <1>5, <2>1 DEF Positions
  <2>3. ASSUME NEW b \in Blocks
        PROVE  Before(b, After(n)) <=> Before(b, n) \/ b = n
    <3>1. b[1] \in Nat /\ b[2] \in Nat /\ b = <<b[1], b[2]>>
      BY BlockFacts
    <3>3. b = n <=> b[1] = n[1] /\ b[2] = n[2]
      BY <1>1, <3>1
    <3> QED
      BY <1>1, <2>1, <3>1, <3>3 DEF Before
  <2> QED
    BY <1>2, <1>3, <2>2, <2>3 DEF Behind
<1> QED
  BY <1>4, <1>5

(* What is behind a position is a file a writer may leave, and holds every *)
(* group that was gone on from.                                            *)
LEMMA BehindFacts ==
  ASSUME NEW n \in Positions
  PROVE  /\ Behind(n) \in Left
         /\ n[2] = 1 => \A g \in 1 .. n[1] - 1 : Members(g) \subseteq Behind(n)
<1>1. /\ n = <<n[1], n[2]>> /\ n[1] \in Nat \ {0} /\ n[2] \in Nat \ {0}
      /\ Len(Plan) \in Nat /\ n[1] <= Len(Plan) + 1
      /\ n[2] # 1 => n[1] <= Len(Plan) /\ n[2] <= Width(n[1])
  BY GroupFacts DEF Positions
<1>2. CASE n[1] = 1 /\ n[2] = 1
  <2>1. \A b \in Blocks : ~ Before(b, n)
    BY <1>2, BlockFacts DEF Before
  <2> QED
    BY <1>1, <1>2, <2>1 DEF Behind, Left
<1>3. CASE n[2] # 1
  <2> DEFINE c == <<n[1], n[2] - 1>>
  <2>1. n[1] \in Gs /\ Width(n[1]) \in Nat
    BY <1>1, <1>3, GroupFacts DEF Gs
  <2>2. c \in Blocks
    <3>1. n[2] - 1 \in Nat /\ n[2] - 1 \in 1 .. Width(n[1])
      BY <1>1, <1>3, <2>1
    <3> QED
      BY <2>1, <3>1, BlockFacts
  <2>3. ASSUME NEW b \in Blocks
        PROVE  Before(b, n) <=> b = c \/ Before(b, c)
    <3>1. b[1] \in Nat /\ b[2] \in Nat /\ b = <<b[1], b[2]>>
      BY BlockFacts
    <3>2. b = c <=> b[1] = n[1] /\ b[2] = n[2] - 1
      BY <3>1
    <3> QED
      BY <1>1, <3>1, <3>2 DEF Before
  <2>4. Behind(n) = UpTo(c)
    <3> HIDE DEF c
    <3> QED
      BY <2>3, Zenon DEF Behind, UpTo
  <2> QED
    BY <1>3, <2>2, <2>4 DEF Left
<1>4. CASE n[1] # 1 /\ n[2] = 1
  <2> DEFINE g == n[1] - 1
             c == <<g, Width(g)>>
  <2>1. g \in Gs /\ g \in Nat
    BY <1>1, <1>4 DEF Gs
  <2>2. Width(g) \in Nat \ {0}
    BY <2>1, GroupFacts
  <2>3. c \in Blocks
    <3>1. Width(g) \in 1 .. Width(g)
      BY <2>2
    <3> QED
      BY <2>1, <2>2, <3>1, BlockFacts
  <2>4. ASSUME NEW b \in Blocks
        PROVE  Before(b, n) <=> b = c \/ Before(b, c)
    <3>1. /\ b[1] \in Nat /\ b[2] \in Nat /\ b = <<b[1], b[2]>> /\ 1 <= b[2]
          /\ b[1] = g => b[2] <= Width(g)
      BY <2>1, <2>2, BlockFacts
    <3>2. b = c <=> b[1] = g /\ b[2] = Width(g)
      BY <3>1
    <3>3. Before(b, n) <=> b[1] <= g
      BY <1>1, <1>4, <3>1 DEF Before
    <3>4. Before(b, c) <=> b[1] < g \/ (b[1] = g /\ b[2] < Width(g))
      BY DEF Before
    <3> QED
      BY <1>1, <2>2, <3>1, <3>2, <3>3, <3>4
  <2>5. Behind(n) = UpTo(c)
    <3> HIDE DEF c
    <3> QED
      BY <2>4, Zenon DEF Behind, UpTo
  <2>6. ASSUME NEW h \in 1 .. n[1] - 1 PROVE Members(h) \subseteq Behind(n)
    <3>1. h \in Gs /\ h < n[1]
      BY <1>1 DEF Gs
    <3> QED
      BY <3>1, BlockFacts DEF Behind, Before
  <2> QED
    BY <2>3, <2>5, <2>6 DEF Left
<1> QED
  BY <1>2, <1>3, <1>4

-----------------------------------------------------------------------------
(* Sequences of messages, and tables.                                      *)

(* The messages of a socket are its first and those behind it.             *)
LEMMA SocketFacts ==
  ASSUME NEW S, NEW s \in Seq(S)
  PROVE  /\ \A x \in S : /\ Append(s, x) \in Seq(S)
                         /\ ToSet(Append(s, x)) = ToSet(s) \cup {x}
         /\ s # <<>> => /\ Head(s) \in S /\ Tail(s) \in Seq(S)
                        /\ ToSet(s) = {Head(s)} \cup ToSet(Tail(s))
         /\ ToSet(s) \subseteq S
<1>1. Len(s) \in Nat /\ DOMAIN s = 1 .. Len(s)
  OBVIOUS
<1>2. ASSUME NEW x \in S
      PROVE  Append(s, x) \in Seq(S) /\ ToSet(Append(s, x)) = ToSet(s) \cup {x}
  <2> DEFINE t == Append(s, x)
  <2>1. /\ t \in Seq(S) /\ Len(t) = Len(s) + 1 /\ t[Len(s) + 1] = x
        /\ \A n \in 1 .. Len(s) : t[n] = s[n]
    OBVIOUS
  <2>2. DOMAIN t = 1 .. Len(s) + 1
    BY <2>1
  <2> HIDE DEF t
  <2>3. 1 .. Len(s) + 1 = (1 .. Len(s)) \cup {Len(s) + 1}
    BY <1>1
  <2>4. ToSet(t) = ToSet(s) \cup {x}
    BY <1>1, <2>1, <2>2, <2>3 DEF ToSet
  <2> QED
    BY <2>1, <2>4 DEF t
<1>3. ASSUME s # <<>>
      PROVE  /\ Head(s) \in S /\ Tail(s) \in Seq(S)
             /\ ToSet(s) = {Head(s)} \cup ToSet(Tail(s))
  <2> DEFINE t == Tail(s)
  <2>1. /\ t \in Seq(S) /\ Len(t) = Len(s) - 1 /\ Len(s) # 0
        /\ \A n \in 1 .. Len(t) : t[n] = s[n + 1]
        /\ Head(s) = s[1]
    BY <1>3, HeadTailProperties
  <2>2. DOMAIN t = 1 .. Len(s) - 1
    BY <2>1
  <2> HIDE DEF t
  <2>3. s[1] \in S
    BY <1>1, <2>1
  <2>4. ToSet(s) \subseteq {s[1]} \cup ToSet(t)
    <3> SUFFICES ASSUME NEW n \in 1 .. Len(s), n # 1
                 PROVE  \E k \in DOMAIN t : t[k] = s[n]
      BY <1>1 DEF ToSet
    <3>1. n - 1 \in 1 .. Len(s) - 1 /\ (n - 1) + 1 = n
      BY <1>1
    <3> QED
      BY <2>1, <2>2, <3>1
  <2>5. {s[1]} \cup ToSet(t) \subseteq ToSet(s)
    <3>1. \A n \in 1 .. Len(s) - 1 : n + 1 \in 1 .. Len(s)
      BY <1>1
    <3>2. 1 \in 1 .. Len(s)
      BY <1>1, <2>1
    <3> QED
      BY <1>1, <2>1, <2>2, <3>1, <3>2 DEF ToSet
  <2> QED
    BY <2>1, <2>3, <2>4, <2>5 DEF t
<1>4. ToSet(s) \subseteq S
  BY <1>1 DEF ToSet
<1> QED
  BY <1>2, <1>3, <1>4

(* One more entry in a table.                                              *)
LEMMA InsertFacts ==
  ASSUME NEW f, NEW b, NEW v
  PROVE  /\ DOMAIN insert(f, b, v) = DOMAIN f \cup {b}
         /\ insert(f, b, v)[b] = v
         /\ \A x \in DOMAIN f : x # b => insert(f, b, v)[x] = f[x]
BY DEF insert

(* An insertion keeps the type of a table.                                 *)
LEMMA InsertType ==
  ASSUME NEW D, NEW T, NEW f \in [D -> T], NEW b, NEW v \in T
  PROVE  insert(f, b, v) \in [D \cup {b} -> T]
BY DEF insert

-----------------------------------------------------------------------------
(* The writer.  The file, the acknowledgements it timed and those the      *)
(* connection recorded are three records of the same answers; what keeps   *)
(* them together is that each of the writer's steps changes all three, and *)
(* that a put is filed only once.                                          *)

WTypeOK ==
  /\ next \in Positions /\ now \in Nat /\ tailEnd \in Nat
  /\ sentAt \in [Behind(next) -> Nat]
  /\ \A b \in DOMAIN sentAt : sentAt[b] <= now
  /\ account \in [Behind(next) -> Nat]
  /\ ackMs \in [DOMAIN ackMs -> Nat]
  /\ due \subseteq sent /\ done \subseteq sent
  /\ socket \in Seq(Blocks \cup {NoName})
  /\ faults \in [err : Nat, dup : Nat]

Filed ==
  /\ DOMAIN ackMs \subseteq done
  /\ done \subseteq DOMAIN ackMs \cup ToSet(socket)
  /\ ToSet(socket) \subseteq done \cup {NoName}

AckSet == {<<b, rounded(ackMs[b])>> : b \in DOMAIN ackMs}

InFiles ==
  /\ disk.blocks \cup sink.blocks = sent
  /\ disk.acks \cup sink.acks = AckSet
  /\ \A l \in disk.acks : l[1] \in disk.blocks
  /\ disk.blocks \in Left

GroupsOnDisk ==
  /\ phase \in {"drain", "flush"} => next[2] = 1
  /\ phase \notin {"drain", "flush", "killed"} =>
       \A g \in 1 .. next[1] - 1 : Members(g) \subseteq disk.blocks

(* The recording and the times agree as long as no answer is an error: it  *)
(* would be the recording's oldest put's, and no key's in the file.        *)
Recorded ==
  faults.err = 0 =>
    /\ NoName \notin ToSet(socket)
    /\ \A b \in sent : account[b] > 0 <=> b \in DOMAIN ackMs

WInv == WTypeOK /\ Filed /\ InFiles /\ GroupsOnDisk /\ Recorded

(* What has been sent is what lies behind the writer.                      *)
LEMMA SentFacts ==
  WTypeOK => /\ sent = Behind(next) /\ sent \subseteq Blocks
             /\ NoName \notin sent
             /\ DOMAIN account = sent
BY BlockFacts DEF WTypeOK, Behind, sent

(* One member of a group is put.                                           *)
LEMMA SendStep ==
  ASSUME WInv, SendBlock
  PROVE  WInv'
<1>0. /\ WTypeOK /\ Filed /\ InFiles /\ GroupsOnDisk /\ Recorded
      /\ next \in Positions /\ next[1] <= Len(Plan) /\ phase = "send"
  BY DEF WInv, WTypeOK, SendBlock
<1>1. /\ next \in Blocks /\ next \notin sent
      /\ After(next) \in Positions /\ Behind(After(next)) = sent \cup {next}
  BY <1>0, PositionStep, SentFacts
<1>2. /\ sentAt' = insert(sentAt, next, now)
      /\ account' = insert(account, next, 0)
      /\ sink' = Lines(sink, [blocks |-> {next}, acks |-> {}])
      /\ due' = due \cup {next}
      /\ UNCHANGED <<now, ackMs, tailEnd, disk, done, socket, faults>>
      /\ next' = After(next)
  BY DEF SendBlock, After
<1>3. sent' = sent \cup {next} /\ Behind(next)' = sent'
  <2>1. sent' = sent \cup {next}
    BY <1>2, InsertFacts DEF sent
  <2>2. Behind(next') = sent \cup {next}
    BY <1>1, <1>2
  <2>3. Behind(next)' = Behind(next')
    OBVIOUS
  <2> QED
    BY <2>1, <2>2, <2>3
<1>4. WTypeOK'
  <2>1. /\ sentAt \in [sent -> Nat] /\ account \in [sent -> Nat] /\ now \in Nat
        /\ \A b \in sent : sentAt[b] <= now
    BY <1>0, SentFacts DEF WTypeOK, sent
  <2>2. DOMAIN sentAt = sent /\ DOMAIN account = sent
    BY <2>1
  <2>3. sentAt' \in [sent \cup {next} -> Nat]
    BY <1>2, <2>1, InsertType
  <2>4. account' \in [sent \cup {next} -> Nat]
    BY <1>2, <2>1, InsertType
  <2>5. \A b \in sent \cup {next} : sentAt'[b] <= now
    <3>1. sentAt'[next] = now /\ \A b \in sent : sentAt'[b] = sentAt[b]
      BY <1>1, <1>2, <2>2 DEF insert
    <3> QED
      BY <2>1, <3>1
  <2>6. DOMAIN sentAt' = sent \cup {next}
    BY <2>3
  <2>7. due' \subseteq sent' /\ done' \subseteq sent'
    BY <1>0, <1>2, <1>3 DEF WTypeOK
  <2>8. /\ sentAt' \in [Behind(next)' -> Nat]
        /\ account' \in [Behind(next)' -> Nat]
    BY <1>3, <2>3, <2>4
  <2>9. next' \in Positions
    BY <1>1, <1>2
  <2>10. Behind(next') = Behind(next)'
    OBVIOUS
  <2> QED
    BY <1>0, <1>2, <2>5, <2>6, <2>7, <2>8, <2>9, <2>10 DEF WTypeOK
<1>5. Filed'
  BY <1>0, <1>2 DEF Filed
<1>6. InFiles'
  <2>1. /\ sink'.blocks = sink.blocks \cup {next} /\ sink'.acks = sink.acks
    BY <1>2 DEF Lines
  <2>2. AckSet' = AckSet
    BY <1>2 DEF AckSet
  <2> QED
    BY <1>0, <1>2, <1>3, <2>1, <2>2 DEF InFiles
<1>7. GroupsOnDisk'
  <2>1. next[1] \in Nat
    BY <1>0 DEF Positions
  <2>2. CASE next[2] = Width(next[1])
    <3>1. phase' = "drain" /\ next' = <<next[1] + 1, 1>>
      BY <2>2 DEF SendBlock
    <3>2. next'[2] = 1
      BY <3>1
    <3> QED
      BY <3>1, <3>2 DEF GroupsOnDisk
  <2>3. CASE next[2] # Width(next[1])
    <3>1. phase' = "send" /\ next' = <<next[1], next[2] + 1>> /\ disk' = disk
      BY <1>0, <1>2, <2>3 DEF SendBlock
    <3>2. next'[1] = next[1]
      BY <3>1
    <3> QED
      BY <1>0, <3>1, <3>2 DEF GroupsOnDisk
  <2> QED
    BY <2>2, <2>3
<1>8. Recorded'
  <2> SUFFICES ASSUME faults.err = 0
               PROVE  /\ NoName \notin ToSet(socket)
                      /\ \A b \in sent' : account'[b] > 0 <=> b \in DOMAIN ackMs
    BY <1>2 DEF Recorded
  <2>1. /\ NoName \notin ToSet(socket)
        /\ \A b \in sent : account[b] > 0 <=> b \in DOMAIN ackMs
    BY <1>0 DEF Recorded
  <2>2. DOMAIN account = sent /\ next \notin DOMAIN ackMs
    BY <1>0, <1>1, SentFacts DEF Filed, WTypeOK
  <2>3. account'[next] = 0 /\ \A b \in sent : account'[b] = account[b]
    BY <1>1, <1>2, <2>2 DEF insert
  <2> QED
    BY <1>3, <2>1, <2>2, <2>3
<1> QED
  BY <1>4, <1>5, <1>6, <1>7, <1>8 DEF WInv

(* One answer is read: the recording takes it, and it is filed under the   *)
(* key it names, or it is an error and ends the drain.                     *)
LEMMA DrainStep ==
  ASSUME WInv, NEW onError, drain_acks(onError),
         \/ phase = "drain" /\ onError = "flush"
         \/ phase = "tail" /\ onError = "check"
  PROVE  WInv'
<1> DEFINE m == Head(socket)
<1>0. /\ WTypeOK /\ Filed /\ InFiles /\ GroupsOnDisk /\ Recorded
      /\ socket # <<>> /\ socket' = Tail(socket) /\ account' = paired(m)
      /\ UNCHANGED <<next, now, sentAt, tailEnd, disk, due, done, faults>>
  BY DEF WInv, drain_acks
<1>1. /\ m \in Blocks \cup {NoName} /\ socket' \in Seq(Blocks \cup {NoName})
      /\ ToSet(socket) = {m} \cup ToSet(socket')
  BY <1>0, SocketFacts DEF WTypeOK
<1>2. ToSet(socket)' = ToSet(socket')
  OBVIOUS
<1>3. m \in done \cup {NoName}
  BY <1>0, <1>1 DEF Filed
<1> HIDE DEF m
<1>4. sent' = sent /\ Behind(next)' = Behind(next)
  BY <1>0 DEF sent, Behind
<1>5. account' \in [Behind(next) -> Nat]
  <2>1. account \in [Behind(next) -> Nat]
    BY <1>0 DEF WTypeOK
  <2>2. ASSUME NEW x
        PROVE  [account EXCEPT ![x] = @ + 1] \in [Behind(next) -> Nat]
    <3>1. CASE x \in Behind(next)
      BY <2>1, <3>1
    <3>2. CASE x \notin Behind(next)
      BY <2>1, <3>2
    <3> QED
      BY <3>1, <3>2
  <2> QED
    BY <1>0, <2>1, <2>2 DEF paired
<1>6. CASE m = NoName
  <2>1. phase' = onError /\ UNCHANGED <<ackMs, sink>>
    BY <1>6 DEF drain_acks, m
  <2>2. WTypeOK'
    BY <1>0, <1>1, <1>4, <1>5, <2>1 DEF WTypeOK
  <2>3. Filed'
    <3>1. NoName \notin done
      BY <1>0, SentFacts DEF WTypeOK
    <3> QED
      BY <1>0, <1>1, <1>2, <1>6, <2>1, <3>1 DEF Filed
  <2>4. InFiles'
    BY <1>0, <1>4, <2>1 DEF InFiles, AckSet
  <2>5. GroupsOnDisk'
    BY <1>0, <2>1 DEF GroupsOnDisk
  <2>6. Recorded'
    BY <1>0, <1>1, <1>6 DEF Recorded
  <2> QED
    BY <2>2, <2>3, <2>4, <2>5, <2>6 DEF WInv
<1>7. CASE m # NoName
  <2>1. phase' = phase /\ filed(m) /\ m \in done /\ m \in sent
    BY <1>0, <1>3, <1>7 DEF drain_acks, m, WTypeOK
  <2>2. account' = [account EXCEPT ![m] = @ + 1]
    BY <1>0, <1>7 DEF paired
  <2> DEFINE age == now - sentAt[m]
  <2>3. age \in Nat
    <3>1. sentAt[m] \in Nat /\ now \in Nat /\ sentAt[m] <= now
      BY <1>0, <2>1, SentFacts DEF WTypeOK, sent
    <3> QED
      BY <3>1
  <2>4. \/ m \in DOMAIN ackMs /\ ackMs' = ackMs /\ sink' = sink
        \/ /\ m \notin DOMAIN ackMs
           /\ ackMs' = insert(ackMs, m, age)
           /\ sink' = Lines(sink, [blocks |-> {}, acks |-> {<<m, rounded(age)>>}])
    BY <2>1 DEF filed
  <2> HIDE DEF age
  <2>5. DOMAIN ackMs' = DOMAIN ackMs \cup {m} /\ DOMAIN (ackMs') = (DOMAIN ackMs)'
    <3>1. CASE m \in DOMAIN ackMs
      BY <2>4, <3>1, Zenon
    <3>2. CASE m \notin DOMAIN ackMs
      <4>1. ackMs' = insert(ackMs, m, age)
        BY <2>4, <3>2
      <4> QED
        BY <4>1, InsertFacts, Zenon
    <3> QED
      BY <3>1, <3>2
  <2>6. WTypeOK'
    <3>1. ackMs' \in [DOMAIN ackMs' -> Nat]
      <4>1. ackMs \in [DOMAIN ackMs -> Nat]
        BY <1>0 DEF WTypeOK
      <4> QED
        <5>1. CASE m \in DOMAIN ackMs
          BY <2>4, <4>1, <5>1
        <5>2. CASE m \notin DOMAIN ackMs
          <6>1. ackMs' = insert(ackMs, m, age)
            BY <2>4, <5>2
          <6>2. insert(ackMs, m, age) \in [DOMAIN ackMs \cup {m} -> Nat]
            BY <2>3, <4>1, InsertType
          <6> QED
            BY <2>5, <6>1, <6>2
        <5> QED
          BY <5>1, <5>2
    <3> QED
      BY <1>0, <1>1, <1>4, <1>5, <3>1 DEF WTypeOK
  <2>7. Filed'
    BY <1>0, <1>1, <1>2, <2>1, <2>5 DEF Filed
  <2>8. InFiles'
    <3>1. sink'.blocks = sink.blocks
      BY <2>4 DEF Lines
    <3>2. disk'.acks \cup sink'.acks = AckSet'
      <4>1. CASE m \in DOMAIN ackMs
        BY <1>0, <2>4, <4>1 DEF InFiles, AckSet
      <4>2. CASE m \notin DOMAIN ackMs
        <5>1. sink'.acks = sink.acks \cup {<<m, rounded(age)>>}
          BY <2>4, <4>2 DEF Lines
        <5>2. \A b \in DOMAIN ackMs : ackMs'[b] = ackMs[b]
          BY <2>4, <4>2 DEF insert
        <5>3. ackMs'[m] = age
          BY <2>4, <4>2 DEF insert
        <5>4. AckSet' = AckSet \cup {<<m, rounded(age)>>}
          BY <2>5, <5>2, <5>3 DEF AckSet
        <5> QED
          BY <1>0, <5>1, <5>4 DEF InFiles
      <4> QED
        BY <4>1, <4>2
    <3> QED
      BY <1>0, <1>4, <3>1, <3>2 DEF InFiles
  <2>9. GroupsOnDisk'
    BY <1>0, <2>1 DEF GroupsOnDisk
  <2>10. Recorded'
    <3> SUFFICES ASSUME faults.err = 0
                 PROVE  /\ NoName \notin ToSet(socket')
                        /\ \A b \in sent : account'[b] > 0 <=> b \in DOMAIN ackMs'
      BY <1>0, <1>2, <1>4 DEF Recorded
    <3>1. /\ NoName \notin ToSet(socket)
          /\ \A b \in sent : account[b] > 0 <=> b \in DOMAIN ackMs
      BY <1>0 DEF Recorded
    <3>2. account \in [sent -> Nat]
      BY <1>0, SentFacts DEF WTypeOK
    <3>3. account'[m] > 0 /\ \A b \in sent : b # m => account'[b] = account[b]
      BY <2>1, <2>2, <3>2
    <3> QED
      BY <1>1, <2>5, <3>1, <3>3
  <2> QED
    BY <2>6, <2>7, <2>8, <2>9, <2>10 DEF WInv
<1> QED
  BY <1>6, <1>7

(* The buffer is written out.                                              *)
Flush == disk' = Lines(disk, sink) /\ sink' = NoFile

(* It leaves the file holding everything written so far.                   *)
LEMMA FlushFacts ==
  ASSUME WInv, Flush, UNCHANGED <<next, sentAt, ackMs>>
  PROVE  /\ InFiles'
         /\ disk'.blocks = sent /\ disk'.acks = AckSet
         /\ next[2] = 1 =>
              \A g \in 1 .. next[1] - 1 : Members(g) \subseteq disk'.blocks
<1>1. WTypeOK /\ Filed /\ InFiles /\ next \in Positions
  BY DEF WInv, WTypeOK
<1>2. /\ disk'.blocks = disk.blocks \cup sink.blocks
      /\ disk'.acks = disk.acks \cup sink.acks
      /\ sink'.blocks = {} /\ sink'.acks = {}
  BY DEF Flush, Lines, NoFile
<1>3. disk'.blocks = sent /\ disk'.acks = AckSet
  BY <1>1, <1>2 DEF InFiles
<1>4. sent' = sent /\ AckSet' = AckSet
  BY DEF sent, AckSet
<1>5. \A l \in AckSet : l[1] \in sent
  BY <1>1 DEF AckSet, Filed, WTypeOK
<1>6. sent = Behind(next)
  BY <1>1, SentFacts
<1>7. InFiles'
  BY <1>1, <1>2, <1>3, <1>4, <1>5, <1>6, BehindFacts DEF InFiles
<1>8. next[2] = 1 =>
        \A g \in 1 .. next[1] - 1 : Members(g) \subseteq disk'.blocks
  BY <1>1, <1>3, <1>6, BehindFacts
<1> QED
  BY <1>3, <1>7, <1>8

(* A step of the writer that neither sends nor reads.                      *)
LEMMA QuietStep ==
  ASSUME WInv,
         \/ AllSent \/ NothingThere \/ EndGroup \/ TailOver \/ ReadBack
         \/ SendFails \/ Killed \/ Tick
  PROVE  WInv'
<1>0. /\ WTypeOK /\ Filed /\ InFiles /\ GroupsOnDisk /\ Recorded
      /\ next \in Positions /\ now \in Nat /\ tailEnd \in Nat /\ Bound \in Nat
  BY ParityWriteAssumption DEF WInv, WTypeOK
<1>1. UNCHANGED <<next, sentAt, ackMs, account, due, done, socket, faults>>
  BY DEF AllSent, NothingThere, EndGroup, TailOver, ReadBack, SendFails,
         Killed, Tick, memory, node
<1>2. now' \in Nat /\ now <= now' /\ tailEnd' \in Nat
  <2>1. \/ now' = now /\ tailEnd' = tailEnd
        \/ now' = now /\ tailEnd' = now + 2 * Bound
        \/ now' = now + 1 /\ tailEnd' = tailEnd
    BY DEF AllSent, NothingThere, EndGroup, TailOver, ReadBack, SendFails,
           Killed, Tick, memory
  <2> QED
    BY <1>0, <2>1
<1>3. \/ sink' = sink /\ disk' = disk
      \/ Flush
  BY DEF AllSent, NothingThere, EndGroup, TailOver, ReadBack, SendFails,
         Killed, Tick, memory, Flush
<1>4. sent' = sent /\ Behind(next)' = Behind(next) /\ AckSet' = AckSet
  BY <1>1 DEF sent, Behind, AckSet
<1>5. WTypeOK'
  <2>1. \A b \in DOMAIN sentAt : sentAt[b] <= now'
    <3>1. \A b \in DOMAIN sentAt : sentAt[b] \in Nat /\ sentAt[b] <= now
      BY <1>0 DEF WTypeOK
    <3> QED
      BY <1>0, <1>2, <3>1
  <2> QED
    BY <1>0, <1>1, <1>2, <1>4, <2>1 DEF WTypeOK
<1>6. Filed'
  BY <1>0, <1>1 DEF Filed
<1>7. InFiles'
  <2>1. CASE sink' = sink /\ disk' = disk
    BY <1>0, <1>4, <2>1 DEF InFiles
  <2>2. CASE Flush
    BY <1>1, <2>2, FlushFacts
  <2> QED
    BY <1>3, <2>1, <2>2
<1>8. GroupsOnDisk'
  <2>1. CASE EndGroup
    <3>1. phase = "flush" /\ phase' = "send" /\ Flush
      BY <2>1 DEF EndGroup, Flush
    <3>2. next[2] = 1
      BY <1>0, <3>1 DEF GroupsOnDisk
    <3> QED
      BY <1>1, <3>1, <3>2, FlushFacts DEF GroupsOnDisk
  <2>2. CASE NothingThere
    BY <1>0, <1>1, <2>2 DEF NothingThere, GroupsOnDisk
  <2>3. CASE Killed
    BY <2>3 DEF Killed, GroupsOnDisk
  <2>4. CASE AllSent \/ TailOver \/ ReadBack \/ SendFails \/ Tick
    <3>1. /\ phase \notin {"drain", "flush", "killed"}
          /\ phase' \notin {"drain", "flush", "killed"}
      BY <2>4 DEF AllSent, TailOver, ReadBack, SendFails, Tick
    <3>2. \A g \in 1 .. next[1] - 1 : Members(g) \subseteq disk.blocks
      BY <1>0, <3>1 DEF GroupsOnDisk
    <3>3. disk.blocks \subseteq disk'.blocks
      <4>1. CASE disk' = disk
        BY <4>1
      <4>2. CASE Flush
        BY <4>2 DEF Flush, Lines
      <4> QED
        BY <1>3, <4>1, <4>2
    <3> QED
      BY <1>1, <3>1, <3>2, <3>3 DEF GroupsOnDisk
  <2> QED
    BY <2>1, <2>2, <2>3, <2>4
<1>9. Recorded'
  BY <1>0, <1>1, <1>4 DEF Recorded
<1> QED
  BY <1>5, <1>6, <1>7, <1>8, <1>9 DEF WInv

(* The node answers a put.                                                 *)
LEMMA NodeStep ==
  ASSUME WInv, NEW b \in Blocks, Acknowledge(b) \/ Refuse(b) \/ Repeat(b)
  PROVE  WInv'
<1>0. /\ WTypeOK /\ Filed /\ InFiles /\ GroupsOnDisk /\ Recorded
      /\ socket \in Seq(Blocks \cup {NoName})
      /\ faults \in [err : Nat, dup : Nat]
  BY DEF WInv, WTypeOK
<1>1. /\ UNCHANGED <<phase, next, now, sentAt, ackMs, account, tailEnd, sink, disk>>
      /\ sent' = sent /\ Behind(next)' = Behind(next) /\ AckSet' = AckSet
  BY DEF Acknowledge, Refuse, Repeat, memory, sent, Behind, AckSet
<1>2. /\ due' \subseteq sent /\ done' \subseteq sent /\ done \subseteq done'
  BY <1>0 DEF Acknowledge, Refuse, Repeat, WTypeOK
<1>3. PICK m \in Blocks \cup {NoName} :
        /\ socket' = Append(socket, m)
        /\ m \in done' \cup {NoName}
        /\ done' \subseteq done \cup {m}
        /\ m = NoName => faults'.err = faults.err + 1
        /\ m # NoName => faults'.err = faults.err
  <2>1. CASE Acknowledge(b)
    <3>1. b # NoName
      BY BlockFacts
    <3> QED
      BY <2>1, <3>1 DEF Acknowledge
  <2>2. CASE Refuse(b)
    BY <1>0, <2>2 DEF Refuse
  <2>3. CASE Repeat(b)
    <3>1. b # NoName
      BY BlockFacts
    <3> QED
      BY <1>0, <2>3, <3>1 DEF Repeat
  <2> QED
    BY <2>1, <2>2, <2>3
<1>4. /\ socket' \in Seq(Blocks \cup {NoName})
      /\ ToSet(socket') = ToSet(socket) \cup {m}
  BY <1>0, <1>3, SocketFacts
<1>5. ToSet(socket') = ToSet(socket)'
  OBVIOUS
<1>6. faults' \in [err : Nat, dup : Nat]
  BY <1>0 DEF Acknowledge, Refuse, Repeat
<1>7. WTypeOK'
  BY <1>0, <1>1, <1>2, <1>4, <1>6 DEF WTypeOK
<1>8. Filed'
  BY <1>0, <1>1, <1>2, <1>3, <1>4, <1>5 DEF Filed
<1>9. InFiles'
  BY <1>0, <1>1 DEF InFiles
<1>10. GroupsOnDisk'
  BY <1>0, <1>1 DEF GroupsOnDisk
<1>11. Recorded'
  <2> SUFFICES ASSUME faults'.err = 0
               PROVE  /\ NoName \notin ToSet(socket')
                      /\ \A x \in sent : account[x] > 0 <=> x \in DOMAIN ackMs
    BY <1>1, <1>5 DEF Recorded
  <2>1. m # NoName /\ faults.err = 0
    BY <1>0, <1>3
  <2> QED
    BY <1>0, <1>4, <2>1 DEF Recorded
<1> QED
  BY <1>7, <1>8, <1>9, <1>10, <1>11 DEF WInv

(* So every step of the write role keeps its three records together.       *)
LEMMA WriterInductive == WInv /\ WNext => WInv'
<1> SUFFICES ASSUME WInv, WNext PROVE WInv'
  OBVIOUS
<1>1. CASE SendBlock
  BY <1>1, SendStep
<1>2. CASE DrainBetween
  BY <1>2, DrainStep DEF DrainBetween
<1>3. CASE DrainTail
  BY <1>3, DrainStep DEF DrainTail
<1>4. CASE \/ AllSent \/ NothingThere \/ EndGroup \/ TailOver \/ ReadBack
           \/ SendFails \/ Killed \/ Tick
  BY <1>4, QuietStep
<1>5. CASE Node
  BY <1>5, NodeStep DEF Node
<1> QED
  BY <1>1, <1>2, <1>3, <1>4, <1>5 DEF WNext, Writer

(* A product of two naturals is one.                                       *)
LEMMA TimesNat == ASSUME NEW a \in Nat, NEW b \in Nat PROVE a * b \in Nat
OBVIOUS

(* Of two multiples of g, one that is less than g above the other is not   *)
(* above it at all.                                                        *)
LEMMA WholeMultiples ==
  ASSUME NEW g \in Nat \ {0}, NEW a \in Nat, NEW b \in Nat, g * a < g * b + g
  PROVE  g * a <= g * b
<1>1. CASE a <= b
  <2>1. b - a \in Nat /\ g * (b - a) \in Nat
    BY <1>1, TimesNat
  <2>2. g * b = g * a + g * (b - a)
    OBVIOUS
  <2> QED
    BY <2>1, <2>2
<1>2. CASE a > b
  <2>1. a - b - 1 \in Nat /\ g * (a - b - 1) \in Nat
    BY <1>2, TimesNat
  <2>2. g * a = g * b + g + g * (a - b - 1)
    OBVIOUS
  <2> QED
    BY <2>1, <2>2
<1> QED
  BY <1>1, <1>2

(* Rounding never takes a time past the bound that was within it: the      *)
(* bound is a multiple of the grain.                                       *)
LEMMA RoundedFacts ==
  ASSUME NEW t \in Nat
  PROVE  /\ rounded(t) \in Nat
         /\ t <= Bound => rounded(t) <= Bound
<1>1. Grain \in Nat \ {0} /\ Bound \in Nat /\ Bound % Grain = 0
  BY ParityWriteAssumption
<1> DEFINE h == (Grain - 1) \div 2
           up == t + h
           r == up % Grain
<1>2. h \in Nat /\ h < Grain /\ up \in Nat
  BY <1>1
<1>3. rounded(t) = up - r
  BY DEF rounded
<1> HIDE DEF h
<1>4. r \in 0 .. Grain - 1 /\ up \div Grain \in Nat /\ up = Grain * (up \div Grain) + r
  BY <1>1, <1>2
<1>5. Bound \div Grain \in Nat /\ Bound = Grain * (Bound \div Grain)
  BY <1>1
<1>6. Grain * (up \div Grain) \in Nat
  BY <1>1, <1>4, TimesNat
<1>7. rounded(t) = Grain * (up \div Grain)
  BY <1>1, <1>2, <1>3, <1>4, <1>6
<1>8. ASSUME t <= Bound PROVE rounded(t) <= Bound
  <2> DEFINE q == up \div Grain
             d == Bound \div Grain
  <2>1. Grain * q < Grain * d + Grain
    BY <1>1, <1>2, <1>4, <1>5, <1>6, <1>8
  <2>2. q \in Nat /\ d \in Nat
    BY <1>4, <1>5
  <2> HIDE DEF q, d
  <2>3. Grain * q <= Grain * d
    BY <1>1, <2>1, <2>2, WholeMultiples
  <2> QED
    BY <1>5, <1>7, <2>3 DEF q, d
<1> QED
  BY <1>6, <1>7, <1>8

(* A file that was put without an error, and without an acknowledgement    *)
(* that rounding takes back within the bound, reads back as the recording. *)
LEMMA ReadsBack ==
  ASSUME WInv, ReadBack, faults.err = 0, disk'.blocks # {},
         \A b \in DOMAIN ackMs : ackMs[b] <= Bound <=> rounded(ackMs[b]) <= Bound
  PROVE  phase' # "bailed"
<1>0. WTypeOK /\ Filed /\ InFiles /\ Recorded
  BY DEF WInv
<1>1. Flush /\ UNCHANGED <<next, sentAt, ackMs, account>>
  BY DEF ReadBack, Flush
<1>2. disk'.blocks = sent /\ disk'.acks = AckSet
  BY <1>1, FlushFacts
<1>3. ASSUME NEW b \in sent PROVE recorded(b) = fold(disk', b)
  <2>1. CASE b \notin DOMAIN ackMs
    <3>1. AckLines(disk', b) = {}
      BY <1>2, <2>1 DEF AckLines, AckSet
    <3>2. account[b] = 0
      <4>1. account[b] \in Nat
        BY <1>0, SentFacts DEF WTypeOK
      <4>2. ~ account[b] > 0
        BY <1>0, <2>1 DEF Recorded
      <4> QED
        BY <4>1, <4>2
    <3> QED
      BY <3>1, <3>2 DEF recorded, fold
  <2>2. CASE b \in DOMAIN ackMs
    <3>1. ackMs[b] \in Nat /\ account[b] # 0
      BY <1>0, <2>2 DEF WTypeOK, Recorded
    <3> DEFINE w == rounded(ackMs[b])
    <3>2. AckLines(disk', b) = {<<b, w>>} /\ w \in Nat
      BY <1>2, <2>2, <3>1, RoundedFacts DEF AckLines, AckSet
    <3>6. ackMs[b] <= Bound <=> w <= Bound
      BY <2>2
    <3> HIDE DEF w
    <3>3. {l[2] : l \in AckLines(disk', b)} = {w}
      BY <3>2
    <3>4. Min({w}) = w
      BY <3>2 DEF Min
    <3>5. fold(disk', b) = IF w <= Bound THEN "Within" ELSE "Late"
      BY <3>2, <3>3, <3>4 DEF fold
    <3> QED
      BY <2>2, <3>1, <3>5, <3>6 DEF recorded
  <2> QED
    BY <2>1, <2>2
<1>4. \A o \in Outcomes : {b \in sent : recorded(b) = o}
                            = {b \in disk'.blocks : fold(disk', b) = o}
  BY <1>2, <1>3
<1>5. phase' = "wrote"
  <2> DEFINE Read_(b) == fold(disk', b)
  <2>1. tally(recorded, sent) = tally(Read_, disk'.blocks)
    BY <1>4 DEF tally
  <2> QED
    BY <2>1 DEF ReadBack
<1> QED
  BY <1>5

-----------------------------------------------------------------------------
(* The write role within the whole run: only the writer keeps it.          *)

WriterInv == role = "write" => WInv

(* Only the writer's own steps leave the writer running.                   *)
LEMMA WriteSteps ==
  ASSUME [Next]_vars, role' = "write"
  PROVE  role = "write" /\ (WNext \/ UNCHANGED wvars)
BY DEF Next, Write, Roles, WriteOver, Read, Ask, ProbeEnds, RoundOver,
       ReadAnswer, ReputSend, ReputOver, ReputDies, ScoreOver, ReaderKilled,
       RTick, ReputAck, Place, InRead, Readers, vars

(* The writer begins with nothing sent and nothing on disk.                *)
LEMMA WriterInit == Init => WriterInv
<1> SUFFICES ASSUME WInit, disk = NoFile PROVE WInv
  BY DEF Init, WriterInv
<1>1. /\ next = <<1, 1>> /\ next[1] = 1 /\ next[2] = 1 /\ now = 0 /\ tailEnd = 0
      /\ sentAt = <<>> /\ ackMs = <<>> /\ account = <<>>
      /\ due = {} /\ done = {} /\ socket = <<>> /\ faults = [err |-> 0, dup |-> 0]
      /\ phase = "send" /\ disk.blocks = {} /\ disk.acks = {}
      /\ sink.blocks = {} /\ sink.acks = {}
  BY DEF WInit, NoFile
<1>2. DOMAIN <<>> = {} /\ ToSet(<<>>) = {} /\ 1 .. 1 - 1 = {}
  BY DEF ToSet
<1>3. next \in Positions
  <2>1. Len(Plan) \in Nat
    BY GroupFacts
  <2>2. CASE Len(Plan) = 0
    BY <1>1, <2>2 DEF Positions
  <2>3. CASE Len(Plan) # 0
    <3>1. 1 \in Gs
      BY <2>1, <2>3 DEF Gs
    <3>2. 1 <= Width(1) /\ 1 <= Len(Plan)
      BY <2>1, <2>3, <3>1, GroupFacts
    <3> QED
      BY <1>1, <3>2 DEF Positions
  <2> QED
    BY <2>2, <2>3
<1>4. Behind(next) = {}
  <2>1. \A b \in Blocks : ~ Before(b, next)
    BY <1>1, BlockFacts DEF Before
  <2> QED
    BY <2>1 DEF Behind
<1>5. WTypeOK
  <2>1. \A T : <<>> \in [{} -> T]
    OBVIOUS
  <2> QED
    BY <1>1, <1>2, <1>3, <1>4, <2>1 DEF WTypeOK, sent
<1>6. Filed /\ InFiles /\ GroupsOnDisk /\ Recorded
  BY <1>1, <1>2 DEF Filed, InFiles, GroupsOnDisk, Recorded, sent, AckSet, Left
<1> QED
  BY <1>5, <1>6 DEF WInv

(* As long as the writer runs, its records stay consistent.                *)
LEMMA WriterStep == WriterInv /\ [Next]_vars => WriterInv'
<1> SUFFICES ASSUME WriterInv, [Next]_vars, role' = "write" PROVE WInv'
  BY DEF WriterInv
<1>1. WInv /\ (WNext \/ UNCHANGED wvars)
  BY WriteSteps DEF WriterInv
<1>2. CASE UNCHANGED wvars
  BY <1>1, <1>2 DEF wvars, memory, node, WInv, WTypeOK, Filed, InFiles,
     GroupsOnDisk, Recorded, sent, AckSet, Behind
<1> QED
  BY <1>1, <1>2, WriterInductive

(* The file, the times and the recording stay records of the same answers. *)
THEOREM WriterCorrect == Spec => []WriterInv
BY WriterInit, WriterStep, PTL DEF Spec

(* Every key's outcome is its own: an ACK line for exactly the keys that   *)
(* were acknowledged and whose acknowledgement was read.                   *)
THEOREM OwnAckHolds == Spec => []OwnAck
<1>1. WriterInv => OwnAck
  <2> SUFFICES ASSUME WInv, NEW b \in sent
               PROVE  /\ AckLines(Written, b) # {} => b \in done
                      /\ b \in done \ ToSet(socket) => AckLines(Written, b) # {}
    BY DEF WriterInv, OwnAck
  <2>1. Written.acks = AckSet
    BY DEF Written, Lines, WInv, InFiles
  <2>2. AckLines(Written, b) = {l \in AckSet : l[1] = b}
    BY <2>1 DEF AckLines
  <2>3. b \in DOMAIN ackMs <=> AckLines(Written, b) # {}
    <3>1. ASSUME b \in DOMAIN ackMs PROVE AckLines(Written, b) # {}
      <4>1. <<b, rounded(ackMs[b])>> \in AckLines(Written, b)
        BY <2>2, <3>1 DEF AckSet
      <4> QED
        BY <4>1
    <3>2. ASSUME AckLines(Written, b) # {} PROVE b \in DOMAIN ackMs
      BY <2>2, <3>2 DEF AckSet
    <3> QED
      BY <3>1, <3>2
  <2> QED
    BY <2>3 DEF WInv, Filed
<1> QED
  BY <1>1, WriterCorrect, PTL

(* A run that dies leaves every completed group readable.                  *)
THEOREM CrashSafeHolds == Spec => []CrashSafe
<1>1. WriterInv => CrashSafe
  BY DEF WriterInv, CrashSafe, WInv, InFiles, GroupsOnDisk
<1> QED
  BY <1>1, WriterCorrect, PTL

(* A file that does not read back as the recording had an error in it, or  *)
(* an acknowledgement that rounding took back within the bound.            *)
Rounds(b) == ackMs[b] > Bound /\ rounded(ackMs[b]) <= Bound

THEOREM BailIsExplainedHolds == Spec => []BailIsExplained
<1>1. Init => BailIsExplained
  BY DEF Init, WInit, BailIsExplained
<1>2. WriterInv /\ WriterInv' /\ BailIsExplained /\ [Next]_vars => BailIsExplained'
  <2> SUFFICES ASSUME WriterInv, WriterInv', BailIsExplained, [Next]_vars,
                      phase' = "bailed", disk'.blocks # {},
                      ~ \E b \in DOMAIN ackMs' : Rounds(b)'
               PROVE  faults'.err > 0
    BY DEF BailIsExplained, Rounds
  <2>1. CASE UNCHANGED wvars
    <3>1. /\ phase' = phase /\ disk' = disk /\ ackMs' = ackMs /\ faults' = faults
      BY <2>1 DEF wvars, memory, node
    <3>2. ~ \E b \in DOMAIN ackMs : Rounds(b)
      BY <3>1 DEF Rounds
    <3> QED
      BY <3>1, <3>2 DEF BailIsExplained, Rounds
  <2>2. CASE role = "write" /\ WNext
    <3>1. ReadBack /\ faults' = faults
      <4>1. \A b : ~ (Acknowledge(b) /\ phase' = "bailed")
        BY DEF Acknowledge, Working, Ended
      <4>2. \A b : ~ (Refuse(b) /\ phase' = "bailed")
        BY DEF Refuse, Working, Ended
      <4>3. \A b : ~ (Repeat(b) /\ phase' = "bailed")
        BY DEF Repeat, Working, Ended
      <4>4. ~ Node
        BY <4>1, <4>2, <4>3 DEF Node
      <4>5. ~ (DrainBetween \/ DrainTail)
        BY DEF DrainBetween, DrainTail, drain_acks
      <4>6. ~ (SendBlock \/ AllSent \/ NothingThere \/ EndGroup \/ TailOver)
        BY DEF SendBlock, AllSent, NothingThere, EndGroup, TailOver
      <4>7. ~ (SendFails \/ Killed \/ Tick)
        BY DEF SendFails, Killed, Tick
      <4>8. ReadBack
        BY <2>2, <4>4, <4>5, <4>6, <4>7 DEF WNext, Writer
      <4> QED
        BY <4>8 DEF ReadBack, node
    <3>2. WInv /\ faults.err \in Nat
      BY <2>2 DEF WriterInv, WInv, WTypeOK
    <3>4. ackMs' = ackMs
      BY <3>1 DEF ReadBack
    <3>5. \A b \in DOMAIN ackMs : ackMs[b] <= Bound <=> rounded(ackMs[b]) <= Bound
      <4> TAKE b \in DOMAIN ackMs
      <4>1. ackMs[b] \in Nat /\ Bound \in Nat
        BY <3>2, ParityWriteAssumption DEF WInv, WTypeOK
      <4>2. ~ Rounds(b)
        BY <3>4 DEF Rounds
      <4>3. ackMs[b] > Bound => ~ (rounded(ackMs[b]) <= Bound)
        BY <4>2 DEF Rounds
      <4>4. ackMs[b] <= Bound => rounded(ackMs[b]) <= Bound
        BY <4>1, RoundedFacts
      <4>5. ackMs[b] <= Bound \/ ackMs[b] > Bound
        BY <4>1
      <4> QED
        BY <4>3, <4>4, <4>5
    <3>3. faults.err # 0
      BY <3>1, <3>2, <3>5, ReadsBack
    <3> QED
      BY <3>1, <3>2, <3>3
  <2>3. UNCHANGED wvars \/ (role = "write" /\ WNext)
    BY DEF Next, Write, Roles, WriteOver, Read, Ask, ProbeEnds, RoundOver,
       ReadAnswer, ReputSend, ReputOver, ReputDies, ScoreOver, ReaderKilled,
       RTick, ReputAck, Place, vars
  <2> QED
    BY <2>1, <2>2, <2>3
<1> QED
  BY <1>1, <1>2, WriterCorrect, PTL DEF Spec

-----------------------------------------------------------------------------
(* The readers.  Every key a role is to read is in exactly the read file,  *)
(* the lines of the round, or the keys still cold; and only the role's end *)
(* writes a MISS line.                                                     *)

RoleNames == {"write", "read", "reput", "reread", "score", "over"}
Base(r) == IF r = "read" THEN disk.blocks ELSE DOMAIN again

Times == 0 .. Latest

ReadsOK(r) ==
  /\ \A b \in DOMAIN reads[r] :
       reads[r][b] = Miss \/ (reads[r][b] \in Times /\ b \in placed)
  /\ (\E b \in DOMAIN reads[r] : reads[r][b] = Miss) =>
       DOMAIN reads[r] = Asked(Base(r))
  /\ DOMAIN reads[r] \subseteq Asked(Base(r))

Reading(r) ==
  /\ Asked(Base(r)) = DOMAIN reads[r] \cup DOMAIN found \cup Cold
  /\ \A b \in DOMAIN reads[r] : reads[r][b] # Miss
  /\ \A b \in DOMAIN found : found[b] \in Times /\ b \in placed
  /\ asking = NoName \/ asking \in todo
  /\ clock \in Times

(* The re-put sends what was missed, and its file names all of it, once it *)
(* is all sent, or nothing.                                                *)
Reput ==
  /\ role \in {"write", "read"} => resent = {}
  /\ role \in {"write", "read", "reput"} => DOMAIN again = {}
  /\ role \in {"reput", "reread", "score"} => resent \subseteq stuck
  /\ role \in {"reread", "score"} =>
       DOMAIN again = {} \/ (DOMAIN again = stuck /\ resent = stuck)

RInv ==
  /\ Reput
  /\ role \in RoleNames
  /\ reads = [r \in Readers |-> reads[r]]
  /\ role # "write" => disk.blocks \subseteq Blocks
  /\ role = "write" => DOMAIN reads["read"] = {}
  /\ role \in {"write", "read", "reput"} => DOMAIN reads["reread"] = {}
  /\ \A r \in Readers : ReadsOK(r)
  /\ \A r \in Readers : role = r => Reading(r)

(* The first of some blocks, in the order they were put.                   *)
LEMMA FirstBlock ==
  ASSUME NEW T \in SUBSET Blocks, T # {}
  PROVE  first(T) \in T
<1> DEFINE Firsts == {b[1] : b \in T}
           g == Min(Firsts)
           Rests == {n \in Nat : <<g, n>> \in T}
           i == Min(Rests)
<1>1. \A b \in T : b[1] \in Nat /\ b[2] \in Nat /\ b = <<b[1], b[2]>>
  BY BlockFacts
<1>2. g \in Firsts /\ \A y \in Firsts : g <= y
  <2>1. Firsts \in SUBSET Nat /\ Firsts # {}
    BY <1>1
  <2> HIDE DEF Firsts
  <2> QED
    BY <2>1, NatMin
<1>3. \A b \in T : g <= b[1]
  BY <1>2
<1>4. i \in Rests /\ \A y \in Rests : i <= y
  <2>1. PICK b \in T : b[1] = g
    BY <1>2
  <2>2. b[2] \in Rests
    BY <1>1, <2>1
  <2>3. Rests \in SUBSET Nat
    OBVIOUS
  <2> HIDE DEF Rests
  <2> QED
    BY <2>2, <2>3, NatMin
<1>5. <<g, i>> \in T /\ g \in Nat /\ i \in Nat
  <2>1. <<g, i>> \in T
    BY <1>4
  <2> HIDE DEF g, i
  <2>2. <<g, i>>[1] = g /\ <<g, i>>[2] = i
    OBVIOUS
  <2> QED
    BY <1>1, <2>1, <2>2
<1>6. \A c \in T : c[1] = g => i <= c[2]
  BY <1>1, <1>4
<1> HIDE DEF g, i
<1>7. \A c \in T : ~ Before(c, <<g, i>>)
  <2> TAKE c \in T
  <2>1. c[1] \in Nat /\ c[2] \in Nat /\ g <= c[1] /\ (c[1] = g => i <= c[2])
    BY <1>1, <1>3, <1>6
  <2>2. <<g, i>>[1] = g /\ <<g, i>>[2] = i
    OBVIOUS
  <2> QED
    BY <1>5, <2>1, <2>2 DEF Before
<1> QED
  BY <1>5, <1>7 DEF first

(* Lines of a round over those of a file.                                  *)
LEMMA OverFacts ==
  ASSUME NEW f, NEW g
  PROVE  /\ DOMAIN over(f, g) = DOMAIN f \cup DOMAIN g
         /\ \A x \in DOMAIN f : over(f, g)[x] = f[x]
         /\ \A x \in DOMAIN g : x \notin DOMAIN f => over(f, g)[x] = g[x]
BY DEF over

(* What a role is to read is a set of blocks.                              *)
LEMMA AskedFacts ==
  ASSUME RInv, NEW r \in Readers, role = r
  PROVE  /\ Asked(Base(r)) \subseteq Blocks /\ Cold \subseteq Blocks
         /\ PerKey \in Nat \ {0} /\ Miss \notin Times
         /\ role \in Readers /\ Reading(r) /\ NoName \notin todo
<1>1. Base(r) \subseteq Blocks
  <2>1. role \in Readers /\ role # "write" /\ disk.blocks \subseteq Blocks
    BY DEF RInv, Readers
  <2>2. CASE r = "read"
    BY <2>1, <2>2 DEF Base
  <2>3. CASE r = "reread"
    <3>1. DOMAIN again \subseteq stuck
      BY <2>3 DEF RInv, Reput
    <3> QED
      BY <2>1, <2>3, <3>1 DEF Base, stuck
  <2> QED
    BY <2>2, <2>3 DEF Readers
<1>2. Asked(Base(r)) \subseteq Blocks
  BY <1>1 DEF Asked
<1>3. Reading(r)
  BY DEF RInv
<1>4. PerKey \in Nat \ {0}
  BY ParityAssumption
<1>5. Miss \notin Times
  BY <1>4 DEF Miss, Times
<1>6. Cold \subseteq Blocks
  BY <1>2, <1>3 DEF Reading
<1> QED
  BY <1>2, <1>3, <1>4, <1>5, <1>6, BlockFacts DEF Cold

(* A step that leaves the read files alone keeps what they say.            *)
LEMMA FilesKept ==
  ASSUME RInv, reads' = reads, disk' = disk, again' = again,
         placed \subseteq placed'
  PROVE  /\ reads' = [r \in Readers |-> reads'[r]]
         /\ \A r \in Readers : ReadsOK(r)'
         /\ stuck' = stuck
         /\ \A r \in Readers : Base(r)' = Base(r)
<1>1. /\ reads = [r \in Readers |-> reads[r]]
      /\ \A r \in Readers : ReadsOK(r)
  BY DEF RInv
<1>2. \A r \in Readers : Base(r)' = Base(r)
  BY DEF Base
<1>3. \A r \in Readers : ReadsOK(r)'
  BY <1>1, <1>2 DEF ReadsOK
<1> QED
  BY <1>1, <1>2, <1>3 DEF stuck

(* What was sent again stays as it was while a role goes on, and when it   *)
(* gives way to the next, as long as the first read file stays too.        *)
LEMMA ReputKept ==
  ASSUME Reput, again' = again, resent' = resent,
         \/ role' = role /\ (stuck' = stuck \/ role \in {"write", "read"})
         \/ role = "read" /\ role' = "reput"
         \/ role \in {"reput", "reread"} /\ role' = "score" /\ stuck' = stuck
         \/ role' \notin {"write", "read", "reput", "reread", "score"}
  PROVE  Reput'
BY DEF Reput

(* A reader asks, reads, waits or gives a probe up.                        *)
LEMMA ProbeStep ==
  ASSUME RInv, NEW r \in Readers, role = r, role' = role,
         UNCHANGED <<disk, again, reads, resent>>, placed \subseteq placed',
         Reading(r)'
  PROVE  RInv'
<1>1. /\ reads' = [x \in Readers |-> reads'[x]]
      /\ \A x \in Readers : ReadsOK(x)'
      /\ stuck' = stuck
  BY FilesKept
<1>2. /\ role \in RoleNames /\ role # "write"
      /\ disk.blocks \subseteq Blocks
      /\ role = "read" => DOMAIN reads["reread"] = {}
  BY DEF RInv, Readers
<1>3. r \in {"read", "reread"}
  BY DEF Readers
<1>4. Reput'
  BY <1>1, ReputKept DEF RInv
<1> QED
  BY <1>1, <1>2, <1>3, <1>4 DEF RInv

(* A probe begins.                                                         *)
LEMMA AskStep ==
  ASSUME RInv, Ask
  PROVE  RInv'
<1>1. PICK r \in Readers : role = r
  BY DEF Ask, InRead
<1>2. /\ Cold \subseteq Blocks /\ Reading(r) /\ todo # {}
      /\ UNCHANGED <<role, disk, todo, still, clock, found, reads, again, resent, placed>>
      /\ asking' = key
  BY <1>1, AskedFacts DEF Ask, wvars, pvars
<1>3. key \in todo
  <2>1. todo \in SUBSET Blocks
    BY <1>2 DEF Cold
  <2> QED
    BY <1>2, <2>1, FirstBlock DEF key
<1>4. Reading(r)'
  BY <1>2, <1>3 DEF Reading, Cold, Base
<1> QED
  BY <1>1, <1>2, <1>4, ProbeStep

(* An answer is read: the probe's own, or another that is dropped.         *)
LEMMA AnswerStep ==
  ASSUME RInv, NEW b \in Blocks, ReadAnswer(b)
  PROVE  RInv'
<1>1. PICK r \in Readers : role = r
  BY DEF ReadAnswer, InRead
<1>2. /\ Reading(r) /\ b \in placed /\ asking # NoName
      /\ UNCHANGED <<role, disk, still, clock, reads, again, resent, placed>>
  BY <1>1, AskedFacts DEF ReadAnswer, wvars, pvars
<1>3. CASE b = asking
  <2>1. /\ found' = insert(found, b, clock)
        /\ todo' = todo \ {b} /\ asking' = NoName /\ b \in todo
    BY <1>2, <1>3 DEF ReadAnswer, Reading
  <2>2. DOMAIN found' = DOMAIN found \cup {b}
    BY <2>1, InsertFacts
  <2>3. \A x \in DOMAIN found' : found'[x] \in Times /\ x \in placed
    BY <1>2, <2>1 DEF insert, Reading
  <2>4. Asked(Base(r)) = DOMAIN reads[r] \cup DOMAIN found' \cup todo' \cup still
    BY <1>2, <2>1, <2>2 DEF Reading, Cold
  <2>5. Reading(r)'
    BY <1>2, <2>1, <2>3, <2>4 DEF Reading, Cold, Base
  <2> QED
    BY <1>1, <1>2, <2>5, ProbeStep
<1>4. CASE b # asking
  <2>1. UNCHANGED <<found, todo, asking>>
    BY <1>4 DEF ReadAnswer
  <2>2. Reading(r)'
    BY <1>2, <2>1 DEF Reading, Cold, Base
  <2> QED
    BY <1>1, <1>2, <2>2, ProbeStep
<1> QED
  BY <1>3, <1>4

(* A probe ends without its answer.                                        *)
LEMMA ProbeEndsStep ==
  ASSUME RInv, ProbeEnds
  PROVE  RInv'
<1>1. PICK r \in Readers : role = r
  BY DEF ProbeEnds, InRead
<1>2. /\ Reading(r) /\ asking \in todo
      /\ UNCHANGED <<role, disk, clock, found, reads, again, resent, placed>>
      /\ todo' = todo \ {asking} /\ still' = still \cup {asking}
      /\ asking' = NoName
  BY <1>1, AskedFacts DEF ProbeEnds, wvars, pvars, Reading
<1>3. Cold' = Cold
  BY <1>2 DEF Cold
<1>4. Reading(r)'
  BY <1>2, <1>3 DEF Reading, Base
<1> QED
  BY <1>1, <1>2, <1>4, ProbeStep

(* Time passes, or a block becomes fetchable.                              *)
LEMMA OutsideStep ==
  ASSUME RInv, RTick \/ \E b \in Blocks : Place(b)
  PROVE  RInv'
<1>1. /\ UNCHANGED <<role, disk, todo, still, asking, found, reads, again, resent>>
      /\ placed \subseteq placed'
      /\ clock' = clock \/ (clock' = clock + 1 /\ (InRead => clock < Latest))
  <2>1. InRead /\ clock < (IF asking = NoName THEN PerKey ELSE Latest) => clock < Latest
    <3>1. PerKey <= Latest /\ PerKey \in Nat /\ Latest \in Nat
      BY ParityAssumption DEF Latest
    <3>2. InRead => clock \in Times
      BY DEF InRead, RInv, Reading
    <3> QED
      BY <3>1, <3>2 DEF Times
  <2> QED
    BY <2>1 DEF RTick, Place, wvars, rvars, pvars, InRead, Readers
<1>2. CASE role \in Readers
  <2>1. PerKey \in Nat /\ Latest \in Nat /\ Reading(role)
    BY <1>2, ParityAssumption DEF RInv, Latest
  <2>2. clock' \in Times
    BY <1>1, <1>2, <2>1 DEF InRead, Reading, Times
  <2>3. Reading(role)'
    BY <1>1, <2>1, <2>2 DEF Reading, Cold, Base
  <2> QED
    BY <1>1, <1>2, <2>3, ProbeStep
<1>3. CASE role \notin Readers
  <2>1. /\ reads' = [r \in Readers |-> reads'[r]]
        /\ \A r \in Readers : ReadsOK(r)'
    BY <1>1, FilesKept
  <2>2. stuck' = stuck /\ role' = role /\ disk' = disk /\ again' = again /\ reads' = reads
    BY <1>1, FilesKept
  <2>3. role' \in RoleNames /\ role' \notin Readers
    BY <1>3, <2>2 DEF RInv
  <2>4. /\ role' # "write" => disk'.blocks \subseteq Blocks
        /\ role' = "write" => DOMAIN reads'["read"] = {}
        /\ role' \in {"write", "read", "reput"} => DOMAIN reads'["reread"] = {}
    BY <2>2 DEF RInv
  <2>5. Reput'
    BY <1>1, <2>2, ReputKept DEF RInv
  <2> QED
    BY <2>1, <2>3, <2>4, <2>5 DEF RInv
<1> QED
  BY <1>2, <1>3

(* A read file changes.                                                    *)
LEMMA ReadsChange ==
  ASSUME RInv, NEW r \in Readers, role = r, NEW f,
         reads' = [reads EXCEPT ![role] = f], UNCHANGED <<disk, again, placed>>
  PROVE  /\ reads' = [x \in Readers |-> reads'[x]]
         /\ reads'[r] = f
         /\ \A x \in Readers : x # r => reads'[x] = reads[x] /\ ReadsOK(x)'
         /\ \A x \in Readers : Base(x)' = Base(x)
<1>1. /\ reads = [x \in Readers |-> reads[x]]
      /\ \A x \in Readers : ReadsOK(x)
  BY DEF RInv
<1>2. /\ reads' = [x \in Readers |-> reads'[x]]
      /\ reads'[r] = f
      /\ \A x \in Readers : x # r => reads'[x] = reads[x]
  BY <1>1
<1>3. \A x \in Readers : Base(x)' = Base(x)
  BY DEF Base
<1>4. \A x \in Readers : x # r => ReadsOK(x)'
  BY <1>1, <1>2, <1>3 DEF ReadsOK
<1> QED
  BY <1>2, <1>3, <1>4

(* A role of reading is over and another begins.                           *)
LEMMA ReaderLeaves ==
  ASSUME RInv, NEW r \in Readers, role = r,
         role' = (IF role = "read" THEN "reput" ELSE "score"),
         UNCHANGED <<disk, again, resent, placed>>,
         reads' = [x \in Readers |-> reads'[x]],
         \A x \in Readers : ReadsOK(x)',
         \A x \in Readers : x # r => reads'[x] = reads[x]
  PROVE  RInv'
<1>1. CASE r = "read"
  <2>1. /\ role' = "reput" /\ reads'["reread"] = reads["reread"]
        /\ DOMAIN reads["reread"] = {} /\ disk.blocks \subseteq Blocks
    BY <1>1 DEF RInv, Readers
  <2>2. Reput'
    <3>1. role = "read" /\ resent' = {} /\ DOMAIN again' = {}
      BY <1>1 DEF RInv, Reput
    <3> QED
      BY <2>1, <3>1 DEF Reput
  <2> QED
    BY <2>1, <2>2 DEF RInv, RoleNames, Readers
<1>2. CASE r = "reread"
  <2>1. /\ role' = "score" /\ reads'["read"] = reads["read"]
        /\ disk.blocks \subseteq Blocks
    BY <1>2 DEF RInv, Readers
  <2>2. stuck' = stuck
    BY <2>1 DEF stuck
  <2>3. Reput'
    BY <1>2, <2>1, <2>2, ReputKept DEF RInv
  <2> QED
    BY <2>1, <2>3 DEF RInv, RoleNames, Readers
<1> QED
  BY <1>1, <1>2 DEF Readers

(* A round is over: its lines go to the file, at the end with MISS lines.  *)
LEMMA RoundStep ==
  ASSUME RInv, RoundOver
  PROVE  RInv'
<1>1. PICK r \in Readers : role = r
  BY DEF RoundOver, InRead
<1>2. /\ Reading(r) /\ clock \in Times /\ PerKey \in Nat /\ Miss \notin Times
      /\ UNCHANGED <<disk, again, resent, placed>>
      /\ asking = NoName /\ (todo = {} \/ clock >= PerKey)
  BY <1>1, AskedFacts DEF RoundOver, wvars, pvars, Reading
<1>3. CASE Cold # {} /\ clock < PerKey
  <2> DEFINE f == over(found, reads[r])
  <2>1. /\ reads' = [reads EXCEPT ![role] = f]
        /\ todo' = still /\ still' = {} /\ found' = <<>>
        /\ UNCHANGED <<role, clock, asking>>
    BY <1>1, <1>3 DEF RoundOver
  <2>2. DOMAIN f = DOMAIN found \cup DOMAIN reads[r]
    BY OverFacts
  <2>3. \A b \in DOMAIN f : f[b] \in Times /\ b \in placed
    <3>1. \A b \in DOMAIN reads[r] : reads[r][b] \in Times /\ b \in placed
      BY <1>2 DEF Reading, RInv, ReadsOK
    <3>2. \A b \in DOMAIN found : found[b] \in Times /\ b \in placed
      BY <1>2 DEF Reading
    <3> QED
      BY <3>1, <3>2 DEF over
  <2> HIDE DEF f
  <2>4. /\ reads' = [x \in Readers |-> reads'[x]] /\ reads'[r] = f
        /\ \A x \in Readers : x # r => reads'[x] = reads[x] /\ ReadsOK(x)'
        /\ \A x \in Readers : Base(x)' = Base(x)
    BY <1>1, <1>2, <2>1, ReadsChange
  <2>6. todo = {}
    <3>1. clock \in Nat /\ ~ clock >= PerKey
      BY <1>2, <1>3 DEF Times
    <3> QED
      BY <1>2, <3>1
  <2>7. Asked(Base(r)) = DOMAIN f \cup still
    BY <1>2, <2>2, <2>6 DEF Reading, Cold
  <2>5. ReadsOK(r)'
    <3>1. /\ \A b \in DOMAIN f : f[b] # Miss
          /\ DOMAIN f \subseteq Asked(Base(r))
      BY <1>2, <2>3, <2>7
    <3>2. /\ reads'[r] = f /\ Asked(Base(r)) = Asked(Base(r))' /\ placed' = placed
      BY <1>2, <2>4 DEF Asked
    <3> QED
      BY <2>3, <3>1, <3>2 DEF ReadsOK
  <2>8. Reading(r)'
    BY <1>2, <2>1, <2>3, <2>4, <2>7 DEF Reading, Cold
  <2>9. stuck' = stuck \/ role = "read"
    BY <1>1, <1>2, <2>4 DEF stuck, Readers
  <2>10. /\ role \in RoleNames /\ role # "write" /\ disk.blocks \subseteq Blocks
         /\ role = "read" => DOMAIN reads["reread"] = {}
    BY <1>1 DEF RInv, Readers
  <2>11. \A x \in Readers : ReadsOK(x)'
    BY <2>4, <2>5
  <2>12. role = "read" => DOMAIN reads'["reread"] = {}
    BY <1>1, <2>4, <2>10 DEF Readers
  <2>13. Reput'
    BY <1>2, <2>1, <2>9, ReputKept DEF RInv
  <2> QED
    BY <1>1, <1>2, <2>1, <2>4, <2>8, <2>10, <2>11, <2>12, <2>13 DEF RInv, Readers
<1>4. CASE ~ (Cold # {} /\ clock < PerKey)
  <2> DEFINE cold == [b \in Cold |-> Miss]
             h == over(cold, reads[r])
             f == over(found, h)
  <2>1. /\ reads' = [reads EXCEPT ![role] = f]
        /\ role' = IF role = "read" THEN "reput" ELSE "score"
    BY <1>1, <1>4 DEF RoundOver
  <2>2. DOMAIN f = Asked(Base(r))
    <3>1. DOMAIN cold = Cold
      OBVIOUS
    <3> HIDE DEF cold
    <3>2. DOMAIN h = Cold \cup DOMAIN reads[r]
      BY <3>1, OverFacts
    <3> HIDE DEF h
    <3>3. DOMAIN f = DOMAIN found \cup DOMAIN h
      BY OverFacts
    <3> QED
      BY <1>2, <3>2, <3>3 DEF Reading
  <2>3. \A b \in DOMAIN f : f[b] = Miss \/ (f[b] \in Times /\ b \in placed)
    <3>1. \A b \in DOMAIN reads[r] : reads[r][b] \in Times /\ b \in placed
      BY <1>2 DEF Reading, RInv, ReadsOK
    <3>2. \A b \in DOMAIN found : found[b] \in Times /\ b \in placed
      BY <1>2 DEF Reading
    <3>3. \A b \in DOMAIN h : h[b] = Miss \/ (h[b] \in Times /\ b \in placed)
      BY <3>1 DEF over
    <3> HIDE DEF h
    <3> QED
      BY <3>2, <3>3 DEF over
  <2> HIDE DEF f
  <2>4. /\ reads' = [x \in Readers |-> reads'[x]] /\ reads'[r] = f
        /\ \A x \in Readers : x # r => reads'[x] = reads[x] /\ ReadsOK(x)'
        /\ \A x \in Readers : Base(x)' = Base(x)
    BY <1>1, <1>2, <2>1, ReadsChange
  <2>5. ReadsOK(r)'
    BY <1>2, <2>2, <2>3, <2>4 DEF ReadsOK
  <2>6. \A x \in Readers : ReadsOK(x)'
    BY <2>4, <2>5
  <2> QED
    BY <1>1, <1>2, <2>1, <2>4, <2>6, ReaderLeaves
<1> QED
  BY <1>3, <1>4

(* A reader is killed, and its file stays without MISS lines.              *)
LEMMA KilledStep ==
  ASSUME RInv, ReaderKilled
  PROVE  RInv'
<1>1. PICK r \in Readers : role = r
  BY DEF ReaderKilled, InRead
<1>2. /\ UNCHANGED <<disk, again, resent, placed, reads>>
      /\ role' = IF role = "read" THEN "reput" ELSE "score"
  BY DEF ReaderKilled, wvars, pvars
<1>3. /\ reads' = [x \in Readers |-> reads'[x]]
      /\ \A x \in Readers : ReadsOK(x)'
  BY <1>2, FilesKept
<1> QED
  BY <1>1, <1>2, <1>3, ReaderLeaves

(* The keys that were missed are put again, and asked for again.           *)
LEMMA ReputStep ==
  ASSUME RInv, ReputOver
  PROVE  RInv'
<1>1. /\ role = "reput" /\ UNCHANGED <<disk, reads, resent, placed>>
      /\ DOMAIN again' = stuck /\ resent = stuck
      /\ role' = IF stuck = {} THEN "score" ELSE "reread"
      /\ todo' = Asked(stuck) /\ clock' = 0 /\ found' = <<>> /\ still' = {}
      /\ asking' = NoName
  BY DEF ReputOver, wvars, NewClock
<1>2. /\ reads = [x \in Readers |-> reads[x]]
      /\ DOMAIN reads["reread"] = {} /\ disk.blocks \subseteq Blocks
      /\ \A r \in Readers : ReadsOK(r)
  BY <1>1 DEF RInv
<1>3. stuck' = stuck
  BY <1>1 DEF stuck
<1>4. ReadsOK("reread")'
  BY <1>1, <1>2 DEF ReadsOK
<1>5. ReadsOK("read")'
  BY <1>1, <1>2 DEF ReadsOK, Readers, Base
<1>6. Reading("reread")'
  <2>1. Base("reread")' = stuck
    BY <1>1 DEF Base
  <2>2. 0 \in Times
    BY ParityAssumption DEF Times, Latest
  <2>3. DOMAIN <<>> = {}
    OBVIOUS
  <2> QED
    BY <1>1, <1>2, <2>1, <2>2, <2>3 DEF Reading, Cold
<1>7. Reput'
  BY <1>1, <1>3 DEF Reput
<1> QED
  BY <1>1, <1>2, <1>3, <1>4, <1>5, <1>6, <1>7 DEF RInv, Readers, RoleNames

(* One of the missed keys is sent again.                                   *)
LEMMA ReputSendStep ==
  ASSUME RInv, ReputSend
  PROVE  RInv'
<1>1. /\ role = "reput" /\ UNCHANGED <<role, disk, reads, again, placed>>
      /\ resent # stuck /\ resent' = resent \cup {first(stuck \ resent)}
  BY DEF ReputSend, wvars, rvars
<1>2. /\ reads' = [r \in Readers |-> reads'[r]]
      /\ \A r \in Readers : ReadsOK(r)'
      /\ stuck' = stuck
  BY <1>1, FilesKept
<1>3. first(stuck \ resent) \in stuck \ resent
  <2>1. resent \subseteq stuck /\ stuck \subseteq Blocks
    BY <1>1 DEF RInv, Reput, stuck
  <2> QED
    BY <1>1, <2>1, FirstBlock
<1>4. Reput'
  BY <1>1, <1>2, <1>3 DEF RInv, Reput
<1> QED
  BY <1>1, <1>2, <1>4 DEF RInv, Readers

(* The re-put is over before its lines are written.                        *)
LEMMA ReputDiesStep ==
  ASSUME RInv, ReputDies
  PROVE  RInv'
<1>1. /\ role = "reput" /\ role' = "score"
      /\ UNCHANGED <<disk, reads, again, resent, placed>>
  BY DEF ReputDies, wvars
<1>2. /\ reads' = [r \in Readers |-> reads'[r]]
      /\ \A r \in Readers : ReadsOK(r)'
      /\ stuck' = stuck
  BY <1>1, FilesKept
<1>3. Reput'
  BY <1>1, <1>2, ReputKept DEF RInv
<1> QED
  BY <1>1, <1>2, <1>3 DEF RInv, Readers, RoleNames

(* The writer changes its own file only.                                   *)
LEMMA WriterAtWork ==
  ASSUME RInv, Write
  PROVE  RInv'
<1>1. /\ role = "write" /\ role' = role /\ reads' = reads
      /\ UNCHANGED <<again, resent, placed>>
  BY DEF Write, rvars, pvars
<1>2. /\ reads = [r \in Readers |-> reads[r]]
      /\ DOMAIN reads["read"] = {} /\ DOMAIN reads["reread"] = {}
  BY <1>1 DEF RInv
<1>3. \A r \in Readers : ReadsOK(r)'
  BY <1>1, <1>2 DEF ReadsOK, Readers
<1>4. Reput'
  BY <1>1, ReputKept DEF RInv
<1> QED
  BY <1>1, <1>2, <1>3, <1>4 DEF RInv, RoleNames, Readers

(* A role that is not a reader's is over, or stays while its own data      *)
(* changes.                                                                *)
LEMMA OtherStep ==
  ASSUME RInv, role \notin Readers, UNCHANGED <<disk, reads, again, resent, placed>>,
         disk.blocks \subseteq Blocks,
         role' \in {role, "over"}, role' = role => role # "write"
  PROVE  RInv'
<1>1. /\ reads' = [r \in Readers |-> reads'[r]]
      /\ \A r \in Readers : ReadsOK(r)'
      /\ stuck' = stuck
  BY FilesKept
<1>2. role' \notin Readers /\ role' \in RoleNames /\ role' # "write"
  BY DEF RInv, RoleNames, Readers
<1>3. disk'.blocks \subseteq Blocks
  OBVIOUS
<1>4. role' \in {"write", "read", "reput"} => DOMAIN reads'["reread"] = {}
  BY DEF RInv
<1>5. Reput'
  BY <1>1, ReputKept DEF RInv
<1> QED
  BY <1>1, <1>2, <1>3, <1>4, <1>5 DEF RInv

(* No role has read anything yet.                                          *)
LEMMA ReaderInit == Init => RInv
<1> SUFFICES ASSUME Init PROVE RInv
  OBVIOUS
<1>1. /\ reads = [r \in Readers |-> <<>>] /\ DOMAIN <<>> = {}
      /\ still = {} /\ asking = NoName /\ clock = 0 /\ found = <<>>
      /\ again = <<>> /\ resent = {}
  BY DEF Init
<1>2. /\ reads = [r \in Readers |-> reads[r]]
      /\ \A r \in Readers : DOMAIN reads[r] = {}
      /\ \A r \in Readers : ReadsOK(r)
  BY <1>1 DEF ReadsOK
<1>5. Reput
  BY <1>1 DEF Init, Reput
<1>3. CASE role = "write"
  BY <1>2, <1>3, <1>5 DEF RInv, RoleNames, Readers
<1>4. CASE role = "read"
  <2>1. PICK bs \in Left \ {{}} : disk = [blocks |-> bs, acks |-> {}] /\ todo = Asked(disk.blocks)
    BY <1>4 DEF Init
  <2>2. disk.blocks \subseteq Blocks
    BY <2>1 DEF Left, UpTo
  <2>3. 0 \in Times
    BY ParityAssumption DEF Times, Latest
  <2>4. Base("read") = disk.blocks
    BY DEF Base
  <2>5. Reading("read")
    BY <1>1, <1>2, <2>1, <2>3, <2>4 DEF Reading, Cold, Readers
  <2> QED
    BY <1>2, <1>4, <1>5, <2>2, <2>5 DEF RInv, RoleNames, Readers
<1> QED
  BY <1>3, <1>4 DEF Init

(* Every step keeps the read files and the cold keys a partition.          *)
LEMMA ReaderStep == WriterInv /\ RInv /\ [Next]_vars => RInv'
<1> SUFFICES ASSUME WriterInv, RInv, [Next]_vars PROVE RInv'
  OBVIOUS
<1>1. CASE UNCHANGED vars
  BY <1>1 DEF vars, wvars, rvars, pvars, RInv, Reput, ReadsOK, Reading, Base, Cold, stuck, Readers
<1>2. CASE Write
  BY <1>2, WriterAtWork
<1>3. CASE WriteOver
  <2>1. disk.blocks \subseteq Blocks
    BY <1>3, SentFacts DEF WriteOver, WriterInv, WInv, InFiles
  <2> QED
    BY <1>3, <2>1, OtherStep DEF WriteOver, wvars, rvars, pvars, Readers
<1>4. CASE Read
  BY <1>4, AskStep, ProbeEndsStep, RoundStep, AnswerStep DEF Read
<1>5. CASE ReputOver
  BY <1>5, ReputStep
<1>6. CASE ScoreOver \/ \E b \in Blocks : ReputAck(b)
  <2>1. /\ role \notin Readers /\ UNCHANGED <<disk, reads, again, resent, placed>>
        /\ role # "write" /\ role' \in {role, "over"}
    BY <1>6 DEF ScoreOver, ReputAck, wvars, rvars, pvars, Readers
  <2>2. disk.blocks \subseteq Blocks
    BY <2>1 DEF RInv
  <2> QED
    BY <2>1, <2>2, OtherStep
<1>7. CASE ReaderKilled
  BY <1>7, KilledStep
<1>9. CASE ReputSend \/ ReputDies
  BY <1>9, ReputSendStep, ReputDiesStep
<1>8. CASE RTick \/ \E b \in Blocks : Place(b)
  BY <1>8, OutsideStep
<1> QED
  BY <1>1, <1>2, <1>3, <1>4, <1>5, <1>6, <1>7, <1>8, <1>9 DEF Next, Roles

(* Every key that a reader was to read stays in exactly its read file, the *)
(* lines of its round or its cold keys.                                    *)
THEOREM ReadersCorrect == Spec => []RInv
BY WriterCorrect, ReaderInit, ReaderStep, PTL DEF Spec

(* A READ line is of a block the far node had, and a read file with a MISS *)
(* line accounts for exactly the keys that were to be read.                *)
THEOREM HonestReadsHolds == Spec => []HonestReads
<1>1. RInv => HonestReads
  BY DEF RInv, ReadsOK, HonestReads, Base
<1> QED
  BY <1>1, ReadersCorrect, PTL

(* What is re-put is what was asked for and missed.                        *)
THEOREM RecoveryIsOwnHolds == Spec => []RecoveryIsOwn
<1>1. RInv => RecoveryIsOwn
  <2> SUFFICES ASSUME RInv, role = "score" PROVE RecoveryIsOwn
    BY DEF RecoveryIsOwn
  <2>1. /\ ReadsOK("read") /\ ReadsOK("reread") /\ disk.blocks \subseteq Blocks
        /\ resent \subseteq stuck
        /\ DOMAIN again = {} \/ (DOMAIN again = stuck /\ resent = stuck)
    BY DEF RInv, Reput, Readers
  <2>2. ASSUME NEW b \in disk.blocks, hasRead(b)
        PROVE  timeOf(b) = Never <=> reads["read"][b] = Miss
    <3>1. reads["read"][b] = Miss \/ reads["read"][b] \in Times
      BY <2>1, <2>2 DEF ReadsOK, hasRead
    <3>2. reads["read"][b] \in Times => reads["read"][b] # Never
      BY ParityAssumption DEF Times, Never, Latest
    <3> QED
      BY <2>2, <3>1, <3>2 DEF timeOf
  <2>3. stuckAsked = stuck
    BY <2>2, Zenon DEF stuckAsked, stuck, asked, hasRead
  <2>4. \A b \in stuck : Plan[b[1]].arm = Full \/ ~IsParity(b)
    <3> SUFFICES ASSUME NEW b \in stuck PROVE Plan[b[1]].arm = Full \/ ~IsParity(b)
      OBVIOUS
    <3>1. b \in Asked(disk.blocks)
      BY <2>1 DEF stuck, ReadsOK, Base
    <3> QED
      BY <3>1 DEF Asked
  <2>5. back # {} => DOMAIN again # {}
    <3> SUFFICES ASSUME NEW b \in back PROVE DOMAIN again # {}
      OBVIOUS
    <3>1. b \in DOMAIN reads["reread"]
      BY DEF back
    <3>2. b \in Asked(DOMAIN again)
      BY <2>1, <3>1 DEF ReadsOK, Base
    <3> QED
      BY <3>2 DEF Asked
  <2> QED
    BY <2>1, <2>3, <2>4, <2>5 DEF RecoveryIsOwn
<1> QED
  BY <1>1, ReadersCorrect, PTL

-----------------------------------------------------------------------------
(* The score.  Counting the blocks that were there by some time and        *)
(* looking for the time at which enough of them were are the same question.*)

(* Enough blocks by a time, if and only if the m-th came by it.            *)
LEMMA CountedByTime ==
  ASSUME NEW bs, IsFiniteSet(bs), NEW m \in Nat \ {0}, Cardinality(bs) >= m,
         \A b \in bs : timeOf(b) \in 0 .. Never,
         NEW t \in Nat
  PROVE  Cardinality({b \in bs : timeOf(b) <= t}) >= m <=> mth(bs, m) <= t
<1> DEFINE By(u) == {b \in bs : timeOf(b) <= u}
           ts == {timeOf(b) : b \in bs}
           enough == {u \in ts : Cardinality(By(u)) >= m}
<1>1. Never \in Nat
  BY ParityAssumption DEF Never, Latest
<1>2. ASSUME NEW u \in Nat
      PROVE  IsFiniteSet(By(u)) /\ Cardinality(By(u)) \in Nat
  <2>1. By(u) \in SUBSET bs
    OBVIOUS
  <2> HIDE DEF By
  <2> QED
    BY <2>1, FS_Subset, FS_CardinalityType
<1>3. ASSUME NEW u \in Nat, Cardinality(By(u)) >= m
      PROVE  \E w \in enough : w <= u
  <2> DEFINE I == {timeOf(b) : b \in By(u)}
  <2>1. By(u) # {}
    <3>1. Cardinality({}) = 0
      BY FS_EmptySet
    <3> HIDE DEF By
    <3> QED
      BY <1>3, <3>1
  <2>2. I \in SUBSET (0 .. Never) /\ I # {}
    BY <2>1
  <2> HIDE DEF I
  <2>3. PICK w \in I : \A y \in I : y <= w
    BY <1>1, <2>2, NatMax
  <2>4. w \in ts /\ w <= u /\ w \in Nat
    BY <1>1, <2>2, <2>3 DEF I
  <2>5. By(w) = By(u)
    <3>1. ASSUME NEW b \in bs PROVE timeOf(b) <= w <=> timeOf(b) <= u
      <4>1. timeOf(b) \in Nat
        BY <1>1
      <4>2. timeOf(b) <= u => timeOf(b) \in I
        BY DEF I
      <4> QED
        BY <2>3, <2>4, <4>1, <4>2
    <3> QED
      BY <3>1, Zenon
  <2> QED
    BY <1>3, <2>4, <2>5
<1>4. enough # {}
  <2>1. By(Never) = bs
    <3>1. \A b \in bs : timeOf(b) <= Never
      BY <1>1
    <3> QED
      BY <3>1, Zenon
  <2> QED
    BY <1>1, <1>3, <2>1
<1>5. enough \in SUBSET Nat
  BY <1>1
<1>6. mth(bs, m) = Min(enough)
  BY <1>4, Zenon DEF mth
<1>7. Min(enough) \in enough /\ \A y \in enough : Min(enough) <= y
  <2> HIDE DEF enough
  <2> QED
    BY <1>4, <1>5, NatMin
<1> DEFINE e == Min(enough)
<1>8. e \in Nat /\ Cardinality(By(e)) >= m
  BY <1>5, <1>7
<1> HIDE DEF e
<1>9. ASSUME e <= t PROVE Cardinality(By(t)) >= m
  <2>1. By(e) \in SUBSET By(t)
    <3>1. \A b \in bs : timeOf(b) \in Nat
      BY <1>1
    <3> QED
      BY <1>8, <1>9, <3>1
  <2> HIDE DEF By
  <2>2. IsFiniteSet(By(t)) /\ Cardinality(By(t)) \in Nat /\ Cardinality(By(e)) \in Nat
    BY <1>2, <1>8
  <2>3. Cardinality(By(e)) <= Cardinality(By(t))
    BY <2>1, <2>2, FS_Subset
  <2> QED
    BY <1>8, <2>2, <2>3
<1>10. ASSUME Cardinality(By(t)) >= m PROVE e <= t
  <2>1. PICK w \in enough : w <= t
    BY <1>3, <1>10
  <2>2. e <= w /\ w \in Nat
    BY <1>5, <1>7, <2>1 DEF e
  <2> HIDE DEF enough
  <2> QED
    BY <1>8, <2>1, <2>2
<1> HIDE DEF enough
<1>11. mth(bs, m) = e
  BY <1>6 DEF e
<1>12. Cardinality(By(t)) >= m <=> e <= t
  BY <1>9, <1>10
<1> QED
  BY <1>11, <1>12

(* The first n blocks of a group are n.                                    *)
LEMMA RowOfBlocks ==
  ASSUME NEW g, NEW n \in Nat
  PROVE  IsFiniteSet({g} \X (1 .. n)) /\ Cardinality({g} \X (1 .. n)) = n
<1>1. IsFiniteSet({g}) /\ Cardinality({g}) = 1
  BY FS_Singleton
<1>2. IsFiniteSet(1 .. n) /\ Cardinality(1 .. n) = n
  <2>1. 1 \in Int /\ n \in Int
    OBVIOUS
  <2>2. IsFiniteSet(1 .. n) /\ Cardinality(1 .. n) = IF 1 > n THEN 0 ELSE n - 1 + 1
    BY <2>1, FS_Interval
  <2> QED
    BY <2>2
<1>3. /\ IsFiniteSet({g} \X (1 .. n))
      /\ Cardinality({g} \X (1 .. n)) = Cardinality({g}) * Cardinality(1 .. n)
  BY <1>1, <1>2, FS_Product
<1> QED
  BY <1>1, <1>2, <1>3

(* A group that was written whole, as the score sees it.                   *)
LEMMA WholeGroup ==
  ASSUME RInv, role = "score", NEW g \in scored, Of(g) = Members(g)
  PROVE  /\ Plan[g].m \in Nat \ {0}
         /\ IsFiniteSet(Of(g)) /\ Cardinality(Of(g)) = Plan[g].m + Parity
         /\ \A b \in Of(g) : b[1] = g /\ b[2] \in 1 .. Plan[g].m + Parity
         /\ {b \in Of(g) : ~IsParity(b)} = {g} \X (1 .. Plan[g].m)
         /\ \A b \in Of(g) : timeOf(b) \in 0 .. Never
<1>1. /\ disk.blocks \subseteq Blocks /\ ReadsOK("read")
  BY DEF RInv, Readers
<1>2. g \in Gs
  <2>1. PICK b \in disk.blocks : b[1] = g
    BY DEF scored
  <2> QED
    BY <1>1, <2>1, BlockFacts
<1>3. Plan[g].m \in Nat \ {0} /\ Width(g) = Plan[g].m + Parity /\ Parity \in Nat
  BY <1>2, GroupFacts, ParityWriteAssumption
<1>4. Of(g) = {g} \X (1 .. Plan[g].m + Parity)
  BY <1>3, Zenon DEF Members
<1>5. Plan[g].m + Parity \in Nat
  BY <1>3
<1>6. IsFiniteSet(Of(g)) /\ Cardinality(Of(g)) = Plan[g].m + Parity
  <2> DEFINE n == Plan[g].m + Parity
  <2>1. n \in Nat /\ Of(g) = {g} \X (1 .. n)
    BY <1>4, <1>5
  <2> HIDE DEF n
  <2> DEFINE R == {g} \X (1 .. n)
  <2>2. IsFiniteSet(R) /\ Cardinality(R) = n
    BY <2>1, RowOfBlocks
  <2>3. Of(g) = R
    BY <2>1
  <2> HIDE DEF R
  <2>4. IsFiniteSet(Of(g)) /\ Cardinality(Of(g)) = n
    BY <2>2, <2>3
  <2> QED
    BY <2>4 DEF n
<1>7. \A b \in Of(g) : b[1] = g /\ b[2] \in 1 .. Plan[g].m + Parity
  BY <1>4
<1>8. {b \in Of(g) : ~IsParity(b)} = {g} \X (1 .. Plan[g].m)
  <2>1. \A b \in Of(g) : IsParity(b) <=> b[2] > Plan[g].m
    BY <1>7 DEF IsParity
  <2>2. ASSUME NEW b
        PROVE  (b \in Of(g) /\ ~IsParity(b)) <=> b \in {g} \X (1 .. Plan[g].m)
    <3>1. b \in Of(g) /\ ~IsParity(b) => b \in {g} \X (1 .. Plan[g].m)
      BY <1>3, <1>4, <2>1
    <3>2. b \in {g} \X (1 .. Plan[g].m) => b \in Of(g) /\ ~IsParity(b)
      BY <1>3, <1>4, <2>1
    <3> QED
      BY <3>1, <3>2
  <2> QED
    BY <2>2, Zenon
<1>9. ASSUME NEW b \in Of(g) PROVE timeOf(b) \in 0 .. Never
  <2>1. PerKey \in Nat /\ ProbeTime \in Nat
    BY ParityAssumption
  <2>2. hasRead(b) /\ reads["read"][b] # Miss => reads["read"][b] \in Times
    BY <1>1 DEF ReadsOK, hasRead
  <2> QED
    BY <2>1, <2>2 DEF timeOf, Never, Times, Latest
<1> QED
  BY <1>3, <1>6, <1>7, <1>8, <1>9

(* The tables of the score agree on every group that was written whole.    *)
THEOREM SectionsAgreeHolds == Spec => []SectionsAgree
<1>1. RInv => SectionsAgree
  <2> SUFFICES ASSUME RInv, role = "score", NEW g \in scored, Of(g) = Members(g)
               PROVE  /\ readable(g, Parity, PerKey) => misses(g) <= Parity
                      /\ misses(g) <= Parity =>
                           \/ readable(g, Parity, PerKey)
                           \/ \E b \in Of(g) : PerKey < timeOf(b) /\ timeOf(b) < Never
                      /\ \A t \in Thresholds, p \in 0 .. Parity :
                           readable(g, p, t) => readable(g, Parity, t)
                      /\ \A t \in Thresholds :
                           /\ readable(g, Parity, t) <=> with(g) <= t
                           /\ readable(g, 0, t) <=> without(g) <= t
    BY Zenon DEF SectionsAgree
  <2> DEFINE m == Plan[g].m
             S == Of(g)
             D == {b \in S : ~IsParity(b)}
             By(bs, t) == {b \in bs : timeOf(b) <= t}
             Part(p, t) == {b \in S : b[2] <= m + p /\ fetched(b, t)}
  <2>1. /\ m \in Nat \ {0} /\ Parity \in Nat /\ PerKey \in Nat /\ ProbeTime \in Nat
        /\ Thresholds \subseteq Nat
        /\ IsFiniteSet(S) /\ Cardinality(S) = m + Parity
        /\ \A b \in S : b[1] = g /\ b[2] \in 1 .. m + Parity
        /\ D = {g} \X (1 .. m)
        /\ \A b \in S : timeOf(b) \in 0 .. Never
    BY WholeGroup, ParityAssumption, ParityWriteAssumption
  <2>2. \A p, t : readable(g, p, t) <=> Cardinality(Part(p, t)) >= m
    BY DEF readable
  <2>3. ASSUME NEW t PROVE Part(Parity, t) = By(S, t)
    BY <2>1 DEF fetched
  <2>4. ASSUME NEW t PROVE Part(0, t) = By(D, t)
    <3>1. \A b \in S : b[2] <= m + 0 <=> ~IsParity(b)
      BY <2>1 DEF IsParity
    <3> QED
      BY <3>1, Zenon DEF fetched
  <2>5. \A p, t : Part(p, t) \in SUBSET S /\ By(S, t) \in SUBSET S /\ D \in SUBSET S
    OBVIOUS
  <2> HIDE DEF m, S, D, Part
  <2>6. IsFiniteSet(D) /\ Cardinality(D) = m
    <3>1. m \in Nat /\ D = {g} \X (1 .. m)
      BY <2>1
    <3> QED
      BY <3>1, RowOfBlocks, Zenon
  <2> DEFINE Tardy == \E b \in S : PerKey < timeOf(b) /\ timeOf(b) < Never
  <2>7. /\ readable(g, Parity, PerKey) => misses(g) <= Parity
        /\ misses(g) <= Parity => readable(g, Parity, PerKey) \/ Tardy
    <3> DEFINE F == By(S, PerKey)
               U == {b \in S : timeOf(b) = Never}
               R == S \ F
    <3>1. ASSUME NEW b \in S PROVE ~ (timeOf(b) <= PerKey /\ timeOf(b) = Never)
      BY <2>1 DEF Never, Latest
    <3>2. U \in SUBSET R /\ F \in SUBSET S /\ S \cap F = F
      BY <3>1, Zenon
    <3>3. misses(g) = Cardinality(U)
      BY DEF misses, S
    <3>4. ~Tardy => U = R
      <4> SUFFICES ASSUME ~Tardy, NEW b \in S
                   PROVE  timeOf(b) <= PerKey \/ timeOf(b) = Never
        BY <3>1, Zenon
      <4>1. timeOf(b) \in 0 .. Never /\ PerKey \in Nat /\ Never \in Nat
        BY <2>1 DEF Never, Latest
      <4>2. ~ (PerKey < timeOf(b) /\ timeOf(b) < Never)
        BY Zenon
      <4> QED
        BY <4>1, <4>2
    <3>5. readable(g, Parity, PerKey) <=> Cardinality(F) >= m
      BY <2>2, <2>3
    <3>6. IsFiniteSet(R)
      BY <2>1, FS_Difference
    <3>7. Cardinality(S \ F) = Cardinality(S) - Cardinality(S \cap F)
      BY <2>1, FS_Difference
    <3> HIDE DEF F, U, Tardy
    <3>8. Cardinality(R) = Cardinality(S) - Cardinality(F)
      BY <3>2, <3>7, Zenon
    <3>9. Cardinality(F) \in Nat
      BY <2>1, <3>2, FS_Subset, FS_CardinalityType
    <3> HIDE DEF R
    <3>10. Cardinality(U) <= Cardinality(R) /\ Cardinality(U) \in Nat
      BY <3>2, <3>6, FS_Subset, FS_CardinalityType
    <3>11. Cardinality(R) <= Parity <=> Cardinality(F) >= m
      BY <2>1, <3>8, <3>9
    <3>12. Cardinality(F) >= m => Cardinality(U) <= Parity
      BY <2>1, <3>6, <3>10, <3>11, FS_CardinalityType
    <3> QED
      BY <3>3, <3>4, <3>5, <3>11, <3>12
  <2>8. ASSUME NEW t \in Thresholds, NEW p \in 0 .. Parity, readable(g, p, t)
        PROVE  readable(g, Parity, t)
    <3>1. Part(p, t) \in SUBSET By(S, t)
      BY DEF Part, fetched
    <3> DEFINE B == By(S, t)
    <3>2. B \in SUBSET S
      OBVIOUS
    <3>3. Part(p, t) \in SUBSET B
      BY <3>1
    <3> HIDE DEF B
    <3>4. IsFiniteSet(B) /\ Cardinality(B) \in Nat
      BY <2>1, <3>2, FS_Subset, FS_CardinalityType
    <3>5. Cardinality(Part(p, t)) <= Cardinality(B) /\ Cardinality(Part(p, t)) \in Nat
      BY <3>3, <3>4, FS_Subset, FS_CardinalityType
    <3>6. Cardinality(Part(p, t)) >= m
      BY <2>2, <2>8
    <3>7. Cardinality(B) >= m
      BY <2>1, <3>4, <3>5, <3>6
    <3> QED
      BY <2>2, <2>3, <3>7 DEF B
  <2>9. ASSUME NEW t \in Thresholds
        PROVE  /\ readable(g, Parity, t) <=> with(g) <= t
               /\ readable(g, 0, t) <=> without(g) <= t
    <3>1. t \in Nat
      BY <2>1
    <3>2. Cardinality(S) >= m /\ Cardinality(D) >= m
      BY <2>1, <2>6
    <3>3. \A b \in D : timeOf(b) \in 0 .. Never
      BY <2>1, <2>5
    <3>4. with(g) = mth(S, m) /\ without(g) = mth(D, m)
      BY DEF with, without, S, D, m
    <3>5. Cardinality(By(S, t)) >= m <=> mth(S, m) <= t
      BY <2>1, <3>1, <3>2, CountedByTime
    <3>6. Cardinality(By(D, t)) >= m <=> mth(D, m) <= t
      BY <2>1, <2>6, <3>1, <3>2, <3>3, CountedByTime
    <3> HIDE DEF By
    <3>7. /\ readable(g, Parity, t) <=> Cardinality(By(S, t)) >= m
          /\ readable(g, 0, t) <=> Cardinality(By(D, t)) >= m
      BY <2>2, <2>3, <2>4
    <3> QED
      BY <3>4, <3>5, <3>6, <3>7
  <2> QED
    BY <2>7, <2>8, <2>9 DEF S
<1> QED
  BY <1>1, ReadersCorrect, PTL
=============================================================================
