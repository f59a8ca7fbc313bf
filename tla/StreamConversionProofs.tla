------------------------ MODULE StreamConversionProofs ------------------------
(***************************************************************************)
(* Proofs about StreamConversion, for all texts, all sizes of the pieces   *)
(* and any number of blocks: what the middleware cuts into events adds up  *)
(* to the answer again.  The recursive functions that cut are unfolded by  *)
(* induction on the place in the text, and what a client collects is a     *)
(* homomorphism from runs of events to sequences.                          *)
(***************************************************************************)
EXTENDS StreamConversion, SequenceLemmas

-----------------------------------------------------------------------------
\* Walking a text from left to right.

\* A set that has a number up to L + 1 whenever it has those above it has them all.
LEMMA CountingDown ==
  ASSUME NEW L \in Nat, NEW P,
         \A i \in 1 .. L + 1 : (\A j \in i + 1 .. L + 1 : j \in P) => i \in P
  PROVE  \A i \in 1 .. L + 1 : i \in P
<1> DEFINE Q == {n \in Nat : \A i \in 1 .. L + 1 : L + 1 - n <= i => i \in P}
<1>1. 0 \in Q
  <2>1. L + 1 \in P
    OBVIOUS
  <2>2. QED BY <2>1
<1>2. ASSUME NEW n \in Nat, n \in Q PROVE n + 1 \in Q
  <2>1. ASSUME NEW i \in 1 .. L + 1, L + 1 - (n + 1) <= i PROVE i \in P
    <3>1. \A j \in i + 1 .. L + 1 : j \in 1 .. L + 1 /\ L + 1 - n <= j
      BY <2>1
    <3>2. \A j \in i + 1 .. L + 1 : j \in P
      BY <1>2, <3>1
    <3>3. QED BY <3>2
  <2>2. QED BY <2>1
<1> HIDE DEF Q
<1>3. \A n \in Nat : n \in Q
  BY <1>1, <1>2, CountingUp
<1>4. L \in Q
  BY <1>3
<1>5. QED BY <1>4 DEF Q

\* Of some numbers up to L one is the least and one the greatest.
LEMMA Extremes ==
  ASSUME NEW L \in Nat, NEW T \in SUBSET (1 .. L), T # {}
  PROVE  /\ \E a \in T : \A b \in T : a <= b
         /\ \E a \in T : \A b \in T : b <= a
<1>1. \E a \in T : \A b \in T : b <= a
  <2> SUFFICES ASSUME \A a \in T : \E b \in T : ~(b <= a) PROVE FALSE
    OBVIOUS
  <2> DEFINE P == (1 .. L + 1) \ T
  <2>1. ASSUME NEW i \in 1 .. L + 1, \A j \in i + 1 .. L + 1 : j \in P PROVE i \in P
    <3>1. \A b \in T : b <= i
      BY <2>1
    <3>2. QED BY <3>1
  <2> HIDE DEF P
  <2>2. \A i \in 1 .. L + 1 : i \in P
    BY <2>1, CountingDown
  <2>3. PICK a \in T : TRUE
    OBVIOUS
  <2>4. a \in 1 .. L + 1
    OBVIOUS
  <2>5. QED BY <2>2, <2>3, <2>4 DEF P
<1>2. \E a \in T : \A b \in T : a <= b
  <2> SUFFICES ASSUME \A a \in T : \E b \in T : ~(a <= b) PROVE FALSE
    OBVIOUS
  <2> DEFINE P == {n \in Nat : \A b \in T : n < b}
  <2>1. 0 \in P
    OBVIOUS
  <2>2. ASSUME NEW n \in Nat, n \in P PROVE n + 1 \in P
    <3>1. \A b \in T : n + 1 <= b
      BY <2>2
    <3>2. n + 1 \notin T
      BY <3>1
    <3>3. QED BY <3>1, <3>2
  <2> HIDE DEF P
  <2>3. \A n \in Nat : n \in P
    BY <2>1, <2>2, CountingUp
  <2>4. L \in P
    BY <2>3
  <2>5. PICK a \in T : TRUE
    OBVIOUS
  <2>6. L < a /\ a \in 1 .. L
    BY <2>4 DEF P
  <2>7. QED BY <2>6
<1>3. QED BY <1>1, <1>2

\* f collects what H says of the places it visits, where N is the place after one.
Walk(L, H, N, f) ==
  f = [i \in 1 .. L + 1 |-> IF i > L THEN <<>> ELSE H[i] \o f[N[i]]]

\* The same at one place.
WalkAt(L, H, N, f, i) == f[i] = IF i > L THEN <<>> ELSE H[i] \o f[N[i]]

\* One more place to the left.
LEMMA WalkOn ==
  ASSUME NEW L \in Nat, NEW S, NEW H \in [1 .. L -> Seq(S)], NEW N \in [1 .. L -> 1 .. L + 1],
         \A i \in 1 .. L : i < N[i],
         NEW k \in 1 .. L, NEW f \in [1 .. L + 1 -> Seq(S)],
         \A i \in k + 1 .. L + 1 : WalkAt(L, H, N, f, i)
  PROVE  \E g \in [1 .. L + 1 -> Seq(S)] : \A i \in k .. L + 1 : WalkAt(L, H, N, g, i)
<1> DEFINE new == H[k] \o f[N[k]]
           g == [i \in 1 .. L + 1 |-> IF i = k THEN new ELSE f[i]]
<1>1. new \in Seq(S)
  <2>1. H[k] \in Seq(S) /\ f[N[k]] \in Seq(S)
    OBVIOUS
  <2>2. QED BY <2>1, ConcatProperties
<1>2. g \in [1 .. L + 1 -> Seq(S)]
  BY <1>1
<1>3. g[k] = new /\ \A i \in 1 .. L + 1 : i # k => g[i] = f[i]
  <2>1. k \in 1 .. L + 1
    OBVIOUS
  <2> HIDE DEF new
  <2>2. g[k] = new
    BY ONLY <2>1
  <2>3. \A i \in 1 .. L + 1 : i # k => g[i] = f[i]
    BY ONLY TRUE
  <2>4. QED BY <2>2, <2>3
<1> HIDE DEF g
<1>4. \A i \in k .. L : N[i] \in 1 .. L + 1 /\ N[i] # k
  OBVIOUS
<1>5. WalkAt(L, H, N, g, k)
  <2>1. N[k] \in 1 .. L + 1 /\ N[k] # k
    BY <1>4
  <2>2. g[N[k]] = f[N[k]]
    BY <1>3, <2>1
  <2>3. ~(k > L) /\ g[k] = H[k] \o g[N[k]]
    BY <1>3, <2>2
  <2>4. QED BY ONLY <2>3 DEF WalkAt
<1>6. ASSUME NEW i \in k + 1 .. L + 1 PROVE WalkAt(L, H, N, g, i)
  <2>1. i \in 1 .. L + 1 /\ i # k
    OBVIOUS
  <2>2. g[i] = f[i]
    BY <1>3, <2>1
  <2>3. ~(i > L) => N[i] \in 1 .. L + 1 /\ N[i] # k
    BY <1>4
  <2>4. ~(i > L) => g[N[i]] = f[N[i]]
    BY <1>3, <2>3
  <2>5. WalkAt(L, H, N, f, i)
    OBVIOUS
  <2>6. QED BY <2>2, <2>4, <2>5 DEF WalkAt
<1>7. \A i \in k .. L + 1 : i = k \/ i \in k + 1 .. L + 1
  OBVIOUS
<1>8. QED BY <1>2, <1>5, <1>6, <1>7

\* A walk whose next place is always further to the right is defined for every text.
LEMMA WalkExists ==
  ASSUME NEW L \in Nat, NEW S, NEW H \in [1 .. L -> Seq(S)], NEW N \in [1 .. L -> 1 .. L + 1],
         \A i \in 1 .. L : i < N[i]
  PROVE  \E f : Walk(L, H, N, f) /\ \A i \in 1 .. L + 1 : f[i] \in Seq(S)
<1> DEFINE P == {k \in 1 .. L + 1 :
                   \E f \in [1 .. L + 1 -> Seq(S)] : \A i \in k .. L + 1 : WalkAt(L, H, N, f, i)}
<1>1. L + 1 \in P
  <2> DEFINE f == [i \in 1 .. L + 1 |-> <<>>]
  <2>1. f \in [1 .. L + 1 -> Seq(S)]
    OBVIOUS
  <2>2. \A i \in L + 1 .. L + 1 : i > L /\ f[i] = <<>>
    OBVIOUS
  <2> HIDE DEF f
  <2>3. \A i \in L + 1 .. L + 1 : WalkAt(L, H, N, f, i)
    BY <2>2 DEF WalkAt
  <2>4. QED BY <2>1, <2>3
<1>2. ASSUME NEW k \in 1 .. L, k + 1 \in P PROVE k \in P
  <2>1. PICK f \in [1 .. L + 1 -> Seq(S)] : \A i \in k + 1 .. L + 1 : WalkAt(L, H, N, f, i)
    BY <1>2
  <2>2. \E g \in [1 .. L + 1 -> Seq(S)] : \A i \in k .. L + 1 : WalkAt(L, H, N, g, i)
    BY <2>1, WalkOn
  <2>3. k \in 1 .. L + 1
    OBVIOUS
  <2>4. QED BY ONLY <2>2, <2>3
<1> HIDE DEF P
<1>3. \A i \in 1 .. L + 1 : i \in P
  <2>1. ASSUME NEW i \in 1 .. L + 1, \A j \in i + 1 .. L + 1 : j \in P PROVE i \in P
    <3>1. CASE i = L + 1
      BY <1>1, <3>1
    <3>2. CASE i <= L
      <4>1. i \in 1 .. L /\ i + 1 \in i + 1 .. L + 1
        BY <3>2
      <4>2. QED BY <1>2, <2>1, <4>1
    <3>3. QED BY <3>1, <3>2
  <2>2. QED BY <2>1, CountingDown
<1>4. PICK f \in [1 .. L + 1 -> Seq(S)] : \A i \in 1 .. L + 1 : WalkAt(L, H, N, f, i)
  <2>1. 1 \in P
    BY <1>3
  <2>2. QED BY <2>1 DEF P
<1>5. f = [i \in 1 .. L + 1 |-> f[i]]
  OBVIOUS
<1>6. Walk(L, H, N, f)
  BY <1>4, <1>5 DEF Walk, WalkAt
<1>7. \A i \in 1 .. L + 1 : f[i] \in Seq(S)
  OBVIOUS
<1>8. QED BY <1>6, <1>7

-----------------------------------------------------------------------------
\* What the pieces of a text add up to.

\* A piece of content has at least one character and ends inside the text.
LEMMA PieceEnds ==
  ASSUME NEW S, NEW t \in Seq(S), NEW i \in 1 .. Len(t)
  PROVE  PieceEnd(t, i) \in i .. Len(t)
<1> DEFINE end == IF i + ContentSize - 1 < Len(t) THEN i + ContentSize - 1 ELSE Len(t)
           spaces == {j \in i + 1 .. end : t[j] = Space}
<1>1. Len(t) \in Nat /\ ContentSize \in Nat \ {0}
  BY SizesAssumption
<1>2. end \in i .. Len(t)
  BY <1>1
<1>3. PieceEnd(t, i) = IF end < Len(t) /\ spaces # {}
                       THEN CHOOSE j \in spaces : \A k \in spaces : k <= j
                       ELSE end
  BY DEF PieceEnd
<1>4. spaces \in SUBSET (1 .. Len(t)) /\ \A j \in spaces : j \in i .. Len(t)
  <2> HIDE DEF end
  <2>1. \A j \in spaces : j \in i + 1 .. end
    OBVIOUS
  <2> HIDE DEF spaces
  <2>2. \A j \in spaces : j \in i .. Len(t) /\ j \in 1 .. Len(t)
    BY <1>1, <1>2, <2>1
  <2>3. QED BY <2>2
<1> HIDE DEF end, spaces
<1>5. spaces # {} => (CHOOSE j \in spaces : \A k \in spaces : k <= j) \in spaces
  <2>1. spaces # {} => \E j \in spaces : \A k \in spaces : k <= j
    BY <1>1, <1>4, Extremes
  <2>2. QED BY <2>1
<1>6. QED BY <1>2, <1>3, <1>4, <1>5

\* The recursive function of Content.
ContentFrom(t, f) ==
  f = [i \in 1 .. Len(t) + 1 |->
         IF i > Len(t) THEN <<>> ELSE <<SubSeq(t, i, PieceEnd(t, i))>> \o f[PieceEnd(t, i) + 1]]

\* The recursive function of Content is defined for every text.
LEMMA ContentWalks ==
  ASSUME NEW S, NEW t \in Seq(S)
  PROVE  \E f : ContentFrom(t, f)
<1> DEFINE L == Len(t)
           H == [i \in 1 .. L |-> <<SubSeq(t, i, PieceEnd(t, i))>>]
           N == [i \in 1 .. L |-> PieceEnd(t, i) + 1]
<1>1. L \in Nat
  OBVIOUS
<1>2. ASSUME NEW i \in 1 .. L
      PROVE  PieceEnd(t, i) \in i .. L /\ <<SubSeq(t, i, PieceEnd(t, i))>> \in Seq(Seq(S))
  <2>1. PieceEnd(t, i) \in i .. L
    BY PieceEnds
  <2>2. SubSeq(t, i, PieceEnd(t, i)) \in Seq(S)
    BY <2>1, SubSeqProperties
  <2>3. QED BY <2>1, <2>2
<1>3. H \in [1 .. L -> Seq(Seq(S))] /\ N \in [1 .. L -> 1 .. L + 1] /\ \A i \in 1 .. L : i < N[i]
  BY <1>1, <1>2
<1>4. PICK f : Walk(L, H, N, f)
  <2> HIDE DEF L, H, N
  <2>1. QED BY <1>1, <1>3, WalkExists
<1>5. \A i \in 1 .. L + 1 : ~(i > L) => H[i] = <<SubSeq(t, i, PieceEnd(t, i))>> /\ N[i] = PieceEnd(t, i) + 1
  BY <1>1
<1>6. ContentFrom(t, f)
  <2> HIDE DEF H, N
  <2>1. f = [i \in 1 .. L + 1 |-> IF i > L THEN <<>> ELSE H[i] \o f[N[i]]]
    BY <1>4 DEF Walk
  <2>2. QED BY <1>5, <2>1 DEF ContentFrom
<1>7. QED BY <1>6

\* Its values, place by place.
LEMMA ContentAt ==
  ASSUME NEW t, NEW f, ContentFrom(t, f), Len(t) \in Nat
  PROVE  /\ f[Len(t) + 1] = <<>>
         /\ \A i \in 1 .. Len(t) :
              f[i] = <<SubSeq(t, i, PieceEnd(t, i))>> \o f[PieceEnd(t, i) + 1]
<1>1. ASSUME NEW i \in 1 .. Len(t) + 1
      PROVE  f[i] = IF i > Len(t) THEN <<>>
                    ELSE <<SubSeq(t, i, PieceEnd(t, i))>> \o f[PieceEnd(t, i) + 1]
  BY DEF ContentFrom
<1>2. PICK n : n = Len(t) + 1
  OBVIOUS
<1>3. n \in 1 .. Len(t) + 1 /\ n > Len(t)
  BY <1>2
<1>4. f[n] = <<>>
  BY <1>1, <1>3
<1>5. ASSUME NEW i \in 1 .. Len(t) PROVE i \in 1 .. Len(t) + 1 /\ ~(i > Len(t))
  OBVIOUS
<1>6. QED BY <1>1, <1>2, <1>4, <1>5

\* The pieces of content add up to the text they are cut from.
LEMMA ContentAddsUp ==
  ASSUME NEW S, NEW t \in Seq(S)
  PROVE  Content(t) \in Seq(Seq(S)) /\ FlattenSeq(Content(t)) = t
<1> DEFINE f == CHOOSE g : ContentFrom(t, g)
           L == Len(t)
           P == {i \in 1 .. L + 1 : f[i] \in Seq(Seq(S)) /\ FlattenSeq(f[i]) = SubSeq(t, i, L)}
<1>1. Content(t) = f[1]
  BY DEF Content, ContentFrom
<1>2. ContentFrom(t, f)
  BY ContentWalks
<1> HIDE DEF f
<1>3. L \in Nat
  OBVIOUS
<1>4. /\ f[L + 1] = <<>>
      /\ \A i \in 1 .. L : f[i] = <<SubSeq(t, i, PieceEnd(t, i))>> \o f[PieceEnd(t, i) + 1]
  BY <1>2, <1>3, ContentAt
<1>5. ASSUME NEW i \in 1 .. L + 1, \A j \in i + 1 .. L + 1 : j \in P PROVE i \in P
  <2>1. CASE i = L + 1
    <3>1. f[i] = <<>>
      BY ONLY <1>4, <2>1
    <3>2. SubSeq(t, i, L) = <<>>
      BY <1>3, <2>1, SubSeqEmpty
    <3>3. <<>> \in Seq(Seq(S))
      OBVIOUS
    <3>4. QED BY <3>1, <3>2, <3>3, FlattenNone
  <2>2. CASE i <= L
    <3>1. PICK k \in i .. L : k = PieceEnd(t, i)
      BY <2>2, PieceEnds
    <3>2. f[i] = <<SubSeq(t, i, k)>> \o f[k + 1]
      <4>1. i \in 1 .. L
        BY <2>2
      <4>2. f[i] = <<SubSeq(t, i, PieceEnd(t, i))>> \o f[PieceEnd(t, i) + 1]
        BY ONLY <1>4, <4>1
      <4>3. QED BY ONLY <3>1, <4>2
    <3>3. f[k + 1] \in Seq(Seq(S)) /\ FlattenSeq(f[k + 1]) = SubSeq(t, k + 1, L)
      <4>1. k + 1 \in i + 1 .. L + 1
        OBVIOUS
      <4>2. k + 1 \in P
        BY <1>5, <4>1
      <4>3. QED BY <4>2
    <3>4. SubSeq(t, i, k) \in Seq(S)
      BY <2>2, SubSeqProperties
    <3>5. /\ <<SubSeq(t, i, k)>> \o f[k + 1] \in Seq(Seq(S))
          /\ FlattenSeq(<<SubSeq(t, i, k)>> \o f[k + 1]) = SubSeq(t, i, k) \o FlattenSeq(f[k + 1])
      BY <3>3, <3>4, FlattenCons
    <3>6. FlattenSeq(f[i]) = SubSeq(t, i, k) \o SubSeq(t, k + 1, L) /\ f[i] \in Seq(Seq(S))
      BY <3>2, <3>3, <3>5
    <3>7. SubSeq(t, i, k) \o SubSeq(t, k + 1, L) = SubSeq(t, i, L)
      <4>1. i \in 1 .. Len(t) + 1 /\ k \in i - 1 .. Len(t) /\ L \in k .. Len(t)
        BY <2>2
      <4>2. QED BY <4>1, ConcatAdjacentSubSeq
    <3>8. QED BY <3>6, <3>7
  <2>3. QED BY <1>3, <2>1, <2>2
<1> HIDE DEF P
<1>6. \A i \in 1 .. L + 1 : i \in P
  BY <1>3, <1>5, CountingDown
<1>7. 1 \in P
  BY <1>3, <1>6
<1>8. QED BY <1>1, <1>7, SubSeqFull DEF P

\* The words of a text are texts.
LEMMA WordEnds ==
  ASSUME NEW S, NEW t \in Seq(S), NEW i \in 1 .. Len(t)
  PROVE  WordEnd(t, i) \in i .. Len(t)
<1> DEFINE spaces == {j \in i + 1 .. Len(t) : t[j] = Space}
<1>1. Len(t) \in Nat
  OBVIOUS
<1>2. WordEnd(t, i) = IF spaces = {} THEN Len(t)
                      ELSE (CHOOSE j \in spaces : \A k \in spaces : j <= k) - 1
  BY DEF WordEnd
<1>3. \A j \in spaces : j \in i + 1 .. Len(t) /\ j \in 1 .. Len(t)
  <2>1. \A j \in spaces : j \in i + 1 .. Len(t)
    OBVIOUS
  <2> HIDE DEF spaces
  <2>2. QED BY <1>1, <2>1
<1> HIDE DEF spaces
<1>4. spaces # {} => (CHOOSE j \in spaces : \A k \in spaces : j <= k) \in spaces
  <2>1. spaces \in SUBSET (1 .. Len(t))
    BY <1>3
  <2>2. spaces # {} => \E j \in spaces : \A k \in spaces : j <= k
    BY <1>1, <2>1, Extremes
  <2>3. QED BY <2>2
<1>5. \A j \in i + 1 .. Len(t) : j - 1 \in i .. Len(t)
  BY <1>1
<1>6. Len(t) \in i .. Len(t)
  BY <1>1
<1>7. QED BY ONLY <1>2, <1>3, <1>4, <1>5, <1>6

\* The recursive function of Words.
WordsFrom(t, f) ==
  f = [i \in 1 .. Len(t) + 1 |->
         IF i > Len(t) THEN <<>>
         ELSE IF t[i] = Space THEN f[i + 1]
         ELSE <<SubSeq(t, i, WordEnd(t, i))>> \o f[WordEnd(t, i) + 1]]

\* The recursive function of Words is defined for every text.
LEMMA WordsWalk ==
  ASSUME NEW S, NEW t \in Seq(S)
  PROVE  \E f : WordsFrom(t, f)
<1> DEFINE L == Len(t)
           Blank(i) == t[i] = Space
           Word(i) == <<SubSeq(t, i, WordEnd(t, i))>>
           H == [i \in 1 .. L |-> IF Blank(i) THEN <<>> ELSE Word(i)]
           N == [i \in 1 .. L |-> IF Blank(i) THEN i + 1 ELSE WordEnd(t, i) + 1]
<1>1. L \in Nat
  OBVIOUS
<1>2. ASSUME NEW i \in 1 .. L
      PROVE  WordEnd(t, i) \in i .. L /\ Word(i) \in Seq(Seq(S))
  <2>1. WordEnd(t, i) \in i .. L
    BY WordEnds
  <2>2. SubSeq(t, i, WordEnd(t, i)) \in Seq(S)
    BY <2>1, SubSeqProperties
  <2>3. QED BY <2>1, <2>2
<1>3. H \in [1 .. L -> Seq(Seq(S))] /\ N \in [1 .. L -> 1 .. L + 1] /\ \A i \in 1 .. L : i < N[i]
  <2>1. \A i \in 1 .. L : H[i] \in Seq(Seq(S)) /\ N[i] \in i + 1 .. L + 1
    <3> HIDE DEF Blank, Word
    <3>1. \A i \in 1 .. L : WordEnd(t, i) + 1 \in i + 1 .. L + 1 /\ i + 1 \in i + 1 .. L + 1
      BY <1>1, <1>2
    <3>2. <<>> \in Seq(Seq(S))
      OBVIOUS
    <3>3. QED BY <1>2, <3>1, <3>2
  <2>2. H \in [1 .. L -> Seq(Seq(S))]
    <3>1. H = [i \in 1 .. L |-> H[i]]
      OBVIOUS
    <3> HIDE DEF H
    <3>2. QED BY <2>1, <3>1
  <2>3. N \in [1 .. L -> 1 .. L + 1]
    <3>1. N = [i \in 1 .. L |-> N[i]]
      OBVIOUS
    <3>2. \A i \in 1 .. L : N[i] \in 1 .. L + 1
      <4> HIDE DEF N, H
      <4>1. QED BY <1>1, <2>1
    <3> HIDE DEF N
    <3>3. QED BY <3>1, <3>2
  <2> HIDE DEF N, H
  <2>4. QED BY <1>1, <2>1, <2>2, <2>3
<1>4. PICK f : Walk(L, H, N, f) /\ \A i \in 1 .. L + 1 : f[i] \in Seq(Seq(S))
  <2> HIDE DEF L, H, N
  <2>1. QED BY <1>1, <1>3, WalkExists
<1>5. ASSUME NEW i \in 1 .. L + 1, ~(i > L)
      PROVE  H[i] \o f[N[i]] = IF Blank(i) THEN f[i + 1] ELSE Word(i) \o f[WordEnd(t, i) + 1]
  <2>1. i \in 1 .. L /\ i + 1 \in 1 .. L + 1
    BY <1>1, <1>5
  <2>2. H[i] = (IF Blank(i) THEN <<>> ELSE Word(i)) /\ N[i] = IF Blank(i) THEN i + 1 ELSE WordEnd(t, i) + 1
    BY <2>1
  <2>3. f[i + 1] \in Seq(Seq(S))
    BY <1>4, <2>1
  <2>4. <<>> \o f[i + 1] = f[i + 1]
    BY <2>3
  <2> HIDE DEF H, N, Blank, Word
  <2>5. QED BY <2>2, <2>4
<1>6. WordsFrom(t, f)
  <2> HIDE DEF H, N
  <2>1. f = [i \in 1 .. L + 1 |-> IF i > L THEN <<>> ELSE H[i] \o f[N[i]]]
    BY <1>4 DEF Walk
  <2>2. QED BY <1>5, <2>1 DEF WordsFrom
<1>7. QED BY <1>6

\* Its values, place by place.
LEMMA WordsAt ==
  ASSUME NEW t, NEW f, WordsFrom(t, f), Len(t) \in Nat
  PROVE  /\ f[Len(t) + 1] = <<>>
         /\ \A i \in 1 .. Len(t) :
              \/ f[i] = f[i + 1]
              \/ f[i] = <<SubSeq(t, i, WordEnd(t, i))>> \o f[WordEnd(t, i) + 1]
<1> DEFINE Blank(i) == t[i] = Space
<1>1. ASSUME NEW i \in 1 .. Len(t) + 1
      PROVE  f[i] = IF i > Len(t) THEN <<>>
                    ELSE IF Blank(i) THEN f[i + 1]
                    ELSE <<SubSeq(t, i, WordEnd(t, i))>> \o f[WordEnd(t, i) + 1]
  BY DEF WordsFrom
<1> HIDE DEF Blank
<1>2. PICK n : n = Len(t) + 1
  OBVIOUS
<1>3. n \in 1 .. Len(t) + 1 /\ n > Len(t)
  BY <1>2
<1>4. f[n] = <<>>
  BY <1>1, <1>3
<1>5. ASSUME NEW i \in 1 .. Len(t) PROVE i \in 1 .. Len(t) + 1 /\ ~(i > Len(t))
  OBVIOUS
<1>6. QED BY <1>1, <1>2, <1>4, <1>5

\* The words of a text are sequences of its characters.
LEMMA WordsType ==
  ASSUME NEW S, NEW t \in Seq(S)
  PROVE  Words(t) \in Seq(Seq(S))
<1> DEFINE f == CHOOSE g : WordsFrom(t, g)
           L == Len(t)
           P == {i \in 1 .. L + 1 : f[i] \in Seq(Seq(S))}
<1>1. Words(t) = f[1]
  BY DEF Words, WordsFrom
<1>2. WordsFrom(t, f)
  BY WordsWalk
<1> HIDE DEF f
<1>3. L \in Nat
  OBVIOUS
<1>4. /\ f[L + 1] = <<>>
      /\ \A i \in 1 .. L :
           \/ f[i] = f[i + 1]
           \/ f[i] = <<SubSeq(t, i, WordEnd(t, i))>> \o f[WordEnd(t, i) + 1]
  BY <1>2, <1>3, WordsAt
<1>5. ASSUME NEW i \in 1 .. L + 1, \A j \in i + 1 .. L + 1 : j \in P PROVE i \in P
  <2>1. CASE i = L + 1
    <3>1. f[i] = <<>>
      BY ONLY <1>4, <2>1
    <3>2. <<>> \in Seq(Seq(S))
      OBVIOUS
    <3>3. QED BY <3>1, <3>2
  <2>2. CASE i <= L
    <3>1. PICK k \in i .. L : k = WordEnd(t, i)
      BY <2>2, WordEnds
    <3>2. f[i] = f[i + 1] \/ f[i] = <<SubSeq(t, i, k)>> \o f[k + 1]
      <4>1. i \in 1 .. L
        BY <2>2
      <4>2. \/ f[i] = f[i + 1]
            \/ f[i] = <<SubSeq(t, i, WordEnd(t, i))>> \o f[WordEnd(t, i) + 1]
        BY ONLY <1>4, <4>1
      <4>3. QED BY ONLY <3>1, <4>2
    <3>3. f[k + 1] \in Seq(Seq(S)) /\ f[i + 1] \in Seq(Seq(S))
      <4>1. k + 1 \in i + 1 .. L + 1 /\ i + 1 \in i + 1 .. L + 1
        BY <2>2
      <4>2. k + 1 \in P /\ i + 1 \in P
        BY <1>5, <4>1
      <4>3. QED BY <4>2
    <3>4. SubSeq(t, i, k) \in Seq(S)
      BY <2>2, SubSeqProperties
    <3>5. <<SubSeq(t, i, k)>> \o f[k + 1] \in Seq(Seq(S))
      BY <3>3, <3>4, FlattenCons
    <3>6. f[i] \in Seq(Seq(S))
      BY <3>2, <3>3, <3>5
    <3>7. QED BY <3>6
  <2>3. QED BY <1>3, <2>1, <2>2
<1> HIDE DEF P
<1>6. \A i \in 1 .. L + 1 : i \in P
  BY <1>3, <1>5, CountingDown
<1>7. 1 \in P
  BY <1>3, <1>6
<1>8. QED BY <1>1, <1>7 DEF P

-----------------------------------------------------------------------------
\* The first k elements of a sequence.
LEMMA Firsts ==
  ASSUME NEW S, NEW s \in Seq(S), NEW k \in 0 .. Len(s)
  PROVE  /\ SubSeq(s, 1, k) \in Seq(S) /\ Len(SubSeq(s, 1, k)) = k
         /\ \A i \in 1 .. k : SubSeq(s, 1, k)[i] = s[i]
OBVIOUS

\* Pieces that lead from each sum to the next add up to the last one.
LEMMA Telescopes ==
  ASSUME NEW S, NEW ss \in Seq(Seq(S)), NEW p, p[0] = <<>>,
         \A i \in 1 .. Len(ss) : p[i - 1] \o ss[i] = p[i]
  PROVE  FlattenSeq(ss) = p[Len(ss)]
<1> DEFINE L == Len(ss)
           P == {n \in Nat : n <= L => FlattenSeq(SubSeq(ss, 1, n)) = p[n]}
<1>1. L \in Nat
  OBVIOUS
<1>2. 0 \in P
  <2>1. SubSeq(ss, 1, 0) = <<>>
    BY SubSeqEmpty
  <2>2. QED BY <2>1, FlattenNone
<1>3. ASSUME NEW n \in Nat, n \in P PROVE n + 1 \in P
  <2>1. ASSUME n + 1 <= L PROVE FlattenSeq(SubSeq(ss, 1, n + 1)) = p[n + 1]
    <3>1. PICK m \in 1 .. L : m = n + 1 /\ m - 1 = n
      BY <1>1, <2>1
    <3> DEFINE First(k) == SubSeq(ss, 1, k)
    <3>2. ASSUME NEW k \in 0 .. L
          PROVE  /\ First(k) \in Seq(Seq(S)) /\ Len(First(k)) = k
                 /\ \A i \in 1 .. k : First(k)[i] = ss[i]
      BY <1>1, Firsts
    <3> HIDE DEF First
    <3>3. PICK tt \in Seq(Seq(S)), uu \in Seq(Seq(S)) : tt = First(n) /\ uu = First(m)
      BY <1>1, <3>1, <3>2
    <3>4. /\ Len(uu) = Len(tt) + 1 /\ uu[Len(uu)] = ss[m]
          /\ \A i \in 1 .. Len(tt) : uu[i] = tt[i]
      <4>1. n \in 0 .. L /\ m \in 0 .. L /\ m \in 1 .. m /\ \A i \in 1 .. n : i \in 1 .. m
        BY <1>1, <2>1, <3>1
      <4>2. Len(tt) = n /\ \A i \in 1 .. n : tt[i] = ss[i]
        BY <3>2, <3>3, <4>1
      <4>3. Len(uu) = m /\ \A i \in 1 .. m : uu[i] = ss[i]
        BY <3>2, <3>3, <4>1
      <4>4. QED BY ONLY <3>1, <4>1, <4>2, <4>3
    <3>5. FlattenSeq(uu) = FlattenSeq(tt) \o uu[Len(uu)]
      BY <3>4, FlattenOneMore
    <3>6. FlattenSeq(tt) = p[m - 1]
      BY <1>3, <2>1, <3>1, <3>3 DEF First
    <3>7. p[m - 1] \o ss[m] = p[m]
      OBVIOUS
    <3>8. QED BY <3>1, <3>3, <3>4, <3>5, <3>6, <3>7 DEF First
  <2>2. n + 1 \in Nat
    OBVIOUS
  <2>3. QED BY <2>1, <2>2
<1> HIDE DEF P
<1>4. \A n \in Nat : n \in P
  BY <1>2, <1>3, CountingUp
<1>5. FlattenSeq(SubSeq(ss, 1, L)) = p[L]
  BY <1>1, <1>4 DEF P
<1>6. QED BY <1>5, SubSeqFull

\* Where pieces of one size end: the last may be shorter.
Cuts(L, d, c) ==
  LET count == (L + d - 1) \div d IN
  /\ count \in Nat
  /\ c \in [0 .. count -> 0 .. L]
  /\ c[0] = 0 /\ c[count] = L
  /\ \A i \in 1 .. count :
       /\ c[i - 1] = (i - 1) * d
       /\ c[i - 1] \in 0 .. L
       /\ c[i] \in c[i - 1] + 1 .. L
       /\ c[i] = IF i * d < L THEN i * d ELSE L
       /\ c[i] = L <=> i = count

\* Cuts at every d-th place are there for every length.
LEMMA CutsExist ==
  ASSUME NEW L \in Nat, NEW d \in Nat \ {0}
  PROVE  \E c : Cuts(L, d, c)
<1>1. PICK n \in Nat : n = L + d - 1
  OBVIOUS
<1>2. PICK count \in Nat : count = n \div d /\ count * d <= n /\ n < count * d + d
  OBVIOUS
<1> DEFINE c == [i \in 0 .. count |-> IF i * d < L THEN i * d ELSE L]
<1>3. c[0] = 0 /\ c[count] = L
  <2>1. 0 * d = 0 /\ ~(count * d < L)
    BY <1>1, <1>2
  <2>2. 0 \in 0 .. count /\ count \in 0 .. count
    OBVIOUS
  <2>3. QED BY <2>1, <2>2
<1>4. ASSUME NEW i \in 1 .. count
      PROVE  /\ c[i - 1] = (i - 1) * d
             /\ c[i - 1] \in 0 .. L
             /\ c[i] \in c[i - 1] + 1 .. L
             /\ c[i] = IF i * d < L THEN i * d ELSE L
             /\ c[i] = L <=> i = count
  <2>1. i * d <= count * d /\ i * d \in Nat
    OBVIOUS
  <2>2. (i - 1) * d = i * d - d /\ (i - 1) * d \in Nat
    OBVIOUS
  <2>3. (i - 1) * d < L
    BY <1>1, <1>2, <2>1, <2>2
  <2>4. i # count => i * d < L
    <3>1. i # count => (i + 1) * d <= count * d /\ (i + 1) * d = i * d + d
      OBVIOUS
    <3>2. QED BY <1>1, <1>2, <2>1, <3>1
  <2>5. i = count => ~(i * d < L)
    BY <1>1, <1>2
  <2>6. c[i - 1] = (i - 1) * d /\ c[i] = IF i * d < L THEN i * d ELSE L
    BY <2>3
  <2> HIDE DEF c
  <2>7. QED BY <2>1, <2>2, <2>3, <2>4, <2>5, <2>6
<1>5. c \in [0 .. count -> 0 .. L]
  <2>1. \A i \in 0 .. count : (IF i * d < L THEN i * d ELSE L) \in 0 .. L
    <3>1. \A i \in 0 .. count : i * d \in Nat
      OBVIOUS
    <3>2. QED BY <3>1
  <2>2. QED BY <2>1
<1> HIDE DEF c
<1>6. QED BY <1>1, <1>2, <1>3, <1>4, <1>5 DEF Cuts

\* The slices of a tool's arguments add up to the arguments.
LEMMA SlicesAddUp ==
  ASSUME NEW S, NEW t \in Seq(S)
  PROVE  Slices(t) \in Seq(Seq(S)) /\ FlattenSeq(Slices(t)) = t
<1> DEFINE L == Len(t)
           d == ArgumentSize
           count == (L + d - 1) \div d
<1>1. L \in Nat /\ d \in Nat \ {0}
  BY SizesAssumption
<1>2. PICK c : Cuts(L, d, c)
  BY <1>1, CutsExist
<1>3. /\ count \in Nat
      /\ c[0] = 0 /\ c[count] = L
      /\ \A i \in 1 .. count :
           /\ c[i - 1] = (i - 1) * d
           /\ c[i - 1] \in 0 .. L
           /\ c[i] \in c[i - 1] + 1 .. L
           /\ c[i] = IF i * d < L THEN i * d ELSE L
  BY <1>2 DEF Cuts
<1>4. Slices(t) = [i \in 1 .. count |->
                     SubSeq(t, (i - 1) * d + 1, IF i * d < L THEN i * d ELSE L)]
  BY DEF Slices
<1> HIDE DEF L, count, d
<1>5. ASSUME NEW i \in 1 .. count
      PROVE  \E a \in 0 .. L, b \in 0 .. L :
               a = c[i - 1] /\ b = c[i] /\ a + 1 <= b /\ a + 1 \in 1 .. L /\ b \in 1 .. L
  <2>1. c[i - 1] \in 0 .. L /\ c[i] \in c[i - 1] + 1 .. L
    BY <1>3
  <2>2. /\ c[i - 1] \in 0 .. L /\ c[i] \in 0 .. L /\ c[i - 1] + 1 <= c[i]
        /\ c[i - 1] + 1 \in 1 .. L /\ c[i] \in 1 .. L
    BY ONLY <1>1, <2>1
  <2>3. QED BY ONLY <2>2
<1>6. Slices(t) = [i \in 1 .. count |-> SubSeq(t, c[i - 1] + 1, c[i])]
  <2>1. \A i \in 1 .. count : c[i - 1] = (i - 1) * d /\ c[i] = IF i * d < L THEN i * d ELSE L
    BY <1>3
  <2>2. QED BY ONLY <1>4, <2>1
<1>7. \A i \in 1 .. count : SubSeq(t, c[i - 1] + 1, c[i]) \in Seq(S)
  <2>1. ASSUME NEW i \in 1 .. count PROVE SubSeq(t, c[i - 1] + 1, c[i]) \in Seq(S)
    <3>1. PICK a \in 0 .. L, b \in 0 .. L :
            a = c[i - 1] /\ b = c[i] /\ a + 1 \in 1 .. L /\ b \in 1 .. L
      BY <1>5
    <3>2. SubSeq(t, a + 1, b) \in Seq(S)
      BY <3>1 DEF L
    <3>3. QED BY <3>1, <3>2
  <2>2. QED BY <2>1
<1>8. PICK ss \in Seq(Seq(S)) :
        ss = Slices(t) /\ Len(ss) = count /\ \A i \in 1 .. count : ss[i] = SubSeq(t, c[i - 1] + 1, c[i])
  <2> DEFINE piece(i) == SubSeq(t, c[i - 1] + 1, c[i])
  <2> HIDE DEF piece
  <2>1. count \in Nat /\ Slices(t) = [i \in 1 .. count |-> piece(i)]
    BY <1>3, <1>6 DEF piece
  <2>2. \A i \in 1 .. count : piece(i) \in Seq(S)
    BY <1>7 DEF piece
  <2>3. Slices(t) \in Seq(Seq(S)) /\ Len(Slices(t)) = count /\ \A i \in 1 .. count : Slices(t)[i] = piece(i)
    BY ONLY <2>1, <2>2
  <2>4. QED BY <2>3 DEF piece
<1> DEFINE p == [i \in 0 .. count |-> SubSeq(t, 1, c[i])]
<1>9. p[0] = <<>>
  <2>1. 0 \in 0 .. count /\ c[0] = 0
    BY <1>3
  <2>2. p[0] = SubSeq(t, 1, 0)
    BY <2>1
  <2> HIDE DEF p
  <2>3. QED BY <2>2, SubSeqEmpty
<1>10. ASSUME NEW i \in 1 .. count PROVE p[i - 1] \o ss[i] = p[i]
  <2>1. p[i - 1] = SubSeq(t, 1, c[i - 1]) /\ p[i] = SubSeq(t, 1, c[i])
    <3>1. i \in 0 .. count /\ i - 1 \in 0 .. count
      BY <1>3
    <3>2. QED BY <3>1
  <2>2. PICK a \in 0 .. L, b \in 0 .. L : a = c[i - 1] /\ b = c[i] /\ a + 1 <= b
    BY <1>5
  <2>3. SubSeq(t, 1, a) \o SubSeq(t, a + 1, b) = SubSeq(t, 1, b)
    <3>1. 1 \in 1 .. Len(t) + 1 /\ a \in 1 - 1 .. Len(t) /\ b \in a .. Len(t)
      BY <1>1, <2>2 DEF L
    <3>2. QED BY <3>1, ConcatAdjacentSubSeq
  <2> HIDE DEF p
  <2>4. QED BY <1>8, <2>1, <2>2, <2>3
<1>11. p[count] = t
  <2>1. p[count] = SubSeq(t, 1, L)
    <3>1. count \in 0 .. count /\ c[count] = L
      BY <1>3
    <3>2. QED BY <3>1
  <2>2. QED BY <2>1, SubSeqFull DEF L
<1> HIDE DEF p
<1>12. FlattenSeq(ss) = p[Len(ss)]
  BY <1>8, <1>9, <1>10, Telescopes
<1>13. QED BY <1>8, <1>11, <1>12

-----------------------------------------------------------------------------
\* What is between two words.
Gap == <<Space>>

\* A gap is a text.
LEMMA GapType == ASSUME NEW S, Space \in S PROVE Gap \in Seq(S)
BY DEF Gap

\* The words with the spaces that Joined sets between them.
Spaced(ws) == [i \in DOMAIN ws |-> IF i < Len(ws) THEN ws[i] \o Gap ELSE ws[i]]

\* Spaced words are texts, and Joined adds them up.
LEMMA SpacedType ==
  ASSUME NEW S, Space \in S, NEW ws \in Seq(Seq(S))
  PROVE  /\ Spaced(ws) \in Seq(Seq(S)) /\ Len(Spaced(ws)) = Len(ws)
         /\ \A i \in 1 .. Len(ws) :
              Spaced(ws)[i] = IF i < Len(ws) THEN ws[i] \o Gap ELSE ws[i]
         /\ Joined(ws) = FlattenSeq(Spaced(ws))
<1> DEFINE part(i) == IF i < Len(ws) THEN ws[i] \o Gap ELSE ws[i]
<1>1. \A i \in 1 .. Len(ws) : part(i) \in Seq(S)
  <2>1. ASSUME NEW i \in 1 .. Len(ws) PROVE part(i) \in Seq(S)
    <3>1. ws[i] \in Seq(S) /\ Gap \in Seq(S)
      BY GapType
    <3>2. ws[i] \o Gap \in Seq(S)
      BY <3>1, ConcatProperties
    <3>3. QED BY <3>1, <3>2
  <2>2. QED BY <2>1
<1>2. Len(ws) \in Nat /\ DOMAIN ws = 1 .. Len(ws)
  OBVIOUS
<1>3. Spaced(ws) = [i \in 1 .. Len(ws) |-> part(i)]
  BY <1>2 DEF Spaced
<1>4. Joined(ws) = FlattenSeq(Spaced(ws))
  BY DEF Joined, Spaced, Gap
<1> HIDE DEF part
<1>5. Spaced(ws) \in Seq(Seq(S)) /\ Len(Spaced(ws)) = Len(ws)
      /\ \A i \in 1 .. Len(ws) : Spaced(ws)[i] = part(i)
  BY ONLY <1>1, <1>2, <1>3
<1>6. QED BY <1>4, <1>5 DEF part

\* Joined words are a text.
LEMMA JoinedType ==
  ASSUME NEW S, Space \in S, NEW ws \in Seq(Seq(S))
  PROVE  Joined(ws) \in Seq(S)
BY SpacedType, FlattenType

\* The elements of a sequence from a to b.
LEMMA Middles ==
  ASSUME NEW S, NEW s \in Seq(S), NEW a \in 1 .. Len(s), NEW b \in 1 .. Len(s),
         NEW n \in Nat \ {0}, a + n = b + 1
  PROVE  /\ SubSeq(s, a, b) \in Seq(S) /\ Len(SubSeq(s, a, b)) = n
         /\ \A i \in 1 .. n : SubSeq(s, a, b)[i] = s[a + i - 1]
OBVIOUS

\* Concatenation is associative, as a fact about three sequences.
Associates(x, y, z) == (x \o y) \o z = x \o (y \o z)

\* Concatenation is associative.
LEMMA SeqAssociative ==
  \A S : \A x, y, z \in Seq(S) : Associates(x, y, z)
BY ConcatAssociative DEF Associates

\* Some of the words, joined, and a space if there are more.
LEMMA SomeJoined ==
  ASSUME NEW S, Space \in S, NEW ws \in Seq(Seq(S)),
         NEW a \in 1 .. Len(ws), NEW b \in 1 .. Len(ws), a <= b
  PROVE  Joined(SubSeq(ws, a, b)) \o (IF b < Len(ws) THEN Gap ELSE <<>>)
           = FlattenSeq(SubSeq(Spaced(ws), a, b))
<1>1. PICK sp \in Seq(Seq(S)) :
        /\ sp = Spaced(ws) /\ Len(sp) = Len(ws)
        /\ \A i \in 1 .. Len(ws) : sp[i] = IF i < Len(ws) THEN ws[i] \o Gap ELSE ws[i]
  BY SpacedType
<1>2. PICK n \in Nat \ {0} : n = b - a + 1 /\ a + n = b + 1
  OBVIOUS
<1>3. PICK some \in Seq(Seq(S)) :
        some = SubSeq(ws, a, b) /\ Len(some) = n /\ \A i \in 1 .. n : some[i] = ws[a + i - 1]
  <2>1. /\ SubSeq(ws, a, b) \in Seq(Seq(S)) /\ Len(SubSeq(ws, a, b)) = n
        /\ \A i \in 1 .. n : SubSeq(ws, a, b)[i] = ws[a + i - 1]
    BY <1>2, Middles
  <2>2. QED BY ONLY <2>1
<1>4. PICK vv \in Seq(Seq(S)) :
        vv = SubSeq(sp, a, b) /\ Len(vv) = n /\ \A i \in 1 .. n : vv[i] = sp[a + i - 1]
  <2>1. a \in 1 .. Len(sp) /\ b \in 1 .. Len(sp)
    BY <1>1
  <2>2. /\ SubSeq(sp, a, b) \in Seq(Seq(S)) /\ Len(SubSeq(sp, a, b)) = n
        /\ \A i \in 1 .. n : SubSeq(sp, a, b)[i] = sp[a + i - 1]
    BY <1>2, <2>1, Middles
  <2>3. QED BY ONLY <2>2
<1>5. PICK uu \in Seq(Seq(S)) :
        /\ uu = Spaced(some) /\ Len(uu) = n /\ Joined(some) = FlattenSeq(uu)
        /\ \A i \in 1 .. n : uu[i] = IF i < n THEN some[i] \o Gap ELSE some[i]
  <2>1. /\ Spaced(some) \in Seq(Seq(S)) /\ Len(Spaced(some)) = Len(some)
        /\ \A i \in 1 .. Len(some) :
             Spaced(some)[i] = IF i < Len(some) THEN some[i] \o Gap ELSE some[i]
        /\ Joined(some) = FlattenSeq(Spaced(some))
    BY SpacedType
  <2>2. Len(some) = n
    BY <1>3
  <2>3. QED BY ONLY <2>1, <2>2
<1>6. PICK ff \in Seq(Seq(S)) :
        Len(ff) + 1 = n /\ \A i \in 1 .. Len(ff) : ff[i] = vv[i]
  <2>1. n - 1 \in 0 .. Len(vv)
    BY <1>2, <1>4
  <2>2. PICK m \in 0 .. Len(vv) : m + 1 = n
    BY <1>2, <2>1
  <2>3. /\ SubSeq(vv, 1, m) \in Seq(Seq(S)) /\ Len(SubSeq(vv, 1, m)) = m
        /\ \A i \in 1 .. m : SubSeq(vv, 1, m)[i] = vv[i]
    BY Firsts
  <2>4. QED BY <2>2, <2>3
<1>7. FlattenSeq(vv) = FlattenSeq(ff) \o vv[n]
  <2>1. Len(vv) = n /\ Len(vv) = Len(ff) + 1 /\ \A i \in 1 .. Len(ff) : vv[i] = ff[i]
    BY <1>4, <1>6
  <2>2. FlattenSeq(vv) = FlattenSeq(ff) \o vv[Len(vv)]
    BY <2>1, FlattenOneMore
  <2>3. QED BY <2>1, <2>2
<1>8. \A i \in 1 .. Len(ff) : ff[i] = uu[i]
  <2>1. ASSUME NEW i \in 1 .. Len(ff) PROVE vv[i] = uu[i]
    <3>1. i \in 1 .. n /\ i < n
      BY <1>2, <1>6
    <3>2. a + i - 1 \in 1 .. Len(ws) /\ a + i - 1 < Len(ws)
      BY <1>2, <3>1
    <3>3. vv[i] = ws[a + i - 1] \o Gap
      BY <1>1, <1>4, <3>1, <3>2
    <3>4. uu[i] = ws[a + i - 1] \o Gap
      BY <1>3, <1>5, <3>1
    <3>5. QED BY <3>3, <3>4
  <2>2. QED BY <1>6, <2>1
<1>9. FlattenSeq(uu) = FlattenSeq(ff) \o uu[n]
  <2>1. Len(uu) = n /\ Len(uu) = Len(ff) + 1 /\ \A i \in 1 .. Len(ff) : uu[i] = ff[i]
    BY <1>5, <1>6, <1>8
  <2>2. FlattenSeq(uu) = FlattenSeq(ff) \o uu[Len(uu)]
    BY <2>1, FlattenOneMore
  <2>3. QED BY <2>1, <2>2
<1>10. a + n - 1 = b /\ n \in 1 .. n /\ ~(n < n)
  BY <1>2
<1>11. uu[n] = ws[b] /\ vv[n] = IF b < Len(ws) THEN ws[b] \o Gap ELSE ws[b]
  <2>1. uu[n] = ws[b]
    BY <1>3, <1>5, <1>10
  <2>2. vv[n] = sp[b]
    BY <1>4, <1>10
  <2>3. QED BY <1>1, <2>1, <2>2
<1>12. /\ FlattenSeq(ff) \in Seq(S) /\ ws[b] \in Seq(S) /\ Gap \in Seq(S)
       /\ FlattenSeq(ff) \o ws[b] \in Seq(S)
  <2>1. FlattenSeq(ff) \in Seq(S)
    BY FlattenType
  <2>2. ws[b] \in Seq(S)
    OBVIOUS
  <2>3. QED BY <2>1, <2>2, GapType, ConcatProperties
<1>13. (FlattenSeq(ff) \o ws[b]) \o Gap = FlattenSeq(ff) \o (ws[b] \o Gap)
  <2>1. Associates(FlattenSeq(ff), ws[b], Gap)
    BY <1>12, SeqAssociative
  <2>2. QED BY <2>1 DEF Associates
<1>14. (FlattenSeq(ff) \o ws[b]) \o <<>> = FlattenSeq(ff) \o ws[b]
  BY <1>12, ConcatEmptySeq
<1>15. Joined(some) = FlattenSeq(ff) \o ws[b]
  BY <1>5, <1>9, <1>11
<1>16. QED BY ONLY <1>1, <1>3, <1>4, <1>7, <1>11, <1>13, <1>14, <1>15

\* The pieces of a text block add up to its words with one space between them.
LEMMA ChunksAddUp ==
  ASSUME NEW S, Space \in S, NEW t \in Seq(S)
  PROVE  TextChunks(t) \in Seq(Seq(S)) /\ FlattenSeq(TextChunks(t)) = Joined(Words(t))
<1>1. PICK ws \in Seq(Seq(S)) : ws = Words(t)
  BY WordsType
<1>2. PICK sp \in Seq(Seq(S)) :
        sp = Spaced(ws) /\ Len(sp) = Len(ws) /\ Joined(ws) = FlattenSeq(sp)
  BY SpacedType
<1> DEFINE L == Len(ws)
           d == ChunkWords
           count == (L + d - 1) \div d
<1>3. L \in Nat /\ d \in Nat \ {0}
  BY SizesAssumption
<1>4. PICK c : Cuts(L, d, c)
  BY <1>3, CutsExist
<1>5. /\ count \in Nat
      /\ c[0] = 0 /\ c[count] = L
      /\ \A i \in 1 .. count :
           /\ c[i - 1] = (i - 1) * d
           /\ c[i - 1] \in 0 .. L
           /\ c[i] \in c[i - 1] + 1 .. L
           /\ c[i] = IF i * d < L THEN i * d ELSE L
           /\ c[i] = L <=> i = count
  BY <1>4 DEF Cuts
<1>6. TextChunks(t) = [i \in 1 .. count |->
        Joined(SubSeq(ws, (i - 1) * d + 1, IF i * d < L THEN i * d ELSE L))
          \o (IF i < count THEN Gap ELSE <<>>)]
  BY <1>1 DEF TextChunks, Gap
<1> HIDE DEF L, count, d
<1>7. ASSUME NEW i \in 1 .. count
      PROVE  \E a \in 0 .. L, b \in 0 .. L :
               /\ a = c[i - 1] /\ b = c[i] /\ a + 1 <= b /\ a + 1 \in 1 .. L /\ b \in 1 .. L
               /\ i < count <=> b < L
  <2>1. c[i - 1] \in 0 .. L /\ c[i] \in c[i - 1] + 1 .. L /\ (c[i] = L <=> i = count)
    BY <1>5
  <2>2. count \in Nat
    BY <1>5
  <2>3. /\ c[i - 1] \in 0 .. L /\ c[i] \in 0 .. L /\ c[i - 1] + 1 <= c[i]
        /\ c[i - 1] + 1 \in 1 .. L /\ c[i] \in 1 .. L
        /\ i < count <=> c[i] < L
    BY ONLY <1>3, <2>1, <2>2
  <2>4. QED BY ONLY <2>3
<1> DEFINE piece(i) == FlattenSeq(SubSeq(sp, c[i - 1] + 1, c[i]))
<1>8. ASSUME NEW i \in 1 .. count
      PROVE  /\ Joined(SubSeq(ws, (i - 1) * d + 1, IF i * d < L THEN i * d ELSE L))
                  \o (IF i < count THEN Gap ELSE <<>>) = piece(i)
             /\ piece(i) \in Seq(S)
  <2>1. PICK a \in 0 .. L, b \in 0 .. L :
          /\ a = c[i - 1] /\ b = c[i] /\ a + 1 <= b /\ a + 1 \in 1 .. L /\ b \in 1 .. L
          /\ i < count <=> b < L
    BY <1>7
  <2>2. c[i - 1] = (i - 1) * d /\ c[i] = IF i * d < L THEN i * d ELSE L
    BY <1>5
  <2>3. Joined(SubSeq(ws, a + 1, b)) \o (IF b < Len(ws) THEN Gap ELSE <<>>)
          = FlattenSeq(SubSeq(Spaced(ws), a + 1, b))
    <3>1. a + 1 \in 1 .. Len(ws) /\ b \in 1 .. Len(ws) /\ a + 1 <= b
      BY <2>1 DEF L
    <3>2. QED BY <3>1, SomeJoined
  <2>4. FlattenSeq(SubSeq(sp, a + 1, b)) \in Seq(S)
    <3>1. a + 1 \in 1 .. Len(sp) /\ b \in 1 .. Len(sp)
      BY <1>2, <2>1 DEF L
    <3>2. SubSeq(sp, a + 1, b) \in Seq(Seq(S))
      BY <3>1
    <3>3. QED BY <3>2, FlattenType
  <2>5. QED BY ONLY <1>2, <2>1, <2>2, <2>3, <2>4 DEF L, piece
<1> HIDE DEF piece
<1>9. TextChunks(t) = [i \in 1 .. count |-> piece(i)]
  BY ONLY <1>6, <1>8
<1>10. PICK ss \in Seq(Seq(S)) :
         ss = TextChunks(t) /\ Len(ss) = count /\ \A i \in 1 .. count : ss[i] = piece(i)
  <2>1. count \in Nat
    BY <1>5
  <2>2. \A i \in 1 .. count : piece(i) \in Seq(S)
    BY <1>8
  <2>3. /\ TextChunks(t) \in Seq(Seq(S)) /\ Len(TextChunks(t)) = count
        /\ \A i \in 1 .. count : TextChunks(t)[i] = piece(i)
    BY ONLY <1>9, <2>1, <2>2
  <2>4. QED BY <2>3
<1> DEFINE p == [i \in 0 .. count |-> FlattenSeq(SubSeq(sp, 1, c[i]))]
<1>11. p[0] = <<>>
  <2>1. 0 \in 0 .. count /\ c[0] = 0
    BY <1>5
  <2>2. p[0] = FlattenSeq(SubSeq(sp, 1, 0))
    BY <2>1
  <2> HIDE DEF p
  <2>3. SubSeq(sp, 1, 0) = <<>>
    BY SubSeqEmpty
  <2>4. QED BY <2>2, <2>3, FlattenNone
<1>12. ASSUME NEW i \in 1 .. count PROVE p[i - 1] \o ss[i] = p[i]
  <2>1. p[i - 1] = FlattenSeq(SubSeq(sp, 1, c[i - 1])) /\ p[i] = FlattenSeq(SubSeq(sp, 1, c[i]))
    <3>1. i \in 0 .. count /\ i - 1 \in 0 .. count
      BY <1>5
    <3>2. QED BY <3>1
  <2> HIDE DEF p
  <2>2. PICK a \in 0 .. L, b \in 0 .. L :
          a = c[i - 1] /\ b = c[i] /\ a + 1 <= b /\ a + 1 \in 1 .. L /\ b \in 1 .. L
    BY <1>7
  <2>3. SubSeq(sp, 1, a) \o SubSeq(sp, a + 1, b) = SubSeq(sp, 1, b)
    <3>1. 1 \in 1 .. Len(sp) + 1 /\ a \in 1 - 1 .. Len(sp) /\ b \in a .. Len(sp)
      <4>1. L \in Nat /\ Len(sp) = L
        BY <1>2, <1>3 DEF L
      <4>2. a \in 0 .. L /\ b \in 0 .. L /\ a + 1 <= b
        BY <2>2
      <4>3. QED BY ONLY <4>1, <4>2
    <3>2. QED BY <3>1, ConcatAdjacentSubSeq
  <2>4. SubSeq(sp, 1, a) \in Seq(Seq(S)) /\ SubSeq(sp, a + 1, b) \in Seq(Seq(S))
    <3>1. a \in 0 .. Len(sp) /\ a + 1 \in 1 .. Len(sp) /\ b \in 1 .. Len(sp)
      BY <1>2, <2>2 DEF L
    <3>2. SubSeq(sp, 1, a) \in Seq(Seq(S))
      BY <3>1, Firsts
    <3>3. SubSeq(sp, a + 1, b) \in Seq(Seq(S))
      BY <3>1
    <3>4. QED BY <3>2, <3>3
  <2>5. FlattenSeq(SubSeq(sp, 1, a) \o SubSeq(sp, a + 1, b))
          = FlattenSeq(SubSeq(sp, 1, a)) \o FlattenSeq(SubSeq(sp, a + 1, b))
    BY <2>4, FlattenConcat
  <2>6. QED BY ONLY <1>10, <2>1, <2>2, <2>3, <2>5 DEF piece
<1>13. p[count] = Joined(ws)
  <2>1. p[count] = FlattenSeq(SubSeq(sp, 1, L))
    <3>1. count \in 0 .. count /\ c[count] = L
      BY <1>5
    <3>2. QED BY <3>1
  <2> HIDE DEF p
  <2>2. SubSeq(sp, 1, L) = sp
    BY <1>2, SubSeqFull DEF L
  <2>3. QED BY <1>2, <2>1, <2>2
<1> HIDE DEF p
<1>14. FlattenSeq(ss) = p[Len(ss)]
  BY <1>10, <1>11, <1>12, Telescopes
<1>15. QED BY <1>1, <1>10, <1>13, <1>14

-----------------------------------------------------------------------------
\* What the events add up to, in any set E of events whose data are over D.

Part(e, kind, i) == IF e.kind = kind /\ e.index = i THEN e.data ELSE <<>>
Parts(events, kind, i) == [n \in DOMAIN events |-> Part(events[n], kind, i)]
Tells(E, D) == \A e \in E : \A kind, i : Part(e, kind, i) \in Seq(D)

\* A client's sum is over the parts.
LEMMA CollectedParts ==
  ASSUME NEW events, NEW kind, NEW i
  PROVE  Collected(events, kind, i) = FlattenSeq(Parts(events, kind, i))
BY DEF Collected, Parts, Part

\* The parts of events over D are sequences over D, one for each event.
LEMMA PartsType ==
  ASSUME NEW D, NEW E, Tells(E, D), NEW events \in Seq(E), NEW kind, NEW i
  PROVE  /\ Parts(events, kind, i) \in Seq(Seq(D))
         /\ Len(Parts(events, kind, i)) = Len(events)
         /\ \A n \in 1 .. Len(events) : Parts(events, kind, i)[n] = Part(events[n], kind, i)
<1> DEFINE part(n) == Part(events[n], kind, i)
<1>1. \A n \in 1 .. Len(events) : part(n) \in Seq(D)
  BY DEF Tells
<1>2. Len(events) \in Nat /\ DOMAIN events = 1 .. Len(events)
  OBVIOUS
<1>3. Parts(events, kind, i) = [n \in 1 .. Len(events) |-> part(n)]
  BY <1>2 DEF Parts
<1> HIDE DEF part
<1>4. /\ Parts(events, kind, i) \in Seq(Seq(D))
      /\ Len(Parts(events, kind, i)) = Len(events)
      /\ \A n \in 1 .. Len(events) : Parts(events, kind, i)[n] = part(n)
  BY ONLY <1>1, <1>2, <1>3
<1>5. QED BY <1>4 DEF part

\* So is their sum.
LEMMA CollectedType ==
  ASSUME NEW D, NEW E, Tells(E, D), NEW events \in Seq(E), NEW kind, NEW i
  PROVE  Collected(events, kind, i) \in Seq(D)
BY PartsType, FlattenType, CollectedParts

\* The concatenation of two sequences, place by place.
IsConcat(s, s1, s2) ==
  /\ s = s1 \o s2 /\ Len(s) = Len(s1) + Len(s2)
  /\ \A n \in 1 .. Len(s1) + Len(s2) : s[n] = IF n <= Len(s1) THEN s1[n] ELSE s2[n - Len(s1)]

\* Any two sequences have a concatenation, with both where they should be.
LEMMA ConcatIs ==
  \A S : \A s1, s2 \in Seq(S) : \E s \in Seq(S) : IsConcat(s, s1, s2)
<1>1. ASSUME NEW S, NEW s1 \in Seq(S), NEW s2 \in Seq(S)
      PROVE  s1 \o s2 \in Seq(S) /\ IsConcat(s1 \o s2, s1, s2)
  BY ConcatProperties DEF IsConcat
<1>2. QED BY <1>1

\* The parts of runs of events one after the other.
LEMMA PartsConcat ==
  ASSUME NEW D, NEW E, Tells(E, D), NEW kind, NEW i, NEW e1 \in Seq(E), NEW e2 \in Seq(E)
  PROVE  Parts(e1 \o e2, kind, i) = Parts(e1, kind, i) \o Parts(e2, kind, i)
<1>1. PICK p1 \in Seq(Seq(D)) :
        /\ p1 = Parts(e1, kind, i) /\ Len(p1) = Len(e1)
        /\ \A n \in 1 .. Len(e1) : p1[n] = Part(e1[n], kind, i)
  BY PartsType
<1>2. PICK p2 \in Seq(Seq(D)) :
        /\ p2 = Parts(e2, kind, i) /\ Len(p2) = Len(e2)
        /\ \A n \in 1 .. Len(e2) : p2[n] = Part(e2[n], kind, i)
  BY PartsType
<1>3. PICK e \in Seq(E) :
        /\ e = e1 \o e2 /\ Len(e) = Len(e1) + Len(e2)
        /\ \A n \in 1 .. Len(e1) + Len(e2) :
             e[n] = IF n <= Len(e1) THEN e1[n] ELSE e2[n - Len(e1)]
  <2>1. PICK e \in Seq(E) : IsConcat(e, e1, e2)
    BY ConcatIs
  <2>2. QED BY <2>1 DEF IsConcat
<1>4. PICK q \in Seq(Seq(D)) :
        /\ q = Parts(e, kind, i) /\ Len(q) = Len(e)
        /\ \A n \in 1 .. Len(e) : q[n] = Part(e[n], kind, i)
  BY PartsType
<1>5. PICK p \in Seq(Seq(D)) :
        /\ p = p1 \o p2 /\ Len(p) = Len(p1) + Len(p2)
        /\ \A n \in 1 .. Len(p1) + Len(p2) :
             p[n] = IF n <= Len(p1) THEN p1[n] ELSE p2[n - Len(p1)]
  <2>1. PICK p \in Seq(Seq(D)) : IsConcat(p, p1, p2)
    BY ConcatIs
  <2>2. QED BY <2>1 DEF IsConcat
<1>6. Len(e1) \in Nat /\ Len(e2) \in Nat
  OBVIOUS
<1>7. ASSUME NEW n \in 1 .. Len(e1) + Len(e2) PROVE q[n] = p[n]
  <2>1. CASE n <= Len(e1)
    <3>1. n \in 1 .. Len(e1)
      BY <1>6, <2>1
    <3>2. q[n] = Part(e1[n], kind, i)
      BY <1>3, <1>4, <2>1
    <3>3. p[n] = p1[n]
      BY <1>1, <1>2, <1>5, <2>1
    <3>4. QED BY <1>1, <3>1, <3>2, <3>3
  <2>2. CASE ~(n <= Len(e1))
    <3>1. n - Len(e1) \in 1 .. Len(e2)
      BY <1>6, <2>2
    <3>2. q[n] = Part(e2[n - Len(e1)], kind, i)
      BY <1>3, <1>4, <2>2
    <3>3. p[n] = p2[n - Len(e1)]
      BY <1>1, <1>2, <1>5, <2>2
    <3>4. QED BY <1>2, <3>1, <3>2, <3>3
  <2>3. QED BY <2>1, <2>2
<1>8. q = p
  <2>1. Len(q) = Len(p) /\ Len(q) = Len(e1) + Len(e2)
    BY <1>1, <1>2, <1>3, <1>4, <1>5
  <2>2. \A n \in 1 .. Len(q) : q[n] = p[n]
    BY <1>7, <2>1
  <2>3. QED BY <2>1, <2>2, SeqEqual
<1>9. QED BY <1>1, <1>2, <1>3, <1>4, <1>5, <1>8

\* What runs of events one after the other add up to.
LEMMA CollectedConcat ==
  ASSUME NEW D, NEW E, Tells(E, D), NEW kind, NEW i, NEW e1 \in Seq(E), NEW e2 \in Seq(E)
  PROVE  Collected(e1 \o e2, kind, i) = Collected(e1, kind, i) \o Collected(e2, kind, i)
<1>1. Parts(e1, kind, i) \in Seq(Seq(D)) /\ Parts(e2, kind, i) \in Seq(Seq(D))
  BY PartsType
<1>2. FlattenSeq(Parts(e1, kind, i) \o Parts(e2, kind, i))
        = FlattenSeq(Parts(e1, kind, i)) \o FlattenSeq(Parts(e2, kind, i))
  BY <1>1, FlattenConcat
<1>3. Parts(e1 \o e2, kind, i) = Parts(e1, kind, i) \o Parts(e2, kind, i)
  BY PartsConcat
<1>4. QED BY <1>2, <1>3, CollectedParts

\* Two runs of events add up to the sum of each.
Adds(e1, e2, kind, i) ==
  Collected(e1 \o e2, kind, i) = Collected(e1, kind, i) \o Collected(e2, kind, i)

\* The same for all of them at once.
LEMMA CollectedAddUp ==
  ASSUME NEW D, NEW E, Tells(E, D), NEW kind, NEW i
  PROVE  \A e1, e2 \in Seq(E) : Adds(e1, e2, kind, i)
<1>1. ASSUME NEW e1 \in Seq(E), NEW e2 \in Seq(E) PROVE Adds(e1, e2, kind, i)
  <2>1. Collected(e1 \o e2, kind, i) = Collected(e1, kind, i) \o Collected(e2, kind, i)
    BY CollectedConcat
  <2>2. QED BY <2>1 DEF Adds
<1>2. QED BY <1>1

\* No events add up to nothing.
LEMMA CollectedEmpty ==
  ASSUME NEW kind, NEW i
  PROVE  Collected(<<>>, kind, i) = <<>>
<1>1. Parts(<<>>, kind, i) = <<>>
  BY DEF Parts
<1>2. QED BY <1>1, FlattenNone, CollectedParts

\* Events of other kinds or indices add nothing.
LEMMA CollectedNone ==
  ASSUME NEW D, NEW E, Tells(E, D), NEW kind, NEW i, NEW events \in Seq(E),
         \A n \in 1 .. Len(events) : ~(events[n].kind = kind /\ events[n].index = i)
  PROVE  Collected(events, kind, i) = <<>>
<1>1. PICK p \in Seq(Seq(D)) :
        /\ p = Parts(events, kind, i) /\ Len(p) = Len(events)
        /\ \A n \in 1 .. Len(events) : p[n] = Part(events[n], kind, i)
  BY PartsType
<1>2. \A n \in 1 .. Len(p) : p[n] = <<>>
  BY <1>1 DEF Part
<1>3. QED BY <1>1, <1>2, FlattenLone, CollectedParts

\* One event adds up to its part.
LEMMA CollectedOne ==
  ASSUME NEW D, NEW E, Tells(E, D), NEW kind, NEW i, NEW e \in E
  PROVE  Collected(<<e>>, kind, i) = Part(e, kind, i)
<1>1. <<e>> \in Seq(E) /\ Len(<<e>>) = 1 /\ <<e>>[1] = e
  OBVIOUS
<1>2. Parts(<<e>>, kind, i) = <<Part(e, kind, i)>>
  <2>1. DOMAIN <<e>> = 1 .. 1 /\ \A n \in 1 .. 1 : <<e>>[n] = e
    OBVIOUS
  <2>2. QED BY <2>1 DEF Parts
<1>3. Part(e, kind, i) \in Seq(D)
  BY DEF Tells
<1>4. FlattenSeq(<<Part(e, kind, i)>>) = Part(e, kind, i)
  BY <1>3, FlattenOne
<1>5. QED BY <1>2, <1>4, CollectedParts

\* Of many runs of events, those that add nothing can be left out.
LEMMA CollectedFlatten ==
  ASSUME NEW D, NEW E, Tells(E, D), NEW kind, NEW i, NEW runs \in Seq(Seq(E))
  PROVE  /\ (\A j \in 1 .. Len(runs) : Collected(runs[j], kind, i) = <<>>)
              => Collected(FlattenSeq(runs), kind, i) = <<>>
         /\ \A n \in 1 .. Len(runs) :
              (\A j \in 1 .. Len(runs) : j # n => Collected(runs[j], kind, i) = <<>>)
                => Collected(FlattenSeq(runs), kind, i) = Collected(runs[n], kind, i)
<1> DEFINE L == Len(runs)
           part(n) == Collected(runs[n], kind, i)
           p == [n \in 0 .. L |-> Collected(FlattenSeq(SubSeq(runs, 1, n)), kind, i)]
<1>1. L \in Nat
  OBVIOUS
<1>2. ASSUME NEW n \in 1 .. L PROVE part(n) \in Seq(D)
  <2>1. runs[n] \in Seq(E)
    OBVIOUS
  <2>2. QED BY <2>1, CollectedType
<1>3. PICK ss \in Seq(Seq(D)) : Len(ss) = L /\ \A n \in 1 .. L : ss[n] = part(n)
  <2> DEFINE f == [n \in 1 .. L |-> part(n)]
  <2> HIDE DEF part, L
  <2>1. f \in Seq(Seq(D)) /\ Len(f) = L /\ \A n \in 1 .. L : f[n] = part(n)
    BY ONLY <1>1, <1>2
  <2>2. QED BY <2>1
<1>4. p[0] = <<>>
  <2>1. p[0] = Collected(FlattenSeq(SubSeq(runs, 1, 0)), kind, i)
    BY <1>1
  <2> HIDE DEF p
  <2>2. SubSeq(runs, 1, 0) = <<>>
    BY SubSeqEmpty
  <2>3. QED BY <2>1, <2>2, CollectedEmpty, FlattenNone
<1>5. ASSUME NEW n \in 1 .. L PROVE p[n - 1] \o ss[n] = p[n]
  <2>1. PICK m \in 0 .. L : m = n - 1 /\ n = m + 1
    BY <1>1
  <2> DEFINE First(k) == SubSeq(runs, 1, k)
  <2>2. p[m] = Collected(FlattenSeq(First(m)), kind, i) /\ p[n] = Collected(FlattenSeq(First(n)), kind, i)
    BY <1>1, <2>1
  <2> HIDE DEF p
  <2>3. ASSUME NEW k \in 0 .. L
        PROVE  /\ First(k) \in Seq(Seq(E)) /\ Len(First(k)) = k
               /\ \A j \in 1 .. k : First(k)[j] = runs[j]
    BY Firsts
  <2> HIDE DEF First, L
  <2>4. n \in 0 .. L /\ n \in 1 .. n /\ \A j \in 1 .. m : j \in 1 .. n
    BY <1>1, <2>1
  <2>5. PICK tt \in Seq(Seq(E)) :
          tt = First(m) /\ Len(tt) = m /\ \A j \in 1 .. m : tt[j] = runs[j]
    BY <2>3
  <2>6. PICK uu \in Seq(Seq(E)) :
          uu = First(n) /\ Len(uu) = n /\ \A j \in 1 .. n : uu[j] = runs[j]
    BY <2>3, <2>4
  <2>7. Len(uu) = Len(tt) + 1 /\ uu[Len(uu)] = runs[n] /\ \A j \in 1 .. Len(tt) : uu[j] = tt[j]
    BY ONLY <2>1, <2>4, <2>5, <2>6
  <2>8. FlattenSeq(uu) = FlattenSeq(tt) \o uu[Len(uu)]
    BY <2>7, FlattenOneMore
  <2>9. FlattenSeq(tt) \in Seq(E) /\ runs[n] \in Seq(E)
    BY FlattenType DEF L
  <2>10. Collected(FlattenSeq(tt) \o runs[n], kind, i)
           = Collected(FlattenSeq(tt), kind, i) \o Collected(runs[n], kind, i)
    <3>1. Adds(FlattenSeq(tt), runs[n], kind, i)
      BY <2>9, CollectedAddUp
    <3>2. QED BY <3>1 DEF Adds
  <2>11. QED BY <1>3, <2>1, <2>2, <2>5, <2>6, <2>7, <2>8, <2>10
<1>6. p[L] = Collected(FlattenSeq(runs), kind, i)
  <2>1. p[L] = Collected(FlattenSeq(SubSeq(runs, 1, L)), kind, i)
    BY <1>1
  <2> HIDE DEF p
  <2>2. QED BY <2>1, SubSeqFull
<1> HIDE DEF p
<1>7. FlattenSeq(ss) = p[Len(ss)]
  BY <1>3, <1>4, <1>5, Telescopes
<1>8. FlattenSeq(ss) = Collected(FlattenSeq(runs), kind, i)
  BY <1>3, <1>6, <1>7
<1>9. /\ (\A j \in 1 .. Len(ss) : ss[j] = <<>>) => FlattenSeq(ss) = <<>>
      /\ \A n \in 1 .. Len(ss) :
           (\A j \in 1 .. Len(ss) : j # n => ss[j] = <<>>) => FlattenSeq(ss) = ss[n]
  BY FlattenLone
<1>10. QED BY ONLY <1>3, <1>8, <1>9

-----------------------------------------------------------------------------
\* Runs of events next to each other.
LEMMA RunsAddUp ==
  ASSUME NEW D, NEW E, Tells(E, D), NEW kind, NEW i,
         NEW h, NEW m, NEW t, h \in Seq(E), m \in Seq(E), t \in Seq(E)
  PROVE  /\ h \o m \o t \in Seq(E)
         /\ Collected(h \o m \o t, kind, i)
              = (Collected(h, kind, i) \o Collected(m, kind, i)) \o Collected(t, kind, i)
         /\ Collected(h, kind, i) = <<>> /\ Collected(t, kind, i) = <<>>
              => Collected(h \o m \o t, kind, i) = Collected(m, kind, i)
         /\ Collected(m, kind, i) = <<>> /\ Collected(t, kind, i) = <<>>
              => Collected(h \o m \o t, kind, i) = Collected(h, kind, i)
<1>1. h \o m \in Seq(E)
  BY ConcatProperties
<1>2. (h \o m) \o t \in Seq(E)
  BY <1>1, ConcatProperties
<1>3. Adds(h, m, kind, i) /\ Adds(h \o m, t, kind, i)
  BY <1>1, CollectedAddUp
<1>4. Collected((h \o m) \o t, kind, i)
        = (Collected(h, kind, i) \o Collected(m, kind, i)) \o Collected(t, kind, i)
  BY <1>3 DEF Adds
<1>5. Collected(h, kind, i) \in Seq(D) /\ Collected(m, kind, i) \in Seq(D)
  BY CollectedType
<1>6. /\ <<>> \o Collected(m, kind, i) = Collected(m, kind, i)
      /\ Collected(m, kind, i) \o <<>> = Collected(m, kind, i)
      /\ Collected(h, kind, i) \o <<>> = Collected(h, kind, i)
  BY <1>5, ConcatEmptySeq
<1>7. QED BY <1>2, <1>4, <1>6

\* Three runs of events, and those of them that add nothing.
AddAll(h, m, t, kind, i) ==
  /\ Collected(h \o m \o t, kind, i)
       = (Collected(h, kind, i) \o Collected(m, kind, i)) \o Collected(t, kind, i)
  /\ Collected(h, kind, i) = <<>> /\ Collected(t, kind, i) = <<>>
       => Collected(h \o m \o t, kind, i) = Collected(m, kind, i)
  /\ Collected(m, kind, i) = <<>> /\ Collected(t, kind, i) = <<>>
       => Collected(h \o m \o t, kind, i) = Collected(h, kind, i)

\* The same for all of them at once.
LEMMA AllAddUp ==
  ASSUME NEW D, NEW E, Tells(E, D)
  PROVE  \A h, m, t \in Seq(E) : h \o m \o t \in Seq(E) /\ \A kind, i : AddAll(h, m, t, kind, i)
<1>1. ASSUME NEW h, NEW m, NEW t, h \in Seq(E), m \in Seq(E), t \in Seq(E), NEW kind, NEW i
      PROVE  h \o m \o t \in Seq(E) /\ AddAll(h, m, t, kind, i)
  BY <1>1, RunsAddUp DEF AddAll
<1>2. QED BY <1>1

\* An event before a run.
AddAfter(x, m, kind, i) ==
  Collected(<<x>> \o m, kind, i) = Part(x, kind, i) \o Collected(m, kind, i)

\* An event before a run of events adds its part in front.
LEMMA OneAddsUp ==
  ASSUME NEW D, NEW E, Tells(E, D)
  PROVE  \A x \in E, m \in Seq(E) : <<x>> \o m \in Seq(E) /\ \A kind, i : AddAfter(x, m, kind, i)
<1> SUFFICES ASSUME NEW x \in E, NEW m, m \in Seq(E)
             PROVE  <<x>> \o m \in Seq(E) /\ \A kind, i : AddAfter(x, m, kind, i)
  OBVIOUS
<1>1. PICK h \in Seq(E) : h = <<x>>
  <2>1. \A F : \A y \in F : <<y>> \in Seq(F)
    OBVIOUS
  <2>2. QED BY <2>1, Zenon
<1>2. h \o m \in Seq(E)
  BY ConcatProperties
<1>3. ASSUME NEW kind, NEW i PROVE AddAfter(x, m, kind, i)
  <2>1. Adds(h, m, kind, i)
    BY CollectedAddUp
  <2>2. Collected(<<x>>, kind, i) = Part(x, kind, i)
    BY CollectedOne
  <2>3. QED BY <1>1, <2>1, <2>2 DEF Adds, AddAfter
<1>4. QED BY <1>1, <1>2, <1>3

-----------------------------------------------------------------------------
\* What events carry: characters of the texts, the space between words and types of blocks.
Marks == {Space, "text", "tool_use", "thinking"}

Characters == UNION {ToSet(t) : t \in Texts}

Letters == Characters \cup Marks

Kinds == {"message_start", "ping", "message_delta", "message_stop", "role", "finish", "done",
          "start", "delta", "stop"}

\* The types of blocks are among what events carry.
LEMMA MarksAreLetters == Marks \subseteq Letters
BY DEF Letters

\* Events, the starts among which have an index in A.
Starting(A) ==
  {e \in [kind : Kinds, index : Nat, data : Seq(Letters)] : e.kind = "start" => e.index \in A}

\* Such events carry sequences of letters.
LEMMA EventTells ==
  ASSUME NEW A
  PROVE  Tells(Starting(A), Letters)
<1>1. <<>> \in Seq(Letters)
  OBVIOUS
<1>2. QED BY <1>1 DEF Tells, Starting, Part

\* An event of Starting(A) and what it adds to every sum.
Carries(e, A, kind, i, data) ==
  /\ e \in Starting(A) /\ e.kind = kind /\ e.index = i
  /\ \A k, j : Part(e, k, j) = IF k = kind /\ j = i THEN data ELSE <<>>

\* An event carries its data to those who ask for its kind and index, and to nobody else.
LEMMA EventCarries ==
  \A A : \A kind \in Kinds, i \in Nat, data \in Seq(Letters) :
    (kind = "start" => i \in A) => Carries(Event(kind, i, data), A, kind, i, data)
<1> SUFFICES ASSUME NEW A, NEW kind \in Kinds, NEW i \in Nat, NEW data, data \in Seq(Letters),
                    kind = "start" => i \in A
             PROVE  Carries(Event(kind, i, data), A, kind, i, data)
  OBVIOUS
<1>1. /\ Event(kind, i, data) \in Starting(A)
      /\ Event(kind, i, data).kind = kind /\ Event(kind, i, data).index = i
      /\ Event(kind, i, data).data = data
  BY DEF Event, Starting
<1>2. QED BY <1>1 DEF Part, Carries

\* Deltas add up to the pieces they were made of, under their own index.
LEMMA DeltasAddUp ==
  ASSUME NEW A, NEW i \in Nat, NEW pieces \in Seq(Seq(Letters))
  PROVE  /\ Deltas(i, pieces) \in Seq(Starting(A))
         /\ Collected(Deltas(i, pieces), "delta", i) = FlattenSeq(pieces)
         /\ \A k, j : ~(k = "delta" /\ j = i) => Collected(Deltas(i, pieces), k, j) = <<>>
<1> DEFINE event(n) == Event("delta", i, pieces[n])
<1>1. Len(pieces) \in Nat /\ DOMAIN pieces = 1 .. Len(pieces)
  OBVIOUS
<1>2. Deltas(i, pieces) = [n \in 1 .. Len(pieces) |-> event(n)]
  BY <1>1 DEF Deltas
<1>3. ASSUME NEW n \in 1 .. Len(pieces)
      PROVE  /\ event(n) \in Starting(A) /\ event(n).kind = "delta" /\ event(n).index = i
             /\ Part(event(n), "delta", i) = pieces[n]
  <2>1. PICK data : data = pieces[n] /\ data \in Seq(Letters)
    OBVIOUS
  <2>2. "delta" \in Kinds /\ "delta" # "start"
    BY DEF Kinds
  <2>3. Carries(Event("delta", i, data), A, "delta", i, data)
    BY <2>1, <2>2, EventCarries
  <2>4. QED BY <2>1, <2>3 DEF Carries
<1> HIDE DEF event
<1>4. PICK ds \in Seq(Starting(A)) :
        /\ ds = Deltas(i, pieces) /\ Len(ds) = Len(pieces)
        /\ \A n \in 1 .. Len(pieces) : ds[n] = event(n)
  <2>1. /\ Deltas(i, pieces) \in Seq(Starting(A)) /\ Len(Deltas(i, pieces)) = Len(pieces)
        /\ \A n \in 1 .. Len(pieces) : Deltas(i, pieces)[n] = event(n)
    BY ONLY <1>1, <1>2, <1>3
  <2>2. QED BY <2>1
<1>5. ASSUME NEW k, NEW j, ~(k = "delta" /\ j = i) PROVE Collected(ds, k, j) = <<>>
  <2>1. \A n \in 1 .. Len(ds) : ~(ds[n].kind = k /\ ds[n].index = j)
    BY <1>3, <1>4, <1>5
  <2>2. QED BY <2>1, EventTells, CollectedNone
<1>6. Collected(ds, "delta", i) = FlattenSeq(pieces)
  <2>1. PICK p \in Seq(Seq(Letters)) :
          /\ p = Parts(ds, "delta", i) /\ Len(p) = Len(ds)
          /\ \A n \in 1 .. Len(ds) : p[n] = Part(ds[n], "delta", i)
    BY EventTells, PartsType
  <2>2. Len(p) = Len(pieces) /\ \A n \in 1 .. Len(p) : p[n] = pieces[n]
    BY <1>3, <1>4, <2>1
  <2>3. p = pieces
    BY <2>2, SeqEqual
  <2>4. QED BY <2>1, <2>3, CollectedParts
<1>7. QED BY <1>4, <1>5, <1>6

\* A text is a sequence of letters.
LEMMA BodyType ==
  ASSUME NEW t \in Texts
  PROVE  t \in Seq(Letters)
<1>1. t \in Seq(ToSet(t)) /\ ToSet(t) \subseteq Letters
  BY TextsAssumption DEF Letters, Characters
<1>2. QED BY <1>1, SeqMonotonic

\* The events of a block: it is started once, with its type, and adds up to its body.
LEMMA BlockAddsUp ==
  ASSUME NEW A, NEW i \in A, i \in Nat, NEW block \in Blocks, block.type # "thinking"
  PROVE  /\ BlockEvents(i, block) \in Seq(Starting(A))
         /\ Collected(BlockEvents(i, block), "start", i) = <<block.type>>
         /\ Collected(BlockEvents(i, block), "delta", i) = Plain(block)
         /\ \A k, j : j # i => Collected(BlockEvents(i, block), k, j) = <<>>
<1> DEFINE E == Starting(A)
           x == Event("start", i, <<block.type>>)
           z == Event("stop", i, <<>>)
           pieces == IF block.type = "text" THEN TextChunks(block.body) ELSE Slices(block.body)
           ds == Deltas(i, pieces)
<1>1. BlockEvents(i, block) = <<x>> \o ds \o <<z>>
  BY DEF BlockEvents
<1>2. block.type \in Letters /\ block.body \in Seq(Letters) /\ Space \in Letters
  <2>1. block.type \in {"text", "tool_use", "thinking"} /\ block.body \in Texts
    BY DEF Blocks
  <2>2. block.type \in Letters /\ Space \in Letters
    <3>1. block.type \in Marks /\ Space \in Marks
      BY <2>1 DEF Marks
    <3>2. QED BY <3>1, MarksAreLetters
  <2>3. QED BY <2>1, <2>2, BodyType
<1>3. pieces \in Seq(Seq(Letters)) /\ FlattenSeq(pieces) = Plain(block)
  <2>1. CASE block.type = "text"
    <3>1. /\ TextChunks(block.body) \in Seq(Seq(Letters))
          /\ FlattenSeq(TextChunks(block.body)) = Joined(Words(block.body))
      BY <1>2, ChunksAddUp
    <3>2. QED BY <2>1, <3>1 DEF Plain
  <2>2. CASE block.type # "text"
    <3>1. Slices(block.body) \in Seq(Seq(Letters)) /\ FlattenSeq(Slices(block.body)) = block.body
      BY <1>2, SlicesAddUp
    <3>2. QED BY <2>2, <3>1 DEF Plain
  <2>3. QED BY <2>1, <2>2
<1>4. x \in E /\ \A k, j : Part(x, k, j) = IF k = "start" /\ j = i THEN <<block.type>> ELSE <<>>
  <2>1. PICK data : data = <<block.type>> /\ data \in Seq(Letters)
    <3>1. \A a \in Letters : <<a>> \in Seq(Letters)
      OBVIOUS
    <3>2. QED BY <1>2, <3>1, Zenon
  <2>2. "start" \in Kinds
    BY DEF Kinds
  <2>3. Carries(Event("start", i, data), A, "start", i, data)
    BY <2>1, <2>2, EventCarries
  <2>4. QED BY <2>1, <2>3 DEF Carries
<1>5. z \in E /\ \A k, j : Part(z, k, j) = <<>>
  <2>1. <<>> \in Seq(Letters)
    OBVIOUS
  <2> DEFINE data == <<>>
  <2>2. "stop" \in Kinds /\ "stop" # "start" /\ data \in Seq(Letters)
    BY <2>1 DEF Kinds
  <2> HIDE DEF data
  <2>3. Carries(Event("stop", i, data), A, "stop", i, data)
    BY <2>2, EventCarries
  <2>4. z \in E /\ \A k, j : Part(z, k, j) = IF k = "stop" /\ j = i THEN <<>> ELSE <<>>
    BY <2>3 DEF data, Carries
  <2>5. QED BY <2>4
<1>6. /\ ds \in Seq(E) /\ Collected(ds, "delta", i) = FlattenSeq(pieces)
      /\ \A k, j : ~(k = "delta" /\ j = i) => Collected(ds, k, j) = <<>>
  <2> HIDE DEF pieces
  <2>1. QED BY <1>3, DeltasAddUp
<1>7. Tells(E, Letters)
  BY EventTells
<1> HIDE DEF E, x, z, pieces, ds
<1>8. <<x>> \in Seq(E) /\ <<z>> \in Seq(E)
  BY <1>4, <1>5
<1> DEFINE all == <<x>> \o ds \o <<z>>
<1>9. /\ all \in Seq(E)
      /\ \A k, j : Collected(all, k, j) = (Part(x, k, j) \o Collected(ds, k, j)) \o <<>>
  <2>1. PICK h, t : h = <<x>> /\ t = <<z>> /\ h \in Seq(E) /\ t \in Seq(E)
    BY <1>8
  <2>2. h \o ds \o t \in Seq(E)
    BY <1>6, <1>7, <2>1, AllAddUp
  <2>3. ASSUME NEW k, NEW j
        PROVE  Collected(all, k, j) = (Part(x, k, j) \o Collected(ds, k, j)) \o <<>>
    <3>1. Collected(<<x>>, k, j) = Part(x, k, j) /\ Collected(<<z>>, k, j) = Part(z, k, j)
      BY <1>4, <1>5, <1>7, CollectedOne
    <3>2. Collected(h \o ds \o t, k, j)
            = (Collected(h, k, j) \o Collected(ds, k, j)) \o Collected(t, k, j)
      <4>1. AddAll(h, ds, t, k, j)
        BY <1>6, <1>7, <2>1, AllAddUp
      <4>2. QED BY <4>1 DEF AddAll
    <3>3. Part(z, k, j) = <<>>
      BY <1>5
    <3>4. QED BY <2>1, <3>1, <3>2, <3>3, Zenon
  <2>4. QED BY <2>1, <2>2, <2>3
<1> HIDE DEF all
<1>10. /\ (<<block.type>> \o <<>>) \o <<>> = <<block.type>>
       /\ (<<>> \o FlattenSeq(pieces)) \o <<>> = FlattenSeq(pieces)
       /\ (<<>> \o <<>>) \o <<>> = <<>>
  <2>1. FlattenSeq(pieces) \in Seq(Letters)
    BY <1>3, FlattenType
  <2>2. <<>> \o FlattenSeq(pieces) = FlattenSeq(pieces) /\ FlattenSeq(pieces) \o <<>> = FlattenSeq(pieces)
    BY <2>1, ConcatEmptySeq
  <2>3. <<block.type>> \in Seq(Letters) /\ <<>> \in Seq(Letters)
    BY <1>2
  <2>4. <<block.type>> \o <<>> = <<block.type>> /\ <<>> \o <<>> = <<>>
    BY <2>3, ConcatEmptySeq
  <2>5. QED BY <2>2, <2>4
<1>11. Collected(all, "start", i) = <<block.type>>
  <2>1. Part(x, "start", i) = <<block.type>> /\ Collected(ds, "start", i) = <<>>
    BY <1>4, <1>6
  <2>2. QED BY <1>9, <1>10, <2>1
<1>12. Collected(all, "delta", i) = FlattenSeq(pieces)
  <2>1. Part(x, "delta", i) = <<>> /\ Collected(ds, "delta", i) = FlattenSeq(pieces)
    BY <1>4, <1>6
  <2>2. QED BY <1>9, <1>10, <2>1
<1>13. ASSUME NEW k, NEW j, j # i PROVE Collected(all, k, j) = <<>>
  <2>1. Part(x, k, j) = <<>> /\ Collected(ds, k, j) = <<>>
    BY <1>4, <1>6, <1>13
  <2>2. QED BY <1>9, <1>10, <2>1
<1>14. BlockEvents(i, block) = all
  BY <1>1 DEF all
<1>15. QED BY <1>3, <1>9, <1>11, <1>12, <1>13, <1>14 DEF E

-----------------------------------------------------------------------------
\* Runs of events that each add to an index of their own, between events that add nothing.

\* A run adds to index i only, and starts it.
Owns(run, i, type, body) ==
  /\ Collected(run, "start", i) = <<type>>
  /\ Collected(run, "delta", i) = body
  /\ \A k, j : j # i => Collected(run, k, j) = <<>>

\* A run that adds nothing.
Silent(run) == \A k, j : Collected(run, k, j) = <<>>

\* When only run i says something of an index i, all runs say what it says.
Alone(runs, k, i) ==
  (\A j \in 1 .. Len(runs) : j # i => Collected(runs[j], k, i) = <<>>)
     => /\ i \in 1 .. Len(runs) => Collected(FlattenSeq(runs), k, i) = Collected(runs[i], k, i)
        /\ i \notin 1 .. Len(runs) => Collected(FlattenSeq(runs), k, i) = <<>>

\* Every sequence of runs has that property.
LEMMA LoneRuns ==
  ASSUME NEW D, NEW E, Tells(E, D), NEW runs, runs \in Seq(Seq(E)), NEW k, NEW i
  PROVE  Alone(runs, k, i)
<1> SUFFICES ASSUME \A j \in 1 .. Len(runs) : j # i => Collected(runs[j], k, i) = <<>>
             PROVE  /\ i \in 1 .. Len(runs) => Collected(FlattenSeq(runs), k, i) = Collected(runs[i], k, i)
                    /\ i \notin 1 .. Len(runs) => Collected(FlattenSeq(runs), k, i) = <<>>
  BY DEF Alone
<1>1. ASSUME i \in 1 .. Len(runs) PROVE Collected(FlattenSeq(runs), k, i) = Collected(runs[i], k, i)
  BY <1>1, CollectedFlatten
<1>2. ASSUME i \notin 1 .. Len(runs) PROVE Collected(FlattenSeq(runs), k, i) = <<>>
  <2>1. \A j \in 1 .. Len(runs) : Collected(runs[j], k, i) = <<>>
    BY <1>2
  <2>2. QED BY <2>1, CollectedFlatten
<1>3. QED BY <1>1, <1>2

\* Runs that each have an index of their own, or say nothing, keep it when put together.
LEMMA RunsOwn ==
  ASSUME NEW A, NEW runs \in Seq(Seq(Starting(A))),
         \A n \in 1 .. Len(runs) : Silent(runs[n]) \/ \E type, body : Owns(runs[n], n, type, body)
  PROVE  /\ FlattenSeq(runs) \in Seq(Starting(A))
         /\ \A n \in 1 .. Len(runs) : \A k :
              Collected(FlattenSeq(runs), k, n) = Collected(runs[n], k, n)
         /\ \A k, i : i \notin 1 .. Len(runs) => Collected(FlattenSeq(runs), k, i) = <<>>
<1>1. Tells(Starting(A), Letters)
  BY EventTells
<1>2. \A n \in 1 .. Len(runs) : \A k, j : j # n => Collected(runs[n], k, j) = <<>>
  BY DEF Silent, Owns
<1>3. FlattenSeq(runs) \in Seq(Starting(A))
  BY FlattenType
<1>4. ASSUME NEW k, NEW i
      PROVE  /\ i \in 1 .. Len(runs) => Collected(FlattenSeq(runs), k, i) = Collected(runs[i], k, i)
             /\ i \notin 1 .. Len(runs) => Collected(FlattenSeq(runs), k, i) = <<>>
  <2>1. Alone(runs, k, i)
    BY <1>1, LoneRuns
  <2>2. \A j \in 1 .. Len(runs) : j # i => Collected(runs[j], k, i) = <<>>
    BY <1>2
  <2>3. QED BY ONLY <2>1, <2>2 DEF Alone
<1>5. QED BY <1>3, <1>4

\* Two events that are neither starts nor deltas add nothing.
LEMMA Bystanders ==
  ASSUME NEW A, NEW k1 \in Kinds \ {"start", "delta"}, NEW k2 \in Kinds \ {"start", "delta"}
  PROVE  /\ <<Event(k1, 0, <<>>), Event(k2, 0, <<>>)>> \in Seq(Starting(A))
         /\ \A k \in {"start", "delta"} : \A i :
              Collected(<<Event(k1, 0, <<>>), Event(k2, 0, <<>>)>>, k, i) = <<>>
<1> DEFINE data == <<>>
<1>1. data \in Seq(Letters) /\ 0 \in Nat
  OBVIOUS
<1> HIDE DEF data
<1>2. Carries(Event(k1, 0, data), A, k1, 0, data) /\ Carries(Event(k2, 0, data), A, k2, 0, data)
  BY <1>1, EventCarries
<1>3. PICK e1, e2 : /\ e1 = Event(k1, 0, data) /\ e2 = Event(k2, 0, data)
                    /\ e1 \in Starting(A) /\ e1.kind = k1
                    /\ e2 \in Starting(A) /\ e2.kind = k2
  BY <1>2 DEF Carries
<1>4. PICK es \in Seq(Starting(A)) : es = <<e1, e2>> /\ Len(es) = 2 /\ es[1] = e1 /\ es[2] = e2
  <2>1. \A E : \A x, y \in E : /\ <<x, y>> \in Seq(E) /\ Len(<<x, y>>) = 2
                             /\ <<x, y>>[1] = x /\ <<x, y>>[2] = y
    OBVIOUS
  <2>2. /\ <<e1, e2>> \in Seq(Starting(A)) /\ Len(<<e1, e2>>) = 2
        /\ <<e1, e2>>[1] = e1 /\ <<e1, e2>>[2] = e2
    BY ONLY <1>3, <2>1
  <2>3. QED BY <2>2
<1>5. ASSUME NEW k \in {"start", "delta"}, NEW i PROVE Collected(es, k, i) = <<>>
  <2>1. \A n \in 1 .. Len(es) : ~(es[n].kind = k /\ es[n].index = i)
    BY <1>3, <1>4
  <2>2. QED BY <2>1, EventTells, CollectedNone
<1>6. <<e1, e2>> \in Seq(Starting(A))
      /\ \A k \in {"start", "delta"} : \A i : Collected(<<e1, e2>>, k, i) = <<>>
  BY <1>4, <1>5
<1>7. QED BY <1>3, <1>6 DEF data

\* A sequence of events that starts only what is in A.
LEMMA OnlyStarts ==
  ASSUME NEW A, NEW events \in Seq(Starting(A))
  PROVE  \A n \in DOMAIN events : events[n].kind = "start" => events[n].index \in A
<1>1. ASSUME NEW n \in DOMAIN events PROVE events[n] \in Starting(A)
  OBVIOUS
<1>2. QED BY <1>1 DEF Starting

-----------------------------------------------------------------------------
\* Anthropic's stream starts each block that is shown once, and its deltas add up to the block.
LEMMA AnthropicComplete ==
  ASSUME NEW a, NEW blocks \in Seq(Blocks), a.blocks = blocks,
         NEW shown, shown = {i \in DOMAIN blocks : blocks[i].type # "thinking"}
  PROVE  /\ Starts(AnthropicStream(a), [i \in shown |-> blocks[i].type])
         /\ \A i \in shown : Collected(AnthropicStream(a), "delta", i) = Plain(blocks[i])
<1> DEFINE E == Starting(shown)
           run(i) == BlockEvents(i, blocks[i])
           h == <<Event("message_start", 0, <<>>), Event("ping", 0, <<>>)>>
           t == <<Event("message_delta", 0, <<>>), Event("message_stop", 0, <<>>)>>
<1>1. DOMAIN blocks = 1 .. Len(blocks) /\ Len(blocks) \in Nat
  OBVIOUS
<1>2. ASSUME NEW i \in 1 .. Len(blocks), i \in shown
      PROVE  run(i) \in Seq(E) /\ Owns(run(i), i, blocks[i].type, Plain(blocks[i]))
  <2>1. PICK block \in Blocks : block = blocks[i]
    OBVIOUS
  <2>2. block.type # "thinking" /\ i \in Nat
    BY <1>2, <2>1
  <2>3. /\ BlockEvents(i, block) \in Seq(Starting(shown))
        /\ Collected(BlockEvents(i, block), "start", i) = <<block.type>>
        /\ Collected(BlockEvents(i, block), "delta", i) = Plain(block)
        /\ \A k, j : j # i => Collected(BlockEvents(i, block), k, j) = <<>>
    BY <1>2, <2>2, BlockAddsUp
  <2>4. QED BY <2>1, <2>3 DEF Owns
<1>3. ASSUME NEW i \in 1 .. Len(blocks), i \notin shown
      PROVE  run(i) \in Seq(E) /\ Silent(run(i))
  <2>1. blocks[i].type = "thinking"
    BY <1>1, <1>3
  <2>2. run(i) = <<>>
    BY <2>1 DEF BlockEvents
  <2>3. <<>> \in Seq(E)
    OBVIOUS
  <2>4. Silent(<<>>)
    BY CollectedEmpty DEF Silent
  <2> HIDE DEF E, run
  <2>5. QED BY <2>2, <2>3, <2>4
<1>4. AnthropicStream(a) = h \o FlattenSeq([i \in 1 .. Len(blocks) |-> run(i)]) \o t
  BY <1>1 DEF AnthropicStream
<1>5. /\ h \in Seq(E) /\ \A k \in {"start", "delta"} : \A i : Collected(h, k, i) = <<>>
      /\ t \in Seq(E) /\ \A k \in {"start", "delta"} : \A i : Collected(t, k, i) = <<>>
  <2>1. {"message_start", "ping", "message_delta", "message_stop"} \subseteq Kinds \ {"start", "delta"}
    BY DEF Kinds
  <2>2. QED BY <2>1, Bystanders
<1> HIDE DEF E, run, h, t
<1>6. PICK runs \in Seq(Seq(E)) :
        /\ runs = [i \in 1 .. Len(blocks) |-> run(i)] /\ Len(runs) = Len(blocks)
        /\ \A i \in 1 .. Len(blocks) : runs[i] = run(i)
  <2>1. \A i \in 1 .. Len(blocks) : run(i) \in Seq(E)
    BY <1>2, <1>3
  <2> DEFINE f == [i \in 1 .. Len(blocks) |-> run(i)]
  <2>2. f \in Seq(Seq(E)) /\ Len(f) = Len(blocks) /\ \A i \in 1 .. Len(blocks) : f[i] = run(i)
    BY ONLY <1>1, <2>1
  <2> HIDE DEF f
  <2>3. f = [i \in 1 .. Len(blocks) |-> run(i)]
    BY DEF f
  <2>4. QED BY ONLY <2>2, <2>3
<1>7. /\ FlattenSeq(runs) \in Seq(E)
      /\ \A n \in 1 .. Len(runs) : \A k : Collected(FlattenSeq(runs), k, n) = Collected(runs[n], k, n)
  <2>1. \A n \in 1 .. Len(runs) : Silent(runs[n]) \/ \E type, body : Owns(runs[n], n, type, body)
    BY <1>2, <1>3, <1>6
  <2>2. runs \in Seq(Seq(Starting(shown)))
    BY DEF E
  <2>3. QED BY <2>1, <2>2, RunsOwn DEF E
<1> DEFINE all == h \o FlattenSeq(runs) \o t
<1>8. Tells(E, Letters)
  BY EventTells DEF E
<1>9. all \in Seq(E) /\ \A k, i : AddAll(h, FlattenSeq(runs), t, k, i)
  BY <1>5, <1>7, <1>8, AllAddUp
<1>10. ASSUME NEW k \in {"start", "delta"}, NEW i \in shown
       PROVE  Collected(all, k, i) = Collected(run(i), k, i)
  <2>1. i \in 1 .. Len(runs)
    BY <1>1, <1>6
  <2>2. Collected(FlattenSeq(runs), k, i) = Collected(run(i), k, i)
    BY <1>6, <1>7, <2>1
  <2>3. Collected(h, k, i) = <<>> /\ Collected(t, k, i) = <<>>
    BY <1>5
  <2>4. AddAll(h, FlattenSeq(runs), t, k, i)
    BY <1>9
  <2>5. QED BY <2>2, <2>3, <2>4 DEF AddAll
<1> HIDE DEF all
<1>11. ASSUME NEW i \in shown
       PROVE  /\ Collected(all, "start", i) = <<blocks[i].type>>
              /\ Collected(all, "delta", i) = Plain(blocks[i])
  <2>1. i \in 1 .. Len(blocks)
    BY <1>1
  <2>2. Owns(run(i), i, blocks[i].type, Plain(blocks[i]))
    BY <1>2, <2>1
  <2>3. QED BY <1>10, <2>2 DEF Owns
<1>12. \A n \in DOMAIN all : all[n].kind = "start" => all[n].index \in shown
  BY <1>9, OnlyStarts DEF E
<1>13. AnthropicStream(a) = all
  BY <1>4, <1>6 DEF all
<1>14. QED BY <1>11, <1>12, <1>13 DEF Starts

-----------------------------------------------------------------------------
\* A call of a tool is started once and adds up to its arguments.
LEMMA CallAddsUp ==
  ASSUME NEW A, NEW i, i \in A, i \in Nat, NEW body, body \in Texts
  PROVE  /\ <<Event("start", i, <<"tool_use">>)>> \o Deltas(i, Slices(body)) \in Seq(Starting(A))
         /\ Owns(<<Event("start", i, <<"tool_use">>)>> \o Deltas(i, Slices(body)),
                 i, "tool_use", body)
<1> DEFINE E == Starting(A)
           data == <<"tool_use">>
           x == Event("start", i, data)
           ds == Deltas(i, Slices(body))
<1>1. Slices(body) \in Seq(Seq(Letters)) /\ FlattenSeq(Slices(body)) = body /\ body \in Seq(Letters)
  BY BodyType, SlicesAddUp
<1>2. data \in Seq(Letters)
  <2>1. "tool_use" \in Letters
    <3>1. "tool_use" \in Marks
      BY DEF Marks
    <3>2. QED BY <3>1, MarksAreLetters
  <2>2. QED BY <2>1
<1>3. data \o <<>> = data /\ <<>> \o body = body /\ <<>> \o <<>> = <<>>
  <2>1. data \o <<>> = data
    BY <1>2, ConcatEmptySeq
  <2>2. <<>> \o body = body
    BY <1>1, ConcatEmptySeq
  <2>3. QED BY <2>1, <2>2
<1> HIDE DEF data
<1>4. x \in E /\ \A k, j : Part(x, k, j) = IF k = "start" /\ j = i THEN data ELSE <<>>
  <2>1. "start" \in Kinds
    BY DEF Kinds
  <2>2. Carries(Event("start", i, data), A, "start", i, data)
    BY <1>2, <2>1, EventCarries
  <2>3. QED BY <2>2 DEF Carries
<1>5. /\ ds \in Seq(E) /\ Collected(ds, "delta", i) = body
      /\ \A k, j : ~(k = "delta" /\ j = i) => Collected(ds, k, j) = <<>>
  BY <1>1, DeltasAddUp
<1>6. Tells(E, Letters)
  BY EventTells
<1> HIDE DEF E, x, ds
<1>7. <<x>> \o ds \in Seq(E) /\ \A k, j : AddAfter(x, ds, k, j)
  BY <1>4, <1>5, <1>6, OneAddsUp
<1>8. \A k, j : Collected(<<x>> \o ds, k, j) = Part(x, k, j) \o Collected(ds, k, j)
  BY <1>7 DEF AddAfter
<1> DEFINE run == <<x>> \o ds
<1> HIDE DEF run
<1>9. Collected(run, "start", i) = data
  <2>1. Part(x, "start", i) = data /\ Collected(ds, "start", i) = <<>>
    BY <1>4, <1>5
  <2>2. QED BY <1>3, <1>8, <2>1 DEF run
<1>10. Collected(run, "delta", i) = body
  <2>1. Part(x, "delta", i) = <<>> /\ Collected(ds, "delta", i) = body
    BY <1>4, <1>5
  <2>2. QED BY <1>3, <1>8, <2>1 DEF run
<1>11. ASSUME NEW k, NEW j, j # i PROVE Collected(run, k, j) = <<>>
  <2>1. Part(x, k, j) = <<>> /\ Collected(ds, k, j) = <<>>
    BY <1>4, <1>5, <1>11
  <2>2. QED BY <1>3, <1>8, <2>1 DEF run
<1>12. run \in Seq(E) /\ Owns(run, i, "tool_use", body)
  BY <1>7, <1>9, <1>10, <1>11 DEF Owns, data, run
<1>13. QED BY <1>12 DEF run, x, ds, E, data

\* The role, and then the content under index 0.
LEMMA ContentFirst ==
  ASSUME NEW A, NEW T, T = <<>> \/ \E body \in Texts : T = Deltas(0, Content(body))
  PROVE  /\ <<Event("role", 0, <<>>)>> \o T \in Seq(Starting(A))
         /\ \A k, j : ~(k = "delta" /\ j = 0) => Collected(<<Event("role", 0, <<>>)>> \o T, k, j) = <<>>
         /\ \A body \in Texts : T = Deltas(0, Content(body))
              => Collected(<<Event("role", 0, <<>>)>> \o T, "delta", 0) = body
<1> DEFINE E == Starting(A)
           data == <<>>
           x == Event("role", 0, data)
<1>1. data \in Seq(Letters) /\ 0 \in Nat
  OBVIOUS
<1>2. <<>> \o <<>> = <<>> /\ \A body \in Texts : <<>> \o body = body
  BY BodyType, ConcatEmptySeq
<1> HIDE DEF data
<1>3. x \in E /\ \A k, j : Part(x, k, j) = <<>>
  <2>1. "role" \in Kinds /\ "role" # "start"
    BY DEF Kinds
  <2>2. Carries(Event("role", 0, data), A, "role", 0, data)
    BY <1>1, <2>1, EventCarries
  <2>3. x \in E /\ \A k, j : Part(x, k, j) = IF k = "role" /\ j = 0 THEN data ELSE <<>>
    BY <2>2 DEF Carries
  <2>4. QED BY <2>3 DEF data
<1>4. Tells(E, Letters)
  BY EventTells
<1>5. ASSUME NEW body \in Texts
      PROVE  /\ Deltas(0, Content(body)) \in Seq(E)
             /\ Collected(Deltas(0, Content(body)), "delta", 0) = body
             /\ \A k, j : ~(k = "delta" /\ j = 0) => Collected(Deltas(0, Content(body)), k, j) = <<>>
  <2>1. body \in Seq(Letters)
    BY BodyType
  <2>2. Content(body) \in Seq(Seq(Letters)) /\ FlattenSeq(Content(body)) = body
    BY <2>1, ContentAddsUp
  <2>3. QED BY <1>1, <2>2, DeltasAddUp
<1>6. T \in Seq(E) /\ \A k, j : ~(k = "delta" /\ j = 0) => Collected(T, k, j) = <<>>
  <2>1. CASE T = <<>>
    <3>1. <<>> \in Seq(E)
      OBVIOUS
    <3> HIDE DEF E
    <3>2. QED BY <2>1, <3>1, CollectedEmpty
  <2>2. CASE \E body \in Texts : T = Deltas(0, Content(body))
    <3> HIDE DEF E
    <3>1. QED BY <1>5, <2>2
  <2>3. QED BY <2>1, <2>2
<1> HIDE DEF E, x
<1>7. <<x>> \o T \in Seq(E) /\ \A k, j : AddAfter(x, T, k, j)
  BY <1>3, <1>4, <1>6, OneAddsUp
<1>8. \A k, j : Collected(<<x>> \o T, k, j) = <<>> \o Collected(T, k, j)
  BY <1>3, <1>7 DEF AddAfter
<1>9. \A k, j : ~(k = "delta" /\ j = 0) => Collected(<<x>> \o T, k, j) = <<>>
  BY <1>2, <1>6, <1>8
<1>10. ASSUME NEW body \in Texts, T = Deltas(0, Content(body))
       PROVE  Collected(<<x>> \o T, "delta", 0) = body
  BY <1>2, <1>5, <1>8, <1>10
<1>11. QED BY <1>7, <1>9, <1>10 DEF E, x, data

\* StreamIsComplete, for OpenAI's events.
OpenAIWhole(events, blocks, text, calls) ==
  /\ Starts(events, [i \in DOMAIN calls |-> "tool_use"])
  /\ \A i \in DOMAIN calls : Collected(events, "delta", i) = calls[i].body
  /\ text => Collected(events, "delta", 0) = blocks[1].body

\* OpenAI's stream starts each call once, and its deltas add up to the content and arguments.
LEMMA OpenAIComplete ==
  ASSUME NEW a, NEW blocks, a.blocks = blocks, blocks \in Seq(Blocks),
         NEW text, text = (blocks # <<>> /\ blocks[1].type = "text"),
         NEW calls, calls = IF text THEN Tail(blocks) ELSE blocks
  PROVE  OpenAIWhole(OpenAIStream(a), blocks, text, calls)
<1> DEFINE A == 1 .. Len(calls)
           E == Starting(A)
           run(i) == <<Event("start", i, <<"tool_use">>)>> \o Deltas(i, Slices(calls[i].body))
           T == IF text THEN Deltas(0, Content(blocks[1].body)) ELSE <<>>
           h == <<Event("role", 0, <<>>)>> \o T
           t == <<Event("finish", 0, <<>>), Event("done", 0, <<>>)>>
<1>1. calls \in Seq(Blocks) /\ (text => blocks[1] \in Blocks)
  <2>1. CASE text
    <3>1. blocks # <<>> /\ calls = Tail(blocks)
      BY <2>1
    <3>2. Tail(blocks) \in Seq(Blocks) /\ blocks[1] \in Blocks
      BY ONLY <3>1, HeadTailProperties, blocks \in Seq(Blocks)
    <3>3. QED BY <3>1, <3>2
  <2>2. CASE ~text
    BY <2>2
  <2>3. QED BY <2>1, <2>2
<1>2. DOMAIN calls = A /\ Len(calls) \in Nat /\ 0 \notin A
  BY <1>1
<1>3. ASSUME NEW i \in A PROVE run(i) \in Seq(E) /\ Owns(run(i), i, "tool_use", calls[i].body)
  <2>1. calls[i] \in Blocks
    BY <1>1
  <2>2. PICK body : body = calls[i].body /\ body \in Texts
    BY <2>1 DEF Blocks
  <2>3. i \in Nat
    BY <1>2
  <2> HIDE DEF A
  <2>4. /\ <<Event("start", i, <<"tool_use">>)>> \o Deltas(i, Slices(body)) \in Seq(Starting(A))
        /\ Owns(<<Event("start", i, <<"tool_use">>)>> \o Deltas(i, Slices(body)), i, "tool_use", body)
    BY <2>2, <2>3, CallAddsUp
  <2>5. QED BY <2>2, <2>4
<1>4. OpenAIStream(a) = h \o FlattenSeq([i \in A |-> run(i)]) \o t
  BY <1>2 DEF OpenAIStream
<1>5. /\ h \in Seq(E) /\ \A k, j : ~(k = "delta" /\ j = 0) => Collected(h, k, j) = <<>>
      /\ text => Collected(h, "delta", 0) = blocks[1].body
  <2>1. text => blocks[1].body \in Texts
    BY <1>1 DEF Blocks
  <2>2. T = <<>> \/ \E body \in Texts : T = Deltas(0, Content(body))
    BY <2>1
  <2>3. /\ <<Event("role", 0, <<>>)>> \o T \in Seq(Starting(A))
        /\ \A k, j : ~(k = "delta" /\ j = 0) => Collected(<<Event("role", 0, <<>>)>> \o T, k, j) = <<>>
        /\ \A body \in Texts : T = Deltas(0, Content(body))
              => Collected(<<Event("role", 0, <<>>)>> \o T, "delta", 0) = body
    <3> HIDE DEF T, A
    <3>1. QED BY <2>2, ContentFirst
  <2>4. text => T = Deltas(0, Content(blocks[1].body))
    OBVIOUS
  <2>5. QED BY <2>1, <2>3, <2>4
<1>6. t \in Seq(E) /\ \A k \in {"start", "delta"} : \A i : Collected(t, k, i) = <<>>
  <2>1. {"finish", "done"} \subseteq Kinds \ {"start", "delta"}
    BY DEF Kinds
  <2> HIDE DEF A
  <2>2. QED BY <2>1, Bystanders
<1>7. Tells(E, Letters)
  BY EventTells
<1> HIDE DEF E, run, T, h, t
<1>8. PICK runs \in Seq(Seq(E)) :
        /\ runs = [i \in A |-> run(i)] /\ Len(runs) = Len(calls)
        /\ \A i \in A : runs[i] = run(i)
  <2>1. \A i \in 1 .. Len(calls) : run(i) \in Seq(E)
    BY <1>3
  <2> DEFINE f == [i \in 1 .. Len(calls) |-> run(i)]
  <2>2. f \in Seq(Seq(E)) /\ Len(f) = Len(calls) /\ \A i \in 1 .. Len(calls) : f[i] = run(i)
    BY ONLY <1>2, <2>1
  <2> HIDE DEF f
  <2>3. f = [i \in 1 .. Len(calls) |-> run(i)]
    BY DEF f
  <2>4. QED BY ONLY <2>2, <2>3
<1>9. /\ FlattenSeq(runs) \in Seq(E)
      /\ \A n \in A : \A k : Collected(FlattenSeq(runs), k, n) = Collected(run(n), k, n)
      /\ \A k, i : i \notin A => Collected(FlattenSeq(runs), k, i) = <<>>
  <2>1. \A n \in 1 .. Len(runs) : Silent(runs[n]) \/ \E type, body : Owns(runs[n], n, type, body)
    BY <1>3, <1>8
  <2>2. runs \in Seq(Seq(Starting(A)))
    BY DEF E
  <2>3. /\ FlattenSeq(runs) \in Seq(Starting(A))
        /\ \A n \in 1 .. Len(runs) : \A k : Collected(FlattenSeq(runs), k, n) = Collected(runs[n], k, n)
        /\ \A k, i : i \notin 1 .. Len(runs) => Collected(FlattenSeq(runs), k, i) = <<>>
    BY <2>1, <2>2, RunsOwn
  <2>4. 1 .. Len(runs) = A
    BY <1>8
  <2> HIDE DEF A
  <2>5. \A n \in A : runs[n] = run(n)
    BY <1>8
  <2>6. FlattenSeq(runs) \in Seq(E)
    BY <2>3 DEF E
  <2>7. \A n \in A : \A k : Collected(FlattenSeq(runs), k, n) = Collected(runs[n], k, n)
    BY ONLY <2>3, <2>4
  <2>8. \A k, i : i \notin A => Collected(FlattenSeq(runs), k, i) = <<>>
    BY ONLY <2>3, <2>4
  <2>9. QED BY ONLY <2>5, <2>6, <2>7, <2>8
<1> HIDE DEF A
<1> DEFINE all == h \o FlattenSeq(runs) \o t
<1>10. all \in Seq(E) /\ \A k, i : AddAll(h, FlattenSeq(runs), t, k, i)
  BY <1>5, <1>6, <1>7, <1>9, AllAddUp
<1>11. ASSUME NEW k \in {"start", "delta"}, NEW i \in A
       PROVE  Collected(all, k, i) = Collected(run(i), k, i)
  <2>1. Collected(FlattenSeq(runs), k, i) = Collected(run(i), k, i)
    BY <1>9
  <2>2. Collected(h, k, i) = <<>> /\ Collected(t, k, i) = <<>>
    BY <1>2, <1>5, <1>6
  <2>3. AddAll(h, FlattenSeq(runs), t, k, i)
    BY <1>10
  <2>4. QED BY <2>1, <2>2, <2>3 DEF AddAll
<1>12. text => Collected(all, "delta", 0) = blocks[1].body
  <2>1. Collected(FlattenSeq(runs), "delta", 0) = <<>> /\ Collected(t, "delta", 0) = <<>>
    BY <1>2, <1>6, <1>9
  <2>2. AddAll(h, FlattenSeq(runs), t, "delta", 0)
    BY <1>10
  <2>3. QED BY <1>5, <2>1, <2>2 DEF AddAll
<1> HIDE DEF all
<1>13. ASSUME NEW i \in A
       PROVE  /\ Collected(all, "start", i) = <<"tool_use">>
              /\ Collected(all, "delta", i) = calls[i].body
  BY <1>3, <1>11 DEF Owns
<1>14. \A n \in DOMAIN all : all[n].kind = "start" => all[n].index \in A
  BY <1>10, OnlyStarts DEF E
<1>15. OpenAIStream(a) = all
  BY <1>4, <1>8 DEF all
<1>16. QED BY <1>2, <1>12, <1>13, <1>14, <1>15 DEF Starts, OpenAIWhole

-----------------------------------------------------------------------------
\* The reply is none, the answer as it is, or the stream that the protocol asks for.
StreamInv ==
  /\ protocol \in Protocols
  /\ answer \in Answers(protocol)
  /\ reply \notin {<<"nothing">>, <<"as is">>} =>
       /\ answer.status = "ok"
       /\ reply = IF protocol = "anthropic" THEN AnthropicStream(answer) ELSE OpenAIStream(answer)

\* An answer that can be read is a sequence of blocks.
LEMMA BlocksType ==
  ASSUME NEW p, NEW a \in Answers(p), a.status = "ok"
  PROVE  a.blocks \in Seq(Blocks)
<1>1. a.blocks \in UNION {[1 .. n -> Blocks] : n \in 0 .. MaxBlocks}
  BY DEF Answers
<1>2. PICK n \in 0 .. MaxBlocks : a.blocks \in [1 .. n -> Blocks]
  BY <1>1
<1>3. n \in Nat
  BY SizesAssumption
<1>4. QED BY <1>2, <1>3, SeqDef

\* The invariant says that a stream is complete.
LEMMA StreamInvComplete == StreamInv => StreamIsComplete
<1> SUFFICES ASSUME StreamInv, reply # <<"nothing">>, reply # <<"as is">>
             PROVE  IF protocol = "anthropic"
                    THEN LET shown == {i \in DOMAIN answer.blocks : answer.blocks[i].type # "thinking"} IN
                         /\ Starts(reply, [i \in shown |-> answer.blocks[i].type])
                         /\ \A i \in shown : Collected(reply, "delta", i) = Plain(answer.blocks[i])
                    ELSE LET text  == answer.blocks # <<>> /\ answer.blocks[1].type = "text"
                             calls == IF text THEN Tail(answer.blocks) ELSE answer.blocks
                         IN /\ Starts(reply, [i \in DOMAIN calls |-> "tool_use"])
                            /\ \A i \in DOMAIN calls : Collected(reply, "delta", i) = calls[i].body
                            /\ text => Collected(reply, "delta", 0) = answer.blocks[1].body
  BY DEF StreamIsComplete
<1>1. /\ answer.status = "ok" /\ answer \in Answers(protocol)
      /\ reply = IF protocol = "anthropic" THEN AnthropicStream(answer) ELSE OpenAIStream(answer)
  BY DEF StreamInv
<1>2. answer.blocks \in Seq(Blocks)
  BY <1>1, BlocksType
<1>3. CASE protocol = "anthropic"
  <2> DEFINE shown == {i \in DOMAIN answer.blocks : answer.blocks[i].type # "thinking"}
  <2>1. /\ Starts(AnthropicStream(answer), [i \in shown |-> answer.blocks[i].type])
        /\ \A i \in shown : Collected(AnthropicStream(answer), "delta", i) = Plain(answer.blocks[i])
    BY <1>2, AnthropicComplete
  <2>2. QED BY <1>1, <1>3, <2>1
<1>4. CASE protocol # "anthropic"
  <2> DEFINE text  == answer.blocks # <<>> /\ answer.blocks[1].type = "text"
             calls == IF text THEN Tail(answer.blocks) ELSE answer.blocks
  <2>1. /\ Starts(OpenAIStream(answer), [i \in DOMAIN calls |-> "tool_use"])
        /\ \A i \in DOMAIN calls : Collected(OpenAIStream(answer), "delta", i) = calls[i].body
        /\ text => Collected(OpenAIStream(answer), "delta", 0) = answer.blocks[1].body
    <3>1. PICK blocks : blocks = answer.blocks
      OBVIOUS
    <3>2. /\ text = (blocks # <<>> /\ blocks[1].type = "text")
          /\ calls = IF text THEN Tail(blocks) ELSE blocks
      BY <3>1
    <3> HIDE DEF text, calls
    <3>3. OpenAIWhole(OpenAIStream(answer), blocks, text, calls)
      BY <1>2, <3>1, <3>2, OpenAIComplete
    <3>4. QED BY <3>1, <3>3 DEF OpenAIWhole
  <2>2. QED BY <1>1, <1>4, <2>1
<1>5. QED BY <1>3, <1>4

\* Whatever the texts, the sizes of the pieces and the number of blocks: the client of a
\* stream can put the answer together again (openai_stream_generator and
\* anthropic_stream_generator cut it).
THEOREM StreamsAreWhole == StreamInit /\ [][StreamNext]_streamVars => []StreamIsComplete
<1>1. StreamInit => StreamInv
  BY DEF StreamInit, StreamInv
<1>2. StreamInv /\ [StreamNext]_streamVars => StreamInv'
  BY DEF StreamInv, StreamNext, Handle, streamVars
<1>3. QED BY <1>1, <1>2, StreamInvComplete, PTL

=============================================================================
