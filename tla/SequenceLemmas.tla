---------------------------- MODULE SequenceLemmas ----------------------------
(***************************************************************************)
(* Lemmas on sequences that the proofs share: induction in a form that the   *)
(* provers can use, what FlattenSeq and Those return, functions that are     *)
(* defined step by step, and sorting by an order of the places.              *)
(***************************************************************************)
EXTENDS Integers, FiniteSets, Sequences, SequencesExt, Selections,
        SequenceTheorems, FiniteSetTheorems, WellFoundedInduction, TLAPS

-----------------------------------------------------------------------------
\* Induction, for a set of numbers instead of a predicate.
LEMMA CountingUp ==
  ASSUME NEW P, 0 \in P, \A n \in Nat : n \in P => n + 1 \in P
  PROVE  \A n \in Nat : n \in P
<1> DEFINE R == {p \in Nat \X Nat : p[1] < p[2]}
           Bad == Nat \ P
<1>1. IsWellFoundedOn(R, Nat)
  BY NatLessThanWellFounded DEF OpToRel
<1> SUFFICES ASSUME Bad # {} PROVE FALSE
  OBVIOUS
<1> HIDE DEF R
<1>2. PICK n \in Bad : \A m \in Bad : ~(<<m, n>> \in R)
  <2>1. Bad \in SUBSET Nat
    OBVIOUS
  <2> HIDE DEF Bad
  <2>2. QED BY <1>1, <2>1, WFMin
<1>3. \A m \in Bad : ~(m < n)
  BY <1>2 DEF R
<1>4. n # 0 /\ n - 1 \in Nat
  OBVIOUS
<1>5. n - 1 \in P
  BY <1>3, <1>4
<1>6. n - 1 + 1 \in P
  BY <1>4, <1>5
<1>7. QED BY <1>6

-----------------------------------------------------------------------------
\* FlattenSeq concatenates, from left to right: f holds what there is so far.
Flat(ss, f) == f = [i \in 1 .. Len(ss) |-> IF i = 1 THEN ss[i] ELSE f[i - 1] \o ss[i]]

\* What is there of f at one place.
LEMMA FlatAt ==
  ASSUME NEW ss, NEW f, Flat(ss, f), NEW i \in 1 .. Len(ss)
  PROVE  f[i] = IF i = 1 THEN ss[i] ELSE f[i - 1] \o ss[i]
BY DEF Flat

\* Sequences that begin alike have the same sums as far as they do.
LEMMA FlatAgrees ==
  ASSUME NEW ss, NEW tt, NEW f, NEW g,
         Len(ss) \in Nat, Len(tt) \in 0 .. Len(ss), \A i \in 1 .. Len(tt) : ss[i] = tt[i],
         Flat(ss, f), Flat(tt, g)
  PROVE  \A i \in 1 .. Len(tt) : f[i] = g[i]
<1> DEFINE P == {n \in Nat : n \in 1 .. Len(tt) => f[n] = g[n]}
<1>1. Len(tt) \in Nat /\ Len(ss) \in Nat
  OBVIOUS
<1>2. ASSUME NEW n \in Nat, n \in P, n + 1 \in 1 .. Len(tt)
      PROVE  f[n + 1] = g[n + 1]
  <2>1. n + 1 \in 1 .. Len(ss) /\ ss[n + 1] = tt[n + 1]
    BY <1>1, <1>2
  <2>2. /\ f[n + 1] = IF n + 1 = 1 THEN ss[n + 1] ELSE f[n + 1 - 1] \o ss[n + 1]
        /\ g[n + 1] = IF n + 1 = 1 THEN tt[n + 1] ELSE g[n + 1 - 1] \o tt[n + 1]
    BY <2>1, <1>2, FlatAt
  <2>3. n # 0 => n + 1 - 1 = n /\ f[n] = g[n]
    BY <1>1, <1>2
  <2>4. QED BY <2>1, <2>2, <2>3
<1>3. \A n \in Nat : n \in P
  <2>1. 0 \in P
    BY <1>1
  <2>2. ASSUME NEW n \in Nat, n \in P PROVE n + 1 \in P
    <3>1. n + 1 \in 1 .. Len(tt) => f[n + 1] = g[n + 1]
      BY <1>2, <2>2
    <3>2. QED BY <3>1
  <2> HIDE DEF P
  <2>3. QED BY <2>1, <2>2, CountingUp
<1>4. QED BY <1>1, <1>3

\* The sum of one more piece is the sum before it, and the piece.
LEMMA FlatGrows ==
  ASSUME NEW ss, NEW tt, NEW f, NEW g, Flat(ss, f), Flat(tt, g),
         Len(ss) \in Nat \ {0}, Len(tt) = Len(ss) + 1,
         \A i \in 1 .. Len(ss) : tt[i] = ss[i]
  PROVE  g[Len(tt)] = f[Len(ss)] \o tt[Len(tt)]
<1>1. /\ Len(tt) \in 1 .. Len(tt) /\ Len(tt) # 1 /\ Len(tt) - 1 = Len(ss)
      /\ Len(tt) \in Nat /\ Len(ss) \in 0 .. Len(tt) /\ Len(ss) \in 1 .. Len(ss)
  OBVIOUS
<1>2. g[Len(tt)] = IF Len(tt) = 1 THEN tt[Len(tt)] ELSE g[Len(tt) - 1] \o tt[Len(tt)]
  BY <1>1, FlatAt
<1>3. g[Len(ss)] = f[Len(ss)]
  <2>1. \A i \in 1 .. Len(ss) : g[i] = f[i]
    BY <1>1, FlatAgrees
  <2>2. QED BY <1>1, <2>1
<1>4. QED BY <1>1, <1>2, <1>3

\* There is such an f for every sequence of pieces.
LEMMA FlatExists ==
  ASSUME NEW S
  PROVE  \A ss \in Seq(Seq(S)) : \E f \in [1 .. Len(ss) -> Seq(S)] : Flat(ss, f)
<1> DEFINE P == {n \in Nat : \A ss \in Seq(Seq(S)) :
                   Len(ss) = n => \E f \in [1 .. n -> Seq(S)] : Flat(ss, f)}
<1>1. 0 \in P
  <2>1. ASSUME NEW ss \in Seq(Seq(S)), Len(ss) = 0
        PROVE  \E f \in [1 .. 0 -> Seq(S)] : Flat(ss, f)
    <3> DEFINE f == [i \in 1 .. 0 |-> <<>>]
    <3>1. f \in [1 .. 0 -> Seq(S)] /\ Flat(ss, f)
      BY <2>1 DEF Flat
    <3>2. QED BY <3>1
  <2>2. QED BY <2>1
<1>2. ASSUME NEW n \in Nat, n \in P, NEW ss \in Seq(Seq(S)), Len(ss) = n + 1
      PROVE  \E f \in [1 .. n + 1 -> Seq(S)] : Flat(ss, f)
  <2> DEFINE front == SubSeq(ss, 1, n)
  <2>1. front \in Seq(Seq(S)) /\ Len(front) = n /\ \A i \in 1 .. n : front[i] = ss[i]
    BY <1>2
  <2> HIDE DEF front
  <2>2. PICK f \in [1 .. n -> Seq(S)] : Flat(front, f)
    BY <1>2, <2>1
  <2> DEFINE last == IF n = 0 THEN ss[n + 1] ELSE f[n] \o ss[n + 1]
             g == [i \in 1 .. n + 1 |-> IF i <= n THEN f[i] ELSE last]
  <2>3. last \in Seq(S)
    <3>1. ss[n + 1] \in Seq(S)
      BY <1>2
    <3>2. n # 0 => f[n] \in Seq(S)
      OBVIOUS
    <3>3. QED BY <3>1, <3>2, ConcatProperties
  <2>4. g \in [1 .. n + 1 -> Seq(S)]
    BY <2>3
  <2>5. ASSUME NEW i \in 1 .. n + 1
        PROVE  g[i] = IF i = 1 THEN ss[i] ELSE g[i - 1] \o ss[i]
    <3>1. CASE i <= n
      <4>1. f[i] = IF i = 1 THEN front[i] ELSE f[i - 1] \o front[i]
        <5>1. i \in 1 .. Len(front)
          BY <2>1, <3>1
        <5>2. QED BY <2>2, <5>1, FlatAt
      <4>2. i # 1 => g[i - 1] = f[i - 1]
        BY <3>1
      <4>3. g[i] = f[i] /\ front[i] = ss[i]
        BY <2>1, <3>1
      <4> HIDE DEF g
      <4>4. QED BY <4>1, <4>2, <4>3
    <3>2. CASE i = n + 1
      <4>1. g[i] = last /\ (n # 0 => g[i - 1] = f[n])
        BY <3>2
      <4> HIDE DEF g
      <4>2. QED BY <3>2, <4>1
    <3>3. QED BY <3>1, <3>2
  <2>6. Flat(ss, g)
    <3>1. g = [i \in 1 .. n + 1 |-> IF i = 1 THEN ss[i] ELSE g[i - 1] \o ss[i]]
      <4>1. g = [i \in 1 .. n + 1 |-> g[i]]
        OBVIOUS
      <4> HIDE DEF g
      <4>2. QED BY <4>1, <2>5
    <3> HIDE DEF g
    <3>2. QED BY <3>1, <1>2 DEF Flat
  <2> HIDE DEF g
  <2>7. QED BY <2>4, <2>6
<1>3. \A n \in Nat : n \in P
  <2>1. ASSUME NEW n \in Nat, n \in P PROVE n + 1 \in P
    <3>1. n + 1 \in Nat
      OBVIOUS
    <3>2. QED BY <1>2, <2>1, <3>1
  <2> HIDE DEF P
  <2>2. QED BY <1>1, <2>1, CountingUp
<1>4. QED
  <2>1. \A ss \in Seq(Seq(S)) : Len(ss) \in Nat
    OBVIOUS
  <2>2. QED BY <2>1, <1>3

\* FlattenSeq takes the last of the sums.
LEMMA FlattenValue ==
  ASSUME NEW S, NEW ss \in Seq(Seq(S)), NEW f, Flat(ss, f)
  PROVE  FlattenSeq(ss) = IF Len(ss) = 0 THEN ss ELSE f[Len(ss)]
<1> DEFINE g == CHOOSE h : Flat(ss, h)
<1>1. FlattenSeq(ss) = IF Len(ss) = 0 THEN ss ELSE g[Len(ss)]
  BY DEF FlattenSeq, Flat
<1>2. Flat(ss, g)
  OBVIOUS
<1> HIDE DEF g
<1>3. Len(ss) # 0 => f[Len(ss)] = g[Len(ss)]
  <2>1. Len(ss) \in Nat /\ Len(ss) \in 0 .. Len(ss)
    OBVIOUS
  <2>2. \A i \in 1 .. Len(ss) : f[i] = g[i]
    BY <1>2, <2>1, FlatAgrees
  <2>3. QED BY <2>1, <2>2
<1>4. QED BY <1>1, <1>3

\* The laws of FlattenSeq.  No pieces add up to nothing.
LEMMA FlattenNone == FlattenSeq(<<>>) = <<>>
BY DEF FlattenSeq

\* Pieces over a set add up to a sequence over it.
LEMMA FlattenType ==
  ASSUME NEW S, NEW ss \in Seq(Seq(S))
  PROVE  FlattenSeq(ss) \in Seq(S)
<1>1. PICK f \in [1 .. Len(ss) -> Seq(S)] : Flat(ss, f)
  BY FlatExists
<1>2. FlattenSeq(ss) = IF Len(ss) = 0 THEN ss ELSE f[Len(ss)]
  BY <1>1, FlattenValue
<1>3. Len(ss) = 0 => ss = <<>>
  OBVIOUS
<1>4. Len(ss) # 0 => f[Len(ss)] \in Seq(S)
  <2>1. Len(ss) # 0 => Len(ss) \in 1 .. Len(ss)
    OBVIOUS
  <2>2. \A i \in 1 .. Len(ss) : f[i] \in Seq(S)
    OBVIOUS
  <2>3. QED BY <2>1, <2>2
<1>5. <<>> \in Seq(S)
  OBVIOUS
<1>6. QED BY <1>2, <1>3, <1>4, <1>5

\* A sequence with one piece more adds up to what there was and that piece.
LEMMA FlattenOneMore ==
  ASSUME NEW S, NEW ss \in Seq(Seq(S)), NEW tt \in Seq(Seq(S)),
         Len(tt) = Len(ss) + 1, \A i \in 1 .. Len(ss) : tt[i] = ss[i]
  PROVE  FlattenSeq(tt) = FlattenSeq(ss) \o tt[Len(tt)]
<1>1. PICK f : Flat(ss, f)
  BY FlatExists
<1>2. PICK g : Flat(tt, g)
  BY FlatExists
<1>3. Len(ss) \in Nat /\ Len(tt) # 0 /\ Len(tt) \in 1 .. Len(tt)
  OBVIOUS
<1>4. FlattenSeq(tt) = g[Len(tt)]
  BY <1>2, <1>3, FlattenValue
<1>5. FlattenSeq(ss) = IF Len(ss) = 0 THEN ss ELSE f[Len(ss)]
  BY <1>1, FlattenValue
<1>6. tt[Len(tt)] \in Seq(S)
  BY <1>3
<1>7. CASE Len(ss) = 0
  <2>1. ss = <<>> /\ Len(tt) = 1
    BY <1>7
  <2>2. g[Len(tt)] = tt[Len(tt)]
    BY <1>2, <1>3, <2>1, FlatAt
  <2>3. <<>> \o tt[Len(tt)] = tt[Len(tt)]
    BY <1>6
  <2>4. QED BY <1>4, <1>5, <1>7, <2>1, <2>2, <2>3
<1>8. CASE Len(ss) # 0
  <2>1. Len(ss) \in Nat \ {0} /\ Len(tt) = Len(ss) + 1 /\ \A i \in 1 .. Len(ss) : tt[i] = ss[i]
    BY <1>3, <1>8
  <2>2. g[Len(tt)] = f[Len(ss)] \o tt[Len(tt)]
    BY ONLY <1>1, <1>2, <2>1, FlatGrows
  <2>3. QED BY <1>4, <1>5, <1>8, <2>2
<1>9. QED BY <1>7, <1>8

\* The same with Append.
LEMMA FlattenAppend ==
  ASSUME NEW S, NEW ss \in Seq(Seq(S)), NEW s \in Seq(S)
  PROVE  FlattenSeq(Append(ss, s)) = FlattenSeq(ss) \o s
<1>1. Append(ss, s) \in Seq(Seq(S))
  OBVIOUS
<1>2. PICK tt \in Seq(Seq(S)) : tt = Append(ss, s)
  BY <1>1
<1>3. Len(tt) = Len(ss) + 1 /\ (\A i \in 1 .. Len(ss) : tt[i] = ss[i]) /\ tt[Len(tt)] = s
  BY <1>2
<1>4. FlattenSeq(tt) = FlattenSeq(ss) \o tt[Len(tt)]
  BY <1>3, FlattenOneMore
<1>5. QED BY <1>2, <1>3, <1>4

\* Sequences of pieces one after the other add up to their sums one after the other.
LEMMA FlattenConcat ==
  ASSUME NEW S, NEW ss \in Seq(Seq(S))
  PROVE  \A tt \in Seq(Seq(S)) : FlattenSeq(ss \o tt) = FlattenSeq(ss) \o FlattenSeq(tt)
<1> DEFINE P == {n \in Nat : \A tt \in Seq(Seq(S)) :
                   Len(tt) = n => FlattenSeq(ss \o tt) = FlattenSeq(ss) \o FlattenSeq(tt)}
<1>1. 0 \in P
  <2>1. ASSUME NEW tt \in Seq(Seq(S)), Len(tt) = 0
        PROVE  FlattenSeq(ss \o tt) = FlattenSeq(ss) \o FlattenSeq(tt)
    <3>1. tt = <<>> /\ ss \o <<>> = ss
      BY <2>1
    <3>2. FlattenSeq(ss) \o <<>> = FlattenSeq(ss)
      BY FlattenType, ConcatEmptySeq
    <3>3. QED BY <3>1, <3>2, FlattenNone
  <2>2. QED BY <2>1
<1>2. ASSUME NEW n \in Nat, n \in P, NEW tt \in Seq(Seq(S)), Len(tt) = n + 1
      PROVE  FlattenSeq(ss \o tt) = FlattenSeq(ss) \o FlattenSeq(tt)
  <2>1. tt # <<>>
    BY <1>2
  <2>2. PICK uu \in Seq(Seq(S)), u \in Seq(S) : tt = Append(uu, u)
    BY <2>1, SequenceEmptyOrAppend
  <2>3. Len(uu) = n
    BY <1>2, <2>2
  <2>4. FlattenSeq(ss \o uu) = FlattenSeq(ss) \o FlattenSeq(uu)
    BY <1>2, <2>3
  <2>5. ss \o tt = Append(ss \o uu, u) /\ ss \o uu \in Seq(Seq(S))
    BY <2>2
  <2>6. FlattenSeq(ss \o tt) = (FlattenSeq(ss) \o FlattenSeq(uu)) \o u
    BY <2>4, <2>5, FlattenAppend
  <2>7. (FlattenSeq(ss) \o FlattenSeq(uu)) \o u = FlattenSeq(ss) \o (FlattenSeq(uu) \o u)
    <3>1. FlattenSeq(ss) \in Seq(S) /\ FlattenSeq(uu) \in Seq(S) /\ u \in Seq(S)
      BY <2>2, FlattenType
    <3>2. QED BY <3>1, ConcatAssociative
  <2>8. FlattenSeq(tt) = FlattenSeq(uu) \o u
    BY <2>2, FlattenAppend
  <2>9. QED BY <2>6, <2>7, <2>8
<1>3. \A n \in Nat : n \in P
  <2>1. ASSUME NEW n \in Nat, n \in P PROVE n + 1 \in P
    <3>1. n + 1 \in Nat
      OBVIOUS
    <3>2. QED BY <1>2, <2>1, <3>1
  <2> HIDE DEF P
  <2>2. QED BY <1>1, <2>1, CountingUp
<1>4. QED
  <2>1. \A tt \in Seq(Seq(S)) : Len(tt) \in Nat
    OBVIOUS
  <2>2. QED BY <2>1, <1>3

\* One piece adds up to itself.
LEMMA FlattenOne ==
  ASSUME NEW S, NEW s \in Seq(S)
  PROVE  FlattenSeq(<<s>>) = s
<1>1. <<s>> = Append(<<>>, s) /\ <<>> \in Seq(Seq(S)) /\ <<>> \o s = s
  OBVIOUS
<1>2. QED BY <1>1, FlattenAppend, FlattenNone

\* A piece in front of others.
LEMMA FlattenCons ==
  ASSUME NEW S, NEW s \in Seq(S), NEW ss \in Seq(Seq(S))
  PROVE  <<s>> \o ss \in Seq(Seq(S)) /\ FlattenSeq(<<s>> \o ss) = s \o FlattenSeq(ss)
<1>1. <<s>> \in Seq(Seq(S))
  OBVIOUS
<1>2. FlattenSeq(<<s>>) = s
  BY FlattenOne
<1>3. <<s>> \o ss \in Seq(Seq(S))
  BY <1>1, ConcatProperties
<1>4. FlattenSeq(<<s>> \o ss) = FlattenSeq(<<s>>) \o FlattenSeq(ss)
  BY <1>1, FlattenConcat
<1>5. QED BY <1>2, <1>3, <1>4

\* Nothing but empty pieces adds up to nothing, and one piece among empty ones to itself.
LEMMA FlattenLone ==
  ASSUME NEW S
  PROVE  \A ss \in Seq(Seq(S)) :
           /\ (\A j \in 1 .. Len(ss) : ss[j] = <<>>) => FlattenSeq(ss) = <<>>
           /\ \A i \in 1 .. Len(ss) :
                (\A j \in 1 .. Len(ss) : j # i => ss[j] = <<>>) => FlattenSeq(ss) = ss[i]
<1> DEFINE None(ss) == \A j \in 1 .. Len(ss) : ss[j] = <<>>
           Lone(ss, i) == \A j \in 1 .. Len(ss) : j # i => ss[j] = <<>>
           Good(ss) == /\ None(ss) => FlattenSeq(ss) = <<>>
                       /\ \A i \in 1 .. Len(ss) : Lone(ss, i) => FlattenSeq(ss) = ss[i]
           P == {n \in Nat : \A ss \in Seq(Seq(S)) : Len(ss) = n => Good(ss)}
<1>1. 0 \in P
  <2>1. ASSUME NEW ss \in Seq(Seq(S)), Len(ss) = 0 PROVE Good(ss)
    <3>1. ss = <<>>
      BY <2>1
    <3>2. QED BY <2>1, <3>1, FlattenNone
  <2> HIDE DEF Good
  <2>2. QED BY <2>1
<1>2. ASSUME NEW n \in Nat, n \in P, NEW ss \in Seq(Seq(S)), Len(ss) = n + 1
      PROVE  Good(ss)
  <2>1. ss # <<>>
    BY <1>2
  <2>2. PICK tt \in Seq(Seq(S)), t \in Seq(S) : ss = Append(tt, t)
    BY <2>1, SequenceEmptyOrAppend
  <2>3. /\ Len(tt) = n /\ Len(ss) = n + 1 /\ ss[n + 1] = t
        /\ \A j \in 1 .. n : ss[j] = tt[j]
    BY <1>2, <2>2
  <2>4. Good(tt)
    <3> HIDE DEF Good
    <3>1. QED BY <1>2, <2>3
  <2>5. FlattenSeq(ss) = FlattenSeq(tt) \o t
    BY <2>2, FlattenAppend
  <2>6. FlattenSeq(tt) \in Seq(S)
    BY <2>2, FlattenType
  <2>7. FlattenSeq(tt) \o <<>> = FlattenSeq(tt) /\ <<>> \o t = t
    BY <2>2, <2>6, ConcatEmptySeq
  <2>8. None(ss) => FlattenSeq(ss) = <<>>
    BY <2>3, <2>4, <2>5, <2>7
  <2>9. ASSUME NEW i \in 1 .. Len(ss), Lone(ss, i) PROVE FlattenSeq(ss) = ss[i]
    <3>1. CASE i = n + 1
      <4>1. None(tt)
        <5>1. \A j \in 1 .. n : j \in 1 .. Len(ss) /\ j # i
          BY <2>3, <3>1
        <5>2. QED BY <2>3, <2>9, <5>1
      <4>2. QED BY <2>3, <2>4, <2>5, <2>7, <3>1, <4>1
    <3>2. CASE i <= n
      <4>1. Lone(tt, i) /\ t = <<>> /\ i \in 1 .. Len(tt)
        <5>1. /\ i \in 1 .. n /\ n + 1 \in 1 .. Len(ss) /\ n + 1 # i
              /\ \A j \in 1 .. n : j \in 1 .. Len(ss)
          BY <2>3, <3>2
        <5>2. QED BY <2>3, <2>9, <5>1
      <4>2. FlattenSeq(tt) = tt[i]
        BY <2>4, <4>1
      <4>3. ss[i] = tt[i]
        BY <2>3, <4>1
      <4>4. QED BY <2>5, <2>7, <4>1, <4>2, <4>3
    <3>3. QED BY <2>3, <3>1, <3>2
  <2>10. QED BY <2>8, <2>9
<1>3. \A n \in Nat : n \in P
  <2> HIDE DEF Good
  <2>1. ASSUME NEW n \in Nat, n \in P PROVE n + 1 \in P
    <3>1. n + 1 \in Nat
      OBVIOUS
    <3>2. QED BY <1>2, <2>1, <3>1
  <2> HIDE DEF P
  <2>2. QED BY <1>1, <2>1, CountingUp
<1>4. QED
  <2>1. \A ss \in Seq(Seq(S)) : Len(ss) \in Nat
    OBVIOUS
  <2> HIDE DEF Good
  <2>2. \A ss \in Seq(Seq(S)) : Good(ss)
    BY <2>1, <1>3
  <2>3. QED BY <2>2 DEF Good

-----------------------------------------------------------------------------
\* Induction on a sequence that grows at its end, for a set of sequences.
LEMMA Appending ==
  ASSUME NEW S, NEW P, <<>> \in P,
         \A s \in Seq(S), x \in S : s \in P => Append(s, x) \in P
  PROVE  \A s \in Seq(S) : s \in P
<1> DEFINE Q == {n \in Nat : \A s \in Seq(S) : Len(s) = n => s \in P}
<1>1. 0 \in Q
  OBVIOUS
<1>2. ASSUME NEW n \in Nat, n \in Q PROVE n + 1 \in Q
  <2>1. ASSUME NEW s \in Seq(S), Len(s) = n + 1 PROVE s \in P
    <3>1. s # <<>>
      BY <2>1
    <3>2. PICK t \in Seq(S), x \in S : s = Append(t, x)
      BY <3>1, SequenceEmptyOrAppend
    <3>3. Len(t) = n
      BY <2>1, <3>2
    <3>4. QED BY <1>2, <3>2, <3>3
  <2>2. QED BY <2>1
<1>3. \A n \in Nat : n \in Q
  <2> HIDE DEF Q
  <2>1. QED BY <1>1, <1>2, CountingUp
<1>4. QED BY <1>3

\* What is in a sequence with one element more, and whether it has one twice.
LEMMA AppendHolds ==
  ASSUME NEW S, NEW s \in Seq(S), NEW x \in S
  PROVE  /\ ToSet(Append(s, x)) = ToSet(s) \cup {x}
         /\ IsInjective(Append(s, x)) <=> IsInjective(s) /\ x \notin ToSet(s)
<1> DEFINE t == Append(s, x)
           L == Len(s)
<1>1. /\ L \in Nat /\ DOMAIN s = 1 .. L /\ DOMAIN t = 1 .. L + 1
      /\ t[L + 1] = x /\ \A i \in 1 .. L : t[i] = s[i]
  OBVIOUS
<1> HIDE DEF t, L
<1>2. ToSet(s) = {s[i] : i \in 1 .. L} /\ ToSet(t) = {t[i] : i \in 1 .. L + 1}
  BY <1>1 DEF ToSet
<1>3. \A i \in 1 .. L + 1 : i = L + 1 \/ i \in 1 .. L
  BY <1>1
<1>4. L + 1 \in 1 .. L + 1 /\ L + 1 \notin 1 .. L /\ \A i \in 1 .. L : i \in 1 .. L + 1
  BY <1>1
<1>5. ToSet(t) = ToSet(s) \cup {x}
  BY ONLY <1>1, <1>2, <1>3, <1>4
<1>6. /\ IsInjective(s) <=> \A a, b \in 1 .. L : s[a] = s[b] => a = b
      /\ IsInjective(t) <=> \A a, b \in 1 .. L + 1 : t[a] = t[b] => a = b
  BY <1>1 DEF IsInjective
<1>7. ASSUME \A a, b \in 1 .. L + 1 : t[a] = t[b] => a = b
      PROVE  (\A a, b \in 1 .. L : s[a] = s[b] => a = b) /\ x \notin ToSet(s)
  BY ONLY <1>1, <1>2, <1>4, <1>7
<1>8. ASSUME \A a, b \in 1 .. L : s[a] = s[b] => a = b, x \notin ToSet(s)
      PROVE  \A a, b \in 1 .. L + 1 : t[a] = t[b] => a = b
  BY ONLY <1>1, <1>2, <1>3, <1>8
<1>9. QED BY <1>5, <1>6, <1>7, <1>8 DEF t

\* Concatenation and one element more.
LEMMA ConcatAppend ==
  ASSUME NEW S, NEW s \in Seq(S), NEW t \in Seq(S), NEW x \in S
  PROVE  s \o Append(t, x) = Append(s \o t, x)
<1>1. s \o t \in Seq(S) /\ <<x>> \in Seq(S)
  BY ConcatProperties
<1>2. Append(t, x) = t \o <<x>> /\ Append(s \o t, x) = (s \o t) \o <<x>>
  BY <1>1, AppendIsConcat
<1>3. (s \o t) \o <<x>> = s \o (t \o <<x>>)
  BY <1>1, ConcatAssociative
<1>4. QED BY <1>2, <1>3

\* What is in two sequences one after the other, and whether they have something twice.
LEMMA ConcatHolds ==
  ASSUME NEW S, NEW s \in Seq(S)
  PROVE  \A t \in Seq(S) :
           /\ ToSet(s \o t) = ToSet(s) \cup ToSet(t)
           /\ IsInjective(s) /\ IsInjective(t) /\ ToSet(s) \cap ToSet(t) = {}
                => IsInjective(s \o t)
<1> DEFINE Good(t) ==
             /\ ToSet(s \o t) = ToSet(s) \cup ToSet(t)
             /\ IsInjective(s) /\ IsInjective(t) /\ ToSet(s) \cap ToSet(t) = {}
                  => IsInjective(s \o t)
           P == {t \in Seq(S) : Good(t)}
<1>1. <<>> \in P
  <2>1. s \o <<>> = s /\ <<>> \in Seq(S)
    BY ConcatEmptySeq
  <2>2. ToSet(<<>>) = {}
    BY DEF ToSet
  <2>3. QED BY <2>1, <2>2
<1>2. ASSUME NEW t \in Seq(S), NEW x \in S, t \in P PROVE Append(t, x) \in P
  <2>1. s \o t \in Seq(S)
    BY ConcatProperties
  <2>2. s \o Append(t, x) = Append(s \o t, x)
    BY ConcatAppend
  <2>3. /\ ToSet(Append(t, x)) = ToSet(t) \cup {x}
        /\ IsInjective(Append(t, x)) <=> IsInjective(t) /\ x \notin ToSet(t)
    BY AppendHolds
  <2>4. /\ ToSet(Append(s \o t, x)) = ToSet(s \o t) \cup {x}
        /\ IsInjective(Append(s \o t, x)) <=> IsInjective(s \o t) /\ x \notin ToSet(s \o t)
    BY <2>1, AppendHolds
  <2>5. Good(t) /\ Append(t, x) \in Seq(S)
    BY <1>2
  <2>6. QED BY <2>2, <2>3, <2>4, <2>5
<1>3. \A t \in Seq(S) : t \in P
  <2> HIDE DEF P
  <2>1. QED BY <1>1, <1>2, Appending
<1>4. QED BY <1>3

\* What is in many sequences one after the other, and whether they have something twice.
Disjoint(ss) ==
  \A m, n \in 1 .. Len(ss) :
    /\ IsInjective(ss[m])
    /\ m # n => ToSet(ss[m]) \cap ToSet(ss[n]) = {}

\* What they hold, one by one.
LEMMA FlattenHolds ==
  ASSUME NEW S
  PROVE  \A ss \in Seq(Seq(S)) :
           /\ \A x : x \in ToSet(FlattenSeq(ss)) <=> \E n \in 1 .. Len(ss) : x \in ToSet(ss[n])
           /\ Disjoint(ss) => IsInjective(FlattenSeq(ss))
<1> DEFINE In(x, ss) == \E n \in 1 .. Len(ss) : x \in ToSet(ss[n])
           Good(ss) == /\ \A x : x \in ToSet(FlattenSeq(ss)) <=> In(x, ss)
                       /\ Disjoint(ss) => IsInjective(FlattenSeq(ss))
           P == {ss \in Seq(Seq(S)) : Good(ss)}
<1>1. <<>> \in P
  <2>1. ToSet(<<>>) = {} /\ IsInjective(<<>>)
    BY DEF ToSet, IsInjective
  <2>2. <<>> \in Seq(Seq(S)) /\ Len(<<>>) = 0
    OBVIOUS
  <2>3. QED BY <2>1, <2>2, FlattenNone
<1>2. ASSUME NEW ss, NEW s, ss \in Seq(Seq(S)), s \in Seq(S), ss \in P PROVE Append(ss, s) \in P
  <2>1. PICK tt : tt = Append(ss, s)
    OBVIOUS
  <2>2. /\ tt \in Seq(Seq(S)) /\ Len(ss) \in Nat /\ Len(tt) = Len(ss) + 1
        /\ tt[Len(ss) + 1] = s /\ \A n \in 1 .. Len(ss) : tt[n] = ss[n]
    BY <1>2, <2>1
  <2>3. FlattenSeq(tt) = FlattenSeq(ss) \o s /\ FlattenSeq(ss) \in Seq(S)
    BY <1>2, <2>1, FlattenAppend, FlattenType
  <2>4. /\ ToSet(FlattenSeq(tt)) = ToSet(FlattenSeq(ss)) \cup ToSet(s)
        /\ IsInjective(FlattenSeq(ss)) /\ IsInjective(s) /\ ToSet(FlattenSeq(ss)) \cap ToSet(s) = {}
             => IsInjective(FlattenSeq(tt))
    BY <1>2, <2>3, ConcatHolds
  <2>5. Good(ss)
    BY <1>2
  <2>6. /\ \A n \in 1 .. Len(tt) : n = Len(tt) \/ n \in 1 .. Len(ss)
        /\ Len(tt) \in 1 .. Len(tt) /\ \A n \in 1 .. Len(ss) : n \in 1 .. Len(tt) /\ n # Len(tt)
    BY <2>2
  <2>7. ASSUME NEW x PROVE In(x, tt) <=> In(x, ss) \/ x \in ToSet(s)
    BY ONLY <2>2, <2>6 DEF In
  <2>8. ASSUME Disjoint(tt)
        PROVE  Disjoint(ss) /\ IsInjective(s) /\ \A n \in 1 .. Len(ss) : ToSet(ss[n]) \cap ToSet(s) = {}
    BY ONLY <2>2, <2>6, <2>8 DEF Disjoint
  <2>9. \A x : x \in ToSet(FlattenSeq(tt)) <=> In(x, tt)
    BY <2>4, <2>5, <2>7
  <2>10. ASSUME Disjoint(tt) PROVE IsInjective(FlattenSeq(tt))
    <3>1. ToSet(FlattenSeq(ss)) \cap ToSet(s) = {}
      BY <2>5, <2>8, <2>10
    <3>2. QED BY <2>4, <2>5, <2>8, <2>10, <3>1
  <2>11. QED BY <2>1, <2>2, <2>9, <2>10
<1>3. \A ss \in Seq(Seq(S)) : ss \in P
  <2> HIDE DEF P
  <2>1. QED BY <1>1, <1>2, Appending
<1>4. QED BY <1>3

-----------------------------------------------------------------------------
\* A function may be defined from 0 up, each value by the one before.
Unfolds(L, a, W, f) == f = [n \in 0 .. L |-> IF n = 0 THEN a ELSE W[<<f[n - 1], n>>]]

\* There is such a function if W stays within a set.
LEMMA UnfoldExists ==
  ASSUME NEW L \in Nat, NEW A, NEW a \in A, NEW W \in [A \X (1 .. L) -> A]
  PROVE  \E f \in [0 .. L -> A] : Unfolds(L, a, W, f)
<1> DEFINE At(f, n) == f[n] = IF n = 0 THEN a ELSE W[<<f[n - 1], n>>]
           P == {k \in Nat : k <= L => \E f \in [0 .. L -> A] : \A n \in 0 .. k : At(f, n)}
<1>1. 0 \in P
  <2>1. [n \in 0 .. L |-> a] \in [0 .. L -> A]
    OBVIOUS
  <2>2. \A n \in 0 .. 0 : At([m \in 0 .. L |-> a], n)
    OBVIOUS
  <2>3. QED BY <2>1, <2>2
<1>2. ASSUME NEW k \in Nat, k \in P PROVE k + 1 \in P
  <2>1. ASSUME k + 1 <= L PROVE \E g \in [0 .. L -> A] : \A n \in 0 .. k + 1 : At(g, n)
    <3>1. PICK f \in [0 .. L -> A] : \A n \in 0 .. k : At(f, n)
      BY <1>2, <2>1
    <3> DEFINE new == W[<<f[k], k + 1>>]
               g == [n \in 0 .. L |-> IF n = k + 1 THEN new ELSE f[n]]
    <3>2. k \in 0 .. L /\ k + 1 \in 1 .. L /\ k + 1 \in 0 .. L
      BY <2>1
    <3>3. new \in A
      BY <3>2
    <3> HIDE DEF new
    <3>4. g \in [0 .. L -> A]
      BY <3>3
    <3>5. g[k + 1] = new /\ \A n \in 0 .. L : n # k + 1 => g[n] = f[n]
      BY <3>2
    <3> HIDE DEF g
    <3>6. ASSUME NEW n \in 0 .. k PROVE At(g, n)
      <4>1. n \in 0 .. L /\ n # k + 1 /\ (n # 0 => n - 1 \in 0 .. L /\ n - 1 # k + 1)
        BY <2>1
      <4>2. g[n] = f[n] /\ (n # 0 => g[n - 1] = f[n - 1])
        BY <3>5, <4>1
      <4>3. At(f, n)
        BY <3>1
      <4>4. QED BY <4>2, <4>3
    <3>7. At(g, k + 1)
      <4>1. k + 1 # 0 /\ (k + 1) - 1 = k /\ k # k + 1
        OBVIOUS
      <4>2. g[k] = f[k] /\ g[k + 1] = W[<<f[k], k + 1>>]
        BY <3>2, <3>5, <4>1 DEF new
      <4>3. QED BY <4>1, <4>2
    <3>8. \A n \in 0 .. k + 1 : n = k + 1 \/ n \in 0 .. k
      OBVIOUS
    <3> HIDE DEF At
    <3>9. \A n \in 0 .. k + 1 : At(g, n)
      BY <3>6, <3>7, <3>8
    <3>10. QED BY <3>4, <3>9
  <2>2. QED BY <2>1
<1>3. \A k \in Nat : k \in P
  <2> HIDE DEF P
  <2>1. QED BY <1>1, <1>2, CountingUp
<1>4. PICK f \in [0 .. L -> A] : \A n \in 0 .. L : At(f, n)
  <2>1. L \in P
    BY <1>3
  <2> HIDE DEF At
  <2>2. QED BY <2>1
<1>5. f = [n \in 0 .. L |-> IF n = 0 THEN a ELSE W[<<f[n - 1], n>>]]
  <2>1. f = [n \in 0 .. L |-> f[n]]
    OBVIOUS
  <2>2. \A n \in 0 .. L : f[n] = IF n = 0 THEN a ELSE W[<<f[n - 1], n>>]
    BY <1>4
  <2>3. QED BY ONLY <2>1, <2>2
<1>6. QED BY <1>5 DEF Unfolds


-----------------------------------------------------------------------------
(* What is taken out of a sequence.                                         *)

\* Of nothing there are none in a set, ...
LEMMA ThoseEmpty == ASSUME NEW S PROVE Those(<<>>, S) = <<>>
<1>1. [n \in DOMAIN <<>> |-> IF <<>>[n] \in S THEN <<(<<>>)[n]>> ELSE <<>>] = <<>>
  OBVIOUS
<1>2. QED BY <1>1, FlattenNone DEF Those

\* ... and an element more is there if it is in the set.
LEMMA ThoseAppend ==
  ASSUME NEW T, NEW S, NEW s \in Seq(T), NEW x \in T
  PROVE  /\ Those(s, S) \in Seq(T)
         /\ Those(Append(s, x), S) = IF x \in S THEN Append(Those(s, S), x) ELSE Those(s, S)
<1> DEFINE one(y) == IF y \in S THEN <<y>> ELSE <<>>
           pieces(u) == [n \in DOMAIN u |-> one(u[n])]
<1>1. \A y \in T : one(y) \in Seq(T)
  OBVIOUS
<1> HIDE DEF one
<1>2. /\ pieces(s) \in Seq(Seq(T)) /\ Len(pieces(s)) = Len(s)
      /\ \A n \in 1 .. Len(s) : pieces(s)[n] = one(s[n])
  <2>1. Len(s) \in Nat /\ DOMAIN s = 1 .. Len(s) /\ \A n \in 1 .. Len(s) : s[n] \in T
    OBVIOUS
  <2>2. \A n \in 1 .. Len(s) : one(s[n]) \in Seq(T)
    BY <1>1, <2>1
  <2>3. pieces(s) = [n \in 1 .. Len(s) |-> one(s[n])]
    BY <2>1
  <2> HIDE DEF pieces
  <2>4. QED BY ONLY <2>1, <2>2, <2>3
<1> DEFINE t == Append(s, x)
<1>3. /\ t \in Seq(T) /\ Len(t) = Len(s) + 1 /\ t[Len(s) + 1] = x
      /\ \A n \in 1 .. Len(s) : t[n] = s[n]
  OBVIOUS
<1> HIDE DEF t
<1>4. /\ pieces(t) \in Seq(Seq(T)) /\ Len(pieces(t)) = Len(t)
      /\ \A n \in 1 .. Len(t) : pieces(t)[n] = one(t[n])
  <2>1. Len(t) \in Nat /\ DOMAIN t = 1 .. Len(t) /\ \A n \in 1 .. Len(t) : t[n] \in T
    BY <1>3
  <2>2. \A n \in 1 .. Len(t) : one(t[n]) \in Seq(T)
    BY <1>1, <2>1
  <2>3. pieces(t) = [n \in 1 .. Len(t) |-> one(t[n])]
    BY <2>1
  <2> HIDE DEF pieces
  <2>4. QED BY ONLY <2>1, <2>2, <2>3
<1>5. Those(s, S) = FlattenSeq(pieces(s)) /\ Those(t, S) = FlattenSeq(pieces(t))
  BY DEF Those, one
<1> HIDE DEF pieces
<1>6. FlattenSeq(pieces(t)) = FlattenSeq(pieces(s)) \o one(x)
  <2>1. Len(s) \in Nat
    OBVIOUS
  <2>2. /\ Len(pieces(t)) = Len(pieces(s)) + 1
        /\ \A n \in 1 .. Len(pieces(s)) : pieces(t)[n] = pieces(s)[n]
        /\ pieces(t)[Len(pieces(t))] = one(x)
    BY ONLY <1>2, <1>3, <1>4, <2>1
  <2>3. QED BY <1>2, <1>4, <2>2, FlattenOneMore
<1>7. FlattenSeq(pieces(s)) \in Seq(T)
  BY <1>2, FlattenType
<1>8. /\ FlattenSeq(pieces(s)) \o <<>> = FlattenSeq(pieces(s))
      /\ FlattenSeq(pieces(s)) \o <<x>> = Append(FlattenSeq(pieces(s)), x)
  BY <1>7, ConcatEmptySeq, AppendIsConcat
<1>9. QED BY <1>5, <1>6, <1>7, <1>8 DEF t, one

\* What is in Those, and whether it has something twice.
LEMMA ThoseHold ==
  ASSUME NEW T, NEW S
  PROVE  \A s \in Seq(T) : /\ Those(s, S) \in Seq(T)
                           /\ ToSet(Those(s, S)) = ToSet(s) \cap S
                           /\ IsInjective(s) => IsInjective(Those(s, S))
<1> DEFINE Good(s) == /\ Those(s, S) \in Seq(T)
                      /\ ToSet(Those(s, S)) = ToSet(s) \cap S
                      /\ IsInjective(s) => IsInjective(Those(s, S))
           P == {s \in Seq(T) : Good(s)}
<1>1. <<>> \in P
  <2>1. ToSet(<<>>) = {}
    BY DEF ToSet
  <2>2. <<>> \in Seq(T)
    OBVIOUS
  <2>3. QED BY <2>1, <2>2, ThoseEmpty
<1>2. ASSUME NEW s \in Seq(T), NEW x \in T, s \in P PROVE Append(s, x) \in P
  <2>1. Good(s) /\ Append(s, x) \in Seq(T)
    BY <1>2
  <2>2. Those(Append(s, x), S) = IF x \in S THEN Append(Those(s, S), x) ELSE Those(s, S)
    BY ThoseAppend
  <2>3. /\ ToSet(Append(s, x)) = ToSet(s) \cup {x}
        /\ IsInjective(Append(s, x)) <=> IsInjective(s) /\ x \notin ToSet(s)
    BY AppendHolds
  <2>4. /\ ToSet(Append(Those(s, S), x)) = ToSet(Those(s, S)) \cup {x}
        /\ IsInjective(Append(Those(s, S), x))
             <=> IsInjective(Those(s, S)) /\ x \notin ToSet(Those(s, S))
    BY <2>1, AppendHolds
  <2>5. Append(Those(s, S), x) \in Seq(T)
    BY <2>1
  <2>6. QED BY <2>1, <2>2, <2>3, <2>4, <2>5
<1>3. \A s \in Seq(T) : s \in P
  <2> HIDE DEF P
  <2>1. QED BY <1>1, <1>2, Appending
<1>4. QED BY <1>3

\* Only the elements of the sequence matter.
LEMMA ThoseSame ==
  ASSUME NEW s, NEW A, NEW B, \A x \in ToSet(s) : x \in A <=> x \in B
  PROVE  Those(s, A) = Those(s, B)
<1>1. \A n \in DOMAIN s : s[n] \in ToSet(s)
  BY DEF ToSet
<1>2. QED BY <1>1 DEF Those

\* None of them.
LEMMA ThoseNone ==
  ASSUME NEW T, NEW s \in Seq(T), NEW S, ToSet(s) \cap S = {}
  PROVE  Those(s, S) = <<>>
<1>1. Those(s, S) \in Seq(T) /\ ToSet(Those(s, S)) = {}
  BY ThoseHold
<1>2. ASSUME NEW t \in Seq(T), ToSet(t) = {} PROVE t = <<>>
  <2>1. \A n \in DOMAIN t : t[n] \in ToSet(t)
    BY DEF ToSet
  <2>2. Len(t) = 0
    <3>1. Len(t) \in Nat /\ (1 <= Len(t) => 1 \in DOMAIN t)
      OBVIOUS
    <3>2. QED BY <1>2, <2>1, <3>1
  <2>3. QED BY <2>2
<1>3. QED BY <1>1, <1>2

\* Those of those.
LEMMA ThoseTwice ==
  ASSUME NEW T, NEW A, NEW B
  PROVE  \A s \in Seq(T) : Those(Those(s, A), B) = Those(s, A \cap B)
<1> DEFINE P == {s \in Seq(T) : Those(Those(s, A), B) = Those(s, A \cap B)}
<1>1. <<>> \in P
  <2>1. <<>> \in Seq(T)
    OBVIOUS
  <2>2. QED BY <2>1, ThoseEmpty
<1>2. ASSUME NEW s \in Seq(T), NEW x \in T, s \in P PROVE Append(s, x) \in P
  <2>1. Those(s, A) \in Seq(T) /\ Append(s, x) \in Seq(T)
    BY ThoseHold
  <2>2. Those(Append(s, x), A) = IF x \in A THEN Append(Those(s, A), x) ELSE Those(s, A)
    BY ThoseAppend
  <2>3. Those(Append(s, x), A \cap B)
          = IF x \in A \cap B THEN Append(Those(s, A \cap B), x) ELSE Those(s, A \cap B)
    BY ThoseAppend
  <2>4. Those(Append(Those(s, A), x), B)
          = IF x \in B THEN Append(Those(Those(s, A), B), x) ELSE Those(Those(s, A), B)
    BY <2>1, ThoseAppend
  <2>5. Those(Those(s, A), B) = Those(s, A \cap B)
    BY <1>2
  <2>6. Those(Those(Append(s, x), A), B) = Those(Append(s, x), A \cap B)
    <3>1. CASE x \in A /\ x \in B
      BY <2>2, <2>3, <2>4, <2>5, <3>1
    <3>2. CASE x \in A /\ x \notin B
      BY <2>2, <2>3, <2>4, <2>5, <3>2
    <3>3. CASE x \notin A
      BY <2>2, <2>3, <2>5, <3>3
    <3>4. QED BY <3>1, <3>2, <3>3
  <2>7. QED BY <2>1, <2>6
<1>3. \A s \in Seq(T) : s \in P
  <2> HIDE DEF P
  <2>1. QED BY <1>1, <1>2, Appending
<1>4. QED BY <1>3

\* Those of two sequences one after the other.
LEMMA ThoseConcat ==
  ASSUME NEW T, NEW S, NEW s \in Seq(T)
  PROVE  \A t \in Seq(T) : Those(s \o t, S) = Those(s, S) \o Those(t, S)
<1> DEFINE P == {t \in Seq(T) : Those(s \o t, S) = Those(s, S) \o Those(t, S)}
<1>1. Those(s, S) \in Seq(T)
  BY ThoseHold
<1>2. <<>> \in P
  <2>1. s \o <<>> = s /\ Those(s, S) \o <<>> = Those(s, S) /\ <<>> \in Seq(T)
    BY <1>1, ConcatEmptySeq
  <2>2. QED BY <2>1, ThoseEmpty
<1>3. ASSUME NEW t \in Seq(T), NEW x \in T, t \in P PROVE Append(t, x) \in P
  <2>1. s \o t \in Seq(T) /\ Append(t, x) \in Seq(T) /\ Those(t, S) \in Seq(T)
    BY ConcatProperties, ThoseHold
  <2>2. s \o Append(t, x) = Append(s \o t, x)
    BY ConcatAppend
  <2>3. \A u \in Seq(T) :
          Those(Append(u, x), S) = IF x \in S THEN Append(Those(u, S), x) ELSE Those(u, S)
    BY ThoseAppend
  <2>4. Those(s \o t, S) = Those(s, S) \o Those(t, S)
    BY <1>3
  <2>5. \A a, b \in Seq(T) : a \o Append(b, x) = Append(a \o b, x)
    BY ConcatAppend
  <2>6. Those(s, S) \o Append(Those(t, S), x) = Append(Those(s, S) \o Those(t, S), x)
    BY <1>1, <2>1, <2>5
  <2>7. Those(s \o Append(t, x), S) = Those(s, S) \o Those(Append(t, x), S)
    <3>1. CASE x \in S
      BY <2>1, <2>2, <2>3, <2>4, <2>6, <3>1
    <3>2. CASE x \notin S
      BY <2>1, <2>2, <2>3, <2>4, <3>2
    <3>3. QED BY <3>1, <3>2
  <2>8. QED BY <2>1, <2>7
<1>4. \A t \in Seq(T) : t \in P
  <2> HIDE DEF P
  <2>1. QED BY <1>2, <1>3, Appending
<1>5. QED BY <1>4

\* Those of many sequences one after the other.
Sifted(ss, S) == [n \in DOMAIN ss |-> Those(ss[n], S)]

\* It has as many places.
LEMMA SiftedType ==
  ASSUME NEW T, NEW S, NEW ss, ss \in Seq(Seq(T))
  PROVE  /\ Sifted(ss, S) \in Seq(Seq(T)) /\ Len(Sifted(ss, S)) = Len(ss)
         /\ \A n \in 1 .. Len(ss) : Sifted(ss, S)[n] = Those(ss[n], S)
<1> DEFINE piece(n) == Those(ss[n], S)
<1>1. Len(ss) \in Nat /\ DOMAIN ss = 1 .. Len(ss) /\ \A n \in 1 .. Len(ss) : ss[n] \in Seq(T)
  OBVIOUS
<1>2. \A n \in 1 .. Len(ss) : piece(n) \in Seq(T)
  BY <1>1, ThoseHold
<1>3. Sifted(ss, S) = [n \in 1 .. Len(ss) |-> piece(n)]
  BY <1>1 DEF Sifted
<1> HIDE DEF piece
<1>4. /\ Sifted(ss, S) \in Seq(Seq(T)) /\ Len(Sifted(ss, S)) = Len(ss)
      /\ \A n \in 1 .. Len(ss) : Sifted(ss, S)[n] = piece(n)
  BY ONLY <1>1, <1>2, <1>3
<1>5. QED BY <1>4 DEF piece

\* What is sifted and put together is what is put together and sifted.
LEMMA ThoseFlatten ==
  ASSUME NEW T, NEW S
  PROVE  \A ss \in Seq(Seq(T)) : Those(FlattenSeq(ss), S) = FlattenSeq(Sifted(ss, S))
<1> DEFINE Good(ss) == Those(FlattenSeq(ss), S) = FlattenSeq(Sifted(ss, S))
           P == {ss \in Seq(Seq(T)) : Good(ss)}
<1>1. <<>> \in P
  <2>1. Sifted(<<>>, S) = <<>> /\ <<>> \in Seq(Seq(T))
    BY DEF Sifted
  <2>2. QED BY <2>1, ThoseEmpty, FlattenNone
<1>2. ASSUME NEW ss, NEW s, ss \in Seq(Seq(T)), s \in Seq(T), ss \in P PROVE Append(ss, s) \in P
  <2>1. PICK tt : tt = Append(ss, s)
    OBVIOUS
  <2>2. /\ tt \in Seq(Seq(T)) /\ Len(ss) \in Nat /\ Len(tt) = Len(ss) + 1
        /\ tt[Len(ss) + 1] = s /\ \A n \in 1 .. Len(ss) : tt[n] = ss[n]
    BY <1>2, <2>1
  <2>3. FlattenSeq(tt) = FlattenSeq(ss) \o s /\ FlattenSeq(ss) \in Seq(T)
    BY <1>2, <2>1, FlattenAppend, FlattenType
  <2>4. Those(FlattenSeq(tt), S) = Those(FlattenSeq(ss), S) \o Those(s, S)
    BY <1>2, <2>3, ThoseConcat
  <2>5. /\ Sifted(ss, S) \in Seq(Seq(T)) /\ Len(Sifted(ss, S)) = Len(ss)
        /\ \A n \in 1 .. Len(ss) : Sifted(ss, S)[n] = Those(ss[n], S)
    BY <1>2, SiftedType
  <2>6. /\ Sifted(tt, S) \in Seq(Seq(T)) /\ Len(Sifted(tt, S)) = Len(tt)
        /\ \A n \in 1 .. Len(tt) : Sifted(tt, S)[n] = Those(tt[n], S)
    BY <2>2, SiftedType
  <2>7. /\ Len(Sifted(tt, S)) = Len(Sifted(ss, S)) + 1
        /\ \A n \in 1 .. Len(Sifted(ss, S)) : Sifted(tt, S)[n] = Sifted(ss, S)[n]
        /\ Sifted(tt, S)[Len(Sifted(tt, S))] = Those(s, S)
    BY ONLY <2>2, <2>5, <2>6
  <2>8. FlattenSeq(Sifted(tt, S)) = FlattenSeq(Sifted(ss, S)) \o Those(s, S)
    BY <2>5, <2>6, <2>7, FlattenOneMore
  <2>9. Good(ss)
    BY <1>2
  <2>10. QED BY <2>1, <2>2, <2>4, <2>8, <2>9
<1>3. \A ss \in Seq(Seq(T)) : ss \in P
  <2> HIDE DEF P
  <2>1. QED BY <1>1, <1>2, Appending
<1>4. QED BY <1>3

-----------------------------------------------------------------------------
(* Sorting.                                                                *)

\* An order of the numbers up to L, and the place of each in it.
Orders(B, L) ==
  /\ L \in Nat
  /\ \A j \in 1 .. L : <<j, j>> \notin B
  /\ \A j, k \in 1 .. L : j = k \/ <<j, k>> \in B \/ <<k, j>> \in B
  /\ \A i, j, k \in 1 .. L : <<i, j>> \in B /\ <<j, k>> \in B => <<i, k>> \in B

Place(B, L, k) == Cardinality({j \in 1 .. L : <<j, k>> \in B}) + 1

\* A place is a number up to L, and what is before another has a lower one.
LEMMA PlacesOrder ==
  ASSUME NEW B, NEW L, Orders(B, L)
  PROVE  /\ \A k \in 1 .. L : Place(B, L, k) \in 1 .. L
         /\ \A j, k \in 1 .. L : <<j, k>> \in B => Place(B, L, j) < Place(B, L, k)
<1> DEFINE D == 1 .. L
           Ahead(k) == {i \in D : <<i, k>> \in B}
<1>1. L \in Nat /\ IsFiniteSet(D) /\ Cardinality(D) = L
  <2>1. L \in Nat /\ L \in Int /\ 1 \in Int
    BY DEF Orders
  <2>2. IsFiniteSet(1 .. L) /\ Cardinality(1 .. L) = IF 1 > L THEN 0 ELSE L - 1 + 1
    BY <2>1, FS_Interval
  <2>3. QED BY <2>1, <2>2
<1>2. ASSUME NEW k \in D
      PROVE  /\ IsFiniteSet(Ahead(k)) /\ Cardinality(Ahead(k)) \in Nat
             /\ Cardinality(Ahead(k) \cup {k}) = Cardinality(Ahead(k)) + 1
             /\ Ahead(k) \cup {k} \subseteq D
             /\ Place(B, L, k) = Cardinality(Ahead(k)) + 1
  <2>1. Ahead(k) \subseteq D /\ k \notin Ahead(k) /\ Ahead(k) \cup {k} \subseteq D
    BY DEF Orders
  <2>2. Place(B, L, k) = Cardinality(Ahead(k)) + 1
    BY DEF Place
  <2> HIDE DEF Ahead, D
  <2>3. IsFiniteSet(Ahead(k))
    BY <1>1, <2>1, FS_Subset
  <2>4. QED BY <2>1, <2>2, <2>3, FS_CardinalityType, FS_AddElement
<1>3. ASSUME NEW k \in D PROVE Place(B, L, k) \in D
  <2>1. Cardinality(Ahead(k) \cup {k}) <= L
    <3>1. Ahead(k) \cup {k} \subseteq D
      BY <1>2
    <3> HIDE DEF Ahead, D
    <3>2. QED BY <1>1, <3>1, FS_Subset
  <2>2. PICK n \in Nat : n = Cardinality(Ahead(k))
    BY <1>2
  <2>3. Place(B, L, k) = n + 1 /\ n + 1 <= L
    BY <1>2, <2>1, <2>2
  <2>4. QED BY <1>1, <2>3
<1>4. ASSUME NEW j \in D, NEW k \in D, <<j, k>> \in B PROVE Place(B, L, j) < Place(B, L, k)
  <2>1. Ahead(j) \cup {j} \subseteq Ahead(k)
    BY <1>4 DEF Orders
  <2>2. Cardinality(Ahead(j) \cup {j}) <= Cardinality(Ahead(k))
    <3>1. IsFiniteSet(Ahead(k))
      BY <1>2
    <3> HIDE DEF Ahead, D
    <3>2. QED BY <2>1, <3>1, FS_Subset
  <2>3. /\ Place(B, L, j) = Cardinality(Ahead(j)) + 1 /\ Cardinality(Ahead(j)) \in Nat
        /\ Cardinality(Ahead(j) \cup {j}) = Cardinality(Ahead(j)) + 1
        /\ Place(B, L, k) = Cardinality(Ahead(k)) + 1 /\ Cardinality(Ahead(k)) \in Nat
    BY <1>2
  <2> HIDE DEF Ahead, D
  <2>4. QED BY <2>2, <2>3
<1>5. QED BY <1>3, <1>4

\* Every place is taken, by one.
LEMMA PlacesAreTaken ==
  ASSUME NEW B, NEW L, Orders(B, L), NEW r \in 1 .. L
  PROVE  \E k \in 1 .. L :
           Place(B, L, k) = r /\ \A j \in 1 .. L : Place(B, L, j) = r => j = k
<1> DEFINE D == 1 .. L
           f == [k \in D |-> Place(B, L, k)]
<1>1. \A j, k \in D : Place(B, L, j) = Place(B, L, k) => j = k
  <2> SUFFICES ASSUME NEW j \in D, NEW k \in D, j # k PROVE Place(B, L, j) # Place(B, L, k)
    OBVIOUS
  <2>1. Place(B, L, j) < Place(B, L, k) \/ Place(B, L, k) < Place(B, L, j)
    BY PlacesOrder DEF Orders
  <2>2. Place(B, L, j) \in Nat /\ Place(B, L, k) \in Nat
    BY PlacesOrder
  <2>3. QED BY <2>1, <2>2
<1>2. ASSUME \A k \in D : Place(B, L, k) # r PROVE FALSE
  <2>1. /\ IsFiniteSet(D) /\ IsFiniteSet(D \ {r})
        /\ Cardinality(D) \in Nat /\ Cardinality(D \ {r}) = Cardinality(D) - 1
    <3>1. L \in Int /\ 1 \in Int
      BY DEF Orders
    <3>2. IsFiniteSet(D)
      BY <3>1, FS_Interval
    <3>3. r \in D
      OBVIOUS
    <3> HIDE DEF D
    <3>4. QED BY <3>2, <3>3, FS_CardinalityType, FS_RemoveElement
  <2>2. f \in [D -> D \ {r}]
    BY <1>2, PlacesOrder
  <2>3. \E j, k \in D : j # k /\ f[j] = f[k]
    <3>1. Cardinality(D \ {r}) < Cardinality(D)
      BY <2>1
    <3> HIDE DEF D, f
    <3>2. QED BY <2>1, <2>2, <3>1, FS_PigeonHole
  <2>4. QED BY <1>1, <2>3
<1>3. QED BY <1>1, <1>2

\* The sequence with every element at its place.
SortedBy(s, B) == [r \in DOMAIN s |-> s[CHOOSE k \in DOMAIN s : Place(B, Len(s), k) = r]]

\* It has the same elements as often, each before those that the order puts after it.
LEMMA SortedByIs ==
  ASSUME NEW T, NEW s \in Seq(T), NEW B, Orders(B, Len(s))
  PROVE  /\ SortedBy(s, B) \in Seq(T) /\ DOMAIN SortedBy(s, B) = 1 .. Len(s)
         /\ ToSet(SortedBy(s, B)) = ToSet(s)
         /\ IsInjective(s) => IsInjective(SortedBy(s, B))
         /\ \A q, r \in 1 .. Len(s) : q < r =>
              \E j, k \in 1 .. Len(s) :
                /\ SortedBy(s, B)[q] = s[j] /\ SortedBy(s, B)[r] = s[k] /\ <<j, k>> \in B
<1>1. PICK L \in Nat : L = Len(s) /\ DOMAIN s = 1 .. L
  OBVIOUS
<1>2. PICK u : u = SortedBy(s, B)
  OBVIOUS
<1>3. Orders(B, L)
  BY <1>1
<1>4. \A r \in 1 .. L : \E k \in 1 .. L :
         Place(B, L, k) = r /\ \A j \in 1 .. L : Place(B, L, j) = r => j = k
  BY ONLY <1>3, PlacesAreTaken
<1>5. ASSUME NEW r \in 1 .. L
      PROVE  \E k \in 1 .. L : Place(B, L, k) = r /\ u[r] = s[k]
  <2>1. PICK k \in 1 .. L : Place(B, L, k) = r /\ \A j \in 1 .. L : Place(B, L, j) = r => j = k
    BY <1>4
  <2>2. u[r] = s[CHOOSE j \in 1 .. L : Place(B, L, j) = r]
    BY <1>1, <1>2 DEF SortedBy
  <2>3. (CHOOSE j \in 1 .. L : Place(B, L, j) = r) = k
    BY <2>1
  <2>4. QED BY <2>1, <2>2, <2>3
<1>6. ASSUME NEW k \in 1 .. L PROVE Place(B, L, k) \in 1 .. L /\ u[Place(B, L, k)] = s[k]
  <2>1. Place(B, L, k) \in 1 .. L
    BY <1>3, PlacesOrder
  <2>2. PICK r \in 1 .. L : r = Place(B, L, k)
    BY <2>1
  <2>3. PICK j \in 1 .. L : Place(B, L, j) = r /\ \A i \in 1 .. L : Place(B, L, i) = r => i = j
    BY <1>4
  <2>4. \E i \in 1 .. L : Place(B, L, i) = r /\ u[r] = s[i]
    BY <1>5
  <2>5. QED BY <2>2, <2>3, <2>4
<1>7. DOMAIN u = 1 .. L /\ u \in Seq(T)
  <2>1. DOMAIN u = 1 .. L /\ u = [r \in 1 .. L |-> u[r]]
    BY <1>1, <1>2 DEF SortedBy
  <2>2. \A r \in 1 .. L : u[r] \in T
    BY <1>1, <1>5
  <2>3. u \in [1 .. L -> T]
    BY <2>1, <2>2
  <2>4. QED BY <2>1, <2>3
<1>8. ToSet(u) = ToSet(s)
  <2>1. ToSet(u) = {u[r] : r \in 1 .. L} /\ ToSet(s) = {s[k] : k \in 1 .. L}
    BY <1>1, <1>7 DEF ToSet
  <2>2. QED BY <1>5, <1>6, <2>1
<1>9. ASSUME NEW q \in 1 .. L, NEW r \in 1 .. L, q < r
      PROVE  \E j, k \in 1 .. L : u[q] = s[j] /\ u[r] = s[k] /\ <<j, k>> \in B
  <2>1. PICK j \in 1 .. L : Place(B, L, j) = q /\ u[q] = s[j]
    BY <1>5
  <2>2. PICK k \in 1 .. L : Place(B, L, k) = r /\ u[r] = s[k]
    BY <1>5
  <2>3. ~(<<k, j>> \in B) /\ j # k
    <3>1. <<k, j>> \in B => Place(B, L, k) < Place(B, L, j)
      BY <1>3, PlacesOrder
    <3>2. QED BY <1>9, <2>1, <2>2, <3>1
  <2>4. <<j, k>> \in B
    BY <1>3, <2>3 DEF Orders
  <2>5. QED BY <2>1, <2>2, <2>4
<1>10. ASSUME IsInjective(s) PROVE IsInjective(u)
  <2>1. \A j, k \in 1 .. L : s[j] = s[k] => j = k
    BY <1>1, <1>10 DEF IsInjective
  <2>2. ASSUME NEW q \in 1 .. L, NEW r \in 1 .. L, u[q] = u[r] PROVE q = r
    <3>1. PICK j \in 1 .. L : Place(B, L, j) = q /\ u[q] = s[j]
      BY <1>5
    <3>2. PICK k \in 1 .. L : Place(B, L, k) = r /\ u[r] = s[k]
      BY <1>5
    <3>3. QED BY <2>1, <2>2, <3>1, <3>2
  <2>3. QED BY <1>7, <2>2 DEF IsInjective
<1>11. u = SortedBy(s, B) /\ L = Len(s)
  BY <1>1, <1>2
<1>12. QED BY ONLY <1>7, <1>8, <1>9, <1>10, <1>11
=============================================================================
