--------------------------- MODULE TraceTreeProofs ---------------------------
(***************************************************************************)
(* Proofs about TraceTree, for every set of traces: whatever spans are lost  *)
(* or share their times, the tree keeps every span once if the clocks agree, *)
(* and every reward finds a call that may have it, in a tree and among the   *)
(* spans of the proxy.                                                       *)
(***************************************************************************)
EXTENDS TraceTree, SequenceLemmas

\* The spans are numbered from one, and they, Lost and Root are different nodes.
LEMMA NodesAre ==
  ASSUME IsTrace(trace)
  PROVE  /\ Len(trace) \in Nat \ {0} /\ Spans = 1 .. Len(trace)
         /\ Lost \notin Spans /\ Root \notin Spans /\ None \notin Nodes /\ Lost # Root
         /\ IsFiniteSet(Nodes) /\ Depth \in Nat
         /\ \A i \in Spans : /\ trace[i].parent \in Spans \cup {None, Lost}
                             /\ trace[i].start \in Int /\ trace[i].end \in Int
                             /\ trace[i].seq \in Nat
<1>1. trace \in Seq(SpanRecords) /\ trace # <<>>
  BY DEF IsTrace
<1>2. Len(trace) \in Nat \ {0} /\ Spans = 1 .. Len(trace)
  BY <1>1 DEF Spans
<1>3. Lost \notin Spans /\ Root \notin Spans /\ None \notin Nodes /\ Lost # Root
  <2>1. Spans \subseteq Nat
    BY <1>2
  <2>2. QED BY <2>1, NamesAssumption DEF Nodes
<1>4. IsFiniteSet(Nodes) /\ Depth \in Nat
  <2>1. IsFiniteSet(Spans)
    <3>1. Len(trace) \in Int
      BY <1>2
    <3>2. QED BY <1>2, <3>1, FS_Interval
  <2>2. IsFiniteSet(Spans \cup {Lost}) /\ IsFiniteSet((Spans \cup {Lost}) \cup {Root})
    BY <2>1, FS_AddElement
  <2>3. Nodes = (Spans \cup {Lost}) \cup {Root}
    BY DEF Nodes
  <2>4. QED BY <2>2, <2>3, FS_CardinalityType DEF Depth
<1>5. ASSUME NEW i \in Spans
      PROVE  /\ trace[i].parent \in Spans \cup {None, Lost}
             /\ trace[i].start \in Int /\ trace[i].end \in Int /\ trace[i].seq \in Nat
  <2>1. trace[i] \in SpanRecords
    BY <1>1, <1>2
  <2>2. trace[i].parent \in Spans \cup {None, Lost}
    BY <1>5 DEF IsTrace, Spans
  <2>3. QED BY <2>1, <2>2 DEF SpanRecords
<1>6. QED BY <1>2, <1>3, <1>4, <1>5

-----------------------------------------------------------------------------
(* The nodes from a node down.                                             *)

Trees == [Nodes -> Seq(Nodes)]

\* What Down is said to be.
DownFrom(t, f) ==
  f = [d \in 0 .. Depth |->
         IF d = 0 THEN [n \in Nodes |-> <<>>]
         ELSE [n \in Nodes |->
                 <<n>> \o FlattenSeq([k \in DOMAIN t[n] |-> f[d - 1][t[n][k]]])]]

\* The pieces that a level is made of.
LEMMA PiecesType ==
  ASSUME NEW t \in Trees, NEW b \in Trees, NEW n \in Nodes
  PROVE  /\ [k \in DOMAIN t[n] |-> b[t[n][k]]] \in Seq(Seq(Nodes))
         /\ Len([k \in DOMAIN t[n] |-> b[t[n][k]]]) = Len(t[n])
         /\ DOMAIN t[n] = 1 .. Len(t[n]) /\ Len(t[n]) \in Nat
         /\ \A k \in 1 .. Len(t[n]) : t[n][k] \in Nodes
<1>1. t[n] \in Seq(Nodes)
  BY DEF Trees
<1>2. DOMAIN t[n] = 1 .. Len(t[n]) /\ Len(t[n]) \in Nat /\ \A k \in 1 .. Len(t[n]) : t[n][k] \in Nodes
  BY <1>1
<1>3. \A k \in 1 .. Len(t[n]) : b[t[n][k]] \in Seq(Nodes)
  BY <1>2 DEF Trees
<1>4. PICK L \in Nat : L = Len(t[n])
  BY <1>2
<1>5. PICK w : w = [k \in DOMAIN t[n] |-> b[t[n][k]]]
  OBVIOUS
<1>6. w \in [1 .. L -> Seq(Nodes)]
  BY <1>2, <1>3, <1>4, <1>5
<1>7. w \in Seq(Seq(Nodes)) /\ Len(w) = L
  BY ONLY <1>4, <1>6
<1>8. QED BY <1>2, <1>4, <1>5, <1>7

\* A level is made of sequences of nodes.
LEMMA LevelType ==
  ASSUME NEW t \in Trees, NEW b \in Trees, NEW n \in Nodes
  PROVE  <<n>> \o FlattenSeq([k \in DOMAIN t[n] |-> b[t[n][k]]]) \in Seq(Nodes)
<1>1. FlattenSeq([k \in DOMAIN t[n] |-> b[t[n][k]]]) \in Seq(Nodes)
  BY PiecesType, FlattenType
<1>2. <<n>> \in Seq(Nodes)
  OBVIOUS
<1>3. QED BY <1>1, <1>2, ConcatProperties

\* Down is what it is said to be.
LEMMA DownIs ==
  ASSUME IsTrace(trace), NEW t \in Trees
  PROVE  /\ \A d \in 0 .. Depth : Down(t)[d] \in Trees
         /\ \A n \in Nodes : Down(t)[0][n] = <<>>
         /\ \A d \in 1 .. Depth : \A n \in Nodes :
              Down(t)[d][n] = <<n>> \o FlattenSeq([k \in DOMAIN t[n] |-> Down(t)[d - 1][t[n][k]]])
<1> DEFINE level(b) ==
             [n \in Nodes |-> <<n>> \o FlattenSeq([k \in DOMAIN t[n] |-> b[t[n][k]]])]
           a == [n \in Nodes |-> <<>>]
           W == [p \in Trees \X (1 .. Depth) |-> level(p[1])]
<1>1. Depth \in Nat
  BY NodesAre
<1>2. a \in Trees
  BY DEF Trees
<1>3. ASSUME NEW b \in Trees PROVE level(b) \in Trees
  BY LevelType DEF Trees
<1>4. W \in [Trees \X (1 .. Depth) -> Trees]
  BY <1>3
<1>5. \A b \in Trees, d \in 1 .. Depth : W[<<b, d>>] = level(b)
  OBVIOUS
<1> HIDE DEF W, a
<1>6. PICK f \in [0 .. Depth -> Trees] : Unfolds(Depth, a, W, f)
  BY <1>1, <1>2, <1>4, UnfoldExists
<1>7. \A d \in 0 .. Depth : f[d] \in Trees
  OBVIOUS
<1>8. f = [d \in 0 .. Depth |-> IF d = 0 THEN a ELSE W[<<f[d - 1], d>>]]
  BY <1>6 DEF Unfolds
<1>9. \A d \in 0 .. Depth : d # 0 => W[<<f[d - 1], d>>] = level(f[d - 1])
  <2>1. ASSUME NEW d \in 0 .. Depth, d # 0 PROVE f[d - 1] \in Trees /\ d \in 1 .. Depth
    BY <1>1, <1>7, <2>1
  <2> HIDE DEF level
  <2>2. QED BY <1>5, <2>1
<1>10. DownFrom(t, f)
  <2>1. f = [d \in 0 .. Depth |-> IF d = 0 THEN a ELSE level(f[d - 1])]
    <3> HIDE DEF level
    <3>1. QED BY ONLY <1>8, <1>9
  <2>2. QED BY <2>1 DEF DownFrom, a
<1>11. Down(t) = CHOOSE g : DownFrom(t, g)
  BY DEF Down, DownFrom
<1> DEFINE g == Down(t)
<1>12. DownFrom(t, g)
  BY <1>10, <1>11
<1> HIDE DEF g
<1>13. \A d \in 0 .. Depth : g[d] = IF d = 0 THEN a ELSE level(g[d - 1])
  BY <1>12 DEF DownFrom, a
<1>14. \A d \in 0 .. Depth : g[d] \in Trees
  <2> DEFINE P == {d \in Nat : d \in 0 .. Depth => g[d] \in Trees}
  <2>1. 0 \in P
    BY <1>1, <1>2, <1>13
  <2>2. ASSUME NEW d \in Nat, d \in P PROVE d + 1 \in P
    <3>1. ASSUME d + 1 \in 0 .. Depth PROVE g[d + 1] \in Trees
      <4>1. d \in 0 .. Depth /\ d + 1 # 0 /\ d + 1 - 1 = d
        BY <1>1, <3>1
      <4>2. g[d] \in Trees
        BY <2>2, <4>1
      <4>3. level(g[d]) \in Trees
        BY <1>3, <4>2
      <4>4. g[d + 1] = level(g[d])
        <5> HIDE DEF level
        <5>1. QED BY <1>13, <3>1, <4>1
      <4> HIDE DEF level
      <4>5. QED BY <4>3, <4>4
    <3>2. QED BY <3>1
  <2>3. \A d \in Nat : d \in P
    <3> HIDE DEF P
    <3>1. QED BY <2>1, <2>2, CountingUp
  <2>4. QED BY <1>1, <2>3
<1>15. \A n \in Nodes : g[0][n] = <<>>
  <2>1. 0 \in 0 .. Depth
    BY <1>1
  <2>2. g[0] = a
    <3> HIDE DEF level
    <3>1. QED BY <1>13, <2>1
  <2>3. QED BY <2>2 DEF a
<1>16. ASSUME NEW d \in 1 .. Depth, NEW n \in Nodes
       PROVE  g[d][n] = <<n>> \o FlattenSeq([k \in DOMAIN t[n] |-> g[d - 1][t[n][k]]])
  <2>1. d \in 0 .. Depth /\ d # 0
    BY <1>1
  <2>2. g[d] = level(g[d - 1])
    <3> HIDE DEF level
    <3>1. QED BY <1>13, <2>1
  <2>3. QED BY <2>2
<1>17. QED BY <1>14, <1>15, <1>16 DEF g

\* What is at most d levels below a node.
In(t, d, n) == ToSet(Down(t)[d][n])

\* The node itself, and what is below its children.
LEMMA InIs ==
  ASSUME IsTrace(trace), NEW t \in Trees, NEW n \in Nodes
  PROVE  /\ In(t, 0, n) = {}
         /\ \A d \in 0 .. Depth : In(t, d, n) \subseteq Nodes
         /\ \A d \in 1 .. Depth : \A x :
              x \in In(t, d, n) <=> x = n \/ \E c \in ToSet(t[n]) : x \in In(t, d - 1, c)
<1>1. In(t, 0, n) = {}
  BY DownIs DEF In, ToSet
<1>2. \A d \in 0 .. Depth : In(t, d, n) \subseteq Nodes
  <2>1. ASSUME NEW d \in 0 .. Depth PROVE ToSet(Down(t)[d][n]) \subseteq Nodes
    <3>1. Down(t)[d][n] \in Seq(Nodes)
      BY DownIs DEF Trees
    <3>2. QED BY <3>1 DEF ToSet
  <2>2. QED BY <2>1 DEF In
<1>3. ASSUME NEW d \in 1 .. Depth
      PROVE  \A x : x \in In(t, d, n) <=> x = n \/ \E c \in ToSet(t[n]) : x \in In(t, d - 1, c)
  <2>1. PICK b : b = Down(t)[d - 1]
    OBVIOUS
  <2>2. b \in Trees
    <3>1. Depth \in Nat /\ d - 1 \in 0 .. Depth
      BY NodesAre
    <3>2. QED BY <2>1, <3>1, DownIs
  <2>3. PICK w : w = [k \in DOMAIN t[n] |-> b[t[n][k]]]
    OBVIOUS
  <2>4. /\ w \in Seq(Seq(Nodes)) /\ Len(w) = Len(t[n])
        /\ DOMAIN t[n] = 1 .. Len(t[n]) /\ Len(t[n]) \in Nat
        /\ \A k \in 1 .. Len(t[n]) : w[k] = b[t[n][k]]
    BY <2>2, <2>3, PiecesType
  <2>5. Down(t)[d][n] = <<n>> \o FlattenSeq(w)
    BY <2>1, <2>3, DownIs
  <2>6. FlattenSeq(w) \in Seq(Nodes) /\ <<n>> \in Seq(Nodes)
    BY <2>4, FlattenType
  <2>7. ToSet(Down(t)[d][n]) = ToSet(<<n>>) \cup ToSet(FlattenSeq(w))
    BY <2>5, <2>6, ConcatHolds
  <2>8. ToSet(<<n>>) = {n}
    BY DEF ToSet
  <2>9. \A x : x \in ToSet(FlattenSeq(w)) <=> \E k \in 1 .. Len(w) : x \in ToSet(w[k])
    BY <2>4, FlattenHolds
  <2>10. \A x : x \in ToSet(FlattenSeq(w)) <=> \E c \in ToSet(t[n]) : x \in ToSet(b[c])
    <3>1. ToSet(t[n]) = {t[n][k] : k \in 1 .. Len(t[n])}
      BY <2>4 DEF ToSet
    <3>2. QED BY ONLY <2>4, <2>9, <3>1
  <2>11. QED BY <2>1, <2>7, <2>8, <2>10 DEF In
<1>4. QED BY <1>1, <1>2, <1>3

\* A child is one level further down.
LEMMA ChildIn ==
  ASSUME IsTrace(trace), NEW t \in Trees
  PROVE  \A d \in 0 .. Depth - 1 : \A n \in Nodes : \A x \in In(t, d, n) :
           \A c \in ToSet(t[x]) : c \in In(t, d + 1, n)
<1> DEFINE Good(d) == \A n \in Nodes : \A x \in In(t, d, n) :
                        \A c \in ToSet(t[x]) : c \in In(t, d + 1, n)
           P == {d \in Nat : d + 1 <= Depth => Good(d)}
<1>1. Depth \in Nat /\ \A n \in Nodes : ToSet(t[n]) \subseteq Nodes
  BY NodesAre DEF Trees, ToSet
<1>2. 0 \in P
  BY InIs
<1>3. ASSUME NEW d \in Nat, d \in P PROVE d + 1 \in P
  <2>1. ASSUME d + 2 <= Depth, NEW n \in Nodes, NEW x \in In(t, d + 1, n),
               NEW c \in ToSet(t[x])
        PROVE  c \in In(t, d + 2, n)
    <3>1. /\ d + 1 \in 1 .. Depth /\ d + 2 \in 1 .. Depth
          /\ d + 1 - 1 = d /\ d + 2 - 1 = d + 1 /\ d + 1 <= Depth
      BY <1>1, <2>1
    <3>2. x = n \/ \E b \in ToSet(t[n]) : x \in In(t, d, b)
      BY <2>1, <3>1, InIs
    <3>3. \A y : y \in In(t, d + 2, n) <=> y = n \/ \E b \in ToSet(t[n]) : y \in In(t, d + 1, b)
      BY <3>1, InIs
    <3>4. CASE x = n
      <4>1. c \in Nodes
        BY <1>1, <2>1, <3>4
      <4>2. c \in In(t, d + 1, c)
        BY <3>1, <4>1, InIs
      <4>3. QED BY <2>1, <3>3, <3>4, <4>2
    <3>5. CASE \E b \in ToSet(t[n]) : x \in In(t, d, b)
      <4>1. PICK b \in ToSet(t[n]) : x \in In(t, d, b)
        BY <3>5
      <4>2. b \in Nodes
        BY <1>1, <4>1
      <4>3. Good(d)
        BY <1>3, <3>1
      <4>4. c \in In(t, d + 1, b)
        BY <2>1, <4>1, <4>2, <4>3
      <4>5. QED BY <3>3, <4>1, <4>4
    <3>6. QED BY <3>2, <3>4, <3>5
  <2>2. d + 1 + 1 <= Depth => Good(d + 1)
    <3>1. d + 1 + 1 = d + 2
      OBVIOUS
    <3>2. QED BY <2>1, <3>1
  <2> HIDE DEF Good
  <2>3. QED BY <2>2
<1>4. \A d \in Nat : d \in P
  <2> HIDE DEF P
  <2>1. QED BY <1>2, <1>3, CountingUp
<1>5. \A d \in 0 .. Depth - 1 : d \in Nat /\ d + 1 <= Depth
  BY <1>1
<1> HIDE DEF Good
<1>6. \A d \in 0 .. Depth - 1 : Good(d)
  BY <1>4, <1>5
<1>7. QED BY <1>6 DEF Good

\* What is below a node is a child of something one level less far down.
LEMMA ParentIn ==
  ASSUME IsTrace(trace), NEW t \in Trees
  PROVE  \A d \in 1 .. Depth : \A n \in Nodes : \A x \in In(t, d, n) :
           x = n \/ \E p \in In(t, d - 1, n) : x \in ToSet(t[p])
<1> DEFINE Good(d) == \A n \in Nodes : \A x \in In(t, d, n) :
                        x = n \/ \E p \in In(t, d - 1, n) : x \in ToSet(t[p])
           P == {d \in Nat : d \in 1 .. Depth => Good(d)}
<1>1. Depth \in Nat /\ \A n \in Nodes : ToSet(t[n]) \subseteq Nodes
  BY NodesAre DEF Trees, ToSet
<1>2. 0 \in P
  OBVIOUS
<1>3. ASSUME NEW d \in Nat, d \in P PROVE d + 1 \in P
  <2>1. ASSUME d + 1 \in 1 .. Depth, NEW n \in Nodes, NEW x \in In(t, d + 1, n), x # n
        PROVE  \E p \in In(t, d, n) : x \in ToSet(t[p])
    <3>1. d + 1 - 1 = d
      OBVIOUS
    <3>2. PICK c \in ToSet(t[n]) : x \in In(t, d, c)
      BY <2>1, <3>1, InIs
    <3>3. c \in Nodes
      BY <1>1, <3>2
    <3>4. d # 0
      BY <3>2, <3>3, InIs
    <3>5. d \in 1 .. Depth
      BY <1>1, <2>1, <3>4
    <3>6. Good(d)
      BY <1>3, <3>5
    <3>7. \A y : y \in In(t, d, n) <=> y = n \/ \E b \in ToSet(t[n]) : y \in In(t, d - 1, b)
      BY <3>5, InIs
    <3>8. CASE x = c
      BY <3>2, <3>7, <3>8
    <3>9. CASE x # c
      <4>1. PICK p \in In(t, d - 1, c) : x \in ToSet(t[p])
        BY <3>2, <3>3, <3>6, <3>9
      <4>2. QED BY <3>2, <3>7, <4>1
    <3>10. QED BY <3>8, <3>9
  <2>2. d + 1 \in 1 .. Depth => Good(d + 1)
    <3>1. d + 1 - 1 = d
      OBVIOUS
    <3>2. QED BY <2>1, <3>1
  <2> HIDE DEF Good
  <2>3. QED BY <2>2
<1>4. \A d \in Nat : d \in P
  <2> HIDE DEF P
  <2>1. QED BY <1>2, <1>3, CountingUp
<1>5. \A d \in 1 .. Depth : d \in Nat
  BY <1>1
<1> HIDE DEF Good
<1>6. \A d \in 1 .. Depth : Good(d)
  BY <1>4, <1>5
<1>7. QED BY <1>6 DEF Good

-----------------------------------------------------------------------------
\* A node is the child of at most one other, and Top of none.
Shape(t) ==
  /\ t \in Trees
  /\ \A n \in Nodes : IsInjective(t[n])
  /\ \A m, n \in Nodes : \A c : c \in ToSet(t[m]) /\ c \in ToSet(t[n]) => m = n
  /\ \A n \in Nodes : Top \notin ToSet(t[n])

\* It is not below itself.
Free(t, n) == \A c \in ToSet(t[n]) : \A d \in 0 .. Depth : n \notin In(t, d, c)

\* Top is not.
LEMMA TopIsFree ==
  ASSUME IsTrace(trace), NEW t, Shape(t), Top \in Nodes
  PROVE  Free(t, Top)
<1>1. t \in Trees /\ (\A n \in Nodes : ToSet(t[n]) \subseteq Nodes)
  BY DEF Shape, Trees, ToSet
<1>2. ASSUME NEW c \in ToSet(t[Top]), NEW d \in 0 .. Depth, Top \in In(t, d, c) PROVE FALSE
  <2>1. Depth \in Nat /\ c \in Nodes
    BY <1>1, NodesAre
  <2>2. d # 0
    BY <1>1, <1>2, <2>1, InIs
  <2>3. d \in 1 .. Depth /\ d - 1 \in 0 .. Depth
    BY <2>1, <2>2
  <2>4. Top = c \/ \E p \in In(t, d - 1, c) : Top \in ToSet(t[p])
    BY <1>1, <1>2, <2>1, <2>3, ParentIn
  <2>5. In(t, d - 1, c) \subseteq Nodes
    BY <1>1, <2>1, <2>3, InIs
  <2>6. QED BY <1>2, <2>4, <2>5 DEF Shape
<1>3. QED BY <1>2 DEF Free

\* A child of what is not below itself is not, either.
LEMMA ChildrenAreFree ==
  ASSUME IsTrace(trace), NEW t, Shape(t), NEW n \in Nodes, Free(t, n), NEW c \in ToSet(t[n])
  PROVE  c \in Nodes /\ Free(t, c)
<1>1. t \in Trees /\ (\A m \in Nodes : ToSet(t[m]) \subseteq Nodes)
  BY DEF Shape, Trees, ToSet
<1>2. c \in Nodes /\ Depth \in Nat
  BY <1>1, NodesAre
<1>3. ASSUME NEW b \in ToSet(t[c]), NEW d \in 0 .. Depth, c \in In(t, d, b) PROVE FALSE
  <2>1. b \in Nodes
    BY <1>1, <1>2, <1>3
  <2>2. d # 0
    BY <1>1, <1>3, <2>1, InIs
  <2>3. d \in 1 .. Depth /\ d - 1 \in 0 .. Depth
    BY <1>2, <2>2
  <2>4. c = b \/ \E p \in In(t, d - 1, b) : c \in ToSet(t[p])
    BY <1>1, <1>3, <2>1, <2>3, ParentIn
  <2>5. In(t, d - 1, b) \subseteq Nodes
    BY <1>1, <2>1, <2>3, InIs
  <2>6. CASE c = b
    <3>1. c = n
      BY <1>2, <1>3, <2>6 DEF Shape
    <3>2. n \in In(t, d, b)
      BY <1>3, <3>1
    <3>3. QED BY <1>3, <2>6, <3>1, <3>2 DEF Free
  <2>7. ASSUME NEW p \in In(t, d - 1, b), c \in ToSet(t[p]) PROVE FALSE
    <3>1. p = n
      BY <2>5, <2>7 DEF Shape
    <3>2. \A x : x \in In(t, d, c) <=> x = c \/ \E a \in ToSet(t[c]) : x \in In(t, d - 1, a)
      BY <1>1, <1>2, <2>3, InIs
    <3>3. n \in In(t, d, c)
      BY <1>3, <2>7, <3>1, <3>2
    <3>4. QED BY <3>3 DEF Free
  <2>8. QED BY <2>4, <2>6, <2>7
<1>4. QED BY <1>2, <1>3 DEF Free

\* What is below two children of such a node is not the same.
LEMMA BranchesAreDisjoint ==
  ASSUME IsTrace(trace), NEW t, Shape(t), NEW n \in Nodes, Free(t, n),
         NEW b \in ToSet(t[n]), NEW c \in ToSet(t[n]), b # c
  PROVE  \A d, e \in 0 .. Depth : In(t, d, b) \cap In(t, e, c) = {}
<1> DEFINE Good(d) == \A e \in 0 .. Depth : \A x : ~(x \in In(t, d, b) /\ x \in In(t, e, c))
           P == {d \in Nat : d \in 0 .. Depth => Good(d)}
<1>1. t \in Trees /\ (\A m \in Nodes : ToSet(t[m]) \subseteq Nodes)
  BY DEF Shape, Trees, ToSet
<1>2. b \in Nodes /\ c \in Nodes /\ Depth \in Nat
  BY <1>1, NodesAre
<1>3. ASSUME NEW a \in {b, c}, NEW a2 \in {b, c}, a # a2, NEW d \in 0 .. Depth
      PROVE  a \notin In(t, d, a2)
  <2>1. ASSUME a \in In(t, d, a2) PROVE FALSE
    <3>1. d # 0 /\ a2 \in Nodes /\ a \in ToSet(t[n]) /\ a2 \in ToSet(t[n])
      BY <1>1, <1>2, <2>1, InIs
    <3>2. d \in 1 .. Depth /\ d - 1 \in 0 .. Depth
      BY <1>2, <3>1
    <3>3. PICK p \in In(t, d - 1, a2) : a \in ToSet(t[p])
      BY <1>1, <1>3, <2>1, <3>1, <3>2, ParentIn
    <3>4. p \in Nodes
      BY <1>1, <3>1, <3>2, InIs
    <3>5. p = n
      BY <3>1, <3>3, <3>4 DEF Shape
    <3>6. QED BY <3>1, <3>2, <3>3, <3>5 DEF Free
  <2>2. QED BY <2>1
<1>4. 0 \in P
  BY <1>1, <1>2, InIs
<1>5. ASSUME NEW d \in Nat, d \in P PROVE d + 1 \in P
  <2>1. ASSUME d + 1 \in 0 .. Depth, NEW e \in 0 .. Depth, NEW x,
               x \in In(t, d + 1, b), x \in In(t, e, c)
        PROVE  FALSE
    <3>1. d + 1 \in 1 .. Depth /\ d + 1 - 1 = d /\ d \in 0 .. Depth
      BY <1>2, <2>1
    <3>2. e # 0
      BY <1>1, <1>2, <2>1, InIs
    <3>3. e \in 1 .. Depth /\ e - 1 \in 0 .. Depth
      BY <1>2, <3>2
    <3>4. x # b /\ x # c
      BY <1>3, <2>1
    <3>5. PICK p \in In(t, d, b) : x \in ToSet(t[p])
      BY <1>1, <1>2, <2>1, <3>1, <3>4, ParentIn
    <3>6. PICK q \in In(t, e - 1, c) : x \in ToSet(t[q])
      BY <1>1, <1>2, <2>1, <3>3, <3>4, ParentIn
    <3>7. p \in Nodes /\ q \in Nodes
      BY <1>1, <1>2, <3>1, <3>3, <3>5, <3>6, InIs
    <3>8. p = q
      BY <3>5, <3>6, <3>7 DEF Shape
    <3>9. Good(d)
      BY <1>5, <3>1
    <3>10. QED BY <3>3, <3>5, <3>6, <3>8, <3>9
  <2>2. d + 1 \in 0 .. Depth => Good(d + 1)
    BY <2>1
  <2> HIDE DEF Good
  <2>3. QED BY <2>2
<1>6. \A d \in Nat : d \in P
  <2> HIDE DEF P
  <2>1. QED BY <1>4, <1>5, CountingUp
<1>7. \A d \in 0 .. Depth : d \in Nat
  BY <1>2
<1> HIDE DEF Good
<1>8. \A d \in 0 .. Depth : Good(d)
  BY <1>6, <1>7
<1>9. QED BY <1>8 DEF Good

\* Nothing is there twice from such a node down.
LEMMA DownIsInjective ==
  ASSUME IsTrace(trace), NEW t, Shape(t)
  PROVE  \A d \in 0 .. Depth : \A n \in Nodes : Free(t, n) => IsInjective(Down(t)[d][n])
<1> DEFINE Good(d) == \A n \in Nodes : Free(t, n) => IsInjective(Down(t)[d][n])
           P == {d \in Nat : d \in 0 .. Depth => Good(d)}
<1>1. t \in Trees /\ Depth \in Nat
  BY NodesAre DEF Shape
<1>2. 0 \in P
  <2>1. IsInjective(<<>>)
    BY DEF IsInjective
  <2>2. QED BY <1>1, <2>1, DownIs
<1>3. ASSUME NEW d \in Nat, d \in P PROVE d + 1 \in P
  <2>1. ASSUME d + 1 \in 0 .. Depth, NEW n \in Nodes, Free(t, n)
        PROVE  IsInjective(Down(t)[d + 1][n])
    <3>1. d + 1 \in 1 .. Depth /\ d + 1 - 1 = d /\ d \in 0 .. Depth
      BY <1>1, <2>1
    <3>2. Good(d)
      BY <1>3, <3>1
    <3>3. PICK e \in 1 .. Depth : e = d + 1
      BY <3>1
    <3> PICK b : b = Down(t)[e - 1]
      OBVIOUS
    <3>4. b \in Trees /\ b = Down(t)[d] /\ b = Down(t)[e - 1]
      BY <1>1, <3>1, <3>3, DownIs
    <3>5. PICK w : w = [k \in DOMAIN t[n] |-> b[t[n][k]]]
      OBVIOUS
    <3>6. /\ w \in Seq(Seq(Nodes)) /\ Len(w) = Len(t[n])
          /\ DOMAIN t[n] = 1 .. Len(t[n]) /\ Len(t[n]) \in Nat
          /\ \A k \in 1 .. Len(t[n]) : w[k] = b[t[n][k]] /\ t[n][k] \in Nodes
      BY <1>1, <3>4, <3>5, PiecesType
    <3>7. Down(t)[d + 1][n] = <<n>> \o FlattenSeq(w)
      <4>1. Down(t)[e][n] = <<n>> \o FlattenSeq(w)
        BY <1>1, <3>4, <3>5, DownIs
      <4>2. QED BY <3>3, <4>1
    <3>8. \A k \in 1 .. Len(w) : t[n][k] \in ToSet(t[n])
      BY <3>6 DEF ToSet
    <3>9. Disjoint(w)
      <4>1. ASSUME NEW k \in 1 .. Len(w) PROVE IsInjective(w[k])
        <5>1. t[n][k] \in Nodes /\ Free(t, t[n][k])
          BY <2>1, <3>8, ChildrenAreFree
        <5>2. QED BY <3>2, <3>4, <3>6, <5>1
      <4>2. ASSUME NEW k \in 1 .. Len(w), NEW j \in 1 .. Len(w), k # j
            PROVE  ToSet(w[k]) \cap ToSet(w[j]) = {}
        <5>1. t[n][k] # t[n][j]
          BY <3>6, <4>2 DEF Shape, IsInjective
        <5>2. In(t, d, t[n][k]) \cap In(t, d, t[n][j]) = {}
          BY <2>1, <3>1, <3>8, <5>1, BranchesAreDisjoint
        <5>3. QED BY <3>4, <3>6, <5>2 DEF In
      <4>3. QED BY <4>1, <4>2 DEF Disjoint
    <3>10. FlattenSeq(w) \in Seq(Nodes) /\ <<n>> \in Seq(Nodes)
      BY <3>6, FlattenType
    <3>11. IsInjective(FlattenSeq(w))
      BY <3>6, <3>9, FlattenHolds
    <3>12. n \notin ToSet(FlattenSeq(w))
      <4>1. ASSUME NEW k \in 1 .. Len(w) PROVE n \notin ToSet(w[k])
        <5>1. n \notin In(t, d, t[n][k])
          BY <2>1, <3>1, <3>8 DEF Free
        <5>2. QED BY <3>4, <3>6, <5>1 DEF In
      <4>2. QED BY <3>6, <4>1, FlattenHolds
    <3>13. IsInjective(<<n>>) /\ ToSet(<<n>>) = {n}
      BY DEF IsInjective, ToSet
    <3>14. ToSet(<<n>>) \cap ToSet(FlattenSeq(w)) = {}
      BY <3>12, <3>13
    <3>15. IsInjective(<<n>> \o FlattenSeq(w))
      BY <3>10, <3>11, <3>13, <3>14, ConcatHolds
    <3>16. QED BY <3>7, <3>15
  <2>2. d + 1 \in 0 .. Depth => Good(d + 1)
    BY <2>1
  <2> HIDE DEF Good
  <2>3. QED BY <2>2
<1>4. \A d \in Nat : d \in P
  <2> HIDE DEF P
  <2>1. QED BY <1>2, <1>3, CountingUp
<1>5. \A d \in 0 .. Depth : d \in Nat
  BY <1>1
<1> HIDE DEF Good
<1>6. \A d \in 0 .. Depth : Good(d)
  BY <1>4, <1>5
<1>7. QED BY <1>6 DEF Good

\* A set of places has one with the least value.
LEMMA LeastPlace ==
  \A n \in Nat : \A f \in [1 .. n -> Int] : \A S \in SUBSET (1 .. n) :
    S # {} => \E i \in S : \A j \in S : f[i] <= f[j]
<1> DEFINE Least(f, S) == \E i \in S : \A j \in S : f[i] <= f[j]
           P == {n \in Nat : \A f \in [1 .. n -> Int] : \A S \in SUBSET (1 .. n) :
                               S # {} => Least(f, S)}
<1>1. 0 \in P
  <2>1. \A S \in SUBSET (1 .. 0) : S = {}
    OBVIOUS
  <2> HIDE DEF Least
  <2>2. QED BY <2>1
<1>2. ASSUME NEW n \in Nat, n \in P PROVE n + 1 \in P
  <2>1. ASSUME NEW f \in [1 .. n + 1 -> Int], NEW S \in SUBSET (1 .. n + 1), S # {}
        PROVE  Least(f, S)
    <3> DEFINE g == [i \in 1 .. n |-> f[i]]
               R == S \ {n + 1}
    <3>1. g \in [1 .. n -> Int] /\ R \in SUBSET (1 .. n) /\ \A i \in R : g[i] = f[i]
      OBVIOUS
    <3>2. \A i \in S : i = n + 1 \/ i \in R
      OBVIOUS
    <3>3. \A i \in S : f[i] \in Int
      OBVIOUS
    <3> HIDE DEF g
    <3>4. CASE R = {}
      <4>1. S = {n + 1}
        BY <2>1, <3>4
      <4>2. QED BY <3>3, <4>1
    <3>5. CASE R # {}
      <4>1. PICK i \in R : \A j \in R : g[i] <= g[j]
        BY <1>2, <3>1, <3>5
      <4>2. \A j \in R : f[i] <= f[j]
        BY <3>1, <4>1
      <4> HIDE DEF R
      <4>3. i \in S
        BY <4>1 DEF R
      <4>4. CASE n + 1 \in S /\ f[n + 1] < f[i]
        <5>1. \A j \in S : f[n + 1] <= f[j]
          BY <3>2, <3>3, <4>2, <4>3, <4>4
        <5>2. QED BY <4>4, <5>1
      <4>5. CASE ~(n + 1 \in S /\ f[n + 1] < f[i])
        <5>1. \A j \in S : f[i] <= f[j]
          BY <3>2, <3>3, <4>2, <4>3, <4>5
        <5>2. QED BY <4>3, <5>1
      <4>6. QED BY <4>4, <4>5
    <3>6. QED BY <3>4, <3>5
  <2> HIDE DEF Least
  <2>2. QED BY <2>1
<1>3. \A n \in Nat : n \in P
  <2> HIDE DEF P
  <2>1. QED BY <1>1, <1>2, CountingUp
<1>4. QED BY <1>3

-----------------------------------------------------------------------------
(* from_spans                                                              *)

\* The children of a node are the spans that name it, each once.
LEMMA ChildrenAre ==
  ASSUME IsTrace(trace), NEW p
  PROVE  /\ ChildrenOf(p) \in Seq(Spans) /\ ChildrenOf(p) \in Seq(Nodes)
         /\ IsInjective(ChildrenOf(p))
         /\ ToSet(ChildrenOf(p)) = {i \in Spans : trace[i].parent = p}
         /\ ChildrenOf(p) = <<>> <=> ToSet(ChildrenOf(p)) = {}
<1>1. Ids \in Seq(Spans) /\ IsInjective(Ids) /\ ToSet(Ids) = Spans
  <2>1. PICK L \in Nat : Spans = 1 .. L
    BY NodesAre
  <2>2. Ids = [i \in 1 .. L |-> i]
    BY <2>1 DEF Ids
  <2>3. Ids \in [1 .. L -> Spans]
    BY <2>1, <2>2
  <2>4. Ids \in Seq(Spans)
    BY <2>3
  <2>5. ToSet(Ids) = Spans
    BY <2>1, <2>2 DEF ToSet
  <2>6. IsInjective(Ids)
    BY <2>2 DEF IsInjective
  <2>7. QED BY <2>4, <2>5, <2>6
<1> DEFINE S == {i \in Spans : trace[i].parent = p}
<1>2. /\ Those(Ids, S) \in Seq(Spans) /\ ToSet(Those(Ids, S)) = ToSet(Ids) \cap S
      /\ IsInjective(Those(Ids, S))
  <2> HIDE DEF S
  <2>1. QED BY <1>1, ThoseHold
<1>3. PICK s : s = ChildrenOf(p)
  OBVIOUS
<1>4. s \in Seq(Spans) /\ IsInjective(s) /\ ToSet(s) = S
  BY <1>1, <1>2, <1>3 DEF ChildrenOf
<1>5. s \in Seq(Nodes)
  BY <1>4 DEF Nodes
<1>6. s = <<>> <=> ToSet(s) = {}
  <2>1. ASSUME ToSet(s) = {} PROVE s = <<>>
    <3>1. \A k \in DOMAIN s : s[k] \in ToSet(s)
      BY DEF ToSet
    <3>2. Len(s) = 0
      BY <1>4, <2>1, <3>1
    <3>3. QED BY <1>4, <3>2
  <2>2. ToSet(<<>>) = {}
    BY DEF ToSet
  <2>3. QED BY <2>1, <2>2
<1>7. QED BY <1>3, <1>4, <1>5, <1>6

\* A lost span covers its children.
LEMMA LostCovers ==
  ASSUME IsTrace(trace), ChildrenOf(Lost) # <<>>
  PROVE  /\ Start(Lost) \in Int /\ End(Lost) \in Int
         /\ \A i \in ToSet(ChildrenOf(Lost)) :
              Start(Lost) <= trace[i].start /\ trace[i].end <= End(Lost)
<1> DEFINE L == Len(trace)
           S == ToSet(ChildrenOf(Lost))
           f == [i \in 1 .. L |-> trace[i].start]
           g == [i \in 1 .. L |-> -trace[i].end]
<1>1. L \in Nat /\ Spans = 1 .. L /\ \A i \in 1 .. L : trace[i].start \in Int /\ trace[i].end \in Int
  BY NodesAre
<1>2. S \in SUBSET (1 .. L) /\ S # {}
  BY <1>1, ChildrenAre
<1> HIDE DEF L, S
<1>3. PICK i \in S : \A j \in S : trace[i].start <= trace[j].start
  <2>1. f \in [1 .. L -> Int] /\ \A i \in S : f[i] = trace[i].start
    BY <1>1, <1>2
  <2> HIDE DEF f
  <2>2. PICK i \in S : \A j \in S : f[i] <= f[j]
    BY <1>1, <1>2, <2>1, LeastPlace
  <2>3. QED BY <2>1, <2>2
<1>4. PICK k \in S : \A j \in S : trace[j].end <= trace[k].end
  <2>1. g \in [1 .. L -> Int] /\ \A k \in S : g[k] = -trace[k].end
    BY <1>1, <1>2
  <2> HIDE DEF g
  <2>2. PICK k \in S : \A j \in S : g[k] <= g[j]
    BY <1>1, <1>2, <2>1, LeastPlace
  <2>3. ASSUME NEW j \in S PROVE trace[j].end <= trace[k].end
    <3>1. trace[j].end \in Int /\ trace[k].end \in Int /\ -trace[k].end <= -trace[j].end
      BY <1>1, <1>2, <2>1, <2>2
    <3>2. QED BY <3>1
  <2>4. QED BY <2>3
<1>5. Start(Lost) = Min({trace[j].start : j \in S}) /\ End(Lost) = Max({trace[j].end : j \in S})
  BY DEF Start, End, S
<1>6. Min({trace[j].start : j \in S}) = trace[i].start
  <2> DEFINE T == {trace[j].start : j \in S}
  <2>1. trace[i].start \in T /\ \A x \in T : trace[i].start <= x /\ x \in Int
    BY <1>1, <1>2, <1>3
  <2> HIDE DEF T
  <2>2. \A x \in T : (\A y \in T : x <= y) => x = trace[i].start
    BY <2>1
  <2>3. Min(T) = trace[i].start
    BY <2>1, <2>2 DEF Min
  <2>4. QED BY <2>3 DEF T
<1>7. Max({trace[j].end : j \in S}) = trace[k].end
  <2> DEFINE T == {trace[j].end : j \in S}
  <2>1. trace[k].end \in T /\ \A x \in T : x <= trace[k].end /\ x \in Int
    BY <1>1, <1>2, <1>4
  <2> HIDE DEF T
  <2>2. \A x \in T : (\A y \in T : x >= y) => x = trace[k].end
    BY <2>1
  <2>3. Max(T) = trace[k].end
    BY <2>1, <2>2 DEF Max
  <2>4. QED BY <2>3 DEF T
<1>8. QED BY <1>1, <1>2, <1>3, <1>4, <1>5, <1>6, <1>7 DEF S

\* The roots are the spans that have no parent, and Lost if spans name it.
LEMMA RootsAre ==
  ASSUME IsTrace(trace)
  PROVE  /\ Roots \in Seq(Nodes) /\ IsInjective(Roots) /\ Len(Roots) \in Nat \ {0}
         /\ \A x : x \in ToSet(Roots) <=> \/ x \in Spans /\ trace[x].parent = None
                                          \/ x = Lost /\ ChildrenOf(Lost) # <<>>
<1> DEFINE lost == IF ChildrenOf(Lost) = <<>> THEN <<>> ELSE <<Lost>>
<1>1. /\ ChildrenOf(None) \in Seq(Nodes) /\ IsInjective(ChildrenOf(None))
      /\ ToSet(ChildrenOf(None)) = {i \in Spans : trace[i].parent = None}
  BY ChildrenAre
<1>2. Lost \in Nodes /\ Lost \notin Spans
  BY NodesAre DEF Nodes
<1>3. /\ lost \in Seq(Nodes) /\ IsInjective(lost)
      /\ \A x : x \in ToSet(lost) <=> x = Lost /\ ChildrenOf(Lost) # <<>>
  <2>1. CASE ChildrenOf(Lost) = <<>>
    <3>1. lost = <<>> /\ IsInjective(<<>>) /\ ToSet(<<>>) = {} /\ <<>> \in Seq(Nodes)
      BY <2>1 DEF IsInjective, ToSet
    <3> HIDE DEF lost
    <3>2. QED BY <2>1, <3>1
  <2>2. CASE ChildrenOf(Lost) # <<>>
    <3>1. /\ lost = <<Lost>> /\ IsInjective(<<Lost>>) /\ ToSet(<<Lost>>) = {Lost}
          /\ <<Lost>> \in Seq(Nodes)
      BY <1>2, <2>2 DEF IsInjective, ToSet
    <3> HIDE DEF lost
    <3>2. QED BY <2>2, <3>1
  <2>3. QED BY <2>1, <2>2
<1>4. Roots = ChildrenOf(None) \o lost
  BY DEF Roots
<1> HIDE DEF lost
<1>5. ToSet(ChildrenOf(None)) \cap ToSet(lost) = {}
  BY <1>1, <1>2, <1>3
<1>6. /\ ToSet(Roots) = ToSet(ChildrenOf(None)) \cup ToSet(lost) /\ IsInjective(Roots)
      /\ Roots \in Seq(Nodes)
  BY <1>1, <1>3, <1>4, <1>5, ConcatHolds, ConcatProperties
<1>7. \A x : x \in ToSet(Roots) <=> \/ x \in Spans /\ trace[x].parent = None
                                    \/ x = Lost /\ ChildrenOf(Lost) # <<>>
  BY <1>1, <1>3, <1>6
<1>8. ToSet(Roots) # {}
  <2>1. PICK rank \in [Spans -> Spans] :
          \A i \in Spans : trace[i].parent \in Spans => rank[trace[i].parent] < rank[i]
    BY DEF IsTrace, ParentsFirst, Spans
  <2>2. PICK L \in Nat \ {0} : Spans = 1 .. L
    BY NodesAre
  <2>3. rank \in [1 .. L -> Int] /\ 1 .. L # {} /\ 1 .. L \in SUBSET (1 .. L) /\ L \in Nat
    BY <2>1, <2>2
  <2>4. PICK i \in 1 .. L : \A j \in 1 .. L : rank[i] <= rank[j]
    BY <2>3, LeastPlace
  <2>5. trace[i].parent \notin Spans
    <3>1. ASSUME trace[i].parent \in Spans PROVE FALSE
      <4>1. PICK p \in 1 .. L : p = trace[i].parent
        BY <2>2, <3>1
      <4>2. rank[p] < rank[i] /\ rank[i] <= rank[p] /\ rank[p] \in Int /\ rank[i] \in Int
        BY <2>1, <2>2, <2>3, <2>4, <4>1
      <4>3. QED BY <4>2
    <3>2. QED BY <3>1
  <2>6. trace[i].parent = None \/ trace[i].parent = Lost
    BY <2>2, <2>5, NodesAre
  <2>7. trace[i].parent = Lost => ChildrenOf(Lost) # <<>>
    BY <2>2, ChildrenAre
  <2>8. QED BY <1>7, <2>2, <2>6, <2>7
<1>9. Len(Roots) # 0
  <2>1. Len(Roots) = 0 => Roots = <<>>
    BY <1>6
  <2>2. ToSet(<<>>) = {}
    BY DEF ToSet
  <2>3. QED BY <1>8, <2>1, <2>2
<1>10. QED BY <1>6, <1>7, <1>9

\* The nodes that a tree has.
InTree ==
  {n \in Nodes : /\ n = Lost => ChildrenOf(Lost) # <<>>
                 /\ n = Root => Top = Root}

\* Top is in the tree, and is a root.
LEMMA TopIs ==
  ASSUME IsTrace(trace)
  PROVE  /\ Top \in InTree
         /\ Top # Root => Top = Lost \/ (Top \in Spans /\ trace[Top].parent = None)
         /\ Top # Root => \A x \in ToSet(Roots) : x = Top
         /\ Spans \subseteq InTree
<1>1. /\ Roots \in Seq(Nodes) /\ Len(Roots) \in Nat \ {0}
      /\ \A x : x \in ToSet(Roots) <=> \/ x \in Spans /\ trace[x].parent = None
                                       \/ x = Lost /\ ChildrenOf(Lost) # <<>>
  BY RootsAre
<1>2. Lost \notin Spans /\ Root \notin Spans /\ Lost # Root
  BY NodesAre
<1>3. Spans \subseteq InTree
  BY <1>2 DEF InTree, Nodes
<1>4. CASE Len(Roots) > 1
  <2>1. Top = Root
    BY <1>4 DEF Top
  <2>2. QED BY <1>2, <1>3, <2>1 DEF InTree, Nodes
<1>5. CASE ~(Len(Roots) > 1)
  <2>1. Top = Roots[1]
    BY <1>5 DEF Top
  <2>2. Len(Roots) = 1 /\ DOMAIN Roots = 1 .. 1
    <3>1. Len(Roots) = 1
      <4>1. PICK l \in Nat \ {0} : l = Len(Roots)
        BY <1>1
      <4>2. ~(l > 1)
        BY <1>5, <4>1
      <4>3. l = 1
        BY ONLY <4>1, <4>2
      <4>4. QED BY <4>1, <4>3
    <3>2. DOMAIN Roots = 1 .. Len(Roots)
      BY <1>1
    <3>3. QED BY <3>1, <3>2
  <2>3. \A x : x \in ToSet(Roots) <=> x = Top
    <3>1. ToSet(Roots) = {Roots[k] : k \in 1 .. 1}
      BY <2>2 DEF ToSet
    <3>2. \A k \in 1 .. 1 : k = 1
      OBVIOUS
    <3>3. 1 \in 1 .. 1
      OBVIOUS
    <3>4. QED BY <2>1, <3>1, <3>2, <3>3
  <2>4. Top \in ToSet(Roots)
    BY <2>3
  <2>5. Top \in InTree
    BY <1>1, <1>2, <1>3, <2>4 DEF InTree, Nodes
  <2>6. Top = Lost \/ (Top \in Spans /\ trace[Top].parent = None)
    BY <1>1, <2>4
  <2>7. QED BY <1>3, <2>3, <2>5, <2>6
<1>6. QED BY <1>4, <1>5

\* What goes above what.
Ranks == [Nodes -> Nat]

Above(rank, n, m) ==
  /\ m # Root
  /\ n # Root => /\ Start(n) <= Start(m) /\ End(m) <= End(n)
                 /\ Slack(n, m) > 0 \/ rank[n] < rank[m]

\* Whatever is in a tree is there below something or on top; and if the times are right,
\* what is above it encloses it.
Linked(t, rank) ==
  /\ \A x \in InTree : x = Top \/ \E p \in InTree : x \in ToSet(t[p])
  /\ \A p \in Nodes : \A c \in ToSet(t[p]) :
       p \in InTree /\ c \in InTree /\ (WellTimed => Above(rank, p, c))

\* The nodes of a tree have times.
LEMMA TimesType ==
  ASSUME IsTrace(trace), NEW n \in InTree, n # Root
  PROVE  Start(n) \in Int /\ End(n) \in Int
<1>1. CASE n = Lost
  BY <1>1, LostCovers DEF InTree
<1>2. CASE n \in Spans
  BY <1>2, NodesAre DEF Start, End
<1>3. QED BY <1>1, <1>2 DEF InTree, Nodes

\* It is an order.
LEMMA AboveIsAnOrder ==
  ASSUME IsTrace(trace), NEW rank \in Ranks
  PROVE  /\ \A n \in InTree : ~Above(rank, n, n)
         /\ \A n, m, l \in InTree : Above(rank, n, m) /\ Above(rank, m, l) => Above(rank, n, l)
<1>1. ASSUME NEW n \in InTree, Above(rank, n, n) PROVE FALSE
  <2>1. n # Root
    BY <1>1 DEF Above
  <2>2. Start(n) \in Int /\ End(n) \in Int /\ rank[n] \in Nat
    BY <2>1, TimesType DEF InTree, Ranks
  <2>3. Slack(n, n) > 0 \/ rank[n] < rank[n]
    BY <1>1, <2>1 DEF Above
  <2>4. QED BY <2>2, <2>3 DEF Slack
<1>2. ASSUME NEW n \in InTree, NEW m \in InTree, NEW l \in InTree,
             Above(rank, n, m), Above(rank, m, l)
      PROVE  Above(rank, n, l)
  <2>1. m # Root /\ l # Root
    BY <1>2 DEF Above
  <2>2. CASE n = Root
    BY <2>1, <2>2 DEF Above
  <2>3. CASE n # Root
    <3>1. /\ Start(n) \in Int /\ End(n) \in Int /\ Start(m) \in Int /\ End(m) \in Int
          /\ Start(l) \in Int /\ End(l) \in Int
      BY <2>1, <2>3, TimesType
    <3>2. rank[n] \in Nat /\ rank[m] \in Nat /\ rank[l] \in Nat
      BY DEF InTree, Ranks
    <3>3. /\ Start(n) <= Start(m) /\ End(m) <= End(n)
          /\ Slack(n, m) > 0 \/ rank[n] < rank[m]
          /\ Start(m) <= Start(l) /\ End(l) <= End(m)
          /\ Slack(m, l) > 0 \/ rank[m] < rank[l]
      BY <1>2, <2>1, <2>3 DEF Above
    <3>4. Start(n) <= Start(l) /\ End(l) <= End(n)
      BY <3>1, <3>3
    <3>5. /\ Slack(n, l) = Slack(n, m) + Slack(m, l)
          /\ Slack(n, m) \in Nat /\ Slack(m, l) \in Nat
      BY <3>1, <3>3 DEF Slack
    <3>6. Slack(n, l) > 0 \/ rank[n] < rank[l]
      BY <3>2, <3>3, <3>5
    <3>7. QED BY <2>1, <3>4, <3>6 DEF Above
  <2>4. QED BY <2>2, <2>3
<1>3. QED BY <1>1, <1>2

-----------------------------------------------------------------------------
\* The tree that from_spans makes.
FirstTree ==
  [n \in Nodes |-> IF n # Root THEN ChildrenOf(n) ELSE IF Top = Root THEN Roots ELSE <<>>]

\* A node has the children that name it, and Root the roots.
LEMMA FirstTreeIs ==
  ASSUME IsTrace(trace)
  PROVE  /\ FirstTree \in Trees
         /\ \A n \in Nodes : n # Root => ToSet(FirstTree[n]) = {i \in Spans : trace[i].parent = n}
         /\ Top # Root => ToSet(FirstTree[Root]) = {}
         /\ Top = Root => \A x : x \in ToSet(FirstTree[Root]) <=>
              \/ x \in Spans /\ trace[x].parent = None
              \/ x = Lost /\ ChildrenOf(Lost) # <<>>
         /\ \A n \in Nodes : IsInjective(FirstTree[n])
<1>1. Root \in Nodes
  BY DEF Nodes
<1>2. ASSUME NEW n \in Nodes, n # Root
      PROVE  /\ FirstTree[n] \in Seq(Nodes) /\ IsInjective(FirstTree[n])
             /\ ToSet(FirstTree[n]) = {i \in Spans : trace[i].parent = n}
  <2>1. FirstTree[n] = ChildrenOf(n)
    BY <1>2 DEF FirstTree
  <2>2. QED BY <2>1, ChildrenAre
<1>3. CASE Top = Root
  <2>1. FirstTree[Root] = Roots
    BY <1>1, <1>3 DEF FirstTree
  <2>2. \A n \in Nodes : FirstTree[n] \in Seq(Nodes) /\ IsInjective(FirstTree[n])
    BY <1>2, <2>1, RootsAre
  <2>3. FirstTree \in Trees
    <3>1. FirstTree = [n \in Nodes |-> FirstTree[n]]
      BY DEF FirstTree
    <3>2. QED BY <2>2, <3>1 DEF Trees
  <2>4. QED BY <1>2, <1>3, <2>1, <2>2, <2>3, RootsAre
<1>4. CASE Top # Root
  <2>1. FirstTree[Root] = <<>>
    BY <1>1, <1>4 DEF FirstTree
  <2>2. ToSet(<<>>) = {} /\ IsInjective(<<>>) /\ <<>> \in Seq(Nodes)
    BY DEF ToSet, IsInjective
  <2>3. \A n \in Nodes : FirstTree[n] \in Seq(Nodes) /\ IsInjective(FirstTree[n])
    BY <1>2, <2>1, <2>2
  <2>4. FirstTree \in Trees
    <3>1. FirstTree = [n \in Nodes |-> FirstTree[n]]
      BY DEF FirstTree
    <3>2. QED BY <2>3, <3>1 DEF Trees
  <2>5. QED BY <1>2, <1>4, <2>1, <2>2, <2>3, <2>4
<1>5. QED BY <1>3, <1>4

\* It has its shape, ...
LEMMA FirstTreeShape ==
  ASSUME IsTrace(trace)
  PROVE  Shape(FirstTree)
<1>1. Lost \notin Spans /\ Root \notin Spans /\ None \notin Nodes /\ Lost # Root
  BY NodesAre
<1>2. \A i \in Spans : trace[i].parent # Root
  BY <1>1, NodesAre, NamesAssumption DEF Nodes
<1>3. /\ FirstTree \in Trees
      /\ \A n \in Nodes : n # Root => ToSet(FirstTree[n]) = {i \in Spans : trace[i].parent = n}
      /\ Top # Root => ToSet(FirstTree[Root]) = {}
      /\ \A n \in Nodes : IsInjective(FirstTree[n])
  BY FirstTreeIs
<1>4. Top = Root => \A x : x \in ToSet(FirstTree[Root]) <=>
              \/ x \in Spans /\ trace[x].parent = None
              \/ x = Lost /\ ChildrenOf(Lost) # <<>>
  BY FirstTreeIs
<1>5. ASSUME NEW n \in Nodes, NEW c \in ToSet(FirstTree[n])
      PROVE  \/ n # Root /\ c \in Spans /\ trace[c].parent = n
             \/ n = Root /\ c \in Spans /\ trace[c].parent = None
             \/ n = Root /\ c = Lost
  <2>1. CASE n # Root
    BY <1>3, <1>5, <2>1
  <2>2. CASE n = Root
    BY <1>3, <1>4, <1>5, <2>2
  <2>3. QED BY <2>1, <2>2
<1>6. ASSUME NEW m \in Nodes, NEW n \in Nodes, NEW c, c \in ToSet(FirstTree[m]),
             c \in ToSet(FirstTree[n])
      PROVE  m = n
  <2>1. \/ m # Root /\ c \in Spans /\ trace[c].parent = m
        \/ m = Root /\ c \in Spans /\ trace[c].parent = None
        \/ m = Root /\ c = Lost
    BY <1>5, <1>6
  <2>2. \/ n # Root /\ c \in Spans /\ trace[c].parent = n
        \/ n = Root /\ c \in Spans /\ trace[c].parent = None
        \/ n = Root /\ c = Lost
    BY <1>5, <1>6
  <2>3. QED BY <1>1, <2>1, <2>2
<1>7. ASSUME NEW n \in Nodes, Top \in ToSet(FirstTree[n]) PROVE FALSE
  <2>1. \/ n # Root /\ Top \in Spans /\ trace[Top].parent = n
        \/ n = Root /\ Top \in Spans /\ trace[Top].parent = None
        \/ n = Root /\ Top = Lost
    BY <1>5, <1>7
  <2>2. Top # Root
    BY <1>1, <2>1
  <2>3. Top = Lost \/ (Top \in Spans /\ trace[Top].parent = None)
    BY <2>2, TopIs
  <2>4. n # Root
    BY <1>3, <1>7, <2>2
  <2>5. QED BY <1>1, <2>1, <2>3, <2>4
<1>8. QED BY <1>3, <1>6, <1>7 DEF Shape

\* ... and everything is linked.
LEMMA FirstTreeLinked ==
  ASSUME IsTrace(trace)
  PROVE  \E rank \in Ranks : Linked(FirstTree, rank)
<1>1. PICK r \in [Spans -> Spans] :
         \A i \in Spans : trace[i].parent \in Spans => r[trace[i].parent] < r[i]
  BY DEF IsTrace, ParentsFirst, Spans
<1> DEFINE rank == [n \in Nodes |-> IF n \in Spans THEN r[n] ELSE 0]
<1>2. /\ Lost \notin Spans /\ Root \notin Spans /\ None \notin Nodes /\ Lost # Root
      /\ \A i \in Spans : i \in Nat \ {0} /\ i \in Nodes
      /\ Lost \in Nodes /\ Root \in Nodes
  BY NodesAre DEF Nodes
<1>3. rank \in Ranks /\ rank[Lost] = 0 /\ \A i \in Spans : rank[i] = r[i] /\ r[i] \in Nat \ {0}
  BY <1>1, <1>2 DEF Ranks
<1> HIDE DEF rank
<1>4. /\ \A n \in Nodes : n # Root => ToSet(FirstTree[n]) = {i \in Spans : trace[i].parent = n}
      /\ Top # Root => ToSet(FirstTree[Root]) = {}
  BY FirstTreeIs
<1>5. Top = Root => \A x : x \in ToSet(FirstTree[Root]) <=>
              \/ x \in Spans /\ trace[x].parent = None
              \/ x = Lost /\ ChildrenOf(Lost) # <<>>
  BY FirstTreeIs
<1>6. Spans \subseteq InTree /\ Top \in InTree
  BY TopIs
<1>7. \A i \in Spans : trace[i].parent = Lost => Lost \in InTree
  <2>1. ASSUME NEW i \in Spans, trace[i].parent = Lost PROVE Lost \in InTree
    <3>1. ChildrenOf(Lost) # <<>>
      BY <2>1, ChildrenAre
    <3>2. QED BY <1>2, <3>1 DEF InTree
  <2>2. QED BY <2>1
<1>8. ASSUME NEW x \in InTree, x # Top PROVE \E p \in InTree : x \in ToSet(FirstTree[p])
  <2>1. ASSUME x \in ToSet(Roots) PROVE Root \in InTree /\ x \in ToSet(FirstTree[Root])
    <3>1. Top = Root
      BY <1>8, <2>1, TopIs
    <3>2. FirstTree[Root] = Roots
      BY <1>2, <3>1 DEF FirstTree
    <3>3. QED BY <1>6, <2>1, <3>1, <3>2
  <2>2. \A y : y \in ToSet(Roots) <=> \/ y \in Spans /\ trace[y].parent = None
                                      \/ y = Lost /\ ChildrenOf(Lost) # <<>>
    BY RootsAre
  <2>3. CASE x \in Spans
    <3>1. trace[x].parent \in Spans \cup {None, Lost}
      BY <2>3, NodesAre
    <3>2. CASE trace[x].parent = None
      BY <2>1, <2>2, <2>3, <3>2
    <3>3. CASE trace[x].parent # None
      <4>1. PICK p : p = trace[x].parent
        OBVIOUS
      <4>2. p \in InTree /\ p \in Nodes /\ p # Root
        BY <1>2, <1>6, <1>7, <2>3, <3>1, <3>3, <4>1
      <4>3. x \in ToSet(FirstTree[p])
        BY <1>4, <2>3, <4>1, <4>2
      <4>4. QED BY <4>2, <4>3
    <3>4. QED BY <3>2, <3>3
  <2>4. CASE x = Lost
    BY <1>8, <2>1, <2>2, <2>4 DEF InTree
  <2>5. CASE x = Root
    BY <1>8, <2>5 DEF InTree
  <2>6. QED BY <2>3, <2>4, <2>5 DEF InTree, Nodes
<1>9. ASSUME NEW p \in Nodes, NEW c \in ToSet(FirstTree[p])
      PROVE  p \in InTree /\ c \in InTree /\ (WellTimed => Above(rank, p, c))
  <2>1. CASE p = Root
    <3>1. Top = Root
      BY <1>4, <1>9, <2>1
    <3>2. c \in InTree /\ c # Root
      BY <1>2, <1>5, <1>6, <1>9, <2>1, <3>1 DEF InTree
    <3>3. Above(rank, p, c)
      BY <2>1, <3>2 DEF Above
    <3>4. QED BY <1>6, <2>1, <3>1, <3>2, <3>3
  <2>2. CASE p # Root
    <3>1. c \in Spans /\ trace[c].parent = p
      BY <1>4, <1>9, <2>2
    <3>2. c \in InTree /\ c # Root /\ c # Lost
      BY <1>2, <1>6, <3>1
    <3>3. Start(c) = trace[c].start /\ End(c) = trace[c].end
      BY <3>2 DEF Start, End
    <3>4. CASE p = Lost
      <4>1. ChildrenOf(Lost) # <<>> /\ c \in ToSet(ChildrenOf(Lost))
        BY <3>1, <3>4, ChildrenAre
      <4>2. Start(Lost) <= trace[c].start /\ trace[c].end <= End(Lost)
        BY <4>1, LostCovers
      <4>3. rank[p] < rank[c]
        BY <1>3, <3>1, <3>4
      <4>4. Above(rank, p, c)
        BY <3>2, <3>3, <3>4, <4>2, <4>3 DEF Above
      <4>5. QED BY <1>7, <3>1, <3>2, <3>4, <4>4
    <3>5. CASE p \in Spans
      <4>1. p # Lost
        BY <1>2, <3>5
      <4>2. Start(p) = trace[p].start /\ End(p) = trace[p].end
        BY <4>1 DEF Start, End
      <4>3. rank[p] < rank[c]
        BY <1>1, <1>3, <3>1, <3>5
      <4>4. ASSUME WellTimed PROVE Start(p) <= Start(c) /\ End(c) <= End(p)
        BY <3>1, <3>3, <3>5, <4>2, <4>4 DEF WellTimed
      <4>5. WellTimed => Above(rank, p, c)
        BY <3>2, <4>3, <4>4 DEF Above
      <4>6. QED BY <1>6, <3>2, <3>5, <4>5
    <3>6. QED BY <2>2, <3>4, <3>5 DEF Nodes
  <2>3. QED BY <2>1, <2>2
<1>10. Linked(FirstTree, rank)
  BY <1>8, <1>9 DEF Linked
<1>11. QED BY <1>3, <1>10

\* Of the places with the least value there is a first one.
LEMMA FirstOfTheLeast ==
  ASSUME NEW L \in Nat, NEW S \in SUBSET (1 .. L), S # {}, NEW f, \A i \in S : f[i] \in Int
  PROVE  \E k \in S : \A j \in S : f[k] < f[j] \/ (f[k] = f[j] /\ k <= j)
<1> DEFINE g == [i \in 1 .. L |-> IF i \in S THEN f[i] ELSE 0]
           h == [i \in 1 .. L |-> i]
<1>1. g \in [1 .. L -> Int] /\ h \in [1 .. L -> Int] /\ \A i \in S : g[i] = f[i] /\ h[i] = i /\ i \in Int
  OBVIOUS
<1> HIDE DEF g, h
<1>2. PICK i \in S : \A j \in S : g[i] <= g[j]
  BY <1>1, LeastPlace
<1> DEFINE R == {j \in S : f[j] = f[i]}
<1>3. R \in SUBSET (1 .. L) /\ R # {}
  OBVIOUS
<1> HIDE DEF R
<1>4. PICK k \in R : \A j \in R : h[k] <= h[j]
  BY <1>1, <1>3, LeastPlace
<1>5. k \in S /\ f[k] = f[i]
  BY <1>4 DEF R
<1>6. ASSUME NEW j \in S PROVE f[k] < f[j] \/ (f[k] = f[j] /\ k <= j)
  <2>1. f[i] <= f[j] /\ f[i] \in Int /\ f[j] \in Int
    BY <1>1, <1>2
  <2>2. CASE f[j] = f[i]
    <3>1. j \in R
      BY <2>2 DEF R
    <3>2. h[k] <= h[j] /\ h[k] = k /\ h[j] = j
      BY <1>1, <1>4, <1>5, <3>1
    <3>3. QED BY <1>5, <2>2, <3>2
  <2>3. CASE f[j] # f[i]
    BY <1>5, <2>1, <2>3
  <2>4. QED BY <2>2, <2>3
<1>7. QED BY <1>5, <1>6

\* From a node of a tree down there are nodes of the tree only, and Root only on top.
LEMMA DownStaysInTree ==
  ASSUME IsTrace(trace), NEW t, Shape(t), NEW rank, Linked(t, rank), NEW n \in InTree
  PROVE  \A d \in 0 .. Depth : \A x \in In(t, d, n) : x \in InTree /\ (x = n \/ x # Root)
<1> SUFFICES ASSUME NEW d \in 0 .. Depth, NEW x \in In(t, d, n), x # n
             PROVE  x \in InTree /\ x # Root
  OBVIOUS
<1>1. t \in Trees /\ n \in Nodes /\ Depth \in Nat
  BY NodesAre DEF Shape, InTree
<1>2. d # 0
  BY <1>1, InIs
<1>3. d \in 1 .. Depth /\ d - 1 \in 0 .. Depth
  BY <1>1, <1>2
<1>4. PICK p \in In(t, d - 1, n) : x \in ToSet(t[p])
  BY <1>1, <1>3, ParentIn
<1>5. p \in Nodes
  BY <1>1, <1>3, InIs
<1>6. x \in InTree
  BY <1>4, <1>5 DEF Linked
<1>7. x # Root
  BY <1>4, <1>5, <1>6 DEF Shape, InTree
<1>8. QED BY <1>6, <1>7

-----------------------------------------------------------------------------
(* repair_hierarchy                                                        *)

\* A child of one node becomes the last child of another.
Moved(t, top, m, q) ==
  LET left == [t EXCEPT ![top] = Those(@, Nodes \ {m})]
  IN [left EXCEPT ![q] = Append(@, m)]

\* The others keep their children.
LEMMA MovedIs ==
  ASSUME NEW t, Shape(t), NEW top \in Nodes, NEW m \in ToSet(t[top]),
         NEW q \in Nodes, q # top
  PROVE  /\ Moved(t, top, m, q) \in Trees
         /\ ToSet(Moved(t, top, m, q)[top]) = ToSet(t[top]) \ {m}
         /\ ToSet(Moved(t, top, m, q)[q]) = ToSet(t[q]) \cup {m}
         /\ \A n \in Nodes : n # top /\ n # q => Moved(t, top, m, q)[n] = t[n]
         /\ \A n \in Nodes : IsInjective(Moved(t, top, m, q)[n])
<1> DEFINE rest == Those(t[top], Nodes \ {m})
           more == Append(t[q], m)
           u == [n \in Nodes |-> IF n = top THEN rest ELSE IF n = q THEN more ELSE t[n]]
<1>1. t \in Trees /\ (\A n \in Nodes : t[n] \in Seq(Nodes) /\ IsInjective(t[n]) /\ ToSet(t[n]) \subseteq Nodes)
  BY DEF Shape, Trees, ToSet
<1>2. m \in Nodes /\ m \notin ToSet(t[q])
  BY <1>1 DEF Shape
<1>3. /\ rest \in Seq(Nodes) /\ ToSet(rest) = ToSet(t[top]) \cap (Nodes \ {m})
      /\ IsInjective(rest)
  BY <1>1, ThoseHold
<1>4. /\ more \in Seq(Nodes) /\ ToSet(more) = ToSet(t[q]) \cup {m} /\ IsInjective(more)
  <2>1. PICK s \in Seq(Nodes) : s = t[q]
    BY <1>1
  <2>2. /\ ToSet(Append(s, m)) = ToSet(s) \cup {m}
        /\ IsInjective(Append(s, m)) <=> IsInjective(s) /\ m \notin ToSet(s)
    BY <1>2, AppendHolds
  <2>3. IsInjective(s) /\ m \notin ToSet(s)
    BY <1>1, <1>2, <2>1
  <2>4. Append(s, m) \in Seq(Nodes)
    BY <1>2
  <2>5. QED BY <2>1, <2>2, <2>3, <2>4
<1>5. Moved(t, top, m, q) = u
  <2> HIDE DEF rest
  <2>1. PICK left : left = [t EXCEPT ![top] = rest]
    OBVIOUS
  <2>2. t = [n \in Nodes |-> t[n]] /\ DOMAIN t = Nodes
    BY <1>1 DEF Trees
  <2>3. left = [n \in Nodes |-> IF n = top THEN rest ELSE t[n]]
    BY ONLY <2>1, <2>2
  <2>4. [left EXCEPT ![q] = Append(@, m)]
        = [n \in Nodes |-> IF n = q THEN Append(left[n], m) ELSE left[n]]
    BY ONLY <2>3
  <2>5. ASSUME NEW n \in Nodes
        PROVE  (IF n = q THEN Append(left[n], m) ELSE left[n]) = u[n]
    BY <2>3
  <2>6. [left EXCEPT ![q] = Append(@, m)] = u
    BY <2>4, <2>5
  <2>7. Moved(t, top, m, q) = [left EXCEPT ![q] = Append(@, m)]
    BY <2>1 DEF Moved, rest
  <2>8. QED BY <2>7, <2>6
<1> HIDE DEF rest, more
<1>6. u[top] = rest /\ u[q] = more /\ \A n \in Nodes : n # top /\ n # q => u[n] = t[n]
  OBVIOUS
<1>7. \A n \in Nodes : u[n] \in Seq(Nodes) /\ IsInjective(u[n])
  BY <1>1, <1>3, <1>4
<1>8. u \in Trees
  <2>1. u = [n \in Nodes |-> u[n]]
    OBVIOUS
  <2> HIDE DEF u
  <2>2. QED BY <1>7, <2>1 DEF Trees
<1>9. ToSet(rest) = ToSet(t[top]) \ {m}
  BY <1>1, <1>3
<1> HIDE DEF u
<1>10. QED BY <1>4, <1>5, <1>6, <1>7, <1>8, <1>9

\* What adopts is one of those that enclose.
LEMMA AdoptedIs ==
  ASSUME IsTrace(trace), NEW t, Shape(t), NEW rank, Linked(t, rank), NEW top \in InTree,
         NEW m \in ToSet(t[top])
  PROVE  \/ Adopted(t, top, m) = t
         \/ \E q \in InTree : /\ q # m /\ q # top /\ q # Root /\ Encloses(q, m)
                              /\ Adopted(t, top, m) = Moved(t, top, m, q)
<1> DEFINE order == Traverse(t, top)
           able == {k \in DOMAIN order : order[k] \notin {m, top} /\ Encloses(order[k], m)}
           slack(k) == Slack(order[k], m)
           closest == CHOOSE k \in able :
             \A j \in able : slack(k) < slack(j) \/ (slack(k) = slack(j) /\ k <= j)
<1>1. Adopted(t, top, m) = IF Len(t[top]) = 1 \/ able = {} THEN t
                           ELSE Moved(t, top, m, order[closest])
  BY DEF Adopted, Moved
<1>2. SUFFICES ASSUME able # {}
               PROVE  \E q \in InTree : /\ q # m /\ q # top /\ q # Root /\ Encloses(q, m)
                                        /\ q = order[closest]
  BY <1>1
<1>3. t \in Trees /\ Depth \in 0 .. Depth /\ top \in Nodes
  BY NodesAre DEF Shape, InTree
<1>4. order \in Seq(Nodes) /\ ToSet(order) = In(t, Depth, top)
  BY <1>3, DownIs DEF Traverse, In, Trees
<1> HIDE DEF order
<1>5. PICK L \in Nat : DOMAIN order = 1 .. L
  BY <1>4
<1>6. m \in InTree /\ m # Root
  <2>1. m \in InTree
    BY <1>3 DEF Linked
  <2>2. QED BY <1>3, <2>1 DEF Shape, InTree
<1>7. ASSUME NEW k \in able
      PROVE  /\ order[k] \in InTree /\ order[k] # m /\ order[k] # top /\ order[k] # Root
             /\ Encloses(order[k], m) /\ slack(k) \in Int
  <2>1. order[k] \in In(t, Depth, top) /\ order[k] # m /\ order[k] # top /\ Encloses(order[k], m)
    BY <1>4, <1>7 DEF ToSet
  <2>2. order[k] \in InTree /\ order[k] # Root
    BY <1>3, <2>1, DownStaysInTree
  <2>3. /\ Start(order[k]) \in Int /\ End(order[k]) \in Int
        /\ Start(m) \in Int /\ End(m) \in Int
    BY <1>6, <2>2, TimesType
  <2>4. slack(k) \in Int
    BY <2>3 DEF Slack
  <2>5. QED BY <2>1, <2>2, <2>4
<1>8. closest \in able
  <2> DEFINE f == [k \in able |-> slack(k)]
  <2>1. able \in SUBSET (1 .. L)
    BY <1>5
  <2>2. \A k \in able : f[k] = slack(k)
    OBVIOUS
  <2> HIDE DEF able, f, slack
  <2>3. \A k \in able : f[k] \in Int
    BY <1>7, <2>2
  <2>4. \E k \in able : \A j \in able : f[k] < f[j] \/ (f[k] = f[j] /\ k <= j)
    BY <1>2, <2>1, <2>3, FirstOfTheLeast
  <2>5. \E k \in able : \A j \in able : slack(k) < slack(j) \/ (slack(k) = slack(j) /\ k <= j)
    BY <2>2, <2>4
  <2>6. QED BY <2>5
<1> HIDE DEF able, closest
<1>9. QED BY <1>7, <1>8

\* Such a step keeps the shape.
LEMMA MovedShape ==
  ASSUME IsTrace(trace), NEW t, Shape(t), NEW top \in Nodes, NEW m \in ToSet(t[top]),
         NEW q \in Nodes, q # top
  PROVE  Shape(Moved(t, top, m, q))
<1>1. PICK u : u = Moved(t, top, m, q)
  OBVIOUS
<1>2. /\ u \in Trees
      /\ ToSet(u[top]) = ToSet(t[top]) \ {m}
      /\ ToSet(u[q]) = ToSet(t[q]) \cup {m}
      /\ \A n \in Nodes : n # top /\ n # q => u[n] = t[n]
      /\ \A n \in Nodes : IsInjective(u[n])
  BY <1>1, MovedIs
<1>3. \A n \in Nodes : \A c : c \in ToSet(u[n]) <=>
        IF c = m THEN n = q ELSE c \in ToSet(t[n])
  <2>1. \A n \in Nodes : m \in ToSet(t[n]) => n = top
    BY DEF Shape
  <2>2. ASSUME NEW n \in Nodes, NEW c
        PROVE  c \in ToSet(u[n]) <=> IF c = m THEN n = q ELSE c \in ToSet(t[n])
    <3>1. CASE n = top
      BY <1>2, <3>1
    <3>2. CASE n = q
      BY <1>2, <3>2
    <3>3. CASE n # top /\ n # q
      BY <1>2, <2>1, <3>3
    <3>4. QED BY <3>1, <3>2, <3>3
  <2>3. QED BY <2>2
<1>4. \A a, b \in Nodes : \A c : c \in ToSet(u[a]) /\ c \in ToSet(u[b]) => a = b
  BY <1>3 DEF Shape
<1>5. \A n \in Nodes : Top \notin ToSet(u[n])
  <2>1. m # Top
    BY DEF Shape
  <2>2. QED BY <1>3, <2>1 DEF Shape
<1>6. QED BY <1>1, <1>2, <1>4, <1>5 DEF Shape

\* What goes below something that encloses it stays linked.
LEMMA MovedLinked ==
  ASSUME IsTrace(trace), NEW t, Shape(t), NEW rank, Linked(t, rank),
         NEW top \in InTree, NEW m \in ToSet(t[top]),
         NEW q \in InTree, q # top, q # Root, Encloses(q, m)
  PROVE  Linked(Moved(t, top, m, q), rank)
<1>1. PICK u : u = Moved(t, top, m, q)
  OBVIOUS
<1> top \in Nodes /\ q \in Nodes
  BY DEF InTree
<1>2. /\ u \in Trees
      /\ ToSet(u[top]) = ToSet(t[top]) \ {m}
      /\ ToSet(u[q]) = ToSet(t[q]) \cup {m}
      /\ \A n \in Nodes : n # top /\ n # q => u[n] = t[n]
  BY <1>1, MovedIs
<1>3. m \in InTree /\ m # Root
  <2>1. m \in InTree
    BY DEF Linked
  <2>2. QED BY <2>1 DEF Shape, InTree
<1>4. Above(rank, q, m)
  BY <1>3 DEF Above, Encloses
<1>5. ASSUME NEW x \in InTree, x # Top PROVE \E p \in InTree : x \in ToSet(u[p])
  <2>1. CASE x = m
    BY <1>2, <2>1
  <2>2. CASE x # m
    <3>1. PICK p \in InTree : x \in ToSet(t[p])
      BY <1>5 DEF Linked
    <3>2. x \in ToSet(u[p])
      BY <1>2, <2>2, <3>1 DEF InTree
    <3>3. QED BY <3>2
  <2>3. QED BY <2>1, <2>2
<1>6. ASSUME NEW p \in Nodes, NEW c \in ToSet(u[p])
      PROVE  p \in InTree /\ c \in InTree /\ (WellTimed => Above(rank, p, c))
  <2>1. CASE p = q /\ c = m
    BY <1>3, <1>4, <2>1
  <2>2. CASE ~(p = q /\ c = m)
    <3>1. c \in ToSet(t[p])
      BY <1>2, <1>6, <2>2
    <3>2. QED BY <3>1 DEF Linked
  <2>3. QED BY <2>1, <2>2
<1>7. Linked(u, rank)
  BY <1>5, <1>6 DEF Linked
<1>8. QED BY <1>1, <1>7

\* What Fork and Repaired are said to be.
ForkFrom(t, n, f) ==
  f = [d \in 0 .. Depth |->
         IF d = 0 THEN n
         ELSE LET m == f[d - 1] IN IF Len(t[m]) = 1 THEN t[m][1] ELSE m]

RepairedFrom(t, top, f) ==
  f = [k \in 0 .. Len(t[top]) |-> IF k = 0 THEN t ELSE Adopted(f[k - 1], top, t[top][k])]

\* A fork of a tree is in the tree.
LEMMA ForkInTree ==
  ASSUME IsTrace(trace), NEW t, Shape(t), NEW rank, Linked(t, rank), NEW n \in InTree
  PROVE  Fork(t, n) \in InTree
<1> DEFINE next(m) == IF Len(t[m]) = 1 THEN t[m][1] ELSE m
           W == [p \in InTree \X (1 .. Depth) |-> next(p[1])]
<1>1. Depth \in Nat
  BY NodesAre
<1>2. ASSUME NEW m \in InTree PROVE next(m) \in InTree
  <2>1. CASE Len(t[m]) = 1
    <3>1. t[m] \in Seq(Nodes) /\ m \in Nodes
      BY DEF Shape, Trees, InTree
    <3>2. t[m][1] \in ToSet(t[m])
      BY <2>1, <3>1 DEF ToSet
    <3>3. QED BY <2>1, <3>1, <3>2 DEF Linked
  <2>2. CASE Len(t[m]) # 1
    BY <2>2
  <2>3. QED BY <2>1, <2>2
<1>3. W \in [InTree \X (1 .. Depth) -> InTree]
  BY <1>2
<1>4. \A m \in InTree, d \in 1 .. Depth : W[<<m, d>>] = next(m)
  OBVIOUS
<1> HIDE DEF W
<1>5. PICK f \in [0 .. Depth -> InTree] : Unfolds(Depth, n, W, f)
  BY <1>1, <1>3, UnfoldExists
<1>6. \A d \in 0 .. Depth : f[d] \in InTree
  OBVIOUS
<1>7. f = [d \in 0 .. Depth |-> IF d = 0 THEN n ELSE W[<<f[d - 1], d>>]]
  BY <1>5 DEF Unfolds
<1>8. \A d \in 0 .. Depth : d # 0 => W[<<f[d - 1], d>>] = next(f[d - 1])
  <2>1. ASSUME NEW d \in 0 .. Depth, d # 0 PROVE f[d - 1] \in InTree /\ d \in 1 .. Depth
    BY <1>1, <1>6, <2>1
  <2> HIDE DEF next
  <2>2. QED BY <1>4, <2>1
<1>9. ForkFrom(t, n, f)
  <2>1. f = [d \in 0 .. Depth |-> IF d = 0 THEN n ELSE next(f[d - 1])]
    <3> HIDE DEF next
    <3>1. QED BY ONLY <1>7, <1>8
  <2>2. QED BY <2>1 DEF ForkFrom
<1>10. Fork(t, n) = (CHOOSE g : ForkFrom(t, n, g))[Depth]
  BY DEF Fork, ForkFrom
<1> DEFINE g == CHOOSE g : ForkFrom(t, n, g)
<1>11. ForkFrom(t, n, g)
  BY <1>9
<1> HIDE DEF g
<1>12. \A d \in 0 .. Depth : g[d] = IF d = 0 THEN n ELSE next(g[d - 1])
  BY <1>11 DEF ForkFrom
<1> HIDE DEF next
<1> DEFINE P == {d \in Nat : d \in 0 .. Depth => g[d] \in InTree}
<1>13. 0 \in P
  BY <1>1, <1>12
<1>14. ASSUME NEW d \in Nat, d \in P PROVE d + 1 \in P
  <2>1. ASSUME d + 1 \in 0 .. Depth PROVE g[d + 1] \in InTree
    <3>1. d \in 0 .. Depth /\ d + 1 # 0 /\ d + 1 - 1 = d
      BY <1>1, <2>1
    <3>2. QED BY <1>2, <1>12, <1>14, <2>1, <3>1
  <2>2. QED BY <2>1
<1>15. \A d \in Nat : d \in P
  <2> HIDE DEF P
  <2>1. QED BY <1>13, <1>14, CountingUp
<1>16. g[Depth] \in InTree
  BY <1>1, <1>15
<1>17. QED BY <1>10, <1>16 DEF g

\* A step of repair_hierarchy makes a tree of a tree.
LEMMA AdoptedType ==
  ASSUME NEW t \in Trees, NEW top \in Nodes, NEW m \in Nodes
  PROVE  Adopted(t, top, m) \in Trees
<1> DEFINE order == Traverse(t, top)
           able == {k \in DOMAIN order : order[k] \notin {m, top} /\ Encloses(order[k], m)}
           slack(k) == Slack(order[k], m)
           closest == CHOOSE k \in able :
             \A j \in able : slack(k) < slack(j) \/ (slack(k) = slack(j) /\ k <= j)
           left == [t EXCEPT ![top] = Those(@, Nodes \ {m})]
<1>1. Adopted(t, top, m) = IF Len(t[top]) = 1 \/ able = {} THEN t
                           ELSE [left EXCEPT ![order[closest]] = Append(@, m)]
  BY DEF Adopted
<1>2. left \in Trees
  <2>1. t[top] \in Seq(Nodes)
    BY DEF Trees
  <2>2. Those(t[top], Nodes \ {m}) \in Seq(Nodes)
    BY <2>1, ThoseHold
  <2>3. QED BY <2>2 DEF Trees
<1> HIDE DEF left, able, closest, order
<1>3. PICK q : q = order[closest]
  OBVIOUS
<1>4. [left EXCEPT ![q] = Append(@, m)] \in Trees
  <2>1. \A n \in Nodes : left[n] \in Seq(Nodes) /\ Append(left[n], m) \in Seq(Nodes)
    BY <1>2 DEF Trees
  <2>2. QED BY <1>2, <2>1 DEF Trees
<1>5. QED BY <1>1, <1>3, <1>4

\* The children of the fork are moved one after the other, each when it is still there.
LEMMA RepairedKeeps ==
  ASSUME IsTrace(trace), NEW t, Shape(t), NEW rank, Linked(t, rank), NEW top \in InTree
  PROVE  Shape(Repaired(t, top)) /\ Linked(Repaired(t, top), rank)
<1> DEFINE L == Len(t[top])
           W == [p \in Trees \X (1 .. L) |-> Adopted(p[1], top, t[top][p[2]])]
<1>1. /\ t \in Trees /\ top \in Nodes /\ L \in Nat /\ DOMAIN t[top] = 1 .. L
      /\ \A k \in 1 .. L : t[top][k] \in Nodes
  BY DEF Shape, Trees, InTree
<1>2. W \in [Trees \X (1 .. L) -> Trees]
  <2>1. ASSUME NEW p \in Trees \X (1 .. L) PROVE Adopted(p[1], top, t[top][p[2]]) \in Trees
    <3>1. p[1] \in Trees /\ t[top][p[2]] \in Nodes
      BY <1>1
    <3>2. QED BY <1>1, <3>1, AdoptedType
  <2>2. QED BY <2>1
<1>3. \A u \in Trees, k \in 1 .. L : W[<<u, k>>] = Adopted(u, top, t[top][k])
  OBVIOUS
<1> HIDE DEF W
<1>4. PICK f \in [0 .. L -> Trees] : Unfolds(L, t, W, f)
  BY <1>1, <1>2, UnfoldExists
<1>5. \A k \in 0 .. L : f[k] \in Trees
  OBVIOUS
<1>6. f = [k \in 0 .. L |-> IF k = 0 THEN t ELSE W[<<f[k - 1], k>>]]
  BY <1>4 DEF Unfolds
<1>7. \A k \in 0 .. L : k # 0 => W[<<f[k - 1], k>>] = Adopted(f[k - 1], top, t[top][k])
  <2>1. ASSUME NEW k \in 0 .. L, k # 0 PROVE f[k - 1] \in Trees /\ k \in 1 .. L
    BY <1>1, <1>5, <2>1
  <2>2. QED BY <1>3, <2>1
<1>8. f = [k \in 0 .. L |-> IF k = 0 THEN t ELSE Adopted(f[k - 1], top, t[top][k])]
  BY ONLY <1>6, <1>7
<1>9. RepairedFrom(t, top, f)
  BY <1>8 DEF RepairedFrom
<1>10. Repaired(t, top) = (CHOOSE g : RepairedFrom(t, top, g))[L]
  BY DEF Repaired, RepairedFrom
<1> DEFINE g == CHOOSE g : RepairedFrom(t, top, g)
<1>11. RepairedFrom(t, top, g)
  BY <1>9
<1> HIDE DEF g
<1>12. \A k \in 0 .. L : g[k] = IF k = 0 THEN t ELSE Adopted(g[k - 1], top, t[top][k])
  BY <1>11 DEF RepairedFrom
<1> DEFINE Good(k) == /\ Shape(g[k]) /\ Linked(g[k], rank)
                      /\ \A j \in k + 1 .. L : t[top][j] \in ToSet(g[k][top])
           P == {k \in Nat : k \in 0 .. L => Good(k)}
<1>13. 0 \in P
  <2>1. 0 \in 0 .. L => g[0] = t
    BY <1>12
  <2>2. \A j \in 1 .. L : t[top][j] \in ToSet(t[top])
    BY <1>1 DEF ToSet
  <2>3. QED BY <1>1, <2>1, <2>2
<1>14. ASSUME NEW k \in Nat, k \in P PROVE k + 1 \in P
  <2>1. ASSUME k + 1 \in 0 .. L PROVE Good(k + 1)
    <3>1. k \in 0 .. L /\ k + 1 # 0 /\ k + 1 - 1 = k /\ k + 1 \in 1 .. L /\ k + 1 \in k + 1 .. L
      BY <1>1, <2>1
    <3>2. Good(k)
      BY <1>14, <3>1
    <3>3. PICK u : u = g[k]
      OBVIOUS
    <3>4. PICK m : m = t[top][k + 1]
      OBVIOUS
    <3>5. /\ Shape(u) /\ Linked(u, rank) /\ m \in ToSet(u[top])
          /\ \A j \in k + 1 .. L : t[top][j] \in ToSet(u[top])
      BY <3>1, <3>2, <3>3, <3>4
    <3>6. g[k + 1] = Adopted(u, top, m)
      BY <1>12, <2>1, <3>1, <3>3, <3>4
    <3>7. \A j \in k + 1 + 1 .. L : t[top][j] \in ToSet(u[top]) /\ t[top][j] # m
      <4>1. \A j \in k + 1 + 1 .. L : j \in k + 1 .. L /\ j \in 1 .. L /\ j # k + 1
        BY <1>1
      <4>2. IsInjective(t[top])
        BY <1>1 DEF Shape
      <4>3. \A j \in 1 .. L : t[top][j] = t[top][k + 1] => j = k + 1
        BY <1>1, <3>1, <4>2 DEF IsInjective
      <4>4. QED BY <3>4, <3>5, <4>1, <4>3
    <3>8. CASE Adopted(u, top, m) = u
      BY <3>5, <3>6, <3>7, <3>8
    <3>9. ASSUME NEW q \in InTree, q # m, q # top, q # Root, Encloses(q, m),
                 Adopted(u, top, m) = Moved(u, top, m, q)
          PROVE  Good(k + 1)
      <4>1. q \in Nodes
        BY DEF InTree
      <4>2. Shape(g[k + 1]) /\ Linked(g[k + 1], rank)
        BY <1>1, <3>5, <3>6, <3>9, <4>1, MovedShape, MovedLinked
      <4>3. ToSet(g[k + 1][top]) = ToSet(u[top]) \ {m}
        <5>1. ToSet(Moved(u, top, m, q)[top]) = ToSet(u[top]) \ {m}
          <6>1. Shape(u) /\ top \in Nodes /\ m \in ToSet(u[top]) /\ q \in Nodes /\ q # top
            BY <1>1, <3>5, <3>9, <4>1
          <6> HIDE DEF Good, P, L
          <6>2. QED BY ONLY <6>1, MovedIs
        <5>2. g[k + 1] = Moved(u, top, m, q)
          BY <3>6, <3>9
        <5>3. QED BY <5>1, <5>2
      <4>4. QED BY <3>7, <4>2, <4>3
    <3>10. \/ Adopted(u, top, m) = u
           \/ \E q \in InTree : /\ q # m /\ q # top /\ q # Root /\ Encloses(q, m)
                                /\ Adopted(u, top, m) = Moved(u, top, m, q)
      BY <3>5, AdoptedIs
    <3> HIDE DEF Good
    <3>11. QED BY <3>8, <3>9, <3>10
  <2> HIDE DEF Good
  <2>2. QED BY <2>1
<1>15. \A k \in Nat : k \in P
  <2> HIDE DEF P
  <2>1. QED BY <1>13, <1>14, CountingUp
<1>16. Shape(g[L]) /\ Linked(g[L], rank)
  BY <1>1, <1>15
<1>17. QED BY <1>10, <1>16 DEF g

\* The order encloses: there is no descent without an end, so that every node is less than
\* Depth levels below Top if the times are right.
LEMMA NothingIsOutside ==
  ASSUME IsTrace(trace), NEW t, Shape(t), NEW rank \in Ranks, Linked(t, rank), WellTimed
  PROVE  InTree \subseteq In(t, Depth, Top)
<1> DEFINE lower(x) == {y \in InTree : Above(rank, x, y)}
           h(x) == Cardinality(lower(x))
<1>1. /\ t \in Trees /\ Depth \in Nat /\ IsFiniteSet(Nodes) /\ Depth = Cardinality(Nodes)
      /\ InTree \subseteq Nodes /\ Top \in InTree
  BY NodesAre, TopIs DEF Shape, InTree, Depth
<1>2. ASSUME NEW x \in InTree
      PROVE  /\ IsFiniteSet(lower(x)) /\ h(x) \in Nat /\ h(x) + 1 <= Depth
             /\ IsFiniteSet(lower(x) \cup {x}) /\ Cardinality(lower(x) \cup {x}) = h(x) + 1
  <2>1. x \notin lower(x) /\ lower(x) \subseteq Nodes /\ lower(x) \cup {x} \subseteq Nodes
    BY <1>1, AboveIsAnOrder
  <2> HIDE DEF lower
  <2>2. IsFiniteSet(lower(x))
    BY <1>1, <2>1, FS_Subset
  <2>3. h(x) \in Nat
    BY <2>2, FS_CardinalityType
  <2>4. IsFiniteSet(lower(x) \cup {x}) /\ Cardinality(lower(x) \cup {x}) = h(x) + 1
    BY <2>1, <2>2, FS_AddElement
  <2>5. Cardinality(lower(x) \cup {x}) <= Depth
    BY <1>1, <2>1, FS_Subset
  <2>6. QED BY <2>2, <2>3, <2>4, <2>5
<1>3. ASSUME NEW p \in InTree, NEW x \in InTree, Above(rank, p, x) PROVE h(x) + 1 <= h(p)
  <2>1. lower(x) \cup {x} \subseteq lower(p)
    BY <1>3, AboveIsAnOrder
  <2>2. /\ IsFiniteSet(lower(p)) /\ Cardinality(lower(x) \cup {x}) = h(x) + 1
    BY <1>2
  <2> HIDE DEF lower
  <2>3. Cardinality(lower(x) \cup {x}) <= Cardinality(lower(p))
    BY <2>1, <2>2, FS_Subset
  <2>4. QED BY <2>2, <2>3
<1> HIDE DEF h
<1> DEFINE Good(j) == \A x \in InTree : Depth - 1 - j <= h(x) => x \in In(t, j + 1, Top)
           P == {j \in Nat : j + 1 <= Depth => Good(j)}
<1>4. ASSUME NEW j \in Nat, j + 1 <= Depth, NEW x \in InTree, Depth - 1 - j <= h(x),
             j # 0 => Good(j - 1)
      PROVE  x \in In(t, j + 1, Top)
  <2>1. j + 1 \in 1 .. Depth
    BY <1>1, <1>4
  <2>2. CASE x = Top
    BY <1>1, <2>1, <2>2, InIs
  <2>3. CASE x # Top
    <3>1. PICK p \in InTree : x \in ToSet(t[p])
      BY <2>3 DEF Linked
    <3>2. Above(rank, p, x)
      BY <1>1, <3>1 DEF Linked
    <3>3. h(x) + 1 <= h(p) /\ h(x) \in Nat /\ h(p) \in Nat /\ h(p) + 1 <= Depth
      BY <1>2, <1>3, <3>2
    <3>4. j # 0
      BY <1>1, <1>4, <3>3
    <3>5. Depth - 1 - (j - 1) <= h(p) /\ j - 1 + 1 = j /\ j \in 0 .. Depth - 1
      BY <1>1, <1>4, <3>3, <3>4
    <3>6. p \in In(t, j, Top)
      BY <1>4, <3>4, <3>5
    <3>7. Top \in Nodes
      BY <1>1
    <3>8. QED BY <1>1, <3>1, <3>5, <3>6, <3>7, ChildIn
  <2>4. QED BY <2>2, <2>3
<1>5. 0 \in P
  BY <1>4
<1>6. ASSUME NEW j \in Nat, j \in P PROVE j + 1 \in P
  <2>1. ASSUME j + 1 + 1 <= Depth, NEW x \in InTree, Depth - 1 - (j + 1) <= h(x)
        PROVE  x \in In(t, j + 1 + 1, Top)
    <3>1. j + 1 <= Depth /\ j + 1 - 1 = j /\ j + 1 \in Nat
      BY <1>1, <2>1
    <3>2. Good(j)
      BY <1>6, <3>1
    <3> HIDE DEF Good
    <3>3. j + 1 # 0 => Good(j + 1 - 1)
      BY <3>1, <3>2
    <3>4. QED BY <1>4, <2>1, <3>1, <3>3
  <2>2. j + 1 + 1 <= Depth => Good(j + 1)
    BY <2>1
  <2> HIDE DEF Good
  <2>3. QED BY <2>2
<1>7. \A j \in Nat : j \in P
  <2> HIDE DEF P
  <2>1. QED BY <1>5, <1>6, CountingUp
<1>8. Depth - 1 \in Nat /\ Depth - 1 + 1 = Depth /\ Depth - 1 - (Depth - 1) = 0
  <2>1. PICK k \in Nat : k = h(Top) /\ k + 1 <= Depth
    BY <1>1, <1>2
  <2>2. PICK n \in Nat : n = Depth
    BY <1>1
  <2>3. QED BY <2>1, <2>2
<1>9. Good(Depth - 1)
  <2> HIDE DEF Good
  <2>1. QED BY <1>1, <1>7, <1>8
<1>10. ASSUME NEW x \in InTree PROVE x \in In(t, Depth, Top)
  <2>1. Depth - 1 - (Depth - 1) <= h(x)
    <3>1. PICK k \in Nat : k = h(x)
      BY <1>2
    <3>2. 0 <= k
      OBVIOUS
    <3>3. QED BY <1>8, <3>1, <3>2
  <2>2. QED BY <1>8, <1>9, <2>1
<1>11. QED BY <1>10

-----------------------------------------------------------------------------
\* The inductive invariant: from from_spans on there is a tree, ...
TreeInv ==
  /\ trace \in Traces /\ exclude \in BOOLEAN
  /\ stage \in {"spans", "tree", "repaired", "done", "failed"}
  /\ policy \in {"first_occurrence", "first_sibling", "by_sequence"}
  /\ stage \in {"tree", "repaired", "failed"} => policy # "by_sequence"
  /\ stage # "spans" /\ policy # "by_sequence" =>
       Shape(tree) /\ \E rank \in Ranks : Linked(tree, rank)

\* What only depends on the trace stays.
LEMMA TraceStays ==
  ASSUME trace' = trace
  PROVE  /\ \A t : Shape(t)' <=> Shape(t)
         /\ \A t, rank : Linked(t, rank)' <=> Linked(t, rank)
         /\ Ranks' = Ranks /\ Top' = Top /\ Spans' = Spans /\ WellTimed' = WellTimed
         /\ \A t, n : Traverse(t, n)' = Traverse(t, n)
<1>1. Spans' = Spans /\ Nodes' = Nodes /\ Ids' = Ids /\ Depth' = Depth
  BY DEF Spans, Nodes, Ids, Depth
<1>2. \A p : ChildrenOf(p)' = ChildrenOf(p)
  BY <1>1 DEF ChildrenOf
<1>3. Roots' = Roots /\ Top' = Top
  BY <1>2 DEF Roots, Top
<1>4. Trees' = Trees /\ Ranks' = Ranks /\ InTree' = InTree /\ WellTimed' = WellTimed
  BY <1>1, <1>2, <1>3 DEF Trees, Ranks, InTree, WellTimed
<1>5. \A n : Start(n)' = Start(n) /\ End(n)' = End(n)
  BY <1>2 DEF Start, End
<1>6. \A n, m : Slack(n, m)' = Slack(n, m)
  BY <1>5 DEF Slack
<1>7. \A rank, n, m : Above(rank, n, m)' <=> Above(rank, n, m)
  BY <1>5, <1>6 DEF Above
<1>8. \A t : Shape(t)' <=> Shape(t)
  BY <1>1, <1>3, <1>4 DEF Shape
<1>9. \A t, rank : Linked(t, rank)' <=> Linked(t, rank)
  BY <1>1, <1>3, <1>4, <1>7 DEF Linked
<1>10. \A t : Down(t)' = Down(t)
  BY <1>1 DEF Down
<1>11. \A t, n : Traverse(t, n)' = Traverse(t, n)
  BY <1>1, <1>10 DEF Traverse
<1>12. QED BY <1>1, <1>3, <1>4, <1>8, <1>9, <1>11

\* It holds at first.
LEMMA TreeInvInit == TraceInit => TreeInv
BY DEF TraceInit, TreeInv

\* Every step keeps it: from_spans makes a tree, repair_hierarchy moves nodes within it.
LEMMA TreeInvStep == TreeInv /\ [TraceNext]_traceVars => TreeInv'
<1> SUFFICES ASSUME TreeInv, [TraceNext]_traceVars PROVE TreeInv'
  OBVIOUS
<1>1. IsTrace(trace)
  BY TracesAssumption DEF TreeInv
<1>2. trace' = trace /\ policy' = policy /\ exclude' = exclude
  BY DEF TraceNext, FromSpans, RepairHierarchy, ToTrajectory, AdaptBySequence, traceVars
<1>3. /\ \A t : Shape(t)' <=> Shape(t)
      /\ \A t, rank : Linked(t, rank)' <=> Linked(t, rank)
      /\ Ranks' = Ranks
  BY <1>2, TraceStays
<1>4. ASSUME NEW t, t = tree', Shape(t), \E rank \in Ranks : Linked(t, rank)
      PROVE  Shape(tree)' /\ \E rank \in Ranks' : Linked(tree, rank)'
  <2>1. Shape(t)' /\ \E rank \in Ranks' : Linked(t, rank)'
    BY <1>3, <1>4
  <2>2. QED BY <1>4, <2>1 DEF Shape, Linked
<1>5. CASE FromSpans
  <2>1. stage' = "tree" /\ policy # "by_sequence" /\ tree' = FirstTree
    BY <1>5 DEF FromSpans, FirstTree
  <2>2. Shape(FirstTree) /\ \E rank \in Ranks : Linked(FirstTree, rank)
    BY <1>1, FirstTreeShape, FirstTreeLinked
  <2>3. QED BY <1>2, <1>4, <2>1, <2>2 DEF TreeInv
<1>6. CASE RepairHierarchy
  <2>1. /\ stage' = "repaired" /\ policy # "by_sequence"
        /\ tree' = Repaired(tree, Fork(tree, Top)) /\ Shape(tree)
    BY <1>6 DEF RepairHierarchy, TreeInv
  <2>2. PICK rank \in Ranks : Linked(tree, rank)
    BY <1>6 DEF RepairHierarchy, TreeInv
  <2>3. Fork(tree, Top) \in InTree
    BY <1>1, <2>1, <2>2, TopIs, ForkInTree
  <2>4. PICK t : t = Repaired(tree, Fork(tree, Top))
    OBVIOUS
  <2>5. Shape(t) /\ Linked(t, rank)
    BY <1>1, <2>1, <2>2, <2>3, <2>4, RepairedKeeps
  <2>6. QED BY <1>2, <1>4, <2>1, <2>4, <2>5 DEF TreeInv
<1>7. CASE tree' = tree /\ (stage # "spans" \/ policy = "by_sequence")
           /\ stage' \in {"spans", "tree", "repaired", "done", "failed"}
           /\ (policy = "by_sequence" => stage' \in {"spans", "done"})
  BY <1>2, <1>4, <1>7 DEF TreeInv
<1>8. CASE ToTrajectory
  BY <1>7, <1>8 DEF ToTrajectory, TreeInv
<1>9. CASE AdaptBySequence
  BY <1>7, <1>9 DEF AdaptBySequence, TreeInv
<1>10. CASE UNCHANGED traceVars
  <2>1. UNCHANGED <<trace, policy, stage, tree>>
    BY <1>10 DEF traceVars
  <2>2. QED BY <1>2, <1>4, <2>1 DEF TreeInv
<1>11. QED BY <1>5, <1>6, <1>8, <1>9, <1>10 DEF TraceNext

\* The tree has every span of the trace, and has it once.
LEMMA TreeHoldsAll == TreeInv => NothingIsLost
<1> SUFFICES ASSUME TreeInv, stage # "spans", policy # "by_sequence", WellTimed
             PROVE  LET order == Traverse(tree, Top)
                    IN IsInjective(order) /\ Spans \subseteq ToSet(order)
  BY DEF NothingIsLost
<1>1. IsTrace(trace)
  BY TracesAssumption DEF TreeInv
<1>2. Shape(tree)
  BY DEF TreeInv
<1>3. PICK rank \in Ranks : Linked(tree, rank)
  BY DEF TreeInv
<1>4. Top \in InTree /\ Spans \subseteq InTree /\ Top \in Nodes /\ Depth \in 0 .. Depth
  BY <1>1, TopIs, NodesAre DEF InTree
<1>5. IsInjective(Traverse(tree, Top))
  <2>1. Free(tree, Top)
    BY <1>1, <1>2, <1>4, TopIsFree
  <2>2. QED BY <1>1, <1>2, <1>4, <2>1, DownIsInjective DEF Traverse
<1>6. Spans \subseteq ToSet(Traverse(tree, Top))
  <2>1. InTree \subseteq In(tree, Depth, Top)
    BY <1>1, <1>2, <1>3, NothingIsOutside
  <2>2. QED BY <1>4, <2>1 DEF In, Traverse
<1>7. QED BY <1>5, <1>6

\* From from_spans on the adapter has a tree, whose links go down in some order.
THEOREM TreeInvariant == TraceSpec => []TreeInv
BY TreeInvInit, TreeInvStep, PTL DEF TraceSpec

\* repair_hierarchy loses no span and has none twice, for every trace whose times are right.
THEOREM TreeHasEverySpan == TraceSpec => []NothingIsLost
BY TreeInvariant, TreeHoldsAll, PTL

-----------------------------------------------------------------------------
(* match_rewards                                                           *)

\* Rewards that are handed out: each to one call that may have it, and to none only if
\* every call that it is due to has got one by then.
Handed(C, got, rewards, may, due) ==
  /\ \A c \in C : got[c] # None => got[c] \in rewards /\ <<c, got[c]>> \in may
  /\ \A c, d \in C : got[c] = got[d] => c = d \/ got[c] = None
  /\ \A r \in rewards : (\A c \in C : got[c] # r) =>
       \A c \in C : <<c, r>> \in due => got[c] # None /\ <<r, got[c]>> \notin due

\* One item after the other: it goes to a call that may have it and has none, or there is
\* no call without one that it is due to.
HandsOut(C, before, after, item, k, R, may, due) ==
  \/ /\ after = before
     /\ k \in R => \A c \in C : <<c, item[k]>> \in due => before[c] # None
  \/ /\ k \in R
     /\ \E c \in C : /\ before[c] = None /\ <<c, item[k]>> \in may
                     /\ after = [before EXCEPT ![c] = item[k]]

\* The items of L places, of which those in R are rewards, are handed out.
AllHandedOut(C, L, item, R, may, due, g) ==
  /\ L \in Nat /\ R \subseteq 1 .. L
  /\ g[0] = [c \in C |-> None]
  /\ \A k \in 1 .. L : HandsOut(C, g[k - 1], g[k], item, k, R, may, due)
  /\ \A j, k \in 1 .. L : item[j] = item[k] => j = k
  /\ \A k \in 1 .. L : item[k] # None
  /\ \A j, k \in 1 .. L : j <= k => <<item[k], item[j]>> \notin due

\* One after the other they hand out every reward.
LEMMA HandingOut ==
  ASSUME NEW C, NEW L, NEW item, NEW R, NEW may, NEW due, NEW g,
         AllHandedOut(C, L, item, R, may, due, g),
         NEW rewards, rewards = {item[k] : k \in R}
  PROVE  Handed(C, g[L], rewards, may, due)
<1> USE DEF AllHandedOut
<1> L \in Nat /\ R \in SUBSET (1 .. L)
  OBVIOUS
<1> DEFINE Type(k) == DOMAIN g[k] = C
           Right(k) == \A c \in C : g[k][c] # None =>
                         \E j \in R : j <= k /\ g[k][c] = item[j] /\ <<c, item[j]>> \in may
           Once(k) == \A c, d \in C : g[k][c] = g[k][d] => c = d \/ g[k][c] = None
           Left(k) == \A j \in R : j <= k /\ (\A c \in C : g[k][c] # item[j]) =>
                        \A c \in C : <<c, item[j]>> \in due =>
                          \E i \in R : i <= j /\ g[k][c] = item[i]
           Good(k) == Type(k) /\ Right(k) /\ Once(k) /\ Left(k)
           P == {k \in Nat : k \in 0 .. L => Good(k)}
<1>1. 0 \in P
  <2>1. g[0] = [c \in C |-> None] /\ DOMAIN g[0] = C /\ \A c \in C : g[0][c] = None
    OBVIOUS
  <2>2. \A j \in R : ~(j <= 0)
    OBVIOUS
  <2>3. Good(0)
    BY <2>1, <2>2
  <2>4. QED BY <2>3
<1>2. ASSUME NEW k \in Nat, k \in P PROVE k + 1 \in P
  <2>1. ASSUME k + 1 \in 0 .. L PROVE Good(k + 1)
    <3>1. k \in 0 .. L /\ k + 1 \in 1 .. L /\ k + 1 - 1 = k
      BY <2>1
    <3>2. Good(k)
      BY <1>2, <3>1
    <3>3. HandsOut(C, g[k], g[k + 1], item, k + 1, R, may, due)
      BY <3>1
    <3>4. \A j \in R : /\ j \in 1 .. L /\ j \in Int /\ (j <= k => j <= k + 1)
                       /\ (j <= k + 1 => j <= k \/ j = k + 1)
      BY <3>1
    <3>5. CASE g[k + 1] = g[k] /\
               (k + 1 \in R => \A c \in C : <<c, item[k + 1]>> \in due => g[k][c] # None)
      <4>1. Type(k + 1) /\ Once(k + 1)
        BY <3>2, <3>5
      <4>2. Right(k + 1)
        BY <3>2, <3>4, <3>5
      <4>3. Left(k + 1)
        <5>1. ASSUME NEW j \in R, j <= k + 1, \A c \in C : g[k + 1][c] # item[j],
                     NEW c \in C, <<c, item[j]>> \in due
              PROVE  \E i \in R : i <= j /\ g[k + 1][c] = item[i]
          <6>1. CASE j <= k
            BY <3>2, <3>5, <5>1, <6>1
          <6>2. CASE j = k + 1
            <7>1. g[k][c] # None
              BY <3>5, <5>1, <6>2
            <7>2. PICK i \in R : i <= k /\ g[k][c] = item[i]
              BY <3>2, <7>1
            <7>3. i <= j
              BY <3>4, <6>2, <7>2
            <7>4. QED BY <3>5, <7>2, <7>3
          <6>3. QED BY <3>4, <5>1, <6>1, <6>2
        <5>2. QED BY <5>1
      <4>4. QED BY <4>1, <4>2, <4>3
    <3>6. ASSUME k + 1 \in R, NEW b \in C, g[k][b] = None, <<b, item[k + 1]>> \in may,
                 g[k + 1] = [g[k] EXCEPT ![b] = item[k + 1]]
          PROVE  Good(k + 1)
      <4>1. /\ Type(k + 1) /\ g[k + 1][b] = item[k + 1]
            /\ \A c \in C : c # b => g[k + 1][c] = g[k][c]
        BY <3>2, <3>6
      <4>2. \A c \in C : g[k][c] # item[k + 1]
        <5>1. ASSUME NEW c \in C, g[k][c] = item[k + 1] PROVE FALSE
          <6>1. item[k + 1] # None
            BY <3>1
          <6>2. PICK j \in R : j <= k /\ g[k][c] = item[j]
            BY <3>2, <5>1, <6>1
          <6>3. j = k + 1
            BY <3>1, <3>4, <5>1, <6>2
          <6>4. QED BY <3>1, <3>4, <6>2, <6>3
        <5>2. QED BY <5>1
      <4>3. Right(k + 1)
        <5>1. ASSUME NEW c \in C, g[k + 1][c] # None
              PROVE  \E j \in R : j <= k + 1 /\ g[k + 1][c] = item[j] /\ <<c, item[j]>> \in may
          <6>1. CASE c = b
            BY <3>1, <3>6, <4>1, <6>1
          <6>2. CASE c # b
            BY <3>2, <3>4, <4>1, <5>1, <6>2
          <6>3. QED BY <6>1, <6>2
        <5>2. QED BY <5>1
      <4>4. Once(k + 1)
        <5>1. ASSUME NEW c \in C, NEW d \in C, g[k + 1][c] = g[k + 1][d], c # d
              PROVE  g[k + 1][c] = None
          <6>1. CASE c = b
            BY <4>1, <4>2, <5>1, <6>1
          <6>2. CASE d = b
            BY <4>1, <4>2, <5>1, <6>2
          <6>3. CASE c # b /\ d # b
            BY <3>2, <4>1, <5>1, <6>3
          <6>4. QED BY <6>1, <6>2, <6>3
        <5>2. QED BY <5>1
      <4>5. Left(k + 1)
        <5>1. ASSUME NEW j \in R, j <= k + 1, \A c \in C : g[k + 1][c] # item[j],
                     NEW c \in C, <<c, item[j]>> \in due
              PROVE  \E i \in R : i <= j /\ g[k + 1][c] = item[i]
          <6>1. j <= k /\ j # k + 1
            BY <3>4, <4>1, <5>1
          <6>2. \A d \in C : g[k][d] # item[j]
            <7>1. item[j] # None
              BY <3>4
            <7>2. QED BY <3>6, <4>1, <5>1, <7>1
          <6>3. PICK i \in R : i <= j /\ g[k][c] = item[i]
            BY <3>2, <5>1, <6>1, <6>2
          <6>4. c # b
            <7>1. item[i] # None
              BY <3>4
            <7>2. QED BY <3>6, <6>3, <7>1
          <6>5. QED BY <4>1, <6>3, <6>4
        <5>2. QED BY <5>1
      <4>6. QED BY <4>1, <4>3, <4>4, <4>5
    <3> HIDE DEF Good
    <3>7. QED BY <3>3, <3>5, <3>6 DEF HandsOut
  <2> HIDE DEF Good
  <2>2. QED BY <2>1
<1>3. \A k \in Nat : k \in P
  <2> HIDE DEF P
  <2>1. QED BY <1>1, <1>2, CountingUp
<1>4. Right(L) /\ Once(L) /\ Left(L)
  BY <1>3
<1> HIDE DEF P, Good
<1>5. \A j \in R : j \in 1 .. L /\ j <= L
  OBVIOUS
<1>6. ASSUME NEW c \in C, g[L][c] # None
      PROVE  g[L][c] \in rewards /\ <<c, g[L][c]>> \in may
  BY <1>4, <1>6
<1>7. ASSUME NEW j \in R, \A c \in C : g[L][c] # item[j], NEW c \in C, <<c, item[j]>> \in due
      PROVE  g[L][c] # None /\ <<item[j], g[L][c]>> \notin due
  <2>1. PICK i \in R : i <= j /\ g[L][c] = item[i]
    BY <1>4, <1>5, <1>7
  <2>2. QED BY <1>5, <2>1
<1>8. QED BY <1>4, <1>6, <1>7 DEF Handed

\* The triplets of calls and what they have got.
Paired(calls, got) == [k \in DOMAIN calls |-> [call |-> calls[k], reward |-> got[calls[k]]]]

\* Such triplets say of every reward what OneCallEach does.
LEMMA PairedIsOneCallEach ==
  ASSUME NEW calls, NEW got, NEW rewards, NEW may, NEW due,
         triplets = Paired(calls, got), Handed(ToSet(calls), got, rewards, may, due)
  PROVE  OneCallEach(rewards, may, due)
<1> DEFINE called == {triplets[k].call : k \in DOMAIN triplets}
           rewardOf(c) == triplets[CHOOSE k \in DOMAIN triplets : triplets[k].call = c].reward
<1>1. /\ DOMAIN triplets = DOMAIN calls
      /\ \A k \in DOMAIN calls : triplets[k].call = calls[k] /\ triplets[k].reward = got[calls[k]]
  BY DEF Paired
<1>2. called = ToSet(calls)
  BY <1>1 DEF ToSet
<1>3. ASSUME NEW c \in called PROVE rewardOf(c) = got[c]
  <2>1. \E k \in DOMAIN triplets : triplets[k].call = c
    BY <1>3
  <2>2. PICK k : k = CHOOSE n \in DOMAIN triplets : triplets[n].call = c
    OBVIOUS
  <2>3. k \in DOMAIN triplets /\ triplets[k].call = c
    BY <2>1, <2>2
  <2>4. QED BY <1>1, <2>2, <2>3
<1> HIDE DEF called, rewardOf
<1>4. /\ \A c \in called :
           rewardOf(c) # None => rewardOf(c) \in rewards /\ <<c, rewardOf(c)>> \in may
      /\ \A c, d \in called : rewardOf(c) = rewardOf(d) => c = d \/ rewardOf(c) = None
      /\ \A r \in rewards : (\A c \in called : rewardOf(c) # r) =>
           \A c \in called : <<c, r>> \in due =>
             rewardOf(c) # None /\ <<r, rewardOf(c)>> \notin due
  BY <1>2, <1>3 DEF Handed
<1>5. QED BY <1>4 DEF OneCallEach, called, rewardOf

\* The last of those in a set, if there is any.
LEMMA LastOfThose ==
  ASSUME NEW T, NEW s \in Seq(T), NEW S
  PROVE  /\ Those(s, S) = <<>> => ToSet(s) \cap S = {}
         /\ Those(s, S) # <<>> => Last(Those(s, S)) \in ToSet(s) \cap S
<1>1. PICK u : u = Those(s, S)
  OBVIOUS
<1>2. u \in Seq(T) /\ ToSet(u) = ToSet(s) \cap S
  BY <1>1, ThoseHold
<1>3. ASSUME u = <<>> PROVE ToSet(s) \cap S = {}
  BY <1>2, <1>3 DEF ToSet
<1>4. ASSUME u # <<>> PROVE Last(u) \in ToSet(u)
  <2>1. Len(u) \in DOMAIN u
    BY <1>2, <1>4
  <2>2. QED BY <2>1 DEF Last, ToSet
<1>5. QED BY <1>1, <1>2, <1>3, <1>4

\* The calls of the proxy's spans: no two have the same response.
LEMMA ProxyCallsAre ==
  ASSUME IsTrace(trace)
  PROVE  /\ ProxyCalls \in Seq(Spans) /\ IsInjective(ProxyCalls)
         /\ \A i \in ToSet(ProxyCalls) : i \in Spans /\ Kind(i) = "call"
         /\ \A i, j \in ToSet(ProxyCalls) :
              trace[i].response # None /\ i # j => trace[i].response # trace[j].response
<1> DEFINE S == {i \in Spans :
              /\ Kind(i) = "call"
              /\ trace[i].response = None \/
                   \A j \in 1 .. i - 1 : Kind(j) = "call" => trace[j].response # trace[i].response}
<1>1. PICK L \in Nat : Spans = 1 .. L
  BY NodesAre
<1>2. Ids \in Seq(Spans) /\ IsInjective(Ids)
  <2>1. Ids = [i \in 1 .. L |-> i]
    BY <1>1 DEF Ids
  <2>2. Ids \in [1 .. L -> Spans]
    BY <1>1, <2>1
  <2>3. QED BY <2>1, <2>2 DEF IsInjective
<1>3. ProxyCalls = Those(Ids, S)
  BY DEF ProxyCalls
<1>4. ProxyCalls \in Seq(Spans) /\ IsInjective(ProxyCalls) /\ ToSet(ProxyCalls) = ToSet(Ids) \cap S
  <2> HIDE DEF S
  <2>1. QED BY <1>2, <1>3, ThoseHold
<1>5. \A i \in ToSet(ProxyCalls) : i \in S
  BY <1>4
<1>6. ASSUME NEW i \in S, NEW j \in S, trace[i].response # None, i # j
      PROVE  trace[i].response # trace[j].response
  <2>1. i \in 1 .. L /\ j \in 1 .. L
    BY <1>1
  <2>2. CASE i < j
    <3>1. i \in 1 .. j - 1
      BY <2>1, <2>2
    <3>2. QED BY <1>6, <3>1
  <2>3. CASE j < i
    <3>1. j \in 1 .. i - 1
      BY <2>1, <2>3
    <3>2. QED BY <1>6, <3>1
  <2>4. QED BY <1>6, <2>1, <2>2, <2>3
<1>7. QED BY <1>4, <1>5, <1>6

\* What BySequence is said to be.
Numbers(C) == [C -> Spans \cup {None}]

NextGiven(before, i) ==
  LET to == ProxyReceiver(before, i)
  IN IF Kind(i) # "reward" \/ to = None THEN before ELSE [before EXCEPT ![to] = i]

BySequenceFrom(f) ==
  f = [i \in 0 .. Len(trace) |->
         IF i = 0 THEN [c \in ToSet(ProxyCalls) |-> None]
         ELSE LET before == f[i - 1]
                  to == ProxyReceiver(before, i)
              IN IF Kind(i) # "reward" \/ to = None THEN before ELSE [before EXCEPT ![to] = i]]

\* Every span is looked at once.
LEMMA BySequenceIs ==
  ASSUME IsTrace(trace)
  PROVE  /\ BySequence[0] = [c \in ToSet(ProxyCalls) |-> None]
         /\ \A i \in 1 .. Len(trace) : BySequence[i] = NextGiven(BySequence[i - 1], i)
         /\ \A i \in 0 .. Len(trace) : DOMAIN BySequence[i] = ToSet(ProxyCalls)
<1> DEFINE C == ToSet(ProxyCalls)
           A == Numbers(C)
           L == Len(trace)
           a == [c \in C |-> None]
           W == [p \in A \X (1 .. L) |-> NextGiven(p[1], p[2])]
<1>1. L \in Nat /\ Spans = 1 .. L
  BY NodesAre
<1>2. a \in A
  BY DEF Numbers
<1>3. ASSUME NEW b \in A, NEW i \in 1 .. L PROVE NextGiven(b, i) \in A
  <2>1. PICK to : to = ProxyReceiver(b, i)
    OBVIOUS
  <2>2. [b EXCEPT ![to] = i] \in A
    BY <1>1 DEF Numbers
  <2>3. QED BY <2>1, <2>2 DEF NextGiven
<1>4. W \in [A \X (1 .. L) -> A]
  BY <1>3
<1>5. \A b \in A, i \in 1 .. L : W[<<b, i>>] = NextGiven(b, i)
  OBVIOUS
<1> HIDE DEF W
<1>6. PICK f \in [0 .. L -> A] : Unfolds(L, a, W, f)
  BY <1>1, <1>2, <1>4, UnfoldExists
<1>7. \A i \in 0 .. L : f[i] \in A
  OBVIOUS
<1>8. f = [i \in 0 .. L |-> IF i = 0 THEN a ELSE W[<<f[i - 1], i>>]]
  BY <1>6 DEF Unfolds
<1>9. \A i \in 0 .. L : i # 0 => W[<<f[i - 1], i>>] = NextGiven(f[i - 1], i)
  <2>1. ASSUME NEW i \in 0 .. L, i # 0 PROVE f[i - 1] \in A /\ i \in 1 .. L
    BY <1>1, <1>7, <2>1
  <2> HIDE DEF A
  <2>2. QED BY <1>5, <2>1
<1>10. f = [i \in 0 .. L |-> IF i = 0 THEN a ELSE NextGiven(f[i - 1], i)]
  BY ONLY <1>8, <1>9
<1>11. BySequenceFrom(f)
  BY <1>10 DEF BySequenceFrom, NextGiven
<1>12. BySequence = CHOOSE f2 : BySequenceFrom(f2)
  BY DEF BySequence, BySequenceFrom
<1> DEFINE g == BySequence
<1>13. BySequenceFrom(g)
  BY <1>11, <1>12
<1> HIDE DEF g
<1>14. g = [i \in 0 .. L |-> IF i = 0 THEN a ELSE NextGiven(g[i - 1], i)]
  BY <1>13 DEF BySequenceFrom, NextGiven
<1>15. \A i \in 0 .. L : g[i] = IF i = 0 THEN a ELSE NextGiven(g[i - 1], i)
  BY <1>14
<1> DEFINE P == {i \in Nat : i \in 0 .. L => g[i] \in A}
<1>16. 0 \in P
  BY <1>1, <1>2, <1>15
<1>17. ASSUME NEW i \in Nat, i \in P PROVE i + 1 \in P
  <2>1. ASSUME i + 1 \in 0 .. L PROVE g[i + 1] \in A
    <3>1. i \in 0 .. L /\ i + 1 # 0 /\ i + 1 - 1 = i /\ i + 1 \in 1 .. L
      BY <1>1, <2>1
    <3>2. g[i] \in A /\ g[i + 1] = NextGiven(g[i], i + 1)
      BY <1>15, <1>17, <2>1, <3>1
    <3> HIDE DEF A
    <3>3. QED BY <1>3, <3>1, <3>2
  <2>2. QED BY <2>1
<1>18. \A i \in Nat : i \in P
  <2> HIDE DEF P
  <2>1. QED BY <1>16, <1>17, CountingUp
<1>19. \A i \in 0 .. L : DOMAIN g[i] = C
  <2>1. ASSUME NEW i \in 0 .. L PROVE g[i] \in A
    BY <1>1, <1>18
  <2>2. QED BY <2>1 DEF Numbers
<1>20. g[0] = a /\ \A i \in 1 .. L : g[i] = NextGiven(g[i - 1], i)
  <2>1. 0 \in 0 .. L /\ \A i \in 1 .. L : i \in 0 .. L /\ i # 0
    BY <1>1
  <2>2. QED BY ONLY <1>15, <2>1
<1>21. QED BY <1>19, <1>20 DEF g

\* Rewards go to calls by their numbers.
LEMMA SequencesAreHandedOut ==
  ASSUME IsTrace(trace)
  PROVE  Handed(ToSet(ProxyCalls), BySequence[Len(trace)], RewardSpans, Numbered, Numbered)
<1> DEFINE C == ToSet(ProxyCalls)
           L == Len(trace)
           item == [i \in 1 .. L |-> i]
<1>1. L \in Nat /\ Spans = 1 .. L /\ None \notin Spans /\ (\A i \in Spans : trace[i].seq \in Nat)
  BY NodesAre DEF Nodes
<1>2. PICK g : g = BySequence
  OBVIOUS
<1>3. /\ g[0] = [c \in C |-> None]
      /\ \A i \in 1 .. L : g[i] = NextGiven(g[i - 1], i)
      /\ \A i \in 0 .. L : DOMAIN g[i] = C
  BY <1>2, BySequenceIs
<1>4. \A i \in 1 .. L : item[i] = i
  OBVIOUS
<1>5. ProxyCalls \in Seq(Spans) /\ \A c \in C : c \in Spans
  BY ProxyCallsAre
<1> HIDE DEF C
<1> HIDE DEF item
<1>6. ASSUME NEW i \in 1 .. L
      PROVE  HandsOut(C, g[i - 1], g[i], item, i, RewardSpans, Numbered, Numbered)
  <2>1. item[i] = i
    BY <1>4
  <2>2. PICK before : before = g[i - 1]
    OBVIOUS
  <2> DEFINE S == {c \in DOMAIN before : before[c] = None /\ trace[c].seq < trace[i].seq}
             free == Those(ProxyCalls, S)
             to == IF free = <<>> THEN None ELSE Last(free)
  <2>3. g[i] = IF Kind(i) # "reward" \/ to = None THEN before ELSE [before EXCEPT ![to] = i]
    BY <1>3, <2>2 DEF NextGiven, ProxyReceiver
  <2>4. i \in Spans /\ (i \in RewardSpans <=> Kind(i) = "reward") /\ DOMAIN before = C
    <3>1. i - 1 \in 0 .. L
      BY <1>1
    <3>2. QED BY <1>1, <1>3, <2>2, <3>1 DEF RewardSpans
  <2>5. /\ free = <<>> => C \cap S = {}
        /\ free # <<>> => Last(free) \in C \cap S
    <3> HIDE DEF S
    <3>1. QED BY <1>5, LastOfThose DEF C
  <2> HIDE DEF free
  <2>6. CASE Kind(i) # "reward"
    BY <2>2, <2>3, <2>4, <2>6 DEF HandsOut
  <2>7. CASE Kind(i) = "reward" /\ to = None
    <3>1. free = <<>>
      BY <1>1, <1>5, <2>5, <2>7
    <3>2. \A c \in C : ~(before[c] = None /\ trace[c].seq < trace[i].seq)
      BY <2>4, <2>5, <3>1
    <3>3. \A c \in C : <<c, i>> \in Numbered => before[c] # None
      BY <3>2 DEF Numbered, Pairs
    <3>4. g[i] = before
      BY <2>3, <2>7
    <3>5. QED BY <2>1, <2>2, <3>3, <3>4 DEF HandsOut
  <2>8. CASE Kind(i) = "reward" /\ to # None
    <3>1. free # <<>> /\ to \in C \cap S
      BY <2>5, <2>8
    <3>2. to \in C /\ before[to] = None /\ trace[to].seq < trace[i].seq
      BY <3>1
    <3>3. <<to, i>> \in Numbered
      BY <1>5, <2>4, <3>2 DEF Numbered, Pairs
    <3>4. g[i] = [before EXCEPT ![to] = i]
      BY <2>3, <2>8
    <3> HIDE DEF to
    <3>5. QED BY <2>1, <2>2, <2>4, <2>8, <3>2, <3>3, <3>4 DEF HandsOut
  <2>9. QED BY <2>6, <2>7, <2>8
<1>7. ASSUME NEW j \in 1 .. L, NEW k \in 1 .. L, j <= k PROVE <<k, j>> \notin Numbered
  <2>1. trace[j].seq <= trace[k].seq /\ trace[j].seq \in Nat /\ trace[k].seq \in Nat
    BY <1>1, <1>7 DEF IsTrace, Spans
  <2>2. QED BY <2>1 DEF Numbered
<1>8. /\ RewardSpans \in SUBSET (1 .. L)
      /\ \A k \in 1 .. L : k # None
  BY <1>1 DEF RewardSpans
<1> HIDE DEF L
<1>9. /\ \A k \in 1 .. L : HandsOut(C, g[k - 1], g[k], item, k, RewardSpans, Numbered, Numbered)
      /\ \A j, k \in 1 .. L : item[j] = item[k] => j = k
      /\ \A k \in 1 .. L : item[k] # None
      /\ \A j, k \in 1 .. L : j <= k => <<item[k], item[j]>> \notin Numbered
  BY <1>4, <1>6, <1>7, <1>8
<1>10. AllHandedOut(C, L, item, RewardSpans, Numbered, Numbered, g)
  BY <1>1, <1>3, <1>8, <1>9 DEF AllHandedOut
<1>11. {item[k] : k \in RewardSpans} = RewardSpans
  BY <1>4, <1>8
<1>12. Handed(C, g[L], RewardSpans, Numbered, Numbered)
  BY <1>10, <1>11, HandingOut
<1>13. QED BY <1>2, <1>12 DEF C, L

-----------------------------------------------------------------------------
\* The nodes of the tree by the times at which they started.
LEMMA ByTimeIs ==
  ASSUME IsTrace(trace), Shape(tree), NEW rank, Linked(tree, rank)
  PROVE  /\ ByTime \in Seq(Nodes) /\ IsInjective(ByTime)
         /\ ToSet(ByTime) = ToSet(Traverse(tree, Top)) \ {Root}
         /\ \A n \in ToSet(ByTime) : Start(n) \in Int /\ End(n) \in Int
         /\ \A q, r \in DOMAIN ByTime : q <= r => Start(ByTime[q]) <= Start(ByTime[r])
<1>1. Top \in InTree /\ Top \in Nodes /\ Depth \in 0 .. Depth /\ tree \in Trees
  BY TopIs, NodesAre DEF InTree, Shape
<1>2. PICK all : all = Traverse(tree, Top)
  OBVIOUS
<1>3. all \in Seq(Nodes) /\ IsInjective(all) /\ ToSet(all) \subseteq InTree
  <2>1. Free(tree, Top)
    BY <1>1, TopIsFree
  <2>2. IsInjective(all)
    BY <1>1, <1>2, <2>1, DownIsInjective DEF Traverse
  <2>3. all \in Seq(Nodes)
    BY <1>1, <1>2, DownIs DEF Traverse, Trees
  <2>4. ToSet(all) = In(tree, Depth, Top)
    BY <1>2 DEF In, Traverse
  <2>5. QED BY <1>1, <2>2, <2>3, <2>4, DownStaysInTree
<1>4. PICK order : order = Those(all, Nodes \ {Root})
  OBVIOUS
<1>5. /\ order \in Seq(Nodes) /\ IsInjective(order) /\ ToSet(order) = ToSet(all) \ {Root}
  <2>1. /\ order \in Seq(Nodes) /\ IsInjective(order)
        /\ ToSet(order) = ToSet(all) \cap (Nodes \ {Root})
    BY <1>3, <1>4, ThoseHold
  <2>2. ToSet(all) \subseteq Nodes
    BY <1>3 DEF InTree
  <2>3. QED BY <2>1, <2>2
<1>6. \A n \in ToSet(order) : Start(n) \in Int /\ End(n) \in Int
  BY <1>3, <1>5, TimesType
<1>7. PICK L \in Nat : L = Len(order) /\ DOMAIN order = 1 .. L
  BY <1>5
<1>8. \A k \in 1 .. L : order[k] \in ToSet(order) /\ Start(order[k]) \in Int
  BY <1>6, <1>7 DEF ToSet
<1> DEFINE before(j, k) == \/ Start(order[j]) < Start(order[k])
                           \/ Start(order[j]) = Start(order[k]) /\ j < k
           B == {p \in (1 .. L) \X (1 .. L) : before(p[1], p[2])}
<1>9. \A j, k \in 1 .. L : <<j, k>> \in B <=> before(j, k)
  OBVIOUS
<1>10. Orders(B, L)
  <2>1. ASSUME NEW j \in 1 .. L PROVE <<j, j>> \notin B
    BY <1>8
  <2>2. ASSUME NEW j \in 1 .. L, NEW k \in 1 .. L
        PROVE  j = k \/ <<j, k>> \in B \/ <<k, j>> \in B
    <3>1. Start(order[j]) \in Int /\ Start(order[k]) \in Int
      BY <1>8
    <3>2. QED BY <1>9, <3>1
  <2>3. ASSUME NEW i \in 1 .. L, NEW j \in 1 .. L, NEW k \in 1 .. L,
               <<i, j>> \in B, <<j, k>> \in B
        PROVE  <<i, k>> \in B
    <3>1. Start(order[i]) \in Int /\ Start(order[j]) \in Int /\ Start(order[k]) \in Int
      BY <1>8
    <3>2. before(i, j) /\ before(j, k)
      BY <1>9, <2>3
    <3>3. before(i, k)
      BY <3>1, <3>2
    <3>4. QED BY <1>9, <3>3
  <2> HIDE DEF B
  <2>4. QED BY <2>1, <2>2, <2>3 DEF Orders
<1>11. ByTime = SortedBy(order, B)
  <2> DEFINE rank0(k) == Cardinality({j \in DOMAIN order : before(j, k)}) + 1
  <2>1. ByTime = [r \in DOMAIN order |-> order[CHOOSE k \in DOMAIN order : rank0(k) = r]]
    BY <1>2, <1>4 DEF ByTime
  <2>2. ASSUME NEW k \in 1 .. L PROVE rank0(k) = Place(B, L, k)
    <3>1. {j \in DOMAIN order : before(j, k)} = {j \in 1 .. L : <<j, k>> \in B}
      BY <1>7, <1>9
    <3>2. QED BY <3>1 DEF Place
  <2> HIDE DEF rank0, B
  <2>3. ASSUME NEW r
        PROVE  (CHOOSE k \in 1 .. L : rank0(k) = r) = (CHOOSE k \in 1 .. L : Place(B, L, k) = r)
    <3>1. \A k : k \in 1 .. L /\ rank0(k) = r <=> k \in 1 .. L /\ Place(B, L, k) = r
      BY <2>2
    <3>2. QED BY <3>1
  <2>4. SortedBy(order, B) =
          [r \in 1 .. L |-> order[CHOOSE k \in 1 .. L : Place(B, L, k) = r]]
    BY <1>7 DEF SortedBy
  <2>5. ByTime = [r \in 1 .. L |-> order[CHOOSE k \in 1 .. L : rank0(k) = r]]
    BY <1>7, <2>1
  <2>6. QED BY ONLY <2>3, <2>4, <2>5
<1> HIDE DEF B
<1>12. PICK u : u = ByTime
  OBVIOUS
<1>13. /\ u \in Seq(Nodes) /\ DOMAIN u = 1 .. L /\ ToSet(u) = ToSet(order) /\ IsInjective(u)
       /\ \A q, r \in 1 .. L : q < r =>
            \E j, k \in 1 .. L : u[q] = order[j] /\ u[r] = order[k] /\ <<j, k>> \in B
  <2>1. PICK b : b = B
    OBVIOUS
  <2>2. Orders(b, Len(order)) /\ L = Len(order) /\ u = SortedBy(order, b)
    BY <1>7, <1>10, <1>11, <1>12, <2>1
  <2>3. order \in Seq(Nodes) /\ IsInjective(order)
    BY <1>5
  <2>4. /\ SortedBy(order, b) \in Seq(Nodes) /\ DOMAIN SortedBy(order, b) = 1 .. Len(order)
        /\ ToSet(SortedBy(order, b)) = ToSet(order)
        /\ IsInjective(order) => IsInjective(SortedBy(order, b))
        /\ \A q, r \in 1 .. Len(order) : q < r =>
             \E j, k \in 1 .. Len(order) :
               /\ SortedBy(order, b)[q] = order[j] /\ SortedBy(order, b)[r] = order[k]
               /\ <<j, k>> \in b
    BY ONLY <2>2, <2>3, SortedByIs
  <2>5. QED BY ONLY <2>1, <2>2, <2>3, <2>4
<1>14. ASSUME NEW q \in 1 .. L, NEW r \in 1 .. L, q <= r PROVE Start(u[q]) <= Start(u[r])
  <2>1. CASE q = r
    <3>1. u[q] \in ToSet(order)
      BY <1>13 DEF ToSet
    <3>2. Start(u[q]) \in Int
      BY <1>6, <3>1
    <3>3. QED BY <2>1, <3>2
  <2>2. CASE q # r
    <3>1. q < r
      BY <1>14, <2>2
    <3>2. \A i \in 1 .. L : q < i =>
            \E j, k \in 1 .. L : u[q] = order[j] /\ u[i] = order[k] /\ <<j, k>> \in B
      BY ONLY <1>13
    <3>3. PICK j \in 1 .. L, k \in 1 .. L : u[q] = order[j] /\ u[r] = order[k] /\ <<j, k>> \in B
      BY ONLY <3>1, <3>2
    <3>4. before(j, k) /\ Start(order[j]) \in Int /\ Start(order[k]) \in Int
      BY <1>8, <1>9, <3>3
    <3>5. Start(order[j]) <= Start(order[k])
      BY <3>4
    <3>6. QED BY <3>3, <3>5
  <2>3. QED BY <2>1, <2>2
<1>15. QED BY <1>2, <1>5, <1>6, <1>12, <1>13, <1>14

-----------------------------------------------------------------------------
(* find_llm_calls                                                          *)

\* What a visit returns if all its calls are in S.
Findings(S) == [calls : Seq(S), seen : SUBSET Responses]

\* What the visit of a child adds.
OneMore(v, below, f, k) ==
  LET more == below[Child(v, k, f.seen)]
  IN [calls |-> f.calls \o more.calls, seen |-> more.seen]

\* What Found is said to be.
FoundFrom(v, below, g) ==
  g = [k \in 0 .. Len(tree[v.node]) |->
         IF k = 0 THEN Itself(v)
         ELSE LET before == g[k - 1]
                  more == below[Child(v, k, before.seen)]
              IN [calls |-> before.calls \o more.calls, seen |-> more.seen]]

\* A larger set has more findings.
LEMMA MoreFindings ==
  ASSUME NEW S, NEW T, S \subseteq T, NEW f \in Findings(S)
  PROVE  f \in Findings(T)
<1>1. f.calls \in Seq(S) /\ f.seen \in SUBSET Responses /\ f = [calls |-> f.calls, seen |-> f.seen]
  BY DEF Findings
<1>2. f.calls \in Seq(T)
  BY <1>1
<1>3. QED BY <1>1, <1>2 DEF Findings

\* The visit of a child is a visit.
LEMMA ChildIsVisit ==
  ASSUME IsTrace(trace), tree \in Trees, exclude \in BOOLEAN, NEW v \in Visits,
         NEW k \in 1 .. Len(tree[v.node]), NEW seen \in SUBSET Responses
  PROVE  Child(v, k, seen) \in Visits /\ Child(v, k, seen).node = tree[v.node][k]
<1>1. v.node \in Nodes /\ v.inReward \in BOOLEAN /\ v.inCall \in BOOLEAN
  BY DEF Visits
<1>2. tree[v.node][k] \in Nodes
  <2>1. tree[v.node] \in Seq(Nodes)
    BY <1>1 DEF Trees
  <2>2. QED BY <2>1
<1>3. PICK a \in BOOLEAN : a = (v.inReward \/ (exclude /\ Kind(v.node) = "reward"))
  OBVIOUS
<1>4. PICK b \in BOOLEAN : b = (v.inCall \/ IsCall(v))
  OBVIOUS
<1>5. PICK n \in Nodes : n = tree[v.node][k]
  BY <1>2
<1>6. Child(v, k, seen) = [node |-> n, seen |-> seen, inCall |-> b, inReward |-> a]
  BY <1>3, <1>4, <1>5 DEF Child
<1>7. [node |-> n, seen |-> seen, inCall |-> b, inReward |-> a] \in Visits
  BY DEF Visits
<1>8. QED BY <1>5, <1>6, <1>7

\* A visit finds what is in S if the node itself and the visits of its children do.
LEMMA FoundIs ==
  ASSUME IsTrace(trace), tree \in Trees, exclude \in BOOLEAN, NEW v \in Visits, NEW below,
         NEW S, Kind(v.node) = "call" => v.node \in S,
         \A u \in Visits : u.node \in ToSet(tree[v.node]) => below[u] \in Findings(S)
  PROVE  Found(v, below) \in Findings(S)
<1> DEFINE A == Findings(S)
           W(f, k) == OneMore(v, below, f, k)
<1>1. PICK s \in Seq(Nodes) : s = tree[v.node]
  BY DEF Visits, Trees
<1>2. PICK L \in Nat : L = Len(s) /\ DOMAIN s = 1 .. L
  BY <1>1
<1>3. Itself(v) \in A
  <2>1. v.seen \in SUBSET Responses /\ v.node \in Nodes
    BY DEF Visits
  <2>2. Response(v.node) \in Responses
    BY <2>1 DEF Responses
  <2>3. CASE IsCall(v)
    <3>1. v.node \in S
      BY <2>3 DEF IsCall
    <3>2. Itself(v) = [calls |-> <<v.node>>, seen |-> v.seen \cup ({Response(v.node)} \ {None})]
      BY <2>3 DEF Itself
    <3>3. <<v.node>> \in Seq(S)
      BY <3>1
    <3>4. QED BY <2>1, <2>2, <3>2, <3>3 DEF Findings
  <2>4. CASE ~IsCall(v)
    <3>1. Itself(v) = [calls |-> <<>>, seen |-> v.seen \cup {}]
      BY <2>4 DEF Itself
    <3>2. <<>> \in Seq(S)
      OBVIOUS
    <3>3. QED BY <2>1, <3>1, <3>2 DEF Findings
  <2>5. QED BY <2>3, <2>4
<1>4. ASSUME NEW f \in A, NEW k \in 1 .. L PROVE W(f, k) \in A
  <2>1. f.calls \in Seq(S) /\ f.seen \in SUBSET Responses
    BY DEF Findings
  <2>2. PICK u : u = Child(v, k, f.seen)
    OBVIOUS
  <2>3. u \in Visits /\ u.node = s[k]
    <3>1. k \in 1 .. Len(tree[v.node])
      BY <1>1, <1>2
    <3>2. QED BY <1>1, <2>1, <2>2, <3>1, ChildIsVisit
  <2>4. u.node \in ToSet(tree[v.node])
    BY <1>1, <1>2, <2>3 DEF ToSet
  <2>5. PICK more : more = below[u]
    OBVIOUS
  <2>6. more.calls \in Seq(S) /\ more.seen \in SUBSET Responses
    BY <2>3, <2>4, <2>5 DEF Findings
  <2>7. W(f, k) = [calls |-> f.calls \o more.calls, seen |-> more.seen]
    BY <2>2, <2>5 DEF OneMore
  <2>8. f.calls \o more.calls \in Seq(S)
    BY <2>1, <2>6
  <2>9. QED BY <2>6, <2>7, <2>8 DEF Findings
<1> HIDE DEF A, W
<1> DEFINE WW == [p \in A \X (1 .. L) |-> W(p[1], p[2])]
<1>5. WW \in [A \X (1 .. L) -> A]
  BY <1>4
<1>6. \A f \in A, k \in 1 .. L : WW[<<f, k>>] = W(f, k)
  OBVIOUS
<1> HIDE DEF WW
<1>7. PICK g \in [0 .. L -> A] : Unfolds(L, Itself(v), WW, g)
  BY <1>2, <1>3, <1>5, UnfoldExists
<1>8. \A k \in 0 .. L : g[k] \in A
  OBVIOUS
<1>9. g = [k \in 0 .. L |-> IF k = 0 THEN Itself(v) ELSE WW[<<g[k - 1], k>>]]
  BY <1>7 DEF Unfolds
<1>10. \A k \in 0 .. L : k # 0 => WW[<<g[k - 1], k>>] = W(g[k - 1], k)
  <2>1. ASSUME NEW k \in 0 .. L, k # 0 PROVE g[k - 1] \in A /\ k \in 1 .. L
    BY <1>2, <1>8, <2>1
  <2>2. QED BY <1>6, <2>1
<1>11. g = [k \in 0 .. L |-> IF k = 0 THEN Itself(v) ELSE W(g[k - 1], k)]
  BY ONLY <1>9, <1>10
<1>12. FoundFrom(v, below, g)
  BY <1>1, <1>2, <1>11 DEF FoundFrom, W, OneMore
<1>13. PICK h : h = CHOOSE g2 : FoundFrom(v, below, g2)
  OBVIOUS
<1>14. FoundFrom(v, below, h)
  BY <1>12, <1>13
<1>15. Found(v, below) = [calls |-> h[L].calls, seen |-> IF v.seen = {} THEN {} ELSE h[L].seen]
  BY <1>1, <1>2, <1>13 DEF Found, FoundFrom
<1>16. h = [k \in 0 .. L |-> IF k = 0 THEN Itself(v) ELSE W(h[k - 1], k)]
  BY <1>1, <1>2, <1>14 DEF FoundFrom, W, OneMore
<1>17. \A k \in 0 .. L : h[k] = IF k = 0 THEN Itself(v) ELSE W(h[k - 1], k)
  BY <1>16
<1> DEFINE P == {k \in Nat : k \in 0 .. L => h[k] \in A}
<1>18. 0 \in P
  BY <1>2, <1>3, <1>17
<1>19. ASSUME NEW k \in Nat, k \in P PROVE k + 1 \in P
  <2>1. ASSUME k + 1 \in 0 .. L PROVE h[k + 1] \in A
    <3>1. k \in 0 .. L /\ k + 1 # 0 /\ k + 1 - 1 = k /\ k + 1 \in 1 .. L
      BY <1>2, <2>1
    <3>2. h[k] \in A /\ h[k + 1] = W(h[k], k + 1)
      BY <1>17, <1>19, <2>1, <3>1
    <3>3. QED BY <1>4, <3>1, <3>2
  <2>2. QED BY <2>1
<1>20. \A k \in Nat : k \in P
  <2> HIDE DEF P
  <2>1. QED BY <1>18, <1>19, CountingUp
<1>21. h[L] \in A
  BY <1>2, <1>20
<1>22. QED
  <2>1. PICK f : f = h[L]
    OBVIOUS
  <2>2. f.calls \in Seq(S) /\ f.seen \in SUBSET Responses
    BY <1>21, <2>1 DEF A, Findings
  <2>3. PICK seen \in SUBSET Responses : seen = IF v.seen = {} THEN {} ELSE f.seen
    BY <2>2
  <2>4. Found(v, below) = [calls |-> f.calls, seen |-> seen]
    BY <1>15, <2>1, <2>3
  <2>5. QED BY <2>2, <2>4 DEF Findings

\* The calls among the nodes found within d levels below n.
CallsBelow(d, n) == {x \in In(tree, d, n) : Kind(x) = "call"}

\* What FindCalls is said to be.
Finders == [Visits -> Findings(Nodes)]

FindCallsFrom(f) ==
  f = [d \in 0 .. Depth |->
         IF d = 0 THEN [v \in Visits |-> [calls |-> <<>>, seen |-> v.seen]]
         ELSE LET below == f[d - 1] IN [v \in Visits |-> Found(v, below)]]

\* Every level is made of the one before.
LEMMA FindCallsLevels ==
  ASSUME IsTrace(trace), tree \in Trees, exclude \in BOOLEAN
  PROVE  /\ \A v \in Visits : FindCalls[0][v] = [calls |-> <<>>, seen |-> v.seen]
         /\ \A d \in 1 .. Depth : \A v \in Visits :
              FindCalls[d][v] = Found(v, FindCalls[d - 1])
<1> DEFINE A == Finders
           a == [v \in Visits |-> [calls |-> <<>>, seen |-> v.seen]]
           level(b) == [v \in Visits |-> Found(v, b)]
           W == [p \in A \X (1 .. Depth) |-> level(p[1])]
<1>1. Depth \in Nat
  BY NodesAre
<1>2. a \in A
  <2>1. ASSUME NEW v \in Visits PROVE [calls |-> <<>>, seen |-> v.seen] \in Findings(Nodes)
    <3>1. v.seen \in SUBSET Responses /\ <<>> \in Seq(Nodes)
      BY DEF Visits
    <3>2. QED BY <3>1 DEF Findings
  <2>2. QED BY <2>1 DEF Finders
<1>3. ASSUME NEW b \in A PROVE level(b) \in A
  <2>1. ASSUME NEW v \in Visits PROVE Found(v, b) \in Findings(Nodes)
    <3>1. v.node \in Nodes
      BY DEF Visits
    <3>2. \A u \in Visits : b[u] \in Findings(Nodes)
      BY DEF Finders
    <3>3. QED BY <3>1, <3>2, FoundIs
  <2>2. QED BY <2>1 DEF Finders
<1> HIDE DEF A, level
<1>4. W \in [A \X (1 .. Depth) -> A]
  BY <1>3
<1>5. \A b \in A, d \in 1 .. Depth : W[<<b, d>>] = level(b)
  OBVIOUS
<1> HIDE DEF W, a
<1>6. PICK f \in [0 .. Depth -> A] : Unfolds(Depth, a, W, f)
  BY <1>1, <1>2, <1>4, UnfoldExists
<1>7. \A d \in 0 .. Depth : f[d] \in A
  OBVIOUS
<1>8. f = [d \in 0 .. Depth |-> IF d = 0 THEN a ELSE W[<<f[d - 1], d>>]]
  BY <1>6 DEF Unfolds
<1>9. \A d \in 0 .. Depth : d # 0 => W[<<f[d - 1], d>>] = level(f[d - 1])
  <2>1. ASSUME NEW d \in 0 .. Depth, d # 0 PROVE f[d - 1] \in A /\ d \in 1 .. Depth
    BY <1>1, <1>7, <2>1
  <2>2. QED BY <1>5, <2>1
<1>10. f = [d \in 0 .. Depth |-> IF d = 0 THEN a ELSE level(f[d - 1])]
  BY ONLY <1>8, <1>9
<1>11. FindCallsFrom(f)
  BY <1>10 DEF FindCallsFrom, a, level
<1>12. PICK g : g = FindCalls
  OBVIOUS
<1>13. g = CHOOSE f2 : FindCallsFrom(f2)
  BY <1>12 DEF FindCalls, FindCallsFrom
<1>14. FindCallsFrom(g)
  BY <1>11, <1>13
<1>15. g = [d \in 0 .. Depth |-> IF d = 0 THEN a ELSE level(g[d - 1])]
  BY <1>14 DEF FindCallsFrom, a, level
<1>16. \A d \in 0 .. Depth : g[d] = IF d = 0 THEN a ELSE level(g[d - 1])
  BY <1>15
<1>17. ASSUME NEW d \in 1 .. Depth, NEW v \in Visits PROVE g[d][v] = Found(v, g[d - 1])
  <2>1. d \in 0 .. Depth /\ d # 0
    BY <1>1
  <2>2. g[d] = level(g[d - 1])
    BY <1>16, <2>1
  <2>3. QED BY <2>2 DEF level
<1>18. ASSUME NEW v \in Visits PROVE g[0][v] = [calls |-> <<>>, seen |-> v.seen]
  <2>1. 0 \in 0 .. Depth
    BY <1>1
  <2>2. g[0] = a
    BY <1>16, <2>1
  <2>3. QED BY <2>2 DEF a
<1>19. QED BY <1>12, <1>17, <1>18

\* A visit finds calls of the tree below its node, as far as it looks.
LEMMA FindCallsAre ==
  ASSUME IsTrace(trace), tree \in Trees, exclude \in BOOLEAN
  PROVE  \A d \in 0 .. Depth : \A v \in Visits :
           FindCalls[d][v] \in Findings(CallsBelow(d, v.node))
<1> DEFINE Good(d) == \A v \in Visits : FindCalls[d][v] \in Findings(CallsBelow(d, v.node))
           P == {d \in Nat : d \in 0 .. Depth => Good(d)}
<1>1. 0 \in P
  <2>1. ASSUME NEW v \in Visits PROVE FindCalls[0][v] \in Findings(CallsBelow(0, v.node))
    <3>1. v.seen \in SUBSET Responses
      BY DEF Visits
    <3>2. PICK S : S = CallsBelow(0, v.node)
      OBVIOUS
    <3>3. <<>> \in Seq(S)
      OBVIOUS
    <3>4. FindCalls[0][v] = [calls |-> <<>>, seen |-> v.seen]
      BY FindCallsLevels
    <3>5. FindCalls[0][v] \in Findings(S)
      BY <3>1, <3>3, <3>4 DEF Findings
    <3>6. QED BY <3>2, <3>5
  <2>2. QED BY <2>1
<1>2. ASSUME NEW d \in Nat, d \in P PROVE d + 1 \in P
  <2>1. ASSUME d + 1 \in 0 .. Depth PROVE Good(d + 1)
    <3>1. d \in 0 .. Depth /\ d + 1 \in 1 .. Depth /\ d + 1 - 1 = d
      <4>1. Depth \in Nat
        BY NodesAre
      <4>2. PICK D \in Nat : D = Depth
        BY <4>1
      <4>3. QED BY <2>1, <4>2
    <3>2. PICK e \in 1 .. Depth : e = d + 1 /\ e - 1 = d
      BY <3>1
    <3>3. Good(d)
      BY <1>2, <3>1
    <3> HIDE DEF P
    <3>4. ASSUME NEW v \in Visits PROVE FindCalls[e][v] \in Findings(CallsBelow(e, v.node))
      <4>1. PICK S : S = CallsBelow(e, v.node)
        OBVIOUS
      <4>2. PICK below : below = FindCalls[d]
        OBVIOUS
      <4>3. v.node \in Nodes
        BY DEF Visits
      <4>4. \A x : x \in In(tree, e, v.node) <=>
                     x = v.node \/ \E c \in ToSet(tree[v.node]) : x \in In(tree, d, c)
        <5>1. \A x : x \in In(tree, e, v.node) <=>
                       x = v.node \/ \E c \in ToSet(tree[v.node]) : x \in In(tree, e - 1, c)
          BY <4>3, InIs
        <5>2. e - 1 = d
          BY <3>2
        <5>3. QED BY ONLY <5>1, <5>2
      <4>5. Kind(v.node) = "call" => v.node \in S
        BY <4>1, <4>4 DEF CallsBelow
      <4>6. ASSUME NEW u \in Visits, u.node \in ToSet(tree[v.node])
            PROVE  below[u] \in Findings(S)
        <5>1. FindCalls[d][u] \in Findings(CallsBelow(d, u.node))
          BY <3>3, <4>6
        <5>2. CallsBelow(d, u.node) \subseteq S
          BY <4>1, <4>4, <4>6 DEF CallsBelow
        <5>3. QED BY <4>2, <5>1, <5>2, MoreFindings
      <4>7. Found(v, below) \in Findings(S)
        BY <4>5, <4>6, FoundIs
      <4>8. FindCalls[e][v] = Found(v, below)
        BY <3>2, <4>2, FindCallsLevels
      <4>9. QED BY <4>1, <4>7, <4>8
    <3>5. QED BY <3>2, <3>4
  <2> HIDE DEF Good
  <2>2. QED BY <2>1
<1>3. \A d \in Nat : d \in P
  <2> HIDE DEF P
  <2>1. QED BY <1>1, <1>2, CountingUp
<1>4. Depth \in Nat
  BY NodesAre
<1>5. QED BY <1>3, <1>4

\* The calls of a tree are spans of it.
LEMMA CallsAre ==
  ASSUME IsTrace(trace), tree \in Trees, exclude \in BOOLEAN
  PROVE  /\ Calls \in Seq(Nodes)
         /\ ToSet(Calls) \subseteq ToSet(Traverse(tree, Top)) \cap Spans
<1> DEFINE v == [node |-> Top, inReward |-> FALSE, inCall |-> FALSE, seen |-> {}]
<1>1. Top \in Nodes /\ Depth \in 0 .. Depth
  BY TopIs, NodesAre DEF InTree
<1>2. v \in Visits /\ v.node = Top
  <2>1. {} \in SUBSET Responses /\ FALSE \in BOOLEAN
    OBVIOUS
  <2>2. QED BY <1>1, <2>1 DEF Visits
<1>3. PICK f : f = FindCalls[Depth][v]
  OBVIOUS
<1>4. f \in Findings(CallsBelow(Depth, Top))
  <2> HIDE DEF v
  <2>1. QED BY <1>1, <1>2, <1>3, FindCallsAre
<1>5. Calls = f.calls
  BY <1>3 DEF Calls
<1>6. PICK S : S = CallsBelow(Depth, Top)
  OBVIOUS
<1>7. Calls \in Seq(S)
  BY <1>4, <1>5, <1>6 DEF Findings
<1>8. S \subseteq ToSet(Traverse(tree, Top)) \cap Spans
  <2>1. ASSUME NEW x \in S PROVE x \in ToSet(Traverse(tree, Top)) /\ x \in Spans
    <3>1. x \in In(tree, Depth, Top) /\ Kind(x) = "call"
      BY <1>6 DEF CallsBelow
    <3>2. QED BY <3>1 DEF In, Traverse, Kind
  <2>2. QED BY <2>1
<1>9. Spans \subseteq Nodes
  BY DEF Nodes
<1>10. S \subseteq Nodes
  BY <1>8, <1>9
<1>11. Calls \in Seq(Nodes)
  BY <1>7, <1>10
<1>12. ToSet(Calls) \subseteq S
  BY <1>7 DEF ToSet
<1>13. QED BY <1>8, <1>11, <1>12

-----------------------------------------------------------------------------
\* What FirstOccurrence is said to be.
FirstOccurrenceFrom(order, calls, g) ==
  g = [k \in 0 .. Len(order) |->
         IF k = 0 THEN [c \in ToSet(calls) |-> None]
         ELSE HandedOut(g[k - 1], order, calls, k)]

\* Every item is looked at once.
LEMMA FirstOccurrenceIs ==
  ASSUME NEW order \in Seq(Nodes), NEW calls, NEW g, g = FirstOccurrence(order, calls)
  PROVE  /\ g[0] = [c \in ToSet(calls) |-> None]
         /\ \A k \in 1 .. Len(order) : g[k] = HandedOut(g[k - 1], order, calls, k)
         /\ \A k \in 0 .. Len(order) : DOMAIN g[k] = ToSet(calls)
<1> DEFINE A == [ToSet(calls) -> Nodes \cup {None}]
           a == [c \in ToSet(calls) |-> None]
           next(b, k) == HandedOut(b, order, calls, k)
<1>1. PICK L \in Nat : L = Len(order) /\ \A k \in 1 .. L : order[k] \in Nodes
  OBVIOUS
<1>2. a \in A
  OBVIOUS
<1>3. ASSUME NEW b \in A, NEW k \in 1 .. L PROVE next(b, k) \in A
  <2>1. PICK to : to = Receiver(b, Those(SubSeq(order, 1, k), ToSet(calls)), order[k])
    OBVIOUS
  <2>2. order[k] \in Nodes
    BY <1>1
  <2>3. [b EXCEPT ![to] = order[k]] \in A
    BY <2>2
  <2> HIDE DEF A
  <2>4. QED BY <2>1, <2>3 DEF HandedOut
<1> DEFINE W == [p \in A \X (1 .. L) |-> next(p[1], p[2])]
<1> HIDE DEF next
<1>4. W \in [A \X (1 .. L) -> A]
  BY <1>3
<1>5. \A b \in A, k \in 1 .. L : W[<<b, k>>] = next(b, k)
  OBVIOUS
<1> HIDE DEF W, A, a
<1>6. PICK f \in [0 .. L -> A] : Unfolds(L, a, W, f)
  BY <1>2, <1>4, UnfoldExists
<1>7. \A k \in 0 .. L : f[k] \in A
  OBVIOUS
<1>8. f = [k \in 0 .. L |-> IF k = 0 THEN a ELSE W[<<f[k - 1], k>>]]
  BY <1>6 DEF Unfolds
<1>9. \A k \in 0 .. L : k # 0 => W[<<f[k - 1], k>>] = next(f[k - 1], k)
  <2>1. ASSUME NEW k \in 0 .. L, k # 0 PROVE f[k - 1] \in A /\ k \in 1 .. L
    BY <1>7, <2>1
  <2>2. QED BY <1>5, <2>1
<1>10. f = [k \in 0 .. L |-> IF k = 0 THEN a ELSE next(f[k - 1], k)]
  BY ONLY <1>8, <1>9
<1>11. FirstOccurrenceFrom(order, calls, f)
  BY <1>1, <1>10 DEF FirstOccurrenceFrom, a, next
<1>12. g = CHOOSE f2 : FirstOccurrenceFrom(order, calls, f2)
  BY DEF FirstOccurrence, FirstOccurrenceFrom
<1>13. FirstOccurrenceFrom(order, calls, g)
  BY <1>11, <1>12
<1>14. g = [k \in 0 .. L |-> IF k = 0 THEN a ELSE next(g[k - 1], k)]
  BY <1>1, <1>13 DEF FirstOccurrenceFrom, a, next
<1>15. \A k \in 0 .. L : g[k] = IF k = 0 THEN a ELSE next(g[k - 1], k)
  BY <1>14
<1> DEFINE P == {k \in Nat : k \in 0 .. L => g[k] \in A}
<1>16. 0 \in P
  BY <1>2, <1>15
<1>17. ASSUME NEW k \in Nat, k \in P PROVE k + 1 \in P
  <2>1. ASSUME k + 1 \in 0 .. L PROVE g[k + 1] \in A
    <3>1. k \in 0 .. L /\ k + 1 # 0 /\ k + 1 - 1 = k /\ k + 1 \in 1 .. L
      BY <2>1
    <3>2. g[k] \in A /\ g[k + 1] = next(g[k], k + 1)
      BY <1>15, <1>17, <2>1, <3>1
    <3>3. QED BY <1>3, <3>1, <3>2
  <2>2. QED BY <2>1
<1>18. \A k \in Nat : k \in P
  <2> HIDE DEF P
  <2>1. QED BY <1>16, <1>17, CountingUp
<1>19. \A k \in 0 .. L : DOMAIN g[k] = ToSet(calls)
  <2>1. ASSUME NEW k \in 0 .. L PROVE g[k] \in A
    BY <1>18
  <2>2. QED BY <2>1 DEF A
<1>20. g[0] = a /\ \A k \in 1 .. L : g[k] = next(g[k - 1], k)
  <2>1. 0 \in 0 .. L /\ \A k \in 1 .. L : k \in 0 .. L /\ k # 0
    OBVIOUS
  <2>2. QED BY ONLY <1>15, <2>1
<1>21. QED BY <1>1, <1>19, <1>20 DEF a, next

\* The items that matter to the rewards of a tree: in the order of their times, each once,
\* with all the calls among them.
InTime(order, C) ==
  /\ order \in Seq(Nodes) /\ IsInjective(order)
  /\ C \subseteq ToSet(order) \cap Spans
  /\ \A n \in ToSet(order) : Start(n) \in Int /\ End(n) \in Int
  /\ \A j, k \in DOMAIN order : j <= k => Start(order[j]) <= Start(order[k])

\* One item hands its reward out.
LEMMA ItemHandsOut ==
  ASSUME IsTrace(trace), NEW order, NEW calls, InTime(order, ToSet(calls)),
         NEW before, DOMAIN before = ToSet(calls), NEW k \in DOMAIN order,
         NEW R, R = {j \in DOMAIN order : Kind(order[j]) = "reward"}
  PROVE  HandsOut(ToSet(calls), before, HandedOut(before, order, calls, k), order, k, R,
                  Over, Due)
<1>1. PICK C : C = ToSet(calls)
  OBVIOUS
<1>2. PICK L \in Nat : L = Len(order) /\ DOMAIN order = 1 .. L
  BY DEF InTime
<1>3. PICK first : first = SubSeq(order, 1, k)
  OBVIOUS
<1>4. /\ first \in Seq(Nodes) /\ DOMAIN first = 1 .. k
      /\ \A j \in 1 .. k : first[j] = order[j]
  BY <1>2, <1>3 DEF InTime
<1>5. PICK earlier : earlier = Those(first, C)
  OBVIOUS
<1>6. earlier \in Seq(Nodes) /\ ToSet(earlier) = ToSet(first) \cap C
  BY <1>4, <1>5, ThoseHold
<1> DEFINE S == {c \in DOMAIN before : End(c) <= Start(order[k]) /\ before[c] = None}
<1>7. PICK free : free = Those(earlier, S)
  OBVIOUS
<1>8. /\ free = <<>> => ToSet(earlier) \cap S = {}
      /\ free # <<>> => Last(free) \in ToSet(earlier) \cap S
  <2> HIDE DEF S
  <2>1. QED BY <1>6, <1>7, LastOfThose
<1>9. PICK to : to = Receiver(before, earlier, order[k])
  OBVIOUS
<1>10. to = IF free = <<>> THEN None ELSE Last(free)
  BY <1>7, <1>9 DEF Receiver
<1>11. PICK after : after = HandedOut(before, order, calls, k)
  OBVIOUS
<1>12. after = IF Kind(order[k]) # "reward" \/ to = None THEN before
               ELSE [before EXCEPT ![to] = order[k]]
  BY <1>1, <1>3, <1>5, <1>9, <1>11 DEF HandedOut
<1>13. order[k] \in ToSet(order) /\ (k \in R <=> Kind(order[k]) = "reward")
  BY DEF ToSet
<1>14. None \notin Nodes
  BY NodesAre
<1>15. CASE Kind(order[k]) # "reward"
  BY <1>1, <1>11, <1>12, <1>13, <1>15 DEF HandsOut
<1>16. CASE Kind(order[k]) = "reward" /\ to = None
  <2>1. free = <<>>
    <3>1. ToSet(earlier) \subseteq Nodes
      BY <1>6 DEF ToSet
    <3>2. QED BY <1>8, <1>10, <1>14, <1>16, <3>1
  <2>2. ASSUME NEW c \in C, <<c, order[k]>> \in Due PROVE before[c] # None
    <3>1. End(c) <= Start(order[k]) /\ Start(c) < Start(order[k])
      BY <2>2 DEF Due, Over
    <3>2. PICK j \in DOMAIN order : order[j] = c
      BY <1>1 DEF InTime, ToSet
    <3>3. Start(c) \in Int /\ Start(order[k]) \in Int
      BY <1>1, <1>13 DEF InTime
    <3>4. ~(k <= j)
      BY <3>1, <3>2, <3>3 DEF InTime
    <3>5. j \in 1 .. k
      BY <1>2, <3>4
    <3>6. c \in ToSet(first)
      BY <1>4, <3>2, <3>5 DEF ToSet
    <3>7. c \notin S
      BY <1>6, <1>8, <2>1, <3>6
    <3>8. QED BY <1>1, <3>1, <3>7
  <2>3. after = before
    BY <1>12, <1>16
  <2>4. QED BY <1>1, <1>11, <2>2, <2>3 DEF HandsOut
<1>17. CASE Kind(order[k]) = "reward" /\ to # None
  <2>1. to \in C /\ to \in S
    BY <1>6, <1>8, <1>10, <1>17
  <2>2. before[to] = None /\ End(to) <= Start(order[k])
    BY <2>1
  <2>3. to \in Spans /\ order[k] \in Spans
    BY <1>1, <1>17, <2>1 DEF InTime, Kind
  <2>4. <<to, order[k]>> \in Over
    BY <2>2, <2>3 DEF Over, Pairs
  <2>5. after = [before EXCEPT ![to] = order[k]]
    BY <1>12, <1>17
  <2>6. k \in R
    BY <1>13, <1>17
  <2>7. \E c \in C : /\ before[c] = None /\ <<c, order[k]>> \in Over
                     /\ after = [before EXCEPT ![c] = order[k]]
    BY <2>1, <2>2, <2>4, <2>5
  <2>8. HandsOut(C, before, after, order, k, R, Over, Due)
    BY <2>6, <2>7 DEF HandsOut
  <2>9. QED BY <1>1, <1>11, <2>8
<1>18. QED BY <1>15, <1>16, <1>17

\* Rewards go to calls by their times.
LEMMA TimesAreHandedOut ==
  ASSUME IsTrace(trace), NEW order, NEW calls, InTime(order, ToSet(calls))
  PROVE  Handed(ToSet(calls), FirstOccurrence(order, calls)[Len(order)],
                RewardSpans \cap ToSet(order), Over, Due)
<1>1. PICK C : C = ToSet(calls)
  OBVIOUS
<1>2. PICK L \in Nat : L = Len(order) /\ DOMAIN order = 1 .. L
  BY DEF InTime
<1>3. PICK g : g = FirstOccurrence(order, calls)
  OBVIOUS
<1>4. /\ g[0] = [c \in C |-> None]
      /\ \A k \in 1 .. L : g[k] = HandedOut(g[k - 1], order, calls, k)
      /\ \A k \in 0 .. L : DOMAIN g[k] = C
  <2>1. order \in Seq(Nodes)
    BY DEF InTime
  <2>2. /\ g[0] = [c \in ToSet(calls) |-> None]
        /\ \A k \in 1 .. Len(order) : g[k] = HandedOut(g[k - 1], order, calls, k)
        /\ \A k \in 0 .. Len(order) : DOMAIN g[k] = ToSet(calls)
    BY <1>3, <2>1, FirstOccurrenceIs
  <2>3. QED BY ONLY <1>1, <1>2, <2>2
<1>5. PICK R : R = {j \in DOMAIN order : Kind(order[j]) = "reward"}
  OBVIOUS
<1>6. ASSUME NEW k \in 1 .. L PROVE HandsOut(C, g[k - 1], g[k], order, k, R, Over, Due)
  <2>1. PICK before : before = g[k - 1]
    OBVIOUS
  <2>2. DOMAIN before = C
    <3>1. k - 1 \in 0 .. L
      OBVIOUS
    <3>2. QED BY <1>4, <2>1, <3>1
  <2>3. PICK after : after = HandedOut(before, order, calls, k)
    OBVIOUS
  <2>4. HandsOut(C, before, after, order, k, R, Over, Due)
    BY <1>1, <1>2, <1>5, <2>2, <2>3, ItemHandsOut
  <2>5. g[k] = after
    BY <1>4, <2>1, <2>3
  <2>6. QED BY <2>1, <2>4, <2>5
<1>7. \A j, k \in 1 .. L : order[j] = order[k] => j = k
  BY <1>2 DEF InTime, IsInjective
<1>8. ASSUME NEW k \in 1 .. L PROVE order[k] \in ToSet(order) /\ order[k] # None
  <2>1. order[k] \in ToSet(order) /\ order[k] \in Nodes
    BY <1>2 DEF ToSet, InTime
  <2>2. QED BY <2>1, NodesAre
<1>9. ASSUME NEW j \in 1 .. L, NEW k \in 1 .. L, j <= k PROVE <<order[k], order[j]>> \notin Due
  <2>1. Start(order[j]) <= Start(order[k])
    BY <1>2, <1>9 DEF InTime
  <2>2. Start(order[j]) \in Int /\ Start(order[k]) \in Int
    BY <1>8 DEF InTime
  <2>3. QED BY <2>1, <2>2 DEF Due
<1>10. R \subseteq 1 .. L
  BY <1>2, <1>5
<1>11. \A k \in 1 .. L : order[k] # None
  BY <1>8
<1>12. AllHandedOut(C, L, order, R, Over, Due, g)
  BY <1>4, <1>6, <1>7, <1>9, <1>10, <1>11 DEF AllHandedOut
<1>13. RewardSpans \cap ToSet(order) = {order[k] : k \in R}
  <2>1. \A n : Kind(n) = "reward" <=> n \in RewardSpans
    BY DEF Kind, RewardSpans
  <2>2. ToSet(order) = {order[k] : k \in 1 .. L}
    BY <1>2 DEF ToSet
  <2>3. QED BY <1>2, <1>5, <2>1, <2>2
<1>14. Handed(C, g[L], RewardSpans \cap ToSet(order), Over, Due)
  BY <1>12, <1>13, HandingOut
<1>15. QED BY <1>1, <1>2, <1>3, <1>14

-----------------------------------------------------------------------------
\* The triplets of a finished run are calls with the rewards that were handed out to them.
TripletInv == stage = "done" =>
  /\ policy = "first_occurrence" =>
       \E calls, got :
         /\ triplets = Paired(calls, got)
         /\ Handed(ToSet(calls), got, RewardSpans \cap ToSet(Traverse(tree, Top)), Over, Due)
  /\ policy = "by_sequence" =>
       \E calls, got :
         /\ triplets = Paired(calls, got)
         /\ Handed(ToSet(calls), got, RewardSpans, Numbered, Numbered)
         /\ IsInjective(calls)
         /\ \A i, j \in ToSet(calls) :
              trace[i].response # None /\ i # j => trace[i].response # trace[j].response

\* The triplets of a tree.
LEMMA TreeIsHandedOut ==
  ASSUME TreeInv, stage = "repaired", policy = "first_occurrence"
  PROVE  Handed(ToSet(Calls), Rewards(Calls), RewardSpans \cap ToSet(Traverse(tree, Top)),
                Over, Due)
<1>1. IsTrace(trace) /\ Shape(tree) /\ tree \in Trees /\ exclude \in BOOLEAN
  BY TracesAssumption DEF TreeInv, Shape
<1>2. PICK rank : Linked(tree, rank)
  BY DEF TreeInv
<1>3. PICK calls : calls = Calls
  OBVIOUS
<1>4. calls \in Seq(Nodes) /\ ToSet(calls) \subseteq ToSet(Traverse(tree, Top)) \cap Spans
  BY <1>1, <1>3, CallsAre
<1>5. PICK order : order = ByTime
  OBVIOUS
<1>6. /\ order \in Seq(Nodes) /\ IsInjective(order)
      /\ ToSet(order) = ToSet(Traverse(tree, Top)) \ {Root}
      /\ \A n \in ToSet(order) : Start(n) \in Int /\ End(n) \in Int
      /\ \A j, k \in DOMAIN order : j <= k => Start(order[j]) <= Start(order[k])
  BY <1>1, <1>2, <1>5, ByTimeIs
<1>7. Root \notin Spans
  BY <1>1, NodesAre
<1>8. ToSet(calls) \subseteq ToSet(order) \cap Spans
  BY <1>4, <1>6, <1>7
<1>9. InTime(order, ToSet(calls))
  BY ONLY <1>6, <1>8 DEF InTime
<1>10. RewardSpans \cap ToSet(order) = RewardSpans \cap ToSet(Traverse(tree, Top))
  BY <1>6, <1>7 DEF RewardSpans
<1>11. Rewards(calls) = FirstOccurrence(order, calls)[Len(order)]
  BY <1>5 DEF Rewards
<1>12. Handed(ToSet(calls), FirstOccurrence(order, calls)[Len(order)],
              RewardSpans \cap ToSet(order), Over, Due)
  BY <1>1, <1>9, TimesAreHandedOut
<1>13. QED BY <1>3, <1>10, <1>11, <1>12

\* What is said of times and numbers only depends on the trace.
LEMMA TimesStay ==
  ASSUME trace' = trace
  PROVE  /\ RewardSpans' = RewardSpans /\ Over' = Over /\ Due' = Due
         /\ Numbered' = Numbered
<1>1. Spans' = Spans /\ Pairs' = Pairs
  BY DEF Spans, Pairs
<1>2. Ids' = Ids
  BY <1>1 DEF Ids
<1>3. \A p : ChildrenOf(p)' = ChildrenOf(p)
  BY <1>1, <1>2 DEF ChildrenOf
<1>4. \A n : Start(n)' = Start(n) /\ End(n)' = End(n)
  BY <1>3 DEF Start, End
<1>5. \A n : Kind(n)' = Kind(n)
  BY <1>1 DEF Kind
<1>6. RewardSpans' = RewardSpans
  BY <1>1, <1>5 DEF RewardSpans
<1>7. Over' = Over
  BY <1>1, <1>4 DEF Over
<1>8. Due' = Due
  BY <1>4, <1>7 DEF Due
<1>9. Numbered' = Numbered
  BY <1>1 DEF Numbered
<1>10. QED BY <1>6, <1>7, <1>8, <1>9

\* It holds at first.
LEMMA TripletInvInit == TraceInit => TripletInv
BY DEF TraceInit, TripletInv

\* Every step keeps it: both adapters end with rewards that are handed out.
LEMMA TripletInvStep == TreeInv /\ TripletInv /\ [TraceNext]_traceVars => TripletInv'
<1> SUFFICES ASSUME TreeInv, TripletInv, [TraceNext]_traceVars PROVE TripletInv'
  OBVIOUS
<1>1. IsTrace(trace)
  BY TracesAssumption DEF TreeInv
<1>2. trace' = trace /\ policy' = policy
  BY DEF TraceNext, FromSpans, RepairHierarchy, ToTrajectory, AdaptBySequence, traceVars
<1>3. /\ RewardSpans' = RewardSpans /\ Over' = Over /\ Due' = Due /\ Numbered' = Numbered
      /\ Top' = Top /\ \A t, n : Traverse(t, n)' = Traverse(t, n)
  BY <1>2, TimesStay, TraceStays
<1>4. CASE FromSpans
  BY <1>4 DEF FromSpans, TripletInv
<1>5. CASE RepairHierarchy
  BY <1>5 DEF RepairHierarchy, TripletInv
<1>6. CASE ToTrajectory
  <2>1. stage = "repaired" /\ tree' = tree /\ policy # "by_sequence"
    BY <1>6 DEF ToTrajectory, TreeInv
  <2>2. ASSUME policy = "first_occurrence"
        PROVE  \E calls, got :
                 /\ triplets' = Paired(calls, got)
                 /\ Handed(ToSet(calls), got, RewardSpans \cap ToSet(Traverse(tree, Top)),
                           Over, Due)
    <3>1. triplets' = Paired(Calls, Rewards(Calls))
      BY <1>6, <2>2 DEF ToTrajectory, Paired
    <3>2. QED BY <2>1, <2>2, <3>1, TreeIsHandedOut
  <2>3. Traverse(tree, Top)' = Traverse(tree, Top)
    <3>1. PICK t : t = tree
      OBVIOUS
    <3>2. Traverse(t, Top)' = Traverse(t, Top)
      <4>1. PICK n : n = Top
        OBVIOUS
      <4>2. Traverse(t, n)' = Traverse(t, n) /\ n = Top'
        BY <1>3, <4>1
      <4>3. QED BY <4>1, <4>2
    <3>3. QED BY <2>1, <3>1, <3>2
  <2>4. QED BY <1>2, <1>3, <2>1, <2>2, <2>3 DEF TripletInv
<1>7. CASE AdaptBySequence
  <2>1. policy = "by_sequence"
    BY <1>7 DEF AdaptBySequence
  <2>2. triplets' = Paired(ProxyCalls, BySequence[Len(trace)])
    BY <1>7 DEF AdaptBySequence, Paired
  <2>3. Handed(ToSet(ProxyCalls), BySequence[Len(trace)], RewardSpans, Numbered, Numbered)
    BY <1>1, SequencesAreHandedOut
  <2>4. /\ IsInjective(ProxyCalls)
        /\ \A i, j \in ToSet(ProxyCalls) :
             trace[i].response # None /\ i # j => trace[i].response # trace[j].response
    BY <1>1, ProxyCallsAre
  <2>5. \E calls, got :
          /\ triplets' = Paired(calls, got)
          /\ Handed(ToSet(calls), got, RewardSpans, Numbered, Numbered)
          /\ IsInjective(calls)
          /\ \A i, j \in ToSet(calls) :
               trace[i].response # None /\ i # j => trace[i].response # trace[j].response
    BY <2>2, <2>3, <2>4
  <2>6. QED BY <1>2, <1>3, <2>1, <2>5 DEF TripletInv
<1>8. CASE UNCHANGED traceVars
  <2>1. UNCHANGED <<trace, policy, stage, tree, triplets>>
    BY <1>8 DEF traceVars
  <2>2. Traverse(tree, Top)' = Traverse(tree, Top)
    BY <2>1 DEF Traverse, Down, Top, Roots, ChildrenOf, Ids, Spans, Nodes, Depth
  <2>3. QED BY <1>3, <2>1, <2>2 DEF TripletInv
<1>9. QED BY <1>4, <1>5, <1>6, <1>7, <1>8 DEF TraceNext

\* Rewards find their calls where it holds.
LEMMA TripletsFindTheirCalls == TripletInv => RewardsFindTheirCalls
<1> SUFFICES ASSUME TripletInv, stage = "done"
             PROVE  /\ policy = "first_occurrence" =>
                         OneCallEach(RewardSpans \cap ToSet(Traverse(tree, Top)), Over, Due)
                    /\ policy = "by_sequence" =>
                         /\ OneCallEach(RewardSpans, Numbered, Numbered)
                         /\ \A j, k \in DOMAIN triplets :
                              trace[triplets[j].call].response # None /\ j # k
                              => trace[triplets[j].call].response
                                 # trace[triplets[k].call].response
  BY DEF RewardsFindTheirCalls
<1>1. ASSUME policy = "first_occurrence"
      PROVE  OneCallEach(RewardSpans \cap ToSet(Traverse(tree, Top)), Over, Due)
  <2>1. PICK rewards, may, due :
          rewards = RewardSpans \cap ToSet(Traverse(tree, Top)) /\ may = Over /\ due = Due
    OBVIOUS
  <2>2. PICK calls, got : triplets = Paired(calls, got) /\
                          Handed(ToSet(calls), got, rewards, may, due)
    BY <1>1, <2>1 DEF TripletInv
  <2>3. OneCallEach(rewards, may, due)
    BY <2>2, PairedIsOneCallEach
  <2>4. QED BY <2>1, <2>3
<1>2. ASSUME policy = "by_sequence"
      PROVE  /\ OneCallEach(RewardSpans, Numbered, Numbered)
             /\ \A j, k \in DOMAIN triplets :
                  trace[triplets[j].call].response # None /\ j # k
                  => trace[triplets[j].call].response # trace[triplets[k].call].response
  <2>1. PICK rewards, num : rewards = RewardSpans /\ num = Numbered
    OBVIOUS
  <2>2. PICK calls, got :
          /\ triplets = Paired(calls, got)
          /\ Handed(ToSet(calls), got, rewards, num, num)
          /\ IsInjective(calls)
          /\ \A i, j \in ToSet(calls) :
               trace[i].response # None /\ i # j => trace[i].response # trace[j].response
    BY <1>2, <2>1 DEF TripletInv
  <2>3. OneCallEach(rewards, num, num)
    BY <2>2, PairedIsOneCallEach
  <2>4. ASSUME NEW j \in DOMAIN triplets, NEW k \in DOMAIN triplets,
               trace[triplets[j].call].response # None, j # k
        PROVE  trace[triplets[j].call].response # trace[triplets[k].call].response
    <3>1. /\ j \in DOMAIN calls /\ k \in DOMAIN calls
          /\ triplets[j].call = calls[j] /\ triplets[k].call = calls[k]
      BY <2>2 DEF Paired
    <3>2. calls[j] \in ToSet(calls) /\ calls[k] \in ToSet(calls) /\ calls[j] # calls[k]
      BY <2>2, <2>4, <3>1 DEF ToSet, IsInjective
    <3>3. QED BY <2>2, <2>4, <3>1, <3>2
  <2>5. QED BY <2>1, <2>3, <2>4
<1>3. QED BY <1>1, <1>2

\* The triplets that adapt returns hand out the rewards, in a tree and by number.
THEOREM TripletInvariant == TraceSpec => []TripletInv
BY TreeInvariant, TripletInvInit, TripletInvStep, PTL DEF TraceSpec

\* match_rewards and its counterpart in LlmProxyTraceToTriplet give every reward to one call
\* that may have it, and leave one out only if each call that it is due to has got another.
THEOREM EveryRewardFindsItsCall == TraceSpec => []RewardsFindTheirCalls
BY TripletInvariant, TripletsFindTheirCalls, PTL
=============================================================================
