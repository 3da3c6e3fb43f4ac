--------------------------- MODULE Documents_proofs ---------------------------
EXTENDS Documents, SequenceTheorems, FiniteSetTheorems, WellFoundedInduction, TLAPS

\* A set that holds 0 and the successor of each of its numbers holds them all.
LEMMA Successors ==
  ASSUME NEW S, 0 \in S, \A n \in Nat : n \in S => n + 1 \in S
  PROVE  Nat \subseteq S
<1> SUFFICES ASSUME Nat \ S # {} PROVE FALSE
  OBVIOUS
<1>1. PICK x \in Nat \ S : \A y \in Nat \ S : ~(<<y, x>> \in OpToRel(<, Nat))
  BY NatLessThanWellFounded, WFMin
<1>2. x # 0 /\ x - 1 \in Nat /\ (x - 1) + 1 = x
  OBVIOUS
<1>3. <<x - 1, x>> \in OpToRel(<, Nat)
  BY <1>2 DEF OpToRel
<1>4. x - 1 \in S
  BY <1>1, <1>2, <1>3
<1> QED
  BY <1>2, <1>4

\* What holds at the start of a loop and after each round holds throughout.
LEMMA Stays ==
  ASSUME NEW n \in Nat, NEW D, NEW f, f[0] \in D,
         \A i \in 1..n : f[i - 1] \in D => f[i] \in D
  PROVE  \A i \in 0..n : f[i] \in D
<1> DEFINE S == {i \in Nat : i <= n => f[i] \in D}
<1>1. 0 \in S
  OBVIOUS
<1>2. ASSUME NEW i \in Nat, i \in S PROVE i + 1 \in S
  <2>1. CASE i + 1 <= n
    <3>1. i + 1 \in 1..n /\ (i + 1) - 1 = i /\ f[i] \in D
      BY <1>2, <2>1
    <3> QED
      BY <3>1
  <2> QED
    BY <2>1
<1> HIDE DEF S
<1>3. Nat \subseteq S
  BY <1>1, <1>2, Successors
<1> QED
  BY <1>3 DEF S

\* f holds what a loop over 1..n has computed after each round.
IsRun(f, D, n, base, G) ==
    /\ f \in [0..n -> D]
    /\ f[0] = base
    /\ \A i \in 1..n : f[i] = G[i][f[i - 1]]

\* A loop whose rounds stay among the members of a set ends, and stays there.
LEMMA Loop ==
  ASSUME NEW D, NEW n \in Nat, NEW base \in D, NEW G \in [1..n -> [D -> D]]
  PROVE  \E f : IsRun(f, D, n, base, G)
<1> DEFINE IsLoop(f, m) == /\ f \in [0..m -> D]
                           /\ f[0] = base
                           /\ \A i \in 1..m : f[i] = G[i][f[i - 1]]
           S == {m \in Nat : m <= n => \E f : IsLoop(f, m)}
<1>1. 0 \in S
  <2>1. IsLoop([i \in 0..0 |-> base], 0)
    OBVIOUS
  <2> QED
    BY <2>1
<1>2. ASSUME NEW m \in Nat, m \in S PROVE m + 1 \in S
  <2> SUFFICES ASSUME m + 1 <= n PROVE \E f : IsLoop(f, m + 1)
    OBVIOUS
  <2>1. PICK f : IsLoop(f, m)
    BY <1>2
  <2> DEFINE g == [i \in 0..(m + 1) |-> IF i = m + 1 THEN G[m + 1][f[m]] ELSE f[i]]
  <2>2. m + 1 \in 1..n /\ f[m] \in D
    BY <2>1
  <2>3. G[m + 1][f[m]] \in D
    <3>1. G[m + 1] \in [D -> D]
      BY <2>2
    <3> QED
      BY <2>2, <3>1
  <2>4. /\ g \in [0..(m + 1) -> D] /\ g[m + 1] = G[m + 1][f[m]]
        /\ \A i \in 0..m : g[i] = f[i]
    BY <2>1, <2>3
  <2> HIDE DEF g
  <2>5. ASSUME NEW i \in 1..(m + 1) PROVE g[i] = G[i][g[i - 1]]
    <3>1. CASE i = m + 1
      <4>1. i - 1 = m /\ m \in 0..m
        BY <3>1
      <4> QED
        BY <2>4, <3>1, <4>1
    <3>2. CASE i # m + 1
      <4>1. i \in 1..m /\ i \in 0..m /\ i - 1 \in 0..m
        BY <3>2
      <4>2. f[i] = G[i][f[i - 1]]
        BY <2>1, <4>1
      <4> QED
        BY <2>4, <4>1, <4>2
    <3> QED
      BY <3>1, <3>2
  <2>6. IsLoop(g, m + 1)
    BY <2>1, <2>4, <2>5
  <2> QED
    BY <2>6
<1> HIDE DEF S
<1>3. n \in S
  BY <1>1, <1>2, Successors
<1>4. PICK f : IsLoop(f, n)
  BY <1>3 DEF S
<1> QED
  BY <1>4 DEF IsRun

\* A set of numbers that is not empty has a least one; a finite one has a greatest.
LEMMA MinIsMember ==
  ASSUME NEW S, S \subseteq Nat, S # {}
  PROVE  Min(S) \in S /\ \A i \in S : Min(S) <= i
<1> DEFINE T == {n \in Nat : \A y \in S : n <= y}
<1>1. \E x \in S : \A y \in S : x <= y
  <2> SUFFICES ASSUME \A x \in S : \E y \in S : ~(x <= y) PROVE FALSE
    OBVIOUS
  <2>1. 0 \in T
    OBVIOUS
  <2>2. ASSUME NEW n \in Nat, n \in T PROVE n + 1 \in T
    <3>1. \A y \in S : n <= y
      BY <2>2
    <3>2. n \notin S
      BY <3>1
    <3>3. ASSUME NEW y \in S PROVE n + 1 <= y
      <4>1. y \in Nat /\ n <= y /\ n # y
        BY <3>1, <3>2
      <4> QED
        BY <4>1
    <3> QED
      BY <3>3
  <2>3. PICK y : y \in S
    OBVIOUS
  <2> HIDE DEF T
  <2>4. Nat \subseteq T
    BY <2>1, <2>2, Successors
  <2>5. y + 1 <= y /\ y \in Nat
    BY <2>3, <2>4 DEF T
  <2> QED
    BY <2>5
<1> QED
  BY <1>1 DEF Min

LEMMA MaxIsMember ==
  ASSUME NEW n \in Nat, NEW S, S \subseteq 0..n, S # {}
  PROVE  Max(S) \in S /\ \A i \in S : i <= Max(S)
<1> DEFINE T == {n - i : i \in S}
<1>1. T \subseteq Nat
  <2>1. \A i \in S : n - i \in Nat
    OBVIOUS
  <2> QED
    BY <2>1
<1>2. T # {}
  <2>1. PICK i \in S : TRUE
    OBVIOUS
  <2>2. n - i \in T
    BY <2>1
  <2> QED
    BY <2>2
<1> HIDE DEF T
<1>3. PICK t \in T : \A u \in T : t <= u
  BY <1>1, <1>2, MinIsMember
<1>4. PICK m \in S : t = n - m
  BY <1>3 DEF T
<1>5. ASSUME NEW i \in S PROVE i <= m
  <2>1. n - i \in T
    BY DEF T
  <2>2. t <= n - i /\ i \in 0..n /\ m \in 0..n
    BY <1>3, <2>1
  <2> QED
    BY <1>4, <2>2
<1>6. \A x \in S : m >= x
  <2> SUFFICES ASSUME NEW x \in S PROVE m >= x
    OBVIOUS
  <2>1. x \in 0..n /\ m \in 0..n
    OBVIOUS
  <2> QED
    BY <1>5, <2>1
<1>7. Max(S) \in S /\ \A i \in S : Max(S) >= i
  BY <1>6 DEF Max
<1> QED
  <2> SUFFICES ASSUME NEW i \in S PROVE i <= Max(S)
    BY <1>7
  <2>1. i \in 0..n /\ Max(S) \in 0..n /\ Max(S) >= i
    BY <1>7
  <2> QED
    BY <2>1

-----------------------------------------------------------------------------
(* Sequences. *)

LEMMA SeqFacts ==
  ASSUME NEW S, NEW s \in Seq(S)
  PROVE  /\ Len(s) \in Nat /\ DOMAIN s = 1..Len(s)
         /\ \A i \in DOMAIN s : s[i] \in S
         /\ ToSet(s) \subseteq S
BY LenProperties, ElementOfSeq DEF ToSet

\* Concatenation, one by one.
LEMMA FlattenedSteps ==
  ASSUME NEW S, NEW seqs \in Seq(Seq(S)), Len(seqs) # 0
  PROVE  \E f : /\ FlattenSeq(seqs) = f[Len(seqs)]
                /\ f[1] = seqs[1]
                /\ \A i \in 2..Len(seqs) : f[i] = f[i - 1] \o seqs[i]
<1> DEFINE n == Len(seqs)
           none == <<>>
           D == Seq(S)
           IsLoop(f) == f = [i \in 1..n |-> IF i = 1 THEN seqs[i] ELSE f[i - 1] \o seqs[i]]
           flatten[i \in 1..n] == IF i = 1 THEN seqs[i] ELSE flatten[i - 1] \o seqs[i]
           G == [i \in 1..n |-> [x \in D |-> x \o seqs[i]]]
<1>1. n \in Nat /\ n # 0 /\ \A i \in 1..n : seqs[i] \in D
  BY SeqFacts
<1>2. FlattenSeq(seqs) = flatten[n]
  BY DEF FlattenSeq
<1> HIDE DEF n
<1>3. none \in D
  BY EmptySeq
<1>4. \A x \in D : \A i \in 1..n : x \o seqs[i] \in D
  BY <1>1, ConcatProperties
<1>5. \A i \in 1..n : none \o seqs[i] = seqs[i]
  BY <1>1, ConcatEmptySeq
<1> HIDE DEF D, none
<1>6. G \in [1..n -> [D -> D]]
  BY <1>4
<1>7. \A i \in 1..n : \A x \in D : G[i][x] = x \o seqs[i]
  OBVIOUS
<1> HIDE DEF G
<1>8. PICK g : IsRun(g, D, n, none, G)
  BY <1>1, <1>3, <1>6, Loop
<1> DEFINE h == [i \in 1..n |-> g[i]]
<1>9. ASSUME NEW i \in 1..n PROVE i - 1 \in 0..n /\ g[i] = g[i - 1] \o seqs[i]
  <2>1. i \in 0..n /\ i # 0 /\ i - 1 \in 0..n
    BY <1>1
  <2>2. g[i] = G[i][g[i - 1]] /\ g[i - 1] \in D
    BY <1>8, <2>1 DEF IsRun
  <2> QED
    BY <1>7, <2>1, <2>2
<1>10. g[1] = seqs[1]
  <2>1. 1 \in 1..n /\ g[0] = none
    BY <1>1, <1>8 DEF IsRun
  <2>2. g[1] = g[1 - 1] \o seqs[1]
    BY <1>9, <2>1
  <2>3. g[1] = g[0] \o seqs[1]
    BY <2>2
  <2> QED
    BY <1>5, <2>1, <2>3
<1>11. IsLoop(h)
  <2>1. ASSUME NEW i \in 1..n PROVE h[i] = IF i = 1 THEN seqs[i] ELSE h[i - 1] \o seqs[i]
    <3>1. CASE i = 1
      BY <1>10, <3>1
    <3>2. CASE i # 1
      <4>1. i - 1 \in 1..n
        BY <1>1, <3>2
      <4> QED
        BY <1>9, <3>2, <4>1
    <3> QED
      BY <3>1, <3>2
  <2> QED
    BY <2>1
<1>12. IsLoop(flatten)
  <2> HIDE DEF h
  <2> QED
    BY <1>11
<1> HIDE DEF flatten
<1>13. flatten[1] = seqs[1] /\ \A i \in 2..n : flatten[i] = flatten[i - 1] \o seqs[i]
  <2>1. 1 \in 1..n /\ \A i \in 2..n : i \in 1..n /\ i # 1
    BY <1>1
  <2>2. \A i \in 1..n : flatten[i] = IF i = 1 THEN seqs[i] ELSE flatten[i - 1] \o seqs[i]
    BY <1>12
  <2> QED
    BY <2>1, <2>2
<1> QED
  BY <1>2, <1>13 DEF n

LEMMA NoneIn ==
  ToSet(<<>>) = {}
BY DEF ToSet

LEMMA ToSetFacts ==
  ASSUME NEW S, NEW s \in Seq(S), NEW t \in Seq(S)
  PROVE  /\ \A x : x \in ToSet(s) <=> \E i \in 1..Len(s) : s[i] = x
         /\ ToSet(s \o t) = ToSet(s) \union ToSet(t)
<1>1. DOMAIN s = 1..Len(s)
  BY SeqFacts
<1>2. Range(s \o t) = Range(s) \cup Range(t)
  BY RangeConcatenation
<1>3. \A u : Range(u) = ToSet(u)
  BY DEF ToSet, Range
<1>4. \A x : x \in ToSet(s) <=> \E i \in 1..Len(s) : s[i] = x
  BY <1>1 DEF ToSet
<1> QED
  BY <1>2, <1>3, <1>4

LEMMA SingleFacts ==
  ASSUME NEW S, NEW x \in S
  PROVE  <<x>> \in Seq(S) /\ ToSet(<<x>>) = {x}
BY DEF ToSet

\* What is flattened is a sequence of all the members.
LEMMA Flattened ==
  ASSUME NEW S, NEW seqs \in Seq(Seq(S))
  PROVE  /\ FlattenSeq(seqs) \in Seq(S)
         /\ \A x : x \in ToSet(FlattenSeq(seqs)) <=> \E i \in 1..Len(seqs) : x \in ToSet(seqs[i])
<1>1. Len(seqs) \in Nat /\ \A i \in 1..Len(seqs) : seqs[i] \in Seq(S)
  BY SeqFacts
<1>2. CASE Len(seqs) = 0
  <2>1. seqs = <<>> /\ FlattenSeq(seqs) = <<>>
    BY <1>2, EmptySeq DEF FlattenSeq
  <2>2. FlattenSeq(seqs) \in Seq(S) /\ ToSet(FlattenSeq(seqs)) = {}
    BY <2>1, NoneIn, EmptySeq
  <2>3. 1..Len(seqs) = {}
    BY <1>2
  <2> QED
    BY <2>2, <2>3
<1>3. CASE Len(seqs) # 0
  <2> DEFINE n == Len(seqs)
             Good(f, i) == /\ f[i] \in Seq(S)
                           /\ \A x : x \in ToSet(f[i]) <=> \E j \in 1..i : x \in ToSet(seqs[j])
  <2>1. PICK f : /\ FlattenSeq(seqs) = f[n] /\ f[1] = seqs[1]
                 /\ \A i \in 2..n : f[i] = f[i - 1] \o seqs[i]
    BY <1>3, FlattenedSteps
  <2> DEFINE T == {k \in Nat : k + 1 <= n => Good(f, k + 1)}
  <2>2. 0 \in T
    <3>1. 1 \in 1..n
      BY <1>1, <1>3
    <3>2. f[1] \in Seq(S) /\ \A x : x \in ToSet(f[1]) <=> \E j \in 1..1 : x \in ToSet(seqs[j])
      BY <1>1, <2>1, <3>1
    <3> QED
      BY <3>2
  <2>3. ASSUME NEW k \in Nat, k \in T PROVE k + 1 \in T
    <3> SUFFICES ASSUME (k + 1) + 1 <= n PROVE Good(f, (k + 1) + 1)
      OBVIOUS
    <3> DEFINE i == (k + 1) + 1
    <3>1. i \in 2..n /\ i \in 1..n /\ i - 1 = k + 1 /\ i \in Nat
      BY <1>1
    <3>2. Good(f, i - 1)
      BY <1>1, <2>3, <3>1
    <3>3. f[i] = f[i - 1] \o seqs[i] /\ seqs[i] \in Seq(S)
      BY <1>1, <2>1, <3>1
    <3>4. f[i] \in Seq(S) /\ ToSet(f[i]) = ToSet(f[i - 1]) \union ToSet(seqs[i])
      BY <3>2, <3>3, ConcatProperties, ToSetFacts
    <3>5. \A j : j \in 1..i <=> j \in 1..(i - 1) \/ j = i
      BY <3>1
    <3> HIDE DEF i
    <3>6. Good(f, i)
      BY <3>2, <3>4, <3>5
    <3> QED
      BY <3>6 DEF i
  <2> HIDE DEF T
  <2>4. Nat \subseteq T
    BY <2>2, <2>3, Successors
  <2>5. n - 1 \in Nat /\ (n - 1) + 1 = n
    BY <1>1, <1>3
  <2>6. n - 1 \in T
    BY <2>4, <2>5
  <2>7. Good(f, (n - 1) + 1)
    BY <1>1, <2>5, <2>6 DEF T
  <2>8. Good(f, n)
    BY <2>5, <2>7
  <2> QED
    BY <2>1, <2>8
<1> QED
  BY <1>2, <1>3

LEMMA PickedFacts ==
  ASSUME NEW S, NEW nodes \in Seq(S), NEW places
  PROVE  /\ Picked(nodes, places) \in Seq(S)
         /\ \A x : x \in ToSet(Picked(nodes, places)) <=>
                     \E i \in 1..Len(nodes) : i \in places /\ x = nodes[i]
         /\ ToSet(Picked(nodes, places)) \subseteq ToSet(nodes)
<1> DEFINE part(i) == IF i \in places THEN <<nodes[i]>> ELSE <<>>
           seqs == [i \in DOMAIN nodes |-> part(i)]
<1>1. /\ Len(nodes) \in Nat /\ DOMAIN nodes = 1..Len(nodes)
      /\ \A i \in 1..Len(nodes) : nodes[i] \in S
  BY SeqFacts
<1>2. \A i \in 1..Len(nodes) :
        part(i) \in Seq(S) /\ \A x : x \in ToSet(part(i)) <=> i \in places /\ x = nodes[i]
  <2> SUFFICES ASSUME NEW i \in 1..Len(nodes)
               PROVE  part(i) \in Seq(S) /\ \A x : x \in ToSet(part(i)) <=> i \in places /\ x = nodes[i]
    OBVIOUS
  <2>1. CASE i \in places
    BY <1>1, <2>1, SingleFacts
  <2>2. CASE i \notin places
    BY <2>2, EmptySeq, NoneIn
  <2> QED
    BY <2>1, <2>2
<1> HIDE DEF part
<1>3. seqs \in Seq(Seq(S)) /\ Len(seqs) = Len(nodes) /\ \A i \in 1..Len(nodes) : seqs[i] = part(i)
  BY <1>1, <1>2
<1>4. Picked(nodes, places) = FlattenSeq(seqs)
  BY DEF Picked, part
<1> HIDE DEF seqs
<1>5. /\ Picked(nodes, places) \in Seq(S)
      /\ \A x : x \in ToSet(Picked(nodes, places)) <=> \E i \in 1..Len(nodes) : x \in ToSet(seqs[i])
  BY <1>3, <1>4, Flattened
<1>6. \A x : x \in ToSet(Picked(nodes, places)) <=> \E i \in 1..Len(nodes) : i \in places /\ x = nodes[i]
  BY <1>2, <1>3, <1>5
<1>7. ToSet(Picked(nodes, places)) \subseteq ToSet(nodes)
  BY <1>1, <1>6 DEF ToSet
<1> QED
  BY <1>5, <1>6, <1>7

-----------------------------------------------------------------------------
(* Paths and nodes. *)

Segments == Names \union Nat \union {Merge, Off} \union Words

Docs == Seq(NodeType)

LEMMA WordsFacts ==
  /\ None \in Words /\ Null \in Words /\ Empty \in Words /\ Blank \in Words
  /\ Vals \subseteq Words /\ Comments \subseteq Words /\ Anchors \subseteq Words
  /\ Words \subseteq Segments /\ Nat \subseteq Segments /\ Merge \in Segments /\ Off \in Segments
BY DEF Words, Segments

LEMMA PathFacts ==
  ASSUME NEW p
  PROVE  /\ p \in Paths <=> p \in Seq(Segments) /\ p # <<>>
         /\ p \in Paths => /\ Len(p) \in Nat \ {0} /\ Parent(p) \in Seq(Segments)
                           /\ Len(Parent(p)) = Len(p) - 1
                           /\ Last(p) \in Segments
                           /\ \A i \in 1..Len(p) : p[i] \in Segments
<1>1. p \in Paths <=> p \in Seq(Segments) /\ p # <<>>
  BY DEF Paths, Segments
<1>2. ASSUME p \in Seq(Segments), p # <<>>
      PROVE  /\ Len(p) \in Nat \ {0} /\ \A i \in 1..Len(p) : p[i] \in Segments
             /\ Parent(p) \in Seq(Segments) /\ Len(Parent(p)) = Len(p) - 1
  <2>1. Len(p) \in Nat \ {0} /\ \A i \in 1..Len(p) : p[i] \in Segments
    BY <1>2, EmptySeq, ElementOfSeq
  <2>2. 1 \in Int /\ Len(p) - 1 \in Int /\ \A i \in 1..(Len(p) - 1) : p[i] \in Segments
    BY <2>1
  <2>3. /\ SubSeq(p, 1, Len(p) - 1) \in Seq(Segments)
        /\ Len(SubSeq(p, 1, Len(p) - 1)) = IF 1 <= Len(p) - 1 THEN (Len(p) - 1) - 1 + 1 ELSE 0
    BY <2>2, SubSeqProperties
  <2>4. Len(SubSeq(p, 1, Len(p) - 1)) = Len(p) - 1
    <3> DEFINE m == Len(p)
               k == Len(SubSeq(p, 1, m - 1))
    <3>1. m \in Nat \ {0} /\ k = IF 1 <= m - 1 THEN (m - 1) - 1 + 1 ELSE 0
      BY <2>1, <2>3
    <3> HIDE DEF m, k
    <3>2. k = m - 1
      BY <3>1
    <3> QED
      BY <3>2 DEF m, k
  <2>5. Parent(p) = SubSeq(p, 1, Len(p) - 1)
    BY DEF Parent, Front
  <2> QED
    BY <2>1, <2>3, <2>4, <2>5
<1>3. ASSUME p \in Seq(Segments), p # <<>> PROVE Last(p) \in Segments
  BY <1>2, <1>3 DEF Last
<1> QED
  BY <1>1, <1>2, <1>3

LEMMA AppendedPath ==
  ASSUME NEW p \in Seq(Segments), NEW seg \in Segments
  PROVE  Append(p, seg) \in Paths
<1>1. Append(p, seg) \in Seq(Segments) /\ Len(Append(p, seg)) = Len(p) + 1 /\ Len(p) \in Nat
  BY AppendProperties, LenProperties
<1>2. Append(p, seg) # <<>>
  BY <1>1, EmptySeq
<1> QED
  BY <1>1, <1>2, PathFacts

LEMMA JoinedPath ==
  ASSUME NEW p \in Seq(Segments), NEW q \in Seq(Segments), p # <<>> \/ q # <<>>
  PROVE  p \o q \in Paths
<1>1. p \o q \in Seq(Segments)
  BY ConcatProperties
<1>2. p \o q # <<>>
  BY ConcatEqualIffEmpty
<1> QED
  BY <1>1, <1>2, PathFacts

LEMMA WalkFacts ==
  ASSUME NEW p \in Seq(Segments)
  PROVE  /\ Len(Walk(p)) = Len(p) /\ DOMAIN Walk(p) = 1..Len(p)
         /\ Walk(p) \in Seq(Paths) /\ \A i \in 1..Len(p) : Walk(p)[i] \in Paths
<1>1. Len(p) \in Nat /\ \A i \in 1..Len(p) : p[i] \in Segments
  BY SeqFacts
<1>2. ASSUME NEW i \in 1..Len(p) PROVE SubSeq(p, 1, i) \in Paths
  <2>1. 1 \in Int /\ i \in Int /\ 1 <= i /\ \A j \in 1..i : p[j] \in Segments
    BY <1>1
  <2>2. SubSeq(p, 1, i) \in Seq(Segments) /\ Len(SubSeq(p, 1, i)) = i - 1 + 1
    BY <2>1, SubSeqProperties
  <2>3. SubSeq(p, 1, i) # <<>>
    BY <2>1, <2>2, EmptySeq
  <2> QED
    BY <2>2, <2>3, PathFacts
<1> QED
  BY <1>1, <1>2 DEF Walk

LEMMA OffPath ==
  Nowhere \in Paths /\ \A w \in Words : <<Off, w>> \in Paths
<1>1. \A w \in Words : w \in Segments /\ Off \in Segments
  BY WordsFacts
<1>2. Off \in Segments
  BY WordsFacts
<1>3. Nowhere \in Seq(Segments) /\ Nowhere # <<>>
  BY <1>2 DEF Nowhere
<1>4. \A w \in Words : <<Off, w>> \in Seq(Segments) /\ <<Off, w>> # <<>>
  BY <1>1, <1>2
<1> QED
  BY <1>3, <1>4, PathFacts

LEMMA NodeIsNode ==
  ASSUME NEW p \in Paths, NEW kind \in {"map", "seq", "scalar", "alias"}, NEW val \in Words
  PROVE  Node(p, kind, val) \in NodeType /\ Node(p, kind, val).path = p
BY WordsFacts DEF Node, NodeType

LEMMA NodeFacts ==
  ASSUME NEW n \in NodeType
  PROVE  /\ n.path \in Paths /\ n.kind \in {"map", "seq", "scalar", "alias"} /\ n.val \in Words
         /\ n.style \in {"plain", "quoted", "block"} /\ n.anchor \in Words
         /\ n.head \in Words /\ n.line \in Words /\ n.foot \in Words
         /\ n.keyAt \in Nat /\ n.at \in Nat
BY DEF NodeType

LEMMA NodeEdited ==
  ASSUME NEW n \in NodeType
  PROVE  /\ \A p \in Paths : [n EXCEPT !.path = p] \in NodeType /\ [n EXCEPT !.path = p].path = p
         /\ \A w \in Words : /\ [n EXCEPT !.val = w] \in NodeType
                             /\ [n EXCEPT !.anchor = w] \in NodeType
                             /\ [n EXCEPT !.foot = w] \in NodeType
                             /\ [n EXCEPT !.head = w] \in NodeType
                             /\ [n EXCEPT !.val = w, !.at = 0] \in NodeType
         /\ \A v, w \in Words : [n EXCEPT !.head = v, !.line = w] \in NodeType
         /\ \A k \in Nat : [n EXCEPT !.keyAt = k] \in NodeType
BY DEF NodeType

LEMMA AtFacts ==
  ASSUME NEW S, NEW doc \in Seq(S), NEW p, Has(doc, p), p # <<>>
  PROVE  At(doc, p) \in S /\ At(doc, p).path = p /\ At(doc, p) \in ToSet(doc)
BY SeqFacts DEF Has, Positions, At, ToSet

LEMMA HasPath ==
  ASSUME NEW doc \in Docs, NEW p, Has(doc, p)
  PROVE  p = <<>> \/ p \in Paths
BY AtFacts, NodeFacts DEF Docs

LEMMA ElementFacts ==
  ASSUME NEW doc \in Docs, NEW i \in DOMAIN doc
  PROVE  doc[i] \in NodeType /\ doc[i].path \in Paths
BY SeqFacts, NodeFacts DEF Docs

\* A document with other nodes in its places is a document.
LEMMA MappedDoc ==
  ASSUME NEW doc \in Docs, NEW f, DOMAIN f = DOMAIN doc, f = [i \in DOMAIN doc |-> f[i]],
         \A i \in DOMAIN doc : f[i] \in NodeType
  PROVE  f \in Docs /\ Len(f) = Len(doc)
<1>1. Len(doc) \in Nat /\ DOMAIN doc = 1..Len(doc)
  BY SeqFacts DEF Docs
<1>2. f \in [1..Len(doc) -> NodeType]
  BY <1>1
<1> QED
  BY <1>1, <1>2 DEF Docs

LEMMA PickedDoc ==
  ASSUME NEW doc \in Docs, NEW places
  PROVE  Picked(doc, places) \in Docs
BY PickedFacts DEF Docs

LEMMA JoinedDocs ==
  ASSUME NEW d \in Docs, NEW e \in Docs
  PROVE  d \o e \in Docs
BY ConcatProperties DEF Docs

LEMMA OneNode ==
  ASSUME NEW n \in NodeType
  PROVE  <<n>> \in Docs
BY DEF Docs

-----------------------------------------------------------------------------
(* Every operation on a tree makes a tree of it (yaml_tree.go). *)

LEMMA PartsAreDocs ==
  ASSUME NEW doc \in Docs, NEW p
  PROVE  /\ Subtree(doc, p) \in Docs /\ Without(doc, p) \in Docs
         /\ Attached(doc) \in Docs /\ Detached(doc) \in Docs
BY PickedDoc DEF Subtree, Without, Attached, Detached

LEMMA BelowFacts ==
  ASSUME NEW p \in Seq(Segments), NEW q \in Seq(Segments), Below(p, q)
  PROVE  Len(p) <= Len(q) /\ (p # q => Len(p) < Len(q))
<1>1. Len(p) \in Nat /\ Len(q) \in Nat /\ Len(p) <= Len(q)
  BY SeqFacts DEF Below, IsPrefix
<1>2. p = q \/ Len(p) # Len(q)
  BY SubSeqFull DEF Below, IsPrefix
<1> QED
  BY <1>1, <1>2

LEMMA RerootedDoc ==
  ASSUME NEW nodes \in Docs, NEW p \in Seq(Segments), NEW q \in Seq(Segments),
         q # <<>> \/ \A i \in DOMAIN nodes : Len(p) < Len(nodes[i].path)
  PROVE  Rerooted(nodes, p, q) \in Docs
<1>1. ASSUME NEW i \in DOMAIN nodes
      PROVE  q \o SubSeq(nodes[i].path, Len(p) + 1, Len(nodes[i].path)) \in Paths
  <2> DEFINE s == nodes[i].path
             tail == SubSeq(s, Len(p) + 1, Len(s))
  <2>1. s \in Seq(Segments) /\ Len(s) \in Nat /\ Len(p) \in Nat /\ \A k \in 1..Len(s) : s[k] \in Segments
    BY ElementFacts, PathFacts, SeqFacts
  <2> HIDE DEF s
  <2>2. /\ tail \in Seq(Segments)
        /\ Len(tail) = IF Len(p) + 1 <= Len(s) THEN Len(s) - (Len(p) + 1) + 1 ELSE 0
    <3>1. Len(p) + 1 \in Int /\ Len(s) \in Int /\ \A k \in (Len(p) + 1)..Len(s) : s[k] \in Segments
      BY <2>1
    <3> QED
      BY <3>1, SubSeqProperties
  <2>3. q # <<>> \/ tail # <<>>
    <3>1. CASE q # <<>>
      BY <3>1
    <3>2. CASE Len(p) < Len(s)
      <4>1. Len(tail) # 0
        BY <2>1, <2>2, <3>2
      <4> QED
        BY <4>1, EmptySeq
    <3> QED
      BY <3>1, <3>2 DEF s
  <2> HIDE DEF tail
  <2>4. q \o tail \in Paths
    BY <2>2, <2>3, JoinedPath
  <2> QED
    BY <2>4 DEF tail, s
<1> DEFINE R == Rerooted(nodes, p, q)
<1>2. /\ DOMAIN R = DOMAIN nodes /\ R = [i \in DOMAIN nodes |-> R[i]]
      /\ \A i \in DOMAIN nodes : R[i] =
           [nodes[i] EXCEPT !.path = q \o SubSeq(nodes[i].path, Len(p) + 1, Len(nodes[i].path))]
  BY DEF Rerooted
<1>3. ASSUME NEW i \in DOMAIN nodes PROVE R[i] \in NodeType
  <2> DEFINE s == q \o SubSeq(nodes[i].path, Len(p) + 1, Len(nodes[i].path))
  <2>1. s \in Paths /\ nodes[i] \in NodeType
    BY <1>1, ElementFacts
  <2>2. R[i] = [nodes[i] EXCEPT !.path = s]
    BY <1>2
  <2> HIDE DEF R, s
  <2> QED
    BY <2>1, <2>2 DEF NodeType
<1> HIDE DEF R
<1> QED
  BY <1>2, <1>3, MappedDoc DEF R

LEMMA PlacedDoc ==
  ASSUME NEW doc \in Docs, NEW p, NEW nodes \in Docs
  PROVE  Placed(doc, p, nodes) \in Docs
BY PickedDoc, JoinedDocs DEF Placed

LEMMA FoundAnchor ==
  ASSUME NEW doc \in Docs, NEW name
  PROVE  findAnchorNode(doc, name) \in Paths
<1> DEFINE found == {i \in DOMAIN doc : doc[i].anchor = name /\ isAttached(doc[i])}
<1>1. CASE found = {}
  BY <1>1, OffPath DEF findAnchorNode
<1>2. CASE found # {}
  <2>1. found \subseteq Nat
    BY SeqFacts DEF Docs
  <2>2. found \subseteq DOMAIN doc
    OBVIOUS
  <2> HIDE DEF found
  <2>3. Min(found) \in DOMAIN doc
    BY <1>2, <2>1, <2>2, MinIsMember
  <2> QED
    BY <1>2, <2>3, ElementFacts DEF findAnchorNode, found
<1> QED
  BY <1>1, <1>2

LEMMA ResolvedPath ==
  ASSUME NEW doc \in Docs, NEW p \in Paths
  PROVE  resolveAlias(doc, p) \in Paths
<1>1. Has(doc, <<Off, At(doc, p).val>>) => <<Off, At(doc, p).val>> \in Paths
  <2>1. <<Off, At(doc, p).val>> # <<>>
    OBVIOUS
  <2> QED
    BY <2>1, HasPath
<1> QED
  BY <1>1, FoundAnchor DEF resolveAlias

LEMMA DroppedDoc ==
  ASSUME NEW doc \in Docs, NEW p
  PROVE  Dropped(doc, p) \in Docs
<1> DEFINE gone    == Subtree(doc, p)
           rest    == Without(doc, p)
           aliased == {n.val : n \in {m \in ToSet(rest) : m.kind = "alias"}}
           kept    == Picked(gone, {i \in DOMAIN gone : /\ gone[i].anchor \in aliased
                                                        /\ ~Has(rest, <<Off, gone[i].anchor>>)})
           moved(i) == Rerooted(Subtree(gone, kept[i].path), kept[i].path, <<Off, kept[i].anchor>>)
           seqs    == [i \in DOMAIN kept |-> moved(i)]
<1>1. gone \in Docs /\ rest \in Docs
  BY PartsAreDocs
<1>2. kept \in Docs
  <2> HIDE DEF gone, rest, aliased
  <2> QED
    BY <1>1, PickedDoc
<1> HIDE DEF gone, rest, kept
<1>3. ASSUME NEW i \in DOMAIN kept PROVE moved(i) \in Docs
  <2>1. kept[i] \in NodeType /\ kept[i].path \in Seq(Segments) /\ kept[i].anchor \in Words
    BY <1>2, ElementFacts, NodeFacts, PathFacts
  <2>2. <<Off, kept[i].anchor>> \in Seq(Segments) /\ <<Off, kept[i].anchor>> # <<>>
    BY <2>1, OffPath, PathFacts
  <2> QED
    BY <1>1, <2>1, <2>2, PartsAreDocs, RerootedDoc
<1>4. Len(kept) \in Nat /\ DOMAIN kept = 1..Len(kept)
  BY <1>2, SeqFacts DEF Docs
<1> HIDE DEF moved
<1>5. seqs \in Seq(Docs)
  BY <1>3, <1>4
<1> HIDE DEF seqs
<1>6. FlattenSeq(seqs) \in Docs
  BY <1>5, Flattened DEF Docs
<1>7. Dropped(doc, p) = rest \o FlattenSeq(seqs)
  BY DEF Dropped, seqs, moved, kept, rest, gone
<1> QED
  BY <1>1, <1>6, <1>7, JoinedDocs

LEMMA BrokenDoc ==
  ASSUME NEW doc \in Docs, NEW p \in Paths, Has(doc, p)
  PROVE  breakAliasInPlace(doc, p) \in Docs
<1> DEFINE alias  == At(doc, p)
           target == resolveAlias(doc, p)
           nodes  == Rerooted(Subtree(doc, target), target, p)
           top(n) == [n EXCEPT !.anchor = None, !.head = alias.head, !.line = alias.line,
                               !.foot = alias.foot, !.keyAt = alias.keyAt, !.at = alias.at]
           copy   == [i \in DOMAIN nodes |-> IF i = 1 THEN top(nodes[i]) ELSE nodes[i]]
<1>1. alias \in NodeType
  BY AtFacts, PathFacts DEF Docs
<1>2. target \in Paths
  BY ResolvedPath
<1>3. nodes \in Docs
  <2>1. target \in Seq(Segments) /\ p \in Seq(Segments) /\ p # <<>>
    BY <1>2, PathFacts
  <2> QED
    BY <2>1, PartsAreDocs, RerootedDoc
<1>4. \A n \in NodeType : top(n) \in NodeType
  BY <1>1, WordsFacts DEF NodeType
<1> HIDE DEF alias, target, nodes, top
<1>5. \A i \in DOMAIN nodes : copy[i] \in NodeType
  BY <1>3, <1>4, ElementFacts
<1>6. DOMAIN copy = DOMAIN nodes /\ copy = [i \in DOMAIN nodes |-> copy[i]]
  OBVIOUS
<1>7. copy \in Docs
  <2> HIDE DEF copy
  <2> QED
    BY <1>3, <1>5, <1>6, MappedDoc
<1>8. breakAliasInPlace(doc, p) \in {doc, Placed(doc, p, copy)}
  BY DEF breakAliasInPlace, copy, top, nodes, target, alias
<1> QED
  BY <1>7, <1>8, PlacedDoc

LEMMA UnaliasedDoc ==
  ASSUME NEW doc \in Docs, NEW p \in Paths
  PROVE  Unaliased(doc, p) \in Docs
BY BrokenDoc DEF Unaliased

LEMMA BreakAboveDoc ==
  ASSUME NEW doc \in Docs, NEW p \in Paths
  PROVE  BreakAbove(doc, p) \in Docs
<1> DEFINE way == Walk(Parent(p))
           n == Len(way)
           step(d, i) == Unaliased(d, way[i])
           upTo[i \in 0..n] == IF i = 0 THEN doc ELSE step(upTo[i - 1], i)
           IsLoop(f) == f = [i \in 0..n |-> IF i = 0 THEN doc ELSE step(f[i - 1], i)]
           G == [i \in 1..n |-> [d \in Docs |-> step(d, i)]]
<1>1. n \in Nat
  BY PathFacts, WalkFacts, SeqFacts
<1>2. ASSUME NEW d \in Docs, NEW i \in 1..n PROVE step(d, i) \in Docs
  BY PathFacts, WalkFacts, UnaliasedDoc
<1>3. doc \in Docs
  OBVIOUS
<1> HIDE DEF n, step
<1>4. G \in [1..n -> [Docs -> Docs]]
  BY <1>2
<1>5. \A i \in 1..n : \A d \in Docs : G[i][d] = step(d, i)
  OBVIOUS
<1> HIDE DEF G
<1>6. PICK g : IsRun(g, Docs, n, doc, G)
  BY <1>1, <1>3, <1>4, Loop
<1>7. IsLoop(g)
  <2>1. ASSUME NEW i \in 0..n PROVE g[i] = IF i = 0 THEN doc ELSE step(g[i - 1], i)
    <3>1. CASE i = 0
      BY <1>6, <3>1 DEF IsRun
    <3>2. CASE i # 0
      <4>1. i \in 1..n /\ i - 1 \in 0..n
        BY <1>1, <3>2
      <4>2. g[i - 1] \in Docs /\ g[i] = G[i][g[i - 1]]
        BY <1>6, <4>1 DEF IsRun
      <4> QED
        BY <1>5, <3>2, <4>1, <4>2
    <3> QED
      BY <3>1, <3>2
  <2>2. g = [i \in 0..n |-> g[i]]
    BY <1>6 DEF IsRun
  <2> QED
    BY <2>1, <2>2
<1>8. IsLoop(upTo)
  BY <1>7
<1> HIDE DEF upTo
<1>9. \A i \in 0..n : upTo[i] = IF i = 0 THEN doc ELSE step(upTo[i - 1], i)
  BY <1>8
<1>10. upTo[0] \in Docs
  BY <1>1, <1>3, <1>9
<1>11. ASSUME NEW i \in 1..n, upTo[i - 1] \in Docs PROVE upTo[i] \in Docs
  <2>1. i \in 0..n /\ i # 0
    BY <1>1
  <2> QED
    BY <1>2, <1>9, <1>11, <2>1
<1>12. upTo[n] \in Docs
  <2>1. n \in 0..n
    BY <1>1
  <2> QED
    BY <1>1, <1>10, <1>11, <2>1, Stays
<1> QED
  BY <1>12 DEF BreakAbove, upTo, step, n

LEMMA ScalarIsWord ==
  ASSUME NEW doc \in Docs, NEW p
  PROVE  findEffectiveScalar(doc, p) \in Words
<1> DEFINE q == Effective(doc, p)
<1>1. scalarAt(doc, q) \in Words
  <2>1. CASE Has(doc, q) /\ KindAt(doc, q) = "scalar"
    <3>1. q # <<>>
      BY <2>1 DEF KindAt
    <3> HIDE DEF q
    <3>2. At(doc, q) \in NodeType
      BY <2>1, <3>1, AtFacts DEF Docs
    <3> QED
      BY <2>1, <3>2, NodeFacts DEF scalarAt
  <2>2. CASE ~(Has(doc, q) /\ KindAt(doc, q) = "scalar")
    BY <2>2, WordsFacts DEF scalarAt
  <2> QED
    BY <2>1, <2>2
<1> QED
  BY <1>1 DEF findEffectiveScalar

LEMMA LeafKeysArePaths ==
  ASSUME NEW doc \in Docs
  PROVE  collectPhysicalLeafKeys(doc) \in Seq(Paths)
<1> DEFINE paths == [i \in DOMAIN doc |-> doc[i].path]
<1>1. Len(doc) \in Nat /\ DOMAIN doc = 1..Len(doc) /\ \A i \in DOMAIN doc : doc[i].path \in Paths
  BY SeqFacts, ElementFacts DEF Docs
<1>2. paths \in Seq(Paths)
  BY <1>1
<1> HIDE DEF paths
<1> QED
  BY <1>2, PickedFacts DEF collectPhysicalLeafKeys, paths

LEMMA LeafNode ==
  ASSUME NEW doc \in Docs, NEW p \in Paths, NEW val \in Words
  PROVE  leafNodeFromValue(doc, p, val) \in NodeType
<1>1. Has(doc, p) => At(doc, p) \in NodeType
  BY AtFacts, PathFacts DEF Docs
<1>2. Has(doc, p) => [At(doc, p) EXCEPT !.val = val, !.at = 0] \in NodeType
  BY <1>1, NodeEdited
<1>3. Node(p, "scalar", val) \in NodeType
  BY NodeIsNode
<1> QED
  BY <1>2, <1>3 DEF leafNodeFromValue

LEMMA ItemCountIsNat ==
  ASSUME NEW doc \in Docs, NEW p
  PROVE  ItemCount(doc, p) \in Nat
<1> DEFINE S == {i \in DOMAIN doc : Parent(doc[i].path) = p}
<1>1. Len(doc) \in Nat /\ DOMAIN doc = 1..Len(doc)
  BY SeqFacts DEF Docs
<1>2. IsFiniteSet(1..Len(doc))
  BY <1>1, FS_Interval
<1>3. S \subseteq 1..Len(doc)
  BY <1>1
<1> HIDE DEF S
<1>4. IsFiniteSet(S)
  BY <1>2, <1>3, FS_Subset
<1> QED
  BY <1>4, FS_CardinalityType DEF ItemCount, S

LEMMA PaddedDoc ==
  ASSUME NEW doc \in Docs, NEW p \in Paths
  PROVE  Padded(doc, p) \in Docs
<1> DEFINE list == Parent(p)
           have == ItemCount(doc, list)
           size == (Last(p) + 1) - have
           pad(i) == Node(Append(list, have + i - 1), "scalar", Null)
           pads == [i \in 1..size |-> pad(i)]
<1> SUFFICES ASSUME isIndex(Last(p)), ~(Last(p) < have)
             PROVE  Placed(doc, Append(list, have), pads) \in Docs
  BY DEF Padded
<1>1. have \in Nat /\ list \in Seq(Segments) /\ Last(p) \in Nat
  BY ItemCountIsNat, PathFacts DEF isIndex
<1> HIDE DEF have, list
<1>2. size \in Nat
  BY <1>1
<1> HIDE DEF size
<1>3. ASSUME NEW i \in 1..size PROVE pad(i) \in NodeType
  <2>1. have + i - 1 \in Nat
    BY <1>1, <1>2
  <2>2. Append(list, have + i - 1) \in Paths
    BY <1>1, <2>1, WordsFacts, AppendedPath
  <2> QED
    BY <2>2, WordsFacts, NodeIsNode
<1> HIDE DEF pad
<1>4. pads \in Docs
  BY <1>2, <1>3 DEF Docs
<1> QED
  BY <1>4, PlacedDoc

LEMMA KeyedNode ==
  ASSUME NEW doc \in Docs, NEW p \in Paths, NEW node \in NodeType
  PROVE  UnderKey(doc, p, node) \in NodeType
<1> DEFINE k == IF Has(doc, p) THEN At(doc, p).keyAt ELSE 0
<1>1. k \in Nat
  <2>1. Has(doc, p) => At(doc, p) \in NodeType
    BY AtFacts, PathFacts DEF Docs
  <2> QED
    BY <2>1, NodeFacts
<1>2. UnderKey(doc, p, node) = [node EXCEPT !.keyAt = k]
  BY DEF UnderKey
<1> HIDE DEF k
<1> QED
  BY <1>1, <1>2, NodeEdited

LEMMA ReplacedDoc ==
  ASSUME NEW doc \in Docs, NEW p \in Paths, NEW node \in NodeType
  PROVE  Replaced(doc, p, node) \in Docs
<1>1. Detached(Dropped(doc, p)) \in Docs
  BY DroppedDoc, PartsAreDocs
<1>2. Attached(Placed(doc, p, <<UnderKey(doc, p, node)>>)) \in Docs
  BY KeyedNode, OneNode, PlacedDoc, PartsAreDocs
<1> QED
  BY <1>1, <1>2, JoinedDocs DEF Replaced

LEMMA ContainerDoc ==
  ASSUME NEW doc \in Docs, NEW p \in Paths, NEW next
  PROVE  descendOrCreate(doc, p, next) \in Docs
<1>1. \A d \in Docs : \A kind \in {"map", "seq"} : Contained(d, p, kind) \in Docs
  BY WordsFacts, NodeIsNode, ReplacedDoc DEF Contained
<1>2. Unaliased(Padded(doc, p), p) \in Docs
  BY PaddedDoc, UnaliasedDoc
<1> QED
  BY <1>1, <1>2 DEF descendOrCreate

LEMMA SetLeafDoc ==
  ASSUME NEW doc \in Docs, NEW p \in Paths, NEW val \in Words
  PROVE  setLeaf(doc, p, val) \in Docs
<1>1. ASSUME NEW d \in Docs PROVE writeLeaf(d, p, val) \in Docs
  <2>1. Placed(d, p, <<UnderKey(d, p, Node(p, "scalar", val))>>) \in Docs
    BY NodeIsNode, KeyedNode, OneNode, PlacedDoc
  <2>2. Replaced(d, p, leafNodeFromValue(d, p, val)) \in Docs
    BY LeafNode, ReplacedDoc
  <2> QED
    BY <2>1, <2>2 DEF writeLeaf
<1> QED
  BY <1>1, PaddedDoc DEF setLeaf

LEMMA UpsertedDoc ==
  ASSUME NEW doc \in Docs, NEW p \in Paths, NEW val \in Words
  PROVE  upsertPath(doc, p, val) \in Docs
<1> DEFINE way == Walk(Parent(p))
           n == Len(way)
           step(d, i) == IF fits(d, way[i]) THEN descendOrCreate(d, way[i], p[i + 1]) ELSE d
           upTo[i \in 0..n] == IF i = 0 THEN doc ELSE step(upTo[i - 1], i)
           IsLoop(f) == f = [i \in 0..n |-> IF i = 0 THEN doc ELSE step(f[i - 1], i)]
           G == [i \in 1..n |-> [d \in Docs |-> step(d, i)]]
<1>1. n \in Nat
  BY PathFacts, WalkFacts, SeqFacts
<1>2. ASSUME NEW d \in Docs, NEW i \in 1..n PROVE step(d, i) \in Docs
  BY PathFacts, WalkFacts, ContainerDoc
<1>3. doc \in Docs
  OBVIOUS
<1> HIDE DEF n, step
<1>4. G \in [1..n -> [Docs -> Docs]]
  BY <1>2
<1>5. \A i \in 1..n : \A d \in Docs : G[i][d] = step(d, i)
  OBVIOUS
<1> HIDE DEF G
<1>6. PICK g : IsRun(g, Docs, n, doc, G)
  BY <1>1, <1>3, <1>4, Loop
<1>7. IsLoop(g)
  <2>1. ASSUME NEW i \in 0..n PROVE g[i] = IF i = 0 THEN doc ELSE step(g[i - 1], i)
    <3>1. CASE i = 0
      BY <1>6, <3>1 DEF IsRun
    <3>2. CASE i # 0
      <4>1. i \in 1..n /\ i - 1 \in 0..n
        BY <1>1, <3>2
      <4>2. g[i - 1] \in Docs /\ g[i] = G[i][g[i - 1]]
        BY <1>6, <4>1 DEF IsRun
      <4> QED
        BY <1>5, <3>2, <4>1, <4>2
    <3> QED
      BY <3>1, <3>2
  <2>2. g = [i \in 0..n |-> g[i]]
    BY <1>6 DEF IsRun
  <2> QED
    BY <2>1, <2>2
<1>8. IsLoop(upTo)
  BY <1>7
<1> HIDE DEF upTo
<1>9. \A i \in 0..n : upTo[i] = IF i = 0 THEN doc ELSE step(upTo[i - 1], i)
  BY <1>8
<1>10. upTo[0] \in Docs
  BY <1>1, <1>3, <1>9
<1>11. ASSUME NEW i \in 1..n, upTo[i - 1] \in Docs PROVE upTo[i] \in Docs
  <2>1. i \in 0..n /\ i # 0
    BY <1>1
  <2> QED
    BY <1>2, <1>9, <1>11, <2>1
<1>12. upTo[n] \in Docs
  <2>1. n \in 0..n
    BY <1>1
  <2> QED
    BY <1>1, <1>10, <1>11, <2>1, Stays
<1> QED
  BY <1>12, SetLeafDoc DEF upsertPath, upTo, step, n

LEMMA RenumberedDoc ==
  ASSUME NEW doc \in Docs, NEW p \in Paths
  PROVE  Renumbered(doc, p) \in Docs
<1> DEFINE k == Len(p)
           behind(q) == /\ Len(q) >= k
                        /\ SubSeq(q, 1, k - 1) = Parent(p)
                        /\ isIndex(q[k]) /\ q[k] > Last(p)
           lower(q) == [q EXCEPT ![k] = @ - 1]
           next == [i \in DOMAIN doc |-> IF behind(doc[i].path)
                      THEN [doc[i] EXCEPT !.path = lower(doc[i].path)] ELSE doc[i]]
<1> SUFFICES ASSUME isIndex(Last(p)) PROVE next \in Docs
  <2>1. ~isIndex(Last(p)) => Renumbered(doc, p) = doc
    BY DEF Renumbered
  <2>2. isIndex(Last(p)) => Renumbered(doc, p) = next
    BY DEF Renumbered
  <2> QED
    BY <2>1, <2>2
<1>1. Last(p) \in Nat /\ k \in Nat \ {0}
  BY PathFacts DEF isIndex
<1>2. ASSUME NEW q \in Paths, behind(q) PROVE lower(q) \in Paths
  <2>1. q \in Seq(Segments) /\ Len(q) \in Nat /\ k \in 1..Len(q) /\ q[k] \in Nat
    BY <1>1, <1>2, PathFacts, SeqFacts DEF isIndex
  <2>2. q[k] - 1 \in Nat
    BY <1>1, <1>2, <2>1
  <2>3. q[k] - 1 \in Segments
    BY <2>2, WordsFacts
  <2>4. lower(q) \in Seq(Segments) /\ Len(lower(q)) = Len(q)
    BY <2>1, <2>3, ExceptSeq
  <2>5. lower(q) # <<>>
    BY <2>1, <2>4, EmptySeq
  <2> QED
    BY <2>4, <2>5, PathFacts
<1> HIDE DEF behind, lower
<1>3. \A i \in DOMAIN doc : next[i] \in NodeType
  <2> SUFFICES ASSUME NEW i \in DOMAIN doc PROVE next[i] \in NodeType
    OBVIOUS
  <2>1. CASE behind(doc[i].path)
    <3>1. lower(doc[i].path) \in Paths /\ doc[i] \in NodeType
      BY <1>2, <2>1, ElementFacts
    <3>2. [doc[i] EXCEPT !.path = lower(doc[i].path)] \in NodeType
      BY <3>1, NodeEdited
    <3> QED
      BY <2>1, <3>2
  <2>2. CASE ~behind(doc[i].path)
    BY <2>2, ElementFacts
  <2> QED
    BY <2>1, <2>2
<1>4. DOMAIN next = DOMAIN doc /\ next = [i \in DOMAIN doc |-> next[i]]
  OBVIOUS
<1> HIDE DEF next
<1> QED
  BY <1>3, <1>4, MappedDoc

LEMMA DeletedDoc ==
  ASSUME NEW doc \in Docs, NEW p \in Paths
  PROVE  deletePath(doc, p) \in Docs
BY BreakAboveDoc, DroppedDoc, RenumberedDoc DEF deletePath

LEMMA EnsuredDoc ==
  ASSUME NEW doc \in Docs, NEW p \in Paths, NEW val \in Words
  PROVE  EnsurePath(doc, p, val) \in Docs
BY BreakAboveDoc, UpsertedDoc DEF EnsurePath

LEMMA AnchoredDoc ==
  ASSUME NEW doc \in Docs, NEW p, NEW name \in Words
  PROVE  Anchored(doc, p, name) \in Docs
<1> DEFINE next == [i \in DOMAIN doc |->
                      IF doc[i].path = p THEN [doc[i] EXCEPT !.anchor = name] ELSE doc[i]]
<1>1. \A i \in DOMAIN doc : next[i] \in NodeType
  BY ElementFacts, NodeEdited
<1>2. DOMAIN next = DOMAIN doc /\ next = [i \in DOMAIN doc |-> next[i]]
  OBVIOUS
<1> HIDE DEF next
<1> QED
  BY <1>1, <1>2, MappedDoc DEF Anchored, next

LEMMA AnchorSetAndCleared ==
  ASSUME NEW doc \in Docs, NEW p \in Paths, NEW name \in Words
  PROVE  /\ SetNodeAnchor(doc, p, name) \in Docs
         /\ ClearNodeAnchor(doc, p) \in Docs
         /\ ClearNodeAlias(doc, p) \in Docs
BY BreakAboveDoc, AnchoredDoc, UnaliasedDoc, WordsFacts
   DEF SetNodeAnchor, ClearNodeAnchor, ClearNodeAlias

LEMMA AliasSet ==
  ASSUME NEW doc \in Docs, NEW p \in Paths, NEW name \in Words
  PROVE  SetNodeAlias(doc, p, name) \in Docs
<1> DEFINE d == BreakAbove(doc, p)
           n == At(d, p)
           node == [n EXCEPT !.kind = "alias", !.style = "plain", !.val = name, !.anchor = None,
                             !.at = 0]
<1>1. d \in Docs
  BY BreakAboveDoc
<1> HIDE DEF d
<1>2. ASSUME Has(d, p) PROVE Replaced(d, p, node) \in Docs
  <2>1. n \in NodeType
    BY <1>1, <1>2, AtFacts, PathFacts DEF Docs
  <2> HIDE DEF n
  <2>2. node \in NodeType
    BY <2>1, WordsFacts DEF NodeType
  <2> HIDE DEF node
  <2> QED
    BY <1>1, <2>2, ReplacedDoc
<1> HIDE DEF node, n
<1> QED
  BY <1>1, <1>2 DEF SetNodeAlias, d, n, node

LEMMA RenamedDoc ==
  ASSUME NEW doc \in Docs, NEW old, NEW new \in Words
  PROVE  RenameAnchor(doc, old, new) \in Docs
<1> DEFINE named(n) == IF n.anchor = old THEN [n EXCEPT !.anchor = new] ELSE n
           renamed(n) == IF n.kind = "alias" /\ n.val = old THEN [n EXCEPT !.val = new]
                         ELSE IF Len(n.path) > 1 /\ n.path[1] = Off /\ n.path[2] = old
                         THEN [named(n) EXCEPT !.path[2] = new]
                         ELSE named(n)
           next == [i \in DOMAIN doc |-> renamed(doc[i])]
<1>1. ASSUME NEW n \in NodeType PROVE renamed(n) \in NodeType
  <2>1. named(n) \in NodeType /\ named(n).path = n.path
    BY NodeEdited DEF NodeType
  <2>2. [n EXCEPT !.val = new] \in NodeType
    BY NodeEdited
  <2>3. ASSUME Len(n.path) > 1 PROVE [named(n) EXCEPT !.path[2] = new] \in NodeType
    <3>1. n.path \in Seq(Segments) /\ 2 \in 1..Len(n.path) /\ new \in Segments
      BY <2>3, NodeFacts, PathFacts, WordsFacts
    <3>2. [n.path EXCEPT ![2] = new] \in Seq(Segments)
          /\ Len([n.path EXCEPT ![2] = new]) = Len(n.path)
      BY <3>1, ExceptSeq
    <3>3. [n.path EXCEPT ![2] = new] \in Paths
      <4>1. [n.path EXCEPT ![2] = new] # <<>>
        BY <3>1, <3>2, EmptySeq
      <4> QED
        BY <3>2, <4>1, PathFacts
    <3> HIDE DEF named
    <3>4. [named(n) EXCEPT !.path[2] = new] = [named(n) EXCEPT !.path = [n.path EXCEPT ![2] = new]]
      BY <2>1
    <3> QED
      BY <2>1, <3>3, <3>4, NodeEdited
  <2> HIDE DEF named
  <2> QED
    BY <2>1, <2>2, <2>3
<1>2. RenameAnchor(doc, old, new) \in {doc, next}
  BY DEF RenameAnchor
<1> HIDE DEF renamed
<1>3. \A i \in DOMAIN doc : next[i] \in NodeType
  BY <1>1, ElementFacts
<1>4. DOMAIN next = DOMAIN doc /\ next = [i \in DOMAIN doc |-> next[i]]
  OBVIOUS
<1> HIDE DEF next
<1> QED
  BY <1>2, <1>3, <1>4, MappedDoc

LEMMA AnchorDeleted ==
  ASSUME NEW doc \in Docs, NEW name
  PROVE  DeleteAnchor(doc, name) \in Docs
<1> DEFINE aliases == Picked(doc, {i \in DOMAIN doc : doc[i].kind = "alias" /\ doc[i].val = name})
           n == Len(aliases)
           step(d, i) == Unaliased(d, aliases[i].path)
           upTo[i \in 0..n] == IF i = 0 THEN doc ELSE step(upTo[i - 1], i)
           IsLoop(f) == f = [i \in 0..n |-> IF i = 0 THEN doc ELSE step(f[i - 1], i)]
           G == [i \in 1..n |-> [d \in Docs |-> step(d, i)]]
<1>1. n \in Nat
  <2>1. aliases \in Docs
    BY PickedDoc
  <2> QED
    BY <2>1, SeqFacts DEF Docs
<1>2. ASSUME NEW d \in Docs, NEW i \in 1..n PROVE step(d, i) \in Docs
  <2>1. aliases \in Docs
    BY PickedDoc
  <2> HIDE DEF aliases
  <2>2. aliases[i].path \in Paths
    BY <2>1, SeqFacts, ElementFacts DEF Docs
  <2> QED
    BY <2>2, UnaliasedDoc
<1>3. doc \in Docs
  OBVIOUS
<1> HIDE DEF n, step
<1>4. G \in [1..n -> [Docs -> Docs]]
  BY <1>2
<1>5. \A i \in 1..n : \A d \in Docs : G[i][d] = step(d, i)
  OBVIOUS
<1> HIDE DEF G
<1>6. PICK g : IsRun(g, Docs, n, doc, G)
  BY <1>1, <1>3, <1>4, Loop
<1>7. IsLoop(g)
  <2>1. ASSUME NEW i \in 0..n PROVE g[i] = IF i = 0 THEN doc ELSE step(g[i - 1], i)
    <3>1. CASE i = 0
      BY <1>6, <3>1 DEF IsRun
    <3>2. CASE i # 0
      <4>1. i \in 1..n /\ i - 1 \in 0..n
        BY <1>1, <3>2
      <4>2. g[i - 1] \in Docs /\ g[i] = G[i][g[i - 1]]
        BY <1>6, <4>1 DEF IsRun
      <4> QED
        BY <1>5, <3>2, <4>1, <4>2
    <3> QED
      BY <3>1, <3>2
  <2>2. g = [i \in 0..n |-> g[i]]
    BY <1>6 DEF IsRun
  <2> QED
    BY <2>1, <2>2
<1>8. IsLoop(upTo)
  BY <1>7
<1> HIDE DEF upTo
<1>9. \A i \in 0..n : upTo[i] = IF i = 0 THEN doc ELSE step(upTo[i - 1], i)
  BY <1>8
<1>10. upTo[0] \in Docs
  BY <1>1, <1>3, <1>9
<1>11. ASSUME NEW i \in 1..n, upTo[i - 1] \in Docs PROVE upTo[i] \in Docs
  <2>1. i \in 0..n /\ i # 0
    BY <1>1
  <2> QED
    BY <1>2, <1>9, <1>11, <2>1
<1>12. upTo[n] \in Docs
  <2>1. n \in 0..n
    BY <1>1
  <2> QED
    BY <1>1, <1>10, <1>11, <2>1, Stays
<1> QED
  BY <1>12, AnchoredDoc, WordsFacts DEF DeleteAnchor, upTo, step, n

-----------------------------------------------------------------------------
(* Reading a document: what a reader gets is a saying of paths and words. *)

LEMMA MergedDoc ==
  ASSUME NEW doc \in Docs, NEW p \in Paths, NEW src \in Paths
  PROVE  MergedFrom(doc, p, src) \in Docs
<1> DEFINE here(q) == Parent(p) \o SubSeq(q, Len(src) + 1, Len(q))
           new == {i \in DOMAIN doc : /\ Below(src, doc[i].path) /\ doc[i].path # src
                                      /\ ~Has(doc, here(doc[i].path))}
           nodes == Picked(doc, new)
<1> HIDE DEF here
<1>1. nodes \in Docs /\ \A x : x \in ToSet(nodes) <=> \E j \in 1..Len(doc) : j \in new /\ x = doc[j]
  <2> HIDE DEF new
  <2> QED
    BY PickedFacts DEF Docs
<1>2. ASSUME NEW i \in DOMAIN nodes PROVE Len(src) < Len(nodes[i].path)
  <2>1. nodes[i] \in ToSet(nodes)
    BY DEF ToSet
  <2> HIDE DEF nodes
  <2>2. PICK j \in 1..Len(doc) : j \in new /\ nodes[i] = doc[j]
    BY <1>1, <2>1
  <2>3. Below(src, doc[j].path) /\ doc[j].path # src /\ doc[j].path \in Paths
    BY <2>2, SeqFacts, ElementFacts DEF Docs
  <2> HIDE DEF new
  <2> QED
    BY <2>2, <2>3, BelowFacts, PathFacts
<1> HIDE DEF nodes, new
<1>3. src \in Seq(Segments) /\ Parent(p) \in Seq(Segments)
  BY PathFacts
<1>4. Rerooted(nodes, src, Parent(p)) \in Docs
  BY <1>1, <1>2, <1>3, RerootedDoc
<1>5. Without(doc, p) \in Docs
  BY PartsAreDocs
<1>6. MergedFrom(doc, p, src) = Without(doc, p) \o Rerooted(nodes, src, Parent(p))
  BY DEF MergedFrom, nodes, new, here
<1> QED
  BY <1>4, <1>5, <1>6, JoinedDocs

LEMMA AllMergedDoc ==
  ASSUME NEW doc \in Docs
  PROVE  AllMerged(doc) \in Docs
<1> DEFINE n == Len(doc)
           step(d, i) == IF isMerge(doc[i].path) THEN MergedFrom(d, doc[i].path, resolveAlias(d, doc[i].path)) ELSE d
           upTo[i \in 0..n] == IF i = 0 THEN doc ELSE step(upTo[i - 1], i)
           IsLoop(f) == f = [i \in 0..n |-> IF i = 0 THEN doc ELSE step(f[i - 1], i)]
           G == [i \in 1..n |-> [d \in Docs |-> step(d, i)]]
<1>1. n \in Nat
  BY SeqFacts DEF Docs
<1>2. ASSUME NEW d \in Docs, NEW i \in 1..n PROVE step(d, i) \in Docs
  <2>1. doc[i].path \in Paths
    BY SeqFacts, ElementFacts DEF Docs
  <2> QED
    BY <2>1, ResolvedPath, MergedDoc
<1>3. doc \in Docs
  OBVIOUS
<1> HIDE DEF n, step
<1>4. G \in [1..n -> [Docs -> Docs]]
  BY <1>2
<1>5. \A i \in 1..n : \A d \in Docs : G[i][d] = step(d, i)
  OBVIOUS
<1> HIDE DEF G
<1>6. PICK g : IsRun(g, Docs, n, doc, G)
  BY <1>1, <1>3, <1>4, Loop
<1>7. IsLoop(g)
  <2>1. ASSUME NEW i \in 0..n PROVE g[i] = IF i = 0 THEN doc ELSE step(g[i - 1], i)
    <3>1. CASE i = 0
      BY <1>6, <3>1 DEF IsRun
    <3>2. CASE i # 0
      <4>1. i \in 1..n /\ i - 1 \in 0..n
        BY <1>1, <3>2
      <4>2. g[i - 1] \in Docs /\ g[i] = G[i][g[i - 1]]
        BY <1>6, <4>1 DEF IsRun
      <4> QED
        BY <1>5, <3>2, <4>1, <4>2
    <3> QED
      BY <3>1, <3>2
  <2>2. g = [i \in 0..n |-> g[i]]
    BY <1>6 DEF IsRun
  <2> QED
    BY <2>1, <2>2
<1>8. IsLoop(upTo)
  BY <1>7
<1> HIDE DEF upTo
<1>9. \A i \in 0..n : upTo[i] = IF i = 0 THEN doc ELSE step(upTo[i - 1], i)
  BY <1>8
<1>10. upTo[0] \in Docs
  BY <1>1, <1>3, <1>9
<1>11. ASSUME NEW i \in 1..n, upTo[i - 1] \in Docs PROVE upTo[i] \in Docs
  <2>1. i \in 0..n /\ i # 0
    BY <1>1
  <2> QED
    BY <1>2, <1>9, <1>11, <2>1
<1>12. upTo[n] \in Docs
  <2>1. n \in 0..n
    BY <1>1
  <2> QED
    BY <1>1, <1>10, <1>11, <2>1, Stays
<1> QED
  BY <1>12 DEF AllMerged, upTo, step, n

LEMMA AliasesCopiedDoc ==
  ASSUME NEW doc \in Docs
  PROVE  AliasesCopied(doc) \in Docs
<1> DEFINE nodes == Attached(doc)
           n == Len(nodes)
           step(d, i) == IF nodes[i].kind = "alias" /\ ~isMerge(nodes[i].path) THEN Unaliased(d, nodes[i].path) ELSE d
           upTo[i \in 0..n] == IF i = 0 THEN doc ELSE step(upTo[i - 1], i)
           IsLoop(f) == f = [i \in 0..n |-> IF i = 0 THEN doc ELSE step(f[i - 1], i)]
           G == [i \in 1..n |-> [d \in Docs |-> step(d, i)]]
<1>1. n \in Nat
  BY PartsAreDocs, SeqFacts DEF Docs
<1>2. ASSUME NEW d \in Docs, NEW i \in 1..n PROVE step(d, i) \in Docs
  <2>1. nodes \in Docs
    BY PartsAreDocs
  <2> HIDE DEF nodes
  <2>2. nodes[i].path \in Paths
    BY <2>1, SeqFacts, ElementFacts DEF Docs
  <2> QED
    BY <2>2, UnaliasedDoc
<1>3. doc \in Docs
  OBVIOUS
<1> HIDE DEF n, step
<1>4. G \in [1..n -> [Docs -> Docs]]
  BY <1>2
<1>5. \A i \in 1..n : \A d \in Docs : G[i][d] = step(d, i)
  OBVIOUS
<1> HIDE DEF G
<1>6. PICK g : IsRun(g, Docs, n, doc, G)
  BY <1>1, <1>3, <1>4, Loop
<1>7. IsLoop(g)
  <2>1. ASSUME NEW i \in 0..n PROVE g[i] = IF i = 0 THEN doc ELSE step(g[i - 1], i)
    <3>1. CASE i = 0
      BY <1>6, <3>1 DEF IsRun
    <3>2. CASE i # 0
      <4>1. i \in 1..n /\ i - 1 \in 0..n
        BY <1>1, <3>2
      <4>2. g[i - 1] \in Docs /\ g[i] = G[i][g[i - 1]]
        BY <1>6, <4>1 DEF IsRun
      <4> QED
        BY <1>5, <3>2, <4>1, <4>2
    <3> QED
      BY <3>1, <3>2
  <2>2. g = [i \in 0..n |-> g[i]]
    BY <1>6 DEF IsRun
  <2> QED
    BY <2>1, <2>2
<1>8. IsLoop(upTo)
  BY <1>7
<1> HIDE DEF upTo
<1>9. \A i \in 0..n : upTo[i] = IF i = 0 THEN doc ELSE step(upTo[i - 1], i)
  BY <1>8
<1>10. upTo[0] \in Docs
  BY <1>1, <1>3, <1>9
<1>11. ASSUME NEW i \in 1..n, upTo[i - 1] \in Docs PROVE upTo[i] \in Docs
  <2>1. i \in 0..n /\ i # 0
    BY <1>1
  <2> QED
    BY <1>2, <1>9, <1>11, <2>1
<1>12. upTo[n] \in Docs
  <2>1. n \in 0..n
    BY <1>1
  <2> QED
    BY <1>1, <1>10, <1>11, <2>1, Stays
<1> QED
  BY <1>12 DEF AliasesCopied, upTo, step, n

LEMMA ExpandedDoc ==
  ASSUME NEW doc \in Docs
  PROVE  Expanded(doc) \in Docs
BY AliasesCopiedDoc, AllMergedDoc DEF Expanded

LEMMA ValuesAreWords ==
  ASSUME NEW nodes, nodes \subseteq NodeType
  PROVE  IsSaying(valuesOf(nodes))
<1> DEFINE v == valuesOf(nodes)
           D == {n.path : n \in nodes}
           its(p) == CHOOSE m \in nodes : m.path = p
<1>1. \A p \in D : p \in Paths /\ its(p) \in nodes
  BY NodeFacts
<1>2. \A p \in D : its(p).val \in Words /\ None \in Words /\ Empty \in Words
  BY <1>1, NodeFacts, WordsFacts
<1> HIDE DEF its
<1>3. DOMAIN v = D /\ \A p \in D : v[p] \in {its(p).val, None, Empty}
  BY DEF valuesOf, its
<1> QED
  BY <1>1, <1>2, <1>3 DEF IsSaying

LEMMA FlattenedValues ==
  ASSUME NEW doc \in Docs
  PROVE  IsSaying(flattenValues(doc))
<1>1. Expanded(Attached(doc)) \in Docs
  BY PartsAreDocs, ExpandedDoc
<1>2. ToSet(Expanded(Attached(doc))) \subseteq NodeType
  BY <1>1, SeqFacts DEF Docs
<1> QED
  BY <1>2, ValuesAreWords DEF flattenValues

-----------------------------------------------------------------------------
(* Every way a save writes a file makes a text of it (yaml_splice.go,       *)
(* yaml_serialize.go, yaml_substitute.go).                                  *)

Lines == Seq(LineType)

EntryType == [key : Paths, val : Words, head : Words, line : Words, null : BOOLEAN]

AreDocs(docs) ==
    /\ DOMAIN docs = {"banner", "foots", "heads"}
    /\ docs.banner \in Words /\ IsSaying(docs.foots) /\ IsSaying(docs.heads)

LEMMA LineFacts ==
  ASSUME NEW n \in LineType
  PROVE  /\ n.path \in Paths /\ n.kind \in {"map", "seq", "scalar", "alias"} /\ n.val \in Words
         /\ n.style \in {"plain", "quoted", "block"} /\ n.anchor \in Words
         /\ n.head \in Words /\ n.line \in Words /\ n.foot \in Words
         /\ n.blank \in BOOLEAN
BY DEF LineType

LEMMA LineEdited ==
  ASSUME NEW n \in LineType
  PROVE  /\ \A w \in Words : [n EXCEPT !.val = w] \in LineType
         /\ \A v, w \in Words : [n EXCEPT !.head = v, !.foot = w, !.blank = FALSE] \in LineType
         /\ \A b \in BOOLEAN : [n EXCEPT !.blank = b] \in LineType
BY DEF LineType

LEMMA TextFacts ==
  ASSUME NEW text \in TextType
  PROVE  /\ text.banner \in Words /\ text.lines \in Lines
         /\ \A lines \in Lines : [text EXCEPT !.lines = lines] \in TextType
         /\ [text EXCEPT !.coding = "plain"] \in TextType
BY DEF TextType, Lines

LEMMA MappedLines ==
  ASSUME NEW lines \in Lines, NEW f, DOMAIN f = DOMAIN lines, f = [i \in DOMAIN lines |-> f[i]],
         \A i \in DOMAIN lines : f[i] \in LineType
  PROVE  f \in Lines /\ Len(f) = Len(lines)
<1>1. Len(lines) \in Nat /\ DOMAIN lines = 1..Len(lines)
  BY SeqFacts DEF Lines
<1>2. f \in [1..Len(lines) -> LineType]
  BY <1>1
<1> QED
  BY <1>1, <1>2 DEF Lines

LEMMA LineOfLines ==
  ASSUME NEW lines \in Lines
  PROVE  /\ \A i \in DOMAIN lines : lines[i] \in LineType /\ lines[i].path \in Paths
         /\ \A p \in Keys(lines) : /\ p \in Paths /\ Has(lines, p)
                                   /\ At(lines, p) \in LineType /\ At(lines, p).path = p
<1>1. \A i \in DOMAIN lines : lines[i] \in LineType /\ lines[i].path \in Paths
  BY SeqFacts, LineFacts DEF Lines
<1>2. ASSUME NEW p \in Keys(lines)
      PROVE  p \in Paths /\ Has(lines, p) /\ At(lines, p) \in LineType /\ At(lines, p).path = p
  <2>1. PICK i \in DOMAIN lines : lines[i].path = p
    BY DEF Keys, ToSet
  <2>2. p \in Paths /\ Has(lines, p)
    BY <1>1, <2>1 DEF Has, Positions
  <2> QED
    BY <2>2, AtFacts, PathFacts DEF Lines
<1> QED
  BY <1>1, <1>2

LEMMA NodesDoc ==
  ASSUME NEW lines \in Lines
  PROVE  Nodes(lines) \in Docs /\ DOMAIN Nodes(lines) = DOMAIN lines
<1>1. Len(lines) \in Nat /\ DOMAIN lines = 1..Len(lines)
  BY SeqFacts DEF Lines
<1>2. \A i \in DOMAIN lines : Nodes(lines)[i] \in NodeType
  <2> SUFFICES ASSUME NEW i \in DOMAIN lines PROVE Nodes(lines)[i] \in NodeType
    OBVIOUS
  <2>1. lines[i] \in LineType /\ i \in Nat
    BY <1>1, LineOfLines
  <2> QED
    BY <2>1, LineFacts DEF Nodes, NodeType
<1>3. Nodes(lines) = [i \in 1..Len(lines) |-> Nodes(lines)[i]]
  BY <1>1 DEF Nodes
<1>4. DOMAIN Nodes(lines) = DOMAIN lines
  BY DEF Nodes
<1>5. Nodes(lines) \in [1..Len(lines) -> NodeType]
  BY <1>1, <1>2, <1>3
<1> QED
  BY <1>1, <1>4, <1>5 DEF Docs

LEMMA LoadedComments ==
  ASSUME NEW lines \in Lines
  PROVE  IsSaying(parseComments(lines))
<1>1. ASSUME NEW p \in DOMAIN parseComments(lines)
      PROVE  p \in Paths /\ parseComments(lines)[p] \in Words
  <2>1. p \in Keys(lines) /\ parseComments(lines)[p] = bestComment(At(lines, p))
    BY DEF parseComments, Keys
  <2>2. p \in Paths /\ At(lines, p) \in LineType
    BY <2>1, LineOfLines
  <2>3. bestComment(At(lines, p)) \in Words
    BY <2>2, LineFacts DEF bestComment
  <2> QED
    BY <2>1, <2>2, <2>3
<1> QED
  BY <1>1 DEF IsSaying

LEMMA NothingSaid ==
  IsSaying(<<>>)
BY DEF IsSaying

LEMMA LoadedDocs ==
  ASSUME NEW text \in TextType
  PROVE  AreDocs(parseOrphanComments(text))
<1> DEFINE foots == parseOrphanComments(text).foots
<1>1. ASSUME NEW p \in DOMAIN foots PROVE p \in Paths /\ foots[p] \in Words
  <2>1. p \in Keys(text.lines) /\ foots[p] = At(text.lines, p).foot
    BY DEF parseOrphanComments, Keys
  <2>2. p \in Paths /\ At(text.lines, p) \in LineType
    BY <2>1, TextFacts, LineOfLines
  <2> QED
    BY <2>1, <2>2, LineFacts
<1>2. IsSaying(foots)
  <2> HIDE DEF foots
  <2> QED
    BY <1>1 DEF IsSaying
<1>3. /\ DOMAIN parseOrphanComments(text) = {"banner", "foots", "heads"}
      /\ parseOrphanComments(text).banner = text.banner
      /\ parseOrphanComments(text).heads = <<>>
  BY DEF parseOrphanComments
<1> QED
  BY <1>2, <1>3, NothingSaid, TextFacts DEF AreDocs

-----------------------------------------------------------------------------

\* The edits of the splice that hit line i of the source, in their order.
EditsOf(doc, written, i) ==
    {k \in {j \in DOMAIN written : ~isNoEdit(doc, written[j])} : At(doc, written[k].key).at = i}

LEMMA LastEdit ==
  ASSUME NEW doc, NEW written \in Seq(EntryType), NEW i, EditsOf(doc, written, i) # {}
  PROVE  Max(EditsOf(doc, written, i)) \in EditsOf(doc, written, i)
<1>1. Len(written) \in Nat /\ DOMAIN written = 1..Len(written)
  BY SeqFacts
<1>2. EditsOf(doc, written, i) \subseteq 0..Len(written)
  BY <1>1 DEF EditsOf
<1> QED
  BY <1>1, <1>2, MaxIsMember

LEMMA SplicedLine ==
  ASSUME NEW n \in LineType, NEW val \in Words
  PROVE  Spliced(n, val) \in LineType
BY WordsFacts DEF Spliced, LineType

LEMMA SplicedText ==
  ASSUME NEW text \in TextType, NEW doc, NEW written \in Seq(EntryType)
  PROVE  SpliceScalarValues(text, doc, written) \in TextType
<1> DEFINE lines == text.lines
           hits(i) == EditsOf(doc, written, i)
           next == [i \in DOMAIN lines |->
                      IF hits(i) = {} THEN lines[i] ELSE Spliced(lines[i], written[Max(hits(i))].val)]
<1>1. lines \in Lines
  BY TextFacts
<1>2. SpliceScalarValues(text, doc, written) = [text EXCEPT !.lines = next]
  BY DEF SpliceScalarValues, EditsOf
<1> HIDE DEF lines
<1>3. ASSUME NEW i \in DOMAIN lines PROVE next[i] \in LineType
  <2>1. lines[i] \in LineType
    BY <1>1, LineOfLines
  <2>2. CASE hits(i) = {}
    BY <2>1, <2>2
  <2>3. CASE hits(i) # {}
    <3>1. Max(hits(i)) \in hits(i)
      BY <2>3, LastEdit
    <3>2. Max(hits(i)) \in DOMAIN written
      BY <3>1 DEF EditsOf
    <3>3. written[Max(hits(i))] \in EntryType
      <4> DEFINE k == Max(hits(i))
      <4> HIDE DEF k
      <4>1. k \in DOMAIN written
        BY <3>2 DEF k
      <4>2. written[k] \in EntryType
        BY <4>1, SeqFacts
      <4> QED
        BY <4>2 DEF k
    <3>4. written[Max(hits(i))].val \in Words
      BY <3>3 DEF EntryType
    <3> HIDE DEF hits
    <3> QED
      BY <2>1, <2>3, <3>4, SplicedLine
  <2> QED
    BY <2>2, <2>3
<1>4. DOMAIN next = DOMAIN lines /\ next = [i \in DOMAIN lines |-> next[i]]
  OBVIOUS
<1> HIDE DEF next
<1>5. next \in Lines
  BY <1>1, <1>3, <1>4, MappedLines
<1> QED
  BY <1>2, <1>5, TextFacts

LEMMA CommentedDoc ==
  ASSUME NEW doc \in Docs, NEW e \in EntryType
  PROVE  applyOverrideComments(doc, e) \in Docs
<1> DEFINE d == BreakAbove(doc, e.key)
           next == [i \in DOMAIN d |-> IF d[i].path = e.key
                                       THEN [d[i] EXCEPT !.head = e.head, !.line = e.line] ELSE d[i]]
<1>1. e.key \in Paths /\ e.head \in Words /\ e.line \in Words
  BY DEF EntryType
<1>2. d \in Docs
  BY <1>1, BreakAboveDoc
<1> HIDE DEF d
<1>3. \A i \in DOMAIN d : next[i] \in NodeType
  BY <1>1, <1>2, ElementFacts, NodeEdited
<1>4. DOMAIN next = DOMAIN d /\ next = [i \in DOMAIN d |-> next[i]]
  OBVIOUS
<1> HIDE DEF next
<1> QED
  BY <1>2, <1>3, <1>4, MappedDoc DEF applyOverrideComments, next, d

LEMMA FootedDoc ==
  ASSUME NEW doc \in Docs, NEW says, IsSaying(says)
  PROVE  applyDocFoots(doc, says) \in Docs /\ applySectionHeads(doc, says) \in Docs
<1> DEFINE foot == [i \in DOMAIN doc |-> IF doc[i].path \in DOMAIN says
                                         THEN [doc[i] EXCEPT !.foot = says[doc[i].path]] ELSE doc[i]]
           head == [i \in DOMAIN doc |-> IF doc[i].path \in DOMAIN says
                                         THEN [doc[i] EXCEPT !.head = says[doc[i].path]] ELSE doc[i]]
<1>1. \A p \in DOMAIN says : says[p] \in Words
  BY DEF IsSaying
<1>2. \A i \in DOMAIN doc : foot[i] \in NodeType /\ head[i] \in NodeType
  BY <1>1, ElementFacts, NodeEdited
<1>3. /\ DOMAIN foot = DOMAIN doc /\ foot = [i \in DOMAIN doc |-> foot[i]]
      /\ DOMAIN head = DOMAIN doc /\ head = [i \in DOMAIN doc |-> head[i]]
  OBVIOUS
<1> HIDE DEF foot, head
<1>4. foot \in Docs /\ head \in Docs
  BY <1>2, <1>3, MappedDoc
<1> QED
  BY <1>4 DEF applyDocFoots, applySectionHeads, foot, head

LEMMA EncodedText ==
  ASSUME NEW doc \in Docs, NEW docs, docs.banner \in Words
  PROVE  Encode(doc, docs) \in TextType
<1> DEFINE written == Attached(doc)
           line(n) ==
             [path |-> n.path, kind |-> n.kind, style |-> n.style, anchor |-> n.anchor,
              head |-> n.head, foot |-> n.foot,
              val |-> IF ~(n.kind \in {"map", "seq"}) THEN n.val
                      ELSE IF NoChildren(written, n.path) THEN Empty ELSE None,
              line |-> IF ~(n.kind \in {"map", "seq"}) /\ n.val = Null THEN None ELSE n.line,
              blank |-> FALSE, bytes |-> "encoder"]
           lines == [i \in DOMAIN written |-> line(written[i])]
<1>1. written \in Docs
  BY PartsAreDocs
<1>2. Encode(doc, docs) = [banner |-> docs.banner, coding |-> "plain", lines |-> lines]
  BY DEF Encode
<1> HIDE DEF written
<1>3. ASSUME NEW n \in NodeType PROVE line(n) \in LineType
  BY NodeFacts, WordsFacts DEF LineType
<1>4. Len(written) \in Nat /\ DOMAIN written = 1..Len(written)
  BY <1>1, SeqFacts DEF Docs
<1> HIDE DEF line
<1>5. \A i \in DOMAIN written : lines[i] \in LineType
  BY <1>1, <1>3, ElementFacts
<1>6. lines \in Lines
  BY <1>4, <1>5 DEF Lines
<1> HIDE DEF lines
<1> QED
  BY <1>2, <1>6 DEF TextType, Lines

LEMMA FreshText ==
  ASSUME NEW entriesOf \in Seq(EntryType), NEW docs, AreDocs(docs)
  PROVE  FlatEntriesToYAML(entriesOf, docs) \in TextType
<1> DEFINE none == <<>>
           n == Len(entriesOf)
           step(d, i) == applyOverrideComments(upsertPath(d, entriesOf[i].key, entriesOf[i].val), entriesOf[i])
           upTo[i \in 0..n] == IF i = 0 THEN none ELSE step(upTo[i - 1], i)
           IsLoop(f) == f = [i \in 0..n |-> IF i = 0 THEN none ELSE step(f[i - 1], i)]
           G == [i \in 1..n |-> [d \in Docs |-> step(d, i)]]
<1>1. n \in Nat
  BY SeqFacts
<1>2. ASSUME NEW d \in Docs, NEW i \in 1..n PROVE step(d, i) \in Docs
  <2>1. entriesOf[i] \in EntryType
    BY SeqFacts
  <2>2. entriesOf[i].key \in Paths /\ entriesOf[i].val \in Words
    BY <2>1 DEF EntryType
  <2> QED
    BY <2>1, <2>2, UpsertedDoc, CommentedDoc
<1>3. none \in Docs
  BY EmptySeq DEF Docs
<1> HIDE DEF n, step, none
<1>4. G \in [1..n -> [Docs -> Docs]]
  BY <1>2
<1>5. \A i \in 1..n : \A d \in Docs : G[i][d] = step(d, i)
  OBVIOUS
<1> HIDE DEF G
<1>6. PICK g : IsRun(g, Docs, n, none, G)
  BY <1>1, <1>3, <1>4, Loop
<1>7. IsLoop(g)
  <2>1. ASSUME NEW i \in 0..n PROVE g[i] = IF i = 0 THEN none ELSE step(g[i - 1], i)
    <3>1. CASE i = 0
      BY <1>6, <3>1 DEF IsRun
    <3>2. CASE i # 0
      <4>1. i \in 1..n /\ i - 1 \in 0..n
        BY <1>1, <3>2
      <4>2. g[i - 1] \in Docs /\ g[i] = G[i][g[i - 1]]
        BY <1>6, <4>1 DEF IsRun
      <4> QED
        BY <1>5, <3>2, <4>1, <4>2
    <3> QED
      BY <3>1, <3>2
  <2>2. g = [i \in 0..n |-> g[i]]
    BY <1>6 DEF IsRun
  <2> QED
    BY <2>1, <2>2
<1>8. IsLoop(upTo)
  BY <1>7
<1> HIDE DEF upTo
<1>9. \A i \in 0..n : upTo[i] = IF i = 0 THEN none ELSE step(upTo[i - 1], i)
  BY <1>8
<1>10. upTo[0] \in Docs
  BY <1>1, <1>3, <1>9
<1>11. ASSUME NEW i \in 1..n, upTo[i - 1] \in Docs PROVE upTo[i] \in Docs
  <2>1. i \in 0..n /\ i # 0
    BY <1>1
  <2> QED
    BY <1>2, <1>9, <1>11, <2>1
<1>12. upTo[n] \in Docs
  <2>1. n \in 0..n
    BY <1>1
  <2> QED
    BY <1>1, <1>10, <1>11, <2>1, Stays
<1> QED
  <2> DEFINE last == applySectionHeads(applyDocFoots(upTo[n], docs.foots), docs.heads)
  <2>1. last \in Docs
    BY <1>12, FootedDoc DEF AreDocs
  <2>2. FlatEntriesToYAML(entriesOf, docs) = Encode(last, docs)
    BY DEF FlatEntriesToYAML, upTo, step, n, none
  <2> HIDE DEF last
  <2> QED
    BY <2>1, <2>2, EncodedText DEF AreDocs

LEMMA StaleDoc ==
  ASSUME NEW doc \in Docs, NEW wanted
  PROVE  DeleteStale(doc, wanted) \in Docs
<1> DEFINE found == collectPhysicalLeafKeys(doc)
           n == Len(found)
           step(d, i) == IF found[i] \in wanted THEN d ELSE deletePath(d, found[i])
           upTo[i \in 0..n] == IF i = 0 THEN doc ELSE step(upTo[i - 1], i)
           IsLoop(f) == f = [i \in 0..n |-> IF i = 0 THEN doc ELSE step(f[i - 1], i)]
           G == [i \in 1..n |-> [d \in Docs |-> step(d, i)]]
<1>1. n \in Nat
  BY LeafKeysArePaths, SeqFacts
<1>2. ASSUME NEW d \in Docs, NEW i \in 1..n PROVE step(d, i) \in Docs
  <2>1. found[i] \in Paths
    BY LeafKeysArePaths, SeqFacts
  <2> QED
    BY <2>1, DeletedDoc
<1>3. doc \in Docs
  OBVIOUS
<1> HIDE DEF n, step
<1>4. G \in [1..n -> [Docs -> Docs]]
  BY <1>2
<1>5. \A i \in 1..n : \A d \in Docs : G[i][d] = step(d, i)
  OBVIOUS
<1> HIDE DEF G
<1>6. PICK g : IsRun(g, Docs, n, doc, G)
  BY <1>1, <1>3, <1>4, Loop
<1>7. IsLoop(g)
  <2>1. ASSUME NEW i \in 0..n PROVE g[i] = IF i = 0 THEN doc ELSE step(g[i - 1], i)
    <3>1. CASE i = 0
      BY <1>6, <3>1 DEF IsRun
    <3>2. CASE i # 0
      <4>1. i \in 1..n /\ i - 1 \in 0..n
        BY <1>1, <3>2
      <4>2. g[i - 1] \in Docs /\ g[i] = G[i][g[i - 1]]
        BY <1>6, <4>1 DEF IsRun
      <4> QED
        BY <1>5, <3>2, <4>1, <4>2
    <3> QED
      BY <3>1, <3>2
  <2>2. g = [i \in 0..n |-> g[i]]
    BY <1>6 DEF IsRun
  <2> QED
    BY <2>1, <2>2
<1>8. IsLoop(upTo)
  BY <1>7
<1> HIDE DEF upTo
<1>9. \A i \in 0..n : upTo[i] = IF i = 0 THEN doc ELSE step(upTo[i - 1], i)
  BY <1>8
<1>10. upTo[0] \in Docs
  BY <1>1, <1>3, <1>9
<1>11. ASSUME NEW i \in 1..n, upTo[i - 1] \in Docs PROVE upTo[i] \in Docs
  <2>1. i \in 0..n /\ i # 0
    BY <1>1
  <2> QED
    BY <1>2, <1>9, <1>11, <2>1
<1>12. upTo[n] \in Docs
  <2>1. n \in 0..n
    BY <1>1
  <2> QED
    BY <1>1, <1>10, <1>11, <2>1, Stays
<1> QED
  BY <1>12 DEF DeleteStale, upTo, step, n

LEMMA PatchedEntry ==
  ASSUME NEW doc \in Docs, NEW e \in EntryType
  PROVE  PatchEntry(doc, e) \in Docs
<1>1. e.key \in Paths /\ e.val \in Words
  BY DEF EntryType
<1>2. upsertPath(doc, e.key, e.val) \in Docs
  BY <1>1, UpsertedDoc
<1>3. ASSUME NEW d \in Docs, NEW said PROVE PatchComments(d, e, said) \in Docs
  BY CommentedDoc DEF PatchComments
<1> QED
  BY <1>2, <1>3 DEF PatchEntry

LEMMA PatchedDoc ==
  ASSUME NEW doc \in Docs, NEW entriesOf \in Seq(EntryType)
  PROVE  Patched(doc, entriesOf) \in Docs
<1> DEFINE n == Len(entriesOf)
           step(d, i) == PatchEntry(d, entriesOf[i])
           upTo[i \in 0..n] == IF i = 0 THEN doc ELSE step(upTo[i - 1], i)
           IsLoop(f) == f = [i \in 0..n |-> IF i = 0 THEN doc ELSE step(f[i - 1], i)]
           G == [i \in 1..n |-> [d \in Docs |-> step(d, i)]]
<1>1. n \in Nat
  BY SeqFacts
<1>2. ASSUME NEW d \in Docs, NEW i \in 1..n PROVE step(d, i) \in Docs
  <2>1. entriesOf[i] \in EntryType
    BY SeqFacts
  <2> QED
    BY <2>1, PatchedEntry
<1>3. doc \in Docs
  OBVIOUS
<1> HIDE DEF n, step
<1>4. G \in [1..n -> [Docs -> Docs]]
  BY <1>2
<1>5. \A i \in 1..n : \A d \in Docs : G[i][d] = step(d, i)
  OBVIOUS
<1> HIDE DEF G
<1>6. PICK g : IsRun(g, Docs, n, doc, G)
  BY <1>1, <1>3, <1>4, Loop
<1>7. IsLoop(g)
  <2>1. ASSUME NEW i \in 0..n PROVE g[i] = IF i = 0 THEN doc ELSE step(g[i - 1], i)
    <3>1. CASE i = 0
      BY <1>6, <3>1 DEF IsRun
    <3>2. CASE i # 0
      <4>1. i \in 1..n /\ i - 1 \in 0..n
        BY <1>1, <3>2
      <4>2. g[i - 1] \in Docs /\ g[i] = G[i][g[i - 1]]
        BY <1>6, <4>1 DEF IsRun
      <4> QED
        BY <1>5, <3>2, <4>1, <4>2
    <3> QED
      BY <3>1, <3>2
  <2>2. g = [i \in 0..n |-> g[i]]
    BY <1>6 DEF IsRun
  <2> QED
    BY <2>1, <2>2
<1>8. IsLoop(upTo)
  BY <1>7
<1> HIDE DEF upTo
<1>9. \A i \in 0..n : upTo[i] = IF i = 0 THEN doc ELSE step(upTo[i - 1], i)
  BY <1>8
<1>10. upTo[0] \in Docs
  BY <1>1, <1>3, <1>9
<1>11. ASSUME NEW i \in 1..n, upTo[i - 1] \in Docs PROVE upTo[i] \in Docs
  <2>1. i \in 0..n /\ i # 0
    BY <1>1
  <2> QED
    BY <1>2, <1>9, <1>11, <2>1
<1>12. upTo[n] \in Docs
  <2>1. n \in 0..n
    BY <1>1
  <2> QED
    BY <1>1, <1>10, <1>11, <2>1, Stays
<1> QED
  BY <1>12 DEF Patched, upTo, step, n

LEMMA PatchedText ==
  ASSUME NEW doc \in Docs, NEW entriesOf \in Seq(EntryType), NEW docs, AreDocs(docs)
  PROVE  PatchNodeTree(doc, entriesOf, docs) \in TextType
<1> DEFINE wanted == {e.key : e \in ToSet(entriesOf)}
<1>1. applyDocFoots(Patched(DeleteStale(doc, wanted), entriesOf), docs.foots) \in Docs
  BY StaleDoc, PatchedDoc, FootedDoc DEF AreDocs
<1> QED
  BY <1>1, EncodedText DEF PatchNodeTree, AreDocs

LEMMA LineOfSource ==
  ASSUME NEW n \in LineType, NEW m \in LineType
  PROVE  SourceLine(n, m) \in LineType
<1> DEFINE p == IF sameKeyText(n.path, m.path) THEN m.path ELSE n.path
<1>1. p \in Paths /\ m.head \in Words /\ m.foot \in Words
  BY LineFacts
<1>2. SourceLine(n, m) = [n EXCEPT !.path = p, !.head = m.head, !.foot = m.foot, !.blank = FALSE]
  BY DEF SourceLine
<1> HIDE DEF p
<1> QED
  BY <1>1, <1>2 DEF LineType

LEMMA BlocksRestored ==
  ASSUME NEW raw \in Lines, NEW doc, NEW lines \in Lines
  PROVE  substituteBlockScalarRanges(raw, doc, lines) \in Lines
<1>1. ASSUME NEW i, NEW n \in LineType PROVE BlockLines(raw, i, n) \in Lines
  <2> DEFINE next == [j \in DOMAIN raw |-> IF j = i THEN SourceLine(raw[j], n) ELSE raw[j]]
  <2>1. \A j \in DOMAIN raw : next[j] \in LineType
    BY LineOfLines, LineOfSource
  <2>2. DOMAIN next = DOMAIN raw /\ next = [j \in DOMAIN raw |-> next[j]]
    OBVIOUS
  <2>3. BlockLines(raw, i, n) = Picked(next, BlockRange(raw, i))
    BY DEF BlockLines
  <2> HIDE DEF next
  <2>4. next \in Lines
    BY <2>1, <2>2, MappedLines
  <2> QED
    BY <2>3, <2>4, PickedFacts DEF Lines
<1> DEFINE part(i) == IF isSameBlock(doc, lines[i])
                      THEN BlockLines(raw, declaredAt(At(doc, lines[i].path)), lines[i])
                      ELSE <<lines[i]>>
           seqs == [i \in DOMAIN lines |-> part(i)]
<1>2. \A i \in DOMAIN lines : part(i) \in Lines
  BY <1>1, LineOfLines, SingleFacts DEF Lines
<1>3. Len(lines) \in Nat /\ DOMAIN lines = 1..Len(lines)
  BY SeqFacts DEF Lines
<1>4. substituteBlockScalarRanges(raw, doc, lines) = FlattenSeq(seqs)
  BY DEF substituteBlockScalarRanges
<1> HIDE DEF part
<1>5. seqs \in Seq(Lines)
  BY <1>2, <1>3
<1> HIDE DEF seqs
<1> QED
  BY <1>4, <1>5, Flattened DEF Lines

LEMMA UnchangedRestored ==
  ASSUME NEW raw \in Lines, NEW doc, NEW lines \in Lines
  PROVE  substituteUnchangedLinesFromSource(raw, doc, lines) \in Lines
<1> DEFINE next == substituteUnchangedLinesFromSource(raw, doc, lines)
<1>1. ASSUME NEW p, LineOfKey(raw, doc, p) # 0 PROVE LineOfKey(raw, doc, p) \in DOMAIN raw
  <2> DEFINE found == {i \in DOMAIN raw : lineToFlatKey(doc, i) = p}
  <2>1. found # {} /\ LineOfKey(raw, doc, p) = Min(found)
    BY <1>1 DEF LineOfKey
  <2>2. DOMAIN raw \subseteq Nat
    BY SeqFacts DEF Lines
  <2>3. found \subseteq Nat /\ found \subseteq DOMAIN raw
    BY <2>2
  <2> HIDE DEF found
  <2> QED
    BY <2>1, <2>3, MinIsMember
<1>2. ASSUME NEW i \in DOMAIN lines PROVE next[i] \in LineType
  <2> DEFINE k == LineOfKey(raw, doc, lines[i].path)
  <2>1. lines[i] \in LineType
    BY LineOfLines
  <2>2. next[i] = lines[i] \/ (k # 0 /\ next[i] = SourceLine(raw[k], lines[i]))
    BY DEF substituteUnchangedLinesFromSource
  <2>3. k # 0 => raw[k] \in LineType
    BY <1>1, LineOfLines
  <2> HIDE DEF k, next
  <2> QED
    BY <2>1, <2>2, <2>3, LineOfSource
<1>3. DOMAIN next = DOMAIN lines /\ next = [i \in DOMAIN lines |-> next[i]]
  BY DEF substituteUnchangedLinesFromSource
<1> HIDE DEF next
<1>4. next \in Lines
  BY <1>2, <1>3, MappedLines
<1> QED
  BY <1>4 DEF next

LEMMA BlanksRestored ==
  ASSUME NEW raw, NEW doc, NEW lines \in Lines
  PROVE  restoreBlankLines(raw, doc, lines) \in Lines
<1> DEFINE next == restoreBlankLines(raw, doc, lines)
<1>1. ASSUME NEW i \in DOMAIN lines PROVE next[i] \in LineType
  <2>1. lines[i] \in LineType
    BY LineOfLines
  <2>2. next[i] \in {lines[i], [lines[i] EXCEPT !.blank = TRUE]}
    BY DEF restoreBlankLines
  <2> HIDE DEF next
  <2> QED
    BY <2>1, <2>2, LineEdited
<1>2. DOMAIN next = DOMAIN lines /\ next = [i \in DOMAIN lines |-> next[i]]
  BY DEF restoreBlankLines
<1> HIDE DEF next
<1>3. next \in Lines
  BY <1>1, <1>2, MappedLines
<1> QED
  BY <1>3 DEF next

\* The lines that come back behind p, and what they are.
MissingAfter(raw, doc, lines, p) ==
    Picked(raw, {i \in DOMAIN raw : isMissing(doc, lines, i) /\ keyBefore(doc, lines, i) = p})

Returned(raw, doc, lines, p) ==
    LET at == MissingAfter(raw, doc, lines, p)
    IN  [k \in DOMAIN at |-> [at[k] EXCEPT !.head = None, !.foot = None, !.blank = FALSE]]

LEMMA ReturnedLines ==
  ASSUME NEW raw \in Lines, NEW doc, NEW lines, NEW p
  PROVE  Returned(raw, doc, lines, p) \in Lines
<1> DEFINE at == MissingAfter(raw, doc, lines, p)
           next == [k \in DOMAIN at |-> [at[k] EXCEPT !.head = None, !.foot = None, !.blank = FALSE]]
<1>1. at \in Lines
  BY PickedFacts DEF Lines, MissingAfter
<1>2. Returned(raw, doc, lines, p) = next
  BY DEF Returned
<1> HIDE DEF at
<1>3. \A k \in DOMAIN at : next[k] \in LineType
  BY <1>1, LineOfLines, LineEdited, WordsFacts
<1>4. DOMAIN next = DOMAIN at /\ next = [k \in DOMAIN at |-> next[k]]
  OBVIOUS
<1> HIDE DEF next
<1> QED
  BY <1>1, <1>2, <1>3, <1>4, MappedLines

LEMMA MissingInserted ==
  ASSUME NEW raw \in Lines, NEW doc, NEW lines \in Lines
  PROVE  insertMissingSourceLines(raw, doc, lines) \in Lines
<1> DEFINE back(p) == Returned(raw, doc, lines, p)
           part(i) == <<lines[i]>> \o back(lines[i].path)
           seqs == [i \in DOMAIN lines |-> part(i)]
<1>1. Len(lines) \in Nat /\ DOMAIN lines = 1..Len(lines)
  BY SeqFacts DEF Lines
<1>2. \A p : back(p) \in Lines
  BY ReturnedLines
<1>3. insertMissingSourceLines(raw, doc, lines) = back(None) \o FlattenSeq(seqs)
  BY DEF insertMissingSourceLines, Returned, MissingAfter
<1> HIDE DEF back
<1>4. ASSUME NEW i \in DOMAIN lines PROVE part(i) \in Lines
  <2>1. <<lines[i]>> \in Seq(LineType)
    BY LineOfLines, SingleFacts
  <2>2. back(lines[i].path) \in Seq(LineType)
    BY <1>2 DEF Lines
  <2> QED
    BY <2>1, <2>2, ConcatProperties DEF Lines
<1> HIDE DEF part
<1>5. seqs \in Seq(Lines)
  BY <1>1, <1>4
<1> HIDE DEF seqs
<1>6. FlattenSeq(seqs) \in Lines
  BY <1>5, Flattened DEF Lines
<1> QED
  BY <1>2, <1>3, <1>6, ConcatProperties DEF Lines

LEMMA PreservedText ==
  ASSUME NEW raw \in TextType, NEW doc, NEW text \in TextType
  PROVE  PreserveSourceFormatting(raw, doc, text) \in TextType
<1> DEFINE a == Pass(text.lines, substituteBlockScalarRanges(raw.lines, doc, text.lines))
           b == Pass(a, substituteUnchangedLinesFromSource(raw.lines, doc, a))
           c == Pass(b, insertMissingSourceLines(raw.lines, doc, b))
           d == Pass(c, restoreBlankLines(raw.lines, doc, c))
<1>1. raw.lines \in Lines /\ text.lines \in Lines
  BY TextFacts
<1>2. a \in Lines
  BY <1>1, BlocksRestored DEF Pass
<1> HIDE DEF a
<1>3. b \in Lines
  BY <1>1, <1>2, UnchangedRestored DEF Pass
<1> HIDE DEF b
<1>4. c \in Lines
  BY <1>1, <1>3, MissingInserted DEF Pass
<1> HIDE DEF c
<1>5. d \in Lines
  BY <1>1, <1>4, BlanksRestored DEF Pass
<1>6. PreserveSourceFormatting(raw, doc, text) \in {text, [text EXCEPT !.lines = d]}
  BY DEF PreserveSourceFormatting, a, b, c
<1> HIDE DEF d
<1> QED
  BY <1>5, <1>6, TextFacts

LEMMA SourcePatched ==
  ASSUME NEW raw \in TextType, NEW doc \in Docs, NEW entriesOf \in Seq(EntryType),
         NEW docs, AreDocs(docs)
  PROVE  PatchSourceText(raw, doc, entriesOf, docs) \in TextType
<1>1. PreserveSourceFormatting(raw, doc, PatchNodeTree(doc, entriesOf, docs)) \in TextType
  BY PatchedText, PreservedText
<1>2. SpliceScalarValues([raw EXCEPT !.coding = "plain"], doc, entriesOf) \in TextType
  BY TextFacts, SplicedText
<1> QED
  BY <1>1, <1>2 DEF PatchSourceText

-----------------------------------------------------------------------------
(* The column: what is loaded, collected, parsed and realigned.             *)

Cell == [head : Words, val : Words, line : Words]

\* A loaded value, parsed or read from a file with the coding given.
LEMMA LoadedValues ==
  ASSUME NEW text \in TextType, text.coding \in {"plain", opened.coding}
  PROVE  IsValues(Loaded(text))
<1> DEFINE v == Loaded(text)
           tree == Nodes(text.lines)
<1>1. text.lines \in Lines
  BY TextFacts
<1>2. tree \in Docs /\ IsSaying(flattenValues(tree))
  BY <1>1, NodesDoc, FlattenedValues
<1>3. IsSaying(parseComments(text.lines))
  BY <1>1, LoadedComments
<1>4. AreDocs(parseOrphanComments(text))
  BY LoadedDocs
<1>5. /\ DOMAIN v = {"raw", "tree", "vals", "comments", "docs", "coding"}
      /\ v.raw = text /\ v.tree = tree /\ v.vals = flattenValues(tree)
      /\ v.comments = parseComments(text.lines) /\ v.docs = parseOrphanComments(text)
      /\ v.coding = text.coding
  BY DEF Loaded
<1> HIDE DEF v, tree
<1> QED
  BY <1>2, <1>3, <1>4, <1>5 DEF IsValues, AreDocs, Docs, v

LEMMA EmptyIsText ==
  EmptyText \in TextType /\ EmptyText.lines = <<>> /\ EmptyText.coding = "plain"
BY WordsFacts DEF EmptyText, TextType

LEMMA ParsedValues ==
  ASSUME NEW text \in TextType
  PROVE  IsValues(Parsed(text))
<1> DEFINE v == Loaded(EmptyText)
           tree == Nodes(text.lines)
<1>1. IsValues(v)
  BY EmptyIsText, LoadedValues
<1>2. tree \in Docs /\ IsSaying(flattenValues(tree))
  BY TextFacts, NodesDoc, FlattenedValues
<1>3. Parsed(text) = [v EXCEPT !.tree = tree, !.vals = flattenValues(tree)]
  BY DEF Parsed
<1> HIDE DEF v, tree
<1> QED
  BY <1>1, <1>2, <1>3 DEF IsValues, Docs

LEMMA TreeChanged ==
  ASSUME NEW v, IsValues(v), NEW tree \in Docs
  PROVE  IsValues([v EXCEPT !.tree = tree])
BY DEF IsValues, Docs

LEMMA MergedValues ==
  ASSUME NEW v, IsValues(v), NEW w, IsValues(w)
  PROVE  IsValues(MergeLoadedMetadata(v, w))
<1> DEFINE said == [p \in DOMAIN w.comments \cap DOMAIN v.vals |-> w.comments[p]]
           m == MergeLoadedMetadata(v, w)
<1>1. IsSaying(said)
  BY DEF IsValues, IsSaying
<1>2. m = [w EXCEPT !.vals = v.vals, !.coding = v.coding, !.docs.heads = <<>>, !.comments = said]
  BY DEF MergeLoadedMetadata
<1> HIDE DEF said
<1>3. /\ DOMAIN m = DOMAIN w
      /\ DOMAIN w = {"raw", "tree", "vals", "comments", "docs", "coding"}
      /\ DOMAIN w.docs = {"banner", "foots", "heads"}
  BY <1>2 DEF IsValues
<1>4. /\ m.raw = w.raw /\ m.tree = w.tree /\ m.vals = v.vals /\ m.comments = said
      /\ m.coding = v.coding /\ m.docs = [w.docs EXCEPT !.heads = <<>>]
  BY <1>2, <1>3
<1>5. /\ DOMAIN m.docs = {"banner", "foots", "heads"} /\ m.docs.banner = w.docs.banner
      /\ m.docs.foots = w.docs.foots /\ m.docs.heads = <<>>
  BY <1>3, <1>4
<1> HIDE DEF m
<1> QED
  BY <1>1, <1>3, <1>4, <1>5, NothingSaid DEF IsValues, m

LEMMA UnifiedEntries ==
  ASSUME NEW v, v.tree \in Docs
  PROVE  LET e == RebuildUnifiedEntries(v)
         IN  /\ DOMAIN e = {"order", "comments"} /\ e.comments = v.comments
             /\ e.order \in Seq(Paths)
<1> DEFINE files == Expanded(v.tree)
           paths == [i \in DOMAIN files |-> files[i].path]
           own   == {i \in DOMAIN files : paths[i] \in DOMAIN v.vals \ ToSet(Defaults)}
           e == RebuildUnifiedEntries(v)
<1>1. files \in Docs
  BY ExpandedDoc
<1> HIDE DEF files
<1>2. Len(files) \in Nat /\ DOMAIN files = 1..Len(files) /\ \A i \in DOMAIN files : files[i].path \in Paths
  BY <1>1, SeqFacts, ElementFacts DEF Docs
<1>3. paths \in Seq(Paths)
  BY <1>2
<1> HIDE DEF paths
<1>4. Picked(paths, own) \in Seq(Paths) /\ Defaults \in Seq(Paths)
  BY <1>3, PickedFacts, DocumentsAssumption
<1>5. e = [order |-> Defaults \o Picked(paths, own), comments |-> v.comments]
  BY DEF RebuildUnifiedEntries, files, paths
<1> HIDE DEF own
<1>6. Defaults \o Picked(paths, own) \in Seq(Paths)
  BY <1>4, ConcatProperties
<1> QED
  BY <1>5, <1>6

LEMMA SaidIsWord ==
  ASSUME NEW says, IsSaying(says), NEW r
  PROVE  Said(says, r) \in Words
BY WordsFacts DEF Said, IsSaying

LEMMA ShownIsCell ==
  ASSUME NEW v, IsValues(v), NEW r \in DOMAIN v.vals
  PROVE  /\ loadFormForEditor(v, r) \in Cell
         /\ loadFormForEditor(v, r).line = None
<1>1. v.vals[r] \in Words /\ IsSaying(v.comments)
  BY DEF IsValues, IsSaying
<1> QED
  BY <1>1, SaidIsWord, WordsFacts DEF loadFormForEditor, Cell

LEMMA NoCellIsCell ==
  NoCell \in Cell /\ NoCell.line = None /\ NoCell.head = None /\ NoCell.val = Blank
BY WordsFacts DEF NoCell, Cell

LEMMA PopulatedCells ==
  ASSUME NEW text \in TextType, text.coding \in {"plain", opened.coding}
  PROVE  /\ DOMAIN populated(text) = ToSet(RebuildUnifiedEntries(Loaded(text)).order)
         /\ \A r \in DOMAIN populated(text) : populated(text)[r] \in Cell /\ populated(text)[r].line = None
         /\ populated(text) \in [ToSet(RebuildUnifiedEntries(Loaded(text)).order) -> Cell]
<1> DEFINE v == Loaded(text)
           R == ToSet(RebuildUnifiedEntries(v).order)
           cell(r) == IF r \in DOMAIN v.vals THEN loadFormForEditor(v, r) ELSE NoCell
<1>1. IsValues(v)
  BY LoadedValues
<1>2. populated(text) = [r \in R |-> cell(r)]
  BY DEF populated
<1> HIDE DEF v
<1>3. \A r : cell(r) \in Cell /\ cell(r).line = None
  BY <1>1, ShownIsCell, NoCellIsCell
<1> HIDE DEF cell, R
<1>4. populated(text) \in [R -> Cell] /\ \A r \in R : populated(text)[r] \in Cell /\ populated(text)[r].line = None
  BY <1>2, <1>3
<1> QED
  BY <1>2, <1>4 DEF R, v

\* The cells as the invariant has them.
CellsTyped(cs, D) ==
    /\ cs \in [D -> Cell]
    /\ \A r \in D : cs[r].line # None => cs[r].val # Blank


\* Nullified keys, as the invariant has them.
AreNullified(ns) == ns \subseteq Paths /\ IsFiniteSet(ns)

LEMMA SetInSeq ==
  ASSUME NEW T, NEW S, S \subseteq T, IsFiniteSet(S)
  PROVE  SetToSeq(S) \in Seq(T)
<1>1. Cardinality(S) \in Nat /\ \E f \in [1..Cardinality(S) -> S] : IsInjective(f)
  BY FS_CardinalityType DEF ExistsBijection, Bijection, Injection, IsInjective
<1>2. SetToSeq(S) \in [1..Cardinality(S) -> S]
  BY <1>1 DEF SetToSeq
<1> QED
  BY <1>1, <1>2

LEMMA OrphanPaths ==
  ASSUME NEW ns, AreNullified(ns)
  PROVE  orphans(ns) \in Seq(Paths)
<1> DEFINE S == {r \in ns \ rows : ~hasNullifiedAncestor(r, ns)}
<1>1. S \subseteq Paths /\ S \subseteq ns
  BY DEF AreNullified
<1>2. orphans(ns) = SetToSeq(S)
  BY DEF orphans
<1> HIDE DEF S
<1>3. IsFiniteSet(S)
  BY <1>1, FS_Subset DEF AreNullified
<1> QED
  BY <1>1, <1>2, <1>3, SetInSeq

\* The rows that collectOverrides takes, and what it makes of each.
IsCollected(v, cs, ns, r) ==
    /\ ~hasNullifiedAncestor(r, ns)
    /\ \/ r \in ns
       \/ isPlainSection(v, cs, r)
       \/ ~IsSection(r) /\ cs[r].val # Blank

EntryOf(v, cs, ns, r) ==
    IF r \in ns THEN Entry(r, Null, CommentOf(r), None, TRUE)
    ELSE IF IsSection(r) THEN Entry(r, Empty, None, None, FALSE)
    ELSE Entry(r, cs[r].val, cs[r].head, cs[r].line,
               IsLoaded(v, r) /\ v.vals[r] = Null /\ r \notin ToSet(Defaults))

\* The entries of the rows, and those of nullified keys without one.
RowEntries(v, cs, ns) ==
    LET wanted == Picked(entries.order, {i \in DOMAIN entries.order :
                                            IsCollected(v, cs, ns, entries.order[i])})
    IN  [i \in DOMAIN wanted |-> EntryOf(v, cs, ns, wanted[i])]

OrphanEntries(ns) == [i \in DOMAIN orphans(ns) |-> Entry(orphans(ns)[i], Null, None, None, TRUE)]

LEMMA CollectedParts ==
  ASSUME NEW v, NEW cs, NEW ns
  PROVE  collectOverrides(v, cs, ns) = RowEntries(v, cs, ns) \o OrphanEntries(ns)
BY DEF collectOverrides, RowEntries, OrphanEntries, IsCollected, EntryOf

LEMMA CollectedEntries ==
  ASSUME NEW v, NEW cs, CellsTyped(cs, rows), NEW ns, AreNullified(ns),
         entries.order \in Seq(Paths), IsSaying(entries.comments)
  PROVE  collectOverrides(v, cs, ns) \in Seq(EntryType)
<1> DEFINE wanted == Picked(entries.order, {i \in DOMAIN entries.order :
                                              IsCollected(v, cs, ns, entries.order[i])})
           isNull(r) == IsLoaded(v, r) /\ v.vals[r] = Null /\ r \notin ToSet(Defaults)
           entry(r) == EntryOf(v, cs, ns, r)
           es == [i \in DOMAIN wanted |-> entry(wanted[i])]
           os == OrphanEntries(ns)
<1>1. collectOverrides(v, cs, ns) = es \o os
  BY CollectedParts DEF RowEntries
<1>2. wanted \in Seq(Paths) /\ ToSet(wanted) \subseteq rows
  BY PickedFacts DEF rows
<1> HIDE DEF wanted
<1>3. Len(wanted) \in Nat /\ DOMAIN wanted = 1..Len(wanted)
      /\ \A i \in DOMAIN wanted : wanted[i] \in Paths /\ wanted[i] \in rows
  BY <1>2, SeqFacts DEF ToSet
<1>4. ASSUME NEW r \in rows, r \in Paths PROVE entry(r) \in EntryType
  <2>1. CommentOf(r) \in Words
    BY SaidIsWord DEF CommentOf
  <2>2. cs[r].val \in Words /\ cs[r].head \in Words /\ cs[r].line \in Words
    BY DEF CellsTyped, Cell
  <2>3. isNull(r) \in BOOLEAN
    BY Zenon
  <2>4. entry(r) = IF r \in ns THEN Entry(r, Null, CommentOf(r), None, TRUE)
                   ELSE IF IsSection(r) THEN Entry(r, Empty, None, None, FALSE)
                   ELSE Entry(r, cs[r].val, cs[r].head, cs[r].line, isNull(r))
    BY DEF EntryOf
  <2> HIDE DEF isNull, entry
  <2> QED
    BY <1>4, <2>1, <2>2, <2>3, <2>4, WordsFacts DEF EntryType, Entry
<1> HIDE DEF entry
<1>5. es \in Seq(EntryType)
  BY <1>3, <1>4
<1>6. os \in Seq(EntryType)
  <2>1. orphans(ns) \in Seq(Paths)
    BY OrphanPaths
  <2>2. /\ Len(orphans(ns)) \in Nat /\ DOMAIN orphans(ns) = 1..Len(orphans(ns))
        /\ \A i \in DOMAIN orphans(ns) : orphans(ns)[i] \in Paths
    BY <2>1, SeqFacts
  <2>3. \A r \in Paths : Entry(r, Null, None, None, TRUE) \in EntryType
    BY WordsFacts DEF EntryType, Entry
  <2> DEFINE m == Len(orphans(ns))
             null(i) == Entry(orphans(ns)[i], Null, None, None, TRUE)
  <2>4. os = [i \in 1..m |-> null(i)]
    BY <2>2 DEF OrphanEntries
  <2>5. m \in Nat /\ \A i \in 1..m : null(i) \in EntryType
    BY <2>2, <2>3
  <2> HIDE DEF os, m, null
  <2>6. [i \in 1..m |-> null(i)] \in Seq(EntryType)
    BY <2>5
  <2> QED
    BY <2>4, <2>6
<1> HIDE DEF es, os
<1> QED
  BY <1>1, <1>5, <1>6, ConcatProperties

LEMMA WrittenText ==
  ASSUME NEW v, v = NoValues \/ IsValues(v), NEW cs, CellsTyped(cs, rows), NEW ns, AreNullified(ns),
         entries.order \in Seq(Paths), IsSaying(entries.comments)
  PROVE  OverridesToYAML(v, cs, ns) \in TextType
<1> DEFINE es == collectOverrides(v, cs, ns)
           docs == IF v = NoValues THEN NoDocs ELSE v.docs
<1>1. es \in Seq(EntryType)
  BY CollectedEntries
<1>2. AreDocs(docs)
  <2>1. AreDocs(NoDocs)
    BY NothingSaid, WordsFacts DEF AreDocs, NoDocs
  <2>2. v # NoValues => AreDocs(v.docs)
    BY DEF IsValues, AreDocs
  <2> QED
    BY <2>1, <2>2
<1>3. OverridesToYAML(v, cs, ns) = WithOverrides(v, es, docs)
  BY DEF OverridesToYAML
<1> HIDE DEF es, docs
<1>4. FlatEntriesToYAML(es, docs) \in TextType
  BY <1>1, <1>2, FreshText
<1>5. v # NoValues => PatchSourceText(v.raw, v.tree, es, docs) \in TextType
  BY <1>1, <1>2, SourcePatched DEF IsValues, Docs
<1> QED
  BY <1>3, <1>4, <1>5, EmptyIsText DEF WithOverrides

LEMMA Realigned ==
  ASSUME NEW cs, NEW old, NEW new \in Seq(Paths), CellsTyped(cs, ToSet(old))
  PROVE  CellsTyped(RealignEditorTextByKey(old, new, cs), ToSet(new))
BY NoCellIsCell DEF CellsTyped, RealignEditorTextByKey

-----------------------------------------------------------------------------
(* Every step keeps the types.                                              *)

LEMMA TypedState ==
  ASSUME TypeOK
  PROVE  /\ opened \in TextType /\ opened \in Texts /\ disk \in TextType
         /\ rows \subseteq Paths /\ entries.order \in Seq(Paths) /\ IsSaying(entries.comments)
         /\ CellsTyped(cells, rows) /\ DOMAIN cells = rows
         /\ Tree \in Docs /\ edits \in 0 .. MaxEdits /\ AreNullified(nullified)
         /\ \A r \in rows : cells[r] \in Cell
<1>1. opened \in Texts /\ Texts \subseteq TextType
  BY DocumentsAssumption DEF TypeOK
<1>2. rows \subseteq Paths
  BY SeqFacts DEF TypeOK, rows
<1>3. CellsTyped(cells, rows) /\ DOMAIN cells = rows
  BY DEF TypeOK, CellsTyped, Cell
<1>4. Tree \in Docs
  BY EmptySeq DEF TypeOK, Tree, IsValues, Docs
<1>5. \A r \in rows : cells[r] \in Cell
  BY <1>3 DEF CellsTyped
<1> QED
  BY <1>1, <1>2, <1>3, <1>4, <1>5 DEF TypeOK, AreNullified

\* What a step that publishes has to see to.
LEMMA PublishTyped ==
  ASSUME TypeOK, NEW v, v = NoValues \/ IsValues(v),
         NEW cs, CellsTyped(cs, rows), NEW ns, AreNullified(ns), Publish(v, cs, ns),
         UNCHANGED <<opened, disk, entries>>, edits' \in 0 .. MaxEdits, anchored' \in BOOLEAN
  PROVE  TypeOK'
<1> DEFINE text == OverridesToYAML(v, cs, ns)
<1>1. text \in TextType
  BY TypedState, WrittenText
<1>2. /\ modified' = TRUE /\ cells' = cs /\ nullified' = ns
      /\ \/ values' = NoValues /\ asked' = asked
         \/ values' = v /\ asked' = text
  BY DEF Publish, Parse
<1> HIDE DEF text
<1>3. asked' \in TextType \union {NoText}
  BY <1>1, <1>2 DEF TypeOK
<1>4. values' = NoValues \/ IsValues(values)'
  <2>1. CASE values' = NoValues
    BY <2>1
  <2>2. CASE values' # NoValues
    BY <1>2, <2>2 DEF IsValues
  <2> QED
    BY <2>1, <2>2
<1>5. rows' = rows
  BY DEF rows
<1>6. /\ cells' \in [rows -> [head : Words, val : Words, line : Words]]
      /\ \A r \in rows : cells'[r].line # None => cells'[r].val # Blank
  BY <1>2 DEF CellsTyped, Cell
<1>7. IsSaying(entries.comments)'
  BY DEF TypeOK, IsSaying
<1> QED
  BY <1>2, <1>3, <1>4, <1>5, <1>6, <1>7 DEF TypeOK, AreNullified

LEMMA EditCounted ==
  ASSUME TypeOK, Edits
  PROVE  edits' \in 0 .. MaxEdits /\ UNCHANGED <<opened, disk, entries>>
<1>1. edits \in 0..MaxEdits /\ edits < MaxEdits /\ edits' = edits + 1 /\ MaxEdits \in Nat
  BY DocumentsAssumption DEF TypeOK, Edits
<1> QED
  BY <1>1 DEF Edits

LEMMA TypingTyped ==
  ASSUME TypeOK, NEW r, NEW cell \in Cell, cell.line # None => cell.val # Blank, Type(r, cell)
  PROVE  TypeOK'
<1> DEFINE cs == [q \in DOMAIN cells |-> IF q = r \/ q \in Mirrors(r) THEN cell ELSE cells[q]]
           ns == ClearNullified(r, cell)
<1>1. Edits /\ Publish(values, cs, ns) /\ UNCHANGED anchored
  BY DEF Type
<1>2. CellsTyped(cs, rows)
  <2>1. CellsTyped(cells, rows) /\ DOMAIN cells = rows
    BY TypedState
  <2> QED
    BY <2>1 DEF CellsTyped
<1>3. AreNullified(ns)
  <2>1. ns \in SUBSET nullified /\ nullified \subseteq Paths /\ IsFiniteSet(nullified)
    BY DEF ClearNullified, TypeOK
  <2> QED
    BY <2>1, FS_Subset DEF AreNullified
<1> HIDE DEF cs, ns
<1>4. values = NoValues \/ IsValues(values)
  BY DEF TypeOK
<1>5. anchored' \in BOOLEAN
  BY <1>1 DEF TypeOK
<1> QED
  BY <1>1, <1>2, <1>3, <1>4, <1>5, EditCounted, PublishTyped

LEMMA CellEditsTyped ==
  ASSUME TypeOK, NEW r \in rows, TypeText(r)
  PROVE  TypeOK'
<1> DEFINE IsTyped(cell) == cell \in Cell /\ (cell.line # None => cell.val # Blank)
<1>1. IsTyped(cells[r])
  BY TypedState DEF TypeOK
<1>2. PICK cell \in TypedValues(r) \union TypedComments(r) : Type(r, cell)
  BY DEF TypeText
<1>3. ASSUME NEW v \in Vals, cell = [cells[r] EXCEPT !.val = v] PROVE IsTyped(cell)
  BY <1>1, <1>3, WordsFacts, DocumentsAssumption DEF Cell
<1>4. ASSUME NEW c \in Comments, NEW f \in {"head", "line"}, cells[r].val # Blank,
             cell = [cells[r] EXCEPT ![f] = c]
      PROVE  IsTyped(cell)
  BY <1>1, <1>4, WordsFacts DEF Cell
<1>5. ASSUME cell \in TypedComments(r) PROVE IsTyped(cell)
  <2>1. PICK c \in Comments, f \in CommentFields(r) : cell = [cells[r] EXCEPT ![f] = c]
    BY <1>5 DEF TypedComments
  <2>2. f \in {"head", "line"} /\ cells[r].val # Blank
    BY DEF CommentFields
  <2> QED
    BY <1>4, <2>1, <2>2
<1>6. ASSUME cell \in TypedValues(r) PROVE IsTyped(cell)
  BY <1>3, <1>6, NoCellIsCell DEF TypedValues
<1>7. IsTyped(cell)
  BY <1>2, <1>5, <1>6
<1> QED
  BY <1>2, <1>7, TypingTyped

LEMMA SayingOfCells ==
  ASSUME NEW cs, CellsTyped(cs, rows), rows \subseteq Paths
  PROVE  IsSaying(CommentsOf(cs))
<1>1. DOMAIN cs = rows /\ \A r \in rows : cs[r].head \in Words
  BY DEF CellsTyped, Cell
<1> QED
  BY <1>1 DEF IsSaying, CommentsOf

LEMMA CommentChangeTyped ==
  ASSUME TypeOK, onCommentChanged
  PROVE  TypeOK'
<1>1. /\ values # NoValues /\ IsValues(values) /\ Edits /\ modified' = TRUE
      /\ UNCHANGED <<nullified, asked, anchored>>
  BY DEF onCommentChanged, TypeOK
<1>2. PICK c \in Comments :
         \/ /\ \E r \in rows \ Leaves :
                 r \in DOMAIN cells /\ cells' = [cells EXCEPT ![r].head = c]
            /\ values' = [values EXCEPT !.docs.heads = CommentsOf(cells')]
         \/ /\ values' = [values EXCEPT !.docs.banner = c, !.docs.heads = CommentsOf(cells)]
            /\ UNCHANGED cells
         \/ \E p \in DOMAIN values.docs.foots :
              /\ values' = [values EXCEPT !.docs.foots[p] = c, !.docs.heads = CommentsOf(cells)]
              /\ UNCHANGED cells
  BY DEF onCommentChanged
<1>3. c \in Words
  BY WordsFacts
<1>4. rows' = rows /\ edits' \in 0..MaxEdits /\ UNCHANGED <<opened, disk, entries>>
  BY <1>1, EditCounted DEF rows
<1>5. CellsTyped(cells', rows)
  <2>1. CellsTyped(cells, rows) /\ DOMAIN cells = rows
    BY TypedState
  <2>2. CASE UNCHANGED cells
    BY <2>1, <2>2
  <2>3. CASE \E r \in rows : cells' = [cells EXCEPT ![r].head = c]
    BY <1>3, <2>1, <2>3 DEF CellsTyped, Cell
  <2> QED
    BY <1>2, <2>2, <2>3
<1> DEFINE said == CommentsOf(cells')
<1>6. IsSaying(said)
  <2>1. rows \subseteq Paths
    BY TypedState
  <2> QED
    BY <1>5, <2>1, SayingOfCells
<1> HIDE DEF said
<1>7. /\ DOMAIN values.docs = {"banner", "foots", "heads"}
      /\ DOMAIN values = {"raw", "tree", "vals", "comments", "docs", "coding"}
      /\ IsSaying(values.docs.foots) /\ values.docs.banner \in Words
  BY <1>1 DEF IsValues
<1>8. PICK docs : AreDocs(docs) /\ values' = [values EXCEPT !.docs = docs]
  <2>1. CASE values' = [values EXCEPT !.docs.heads = said]
    <3>1. values' = [values EXCEPT !.docs = [values.docs EXCEPT !.heads = said]]
      BY <2>1
    <3>2. AreDocs([values.docs EXCEPT !.heads = said])
      BY <1>6, <1>7 DEF AreDocs
    <3> QED
      BY <3>1, <3>2
  <2>2. CASE values' = [values EXCEPT !.docs.banner = c, !.docs.heads = said]
    <3>1. values' = [values EXCEPT !.docs = [values.docs EXCEPT !.banner = c, !.heads = said]]
      BY <1>7, <2>2
    <3>2. AreDocs([values.docs EXCEPT !.banner = c, !.heads = said])
      BY <1>3, <1>6, <1>7 DEF AreDocs
    <3> QED
      BY <3>1, <3>2
  <2>3. CASE \E p \in DOMAIN values.docs.foots :
               values' = [values EXCEPT !.docs.foots[p] = c, !.docs.heads = said]
    <3>1. PICK p \in DOMAIN values.docs.foots :
               values' = [values EXCEPT !.docs.foots[p] = c, !.docs.heads = said]
      BY <2>3
    <3> DEFINE foots == [values.docs.foots EXCEPT ![p] = c]
    <3>2. IsSaying(foots)
      BY <1>3, <1>7 DEF IsSaying
    <3>3. values' = [values EXCEPT !.docs = [values.docs EXCEPT !.foots = foots, !.heads = said]]
      BY <1>7, <3>1
    <3> HIDE DEF foots
    <3>4. AreDocs([values.docs EXCEPT !.foots = foots, !.heads = said])
      BY <1>6, <1>7, <3>2 DEF AreDocs
    <3> QED
      BY <3>3, <3>4
  <2>4. said = CommentsOf(cells')
    BY DEF said
  <2> QED
    BY <1>2, <2>1, <2>2, <2>3, <2>4
<1>9. IsValues(values)'
  BY <1>1, <1>4, <1>8 DEF IsValues, AreDocs
<1>10. /\ cells' \in [rows -> [head : Words, val : Words, line : Words]]
       /\ \A r \in rows : cells'[r].line # None => cells'[r].val # Blank
  BY <1>5 DEF CellsTyped, Cell
<1>11. IsSaying(entries.comments)'
  BY <1>4 DEF TypeOK, IsSaying
<1> QED
  BY <1>1, <1>4, <1>9, <1>10, <1>11 DEF TypeOK

-----------------------------------------------------------------------------

LEMMA SeveredDoc ==
  ASSUME NEW tree \in Docs, NEW r \in Paths
  PROVE  severAnchorAtKey(tree, r) \in Docs
BY AnchorDeleted, AnchorSetAndCleared, WordsFacts DEF severAnchorAtKey

LEMMA SubtreeSevered ==
  ASSUME NEW tree \in Docs, NEW r \in Paths, entries.order \in Seq(Paths)
  PROVE  severAnchorsInSubtree(tree, r) \in Docs
<1> DEFINE under == {i \in DOMAIN entries.order : entries.order[i] # r /\ Below(r, entries.order[i])}
           keys == Picked(entries.order, under)
           n == Len(keys)
           step(d, i) == severAnchorAtKey(d, keys[i])
           upTo[i \in 0..n] == IF i = 0 THEN tree ELSE step(upTo[i - 1], i)
           IsLoop(f) == f = [i \in 0..n |-> IF i = 0 THEN tree ELSE step(f[i - 1], i)]
           G == [i \in 1..n |-> [d \in Docs |-> step(d, i)]]
<1>1. n \in Nat
  BY PickedFacts, SeqFacts
<1>2. ASSUME NEW d \in Docs, NEW i \in 1..n PROVE step(d, i) \in Docs
  <2> HIDE DEF under
  <2>1. keys \in Seq(Paths)
    BY PickedFacts
  <2> HIDE DEF keys
  <2>2. keys[i] \in Paths
    BY <2>1, SeqFacts
  <2> QED
    BY <2>2, SeveredDoc
<1>3. tree \in Docs
  OBVIOUS
<1> HIDE DEF n, step
<1>4. G \in [1..n -> [Docs -> Docs]]
  BY <1>2
<1>5. \A i \in 1..n : \A d \in Docs : G[i][d] = step(d, i)
  OBVIOUS
<1> HIDE DEF G
<1>6. PICK g : IsRun(g, Docs, n, tree, G)
  BY <1>1, <1>3, <1>4, Loop
<1>7. IsLoop(g)
  <2>1. ASSUME NEW i \in 0..n PROVE g[i] = IF i = 0 THEN tree ELSE step(g[i - 1], i)
    <3>1. CASE i = 0
      BY <1>6, <3>1 DEF IsRun
    <3>2. CASE i # 0
      <4>1. i \in 1..n /\ i - 1 \in 0..n
        BY <1>1, <3>2
      <4>2. g[i - 1] \in Docs /\ g[i] = G[i][g[i - 1]]
        BY <1>6, <4>1 DEF IsRun
      <4> QED
        BY <1>5, <3>2, <4>1, <4>2
    <3> QED
      BY <3>1, <3>2
  <2>2. g = [i \in 0..n |-> g[i]]
    BY <1>6 DEF IsRun
  <2> QED
    BY <2>1, <2>2
<1>8. IsLoop(upTo)
  BY <1>7
<1> HIDE DEF upTo
<1>9. \A i \in 0..n : upTo[i] = IF i = 0 THEN tree ELSE step(upTo[i - 1], i)
  BY <1>8
<1>10. upTo[0] \in Docs
  BY <1>1, <1>3, <1>9
<1>11. ASSUME NEW i \in 1..n, upTo[i - 1] \in Docs PROVE upTo[i] \in Docs
  <2>1. i \in 0..n /\ i # 0
    BY <1>1
  <2> QED
    BY <1>2, <1>9, <1>11, <2>1
<1>12. upTo[n] \in Docs
  <2>1. n \in 0..n
    BY <1>1
  <2> QED
    BY <1>1, <1>10, <1>11, <2>1, Stays
<1> QED
  BY <1>12 DEF severAnchorsInSubtree, upTo, step, n

LEMMA NullifyTyped ==
  ASSUME TypeOK, NEW r \in rows, onCellNullify(r)
  PROVE  TypeOK'
<1>1. CellsTyped(cells, rows) /\ DOMAIN cells = rows /\ rows \subseteq Paths /\ cells[r] \in Cell
  BY TypedState
<1>2. Severed(r) = NoValues \/ IsValues(Severed(r))
  <2>1. CASE values = NoValues
    BY <2>1 DEF Severed
  <2>2. CASE values # NoValues
    <3>1. IsValues(values) /\ values.tree \in Docs
      BY <2>2 DEF TypeOK, IsValues, Docs
    <3>2. severAnchorAtKey(severAnchorsInSubtree(values.tree, r), r) \in Docs
      BY <1>1, <3>1, TypedState, SubtreeSevered, SeveredDoc
    <3> QED
      BY <2>2, <3>1, <3>2, TreeChanged DEF Severed
  <2> QED
    BY <2>1, <2>2
<1> DEFINE nulled ==
             [q \in DOMAIN cells |->
                IF q # r /\ Below(r, q) THEN NoCell
                ELSE IF q = r /\ r \in Leaves /\ (cells[r].head # None \/ cells[r].val = Blank)
                THEN [cells[r] EXCEPT !.val = Null, !.line = None]
                ELSE cells[q]]
           emptied == IF IsSection(r) THEN cells ELSE [cells EXCEPT ![r] = NoCell]
<1>3. CellsTyped(nulled, rows)
  <2>1. [cells[r] EXCEPT !.val = Null, !.line = None] \in Cell
        /\ [cells[r] EXCEPT !.val = Null, !.line = None].line = None
    BY <1>1, WordsFacts DEF Cell
  <2> QED
    BY <1>1, <2>1, NoCellIsCell DEF CellsTyped
<1>4. CellsTyped(emptied, rows)
  BY <1>1, NoCellIsCell DEF CellsTyped
<1>5. /\ Nullify(r).v \in {values, Severed(r)}
      /\ Nullify(r).cs \in {cells, nulled, emptied}
      /\ Nullify(r).ns \in {nullified \union {r}, nullified \ StrictAncestors(r),
                            nullified \ (StrictAncestors(r) \union {r})}
  BY DEF Nullify, nullifyCell, unnullifyCell
<1> HIDE DEF nulled, emptied
<1>6. Edits /\ anchored' = (anchored \/ Severed(r) # values)
      /\ Publish(Nullify(r).v, Nullify(r).cs, Nullify(r).ns)
  BY DEF onCellNullify
<1> DEFINE v == Nullify(r).v  cs == Nullify(r).cs  ns == Nullify(r).ns
<1>7. v = NoValues \/ IsValues(v)
  BY <1>2, <1>5 DEF TypeOK
<1>8. CellsTyped(cs, rows)
  BY <1>1, <1>3, <1>4, <1>5
<1>9. AreNullified(ns)
  <2>1. nullified \subseteq Paths /\ IsFiniteSet(nullified) /\ r \in Paths
    BY <1>1 DEF TypeOK
  <2>2. IsFiniteSet(nullified \union {r})
    BY <2>1, FS_AddElement
  <2>3. ns \in SUBSET (nullified \union {r})
    BY <1>5
  <2> QED
    BY <2>1, <2>2, <2>3, FS_Subset DEF AreNullified
<1>10. anchored' \in BOOLEAN
  BY <1>6, Zenon
<1>11. Publish(v, cs, ns)
  BY <1>6
<1> HIDE DEF v, cs, ns
<1> QED
  BY <1>6, <1>7, <1>8, <1>9, <1>10, <1>11, EditCounted, PublishTyped

-----------------------------------------------------------------------------

LEMMA OnTreeTyped ==
  ASSUME TypeOK, NEW tree \in Docs, OnTree(tree), CellsTyped(cells', rows)
  PROVE  TypeOK'
<1> DEFINE v == IF values = NoValues THEN Loaded(EmptyText) ELSE values
<1>1. IsValues(v)
  BY EmptyIsText, LoadedValues DEF TypeOK
<1>2. values' = [v EXCEPT !.tree = tree] /\ modified' = TRUE /\ anchored' = TRUE
      /\ UNCHANGED <<asked, nullified>> /\ Edits
  BY DEF OnTree
<1> HIDE DEF v
<1>3. edits' \in 0..MaxEdits /\ UNCHANGED <<opened, disk, entries>>
  BY <1>2, EditCounted
<1>4. IsValues(values')
  BY <1>1, <1>2, TreeChanged
<1>5. IsValues(values)'
  BY <1>3, <1>4 DEF IsValues
<1>6. rows' = rows
  BY <1>3 DEF rows
<1>7. /\ cells' \in [rows -> [head : Words, val : Words, line : Words]]
      /\ \A r \in rows : cells'[r].line # None => cells'[r].val # Blank
  BY DEF CellsTyped, Cell
<1>8. IsSaying(entries.comments)'
  BY <1>3 DEF TypeOK, IsSaying
<1> QED
  BY <1>2, <1>3, <1>5, <1>6, <1>7, <1>8 DEF TypeOK

LEMMA AnchorStepsTyped ==
  ASSUME TypeOK,
         \/ \E r \in rows, n \in Anchors : onAnchorCreate(r, n) \/ onAnchorAlias(r, n)
         \/ \E r \in rows : onUnlockCell(r)
         \/ \E m, n \in Anchors : onAnchorRename(m, n)
         \/ \E n \in Anchors : onAnchorDelete(n)
  PROVE  TypeOK'
<1>1. CellsTyped(cells, rows) /\ DOMAIN cells = rows /\ rows \subseteq Paths /\ Tree \in Docs
  BY TypedState
<1>2. \A r \in rows : cellValue(r) \in Words
  BY TypedState, WordsFacts DEF cellValue, Cell
<1>3. \A r \in rows : EnsurePath(Tree, r, cellValue(r)) \in Docs
  BY <1>1, <1>2, EnsuredDoc
<1>4. ASSUME NEW r \in rows, NEW n \in Anchors, onAnchorCreate(r, n) PROVE TypeOK'
  <2>1. SetNodeAnchor(EnsurePath(Tree, r, cellValue(r)), r, n) \in Docs
    BY <1>1, <1>3, WordsFacts, AnchorSetAndCleared
  <2> QED
    BY <1>1, <1>4, <2>1, OnTreeTyped DEF onAnchorCreate
<1>5. ASSUME NEW r \in rows, NEW n \in Anchors, onAnchorAlias(r, n) PROVE TypeOK'
  <2> DEFINE tree == SetNodeAlias(EnsurePath(Tree, r, cellValue(r)), r, n)
             found == findEffectiveScalar(values'.tree, r)
  <2>1. tree \in Docs
    BY <1>1, <1>3, WordsFacts, AliasSet
  <2>2. OnTree(tree)
        /\ cells' = IF found = None THEN cells ELSE [cells EXCEPT ![r] = [NoCell EXCEPT !.val = found]]
    BY <1>5 DEF onAnchorAlias
  <2> HIDE DEF tree
  <2>3. values'.tree = tree
    <3> DEFINE v == IF values = NoValues THEN Loaded(EmptyText) ELSE values
    <3>1. values' = [v EXCEPT !.tree = tree] /\ "tree" \in DOMAIN v
      BY <2>2 DEF OnTree, TypeOK, IsValues, Loaded
    <3> HIDE DEF v
    <3> QED
      BY <3>1
  <2>4. found \in Words
    BY <2>1, <2>3, ScalarIsWord
  <2> HIDE DEF found
  <2>5. [NoCell EXCEPT !.val = found] \in Cell /\ [NoCell EXCEPT !.val = found].line = None
    BY <2>4, NoCellIsCell DEF Cell
  <2>6. CellsTyped(cells', rows)
    BY <1>1, <2>2, <2>5 DEF CellsTyped
  <2> QED
    BY <2>1, <2>2, <2>6, OnTreeTyped
<1>6. ASSUME NEW r \in rows, onUnlockCell(r) PROVE TypeOK'
  <2>1. ClearNodeAnchor(Tree, r) \in Docs /\ ClearNodeAlias(Tree, r) \in Docs
    BY <1>1, WordsFacts, AnchorSetAndCleared
  <2>2. (OnTree(ClearNodeAnchor(Tree, r)) \/ OnTree(ClearNodeAlias(Tree, r))) /\ UNCHANGED cells
    BY <1>6 DEF onUnlockCell
  <2> QED
    BY <1>1, <2>1, <2>2, OnTreeTyped
<1>7. ASSUME NEW m \in Anchors, NEW n \in Anchors, onAnchorRename(m, n) PROVE TypeOK'
  <2>1. RenameAnchor(Tree, m, n) \in Docs
    BY <1>1, WordsFacts, RenamedDoc
  <2> QED
    BY <1>1, <1>7, <2>1, OnTreeTyped DEF onAnchorRename
<1>8. ASSUME NEW n \in Anchors, onAnchorDelete(n) PROVE TypeOK'
  BY <1>1, <1>8, AnchorDeleted, OnTreeTyped DEF onAnchorDelete
<1> QED
  BY <1>4, <1>5, <1>6, <1>7, <1>8

-----------------------------------------------------------------------------

LEMMA ParseTyped ==
  ASSUME TypeOK, pollEditorParse
  PROVE  TypeOK'
<1> DEFINE tree == Nodes(asked.lines)
<1>1. /\ asked # NoText /\ asked' = NoText
      /\ UNCHANGED <<opened, disk, nullified, modified, edits, anchored>>
      /\ cells' = RealignEditorTextByKey(entries.order, entries'.order, cells)
  BY DEF pollEditorParse
<1>2. asked \in TextType /\ tree \in Docs
  BY <1>1, TextFacts, NodesDoc DEF TypeOK
<1>3. IsValues(Parsed(asked))
  BY <1>2, ParsedValues
<1>4. IsValues(values)' \/ values' = NoValues
  <2>1. \/ values' = values \/ values' = Parsed(asked)
        \/ values # NoValues /\ values' = MergeLoadedMetadata(Parsed(asked), values)
    BY DEF pollEditorParse
  <2>2. values' = NoValues \/ IsValues(values')
    BY <1>3, <2>1, MergedValues DEF TypeOK
  <2> QED
    BY <1>1, <2>2 DEF IsValues
<1>5. /\ DOMAIN entries' = {"order", "comments"}
      /\ entries'.order \in Seq(Paths) /\ IsSaying(entries'.comments)
  <2>1. CASE ~Parses(asked.lines)
    BY <2>1 DEF pollEditorParse, TypeOK
  <2>2. CASE Parses(asked.lines)
    <3> DEFINE v == [values' EXCEPT !.tree = tree]
    <3>1. entries' = RebuildUnifiedEntries(v)
      BY <2>2 DEF pollEditorParse
    <3>2. IsValues(values')
      BY <1>3, <2>2, MergedValues DEF pollEditorParse, TypeOK
    <3>3. IsValues(v)
      BY <1>2, <3>2, TreeChanged
    <3> HIDE DEF v, tree
    <3>4. v.tree \in Docs /\ IsSaying(v.comments)
      BY <3>3 DEF IsValues, Docs
    <3> QED
      BY <3>1, <3>4, UnifiedEntries
  <2> QED
    BY <2>1, <2>2
<1>6. CellsTyped(cells', ToSet(entries'.order))
  <2>1. CellsTyped(cells, ToSet(entries.order))
    BY TypedState DEF rows
  <2> QED
    BY <1>1, <1>5, <2>1, Realigned
<1>7. rows' = ToSet(entries'.order)
  BY DEF rows
<1>8. /\ cells' \in [rows' -> [head : Words, val : Words, line : Words]]
      /\ \A r \in rows' : cells'[r].line # None => cells'[r].val # Blank
  BY <1>6, <1>7 DEF CellsTyped, Cell
<1>9. IsSaying(entries.comments)'
  BY <1>5 DEF IsSaying
<1> QED
  BY <1>1, <1>4, <1>5, <1>8, <1>9 DEF TypeOK

LEMMA SaveTyped ==
  ASSUME TypeOK, onSaveColumnValues
  PROVE  TypeOK'
<1> DEFINE text == OverridesToYAML(values, cells, nullified)
           coding == IF values = NoValues THEN "plain" ELSE values.coding
<1>1. text \in TextType
  BY TypedState, WrittenText DEF TypeOK
<1>2. coding \in {"plain"} \union {t.coding : t \in Texts}
  BY DEF TypeOK, IsValues
<1>3. /\ disk' = [text EXCEPT !.coding = coding] /\ modified' = FALSE
      /\ UNCHANGED <<opened, values, entries, cells, nullified, asked, edits, anchored>>
  BY DEF onSaveColumnValues, EncodeForFile
<1> HIDE DEF text, coding
<1>4. disk' \in TextType
  BY <1>1, <1>2, <1>3 DEF TextType
<1>5. rows' = rows /\ (values' = NoValues \/ IsValues(values)') /\ IsSaying(entries.comments)'
  BY <1>3 DEF rows, TypeOK, IsValues, IsSaying
<1> QED
  BY <1>3, <1>4, <1>5 DEF TypeOK

\* A file has no more values than nodes.
LEMMA FewValues ==
  ASSUME NEW doc \in Docs
  PROVE  IsFiniteSet(DOMAIN flattenValues(doc))
<1> DEFINE nodes == Expanded(Attached(doc))
           n == Len(nodes)
           T == {m.path : m \in ToSet(nodes)}
           f == [i \in 1..n |-> nodes[i].path]
<1>1. nodes \in Docs
  BY PartsAreDocs, ExpandedDoc
<1>2. DOMAIN flattenValues(doc) = T
  BY DEF flattenValues, valuesOf
<1> HIDE DEF nodes
<1>3. n \in Nat /\ DOMAIN nodes = 1..n
  BY <1>1, SeqFacts DEF Docs
<1>4. /\ \A i \in 1..n : nodes[i].path \in T
      /\ \A t \in T : \E i \in 1..n : nodes[i].path = t
  BY <1>3 DEF ToSet
<1> HIDE DEF T, n
<1>5. f \in Surjection(1..n, T)
  BY <1>4 DEF Surjection
<1>6. IsFiniteSet(1..n)
  BY <1>3, FS_Interval
<1> QED
  BY <1>2, <1>5, <1>6, FS_Surjection

LEMMA InitTyped ==
  ASSUME Init
  PROVE  TypeOK
<1>1. opened \in Texts /\ opened \in TextType
  BY DocumentsAssumption DEF Init
<1>2. IsValues(values) /\ values.tree \in Docs /\ IsSaying(values.comments)
  BY <1>1, LoadedValues DEF Init, IsValues, Docs
<1>3. DOMAIN entries = {"order", "comments"} /\ entries.order \in Seq(Paths) /\ IsSaying(entries.comments)
  BY <1>2, UnifiedEntries DEF Init
<1>4. /\ cells \in [rows -> Cell]
      /\ \A r \in rows : cells[r].line = None
  BY <1>1, PopulatedCells DEF Init, rows
<1>5. nullified \subseteq Paths /\ IsFiniteSet(nullified)
  <2>1. nullified \in SUBSET DOMAIN values.vals /\ DOMAIN values.vals \subseteq Paths
    BY <1>2 DEF Init, nulls, IsValues, IsSaying
  <2>2. values.vals = flattenValues(values.tree)
    BY DEF Init, Loaded
  <2> QED
    BY <1>2, <2>1, <2>2, FewValues, FS_Subset
<1>6. 0 \in 0..MaxEdits
  BY DocumentsAssumption
<1> QED
  BY <1>1, <1>2, <1>3, <1>4, <1>5, <1>6 DEF Init, TypeOK, Cell

LEMMA StepTyped ==
  ASSUME TypeOK, [Next]_vars
  PROVE  TypeOK'
<1>1. CASE UNCHANGED vars
  BY <1>1 DEF vars, TypeOK, rows, IsValues, IsSaying
<1>2. CASE Next
  BY <1>2, CellEditsTyped, NullifyTyped, CommentChangeTyped, AnchorStepsTyped, ParseTyped, SaveTyped
     DEF Next
<1> QED
  BY <1>1, <1>2

\* Whatever is typed, nullified, anchored, parsed and saved, in whatever order:
\* the values are a document with its texts, the file and the text a parse
\* works on are texts, and every row has a cell, with a comment behind the value
\* only where there is a value.
THEOREM TypeCorrect == Spec => []TypeOK
<1>1. Init => TypeOK
  BY InitTyped
<1>2. TypeOK /\ [Next]_vars => TypeOK'
  BY StepTyped
<1> QED
  BY <1>1, <1>2, PTL DEF Spec

-----------------------------------------------------------------------------
(* What a step may do to the values of the file.                            *)

LEMMA KeysFacts ==
  ASSUME NEW lines, NEW p
  PROVE  p \in Keys(lines) <=> \E i \in DOMAIN lines : lines[i].path = p
BY DEF Keys, ToSet

LEMMA StepKinds ==
  ASSUME [Next]_vars
  PROVE  \/ onSaveColumnValues \/ pollEditorParse \/ UNCHANGED vars
         \/ Edits /\ modified'
<1>1. ASSUME NEW r, NEW cell, Type(r, cell) PROVE Edits /\ modified'
  BY <1>1 DEF Type, Publish
<1>2. ASSUME NEW r, TypeText(r) PROVE Edits /\ modified'
  BY <1>1, <1>2 DEF TypeText
<1>3. ASSUME NEW r, onCellNullify(r) PROVE Edits /\ modified'
  BY <1>3 DEF onCellNullify, Publish
<1>4. onCommentChanged => Edits /\ modified'
  BY DEF onCommentChanged
<1>5. ASSUME NEW tree, OnTree(tree) PROVE Edits /\ modified'
  BY <1>5 DEF OnTree
<1>6. ASSUME NEW r, NEW n, onAnchorCreate(r, n) \/ onAnchorAlias(r, n) \/ onAnchorRename(r, n)
      PROVE  Edits /\ modified'
  BY <1>5, <1>6 DEF onAnchorCreate, onAnchorAlias, onAnchorRename
<1>7. ASSUME NEW r, onUnlockCell(r) \/ onAnchorDelete(r) PROVE Edits /\ modified'
  BY <1>5, <1>7 DEF onUnlockCell, onAnchorDelete
<1> QED
  BY <1>2, <1>3, <1>4, <1>6, <1>7 DEF Next

\* The values of the file, once gone, do not come back.
LEMMA RawStays ==
  ASSUME TypeOK, [Next]_vars, values' # NoValues, values'.raw = opened, opened.lines # <<>>
  PROVE  values # NoValues /\ values.raw = opened
<1>0. DOMAIN values = {"raw", "tree", "vals", "comments", "docs", "coding"} \/ values = NoValues
  BY DEF TypeOK, IsValues
<1>1. CASE UNCHANGED values
  BY <1>1
<1>2. CASE pollEditorParse
  <2>1. CASE values = NoValues
    <3>1. values' = NoValues \/ values' = Parsed(asked)
      BY <1>2, <2>1 DEF pollEditorParse
    <3>2. Parsed(asked).raw = EmptyText
      BY DEF Parsed, Loaded
    <3> QED
      BY <3>1, <3>2, EmptyIsText
  <2>2. CASE values # NoValues
    <3>1. values' = values \/ values' = MergeLoadedMetadata(Parsed(asked), values)
      BY <1>2, <2>2 DEF pollEditorParse
    <3>2. MergeLoadedMetadata(Parsed(asked), values).raw = values.raw
      BY <1>0, <2>2 DEF MergeLoadedMetadata
    <3> QED
      BY <2>2, <3>1, <3>2
  <2> QED
    BY <2>1, <2>2
<1>3. ASSUME NEW tree, OnTree(tree) PROVE values # NoValues /\ values.raw = opened
  <2> DEFINE v == IF values = NoValues THEN Loaded(EmptyText) ELSE values
  <2>1. values' = [v EXCEPT !.tree = tree]
    BY <1>3 DEF OnTree
  <2>2. DOMAIN v = {"raw", "tree", "vals", "comments", "docs", "coding"}
    BY <1>0 DEF Loaded
  <2>3. values'.raw = v.raw
    <3> HIDE DEF v
    <3> QED
      BY <2>1, <2>2
  <2>4. Loaded(EmptyText).raw = EmptyText
    BY DEF Loaded
  <2> QED
    BY <2>3, <2>4, EmptyIsText
<1>4. ASSUME NEW r, onCellNullify(r) PROVE values # NoValues /\ values.raw = opened
  <2>1. values' = NoValues \/ values' = values \/ values' = Severed(r)
    BY <1>4 DEF onCellNullify, Publish, Parse, Nullify, nullifyCell, unnullifyCell
  <2>2. Severed(r) = values \/ (values # NoValues /\ Severed(r).raw = values.raw)
    <3> DEFINE tree == severAnchorAtKey(severAnchorsInSubtree(values.tree, r), r)
    <3>1. values # NoValues => Severed(r) = [values EXCEPT !.tree = tree]
      BY DEF Severed
    <3>2. values = NoValues => Severed(r) = values
      BY DEF Severed
    <3> HIDE DEF tree
    <3> QED
      BY <1>0, <3>1, <3>2
  <2> QED
    BY <2>1, <2>2
<1>5. CASE onCommentChanged
  <2>1. values # NoValues
    BY <1>5 DEF onCommentChanged
  <2>2. values'.raw = values.raw
    BY <1>0, <1>5, <2>1 DEF onCommentChanged
  <2> QED
    BY <2>1, <2>2
<1>6. ASSUME NEW r, TypeText(r) PROVE values # NoValues /\ values.raw = opened
  <2>1. values' = NoValues \/ values' = values
    BY <1>6 DEF TypeText, Type, Publish, Parse
  <2> QED
    BY <2>1
<1>7. CASE onSaveColumnValues
  BY <1>7 DEF onSaveColumnValues
<1> QED
  BY <1>1, <1>2, <1>3, <1>4, <1>5, <1>6, <1>7
     DEF Next, vars, onAnchorCreate, onAnchorAlias, onUnlockCell, onAnchorRename, onAnchorDelete

-----------------------------------------------------------------------------
(* Where the reader of a file that parses finds a line of it.               *)

\* What a file that may be opened is: it parses, and Off is a key of no line.
IsFile(lines) ==
    /\ lines \in Lines /\ Parses(lines)
    /\ \A n \in ToSet(lines) : isAttached(n)

\* The first k segments of a path.
Prefix(p, k) == SubSeq(p, 1, k)

LEMMA PrefixFacts ==
  ASSUME NEW p \in Paths, NEW k \in 1..Len(p)
  PROVE  /\ Prefix(p, k) \in Paths /\ Len(Prefix(p, k)) = k
         /\ \A i \in 1..k : Prefix(p, k)[i] = p[i]
         /\ Last(Prefix(p, k)) = p[k]
         /\ Parent(Prefix(p, k)) = Prefix(p, k - 1)
         /\ Prefix(p, k) = Append(Prefix(p, k - 1), p[k])
<1>1. p \in Seq(Segments) /\ Len(p) \in Nat /\ p[k] \in Segments
  BY PathFacts
<1>2. /\ Prefix(p, k) \in Seq(Segments) /\ Len(Prefix(p, k)) = k
      /\ \A i \in 1..k : Prefix(p, k)[i] = p[i]
  BY <1>1, SubSeqProperties DEF Prefix
<1>3. /\ Prefix(p, k - 1) \in Seq(Segments) /\ Len(Prefix(p, k - 1)) = k - 1
      /\ \A i \in 1..(k - 1) : Prefix(p, k - 1)[i] = p[i]
  <2>1. CASE k = 1
    BY <1>1, <2>1, SubSeqEmpty, EmptySeq DEF Prefix
  <2>2. CASE k # 1
    <3>1. k - 1 \in 1..Len(p)
      BY <1>1, <2>2
    <3> QED
      BY <1>1, <3>1, SubSeqProperties DEF Prefix
  <2> QED
    BY <2>1, <2>2
<1> DEFINE q == Prefix(p, k)
           r == Prefix(p, k - 1)
<1>4. Last(q) = p[k]
  BY <1>2 DEF Last
<1>5. q = Append(r, p[k])
  <2>1. Len(Append(r, p[k])) = k /\ Append(r, p[k]) \in Seq(Segments)
    BY <1>1, <1>3, AppendProperties
  <2>2. ASSUME NEW i \in 1..k PROVE q[i] = Append(r, p[k])[i]
    <3>1. CASE i = k
      BY <1>1, <1>2, <1>3, <3>1, AppendProperties
    <3>2. CASE i # k
      <4>1. i \in 1..(k - 1)
        BY <3>2
      <4> QED
        BY <1>1, <1>2, <1>3, <4>1, AppendProperties
    <3> QED
      BY <3>1, <3>2
  <2> HIDE DEF q, r
  <2> QED
    BY <1>2, <2>1, <2>2, SeqEqual DEF q
<1>6. Parent(q) = r
  <2>1. Parent(q) = SubSeq(q, 1, k - 1)
    BY <1>2 DEF Parent, Front
  <2>2. SubSeq(q, 1, k - 1) = r
    <3>1. CASE k = 1
      BY <1>1, <1>2, <3>1, SubSeqEmpty DEF Prefix
    <3>2. CASE k # 1
      <4>1. k - 1 \in 1..Len(p) /\ k - 1 \in 1..Len(q)
        BY <1>1, <1>2, <3>2
      <4> HIDE DEF q
      <4>2. /\ SubSeq(q, 1, k - 1) \in Seq(Segments) /\ Len(SubSeq(q, 1, k - 1)) = k - 1
            /\ \A i \in 1..(k - 1) : SubSeq(q, 1, k - 1)[i] = q[i]
        BY <1>2, <4>1, SubSeqProperties DEF q
      <4>3. \A i \in 1..(k - 1) : q[i] = p[i]
        BY <1>2 DEF q
      <4> HIDE DEF r
      <4> QED
        BY <1>3, <4>2, <4>3, SeqEqual DEF r
    <3> QED
      BY <3>1, <3>2
  <2> QED
    BY <2>1, <2>2
<1>7. q \in Paths
  BY <1>2, PathFacts, EmptySeq
<1> QED
  BY <1>2, <1>4, <1>5, <1>6, <1>7

LEMMA FileFacts ==
  ASSUME NEW lines, IsFile(lines)
  PROVE  /\ lines \in Lines /\ Len(lines) \in Nat /\ DOMAIN lines = 1..Len(lines)
         /\ \A i \in DOMAIN lines : lines[i] \in LineType /\ lines[i].path \in Paths
                                    /\ lines[i].path[1] # Off /\ At(lines, lines[i].path) = lines[i]
         /\ \A p \in Keys(lines) : p \in Paths /\ p[1] # Off /\ \E i \in DOMAIN lines : lines[i].path = p
<1>1. lines \in Lines
  BY DEF IsFile
<1>2. Len(lines) \in Nat /\ DOMAIN lines = 1..Len(lines)
  BY <1>1, SeqFacts DEF Lines
<1>3. ASSUME NEW i \in DOMAIN lines
      PROVE  /\ lines[i] \in LineType /\ lines[i].path \in Paths
             /\ lines[i].path[1] # Off /\ At(lines, lines[i].path) = lines[i]
  <2>1. lines[i] \in ToSet(lines)
    BY DEF ToSet
  <2>2. lines[i].path[1] # Off
    BY <2>1 DEF IsFile, isAttached
  <2>3. \A j \in DOMAIN lines : lines[j].path = lines[i].path => i = j
    BY DEF IsFile, Parses
  <2>4. Positions(lines, lines[i].path) = {i}
    BY <2>3 DEF Positions
  <2>5. At(lines, lines[i].path) = lines[i]
    BY <2>4 DEF At
  <2> QED
    BY <1>1, <2>2, <2>5, LineOfLines
<1>4. \A p \in Keys(lines) : \E i \in DOMAIN lines : lines[i].path = p
  BY KeysFacts
<1> QED
  BY <1>1, <1>2, <1>3, <1>4

\* The node of a line says of it all but its blank line and its bytes.
LEMMA NodeOfLine ==
  ASSUME NEW lines, IsFile(lines)
  PROVE  LET doc == Nodes(lines)
         IN  /\ \A p : p # <<>> => (Has(doc, p) <=> p \in Keys(lines))
             /\ \A p \in Keys(lines) :
                  /\ At(doc, p).kind = At(lines, p).kind /\ At(doc, p).val = At(lines, p).val
                  /\ At(doc, p).style = At(lines, p).style /\ At(doc, p).head = At(lines, p).head
                  /\ At(doc, p).line = At(lines, p).line
             /\ \A p : p # <<>> /\ Has(doc, p) => KindAt(doc, p) = At(lines, p).kind
             /\ \A i \in DOMAIN lines : At(doc, lines[i].path).at = i
<1> DEFINE doc == Nodes(lines)
<1>1. DOMAIN doc = DOMAIN lines
  BY DEF Nodes
<1>2. \A i \in DOMAIN lines :
        /\ doc[i].path = lines[i].path /\ doc[i].kind = lines[i].kind /\ doc[i].val = lines[i].val
        /\ doc[i].style = lines[i].style /\ doc[i].head = lines[i].head /\ doc[i].line = lines[i].line
        /\ doc[i].at = i
  BY DEF Nodes
<1> HIDE DEF doc
<1>3. \A p : Positions(doc, p) = Positions(lines, p)
  BY <1>1, <1>2 DEF Positions
<1>4. ASSUME NEW p, p # <<>> PROVE Has(doc, p) <=> p \in Keys(lines)
  BY <1>1, <1>2, <1>3, <1>4, KeysFacts DEF Has, Positions
<1>5. ASSUME NEW p \in Keys(lines)
      PROVE  /\ At(doc, p).kind = At(lines, p).kind /\ At(doc, p).val = At(lines, p).val
             /\ At(doc, p).style = At(lines, p).style /\ At(doc, p).head = At(lines, p).head
             /\ At(doc, p).line = At(lines, p).line
  <2>1. PICK i \in DOMAIN lines : lines[i].path = p
    BY KeysFacts
  <2>2. Positions(lines, p) = {i}
    BY <2>1 DEF IsFile, Parses, Positions
  <2>3. Positions(doc, p) = {i}
    BY <1>3, <2>2
  <2>4. At(lines, p) = lines[i]
    BY <2>2 DEF At
  <2>5. At(doc, p) = doc[i]
    BY <2>3 DEF At
  <2> QED
    BY <1>2, <2>1, <2>4, <2>5
<1>6. \A p : p # <<>> /\ Has(doc, p) => KindAt(doc, p) = At(lines, p).kind
  BY <1>4, <1>5 DEF KindAt
<1>7. ASSUME NEW i \in DOMAIN lines PROVE At(doc, lines[i].path).at = i
  <2>1. Positions(lines, lines[i].path) = {i}
    BY DEF IsFile, Parses, Positions
  <2>2. Positions(doc, lines[i].path) = {i}
    BY <1>3, <2>1
  <2>3. At(doc, lines[i].path) = doc[i]
    BY <2>2 DEF At
  <2> QED
    BY <1>2, <2>3
<1> QED
  BY <1>4, <1>5, <1>6, <1>7 DEF doc

\* A line stands under a container of its kind.
LEMMA ParentFacts ==
  ASSUME NEW lines, IsFile(lines), NEW p \in Keys(lines)
  PROVE  IF Len(p) = 1 THEN ~isIndex(p[1])
         ELSE /\ Parent(p) \in Keys(lines)
              /\ At(lines, Parent(p)).kind = (IF isIndex(Last(p)) THEN "seq" ELSE "map")
<1>1. PICK i \in DOMAIN lines : lines[i].path = p
  BY FileFacts
<1>2. p \in Paths /\ Len(p) \in Nat \ {0} /\ Len(Parent(p)) = Len(p) - 1
  BY FileFacts, PathFacts
<1>3. IF Parent(p) = <<>> THEN ~isIndex(Last(p))
      ELSE \E j \in 1 .. (i - 1) : /\ lines[j].path = Parent(p)
                                   /\ lines[j].kind = (IF isIndex(Last(p)) THEN "seq" ELSE "map")
  BY <1>1 DEF IsFile, Parses
<1>4. CASE Len(p) = 1
  <2>1. Last(p) = p[1] /\ Len(Parent(p)) = 0 /\ Parent(p) \in Seq(Segments)
    BY <1>2, <1>4, PathFacts DEF Last
  <2>2. Parent(p) = <<>>
    BY <2>1, EmptySeq
  <2> QED
    BY <1>3, <1>4, <2>1, <2>2
<1>5. CASE Len(p) # 1
  <2>1. Parent(p) # <<>>
    BY <1>2, <1>5
  <2>2. PICK j \in 1 .. (i - 1) : /\ lines[j].path = Parent(p)
                                  /\ lines[j].kind = (IF isIndex(Last(p)) THEN "seq" ELSE "map")
    BY <1>3, <2>1
  <2>3. j \in DOMAIN lines
    BY <2>2, FileFacts
  <2>4. Parent(p) \in Keys(lines) /\ At(lines, Parent(p)) = lines[j]
    BY <2>2, <2>3, KeysFacts, FileFacts
  <2> QED
    BY <1>5, <2>2, <2>4
<1> QED
  BY <1>4, <1>5

\* Every prefix of a key is a key, and the way to it leads through containers.
LEMMA PrefixesAreKeys ==
  ASSUME NEW lines, IsFile(lines), NEW p \in Keys(lines)
  PROVE  /\ \A k \in 1..Len(p) : Prefix(p, k) \in Keys(lines)
         /\ ~isIndex(p[1])
         /\ \A k \in 1..(Len(p) - 1) :
              At(lines, Prefix(p, k)).kind = (IF isIndex(p[k + 1]) THEN "seq" ELSE "map")
<1> DEFINE m == Len(p)
           S == {j \in Nat : j < m => Prefix(p, m - j) \in Keys(lines)}
<1>1. p \in Paths /\ m \in Nat \ {0} /\ p \in Seq(Segments)
  BY FileFacts, PathFacts
<1>2. 0 \in S
  <2>1. Prefix(p, m - 0) = p
    BY <1>1, SubSeqFull DEF Prefix
  <2> QED
    BY <2>1
<1>3. ASSUME NEW k \in 1..(m - 1), Prefix(p, k + 1) \in Keys(lines)
      PROVE  /\ Prefix(p, k) \in Keys(lines)
             /\ At(lines, Prefix(p, k)).kind = (IF isIndex(p[k + 1]) THEN "seq" ELSE "map")
  <2>1. k + 1 \in 1..m /\ (k + 1) - 1 = k /\ k + 1 # 1
    BY <1>1
  <2> DEFINE q == Prefix(p, k + 1)
  <2>2. Len(q) = k + 1 /\ Last(q) = p[k + 1] /\ Parent(q) = Prefix(p, k)
    BY <1>1, <2>1, PrefixFacts
  <2>3. q \in Keys(lines)
    BY <1>3
  <2> HIDE DEF q
  <2>4. IF Len(q) = 1 THEN ~isIndex(q[1])
        ELSE /\ Parent(q) \in Keys(lines)
             /\ At(lines, Parent(q)).kind = (IF isIndex(Last(q)) THEN "seq" ELSE "map")
    BY <2>3, ParentFacts
  <2> QED
    BY <2>1, <2>2, <2>4
<1>4. ASSUME NEW j \in Nat, j \in S PROVE j + 1 \in S
  <2> SUFFICES ASSUME j + 1 < m PROVE Prefix(p, m - (j + 1)) \in Keys(lines)
    OBVIOUS
  <2> DEFINE k == m - (j + 1)
  <2>1. k \in 1..(m - 1) /\ k + 1 = m - j /\ j < m
    BY <1>1
  <2>2. Prefix(p, k + 1) \in Keys(lines)
    BY <1>4, <2>1
  <2> HIDE DEF k, m
  <2>3. Prefix(p, k) \in Keys(lines)
    BY <1>3, <2>1, <2>2
  <2> QED
    BY <2>3 DEF k
<1> HIDE DEF S
<1>5. Nat \subseteq S
  BY <1>2, <1>4, Successors
<1>6. ASSUME NEW k \in 1..m PROVE Prefix(p, k) \in Keys(lines)
  <2>1. m - k \in Nat /\ m - k < m /\ m - (m - k) = k
    BY <1>1
  <2>2. m - k \in S
    BY <1>5, <2>1
  <2> QED
    BY <2>1, <2>2 DEF S
<1>7. ~isIndex(p[1])
  <2>1. 1 \in 1..m /\ 1 \in 1..1
    BY <1>1
  <2>2. Len(Prefix(p, 1)) = 1 /\ \A i \in 1..1 : Prefix(p, 1)[i] = p[i]
    BY <1>1, <2>1, PrefixFacts
  <2>3. Prefix(p, 1)[1] = p[1] /\ Prefix(p, 1) \in Keys(lines)
    BY <1>6, <2>1, <2>2
  <2> QED
    BY <2>2, <2>3, ParentFacts
<1>8. ASSUME NEW k \in 1..(m - 1)
      PROVE  At(lines, Prefix(p, k)).kind = (IF isIndex(p[k + 1]) THEN "seq" ELSE "map")
  <2>1. k + 1 \in 1..m
    BY <1>1
  <2> QED
    BY <1>3, <1>6, <2>1
<1> QED
  BY <1>6, <1>7, <1>8

\* On the way to a line a reader meets containers of its kind, and no alias.
LEMMA OnTheWay ==
  ASSUME NEW lines, IsFile(lines), NEW p \in Keys(lines), NEW i \in 1..Len(p)
  PROVE  LET doc == Nodes(lines)
             cur == Prefix(p, i - 1)
         IN  /\ Append(cur, p[i]) = Prefix(p, i) /\ Prefix(p, i) # <<>> /\ Has(doc, Prefix(p, i))
             /\ cur # Nowhere /\ Prefix(p, i) # Nowhere
             /\ resolveAlias(doc, cur) = cur
             /\ KindAt(doc, cur) = (IF isIndex(p[i]) THEN "seq" ELSE "map")
<1> DEFINE doc == Nodes(lines)
           m == Len(p)
           k == i - 1
<1>1. p \in Paths /\ m \in Nat \ {0} /\ p \in Seq(Segments) /\ p[1] # Off
  BY FileFacts, PathFacts
<1>2. ASSUME NEW j \in 1..m
      PROVE  /\ Prefix(p, j) \in Keys(lines) /\ Has(doc, Prefix(p, j))
             /\ Prefix(p, j) # <<>> /\ Prefix(p, j) # Nowhere
  <2>1. /\ Prefix(p, j) \in Paths /\ \A h \in 1..j : Prefix(p, j)[h] = p[h]
    BY <1>1, PrefixFacts
  <2>2. 1 \in 1..j
    BY <1>1
  <2>3. Prefix(p, j) # <<>> /\ Prefix(p, j)[1] # Off
    BY <1>1, <2>1, <2>2, PathFacts
  <2>4. Prefix(p, j) \in Keys(lines)
    BY PrefixesAreKeys
  <2> QED
    BY <2>3, <2>4, NodeOfLine DEF Nowhere
<1>3. Append(Prefix(p, k), p[i]) = Prefix(p, i)
  BY <1>1, PrefixFacts
<1>4. CASE i = 1
  <2>1. Prefix(p, k) = <<>>
    BY <1>4, SubSeqEmpty DEF Prefix
  <2>2. resolveAlias(doc, <<>>) = <<>> /\ KindAt(doc, <<>>) = "map" /\ <<>> # Nowhere
    BY DEF resolveAlias, KindAt, Nowhere
  <2>3. ~isIndex(p[i])
    BY <1>4, PrefixesAreKeys
  <2> QED
    BY <1>2, <1>3, <2>1, <2>2, <2>3
<1>5. CASE i # 1
  <2>1. k \in 1..(m - 1) /\ k \in 1..m /\ k + 1 = i
    BY <1>1, <1>5
  <2>2. At(lines, Prefix(p, k)).kind = (IF isIndex(p[i]) THEN "seq" ELSE "map")
    BY <2>1, PrefixesAreKeys
  <2>3. /\ Prefix(p, k) # <<>> /\ Prefix(p, k) # Nowhere
        /\ Prefix(p, k) \in Keys(lines) /\ Has(doc, Prefix(p, k))
    BY <1>2, <2>1
  <2>4. At(doc, Prefix(p, k)).kind = At(lines, Prefix(p, k)).kind
    BY <2>3, NodeOfLine
  <2> HIDE DEF doc, k
  <2>5. At(doc, Prefix(p, k)).kind # "alias"
    BY <2>2, <2>4
  <2>6. resolveAlias(doc, Prefix(p, k)) = Prefix(p, k)
    BY <2>5 DEF resolveAlias
  <2>7. KindAt(doc, Prefix(p, k)) = (IF isIndex(p[i]) THEN "seq" ELSE "map")
    BY <2>2, <2>3, <2>4 DEF KindAt
  <2> QED
    BY <1>2, <1>3, <2>3, <2>6, <2>7 DEF doc, k
<1> QED
  BY <1>4, <1>5

LEMMA WholePath ==
  ASSUME NEW p \in Paths
  PROVE  Prefix(p, 0) = <<>> /\ Prefix(p, Len(p)) = p
BY PathFacts, SubSeqFull, SubSeqEmpty DEF Prefix

\* A walk that finds each segment below the ones before it has found the path.
LEMMA Walked ==
  ASSUME NEW p \in Paths, NEW f, f[0] = Prefix(p, 0),
         \A i \in 1..Len(p) : f[i - 1] = Prefix(p, i - 1) => f[i] = Prefix(p, i)
  PROVE  f[Len(p)] = p
<1> DEFINE m == Len(p)
           S == {i \in Nat : i <= m => f[i] = Prefix(p, i)}
<1>1. m \in Nat
  BY PathFacts
<1>2. 0 \in S
  OBVIOUS
<1>3. ASSUME NEW i \in Nat, i \in S PROVE i + 1 \in S
  <2> SUFFICES ASSUME i + 1 <= m PROVE f[i + 1] = Prefix(p, i + 1)
    OBVIOUS
  <2>1. i + 1 \in 1..m /\ (i + 1) - 1 = i /\ i <= m
    BY <1>1
  <2> HIDE DEF m
  <2>2. f[i] = Prefix(p, i)
    BY <1>3, <2>1
  <2>3. f[(i + 1) - 1] = Prefix(p, (i + 1) - 1)
    BY <2>1, <2>2
  <2> QED
    BY <2>1, <2>3 DEF m
<1> HIDE DEF S
<1>4. m \in S
  BY <1>1, <1>2, <1>3, Successors
<1>5. f[m] = Prefix(p, m)
  BY <1>1, <1>4 DEF S
<1> QED
  BY <1>5, WholePath

\* A line is found where it stands, by a reader that goes to the place itself...
LEMMA SlotOfKey ==
  ASSUME NEW lines, IsFile(lines), NEW p \in Keys(lines)
  PROVE  findParentSlotReadOnly(Nodes(lines), p) = p
<1> DEFINE doc == Nodes(lines)
           m == Len(p)
           way == [i \in 0..m |-> Prefix(p, i)]
           IsLoop(f) == f = [i \in 0..m |-> IF i = 0 THEN <<>> ELSE stepPhysical(doc, f[i - 1], p[i])]
           upTo == CHOOSE f : IsLoop(f)
<1>1. p \in Paths /\ m \in Nat
  BY FileFacts, PathFacts
<1>2. findParentSlotReadOnly(doc, p) = upTo[m]
  BY DEF findParentSlotReadOnly
<1>3. ASSUME NEW i \in 1..m
      PROVE  stepPhysical(doc, Prefix(p, i - 1), p[i]) = Prefix(p, i)
  BY OnTheWay DEF stepPhysical
<1>4. Prefix(p, 0) = <<>>
  BY <1>1, WholePath
<1> HIDE DEF doc, m
<1>5. IsLoop(way)
  <2>1. \A i \in 1..m : i - 1 \in 0..m /\ i # 0
    BY <1>1
  <2>2. \A i \in 0..m : i = 0 \/ i \in 1..m
    BY <1>1
  <2> QED
    BY <1>3, <1>4, <2>1, <2>2
<1> HIDE DEF way
<1>6. IsLoop(upTo)
  BY <1>5
<1> HIDE DEF upTo
<1>7. upTo[0] = <<>> /\ \A i \in 1..m : upTo[i] = stepPhysical(doc, upTo[i - 1], p[i])
  <2>1. 0 \in 0..m /\ \A i \in 1..m : i \in 0..m /\ i # 0
    BY <1>1
  <2>2. \A i \in 0..m : upTo[i] = IF i = 0 THEN <<>> ELSE stepPhysical(doc, upTo[i - 1], p[i])
    BY <1>6
  <2> QED
    BY <2>1, <2>2
<1>8. upTo[m] = p
  BY <1>1, <1>3, <1>4, <1>7, Walked DEF m
<1> QED
  BY <1>2, <1>8 DEF doc

\* ... and, unless an alias stands there, by one that resolves what it meets.
LEMMA EffectiveOfKey ==
  ASSUME NEW lines, IsFile(lines), NEW p \in Keys(lines), At(lines, p).kind # "alias"
  PROVE  Effective(Nodes(lines), p) = p
<1> DEFINE doc == Nodes(lines)
           m == Len(p)
           way == [i \in 0..m |-> Prefix(p, i)]
           IsLoop(f) == f = [i \in 0..m |-> IF i = 0 THEN <<>> ELSE stepEffective(doc, f[i - 1], p[i])]
           upTo == CHOOSE f : IsLoop(f)
<1>1. p \in Paths /\ m \in Nat
  BY FileFacts, PathFacts
<1>2. Effective(doc, p) = upTo[m]
  BY DEF Effective
<1>3. ASSUME NEW i \in 1..m
      PROVE  stepEffective(doc, Prefix(p, i - 1), p[i]) = Prefix(p, i)
  <2> DEFINE cur == Prefix(p, i - 1)
  <2>1. /\ Append(cur, p[i]) = Prefix(p, i) /\ Has(doc, Prefix(p, i)) /\ cur # Nowhere
        /\ KindAt(doc, cur) = (IF isIndex(p[i]) THEN "seq" ELSE "map")
    BY OnTheWay
  <2>2. resolveAlias(doc, Prefix(p, i)) = Prefix(p, i)
    <3>1. CASE i = m
      <4>1. At(doc, p).kind # "alias"
        BY NodeOfLine
      <4> HIDE DEF doc
      <4>2. resolveAlias(doc, p) = p
        BY <4>1 DEF resolveAlias
      <4>3. Prefix(p, i) = p
        BY <1>1, <3>1, WholePath
      <4> QED
        BY <4>2, <4>3
    <3>2. CASE i # m
      <4>1. i + 1 \in 1..m /\ (i + 1) - 1 = i
        BY <1>1, <3>2
      <4>2. resolveAlias(doc, Prefix(p, (i + 1) - 1)) = Prefix(p, (i + 1) - 1)
        BY <4>1, OnTheWay
      <4> QED
        BY <4>1, <4>2
    <3> QED
      BY <3>1, <3>2
  <2> HIDE DEF doc, cur
  <2>3. mappingValueWithMerge(doc, cur, p[i]) = Prefix(p, i)
    BY <2>1 DEF mappingValueWithMerge
  <2>4. stepEffective(doc, cur, p[i]) = Prefix(p, i)
    BY <2>1, <2>2, <2>3 DEF stepEffective
  <2> QED
    BY <2>4 DEF cur
<1>4. Prefix(p, 0) = <<>>
  BY <1>1, WholePath
<1> HIDE DEF doc, m
<1>5. IsLoop(way)
  <2>1. \A i \in 1..m : i - 1 \in 0..m /\ i # 0
    BY <1>1
  <2>2. \A i \in 0..m : i = 0 \/ i \in 1..m
    BY <1>1
  <2> QED
    BY <1>3, <1>4, <2>1, <2>2
<1> HIDE DEF way
<1>6. IsLoop(upTo)
  BY <1>5
<1> HIDE DEF upTo
<1>7. upTo[0] = <<>> /\ \A i \in 1..m : upTo[i] = stepEffective(doc, upTo[i - 1], p[i])
  <2>1. 0 \in 0..m /\ \A i \in 1..m : i \in 0..m /\ i # 0
    BY <1>1
  <2>2. \A i \in 0..m : upTo[i] = IF i = 0 THEN <<>> ELSE stepEffective(doc, upTo[i - 1], p[i])
    BY <1>6
  <2> QED
    BY <2>1, <2>2
<1>8. upTo[m] = p
  BY <1>1, <1>3, <1>4, <1>7, Walked DEF m
<1> QED
  BY <1>2, <1>8 DEF doc

\* What has no line is found nowhere, or where an alias leads.
LEMMA SlotFacts ==
  ASSUME NEW lines, IsFile(lines), NEW p \in Paths
  PROVE  findParentSlotReadOnly(Nodes(lines), p) \in Keys(lines) \union {Nowhere}
<1> DEFINE doc == Nodes(lines)
           m == Len(p)
           D == Seq(Segments)
           none == <<>>
           IsLoop(f) == f = [i \in 0..m |-> IF i = 0 THEN none ELSE stepPhysical(doc, f[i - 1], p[i])]
           upTo == CHOOSE f : IsLoop(f)
           G == [i \in 1..m |-> [q \in D |-> stepPhysical(doc, q, p[i])]]
<1>1. m \in Nat \ {0} /\ \A i \in 1..m : p[i] \in Segments
  BY PathFacts
<1>2. findParentSlotReadOnly(doc, p) = upTo[m]
  BY DEF findParentSlotReadOnly
<1>3. doc \in Docs /\ \A q : q # <<>> /\ Has(doc, q) => q \in Keys(lines)
  BY NodesDoc, NodeOfLine DEF IsFile
<1> HIDE DEF doc, m
<1>4. ASSUME NEW q \in D, NEW i \in 1..m
      PROVE  /\ stepPhysical(doc, q, p[i]) \in Keys(lines) \union {Nowhere}
             /\ stepPhysical(doc, q, p[i]) \in D
  <2> DEFINE at == resolveAlias(doc, q)
  <2>1. at \in D
    <3>1. CASE q = <<>>
      BY <3>1, EmptySeq DEF resolveAlias
    <3>2. CASE q # <<>>
      BY <1>3, <3>2, ResolvedPath, PathFacts
    <3> QED
      BY <3>1, <3>2
  <2>2. stepPhysical(doc, q, p[i]) = IF at = Nowhere \/ ~Has(doc, Append(at, p[i])) THEN Nowhere
                                     ELSE Append(at, p[i])
    BY DEF stepPhysical
  <2> HIDE DEF at
  <2>3. Append(at, p[i]) \in Paths /\ Append(at, p[i]) # <<>>
    BY <1>1, <2>1, AppendedPath, PathFacts
  <2>4. Nowhere \in D
    BY OffPath, PathFacts
  <2> QED
    BY <1>3, <2>2, <2>3, <2>4, PathFacts
<1>5. none \in D
  BY EmptySeq
<1> HIDE DEF D, none
<1>6. G \in [1..m -> [D -> D]]
  BY <1>4
<1>7. \A i \in 1..m : \A q \in D : G[i][q] = stepPhysical(doc, q, p[i])
  OBVIOUS
<1> HIDE DEF G
<1>8. PICK g : IsRun(g, D, m, none, G)
  BY <1>1, <1>5, <1>6, Loop
<1>9. IsLoop(g)
  <2>1. \A i \in 1..m : i - 1 \in 0..m /\ i # 0
    BY <1>1
  <2>2. \A i \in 0..m : i = 0 \/ i \in 1..m
    BY <1>1
  <2>3. g \in [0..m -> D] /\ g[0] = none /\ \A i \in 1..m : g[i] = G[i][g[i - 1]]
    BY <1>8 DEF IsRun
  <2>4. ASSUME NEW i \in 0..m PROVE g[i] = IF i = 0 THEN none ELSE stepPhysical(doc, g[i - 1], p[i])
    BY <1>7, <2>1, <2>2, <2>3
  <2> QED
    BY <2>3, <2>4
<1>10. IsLoop(upTo)
  BY <1>9
<1> HIDE DEF upTo
<1>11. /\ upTo[0] = none /\ \A i \in 1..m : upTo[i] = stepPhysical(doc, upTo[i - 1], p[i])
  <2>1. 0 \in 0..m /\ \A i \in 1..m : i \in 0..m /\ i # 0
    BY <1>1
  <2>2. \A i \in 0..m : upTo[i] = IF i = 0 THEN none ELSE stepPhysical(doc, upTo[i - 1], p[i])
    BY <1>10
  <2> QED
    BY <2>1, <2>2
<1>12. upTo[m - 1] \in D
  <2>1. ASSUME NEW i \in 1..m, upTo[i - 1] \in D PROVE upTo[i] \in D
    BY <1>4, <1>11, <2>1
  <2>2. \A i \in 0..m : upTo[i] \in D
    BY <1>1, <1>5, <1>11, <2>1, Stays
  <2>3. m - 1 \in 0..m
    BY <1>1
  <2> QED
    BY <2>2, <2>3
<1>13. upTo[m] \in Keys(lines) \union {Nowhere}
  <2>1. m \in 1..m
    BY <1>1
  <2> QED
    BY <1>4, <1>11, <1>12, <2>1
<1> QED
  BY <1>2, <1>13 DEF doc

\* An entry with the comment that was loaded leaves the comments of the file
\* as they are.
LEMMA LoadedCommentMatches ==
  ASSUME NEW lines, IsFile(lines), NEW e, e.key \in Paths,
         e.head = Said(parseComments(lines), e.key), e.line = None
  PROVE  viaAlias(Nodes(lines), e.key) \/ commentsMatch(Nodes(lines), e)
<1> DEFINE doc == Nodes(lines)
           p == e.key
           slot == findParentSlotReadOnly(doc, p)
           at == commentsAt(doc, slot)
<1>1. slot \in Keys(lines) \union {Nowhere}
  BY SlotFacts
<1>2. overrideCommentsMatch(e, at.head, at.line) => commentsMatch(doc, e)
  BY DEF commentsMatch
<1>3. p \in Keys(lines) => slot = p
  BY SlotOfKey
<1>4. Nowhere \notin Keys(lines)
  BY FileFacts DEF Nowhere
<1>5. p \in DOMAIN parseComments(lines) => p \in Keys(lines)
  BY DEF parseComments, Keys
<1> SUFFICES ASSUME slot \in {Nowhere, p} PROVE overrideCommentsMatch(e, at.head, at.line)
  BY <1>2 DEF viaAlias
<1>6. CASE p \notin Keys(lines)
  <2>1. slot = Nowhere
    BY <1>1, <1>6
  <2>2. at.head = None /\ at.line = None
    BY <2>1 DEF commentsAt
  <2>3. e.head = None
    BY <1>5, <1>6 DEF Said
  <2> QED
    BY <2>2, <2>3 DEF overrideCommentsMatch
<1>7. CASE p \in Keys(lines)
  <2> DEFINE n == At(lines, p)
  <2>1. slot = p /\ p # Nowhere
    BY <1>3, <1>4, <1>7
  <2>2. at.head = n.head /\ at.line = n.line
    BY <1>7, <2>1, NodeOfLine DEF commentsAt
  <2>3. /\ p \in DOMAIN parseComments(lines) <=> bestComment(n) # None
        /\ p \in DOMAIN parseComments(lines) => parseComments(lines)[p] = bestComment(n)
    <3>1. \A k \in ToSet(lines) : At(lines, k.path) = k
      BY FileFacts DEF ToSet
    <3>2. n \in ToSet(lines) /\ n.path = p
      <4>1. PICK i \in DOMAIN lines : lines[i].path = p
        BY <1>7, FileFacts
      <4>2. At(lines, p) = lines[i]
        BY <4>1, FileFacts
      <4> QED
        BY <4>1, <4>2 DEF ToSet
    <3>3. DOMAIN parseComments(lines) = {k.path : k \in {j \in ToSet(lines) : bestComment(j) # None}}
      BY DEF parseComments
    <3>4. p \in DOMAIN parseComments(lines) => parseComments(lines)[p] = bestComment(n)
      BY DEF parseComments
    <3> HIDE DEF n
    <3>5. bestComment(n) # None => p \in DOMAIN parseComments(lines)
      BY <3>2, <3>3
    <3>6. p \in DOMAIN parseComments(lines) => bestComment(n) # None
      BY <3>1, <3>3 DEF n
    <3> QED
      BY <3>4, <3>5, <3>6
  <2> HIDE DEF n
  <2>4. e.head = bestComment(n)
    BY <2>3 DEF Said
  <2> QED
    BY <2>2, <2>4 DEF overrideCommentsMatch, bestComment
<1> QED
  BY <1>6, <1>7

-----------------------------------------------------------------------------
(* A save after edits of values only.                                       *)

LEMMA OpenedIsFile ==
  ASSUME NEW text \in Texts
  PROVE  IsFile(text.lines) /\ ReadersAgree(text.lines)
BY DocumentsAssumption, TextFacts DEF IsFile

\* What both readers of an opened file say of a key.
LEMMA ReadValue ==
  ASSUME NEW text \in Texts, NEW p \in DOMAIN Loaded(text).vals
  PROVE  LET doc == Nodes(text.lines)
             val == Loaded(text).vals[p]
         IN  IF val \in {None, Empty} THEN treeNodeMatchesContainerType(doc, p)
             ELSE findEffectiveScalar(doc, p) = val
BY OpenedIsFile DEF ReadersAgree, Loaded

\* The value of a line of its own: a container has none, a scalar the one of
\* the line.
LEMMA LineValue ==
  ASSUME NEW text \in Texts, NEW p \in Keys(text.lines), p \in DOMAIN Loaded(text).vals,
         At(text.lines, p).kind # "alias"
  PROVE  LET n == At(text.lines, p)
             val == Loaded(text).vals[p]
         IN  /\ n.kind = "scalar" => /\ val = n.val /\ val \notin {None, Empty}
                                     /\ findEffectiveScalar(Nodes(text.lines), p) = n.val
             /\ n.kind # "scalar" => val \in {None, Empty}
<1> DEFINE doc == Nodes(text.lines)
           n == At(text.lines, p)
           val == Loaded(text).vals[p]
<1>1. IsFile(text.lines)
  BY OpenedIsFile
<1>2. Effective(doc, p) = p
  BY <1>1, EffectiveOfKey
<1>3. p # <<>> /\ p # Nowhere
  BY <1>1, FileFacts, PathFacts DEF Nowhere
<1>4. Has(doc, p) /\ KindAt(doc, p) = n.kind /\ At(doc, p).val = n.val
  BY <1>1, <1>3, NodeOfLine
<1>5. IF val \in {None, Empty} THEN treeNodeMatchesContainerType(doc, p)
      ELSE findEffectiveScalar(doc, p) = val
  BY ReadValue
<1>6. treeNodeMatchesContainerType(doc, p) => n.kind \in {"map", "seq"}
  BY <1>2, <1>4 DEF treeNodeMatchesContainerType, isContainer
<1>7. findEffectiveScalar(doc, p) = IF n.kind = "scalar" THEN n.val ELSE None
  BY <1>2, <1>4 DEF findEffectiveScalar, scalarAt
<1> HIDE DEF doc, n, val
<1> QED
  BY <1>5, <1>6, <1>7 DEF doc, n, val

\* As long as no anchor was worked on, the tree is that of the file.
TreeKept ==
    ~anchored /\ values # NoValues /\ values.raw = opened /\ opened.lines # <<>> =>
        values.tree = Nodes(opened.lines)

LEMMA TreeKeptAtFirst ==
  ASSUME Init
  PROVE  TreeKept
BY DEF Init, TreeKept, Loaded

LEMMA TreeKeptByStep ==
  ASSUME TypeOK, TreeKept, [Next]_vars
  PROVE  TreeKept'
<1> SUFFICES ASSUME ~anchored', values' # NoValues, values'.raw = opened', opened'.lines # <<>>
             PROVE  values'.tree = Nodes(opened'.lines)
  BY DEF TreeKept
<1>1. opened' = opened
  BY StepKinds DEF Edits, vars, onSaveColumnValues, pollEditorParse
<1>2. values # NoValues /\ values.raw = opened
  BY <1>1, RawStays
<1>3. DOMAIN values = {"raw", "tree", "vals", "comments", "docs", "coding"}
  BY <1>2 DEF TypeOK, IsValues
<1>4. ASSUME ~anchored, values'.tree = values.tree PROVE values'.tree = Nodes(opened'.lines)
  BY <1>1, <1>2, <1>4 DEF TreeKept
<1>5. CASE UNCHANGED <<values, anchored>>
  BY <1>4, <1>5
<1>6. CASE pollEditorParse
  <2>1. values' = values \/ values' = MergeLoadedMetadata(Parsed(asked), values)
    BY <1>2, <1>6 DEF pollEditorParse
  <2>2. MergeLoadedMetadata(Parsed(asked), values).tree = values.tree
    BY <1>3 DEF MergeLoadedMetadata
  <2> QED
    BY <1>4, <1>6, <2>1, <2>2 DEF pollEditorParse
<1>7. ASSUME NEW tree, OnTree(tree) PROVE FALSE
  BY <1>7 DEF OnTree
<1>8. ASSUME NEW r, onCellNullify(r) PROVE values'.tree = Nodes(opened'.lines)
  <2>1. ~anchored /\ Severed(r) = values
    BY <1>8 DEF onCellNullify
  <2>2. values' = values \/ values' = Severed(r)
    BY <1>8 DEF onCellNullify, Publish, Parse, Nullify, nullifyCell, unnullifyCell
  <2> QED
    BY <1>4, <2>1, <2>2
<1>9. CASE onCommentChanged
  <2>1. values'.tree = values.tree
    BY <1>3, <1>9 DEF onCommentChanged
  <2> QED
    BY <1>4, <1>9, <2>1 DEF onCommentChanged
<1>10. ASSUME NEW r, TypeText(r) PROVE values'.tree = Nodes(opened'.lines)
  <2>1. values' = values /\ anchored' = anchored
    BY <1>10 DEF TypeText, Type, Publish, Parse
  <2> QED
    BY <1>5, <2>1
<1>11. CASE onSaveColumnValues
  BY <1>5, <1>11 DEF onSaveColumnValues
<1> QED
  BY <1>5, <1>6, <1>7, <1>8, <1>9, <1>10, <1>11
     DEF Next, vars, onAnchorCreate, onAnchorAlias, onUnlockCell, onAnchorRename, onAnchorDelete

LEMMA CollectedRows ==
  ASSUME entries.order \in Seq(Paths), NEW v, NEW cs, NEW ns, ns \subseteq rows
  PROVE  LET es == collectOverrides(v, cs, ns)
         IN  /\ \A e \in ToSet(es) :
                  \E r \in rows : IsCollected(v, cs, ns, r) /\ e = EntryOf(v, cs, ns, r)
             /\ \A r \in rows : IsCollected(v, cs, ns, r) => EntryOf(v, cs, ns, r) \in ToSet(es)
<1> DEFINE places == {i \in DOMAIN entries.order : IsCollected(v, cs, ns, entries.order[i])}
           wanted == Picked(entries.order, places)
           es == RowEntries(v, cs, ns)
<1>1. es = [i \in DOMAIN wanted |-> EntryOf(v, cs, ns, wanted[i])]
  BY DEF RowEntries
<1>2. DOMAIN entries.order = 1..Len(entries.order)
  BY SeqFacts
<1>3. \A r : r \in ToSet(wanted) <=> r \in rows /\ IsCollected(v, cs, ns, r)
  <2>1. \A r : r \in ToSet(wanted) <=>
          \E i \in 1..Len(entries.order) : i \in places /\ r = entries.order[i]
    <3> HIDE DEF places
    <3> QED
      BY PickedFacts
  <2> QED
    BY <1>2, <2>1 DEF rows, ToSet
<1>4. Len(wanted) \in Nat /\ DOMAIN wanted = 1..Len(wanted)
  <2>1. wanted \in Seq(Paths)
    BY PickedFacts
  <2> HIDE DEF wanted
  <2> QED
    BY <2>1, SeqFacts
<1> HIDE DEF wanted, es
<1>5. collectOverrides(v, cs, ns) = es
  <2>1. orphans(ns) = <<>>
    <3>1. {r \in ns \ rows : ~hasNullifiedAncestor(r, ns)} = {}
      OBVIOUS
    <3>2. orphans(ns) = SetToSeq({})
      BY <3>1 DEF orphans
    <3>3. IsFiniteSet({}) /\ {} \subseteq {}
      BY FS_EmptySet
    <3>4. SetToSeq({}) \in Seq({})
      BY <3>3, SetInSeq
    <3>5. Len(orphans(ns)) = 0
      BY <3>2, <3>4, SeqFacts
    <3> QED
      BY <3>2, <3>4, <3>5, EmptySeq
  <2>2. OrphanEntries(ns) = <<>>
    BY <2>1 DEF OrphanEntries
  <2>3. es \in Seq(ToSet(es))
    BY <1>1, <1>4 DEF ToSet
  <2> QED
    BY <2>2, <2>3, CollectedParts, ConcatEmptySeq DEF es
<1>6. ASSUME NEW e \in ToSet(es)
      PROVE  \E r \in rows : IsCollected(v, cs, ns, r) /\ e = EntryOf(v, cs, ns, r)
  <2>1. PICK i \in DOMAIN es : e = es[i]
    BY DEF ToSet
  <2>2. wanted[i] \in ToSet(wanted) /\ e = EntryOf(v, cs, ns, wanted[i])
    BY <1>1, <2>1 DEF ToSet
  <2> QED
    BY <1>3, <2>2
<1>7. ASSUME NEW r \in rows, IsCollected(v, cs, ns, r)
      PROVE  EntryOf(v, cs, ns, r) \in ToSet(es)
  <2>1. PICK i \in DOMAIN wanted : wanted[i] = r
    BY <1>3, <1>7 DEF ToSet
  <2>2. i \in DOMAIN es /\ es[i] = EntryOf(v, cs, ns, r)
    BY <1>1, <2>1
  <2> QED
    BY <2>2 DEF ToSet
<1> QED
  BY <1>5, <1>6, <1>7

\* What is picked of a sequence at all its places is the sequence.
LEMMA PickedAll ==
  ASSUME NEW S, NEW s \in Seq(S), NEW places, DOMAIN s \subseteq places
  PROVE  Picked(s, places) = s
<1> DEFINE n == Len(s)
           seqs == [i \in 1..n |-> <<s[i]>>]
<1>1. n \in Nat /\ DOMAIN s = 1..n /\ \A i \in 1..n : s[i] \in S
  BY SeqFacts
<1>2. [i \in DOMAIN s |-> IF i \in places THEN <<s[i]>> ELSE <<>>] = seqs
  BY <1>1
<1>3. Picked(s, places) = FlattenSeq(seqs)
  BY <1>2 DEF Picked
<1>4. seqs \in Seq(Seq(S)) /\ Len(seqs) = n /\ \A i \in 1..n : seqs[i] = <<s[i]>>
  BY <1>1, SingleFacts
<1> HIDE DEF seqs
<1>5. CASE n = 0
  <2>1. seqs = <<>> /\ s = <<>>
    BY <1>4, <1>5, EmptySeq
  <2> QED
    BY <1>3, <2>1 DEF FlattenSeq
<1>6. CASE n # 0
  <2> DEFINE Good(x, m) == x \in Seq(S) /\ Len(x) = m /\ \A k \in 1..m : x[k] = s[k]
  <2>1. PICK f : /\ FlattenSeq(seqs) = f[n] /\ f[1] = seqs[1]
                 /\ \A i \in 2..n : f[i] = f[i - 1] \o seqs[i]
    <3>1. seqs \in Seq(Seq(S)) /\ Len(seqs) = n
      BY <1>4
    <3> HIDE DEF n
    <3>2. Len(seqs) # 0
      BY <3>1, <1>6
    <3>3. \E f : /\ FlattenSeq(seqs) = f[Len(seqs)] /\ f[1] = seqs[1]
                /\ \A i \in 2..Len(seqs) : f[i] = f[i - 1] \o seqs[i]
      BY <3>1, <3>2, FlattenedSteps
    <3> QED
      BY <3>1, <3>3
  <2> DEFINE T == {k \in Nat : k + 1 <= n => Good(f[k + 1], k + 1)}
  <2>2. 0 \in T
    <3>1. 1 \in 1..n
      BY <1>1, <1>6
    <3>2. f[1] = <<s[1]>> /\ s[1] \in S
      BY <1>1, <1>4, <2>1, <3>1
    <3>3. Good(f[1], 1)
      BY <3>2
    <3> QED
      BY <3>3
  <2>3. ASSUME NEW k \in Nat, k \in T PROVE k + 1 \in T
    <3> SUFFICES ASSUME (k + 1) + 1 <= n PROVE Good(f[(k + 1) + 1], (k + 1) + 1)
      OBVIOUS
    <3> DEFINE i == (k + 1) + 1
    <3>1. i \in 2..n /\ i \in 1..n /\ i - 1 = k + 1 /\ i \in Nat /\ k + 1 <= n
      BY <1>1
    <3>2. Good(f[i - 1], i - 1)
      BY <2>3, <3>1
    <3>3. f[i] = f[i - 1] \o <<s[i]>> /\ s[i] \in S
      BY <1>1, <1>4, <2>1, <3>1
    <3> HIDE DEF i
    <3>4. f[i] = Append(f[i - 1], s[i])
      BY <3>2, <3>3, AppendIsConcat
    <3>5. /\ f[i] \in Seq(S) /\ Len(f[i]) = i
          /\ \A j \in 1..(i - 1) : f[i][j] = f[i - 1][j]
          /\ f[i][i] = s[i]
      BY <3>1, <3>2, <3>3, <3>4, AppendProperties
    <3>6. \A j \in 1..i : j \in 1..(i - 1) \/ j = i
      BY <3>1
    <3>7. Good(f[i], i)
      BY <3>2, <3>5, <3>6
    <3> QED
      BY <3>7 DEF i
  <2> HIDE DEF T
  <2>4. Nat \subseteq T
    BY <2>2, <2>3, Successors
  <2>5. n - 1 \in Nat /\ (n - 1) + 1 = n /\ n <= n
    BY <1>1, <1>6
  <2>6. Good(f[n], n)
    BY <2>4, <2>5 DEF T
  <2>7. f[n] = s
    BY <1>1, <2>6, SeqEqual
  <2> QED
    BY <1>3, <2>1, <2>7
<1> QED
  BY <1>5, <1>6

\* Every value of an opened file has a row.
LEMMA ValuesHaveRows ==
  ASSUME NEW text \in Texts
  PROVE  DOMAIN Loaded(text).vals \subseteq DOMAIN populated(text)
<1> DEFINE v == Loaded(text)
           tree == Nodes(text.lines)
           files == Expanded(tree)
           paths == [i \in DOMAIN files |-> files[i].path]
           own == {i \in DOMAIN files : paths[i] \in DOMAIN v.vals \ ToSet(Defaults)}
           order == RebuildUnifiedEntries(v).order
<1>1. IsFile(text.lines)
  BY OpenedIsFile
<1>2. tree \in Docs
  BY <1>1, NodesDoc DEF IsFile
<1>3. Attached(tree) = tree
  <2>1. \A i \in DOMAIN tree : isAttached(tree[i])
    <3>1. DOMAIN tree = DOMAIN text.lines /\ \A i \in DOMAIN tree : tree[i].path = text.lines[i].path
      BY DEF Nodes
    <3>2. \A i \in DOMAIN text.lines : text.lines[i].path[1] # Off
      BY <1>1, FileFacts
    <3> QED
      BY <3>1, <3>2 DEF isAttached
  <2> HIDE DEF tree
  <2>2. DOMAIN tree \subseteq {i \in DOMAIN tree : isAttached(tree[i])}
    BY <2>1
  <2> QED
    BY <1>2, <2>2, PickedAll DEF Docs, Attached
<1>4. v.tree = tree /\ v.vals = flattenValues(tree)
  BY DEF Loaded
<1>5. order = Defaults \o Picked(paths, own) /\ DOMAIN populated(text) = ToSet(order)
  BY <1>4 DEF RebuildUnifiedEntries, populated
<1>6. files \in Docs
  BY <1>2, ExpandedDoc
<1>7. DOMAIN v.vals = {n.path : n \in ToSet(files)}
  BY <1>3, <1>4 DEF flattenValues, valuesOf
<1> HIDE DEF v, files, order, tree
<1>8. Len(files) \in Nat /\ DOMAIN files = 1..Len(files) /\ \A i \in DOMAIN files : files[i].path \in Paths
  BY <1>6, SeqFacts, ElementFacts DEF Docs
<1>9. paths \in Seq(Paths) /\ DOMAIN paths = DOMAIN files /\ Len(paths) = Len(files)
      /\ \A i \in DOMAIN files : paths[i] = files[i].path
  BY <1>8
<1> HIDE DEF paths
<1>10. /\ Picked(paths, own) \in Seq(Paths)
       /\ \A x : x \in ToSet(Picked(paths, own)) <=> \E i \in 1..Len(paths) : i \in own /\ x = paths[i]
  <2> HIDE DEF own
  <2> QED
    BY <1>9, PickedFacts
<1>11. ToSet(order) = ToSet(Defaults) \union ToSet(Picked(paths, own))
  BY <1>5, <1>10, ToSetFacts, DocumentsAssumption
<1> SUFFICES ASSUME NEW r \in DOMAIN v.vals PROVE r \in ToSet(order)
  BY <1>5 DEF v
<1>12. CASE r \in ToSet(Defaults)
  BY <1>11, <1>12
<1>13. CASE r \notin ToSet(Defaults)
  <2>1. PICK i \in DOMAIN files : files[i].path = r
    BY <1>7 DEF ToSet
  <2>2. i \in 1..Len(paths) /\ i \in own /\ paths[i] = r
    BY <1>8, <1>9, <1>13, <2>1
  <2> QED
    BY <1>10, <1>11, <2>2
<1> QED
  BY <1>12, <1>13

\* The state of a save after edits of values only.
ValuesWereEdited ==
    TypeOK /\ TreeKept /\ OnlyValuesEdited

LEMMA EditedState ==
  ASSUME ValuesWereEdited
  PROVE  /\ opened \in Texts /\ opened.lines # <<>>
         /\ IsFile(opened.lines) /\ values # NoValues
         /\ values.raw = opened /\ values.tree = Nodes(opened.lines)
         /\ values.docs = parseOrphanComments(opened)
         /\ nullified = nulls(Loaded(opened)) /\ nullified \subseteq rows
         /\ rows \subseteq Paths /\ DOMAIN populated(opened) = rows
         /\ \A r \in rows : /\ cells[r] \in Cell
                            /\ cells[r] = populated(opened)[r] \/ revalued(r)
<1>1. DOMAIN populated(opened) = rows /\ nullified = nulls(Loaded(opened))
  BY TypedState DEF ValuesWereEdited, OnlyValuesEdited
<1>2. opened \in Texts
  BY TypedState DEF ValuesWereEdited
<1>3. nullified \subseteq rows
  BY <1>1, <1>2, ValuesHaveRows DEF nulls
<1> QED
  BY <1>1, <1>3, TypedState, OpenedIsFile DEF ValuesWereEdited, OnlyValuesEdited, TreeKept

\* What the load showed of a value.
LEMMA ShownValue ==
  ASSUME ValuesWereEdited, NEW r \in rows
  PROVE  LET before == populated(opened)[r]
             file == Loaded(opened)
         IN  /\ r \notin DOMAIN file.vals => before.val = Blank
             /\ r \in DOMAIN file.vals =>
                  /\ before.head = Said(parseComments(opened.lines), r) /\ before.line = None
                  /\ before.val = IF file.vals[r] = None THEN Blank ELSE file.vals[r]
<1> DEFINE file == Loaded(opened)
<1>1. r \in ToSet(RebuildUnifiedEntries(file).order)
  BY EditedState DEF populated
<1>2. populated(opened)[r] = IF r \in DOMAIN file.vals THEN loadFormForEditor(file, r) ELSE NoCell
  BY <1>1 DEF populated
<1>3. file.comments = parseComments(opened.lines)
  BY DEF Loaded
<1> HIDE DEF file
<1> QED
  BY <1>2, <1>3 DEF loadFormForEditor, NoCell, file

\* The entry of a row that kept its cell, of a section and of a null is none
\* that has to be written.
LEMMA UntouchedIsNoEdit ==
  ASSUME ValuesWereEdited, NEW r \in rows, IsCollected(values, cells, nullified, r),
         r \in nullified \/ IsSection(r) \/ cells[r] = populated(opened)[r]
  PROVE  isNoEdit(Nodes(opened.lines), EntryOf(values, cells, nullified, r))
<1> DEFINE doc == Nodes(opened.lines)
           file == Loaded(opened)
           e == EntryOf(values, cells, nullified, r)
<1>1. IsFile(opened.lines) /\ opened \in Texts /\ r \in Paths /\ Null \notin {None, Empty}
  BY EditedState, DocumentsAssumption
<1>2. CASE r \in nullified
  <2>1. r \in DOMAIN file.vals /\ file.vals[r] = Null
    BY <1>2, EditedState DEF nulls
  <2>2. findEffectiveScalar(doc, r) = Null
    BY <1>1, <2>1, ReadValue
  <2>3. e = Entry(r, Null, CommentOf(r), None, TRUE)
    BY <1>2 DEF EntryOf
  <2>4. CommentOf(r) = Said(parseComments(opened.lines), r)
    BY <1>2 DEF ValuesWereEdited, OnlyValuesEdited, Loaded
  <2>5. e.key = r /\ e.val = Null /\ e.line = None /\ e.head = Said(parseComments(opened.lines), r)
    BY <2>3, <2>4 DEF Entry
  <2> HIDE DEF doc, e
  <2>6. viaAlias(doc, e.key) \/ commentsMatch(doc, e)
    BY <1>1, <2>5, LoadedCommentMatches DEF doc
  <2> QED
    BY <1>1, <2>2, <2>5, <2>6 DEF isNoEdit, e, doc
<1>3. CASE r \notin nullified /\ IsSection(r)
  <2>1. isPlainSection(values, cells, r)
    BY <1>3 DEF IsCollected
  <2>2. r \in DOMAIN file.vals /\ file.vals[r] \in {None, Empty}
    BY <1>3, <2>1 DEF isPlainSection, ValuesWereEdited, OnlyValuesEdited
  <2>3. treeNodeMatchesContainerType(doc, r)
    BY <1>1, <2>2, ReadValue
  <2>4. e.key = r /\ e.val = Empty
    BY <1>3 DEF EntryOf, Entry
  <2> QED
    BY <2>3, <2>4 DEF isNoEdit
<1>4. CASE r \notin nullified /\ ~IsSection(r)
  <2>1. cells[r] = populated(opened)[r] /\ cells[r].val # Blank
    BY <1>4 DEF IsCollected, isPlainSection
  <2>2. /\ r \in DOMAIN file.vals /\ file.vals[r] # None /\ cells[r].val = file.vals[r]
        /\ cells[r].head = Said(parseComments(opened.lines), r) /\ cells[r].line = None
    BY <2>1, ShownValue
  <2>3. /\ e.key = r /\ e.val = file.vals[r] /\ e.line = None
        /\ e.head = Said(parseComments(opened.lines), r)
    BY <1>4, <2>2 DEF EntryOf, Entry
  <2> HIDE DEF doc, e, file
  <2>4. viaAlias(doc, e.key) \/ commentsMatch(doc, e)
    BY <1>1, <2>3, LoadedCommentMatches DEF doc
  <2>5. IF file.vals[r] \in {None, Empty} THEN treeNodeMatchesContainerType(doc, r)
        ELSE findEffectiveScalar(doc, r) = file.vals[r]
    BY <1>1, <2>2, ReadValue DEF doc, file
  <2> QED
    BY <2>2, <2>3, <2>4, <2>5 DEF isNoEdit, e, doc
<1> QED
  BY <1>2, <1>3, <1>4

\* A row whose value was changed, and the line it stands at.
LEMMA RevaluedFacts ==
  ASSUME ValuesWereEdited, NEW r \in rows, revalued(r)
  PROVE  /\ r \in Keys(opened.lines) /\ ~IsSection(r) /\ cells[r].val \notin {Blank, Empty}
         /\ IsLoaded(values, r) => values.vals[r] # Null
         /\ LET n == At(opened.lines, r)
            IN  /\ n.kind = "scalar" /\ n.style = "plain" /\ n.val # None /\ n.val # Null
                /\ n.anchor = None
                /\ Loaded(opened).vals[r] = n.val /\ r \in DOMAIN Loaded(opened).vals
                /\ findEffectiveScalar(Nodes(opened.lines), r) = n.val
                /\ populated(opened)[r].val = n.val
         /\ cells[r].head = Said(parseComments(opened.lines), r) /\ cells[r].line = None
         /\ cells[r] # populated(opened)[r] <=> cells[r].val # At(opened.lines, r).val
<1> DEFINE n == At(opened.lines, r)
           before == populated(opened)[r]
<1>1. IsFile(opened.lines) /\ opened \in Texts /\ r \in Paths /\ cells[r] \in Cell
  BY EditedState
<1>2. /\ ~IsSection(r) /\ r \in DOMAIN Loaded(opened).vals /\ Has(opened.lines, r)
      /\ n.kind = "scalar" /\ n.style = "plain" /\ n.val # Null /\ n.anchor = None
      /\ cells[r].val \notin {Blank, Empty} /\ cells[r] = [before EXCEPT !.val = cells[r].val]
      /\ IsLoaded(values, r) => values.vals[r] # Null
  BY DEF revalued, Leaves
<1>3. r \in Keys(opened.lines)
  BY <1>1, <1>2, PathFacts, KeysFacts DEF Has, Positions
<1>4. /\ Loaded(opened).vals[r] = n.val /\ n.val \notin {None, Empty}
      /\ findEffectiveScalar(Nodes(opened.lines), r) = n.val
  BY <1>1, <1>2, <1>3, LineValue
<1>5. /\ before.head = Said(parseComments(opened.lines), r) /\ before.line = None
      /\ before.val = n.val
  BY <1>2, <1>4, ShownValue
<1>6. before \in Cell
  <2>1. opened \in TextType /\ opened.coding \in {"plain", opened.coding}
    BY TypedState DEF ValuesWereEdited
  <2> QED
    BY <2>1, PopulatedCells, EditedState
<1> HIDE DEF n, before
<1>7. cells[r].head = before.head /\ cells[r].line = before.line
  BY <1>2, <1>6 DEF Cell
<1>8. cells[r] # before <=> cells[r].val # before.val
  BY <1>1, <1>6, <1>7 DEF Cell
<1> QED
  BY <1>2, <1>3, <1>4, <1>5, <1>7, <1>8 DEF n, before

\* The entry of a changed value can be spliced into its line.
LEMMA RevaluedSplices ==
  ASSUME ValuesWereEdited, NEW r \in rows, revalued(r), r \notin nullified
  PROVE  LET doc == Nodes(opened.lines)
             e == EntryOf(values, cells, nullified, r)
         IN  /\ e.key = r /\ e.val = cells[r].val
             /\ isSpliceable(doc, e) /\ hasLine(doc, e)
             /\ isNoEdit(doc, e) <=> cells[r] = populated(opened)[r]
<1> DEFINE doc == Nodes(opened.lines)
           e == EntryOf(values, cells, nullified, r)
           n == At(opened.lines, r)
<1>1. IsFile(opened.lines) /\ r \in Paths /\ r # <<>>
  BY EditedState, PathFacts
<1>2. /\ e.key = r /\ e.val = cells[r].val /\ e.head = Said(parseComments(opened.lines), r)
      /\ e.line = None /\ ~e.null /\ e.val # Empty
  BY RevaluedFacts DEF EntryOf, Entry
<1>3. findParentSlotReadOnly(doc, r) = r /\ ~viaAlias(doc, r)
  BY <1>1, RevaluedFacts, SlotOfKey DEF viaAlias
<1>4. commentsMatch(doc, e)
  <2> HIDE DEF e
  <2> QED
    BY <1>1, <1>2, <1>3, LoadedCommentMatches
<1>5. Has(doc, r) /\ At(doc, r).kind = "scalar" /\ At(doc, r).style = "plain"
  BY <1>1, RevaluedFacts, NodeOfLine
<1>6. findEffectiveScalar(doc, r) = n.val /\ n.val # None
  BY RevaluedFacts
<1>7. r \in Keys(opened.lines) /\ (cells[r] = populated(opened)[r] <=> cells[r].val = n.val)
  BY RevaluedFacts
<1>10. At(doc, r).at # 0
  <2>1. PICK i \in DOMAIN opened.lines : opened.lines[i].path = r
    BY <1>7, KeysFacts
  <2>2. At(doc, r).at = i /\ i # 0
    BY <1>1, <2>1, NodeOfLine, FileFacts
  <2> QED
    BY <2>2
<1> HIDE DEF doc, e, n
<1>8. isSpliceable(doc, e) /\ hasLine(doc, e)
  BY <1>2, <1>3, <1>4, <1>5, <1>6, <1>7, <1>10 DEF isSpliceable, hasLine
<1>9. isNoEdit(doc, e) <=> cells[r] = populated(opened)[r]
  BY <1>2, <1>4, <1>6, <1>7 DEF isNoEdit
<1> QED
  BY <1>2, <1>8, <1>9 DEF doc, e

\* Every entry is no edit, or the splice of a changed value.
LEMMA EditedEntries ==
  ASSUME ValuesWereEdited, NEW e \in ToSet(collectOverrides(values, cells, nullified))
  PROVE  LET doc == Nodes(opened.lines)
         IN  \/ isNoEdit(doc, e)
             \/ /\ isSpliceable(doc, e) /\ hasLine(doc, e)
                /\ e.key \in rows /\ revalued(e.key) /\ e.val = cells[e.key].val
                /\ cells[e.key] # populated(opened)[e.key]
<1> DEFINE doc == Nodes(opened.lines)
<1>1. PICK r \in rows : /\ IsCollected(values, cells, nullified, r)
                        /\ e = EntryOf(values, cells, nullified, r)
  BY CollectedRows, EditedState, TypedState DEF ValuesWereEdited
<1>2. CASE r \in nullified \/ IsSection(r) \/ cells[r] = populated(opened)[r]
  BY <1>1, <1>2, UntouchedIsNoEdit
<1>3. CASE ~(r \in nullified \/ IsSection(r) \/ cells[r] = populated(opened)[r])
  <2>1. revalued(r) /\ r \notin nullified
    BY <1>3, EditedState
  <2> QED
    BY <1>1, <1>3, <2>1, RevaluedSplices
<1> QED
  BY <1>2, <1>3

\* No null covers a changed value, so that its entry is collected.
LEMMA RevaluedIsCollected ==
  ASSUME ValuesWereEdited, NEW r \in rows, revalued(r)
  PROVE  r \notin nullified /\ IsCollected(values, cells, nullified, r)
<1>1. /\ IsFile(opened.lines) /\ opened \in Texts /\ r \in Paths
      /\ nullified = nulls(Loaded(opened)) /\ Null \notin {None, Empty}
  BY EditedState, DocumentsAssumption
<1>2. /\ r \in Keys(opened.lines) /\ ~IsSection(r) /\ cells[r].val # Blank
      /\ Loaded(opened).vals[r] # Null
  BY RevaluedFacts
<1>3. r \notin nullified
  BY <1>1, <1>2 DEF nulls
<1>4. ASSUME NEW q \in StrictAncestors(r) PROVE q \notin nullified
  <2> DEFINE up == Parent(r)
  <2>1. up \in Seq(Segments) /\ Len(r) \in Nat \ {0} /\ Len(up) = Len(r) - 1
    BY <1>1, PathFacts
  <2>2. PICK k \in 1..(Len(r) - 1) : q = SubSeq(up, 1, k)
    BY <2>1, WalkFacts DEF StrictAncestors, ToSet, Walk
  <2>3. q = Prefix(r, k)
    <3>1. r \in Seq(Segments) /\ Len(r) - 1 \in 1..Len(r) /\ 1 \in 1..Len(r)
      BY <1>1, <2>1, <2>2, PathFacts
    <3>2. up = SubSeq(r, 1, Len(r) - 1)
      BY DEF Parent, Front
    <3>3. /\ 1 \in 1..((Len(r) - 1) - 1 + 1) /\ k \in 1..((Len(r) - 1) - 1 + 1)
          /\ 1 + 1 - 1 = 1 /\ 1 + k - 1 = k
      BY <2>1, <2>2
    <3> HIDE DEF up
    <3>4. SubSeq(SubSeq(r, 1, Len(r) - 1), 1, k) = SubSeq(r, 1 + 1 - 1, 1 + k - 1)
      BY <3>1, <3>3, SubSeqOfSubSeq
    <3> QED
      BY <2>2, <3>2, <3>3, <3>4 DEF Prefix
  <2>4. q \in Keys(opened.lines) /\ At(opened.lines, q).kind \in {"seq", "map"}
    <3>1. k \in 1..Len(r)
      BY <2>1
    <3> QED
      BY <1>1, <1>2, <2>3, <3>1, PrefixesAreKeys
  <2>5. SUFFICES ASSUME q \in DOMAIN Loaded(opened).vals PROVE Loaded(opened).vals[q] # Null
    BY <1>1 DEF nulls
  <2>6. Loaded(opened).vals[q] \in {None, Empty}
    BY <1>1, <2>4, <2>5, LineValue
  <2> QED
    BY <1>1, <2>6
<1>5. ~hasNullifiedAncestor(r, nullified)
  BY <1>4 DEF hasNullifiedAncestor
<1> QED
  BY <1>2, <1>3, <1>5 DEF IsCollected

\* The splice writes the lines of the changed values, and no other.
LEMMA SplicedLines ==
  ASSUME ValuesWereEdited, NEW text, text.banner = opened.banner,
         NEW es, es = collectOverrides(values, cells, nullified),
         text.lines = [i \in DOMAIN opened.lines |->
            IF EditsOf(Nodes(opened.lines), es, i) = {} THEN opened.lines[i]
            ELSE Spliced(opened.lines[i], es[Max(EditsOf(Nodes(opened.lines), es, i))].val)]
  PROVE  OnlyTheirLinesDiffer(text)
<1> DEFINE lines == opened.lines
           doc == Nodes(lines)
           before == populated(opened)
           edits_(i) == EditsOf(doc, es, i)
           changed(p) == p \in rows /\ cells[p] # before[p]
<1>1. IsFile(lines) /\ DOMAIN before = rows
  BY EditedState
<1>2. Len(lines) \in Nat /\ DOMAIN lines = 1..Len(lines)
  BY <1>1, FileFacts
<1>0. es \in Seq(EntryType)
  BY CollectedEntries, TypedState DEF ValuesWereEdited
<1>3. ASSUME NEW k \in DOMAIN es, ~isNoEdit(doc, es[k])
      PROVE  LET p == es[k].key
             IN  /\ changed(p) /\ es[k].val = cells[p].val /\ p \in Keys(lines)
                 /\ At(lines, p).kind = "scalar" /\ At(lines, p).anchor = None
  <2>1. es[k] \in ToSet(es)
    BY DEF ToSet
  <2>2. /\ es[k].key \in rows /\ revalued(es[k].key) /\ es[k].val = cells[es[k].key].val
        /\ cells[es[k].key] # before[es[k].key]
    BY <1>3, <2>1, EditedEntries
  <2> QED
    BY <2>2, RevaluedFacts
<1>4. ASSUME NEW r, changed(r) PROVE \E k \in DOMAIN es : es[k].key = r /\ ~isNoEdit(doc, es[k])
  <2> DEFINE e == EntryOf(values, cells, nullified, r)
  <2>1. revalued(r)
    BY <1>4, EditedState
  <2>2. r \notin nullified /\ IsCollected(values, cells, nullified, r)
    BY <1>4, <2>1, RevaluedIsCollected
  <2>3. e \in ToSet(es)
    BY <1>4, <2>2, CollectedRows, EditedState, TypedState DEF ValuesWereEdited
  <2>4. e.key = r /\ ~isNoEdit(doc, e)
    BY <1>4, <2>1, <2>2, RevaluedSplices
  <2> HIDE DEF e, doc
  <2> QED
    BY <2>3, <2>4 DEF ToSet
<1>5. ASSUME NEW i \in DOMAIN lines PROVE At(doc, lines[i].path).at = i /\ At(lines, lines[i].path) = lines[i]
  BY <1>1, NodeOfLine, FileFacts
<1>6. text.lines = [i \in DOMAIN lines |-> IF edits_(i) = {} THEN lines[i]
                                           ELSE Spliced(lines[i], es[Max(edits_(i))].val)]
  OBVIOUS
<1> HIDE DEF lines, doc, before, changed
<1>7. ASSUME NEW i \in DOMAIN lines
      PROVE  text.lines[i] = IF changed(lines[i].path)
                             THEN [lines[i] EXCEPT !.val = cells[lines[i].path].val] ELSE lines[i]
  <2> DEFINE was == lines[i]
             p == was.path
  <2>1. CASE edits_(i) # {}
    <3> DEFINE k == Max(edits_(i))
    <3>1. k \in edits_(i)
      BY <1>0, <2>1, LastEdit
    <3>2. k \in DOMAIN es /\ ~isNoEdit(doc, es[k]) /\ At(doc, es[k].key).at = i
      BY <3>1 DEF EditsOf
    <3>3. text.lines[i] = Spliced(was, es[k].val)
      BY <1>6, <2>1
    <3> HIDE DEF k, edits_
    <3>4. es[k].key = p
      <4>1. PICK j \in DOMAIN lines : lines[j].path = es[k].key
        BY <1>3, <3>2, KeysFacts
      <4> QED
        BY <1>5, <3>2, <4>1
    <3>5. changed(p) /\ es[k].val = cells[p].val /\ was.kind = "scalar" /\ was.anchor = None
      BY <1>3, <1>5, <3>2, <3>4
    <3>6. was \in LineType
      BY <1>1, FileFacts DEF lines
    <3> HIDE DEF was
    <3>7. Spliced(was, es[k].val) = [was EXCEPT !.val = es[k].val]
      BY <3>5, <3>6 DEF Spliced, LineType
    <3> QED
      BY <3>3, <3>5, <3>7 DEF was
  <2>2. CASE edits_(i) = {}
    <3>1. text.lines[i] = was
      BY <1>6, <2>2
    <3>2. ~changed(p)
      <4> SUFFICES ASSUME changed(p) PROVE FALSE
        OBVIOUS
      <4>1. PICK k \in DOMAIN es : es[k].key = p /\ ~isNoEdit(doc, es[k])
        BY <1>4
      <4>2. k \in edits_(i)
        BY <1>5, <4>1 DEF EditsOf
      <4> QED
        BY <2>2, <4>2
    <3> QED
      BY <3>1, <3>2
  <2> QED
    BY <2>1, <2>2
<1>8. Len(text.lines) = Len(lines)
  BY <1>2, <1>6
<1> QED
  BY <1>7, <1>8 DEF OnlyTheirLinesDiffer, lines, before, changed

\* What a save writes when only values were edited.
LEMMA EditedText ==
  ASSUME ValuesWereEdited, OverridesToYAML(values, cells, nullified) # EmptyText
  PROVE  OnlyTheirLinesDiffer(OverridesToYAML(values, cells, nullified))
<1> DEFINE doc == Nodes(opened.lines)
           es == collectOverrides(values, cells, nullified)
           plain == [opened EXCEPT !.coding = "plain"]
           text == OverridesToYAML(values, cells, nullified)
<1>1. /\ opened.lines # <<>> /\ values # NoValues /\ values.raw = opened /\ values.tree = doc
      /\ values.docs = parseOrphanComments(opened)
  BY EditedState
<1>2. planScalarSplice(opened, doc, es, values.docs)
  BY <1>1, EditedEntries DEF planScalarSplice, docsMatchSource
<1>3. text = PatchSourceText(opened, doc, es, values.docs)
  BY <1>1 DEF OverridesToYAML, WithOverrides
<1> HIDE DEF es, doc
<1>4. text = SpliceScalarValues(plain, doc, es)
  BY <1>1, <1>2, <1>3 DEF PatchSourceText
<1>5. opened \in TextType
  BY TypedState DEF ValuesWereEdited
<1>6. plain \in TextType /\ plain.lines = opened.lines /\ plain.banner = opened.banner
  BY <1>5, TextFacts DEF TextType
<1> HIDE DEF plain, text
<1>7. /\ text.lines = [i \in DOMAIN opened.lines |->
                         IF EditsOf(doc, es, i) = {} THEN opened.lines[i]
                         ELSE Spliced(opened.lines[i], es[Max(EditsOf(doc, es, i))].val)]
      /\ text.banner = opened.banner
  BY <1>4, <1>6 DEF SpliceScalarValues, EditsOf, TextType
<1> QED
  BY <1>7, SplicedLines DEF es, doc, text

LEMMA SavedText ==
  ASSUME TypeOK, TreeKept, [Next]_vars, modified, ~modified', OnlyValuesEdited,
         OverridesToYAML(values, cells, nullified) # EmptyText
  PROVE  onSaveColumnValues /\ OnlyTheirLinesDiffer(disk')
<1> DEFINE text == OverridesToYAML(values, cells, nullified)
<1>1. onSaveColumnValues
  BY StepKinds DEF vars, pollEditorParse
<1>2. OnlyTheirLinesDiffer(text)
  BY EditedText DEF ValuesWereEdited
<1>3. text \in TextType
  BY TypedState, WrittenText DEF TypeOK
<1>4. PICK coding : disk' = [text EXCEPT !.coding = coding]
  BY <1>1 DEF onSaveColumnValues, EncodeForFile
<1> HIDE DEF text
<1>5. disk'.lines = text.lines /\ disk'.banner = text.banner
  BY <1>3, <1>4 DEF TextType
<1> QED
  BY <1>1, <1>2, <1>5 DEF OnlyTheirLinesDiffer

\* After edits of values only, of plain scalars, a save changes their lines and
\* leaves every other as it was, however the user got there: what is collected
\* is the same as in the file or can be spliced, and nothing is lost on the way.
THEOREM ValueEditsKeepTheRest == Spec => ValueEditsChangeOnlyTheirLines
<1> DEFINE Act == /\ modified /\ ~modified' /\ OnlyValuesEdited
                  /\ OverridesToYAML(values, cells, nullified) # EmptyText
                  => OnlyTheirLinesDiffer(disk')
<1>1. Init => TreeKept
  BY TreeKeptAtFirst
<1>2. TypeOK /\ TreeKept /\ [Next]_vars => TreeKept'
  BY TreeKeptByStep
<1>3. TypeOK /\ TreeKept /\ [Next]_vars => Act
  BY SavedText
<1>4. Spec => []TypeOK
  BY TypeCorrect
<1> HIDE DEF Act
<1>5. TypeOK /\ TreeKept /\ [Next]_vars => [Act]_vars
  BY <1>3
<1>6. Spec => [][Act]_vars
  BY <1>1, <1>2, <1>4, <1>5, PTL DEF Spec
<1> QED
  BY <1>6 DEF ValueEditsChangeOnlyTheirLines, Act

-----------------------------------------------------------------------------
(* What is assumed of the files holds of every file without aliases.        *)

HasNoAlias(lines) ==
    \A n \in ToSet(lines) : n.kind # "alias" /\ ~isMerge(n.path)

LEMMA NothingMerged ==
  ASSUME NEW doc, Len(doc) \in Nat, DOMAIN doc = 1..Len(doc), \A i \in DOMAIN doc : ~isMerge(doc[i].path)
  PROVE  AllMerged(doc) = doc
<1> DEFINE n == Len(doc)
           step(d, i) == IF isMerge(doc[i].path)
                         THEN MergedFrom(d, doc[i].path, resolveAlias(d, doc[i].path)) ELSE d
           IsLoop(f) == f = [i \in 0..n |-> IF i = 0 THEN doc ELSE step(f[i - 1], i)]
           upTo == CHOOSE f : IsLoop(f)
           still == [i \in 0..n |-> doc]
<1>1. AllMerged(doc) = upTo[n]
  BY DEF AllMerged
<1>2. \A i \in 1..n : \A d : step(d, i) = d
  OBVIOUS
<1> HIDE DEF step
<1>3. \A i \in 0..n : i = 0 \/ (i \in 1..n /\ i - 1 \in 0..n)
  OBVIOUS
<1>4. IsLoop(still)
  BY <1>2, <1>3
<1> HIDE DEF still
<1>5. IsLoop(upTo)
  BY <1>4
<1> HIDE DEF upTo
<1>6. upTo[0] = doc /\ \A i \in 1..n : upTo[i] = upTo[i - 1]
  <2>1. 0 \in 0..n /\ \A i \in 1..n : i \in 0..n /\ i # 0
    OBVIOUS
  <2>2. \A i \in 0..n : upTo[i] = IF i = 0 THEN doc ELSE step(upTo[i - 1], i)
    BY <1>5
  <2> QED
    BY <1>2, <2>1, <2>2
<1>7. \A i \in 0..n : upTo[i] \in {doc}
  <2> DEFINE D == {doc}
  <2>1. upTo[0] \in D /\ \A i \in 1..n : upTo[i - 1] \in D => upTo[i] \in D
    BY <1>6
  <2> n \in Nat
    OBVIOUS
  <2> HIDE DEF n, D
  <2>2. \A i \in 0..n : upTo[i] \in D
    BY <2>1, Stays
  <2> QED
    BY <2>2 DEF D
<1> QED
  BY <1>1, <1>7

LEMMA NothingCopied ==
  ASSUME NEW doc \in Docs, \A i \in DOMAIN doc : doc[i].kind # "alias"
  PROVE  AliasesCopied(doc) = doc
<1> DEFINE nodes == Attached(doc)
           n == Len(nodes)
           step(d, i) == IF nodes[i].kind = "alias" /\ ~isMerge(nodes[i].path)
                         THEN Unaliased(d, nodes[i].path) ELSE d
           IsLoop(f) == f = [i \in 0..n |-> IF i = 0 THEN doc ELSE step(f[i - 1], i)]
           upTo == CHOOSE f : IsLoop(f)
           still == [i \in 0..n |-> doc]
<1>1. AliasesCopied(doc) = upTo[n]
  BY DEF AliasesCopied
<1>2. n \in Nat /\ \A i \in 1..n : nodes[i].kind # "alias"
  <2>1. ToSet(nodes) \subseteq ToSet(doc)
    BY PickedFacts DEF Attached, Docs
  <2>2. nodes \in Docs
    BY PartsAreDocs
  <2> HIDE DEF nodes
  <2>3. n \in Nat /\ \A i \in 1..n : nodes[i] \in ToSet(nodes)
    BY <2>2, SeqFacts DEF Docs, ToSet
  <2> QED
    BY <2>1, <2>3 DEF ToSet
<1>3. \A i \in 1..n : \A d : step(d, i) = d
  BY <1>2
<1> HIDE DEF step, nodes, n
<1>4. \A i \in 0..n : i = 0 \/ (i \in 1..n /\ i - 1 \in 0..n)
  BY <1>2
<1>5. IsLoop(still)
  BY <1>3, <1>4
<1> HIDE DEF still
<1>6. IsLoop(upTo)
  BY <1>5
<1> HIDE DEF upTo
<1>7. upTo[0] = doc /\ \A i \in 1..n : upTo[i] = upTo[i - 1]
  <2>1. 0 \in 0..n /\ \A i \in 1..n : i \in 0..n /\ i # 0
    BY <1>2
  <2>2. \A i \in 0..n : upTo[i] = IF i = 0 THEN doc ELSE step(upTo[i - 1], i)
    BY <1>6
  <2> QED
    BY <1>3, <2>1, <2>2
<1>8. \A i \in 0..n : upTo[i] \in {doc}
  <2> DEFINE D == {doc}
  <2>1. upTo[0] \in D /\ \A i \in 1..n : upTo[i - 1] \in D => upTo[i] \in D
    BY <1>7
  <2> HIDE DEF D
  <2>2. \A i \in 0..n : upTo[i] \in D
    BY <1>2, <2>1, Stays
  <2> QED
    BY <2>2 DEF D
<1>9. n \in 0..n
  BY <1>2
<1> QED
  BY <1>1, <1>8, <1>9

\* Without aliases the values of a file are those on its lines.
LEMMA PlainValues ==
  ASSUME NEW lines, IsFile(lines), HasNoAlias(lines)
  PROVE  LET vals == flattenValues(Nodes(lines))
         IN  /\ DOMAIN vals = Keys(lines)
             /\ \A p \in Keys(lines) :
                  vals[p] = IF At(lines, p).kind = "scalar" THEN At(lines, p).val
                            ELSE IF \E q \in Keys(lines) : q # p /\ Below(p, q) THEN None
                            ELSE Empty
<1> DEFINE doc == Nodes(lines)
           nodes == Attached(doc)
           vals == flattenValues(doc)
<1>1. doc \in Docs /\ DOMAIN doc = DOMAIN lines /\ lines \in Lines
  BY NodesDoc DEF IsFile
<1>2. \A i \in DOMAIN doc :
        /\ doc[i].path = lines[i].path /\ doc[i].kind = lines[i].kind /\ doc[i].val = lines[i].val
        /\ lines[i] \in ToSet(lines)
  BY DEF Nodes, ToSet
<1>3. /\ \A i \in DOMAIN doc : /\ doc[i].kind # "alias" /\ ~isMerge(doc[i].path)
                               /\ isAttached(doc[i])
      /\ \A i, j \in DOMAIN doc : doc[i].path = doc[j].path => i = j
  BY <1>1, <1>2 DEF HasNoAlias, IsFile, isAttached, Parses
<1> HIDE DEF doc
<1>4. nodes \in Docs /\ ToSet(nodes) = ToSet(doc)
  <2>1. nodes \in Docs
    BY <1>1, PartsAreDocs
  <2>2. DOMAIN doc = 1..Len(doc)
    BY <1>1, SeqFacts DEF Docs
  <2> DEFINE places == {k \in DOMAIN doc : isAttached(doc[k])}
  <2>3. \A x : x \in ToSet(nodes) <=> \E i \in 1..Len(doc) : i \in places /\ x = doc[i]
    <3> HIDE DEF places
    <3> QED
      BY <1>1, PickedFacts DEF Attached, Docs, places
  <2>4. \A i \in 1..Len(doc) : i \in places
    BY <1>3, <2>2
  <2>5. \A x : x \in ToSet(doc) <=> \E i \in 1..Len(doc) : x = doc[i]
    BY <2>2 DEF ToSet
  <2> HIDE DEF nodes, places
  <2>6. \A x : x \in ToSet(nodes) <=> x \in ToSet(doc)
    BY <2>3, <2>4, <2>5
  <2> QED
    BY <2>1, <2>6
<1> HIDE DEF nodes
<1>5. \A i \in DOMAIN nodes : nodes[i].kind # "alias" /\ ~isMerge(nodes[i].path)
  <2>1. \A n \in ToSet(doc) : n.kind # "alias" /\ ~isMerge(n.path)
    BY <1>3 DEF ToSet
  <2> QED
    BY <1>4, <2>1 DEF ToSet
<1>6. Expanded(nodes) = nodes
  <2>1. AliasesCopied(nodes) = nodes
    BY <1>4, <1>5, NothingCopied
  <2>2. Len(nodes) \in Nat /\ DOMAIN nodes = 1..Len(nodes)
    BY <1>4, SeqFacts DEF Docs
  <2>3. AllMerged(nodes) = nodes
    BY <1>5, <2>2, NothingMerged
  <2> QED
    BY <2>1, <2>3 DEF Expanded
<1>7. vals = valuesOf(ToSet(doc))
  BY <1>4, <1>6 DEF flattenValues, nodes
<1> HIDE DEF vals
<1>8. {n.path : n \in ToSet(doc)} = Keys(lines)
  <2>1. \A p : p \in {n.path : n \in ToSet(doc)} <=> \E i \in DOMAIN lines : lines[i].path = p
    BY <1>1, <1>2 DEF ToSet
  <2>2. \A p : p \in {n.path : n \in ToSet(doc)} <=> p \in Keys(lines)
    BY <2>1, KeysFacts
  <2> QED
    BY <2>2
<1>9. ASSUME NEW p \in Keys(lines)
      PROVE  vals[p] = IF At(lines, p).kind = "scalar" THEN At(lines, p).val
                       ELSE IF \E q \in Keys(lines) : q # p /\ Below(p, q) THEN None
                       ELSE Empty
  <2>1. PICK i \in DOMAIN doc : doc[i].path = p
    BY <1>1, <1>2, FileFacts
  <2>2. (CHOOSE m \in ToSet(doc) : m.path = p) = doc[i]
    <3>1. \A m \in ToSet(doc) : m.path = p <=> m = doc[i]
      BY <1>3, <2>1 DEF ToSet
    <3>2. doc[i] \in ToSet(doc)
      BY DEF ToSet
    <3> QED
      BY <3>1, <3>2
  <2>3. At(lines, p).kind = doc[i].kind /\ At(lines, p).val = doc[i].val
    BY <1>1, <1>2, <2>1, FileFacts
  <2>4. (\E m \in ToSet(doc) : m.path # p /\ Below(p, m.path))
          <=> (\E q \in Keys(lines) : q # p /\ Below(p, q))
    BY <1>8
  <2>5. vals[p] = IF doc[i].kind = "scalar" THEN doc[i].val
                  ELSE IF \E m \in ToSet(doc) : m.path # p /\ Below(p, m.path) THEN None
                  ELSE Empty
    BY <1>7, <1>8, <2>2 DEF valuesOf
  <2> QED
    BY <2>3, <2>4, <2>5
<1>10. DOMAIN vals = Keys(lines)
  BY <1>7, <1>8 DEF valuesOf
<1> QED
  BY <1>9, <1>10 DEF vals, doc

\* A file that parses and has no alias reads the same to both readers: what
\* is assumed of the files that are opened says something of aliased ones only.
THEOREM PlainFilesAgree ==
  ASSUME NEW lines, IsFile(lines), HasNoAlias(lines),
         \A n \in ToSet(lines) : n.kind = "scalar" => n.val \notin {None, Empty}
  PROVE  ReadersAgree(lines)
<1> DEFINE doc == Nodes(lines)
           vals == flattenValues(doc)
<1> SUFFICES ASSUME NEW p \in DOMAIN vals
             PROVE  IF vals[p] \in {None, Empty} THEN treeNodeMatchesContainerType(doc, p)
                    ELSE findEffectiveScalar(doc, p) = vals[p]
  BY DEF ReadersAgree
<1>1. /\ p \in Keys(lines)
      /\ IF At(lines, p).kind = "scalar" THEN vals[p] = At(lines, p).val ELSE vals[p] \in {None, Empty}
  BY PlainValues
<1> HIDE DEF vals
<1>2. PICK i \in DOMAIN lines : lines[i].path = p
  BY <1>1, FileFacts
<1>3. /\ At(lines, p) = lines[i] /\ lines[i] \in LineType /\ lines[i] \in ToSet(lines)
      /\ p # <<>> /\ p # Nowhere
  BY <1>2, FileFacts, PathFacts DEF Nowhere, ToSet
<1>4. At(lines, p).kind \in {"map", "seq", "scalar"}
  BY <1>3, LineFacts DEF HasNoAlias
<1>5. /\ Effective(doc, p) = p /\ Has(doc, p) /\ KindAt(doc, p) = At(lines, p).kind
      /\ At(doc, p).val = At(lines, p).val
  BY <1>1, <1>3, <1>4, EffectiveOfKey, NodeOfLine
<1>6. CASE At(lines, p).kind = "scalar"
  BY <1>1, <1>3, <1>5, <1>6 DEF findEffectiveScalar, scalarAt
<1>7. CASE At(lines, p).kind # "scalar"
  BY <1>1, <1>3, <1>4, <1>5, <1>7 DEF treeNodeMatchesContainerType, isContainer
<1> QED
  BY <1>6, <1>7

\* The values that are read from a file whose scalars were revalued.
LEMMA RevaluedIsShown ==
  ASSUME ValuesWereEdited, HasNoAlias(opened.lines),
         NEW text \in TextType, OnlyTheirLinesDiffer(text), Parses(text.lines),
         NEW r \in Leaves, shown(r) # Blank
  PROVE  LET found == flattenValues(Nodes(text.lines))
         IN  r \in DOMAIN found /\ found[r] = shown(r)
<1> DEFINE was == opened.lines
           now == text.lines
           before == populated(opened)
           changed(p) == p \in rows /\ cells[p] # before[p]
           found == flattenValues(Nodes(now))
           file == Loaded(opened).vals
<1>1. /\ IsFile(was) /\ nullified = nulls(Loaded(opened)) /\ r \in rows
      /\ \A p \in rows : cells[p] = before[p] \/ revalued(p)
  BY EditedState DEF Leaves
<1>2. DOMAIN was = 1..Len(was) /\ \A i \in DOMAIN was : was[i] \in LineType
  BY <1>1, FileFacts
<1>3. now \in Lines /\ DOMAIN now = DOMAIN was
  <2>1. now \in Lines
    BY TextFacts
  <2>2. DOMAIN now = 1..Len(now)
    BY <2>1, SeqFacts DEF Lines
  <2> QED
    BY <1>2, <2>1, <2>2 DEF OnlyTheirLinesDiffer
<1>4. \A i \in DOMAIN was :
        now[i] = IF changed(was[i].path) THEN [was[i] EXCEPT !.val = cells[was[i].path].val] ELSE was[i]
  BY DEF OnlyTheirLinesDiffer
<1> HIDE DEF now, was, found
<1>5. \A i \in DOMAIN was :
        /\ now[i].path = was[i].path /\ now[i].kind = was[i].kind
        /\ now[i].val = IF changed(was[i].path) THEN cells[was[i].path].val ELSE was[i].val
  <2> HIDE DEF changed
  <2> SUFFICES ASSUME NEW i \in DOMAIN was
               PROVE  /\ now[i].path = was[i].path /\ now[i].kind = was[i].kind
                      /\ now[i].val = IF changed(was[i].path) THEN cells[was[i].path].val
                                      ELSE was[i].val
    OBVIOUS
  <2>1. was[i] \in LineType
    BY <1>2
  <2>2. CASE changed(was[i].path)
    BY <1>4, <2>1, <2>2 DEF LineType
  <2>3. CASE ~changed(was[i].path)
    BY <1>4, <2>3
  <2> QED
    BY <2>2, <2>3
<1>6. Keys(now) = Keys(was)
  <2>1. \A p : p \in Keys(now) <=> p \in Keys(was)
    BY <1>3, <1>5, KeysFacts
  <2> QED
    BY <2>1
<1>7. IsFile(now) /\ HasNoAlias(now)
  <2>1. \A n \in ToSet(now) : \E m \in ToSet(was) : n.path = m.path /\ n.kind = m.kind
    BY <1>3, <1>5 DEF ToSet
  <2> QED
    BY <1>1, <1>3, <2>1 DEF IsFile, HasNoAlias, isAttached, now, was
<1>8. ASSUME NEW p \in Keys(was)
      PROVE  /\ At(now, p).kind = At(was, p).kind
             /\ At(now, p).val = IF changed(p) THEN cells[p].val ELSE At(was, p).val
  <2>1. PICK i \in DOMAIN was : was[i].path = p
    BY <1>1, FileFacts
  <2>2. At(was, p) = was[i] /\ At(now, p) = now[i]
    BY <1>1, <1>3, <1>5, <1>7, <2>1, FileFacts
  <2> QED
    BY <1>5, <2>1, <2>2
<1>9. /\ DOMAIN found = Keys(was) /\ DOMAIN file = Keys(was)
      /\ \A p \in Keys(was) :
           found[p] = IF At(was, p).kind = "scalar" THEN At(now, p).val ELSE file[p]
      /\ \A p \in Keys(was) : At(was, p).kind = "scalar" => file[p] = At(was, p).val
  <2>1. file = flattenValues(Nodes(was))
    BY DEF Loaded, was
  <2>2. HasNoAlias(was)
    BY DEF was
  <2> HIDE DEF file
  <2>3. /\ DOMAIN file = Keys(was)
        /\ \A p \in Keys(was) :
             file[p] = IF At(was, p).kind = "scalar" THEN At(was, p).val
                       ELSE IF \E q \in Keys(was) : q # p /\ Below(p, q) THEN None
                       ELSE Empty
    BY <1>1, <2>1, <2>2, PlainValues
  <2>4. /\ DOMAIN found = Keys(now)
        /\ \A p \in Keys(now) :
             found[p] = IF At(now, p).kind = "scalar" THEN At(now, p).val
                        ELSE IF \E q \in Keys(now) : q # p /\ Below(p, q) THEN None
                        ELSE Empty
    BY <1>7, PlainValues DEF found
  <2> QED
    BY <1>6, <1>8, <2>3, <2>4
<1>10. CASE changed(r)
  <2>1. revalued(r)
    BY <1>1, <1>10
  <2>2. r \in Keys(was) /\ At(was, r).kind = "scalar" /\ r \notin nullified
    BY <1>1, <2>1, RevaluedFacts, RevaluedIsCollected DEF was
  <2>3. shown(r) = cells[r].val
    BY <2>2 DEF shown
  <2> QED
    BY <1>8, <1>9, <1>10, <2>2, <2>3 DEF found, now
<1>11. CASE ~changed(r)
  <2>1. r \in Keys(was) => found[r] = file[r]
    BY <1>8, <1>9, <1>11
  <2>2. r \in DOMAIN file /\ shown(r) = file[r]
    <3>1. CASE r \in nullified
      BY <1>1, <3>1 DEF nulls, shown
    <3>2. CASE r \notin nullified
      <4>1. shown(r) = before[r].val
        BY <1>1, <1>11, <3>2 DEF shown
      <4> QED
        BY <1>1, <4>1, ShownValue
    <3> QED
      BY <3>1, <3>2
  <2> QED
    BY <1>9, <2>1, <2>2 DEF found, now
<1> QED
  BY <1>10, <1>11

\* After edits of values only, the saved file of a chart without aliases holds
\* what the table shows, in every row.
THEOREM ValueEditsAreShown ==
  Spec => [][/\ modified /\ ~modified' /\ OnlyValuesEdited
             /\ OverridesToYAML(values, cells, nullified) # EmptyText
             /\ HasNoAlias(opened.lines)
             => SavedShowsCells']_vars
<1> DEFINE Act == /\ modified /\ ~modified' /\ OnlyValuesEdited
                  /\ OverridesToYAML(values, cells, nullified) # EmptyText
                  /\ HasNoAlias(opened.lines)
                  => SavedShowsCells'
<1>1. Init => TreeKept
  BY TreeKeptAtFirst
<1>2. TypeOK /\ TreeKept /\ [Next]_vars => TreeKept'
  BY TreeKeptByStep
<1>3. TypeOK /\ TreeKept /\ [Next]_vars => Act
  <2> SUFFICES ASSUME TypeOK, TreeKept, [Next]_vars, modified, ~modified', OnlyValuesEdited,
                      OverridesToYAML(values, cells, nullified) # EmptyText,
                      HasNoAlias(opened.lines)
               PROVE  SavedShowsCells'
    OBVIOUS
  <2>1. OnlyTheirLinesDiffer(disk')
    BY SavedText
  <2>2. UNCHANGED <<entries, cells, nullified>>
    BY SavedText DEF onSaveColumnValues
  <2>3. disk' \in TextType
    BY StepTyped DEF TypeOK
  <2>4. rows' = rows /\ Leaves' = Leaves /\ \A r : shown(r)' = shown(r)
    BY <2>2 DEF rows, Leaves, IsSection, shown
  <2> SUFFICES ASSUME Parses(disk'.lines), NEW r \in Leaves, shown(r) # Blank
               PROVE  r \in DOMAIN onDisk' /\ onDisk'[r] = shown(r)
    BY <2>4 DEF SavedShowsCells
  <2> DEFINE found == flattenValues(Nodes(disk'.lines))
  <2>5. r \in DOMAIN found /\ found[r] = shown(r)
    BY <2>1, <2>3, RevaluedIsShown DEF ValuesWereEdited
  <2>6. onDisk' = found
    BY DEF onDisk
  <2> QED
    BY <2>5, <2>6
<1>4. Spec => []TypeOK
  BY TypeCorrect
<1> HIDE DEF Act
<1>5. TypeOK /\ TreeKept /\ [Next]_vars => [Act]_vars
  BY <1>3
<1>6. Spec => [][Act]_vars
  BY <1>1, <1>2, <1>4, <1>5, PTL DEF Spec
<1> QED
  BY <1>6 DEF Act

\* After edits of values only, every alias of the file is still one: none is
\* written out as a copy of what it repeats.
THEOREM ValueEditsKeepAliases ==
  Spec => [][/\ modified /\ ~modified' /\ OnlyValuesEdited
             /\ OverridesToYAML(values, cells, nullified) # EmptyText
             => UneditedAliasKept']_vars
<1> DEFINE Act == /\ modified /\ ~modified' /\ OnlyValuesEdited
                  /\ OverridesToYAML(values, cells, nullified) # EmptyText
                  => UneditedAliasKept'
<1>1. Init => TreeKept
  BY TreeKeptAtFirst
<1>2. TypeOK /\ TreeKept /\ [Next]_vars => TreeKept'
  BY TreeKeptByStep
<1>3. TypeOK /\ TreeKept /\ [Next]_vars => Act
  <2> SUFFICES ASSUME TypeOK, TreeKept, [Next]_vars, modified, ~modified', OnlyValuesEdited,
                      OverridesToYAML(values, cells, nullified) # EmptyText
               PROVE  UneditedAliasKept'
    OBVIOUS
  <2>1. OnlyTheirLinesDiffer(disk') /\ opened' = opened
    BY SavedText DEF onSaveColumnValues
  <2> DEFINE was == opened.lines
             now == disk'.lines
  <2>2. SUFFICES ASSUME NEW n \in ToSet(was), n.kind = "alias"
                 PROVE  Has(now, n.path) /\ At(now, n.path).kind = "alias"
    BY <2>1 DEF UneditedAliasKept
  <2>3. IsFile(was) /\ \A r \in rows : cells[r] = populated(opened)[r] \/ revalued(r)
    BY EditedState DEF ValuesWereEdited
  <2>4. PICK i \in DOMAIN was : was[i] = n
    BY DEF ToSet
  <2>5. \A j \in DOMAIN was : /\ was[j] \in LineType /\ was[j].path \in Paths
                              /\ At(was, was[j].path) = was[j] /\ was[j].path \in Keys(was)
    BY <2>3, FileFacts, KeysFacts
  <2>6. \A j \in DOMAIN was : now[j].path = was[j].path /\ now[j].kind = was[j].kind
    <3> SUFFICES ASSUME NEW j \in DOMAIN was
                 PROVE  now[j].path = was[j].path /\ now[j].kind = was[j].kind
      OBVIOUS
    <3>1. now[j] = was[j] \/ \E v : now[j] = [was[j] EXCEPT !.val = v]
      BY <2>1 DEF OnlyTheirLinesDiffer
    <3> HIDE DEF now, was
    <3> QED
      BY <2>5, <3>1 DEF LineType
  <2>7. DOMAIN now = DOMAIN was
    <3>1. disk' \in TextType
      BY StepTyped DEF TypeOK
    <3>2. DOMAIN now = 1..Len(now) /\ DOMAIN was = 1..Len(was)
      BY <2>3, <3>1, TextFacts, SeqFacts, FileFacts DEF Lines
    <3> QED
      BY <2>1, <3>2 DEF OnlyTheirLinesDiffer
  <2> HIDE DEF now, was
  <2>8. \A j \in DOMAIN was : now[j].path = n.path <=> j = i
    BY <2>3, <2>4, <2>6 DEF IsFile, Parses
  <2>9. Positions(now, n.path) = {i}
    BY <2>7, <2>8 DEF Positions
  <2>10. Has(now, n.path) /\ At(now, n.path) = now[i]
    BY <2>9 DEF Has, At
  <2> QED
    BY <2>2, <2>4, <2>6, <2>10
<1>4. Spec => []TypeOK
  BY TypeCorrect
<1> HIDE DEF Act
<1>5. TypeOK /\ TreeKept /\ [Next]_vars => [Act]_vars
  BY <1>3
<1>6. Spec => [][Act]_vars
  BY <1>1, <1>2, <1>4, <1>5, PTL DEF Spec
<1> QED
  BY <1>6 DEF Act
=============================================================================
