---------------------------- MODULE VecOpsProofs ----------------------------
(***************************************************************************)
(* What erasing from a vector preserves (module VecOps), for every vector  *)
(* and every set of indices that stay; and what joining the elements of a  *)
(* sequence of sequences gives when one is appended or taken away.         *)
(***************************************************************************)
EXTENDS VecOps, SequencesExt, FiniteSetTheorems, SequenceTheorems, TLAPS

\* The rank of an index that stays is its new position: between 1 and the
\* number of the indices that stay.
LEMMA RankRange ==
    ASSUME NEW n \in Nat, NEW K, K \subseteq 1..n
    PROVE  /\ IsFiniteSet(K)
           /\ Cardinality(K) \in Nat
           /\ Cardinality(K) <= n
           /\ \A i \in K : Rank(K, i) \in 1..Cardinality(K)
<1>1. /\ IsFiniteSet(1..n)
      /\ Cardinality(1..n) = n
  BY FS_Interval
<1>2. /\ IsFiniteSet(K)
      /\ Cardinality(K) <= n
  BY <1>1, FS_Subset
<1>3. Cardinality(K) \in Nat
  BY <1>2, FS_CardinalityType
<1>4. ASSUME NEW i \in K
      PROVE  Rank(K, i) \in 1..Cardinality(K)
  <2> DEFINE L == {k \in K : k <= i}
  <2>1. L \in SUBSET K
    OBVIOUS
  <2>2. IsFiniteSet(L) /\ Cardinality(L) <= Cardinality(K)
    BY <2>1, <1>2, FS_Subset
  <2>3. Cardinality(L) \in Nat
    BY <2>2, FS_CardinalityType
  <2>4. i \in L
    OBVIOUS
  <2>5. Cardinality(L) # 0
    BY <2>2, <2>4, FS_EmptySet
  <2> QED
    BY <2>2, <2>3, <2>5, <1>3 DEF Rank
<1> QED
  BY <1>2, <1>3, <1>4

\* Two indices that stay do not get the same position.
LEMMA RankInjective ==
    ASSUME NEW n \in Nat, NEW K, K \subseteq 1..n,
           NEW i \in K, NEW k \in K, Rank(K, i) = Rank(K, k)
    PROVE  i = k
<1>1. ASSUME NEW x \in K, NEW y \in K, x < y
      PROVE  Rank(K, x) # Rank(K, y)
  <2> DEFINE X == {z \in K : z <= x}
             Y == {z \in K : z <= y}
  <2>0. \A z \in K : z \in Int
    OBVIOUS
  <2>a. \A z \in K : z <= x => z <= y
    BY <2>0, <1>1
  <2>b. y <= y /\ ~(y <= x)
    BY <2>0, <1>1
  <2>1. X \in SUBSET Y /\ y \in Y /\ y \notin X
    BY <2>a, <2>b
  <2>2. IsFiniteSet(Y)
    BY RankRange, FS_Subset, Y \in SUBSET K
  <2>3. Cardinality(Y) # Cardinality(X)
    BY <2>1, <2>2, FS_Subset
  <2> QED
    BY <2>3 DEF Rank
<1> QED
  BY <1>1

\* Every position below the new length belongs to exactly one index that stays.
LEMMA NthRank ==
    ASSUME NEW n \in Nat, NEW K, K \subseteq 1..n
    PROVE  /\ \A j \in 1..Cardinality(K) : Nth(K, j) \in K /\ Rank(K, Nth(K, j)) = j
           /\ \A i \in K : Rank(K, i) \in 1..Cardinality(K) /\ Nth(K, Rank(K, i)) = i
<1> DEFINE f == [i \in K |-> Rank(K, i)]
           m == Cardinality(K)
<1>1. /\ IsFiniteSet(K) /\ m \in Nat
      /\ \A i \in K : Rank(K, i) \in 1..m
  BY RankRange
<1>2. f \in Injection(K, 1..m)
  BY <1>1, RankInjective DEF Injection, IsInjective
<1>3. IsFiniteSet(1..m) /\ Cardinality(1..m) = m
  BY <1>1, FS_Interval
<1>4. f \in Surjection(K, 1..m)
  BY <1>2, <1>3, FS_Injection
<1>5. \A j \in 1..m : \E i \in K : Rank(K, i) = j
  BY <1>4 DEF Surjection
<1>6. \A j \in 1..m : Nth(K, j) \in K /\ Rank(K, Nth(K, j)) = j
  BY <1>5 DEF Nth
<1>7. \A i \in K : Nth(K, Rank(K, i)) = i
  BY <1>6, <1>1, RankInjective
<1> QED
  BY <1>1, <1>6, <1>7

\* Erasing keeps the type of a vector and never makes it longer; each element
\* left was one of the elements that stay, at its own index.
LEMMA KeepType ==
    ASSUME NEW S, NEW s \in Seq(S), NEW K, K \subseteq DOMAIN s
    PROVE  /\ Keep(s, K) \in Seq(S)
           /\ Len(Keep(s, K)) = Cardinality(K)
           /\ DOMAIN Keep(s, K) = 1..Cardinality(K)
           /\ Cardinality(K) \in Nat
           /\ \A j \in DOMAIN Keep(s, K) : Nth(K, j) \in K /\ Keep(s, K)[j] = s[Nth(K, j)]
<1>1. K \subseteq 1..Len(s) /\ Len(s) \in Nat
  OBVIOUS
<1>2. Cardinality(K) \in Nat /\ \A j \in 1..Cardinality(K) : Nth(K, j) \in K
  BY <1>1, RankRange, NthRank
<1>3. \A j \in 1..Cardinality(K) : s[Nth(K, j)] \in S
  BY <1>2, <1>1
<1> QED
  BY <1>2, <1>3 DEF Keep

\* No element that stays is duplicated: different positions after erasing come
\* from different indices before.
LEMMA NthInjective ==
    ASSUME NEW n \in Nat, NEW K, K \subseteq 1..n,
           NEW i \in 1..Cardinality(K), NEW j \in 1..Cardinality(K),
           Nth(K, i) = Nth(K, j)
    PROVE  i = j
  BY NthRank

\* A set of indices that is not empty has a least element.
LEMMA LeastIndex ==
    ASSUME NEW n \in Nat, NEW K, K \subseteq 1..n, K # {}
    PROVE  \E m \in K : \A k \in K : m <= k
<1> DEFINE c == Cardinality(K)
           m == Nth(K, 1)
           L == {k \in K : k <= m}
<1>1. IsFiniteSet(K) /\ c \in Nat
  BY RankRange
<1>2. c # 0
  BY <1>1, FS_EmptySet
<1>3. m \in K /\ Cardinality(L) = 1
  <2>1. \A j \in 1..c : Nth(K, j) \in K /\ Rank(K, Nth(K, j)) = j
    BY NthRank
  <2>2. 1 \in 1..c
    BY <1>1, <1>2
  <2>3. m \in K /\ Rank(K, m) = 1
    BY <2>1, <2>2
  <2> QED
    BY <2>3 DEF Rank
<1> HIDE DEF m
<1>4. m \in Nat /\ \A k \in K : k \in Nat
  BY <1>3
<1>5. {m} \in SUBSET L /\ IsFiniteSet(L) /\ Cardinality({m}) = 1
  <2>1. L \in SUBSET K /\ m <= m
    BY <1>3, <1>4
  <2> QED
    BY <1>1, <1>3, <2>1, FS_Subset, FS_Singleton
<1>6. L = {m}
  BY <1>3, <1>5, FS_Subset
<1>7. \A k \in K : m <= k
  <2> SUFFICES ASSUME NEW k \in K, ~(m <= k) PROVE FALSE
    OBVIOUS
  <2>1. k <= m /\ k # m
    BY <1>4
  <2> QED
    BY <1>6, <2>1
<1> QED
  BY <1>3, <1>7
-----------------------------------------------------------------------------
(***************************************************************************)
(* Sequences of sequences in one (FlattenSeq).                             *)
(***************************************************************************)

\* The concatenation, with a name that keeps it from being expanded.
Cat(a, b) == a \o b

\* g joins the first n of the sequences s[1], s[2], .. one after the other.
Joins(g, s, n) == g[1] = s[1] /\ \A i \in 2..n : g[i] = Cat(g[i - 1], s[i])

\* It does not matter which of three sequences are joined first.
LEMMA CatAssociative ==
    ASSUME NEW T, NEW a \in Seq(T), NEW b \in Seq(T), NEW c \in Seq(T)
    PROVE  /\ Cat(a, b) \in Seq(T)
           /\ Cat(Cat(a, b), c) = Cat(a, Cat(b, c))
BY DEF Cat

\* The empty sequence adds nothing.
LEMMA CatEmpty ==
    ASSUME NEW T, NEW a \in Seq(T)
    PROVE  Cat(a, <<>>) = a /\ Cat(<<>>, a) = a
BY DEF Cat

\* The recursive function that FlattenSeq is defined with exists.
LEMMA FlattenExists ==
    ASSUME NEW T, NEW s \in Seq(Seq(T)), s # <<>>
    PROVE  \E g \in [1..Len(s) -> Seq(T)] : Joins(g, s, Len(s)) /\ FlattenSeq(s) = g[Len(s)]
<1> DEFINE L == Len(s)
           U == Seq(T)
           Good(n) == \E g \in [1..n -> U] : Joins(g, s, n)
           K == {n \in 1..L : ~Good(n)}
<1>1. L \in Nat /\ L >= 1 /\ \A i \in 1..L : s[i] \in U
  OBVIOUS
<1>2. \A a, b \in U : Cat(a, b) \in U
  BY CatAssociative
<1> HIDE DEF L, U
<1>3. K = {}
  <2> SUFFICES ASSUME K # {} PROVE FALSE
    OBVIOUS
  <2>1. PICK n \in K : \A k \in K : n <= k
    BY <1>1, LeastIndex
  <2>2. CASE n = 1
    <3> DEFINE g == [i \in 1..1 |-> s[1]]
    <3>1. g \in [1..1 -> U] /\ Joins(g, s, 1)
      BY <1>1 DEF Joins
    <3>2. Good(1)
      BY <3>1
    <3> QED
      BY <2>1, <2>2, <3>2
  <2>3. CASE n # 1
    <3>0. n \in 1..L /\ ~(n <= n - 1)
      BY <2>1, <1>1
    <3>a. n - 1 \in 1..L /\ n \in 2..L /\ n \in Nat
      BY <3>0, <2>3, <1>1
    <3>b. Good(n - 1)
      <4> HIDE DEF Good
      <4> QED
        BY <3>0, <3>a, <2>1
    <3>1. PICK g \in [1..(n - 1) -> U] : Joins(g, s, n - 1)
      BY <3>b
    <3> DEFINE h == [i \in 1..n |-> IF i = n THEN Cat(g[n - 1], s[n]) ELSE g[i]]
    <3>2. h \in [1..n -> U]
      BY <3>a, <3>1, <1>1, <1>2
    <3>3. Joins(h, s, n)
      BY <3>a, <3>1 DEF Joins
    <3>4. Good(n)
      BY <3>2, <3>3
    <3> QED
      BY <2>1, <3>4
  <2> QED
    BY <2>2, <2>3
<1>4. PICK g \in [1..L -> U] : Joins(g, s, L)
  <2>1. L \in 1..L
    BY <1>1
  <2>2. Good(L)
    <3> HIDE DEF Good
    <3> QED
      BY <1>3, <2>1
  <2> QED
    BY <2>2
<1>5. g = [i \in 1..L |-> IF i = 1 THEN s[i] ELSE Cat(g[i - 1], s[i])]
  BY <1>1, <1>4 DEF Joins
<1> DEFINE h[i \in 1..L] == IF i = 1 THEN s[i] ELSE h[i - 1] \o s[i]
<1>6. h = [i \in 1..L |-> IF i = 1 THEN s[i] ELSE h[i - 1] \o s[i]]
  BY <1>5 DEF Cat
<1>7. FlattenSeq(s) = h[L]
  BY <1>1 DEF FlattenSeq, L
<1> HIDE DEF h
<1>8. \A i \in 1..L : h[i] = g[i]
  <2>0. \A i \in 1..L : h[i] = IF i = 1 THEN s[i] ELSE Cat(h[i - 1], s[i])
    BY <1>6 DEF Cat
  <2> DEFINE D == {i \in 1..L : h[i] # g[i]}
  <2> SUFFICES ASSUME D # {} PROVE FALSE
    OBVIOUS
  <2>1. PICK i \in D : \A k \in D : i <= k
    BY <1>1, LeastIndex
  <2>2. i \in 1..L /\ h[i] # g[i] /\ (i # 1 => i \in 2..L /\ i - 1 \in 1..L /\ ~(i <= i - 1))
    BY <1>1, <2>1
  <2>3. i # 1 => h[i - 1] = g[i - 1]
    BY <2>1, <2>2
  <2> HIDE DEF D
  <2> QED
    BY <1>4, <2>0, <2>2, <2>3 DEF Joins
<1> QED
  BY <1>1, <1>4, <1>7, <1>8 DEF L, U

\* The result is a sequence of the elements.
LEMMA FlattenType ==
    ASSUME NEW T, NEW s \in Seq(Seq(T))
    PROVE  FlattenSeq(s) \in Seq(T)
<1>1. CASE s = <<>>
  <2>1. FlattenSeq(s) = <<>>
    BY <1>1 DEF FlattenSeq
  <2>2. <<>> \in Seq(T)
    OBVIOUS
  <2> QED
    BY <2>1, <2>2, Zenon
<1>2. CASE s # <<>>
  <2>1. PICK h \in [1..Len(s) -> Seq(T)] : FlattenSeq(s) = h[Len(s)]
    BY <1>2, FlattenExists
  <2>2. Len(s) \in 1..Len(s)
    BY <1>2
  <2> QED
    BY <2>1, <2>2
<1> QED
  BY <1>1, <1>2

\* One more sequence at the end.
LEMMA FlattenAppend ==
    ASSUME NEW T, NEW s \in Seq(Seq(T)), NEW e \in Seq(T)
    PROVE  FlattenSeq(s) \in Seq(T) /\ FlattenSeq(Append(s, e)) = Cat(FlattenSeq(s), e)
<1> DEFINE L == Len(s)
           U == Seq(T)
           t == Append(s, e)
<1>1. /\ t \in Seq(U) /\ t # <<>> /\ Len(t) = L + 1 /\ L \in Nat
      /\ \A i \in 1..L : t[i] = s[i]
      /\ t[L + 1] = e
      /\ s # <<>> => L >= 1
  <2>1. e \in U /\ L \in Nat /\ (s # <<>> => L >= 1)
    OBVIOUS
  <2>2. /\ t \in Seq(U) /\ t # <<>> /\ Len(t) = L + 1
        /\ \A i \in 1..L : t[i] = s[i]
        /\ t[L + 1] = e
    BY <2>1, AppendProperties
  <2> QED
    BY <2>1, <2>2
<1> HIDE DEF t, L
<1>2. PICK h \in [1..Len(t) -> U] : Joins(h, t, Len(t)) /\ FlattenSeq(t) = h[Len(t)]
  BY <1>1, FlattenExists
<1>3. CASE s = <<>>
  <2>1. L = 0 /\ FlattenSeq(s) = <<>>
    BY <1>3 DEF L, FlattenSeq
  <2>2. FlattenSeq(t) = e
    BY <1>1, <1>2, <2>1 DEF Joins
  <2>3. <<>> \in U /\ Cat(<<>>, e) = e
    BY CatEmpty
  <2> QED
    BY <2>1, <2>2, <2>3 DEF t
<1>4. CASE s # <<>>
  <2>1. PICK g \in [1..L -> U] : Joins(g, s, L) /\ FlattenSeq(s) = g[L]
    BY <1>4, FlattenExists DEF L
  <2>2. \A i \in 1..L : g[i] = h[i]
    <3> DEFINE D == {i \in 1..L : h[i] # g[i]}
    <3> SUFFICES ASSUME D # {} PROVE FALSE
      OBVIOUS
    <3>1. PICK i \in D : \A k \in D : i <= k
      BY <1>1, LeastIndex
    <3>2. /\ i \in 1..L /\ h[i] # g[i] /\ t[i] = s[i]
          /\ i # 1 => i \in 2..L /\ i - 1 \in 1..L /\ ~(i <= i - 1)
      BY <1>1, <3>1
    <3>3. i # 1 => h[i - 1] = g[i - 1]
      BY <3>1, <3>2
    <3>4. i # 1 => i \in 2..Len(t)
      BY <1>1, <3>2
    <3>5. i # 1 => h[i] = Cat(h[i - 1], t[i])
      BY <1>2, <3>4 DEF Joins
    <3>6. i # 1 => g[i] = Cat(g[i - 1], s[i])
      BY <2>1, <3>2 DEF Joins
    <3>7. h[1] = t[1] /\ g[1] = s[1]
      BY <1>2, <2>1 DEF Joins
    <3> HIDE DEF D
    <3> QED
      BY <3>2, <3>3, <3>5, <3>6, <3>7
  <2>3. h[L + 1] = Cat(h[L], e)
    BY <1>1, <1>2, <1>4 DEF Joins
  <2>4. L \in 1..L
    BY <1>1, <1>4
  <2> QED
    BY <1>1, <1>2, <2>1, <2>2, <2>3, <2>4 DEF t
<1> QED
  BY <1>3, <1>4

\* A single one.
LEMMA FlattenOne ==
    ASSUME NEW T, NEW e \in Seq(T)
    PROVE  FlattenSeq(<<e>>) = e
<1> DEFINE s == <<e>>
           U == Seq(T)
<1>1. s \in Seq(U) /\ s # <<>> /\ Len(s) = 1 /\ s[1] = e
  OBVIOUS
<1> HIDE DEF s
<1>2. PICK g \in [1..1 -> U] : Joins(g, s, 1) /\ FlattenSeq(s) = g[1]
  BY <1>1, FlattenExists
<1> QED
  BY <1>1, <1>2 DEF Joins, s

\* One sequence less at the front.
LEMMA FlattenTail ==
    ASSUME NEW T, NEW s \in Seq(Seq(T)), s # <<>>
    PROVE  FlattenSeq(s) = Cat(Head(s), FlattenSeq(Tail(s)))
<1> DEFINE L == Len(s)
           U == Seq(T)
           t == Tail(s)
<1>1. /\ t \in Seq(U) /\ Len(t) = L - 1 /\ L \in Nat /\ L >= 1
      /\ \A i \in 1..(L - 1) : t[i] = s[i + 1]
      /\ Head(s) = s[1] /\ \A i \in 1..L : s[i] \in U
      /\ t # <<>> => L >= 2
  OBVIOUS
<1>a. \A a, b, c \in U : Cat(Cat(a, b), c) = Cat(a, Cat(b, c))
  BY CatAssociative
<1> HIDE DEF t, L
<1>2. PICK g \in [1..L -> U] : Joins(g, s, L) /\ FlattenSeq(s) = g[L]
  BY FlattenExists DEF L
<1>3. CASE t = <<>>
  <2>1. L = 1 /\ FlattenSeq(t) = <<>>
    BY <1>1, <1>3 DEF FlattenSeq
  <2>2. Cat(s[1], <<>>) = s[1]
    BY <1>1, CatEmpty
  <2> QED
    BY <1>1, <1>2, <2>1, <2>2 DEF t, Joins
<1>4. CASE t # <<>>
  <2>1. PICK h \in [1..Len(t) -> U] : Joins(h, t, Len(t)) /\ FlattenSeq(t) = h[Len(t)]
    BY <1>1, <1>4, FlattenExists
  <2> DEFINE D == {i \in 1..(L - 1) : g[i + 1] # Cat(s[1], h[i])}
  <2>2. D = {}
    <3> SUFFICES ASSUME D # {} PROVE FALSE
      OBVIOUS
    <3>1. PICK i \in D : \A k \in D : i <= k
      <4>1. L - 1 \in Nat
        BY <1>1
      <4> QED
        BY <4>1, LeastIndex
    <3>2. CASE i = 1
      <4>1. 2 \in 2..L /\ 1 \in 1..(L - 1) /\ 2 - 1 = 1 /\ 1 + 1 = 2
        BY <1>1, <1>4
      <4>2. g[2] = Cat(s[1], s[2])
        BY <1>2, <4>1 DEF Joins
      <4>3. h[1] = s[2]
        BY <1>1, <2>1, <4>1 DEF Joins
      <4> QED
        BY <3>1, <3>2, <4>1, <4>2, <4>3
    <3>3. CASE i # 1
      <4>1. /\ i \in 2..(L - 1) /\ i \in 1..(L - 1) /\ i + 1 \in 2..L /\ i + 1 \in 1..L
            /\ 1 \in 1..L
            /\ i - 1 \in 1..(L - 1) /\ ~(i <= i - 1)
            /\ (i - 1) + 1 = i /\ (i + 1) - 1 = i
        BY <1>1, <3>1, <3>3
      <4>2. g[i] = Cat(s[1], h[i - 1])
        BY <3>1, <4>1
      <4>3. g[i + 1] = Cat(g[i], s[i + 1]) /\ h[i] = Cat(h[i - 1], s[i + 1])
        BY <1>1, <1>2, <2>1, <4>1 DEF Joins
      <4>4. s[1] \in U /\ h[i - 1] \in U /\ s[i + 1] \in U
        <5> HIDE DEF U
        <5> QED
          BY <1>1, <2>1, <4>1
      <4>5. Cat(Cat(s[1], h[i - 1]), s[i + 1]) = Cat(s[1], Cat(h[i - 1], s[i + 1]))
        <5> HIDE DEF U
        <5> QED
          BY <1>a, <4>4
      <4> QED
        BY <3>1, <4>2, <4>3, <4>5
    <3> QED
      BY <3>2, <3>3
  <2>3. L - 1 \in 1..(L - 1) /\ (L - 1) + 1 = L
    BY <1>1, <1>4
  <2>4. g[L] = Cat(s[1], h[L - 1])
    BY <2>2, <2>3
  <2> QED
    BY <1>1, <1>2, <2>1, <2>4 DEF t
<1> QED
  BY <1>3, <1>4
=============================================================================
