--------------------------- MODULE CollectionLemmas ---------------------------
(***************************************************************************)
(* Facts about the least of a set, ranks in a finite set of numbers and    *)
(* the elements of a sequence, which the proofs of several components use. *)
(***************************************************************************)
EXTENDS Ranks, SequencesExt, FiniteSetTheorems, SequenceTheorems, WellFoundedInduction, TLAPS

-----------------------------------------------------------------------------
(* The least of a set.                                                      *)

\* A measure has a least value on a set that is not empty.
LEMMA Least ==
  ASSUME NEW S, S # {}, NEW f \in [S -> Nat]
  PROVE  \E x \in S : \A y \in S : f[x] <= f[y]
<1> DEFINE V == {f[x] : x \in S}
<1>1. V \in SUBSET Nat /\ V # {}
  OBVIOUS
<1>2. PICK n \in V : \A m \in V : n <= m
  <2> DEFINE R == OpToRel(<, Nat)
  <2>1. IsWellFoundedOn(R, Nat)
    BY NatLessThanWellFounded
  <2>2. \A n, m \in Nat : n < m => <<n, m>> \in R
    BY DEF OpToRel
  <2> HIDE DEF R, V
  <2>3. PICK n \in V : \A m \in V : ~(<<m, n>> \in R)
    BY <1>1, <2>1, WFMin
  <2>4. \A m \in V : ~(m < n)
    BY <1>1, <2>2, <2>3
  <2> QED BY <1>1, <2>4
<1>3. PICK x \in S : f[x] = n
  BY <1>2
<1> QED BY <1>2, <1>3

\* Min is the least of a set of numbers that is not empty.
LEMMA MinProperties ==
  ASSUME NEW S \in SUBSET Nat, S # {}
  PROVE  Min(S) \in S /\ \A n \in S : Min(S) <= n
<1> DEFINE f == [n \in S |-> n]
<1>1. f \in [S -> Nat]
  OBVIOUS
<1>2. \E x \in S : \A y \in S : f[x] <= f[y]
  BY <1>1, Least
<1>3. \E x \in S : \A y \in S : x <= y
  BY <1>2
<1> QED BY <1>3 DEF Min

-----------------------------------------------------------------------------
(* Ranks.                                                                   *)

\* Rank numbers a finite set of naturals from 1 up to its size.
LEMMA RankBijection ==
  ASSUME NEW S \in SUBSET Nat, IsFiniteSet(S)
  PROVE  [i \in S |-> Rank(S, i)] \in Bijection(S, 1 .. Cardinality(S))
<1> DEFINE f == [i \in S |-> Rank(S, i)]
           n == Cardinality(S)
           below(i) == {j \in S : j <= i}
<1>1. n \in Nat
  BY FS_CardinalityType
<1>2. ASSUME NEW i \in S
      PROVE  IsFiniteSet(below(i)) /\ Cardinality(below(i)) \in 1 .. n
  <2>1. IsFiniteSet(below(i)) /\ Cardinality(below(i)) <= n
    BY FS_Subset
  <2>2. Cardinality(below(i)) \in Nat
    BY <2>1, FS_CardinalityType
  <2>3. Cardinality(below(i)) # 0
    BY <2>1, FS_EmptySet
  <2> QED BY <1>1, <2>1, <2>2, <2>3
<1>3. f \in [S -> 1 .. n]
  BY <1>2 DEF Rank
<1>4. ASSUME NEW i \in S, NEW j \in S, i < j
      PROVE  Rank(S, i) < Rank(S, j)
  <2>1. below(i) \in SUBSET below(j) /\ j \in below(j) /\ j \notin below(i)
    <3>1. i \in Nat /\ j \in Nat /\ \A l \in S : l \in Nat
      OBVIOUS
    <3>2. ASSUME NEW l \in S, l <= i PROVE l <= j
      BY <1>4, <3>1, <3>2
    <3>3. j <= j /\ ~(j <= i)
      BY <1>4, <3>1
    <3> QED BY <3>2, <3>3
  <2>2. Cardinality(below(i)) <= Cardinality(below(j)) /\ Cardinality(below(i)) # Cardinality(below(j))
    BY <1>2, <2>1, FS_Subset
  <2> QED BY <1>2, <2>2 DEF Rank
<1>5. f \in Injection(S, 1 .. n)
  <2>1. ASSUME NEW i \in S, NEW j \in S, f[i] = f[j] PROVE i = j
    <3>1. Rank(S, i) \in Nat /\ Rank(S, j) \in Nat
      BY <1>2 DEF Rank
    <3> QED BY <1>4, <2>1, <3>1
  <2> QED BY <1>3, <2>1 DEF Injection, IsInjective
<1>6. IsFiniteSet(1 .. n) /\ Cardinality(1 .. n) = n
  BY <1>1, FS_Interval
<1>7. f \in Surjection(S, 1 .. n)
  BY <1>5, <1>6, FS_Injection
<1> QED BY <1>5, <1>7 DEF Bijection

\* Nth finds the number at each place, another at each.
LEMMA NthMember ==
  ASSUME NEW S \in SUBSET Nat, IsFiniteSet(S)
  PROVE  /\ \A m \in 1 .. Cardinality(S) : Nth(S, m) \in S /\ Rank(S, Nth(S, m)) = m
         /\ \A i \in S : Rank(S, i) \in 1 .. Cardinality(S) /\ Nth(S, Rank(S, i)) = i
<1> DEFINE f == [i \in S |-> Rank(S, i)]
<1>1. f \in Bijection(S, 1 .. Cardinality(S))
  BY RankBijection
<1>2. /\ \A m \in 1 .. Cardinality(S) : \E i \in S : Rank(S, i) = m
      /\ \A i, j \in S : Rank(S, i) = Rank(S, j) => i = j
      /\ \A i \in S : Rank(S, i) \in 1 .. Cardinality(S)
  BY <1>1 DEF Bijection, Injection, Surjection, IsInjective
<1>3. \A m \in 1 .. Cardinality(S) : Nth(S, m) \in S /\ Rank(S, Nth(S, m)) = m
  BY <1>2 DEF Nth
<1> QED BY <1>2, <1>3

\* How many numbers of S have a rank up to m.
LEMMA RankCount ==
  ASSUME NEW S \in SUBSET Nat, IsFiniteSet(S), NEW m \in Nat
  PROVE  Cardinality({i \in S : Rank(S, i) <= m}) = IF m <= Cardinality(S) THEN m ELSE Cardinality(S)
<1> DEFINE T == {i \in S : Rank(S, i) <= m}
           n == Cardinality(S)
<1>0. n \in Nat
  BY FS_CardinalityType
<1>1. /\ \A k \in 1 .. n : Nth(S, k) \in S /\ Rank(S, Nth(S, k)) = k
      /\ \A i \in S : Rank(S, i) \in 1 .. n /\ Nth(S, Rank(S, i)) = i
  BY NthMember
<1>2. CASE m <= n
  <2> DEFINE g == [k \in 1 .. m |-> Nth(S, k)]
  <2>1. g \in [1 .. m -> T]
    BY <1>0, <1>1, <1>2
  <2>2. ASSUME NEW j \in 1 .. m, NEW k \in 1 .. m, g[j] = g[k] PROVE j = k
    <3>1. j \in 1 .. n /\ k \in 1 .. n /\ Nth(S, j) = Nth(S, k)
      BY <1>0, <1>2, <2>2
    <3> QED BY <1>1, <3>1
  <2>3. \A i \in T : \E k \in 1 .. m : g[k] = i
    BY <1>0, <1>1
  <2>4. g \in Bijection(1 .. m, T)
    BY <2>1, <2>2, <2>3 DEF Bijection, Injection, Surjection, IsInjective
  <2>5. ExistsBijection(1 .. m, T)
    BY <2>4 DEF ExistsBijection
  <2> QED BY <1>2, <2>5, FS_CountingElements
<1>3. CASE ~(m <= n)
  <2>1. T = S
    <3>1. ASSUME NEW i \in S PROVE Rank(S, i) <= m
      BY <1>0, <1>1, <1>3
    <3> QED BY <3>1
  <2> QED BY <1>3, <2>1
<1> QED BY <1>2, <1>3

-----------------------------------------------------------------------------
(* The elements of a sequence.                                              *)

\* The elements of a sequence over S.
LEMMA ToSetType == ASSUME NEW S, NEW s \in Seq(S) PROVE ToSet(s) \subseteq S
BY DEF ToSet

\* The elements of a sequence with one more.
LEMMA ToSetAppend ==
  ASSUME NEW S, NEW s \in Seq(S), NEW x \in S
  PROVE  /\ Append(s, x) \in Seq(S) /\ Len(Append(s, x)) = Len(s) + 1
         /\ ToSet(Append(s, x)) = ToSet(s) \cup {x}
<1> DEFINE t == Append(s, x)
<1>1. /\ t \in Seq(S) /\ Len(s) \in Nat /\ Len(t) = Len(s) + 1
      /\ DOMAIN s = 1 .. Len(s) /\ DOMAIN t = 1 .. Len(s) + 1
      /\ \A i \in 1 .. Len(s) : t[i] = s[i]
      /\ t[Len(s) + 1] = x
  OBVIOUS
<1> HIDE DEF t
<1>2. \A i \in DOMAIN t : i \in DOMAIN s \/ i = Len(s) + 1
  BY <1>1
<1>3. Len(s) + 1 \in DOMAIN t /\ DOMAIN s \subseteq DOMAIN t
  BY <1>1
<1>4. ToSet(t) \subseteq ToSet(s) \cup {x}
  BY <1>1, <1>2 DEF ToSet
<1>5. ToSet(s) \cup {x} \subseteq ToSet(t)
  BY <1>1, <1>3 DEF ToSet
<1> QED BY <1>1, <1>4, <1>5 DEF t

\* The elements of a sequence are its head and those behind it.
LEMMA ToSetTail ==
  ASSUME NEW S, NEW s \in Seq(S), s # << >>
  PROVE  /\ Tail(s) \in Seq(S) /\ Len(Tail(s)) = Len(s) - 1 /\ Head(s) \in S
         /\ ToSet(s) = {Head(s)} \cup ToSet(Tail(s))
<1>1. /\ Tail(s) \in Seq(S) /\ Len(Tail(s)) = Len(s) - 1 /\ Len(s) \in Nat \ {0}
      /\ \A i \in 1 .. Len(s) - 1 : Tail(s)[i] = s[i + 1]
      /\ Head(s) = s[1] /\ Head(s) \in S
  OBVIOUS
<1>2. DOMAIN s = 1 .. Len(s) /\ DOMAIN Tail(s) = 1 .. Len(s) - 1
  BY <1>1
<1>3. ToSet(s) \subseteq {Head(s)} \cup ToSet(Tail(s))
  <2> SUFFICES ASSUME NEW i \in 1 .. Len(s) PROVE s[i] = Head(s) \/ s[i] \in ToSet(Tail(s))
    BY <1>2 DEF ToSet
  <2>1. CASE i = 1
    BY <1>1, <2>1
  <2>2. CASE i # 1
    <3>1. i - 1 \in 1 .. Len(s) - 1 /\ (i - 1) + 1 = i
      BY <1>1, <2>2
    <3>2. Tail(s)[i - 1] = s[i]
      BY <1>1, <3>1
    <3> QED BY <1>2, <3>1, <3>2 DEF ToSet
  <2> QED BY <2>1, <2>2
<1>4. ToSet(Tail(s)) \subseteq ToSet(s)
  <2> SUFFICES ASSUME NEW i \in 1 .. Len(s) - 1 PROVE Tail(s)[i] \in ToSet(s)
    BY <1>2 DEF ToSet
  <2>1. i + 1 \in DOMAIN s /\ Tail(s)[i] = s[i + 1]
    BY <1>1, <1>2
  <2> QED BY <2>1 DEF ToSet
<1>5. Head(s) \in ToSet(s)
  BY <1>1, <1>2 DEF ToSet
<1> QED BY <1>1, <1>3, <1>4, <1>5

===============================================================================
