--------------------------- MODULE ListingsProofs ---------------------------
(***************************************************************************)
(* What the lists of Listings contain, for every finite set of numbers and *)
(* every list.                                                             *)
(***************************************************************************)
EXTENDS Listings, SequencesExt, FiniteSetTheorems, SequenceTheorems, TLAPS

\* A greater member has more members before it.
LEMMA RankGrows ==
  ASSUME NEW n \in Nat, NEW S \in SUBSET (1 .. n), NEW i \in S, NEW j \in S, i < j
  PROVE  Rank(S, i) < Rank(S, j)
<1> DEFINE A == {x \in S : x <= i}
           B == {x \in S : x <= j}
<1>1. IsFiniteSet(1 .. n)
  BY FS_Interval
<1>0. \A x \in S : x \in Nat
  OBVIOUS
<1>2. IsFiniteSet(B)
  BY <1>1, FS_Subset
<1>3. A \in SUBSET B /\ A # B
  <2>1. \A x \in S : x <= i => x <= j
    BY <1>0
  <2>2. j \in B /\ j \notin A
    BY <1>0
  <2> QED BY <2>1, <2>2, Zenon
<1>4. Cardinality(A) <= Cardinality(B) /\ Cardinality(A) # Cardinality(B)
      /\ IsFiniteSet(A)
  <2>1. Cardinality(A) = Cardinality(B) => B = A
    BY <1>2, <1>3, FS_Subset, Zenon
  <2> QED BY <1>2, <1>3, <2>1, FS_Subset
<1>5. Cardinality(A) \in Nat /\ Cardinality(B) \in Nat
  BY <1>2, <1>4, FS_CardinalityType
<1> QED BY <1>4, <1>5 DEF Rank

\* Ranks of members are places of a list of the set.
LEMMA RankBounds ==
  ASSUME NEW n \in Nat, NEW S \in SUBSET (1 .. n), NEW i \in S
  PROVE  /\ IsFiniteSet(S) /\ Cardinality(S) \in Nat
         /\ Rank(S, i) \in 1 .. Cardinality(S)
<1> DEFINE A == {x \in S : x <= i}
<1>1. IsFiniteSet(1 .. n)
  BY FS_Interval
<1>2. IsFiniteSet(S)
  BY <1>1, FS_Subset
<1>3. A \in SUBSET S /\ i \in A
  BY SMT
<1>4. IsFiniteSet(A) /\ Cardinality(A) <= Cardinality(S)
  BY <1>2, <1>3, FS_Subset
<1>5. Cardinality(A) \in Nat /\ Cardinality(S) \in Nat
  BY <1>2, <1>4, FS_CardinalityType
<1>6. Cardinality(A) # 0
  BY <1>3, <1>4, FS_EmptySet
<1> QED BY <1>2, <1>4, <1>5, <1>6 DEF Rank

\* Every place is the rank of a member: ranks are a bijection.
LEMMA RankReached ==
  ASSUME NEW n \in Nat, NEW S \in SUBSET (1 .. n)
  PROVE  \A k \in 1 .. Cardinality(S) : \E i \in S : Rank(S, i) = k
<1> DEFINE c == Cardinality(S)
           f == [i \in S |-> Rank(S, i)]
<1>0. \A x \in S : x \in Nat
  OBVIOUS
<1>1. IsFiniteSet(S) /\ c \in Nat
  <2>1. IsFiniteSet(1 .. n)
    BY FS_Interval
  <2>2. IsFiniteSet(S)
    BY <2>1, FS_Subset
  <2> QED BY <2>2, FS_CardinalityType
<1>2. f \in [S -> 1 .. c]
  BY RankBounds
<1>3. ASSUME NEW i \in S, NEW j \in S, f[i] = f[j] PROVE i = j
  <2>1. i \in Nat /\ j \in Nat
    BY <1>0
  <2>2. Rank(S, i) = Rank(S, j)
    BY <1>3
  <2>3. Rank(S, i) \in 1 .. c
    BY RankBounds
  <2>4. ~(Rank(S, i) < Rank(S, i))
    BY <1>1, <2>3
  <2>5. ~(i < j) /\ ~(j < i)
    BY <2>2, <2>4, RankGrows, Zenon
  <2> QED BY <2>1, <2>5
<1>4. f \in Injection(S, 1 .. c)
  BY <1>2, <1>3, Zenon DEF Injection, IsInjective
<1>5. IsFiniteSet(1 .. c) /\ Cardinality(1 .. c) = c
  BY <1>1, FS_Interval
<1>6. f \in Surjection(S, 1 .. c)
  BY <1>4, <1>5, FS_Injection
<1> QED BY <1>6 DEF Surjection

\* Ascending lists a set of numbers, each member once, in order.
LEMMA AscendingLists ==
  ASSUME NEW n \in Nat, NEW S \in SUBSET (1 .. n)
  PROVE  /\ Cardinality(S) \in Nat
         /\ Ascending(S) \in [1 .. Cardinality(S) -> S]
         /\ \A i \in S : \E k \in 1 .. Cardinality(S) : Ascending(S)[k] = i
         /\ \A k, l \in 1 .. Cardinality(S) : k < l => Ascending(S)[k] < Ascending(S)[l]
<1> DEFINE c == Cardinality(S)
           a == Ascending(S)
<1>0. \A x \in S : x \in Nat
  OBVIOUS
<1>1. c \in Nat
  <2>1. IsFiniteSet(1 .. n)
    BY FS_Interval
  <2>2. IsFiniteSet(S)
    BY <2>1, FS_Subset
  <2> QED BY <2>2, FS_CardinalityType
<1>2. \A k \in 1 .. c : a[k] \in S /\ Rank(S, a[k]) = k
  BY RankReached DEF Ascending
<1>3. a \in [1 .. c -> S]
  BY <1>2 DEF Ascending
<1>4. ASSUME NEW i \in S PROVE \E k \in 1 .. c : a[k] = i
  <2>1. Rank(S, i) \in 1 .. c
    BY RankBounds
  <2> DEFINE j == a[Rank(S, i)]
  <2>2. j \in S /\ Rank(S, j) = Rank(S, i)
    BY <1>2, <2>1
  <2> HIDE DEF j
  <2>3. i \in Nat /\ j \in Nat /\ ~(Rank(S, i) < Rank(S, i))
    BY <1>0, <1>1, <2>1, <2>2
  <2>4. ~(i < j) /\ ~(j < i)
    BY <2>2, <2>3, RankGrows, Zenon
  <2>5. i = j
    BY <2>3, <2>4
  <2> QED BY <2>1, <2>5 DEF j
<1>5. ASSUME NEW k \in 1 .. c, NEW l \in 1 .. c, k < l PROVE a[k] < a[l]
  <2>1. a[k] \in S /\ a[l] \in S /\ Rank(S, a[k]) = k /\ Rank(S, a[l]) = l
    BY <1>2
  <2> HIDE DEF a
  <2>2. a[k] \in Nat /\ a[l] \in Nat
    BY <1>0, <2>1
  <2>4. ~(l < k)
    <3> HIDE DEF c
    <3> QED BY <1>1, <1>5
  <2>3. ~(a[l] < a[k]) /\ a[k] # a[l]
    BY <1>5, <2>1, <2>2, <2>4, RankGrows
  <2> QED BY <2>2, <2>3
<1> QED BY <1>1, <1>3, <1>4, <1>5

\* Ascending of an interval that starts at 1 is the identity.
LEMMA AscendingAll ==
  ASSUME NEW n \in Nat
  PROVE  Ascending(1 .. n) = [k \in 1 .. n |-> k]
<1>1. Cardinality(1 .. n) = n
  BY FS_Interval
<1>2. ASSUME NEW i \in 1 .. n PROVE Rank(1 .. n, i) = i
  <2>1. {x \in 1 .. n : x <= i} = 1 .. i
    OBVIOUS
  <2>2. Cardinality(1 .. i) = i
    BY FS_Interval
  <2> QED BY <2>1, <2>2 DEF Rank
<1>3. \A k \in 1 .. n : (CHOOSE i \in 1 .. n : Rank(1 .. n, i) = k) = k
  BY <1>2
<1> QED BY <1>1, <1>3 DEF Ascending

\* A set of numbers that is not empty has a least member.
LEMMA LeastNumber ==
  ASSUME NEW T \in SUBSET Nat, T # {}
  PROVE  \E x \in T : \A y \in T : x <= y
<1>1. \E x \in T : \A y \in T : ~(<<y, x>> \in OpToRel(<, Nat))
  BY WFMin, NatLessThanWellFounded, Zenon
<1>2. PICK x \in T : \A y \in T : ~(<<y, x>> \in OpToRel(<, Nat))
  BY <1>1
<1>3. \A y \in T : ~(y < x)
  BY <1>2 DEF OpToRel
<1> QED BY <1>3

\* First is a place of its member.
LEMMA FirstIs ==
  ASSUME NEW T, NEW list \in Seq(T), NEW x \in ToSet(list)
  PROVE  First(list, x) \in 1 .. Len(list) /\ list[First(list, x)] = x
<1> DEFINE P == {i \in DOMAIN list : list[i] = x}
<1>1. P # {} /\ P \in SUBSET Nat
  BY DEF ToSet
<1>2. PICK i \in P : \A j \in P : i <= j
  BY <1>1, LeastNumber
<1>3. \E j \in DOMAIN list : list[j] = x /\ \A k \in DOMAIN list : list[k] = x => j <= k
  BY <1>2
<1> QED BY <1>3 DEF First

\* InOrder lists the members of the set, once each.
LEMMA InOrderLists ==
  ASSUME NEW T, NEW list \in Seq(T), NEW S \in SUBSET ToSet(list)
  PROVE  /\ Cardinality(S) \in Nat
         /\ InOrder(list, S) \in [1 .. Cardinality(S) -> S]
         /\ \A x \in S : \E k \in 1 .. Cardinality(S) : InOrder(list, S)[k] = x
         /\ IsInjective(InOrder(list, S))
<1> DEFINE P == {First(list, x) : x \in S}
           places == Ascending(P)
           r == InOrder(list, S)
           f == [x \in S |-> First(list, x)]
<1>1. P \in SUBSET (1 .. Len(list)) /\ Len(list) \in Nat
  BY FirstIs
<1>2. \A x \in S : list[First(list, x)] = x
  BY FirstIs
<1>3. f \in Injection(S, P) /\ f \in Surjection(S, P)
  BY <1>2, Zenon DEF Injection, Surjection, IsInjective
<1>4. Cardinality(P) = Cardinality(S)
  <2>1. IsFiniteSet(1 .. Len(list))
    BY <1>1, FS_Interval
  <2>2. IsFiniteSet(P)
    BY <1>1, <2>1, FS_Subset
  <2> QED BY <1>3, <2>2, FS_Injection
<1>5. /\ Cardinality(P) \in Nat
      /\ places \in [1 .. Cardinality(P) -> P]
      /\ \A i \in P : \E k \in 1 .. Cardinality(P) : places[k] = i
      /\ \A k, l \in 1 .. Cardinality(P) : k < l => places[k] < places[l]
  BY <1>1, AscendingLists
<1> HIDE DEF places
<1>6. r = [k \in 1 .. Cardinality(S) |-> list[places[k]]]
  BY <1>4, <1>5 DEF InOrder, places
<1>7. \A k \in 1 .. Cardinality(S) :
        list[places[k]] \in S /\ First(list, list[places[k]]) = places[k]
  BY <1>2, <1>4, <1>5
<1>8. r \in [1 .. Cardinality(S) -> S]
  BY <1>6, <1>7
<1>9. ASSUME NEW x \in S PROVE \E k \in 1 .. Cardinality(S) : r[k] = x
  <2>1. PICK k \in 1 .. Cardinality(S) : places[k] = First(list, x)
    BY <1>4, <1>5
  <2>2. r[k] = x
    BY <1>2, <1>6, <2>1
  <2> QED BY <2>2
<1>10. ASSUME NEW k \in DOMAIN r, NEW l \in DOMAIN r, r[k] = r[l] PROVE k = l
  <2>1. k \in 1 .. Cardinality(S) /\ l \in 1 .. Cardinality(S)
    BY <1>6
  <2>2. places[k] = places[l]
    BY <1>6, <1>7, <1>10, <2>1
  <2> HIDE DEF P
  <2>3. \A i \in P : i \in Nat
    BY <1>1
  <2>5. places[k] \in Nat
    BY <1>4, <1>5, <2>1, <2>3
  <2>4. ~(k < l) /\ ~(l < k)
    BY <1>4, <1>5, <2>1, <2>2, <2>5
  <2> QED BY <1>4, <1>5, <2>1, <2>4
<1>11. IsInjective(r)
  BY <1>10 DEF IsInjective
<1> QED BY <1>4, <1>5, <1>8, <1>9, <1>11

\* A list without repetitions that keeps all its members is as it was.
LEMMA InOrderAll ==
  ASSUME NEW T, NEW list \in Seq(T), IsInjective(list)
  PROVE  InOrder(list, ToSet(list)) = list
<1> DEFINE n == Len(list)
<1>1. n \in Nat /\ list \in [1 .. n -> T] /\ DOMAIN list = 1 .. n
  OBVIOUS
<1>2. \A x \in ToSet(list) : First(list, x) \in 1 .. n /\ list[First(list, x)] = x
  BY FirstIs
<1>3. \A i \in 1 .. n : First(list, list[i]) = i
  BY <1>1, <1>2 DEF ToSet, IsInjective
<1>4. {First(list, x) : x \in ToSet(list)} = 1 .. n
  BY <1>1, <1>2, <1>3 DEF ToSet
<1>5. Ascending(1 .. n) = [k \in 1 .. n |-> k]
  BY <1>1, AscendingAll
<1>6. InOrder(list, ToSet(list)) = [k \in 1 .. n |-> list[k]]
  BY <1>4, <1>5 DEF InOrder
<1> QED BY <1>1, <1>6

\* A function on the first n numbers is a sequence of that length.
LEMMA FunctionIsList ==
  ASSUME NEW T, NEW n \in Nat, NEW f \in [1 .. n -> T]
  PROVE  f \in Seq(T) /\ Len(f) = n
OBVIOUS
=============================================================================
