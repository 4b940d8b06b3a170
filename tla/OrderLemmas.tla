----------------------------- MODULE OrderLemmas -----------------------------
(***************************************************************************)
(* Facts that proofs about several modules need: the least and the         *)
(* greatest element of a set of integers, which Min and Max choose, what   *)
(* bounds a finite set, how many elements a set and its image have, the    *)
(* date and the clock of a moment, and what the operators of Sorting make  *)
(* of a set.                                                               *)
(***************************************************************************)
EXTENDS Sorting, FiniteSetsExt, FiniteSetTheorems, TLAPS

\* A set of natural numbers has a least element.
LEMMA LeastNatural ==
  ASSUME NEW S, S \subseteq Nat, S # {}
  PROVE  \E n \in S : \A m \in S : n <= m
<1> DEFINE Sets == {0..n : n \in S}
<1>1. Sets \subseteq FiniteSubsetsOf(Nat) /\ Sets # {}
  <2>1. ASSUME NEW n \in S PROVE 0..n \in SUBSET Nat /\ IsFiniteSet(0..n)
    BY FS_Interval
  <2> QED BY <2>1 DEF FiniteSubsetsOf
<1>2. PICK T \in Sets : \A U \in Sets : ~(<<U, T>> \in StrictSubsetOrdering(Nat))
  <2> HIDE DEF Sets
  <2> QED BY <1>1, WFMin, FS_StrictSubsetOrderingWellFounded
<1>3. PICK n \in S : T = 0..n
  OBVIOUS
<1>4. ASSUME NEW m \in S, m < n PROVE FALSE
  <2>1. 0..m \in Sets /\ 0..m \in SUBSET Nat /\ 0..n \in SUBSET Nat
    OBVIOUS
  <2>2. 0..m \subseteq 0..n
    BY <1>4
  <2>3. 0..m # 0..n
    <3>1. n \in 0..n /\ n \notin 0..m
      BY <1>4
    <3> QED BY <3>1
  <2>4. <<0..m, 0..n>> \in StrictSubsetOrdering(Nat)
    <3> HIDE DEF Sets
    <3> QED BY <2>1, <2>2, <2>3 DEF StrictSubsetOrdering
  <2> HIDE DEF Sets
  <2> QED BY <1>2, <1>3, <2>1, <2>4
<1> QED BY <1>3, <1>4

\* A set of integers with a lower bound has a least element, which Min chooses.
LEMMA MinIs ==
  ASSUME NEW S, S \subseteq Int, S # {}, NEW bound \in Int, \A x \in S : bound <= x
  PROVE  Min(S) \in S /\ \A x \in S : Min(S) <= x
<1> DEFINE Above == {n \in Nat : bound + n \in S}
<1>0. PICK s \in S : TRUE
  OBVIOUS
<1>1. Above \subseteq Nat /\ Above # {}
  <2>1. s - bound \in Nat /\ bound + (s - bound) = s
    OBVIOUS
  <2> QED BY <2>1
<1>2. PICK n \in Above : \A m \in Above : n <= m
  <2> HIDE DEF Above
  <2> QED BY <1>1, LeastNatural
<1>3. bound + n \in S
  OBVIOUS
<1>4. ASSUME NEW y \in S PROVE bound + n <= y
  <2>1. y - bound \in Nat /\ bound + (y - bound) = y
    OBVIOUS
  <2>2. y - bound \in Above
    BY <2>1
  <2>3. n <= y - bound /\ n \in Nat
    BY <1>2, <2>2
  <2> QED BY <2>1, <2>3
<1> QED BY <1>3, <1>4 DEF Min

\* Of two numbers.
LEMMA LesserOfTwo ==
  ASSUME NEW x \in Int, NEW y \in Int
  PROVE  Min({x, y}) = IF x <= y THEN x ELSE y
<1> DEFINE S == {x, y}
           z == IF x <= y THEN x ELSE y
<1>1. S \subseteq Int /\ S # {} /\ z \in Int /\ \A s \in S : z <= s
  OBVIOUS
<1>2. Min(S) \in S /\ \A s \in S : Min(S) <= s
  <2> HIDE DEF S, z
  <2> QED BY <1>1, MinIs
<1> QED BY <1>2

\* A set of integers with an upper bound has a greatest element, which Max chooses.
LEMMA MaxIs ==
  ASSUME NEW S, S \subseteq Int, S # {}, NEW bound \in Int, \A x \in S : x <= bound
  PROVE  Max(S) \in S /\ \A x \in S : x <= Max(S)
<1> DEFINE Below == {n \in Nat : bound - n \in S}
<1>0. PICK s \in S : TRUE
  OBVIOUS
<1>1. Below \subseteq Nat /\ Below # {}
  <2>1. bound - s \in Nat /\ bound - (bound - s) = s
    OBVIOUS
  <2> QED BY <2>1
<1>2. PICK n \in Below : \A m \in Below : n <= m
  <2> HIDE DEF Below
  <2> QED BY <1>1, LeastNatural
<1>3. bound - n \in S
  OBVIOUS
<1>4. ASSUME NEW y \in S PROVE y <= bound - n
  <2>1. bound - y \in Nat /\ bound - (bound - y) = y
    OBVIOUS
  <2>2. bound - y \in Below
    BY <2>1
  <2>3. n <= bound - y /\ n \in Nat
    BY <1>2, <2>2
  <2> QED BY <2>1, <2>3
<1> QED BY <1>3, <1>4 DEF Max

\* Of two numbers.
LEMMA GreaterOfTwo ==
  ASSUME NEW x \in Int, NEW y \in Int
  PROVE  Max({x, y}) = IF x <= y THEN y ELSE x
<1> DEFINE S == {x, y}
           z == IF x <= y THEN y ELSE x
<1>1. S \subseteq Int /\ S # {} /\ z \in Int /\ \A s \in S : s <= z
  OBVIOUS
<1>2. Max(S) \in S /\ \A s \in S : s <= Max(S)
  <2> HIDE DEF S, z
  <2> QED BY <1>1, MaxIs
<1> QED BY <1>2

\* A finite set of natural numbers is bounded.
LEMMA FiniteIsBounded ==
  ASSUME NEW S, IsFiniteSet(S), S \subseteq Nat
  PROVE  \E bound \in Nat : \A x \in S : x <= bound
<1>n. PICK n \in Nat : ExistsSurjection(1..n, S)
  BY FS_NatSurjection
<1>1. PICK f \in [1..n -> S] : \A x \in S : \E k \in 1..n : f[k] = x
  BY <1>n DEF ExistsSurjection, Surjection
<1> DEFINE Free == {k \in 0..n : ~ \E bound \in Nat : \A j \in 1..k : f[j] <= bound}
<1>2. CASE Free = {}
  <2>1. n \notin Free
    BY <1>2
  <2>2. PICK bound \in Nat : \A j \in 1..n : f[j] <= bound
    BY <2>1
  <2> QED BY <1>1, <2>2
<1>3. CASE Free # {}
  <2>1. PICK k \in Free : \A j \in Free : k <= j
    <3>1. Free \subseteq Nat
      OBVIOUS
    <3> HIDE DEF Free
    <3> QED BY <1>3, <3>1, LeastNatural
  <2>2. k # 0
    <3> SUFFICES ASSUME k = 0 PROVE FALSE
      OBVIOUS
    <3>1. \A j \in 1..k : f[j] <= 0
      OBVIOUS
    <3> QED BY <3>1
  <2>3. k - 1 \notin Free /\ k - 1 \in 0..n /\ k \in 1..n
    <3>1. k \in 0..n
      OBVIOUS
    <3>2. k - 1 \in 0..n /\ k \in 1..n /\ ~(k <= k - 1)
      BY <2>2, <3>1
    <3> HIDE DEF Free
    <3> QED BY <2>1, <3>2
  <2>4. PICK bound \in Nat : \A j \in 1..k - 1 : f[j] <= bound
    BY <2>3
  <2>5. f[k] \in Nat /\ \A j \in 1..n : f[j] \in Nat
    BY <2>3
  <2>6. \A j \in 1..k : f[j] <= bound + f[k]
    <3> SUFFICES ASSUME NEW j \in 1..k PROVE f[j] <= bound + f[k]
      OBVIOUS
    <3>1. f[j] \in Nat
      BY <2>3, <2>5
    <3>2. CASE j = k
      BY <2>5, <3>2
    <3>3. CASE j # k
      <4>1. j \in 1..k-1
        BY <3>3, <2>3
      <4>2. f[j] <= bound
        BY <4>1, <2>4
      <4> QED BY <4>2, <2>5, <3>1
    <3> QED BY <3>2, <3>3
  <2>7. bound + f[k] \in Nat
    BY <2>5
  <2> QED BY <2>6, <2>7
<1> QED BY <1>2, <1>3

-----------------------------------------------------------------------------
\* The image of a finite set is finite.
LEMMA FiniteImage ==
  ASSUME NEW S, IsFiniteSet(S), NEW f, DOMAIN f = S, f = [x \in S |-> f[x]]
  PROVE  IsFiniteSet({f[x] : x \in S})
<1> DEFINE T == {f[x] : x \in S}
<1>1. f \in [S -> T] /\ \A y \in T : \E x \in S : f[x] = y
  OBVIOUS
<1>2. f \in Surjection(S, T)
  <2> HIDE DEF T
  <2> QED BY <1>1 DEF Surjection
<1>3. IsFiniteSet(T)
  <2> HIDE DEF T
  <2> QED BY <1>2, FS_Surjection
<1> QED BY <1>3

\* A function that tells the elements of its domain apart and reaches all of a set
\* shows that both have as many elements.
LEMMA SameNumber ==
  ASSUME NEW S, IsFiniteSet(S), NEW T, NEW f \in [S -> T],
         \A x, y \in S : f[x] = f[y] => x = y, \A z \in T : \E x \in S : f[x] = z
  PROVE  /\ IsFiniteSet(T) /\ Cardinality(T) = Cardinality(S)
         /\ Cardinality(S) \in Nat
<1>1. f \in Injection(S, T) /\ f \in Surjection(S, T)
  BY DEF Injection, IsInjective, Surjection
<1> QED BY <1>1, FS_Surjection, FS_CardinalityType

\* A function that tells the elements of its domain apart has no more of them than
\* there are values.
LEMMA FiniteSource ==
  ASSUME NEW S, NEW T, IsFiniteSet(T), NEW f \in [S -> T],
         \A x, y \in S : f[x] = f[y] => x = y
  PROVE  IsFiniteSet(S) /\ Cardinality(S) <= Cardinality(T)
<1>1. f \in Injection(S, T)
  BY DEF Injection, IsInjective
<1> QED BY <1>1, FS_Injection

\* Two finite sets without a common element have as many elements as their union.
LEMMA NumberOfUnion ==
  ASSUME NEW S, IsFiniteSet(S), NEW T, IsFiniteSet(T), S \cap T = {}
  PROVE  /\ IsFiniteSet(S \cup T) /\ Cardinality(S) \in Nat /\ Cardinality(T) \in Nat
         /\ Cardinality(S \cup T) = Cardinality(S) + Cardinality(T)
<1>1. Cardinality(S \cap T) = 0
  BY FS_EmptySet
<1>2. Cardinality(S) \in Nat /\ Cardinality(T) \in Nat
  BY FS_CardinalityType
<1>3. /\ IsFiniteSet(S \cup T)
      /\ Cardinality(S \cup T) = Cardinality(S) + Cardinality(T) - Cardinality(S \cap T)
  BY FS_Union
<1> QED BY <1>1, <1>2, <1>3

\* A moment is so many days and a part of a day.
LEMMA DayAndClock ==
  ASSUME NEW length \in Nat \ {0}, NEW m \in Int
  PROVE  /\ m \div length \in Int /\ m % length \in Nat /\ m % length < length
         /\ m = (m \div length) * length + (m % length)
<1> DEFINE q == m \div length
           r == m % length
<1>1. q \in Int /\ r \in Int /\ 0 <= r /\ r < length
  OBVIOUS
<1>2. m = length * q + r
  OBVIOUS
<1>3. length * q = q * length
  <2> HIDE DEF q
  <2> QED BY <1>1
<1>4. m = q * length + r
  <2> HIDE DEF q, r
  <2> QED BY <1>2, <1>3
<1>5. r \in Nat
  <2> HIDE DEF q, r
  <2> QED BY <1>1
<1> QED BY <1>1, <1>4, <1>5, Zenon

\* There is one way to write it so.
LEMMA OneDay ==
  ASSUME NEW length \in Nat \ {0}, NEW q \in Int, NEW r \in Nat, r < length,
         NEW p \in Int, NEW s \in Nat, s < length, q * length + r = p * length + s
  PROVE  q = p /\ r = s
<1>1. ASSUME NEW x \in Int, NEW y \in Int, x < y PROVE x * length + length <= y * length
  <2>1. PICK k \in Nat : y = x + 1 + k
    <3>1. y - x - 1 \in Nat /\ y = x + 1 + (y - x - 1)
      BY <1>1
    <3> QED BY <3>1
  <2>2. k * length \in Nat
    OBVIOUS
  <2>3. (x + 1 + k) * length = x * length + length + k * length
    OBVIOUS
  <2>4. x * length \in Int
    OBVIOUS
  <2> QED BY <2>1, <2>2, <2>3, <2>4
<1> DEFINE a == q * length
           b == p * length
<1>2. a \in Int /\ b \in Int
  OBVIOUS
<1>3. (q < p => a + length <= b) /\ (p < q => b + length <= a)
  BY <1>1
<1>4. a + r = b + s
  OBVIOUS
<1>5. q = p => a = b
  OBVIOUS
<1> HIDE DEF a, b
<1> QED BY <1>2, <1>3, <1>4, <1>5

-----------------------------------------------------------------------------
\* A part of a finite set that lacks an element is smaller.
LEMMA PartIsSmaller ==
  ASSUME NEW T, IsFiniteSet(T), NEW S, S \subseteq T, NEW x \in T, x \notin S
  PROVE  Cardinality(S) \in Nat /\ Cardinality(T) \in Nat /\ Cardinality(S) < Cardinality(T)
<1>1. IsFiniteSet(S) /\ Cardinality(S) <= Cardinality(T) /\ Cardinality(S) # Cardinality(T)
  BY FS_Subset
<1> QED BY <1>1, FS_CardinalityType

\* An element of a finite set has fewer elements ahead of it than the set has.
LEMMA AheadOfOne ==
  ASSUME NEW S, IsFiniteSet(S), NEW before, IsStrictOrder(before, S), NEW x \in S
  PROVE  /\ Cardinality(Ahead(S, before, x)) \in Nat
         /\ Cardinality(Ahead(S, before, x)) < Cardinality(S)
<1>1. Ahead(S, before, x) \subseteq S /\ x \notin Ahead(S, before, x)
  BY DEF Ahead, IsStrictOrder
<1> QED BY <1>1, PartIsSmaller

\* Of two elements, the one that comes before has fewer ahead of it.
LEMMA FewerAhead ==
  ASSUME NEW S, IsFiniteSet(S), NEW before, IsStrictOrder(before, S),
         NEW x \in S, NEW y \in S, <<x, y>> \in before
  PROVE  Cardinality(Ahead(S, before, x)) < Cardinality(Ahead(S, before, y))
<1>1. /\ Ahead(S, before, x) \subseteq Ahead(S, before, y)
      /\ x \in Ahead(S, before, y) /\ x \notin Ahead(S, before, x)
      /\ Ahead(S, before, y) \subseteq S
  BY DEF Ahead, IsStrictOrder
<1>2. IsFiniteSet(Ahead(S, before, y))
  BY <1>1, FS_Subset
<1> QED BY <1>1, <1>2, PartIsSmaller

\* Each place in the order is taken by one element.
LEMMA PlacesTaken ==
  ASSUME NEW S, IsFiniteSet(S), NEW before, IsStrictOrder(before, S),
         NEW i \in 1..Cardinality(S)
  PROVE  \E x \in S : Cardinality(Ahead(S, before, x)) = i - 1
<1> DEFINE place == [x \in S |-> Cardinality(Ahead(S, before, x)) + 1]
           places == 1..Cardinality(S)
<1>0. Cardinality(S) \in Nat
  BY FS_CardinalityType
<1>1. place \in [S -> places]
  <2> SUFFICES ASSUME NEW x \in S PROVE Cardinality(Ahead(S, before, x)) + 1 \in places
    OBVIOUS
  <2> QED BY <1>0, AheadOfOne
<1>2. ASSUME NEW x \in S, NEW y \in S, x # y PROVE place[x] # place[y]
  <2>1. /\ Cardinality(Ahead(S, before, x)) \in Nat /\ Cardinality(Ahead(S, before, y)) \in Nat
        /\ place[x] = Cardinality(Ahead(S, before, x)) + 1
        /\ place[y] = Cardinality(Ahead(S, before, y)) + 1
    BY AheadOfOne
  <2>2. <<x, y>> \in before \/ <<y, x>> \in before
    BY <1>2 DEF IsStrictOrder
  <2>3. \/ Cardinality(Ahead(S, before, x)) < Cardinality(Ahead(S, before, y))
        \/ Cardinality(Ahead(S, before, y)) < Cardinality(Ahead(S, before, x))
    BY <2>2, FewerAhead
  <2> QED BY <2>1, <2>3
<1>3. place \in Injection(S, places)
  <2> HIDE DEF place, places
  <2> QED BY <1>1, <1>2 DEF Injection, IsInjective
<1>4. IsFiniteSet(places) /\ Cardinality(places) = Cardinality(S)
  <2>1. /\ IsFiniteSet(1..Cardinality(S))
        /\ Cardinality(1..Cardinality(S)) =
             IF 1 > Cardinality(S) THEN 0 ELSE Cardinality(S) - 1 + 1
    BY <1>0, FS_Interval
  <2> QED BY <1>0, <2>1
<1>5. place \in Surjection(S, places)
  <2> HIDE DEF place, places
  <2> QED BY <1>3, <1>4, FS_Injection
<1>6. PICK x \in S : place[x] = i
  <2> HIDE DEF place
  <2> QED BY <1>5 DEF Surjection
<1> QED BY <1>6, AheadOfOne

\* A sorted set: every element once, those that come before first.
LEMMA SortedLists ==
  ASSUME NEW S, IsFiniteSet(S), NEW before, IsStrictOrder(before, S)
  PROVE  LET list == Sorted(S, before)
         IN  /\ Cardinality(S) \in Nat /\ list \in [1..Cardinality(S) -> S]
             /\ Len(list) = Cardinality(S) /\ DOMAIN list = 1..Cardinality(S)
             /\ \A x \in S : \E i \in DOMAIN list : list[i] = x
             /\ \A i, j \in DOMAIN list : i < j => <<list[i], list[j]>> \in before
             /\ \A i, j \in DOMAIN list : list[i] = list[j] => i = j
<1> DEFINE list == Sorted(S, before)
<1>0. Cardinality(S) \in Nat
  BY FS_CardinalityType
<1>1. ASSUME NEW i \in 1..Cardinality(S)
      PROVE  list[i] \in S /\ Cardinality(Ahead(S, before, list[i])) = i - 1
  BY PlacesTaken DEF Sorted
<1>2. DOMAIN list = 1..Cardinality(S) /\ list \in [1..Cardinality(S) -> S]
  BY <1>1 DEF Sorted
<1>3. Len(list) = Cardinality(S)
  BY <1>0, <1>2
<1>4. ASSUME NEW i \in 1..Cardinality(S), NEW j \in 1..Cardinality(S), list[i] = list[j]
      PROVE  i = j
  <2> HIDE DEF list
  <2>1. i - 1 = j - 1
    BY <1>1, <1>4
  <2> QED BY <1>0, <2>1
<1>5. ASSUME NEW i \in 1..Cardinality(S), NEW j \in 1..Cardinality(S), i < j
      PROVE  <<list[i], list[j]>> \in before
  <2> HIDE DEF list
  <2>1. list[i] # list[j]
    BY <1>4, <1>5
  <2>2. CASE <<list[j], list[i]>> \in before
    <3>1. j - 1 < i - 1
      BY <1>1, <2>2, FewerAhead
    <3> QED BY <1>0, <1>5, <3>1
  <2> QED BY <1>1, <2>1, <2>2 DEF IsStrictOrder
<1>6. ASSUME NEW x \in S PROVE \E i \in 1..Cardinality(S) : list[i] = x
  <2> DEFINE i == Cardinality(Ahead(S, before, x)) + 1
  <2>1. i \in 1..Cardinality(S) /\ Cardinality(Ahead(S, before, x)) = i - 1
    BY <1>0, AheadOfOne
  <2>2. list[i] \in S /\ Cardinality(Ahead(S, before, list[i])) = i - 1
    BY <1>1, <2>1
  <2>3. list[i] = x
    <3> HIDE DEF i, list
    <3> SUFFICES ASSUME list[i] # x PROVE FALSE
      OBVIOUS
    <3>1. \/ Cardinality(Ahead(S, before, x)) < Cardinality(Ahead(S, before, list[i]))
          \/ Cardinality(Ahead(S, before, list[i])) < Cardinality(Ahead(S, before, x))
      BY <2>2, FewerAhead DEF IsStrictOrder
    <3> QED BY <2>1, <2>2, <3>1, <1>0
  <2> QED BY <2>1, <2>3
<1> HIDE DEF list
<1>7. /\ Cardinality(S) \in Nat /\ list \in [1..Cardinality(S) -> S]
      /\ Len(list) = Cardinality(S) /\ DOMAIN list = 1..Cardinality(S)
  BY <1>0, <1>2, <1>3
<1>8. \A x \in S : \E i \in DOMAIN list : list[i] = x
  BY <1>2, <1>6
<1>9. \A i, j \in DOMAIN list : i < j => <<list[i], list[j]>> \in before
  BY <1>2, <1>5
<1>10. \A i, j \in DOMAIN list : list[i] = list[j] => i = j
  BY <1>2, <1>4
<1> QED BY <1>7, <1>8, <1>9, <1>10 DEF list

\* A limit keeps all elements of a set that is small enough, and otherwise as many
\* as it says.
LEMMA LimitedIs ==
  ASSUME NEW S, IsFiniteSet(S), NEW before, IsStrictOrder(before, S), NEW limit \in Nat
  PROVE  LET kept == Limited(S, before, limit)
         IN  /\ Cardinality(S) \in Nat /\ kept \subseteq S /\ IsFiniteSet(kept)
             /\ Cardinality(S) <= limit => kept = S
             /\ limit < Cardinality(S) => Cardinality(kept) = limit
<1> DEFINE kept == Limited(S, before, limit)
<1>0. Cardinality(S) \in Nat
  BY FS_CardinalityType
<1>1. kept \subseteq S /\ IsFiniteSet(kept)
  BY FS_Subset DEF Limited
<1>2. ASSUME Cardinality(S) <= limit PROVE kept = S
  <2>1. ASSUME NEW x \in S PROVE Cardinality(Ahead(S, before, x)) < limit
    BY <1>0, <1>2, AheadOfOne
  <2> QED BY <2>1 DEF Limited
<1>3. ASSUME limit < Cardinality(S) PROVE Cardinality(kept) = limit
  <2> DEFINE place == [x \in kept |-> Cardinality(Ahead(S, before, x)) + 1]
  <2>1. ASSUME NEW x \in kept
        PROVE  place[x] \in 1..limit /\ x \in S /\ place[x] = Cardinality(Ahead(S, before, x)) + 1
    <3>1. x \in S /\ Cardinality(Ahead(S, before, x)) < limit
      BY DEF Limited
    <3> QED BY <3>1, AheadOfOne
  <2>2. place \in [kept -> 1..limit]
    BY <2>1
  <2>3. ASSUME NEW x \in kept, NEW y \in kept, place[x] = place[y] PROVE x = y
    <3> HIDE DEF place, kept
    <3>1. /\ x \in S /\ y \in S
          /\ Cardinality(Ahead(S, before, x)) \in Nat /\ Cardinality(Ahead(S, before, y)) \in Nat
      BY <2>1, AheadOfOne
    <3>2. Cardinality(Ahead(S, before, x)) + 1 = Cardinality(Ahead(S, before, y)) + 1
      BY <2>1, <2>3
    <3>3. /\ ~(Cardinality(Ahead(S, before, x)) < Cardinality(Ahead(S, before, y)))
          /\ ~(Cardinality(Ahead(S, before, y)) < Cardinality(Ahead(S, before, x)))
      BY <3>1, <3>2
    <3> QED BY <3>1, <3>3, FewerAhead DEF IsStrictOrder
  <2>4. ASSUME NEW i \in 1..limit PROVE \E x \in kept : place[x] = i
    <3>1. i \in 1..Cardinality(S)
      BY <1>0, <1>3
    <3>2. PICK x \in S : Cardinality(Ahead(S, before, x)) = i - 1
      BY <3>1, PlacesTaken
    <3>3. x \in kept
      BY <3>2 DEF Limited
    <3> QED BY <3>2, <3>3
  <2>5. place \in Injection(kept, 1..limit) /\ place \in Surjection(kept, 1..limit)
    <3> HIDE DEF place, kept
    <3> QED BY <2>2, <2>3, <2>4 DEF Injection, IsInjective, Surjection
  <2>6. IsFiniteSet(1..limit) /\ Cardinality(1..limit) = limit
    <3>1. /\ IsFiniteSet(1..limit)
          /\ Cardinality(1..limit) = IF 1 > limit THEN 0 ELSE limit - 1 + 1
      BY FS_Interval
    <3> QED BY <3>1
  <2> HIDE DEF place, kept
  <2> QED BY <2>5, <2>6, FS_Injection
<1> QED BY <1>0, <1>1, <1>2, <1>3
=============================================================================
