---------------------------- MODULE RankingProofs ----------------------------
(***************************************************************************)
(* What holds of every finite set that is listed in an order, be it read   *)
(* page by page or cut off.                                                *)
(***************************************************************************)
EXTENDS Ranking, FunctionTheorems, FiniteSetTheorems, TLAPS

\* What comes earlier has fewer before it.
LEMMA EarlierIsLess ==
  ASSUME NEW set, IsFiniteSet(set), NEW order, IsOrder(order, set),
         NEW b \in set, NEW c \in set, <<b, c>> \in order
  PROVE  /\ Before(set, order, b) \in Nat /\ Before(set, order, c) \in Nat
         /\ Before(set, order, b) < Before(set, order, c)
<1> DEFINE B == {a \in set : <<a, b>> \in order}
           C == {a \in set : <<a, c>> \in order}
<1>1. B \subseteq C /\ b \in C /\ b \notin B
  BY DEF IsOrder
<1>2. IsFiniteSet(B) /\ IsFiniteSet(C)
  BY FS_Subset
<1> HIDE DEF B, C
<1>3. Cardinality(B) <= Cardinality(C) /\ Cardinality(B) # Cardinality(C)
  BY <1>1, <1>2, FS_Subset
<1>4. Cardinality(B) \in Nat /\ Cardinality(C) \in Nat
  BY <1>2, FS_CardinalityType
<1>5. Before(set, order, b) = Cardinality(B) /\ Before(set, order, c) = Cardinality(C)
  BY DEF Before, B, C
<1> QED
  BY <1>3, <1>4, <1>5

\* The positions in a list are 0, 1, ... without a gap or a tie.
LEMMA Positions ==
  ASSUME NEW set, IsFiniteSet(set), NEW order, IsOrder(order, set)
  PROVE  /\ \A c \in set : Before(set, order, c) \in Nat
         /\ \A c \in set : Before(set, order, c) \in 0..(Cardinality(set) - 1)
         /\ \A b, c \in set : Before(set, order, b) = Before(set, order, c) => b = c
         /\ \A k \in 0..(Cardinality(set) - 1) : \E c \in set : Before(set, order, c) = k
<1> DEFINE f == [c \in set |-> Before(set, order, c)]
           n == Cardinality(set)
<1>1. n \in Nat
  BY FS_CardinalityType
<1>2. ASSUME NEW c \in set
      PROVE  Before(set, order, c) \in Nat /\ Before(set, order, c) \in 0..(n - 1)
  <2>1. {b \in set : <<b, c>> \in order} \in SUBSET set /\ c \notin {b \in set : <<b, c>> \in order}
    BY DEF IsOrder
  <2>2. /\ IsFiniteSet({b \in set : <<b, c>> \in order})
        /\ Cardinality({b \in set : <<b, c>> \in order}) <= n
        /\ Cardinality({b \in set : <<b, c>> \in order}) # n
    BY <2>1, FS_Subset
  <2> QED
    BY <1>1, <2>2, FS_CardinalityType DEF Before
<1>3. ASSUME NEW b \in set, NEW c \in set, b # c
      PROVE  Before(set, order, b) # Before(set, order, c)
  <2>1. <<b, c>> \in order \/ <<c, b>> \in order
    BY <1>3 DEF IsOrder
  <2>2. Before(set, order, b) < Before(set, order, c) \/ Before(set, order, c) < Before(set, order, b)
    BY <2>1, EarlierIsLess
  <2>3. Before(set, order, b) \in Int /\ Before(set, order, c) \in Int
    BY <1>2
  <2> QED
    BY <2>2, <2>3
<1>4. f \in Injection(set, 0..(n - 1))
  BY <1>2, <1>3 DEF Injection, IsInjective
<1>5. IsFiniteSet(0..(n - 1)) /\ Cardinality(0..(n - 1)) = n
  <2>1. n - 1 \in Int
    BY <1>1
  <2>2. /\ IsFiniteSet(0..(n - 1))
        /\ Cardinality(0..(n - 1)) = IF 0 > n - 1 THEN 0 ELSE n - 1 - 0 + 1
    BY <2>1, FS_Interval
  <2> QED
    BY <1>1, <2>2
<1>6. f \in Surjection(set, 0..(n - 1))
  BY <1>4, <1>5, FS_Injection
<1>7. \A k \in 0..(n - 1) : \E c \in set : f[c] = k
  BY <1>6 DEF Surjection
<1> QED
  BY <1>2, <1>3, <1>7

\* A page is never longer than its size, one that is shorter is the last, and one that is
\* full lies within the list.
LEMMA Pages ==
  ASSUME NEW set, IsFiniteSet(set), NEW order, IsOrder(order, set),
         NEW o \in Nat, NEW size \in Nat \ {0}
  PROVE  LET page == {c \in set : Before(set, order, c) \in o..(o + size - 1)} IN
         /\ Cardinality(page) \in 0..size
         /\ Cardinality(page) < size => \A c \in set : Before(set, order, c) < o + size
         /\ Cardinality(page) = size => o + size <= Cardinality(set)
<1> DEFINE n == Cardinality(set)
           I == o..(o + size - 1)
           page == {c \in set : Before(set, order, c) \in I}
           g == [c \in page |-> Before(set, order, c)]
<1>1. n \in Nat /\ IsFiniteSet(page) /\ Cardinality(page) \in Nat
  BY FS_CardinalityType, FS_Subset
<1>2. /\ \A c \in set : Before(set, order, c) \in 0..(n - 1)
      /\ \A b, c \in set : Before(set, order, b) = Before(set, order, c) => b = c
      /\ \A k \in 0..(n - 1) : \E c \in set : Before(set, order, c) = k
  BY Positions
<1>3. g \in Injection(page, I)
  BY <1>2 DEF Injection, IsInjective
<1>4. IsFiniteSet(I) /\ Cardinality(I) = size
  BY FS_Interval
<1>5. Cardinality(page) <= size /\ (Cardinality(page) = size <=> g \in Surjection(page, I))
  BY <1>3, <1>4, FS_Injection
<1>6. ASSUME NEW c \in set, ~(Before(set, order, c) < o + size) PROVE g \in Surjection(page, I)
  <2>1. I \subseteq 0..(n - 1)
    BY <1>1, <1>2, <1>6
  <2>2. \A k \in I : \E b \in page : g[b] = k
    BY <1>2, <2>1
  <2> QED
    BY <1>3, <2>2 DEF Surjection, Injection
<1>7. ASSUME g \in Surjection(page, I) PROVE o + size <= n
  <2>1. o + size - 1 \in I
    OBVIOUS
  <2>2. PICK b \in page : g[b] = o + size - 1
    BY <1>7, <2>1 DEF Surjection
  <2> QED
    BY <1>1, <1>2, <2>2
<1> QED
  BY <1>1, <1>5, <1>6, <1>7

\* A list that is cut off: each at its place and once, and only those are left out
\* that come after a full list.
LEMMA RankedIs ==
  ASSUME NEW set, IsFiniteSet(set), NEW order, IsOrder(order, set), NEW limit \in Nat
  PROVE  LET list == Ranked(set, order, limit)
             n == Least(Cardinality(set), limit)
         IN
         /\ n \in 0..limit /\ list \in [1..n -> set]
         /\ \A i \in 1..n : Before(set, order, list[i]) = i - 1
         /\ \A i, j \in 1..n : list[i] = list[j] => i = j
         /\ \A c \in set : Before(set, order, c) < n => \E i \in 1..n : list[i] = c
         /\ n < limit => \A c \in set : \E i \in 1..n : list[i] = c
<1> DEFINE n == Least(Cardinality(set), limit)
           list == Ranked(set, order, limit)
<1>1. /\ Cardinality(set) \in Nat /\ n \in 0..limit /\ n <= Cardinality(set)
      /\ n < limit => n = Cardinality(set)
  BY FS_CardinalityType DEF Least
<1> HIDE DEF n
<1>2. \A i \in 1..n : list[i] = CHOOSE c \in set : Before(set, order, c) = i - 1
  BY DEF Ranked, n
<1>3. DOMAIN list = 1..n /\ list = [i \in 1..n |-> list[i]]
  BY DEF Ranked, n
<1> HIDE DEF list
<1>4. ASSUME NEW i \in 1..n PROVE list[i] \in set /\ Before(set, order, list[i]) = i - 1
  <2>1. i - 1 \in 0..(Cardinality(set) - 1)
    BY <1>1
  <2>2. \E c \in set : Before(set, order, c) = i - 1
    BY <2>1, Positions
  <2> QED
    BY <1>2, <2>2
<1>5. ASSUME NEW i \in 1..n, NEW j \in 1..n, list[i] = list[j] PROVE i = j
  <2>1. i - 1 = j - 1
    BY <1>4, <1>5
  <2> QED
    BY <1>1, <2>1
<1>6. ASSUME NEW c \in set, Before(set, order, c) < n PROVE \E i \in 1..n : list[i] = c
  <2> DEFINE i == Before(set, order, c) + 1
  <2>1. i \in 1..n /\ Before(set, order, c) = i - 1
    BY <1>1, <1>6, Positions
  <2> HIDE DEF i
  <2>2. list[i] \in set /\ Before(set, order, list[i]) = Before(set, order, c)
    BY <1>4, <2>1
  <2>3. list[i] = c
    BY <2>2, Positions
  <2> QED
    BY <2>1, <2>3
<1>7. n < limit => \A c \in set : Before(set, order, c) < n
  BY <1>1, Positions
<1> QED
  BY <1>1, <1>3, <1>4, <1>5, <1>6, <1>7 DEF n, list
=============================================================================
