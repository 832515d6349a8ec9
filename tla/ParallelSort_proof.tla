---------------------------- MODULE ParallelSort_proof ----------------------------
(***************************************************************************)
(* Theorems about ParallelSort, for any number of threads, blocks and      *)
(* parts and for any file.                                                 *)
(*   RangesHold   no two threads work on one record at a time;             *)
(*   RunsHold     each round of merging starts with the runs in order that *)
(*                the rounds before have paired;                           *)
(*   RecordsHold  no step loses or repeats a record;                       *)
(*   PartsMergeHolds  parts in order are merged into a file in order;      *)
(*   NoStandstillHolds  threads that are all created never all wait;       *)
(*   MissingHangs     one that is not created hangs the program.           *)
(* The first half is about the operators: what merge() and qsort return.   *)
(***************************************************************************)
EXTENDS ParallelSort, FiniteSetTheorems, FunctionTheorems, SequenceTheorems, TLAPS

(***************************************************************************)
(* Induction, from the least element of a set of numbers.                  *)
(***************************************************************************)
\* Every set of natural numbers that has a member has a least one.
LEMMA LeastElement ==
  ASSUME NEW S \in SUBSET Nat, S # {}
  PROVE  \E m \in S : \A k \in S : m <= k
  <1> DEFINE Below == {0..k : k \in S}
  <1> DEFINE R == StrictSubsetOrdering(Nat)
  <1>1. /\ \A k \in S : 0..k \in SUBSET Nat /\ IsFiniteSet(0..k)
        /\ Below \subseteq FiniteSubsetsOf(Nat) /\ Below # {}
    <2>1. \A k \in S : 0..k \in SUBSET Nat /\ IsFiniteSet(0..k)
      BY FS_Interval
    <2> QED
      BY <2>1 DEF FiniteSubsetsOf
  <1>2. PICK b \in Below : \A a \in Below : ~(<<a, b>> \in R)
    <2> HIDE DEF Below, R
    <2>1. IsWellFoundedOn(R, FiniteSubsetsOf(Nat))
      BY FS_StrictSubsetOrderingWellFounded DEF R
    <2> QED
      BY <1>1, <2>1, WFMin
  <1>3. PICK m \in S : b = 0..m
    OBVIOUS
  <1>4. ASSUME NEW k \in S, k < m PROVE FALSE
    <2>1. 0..k \in Below /\ 0..k \subseteq 0..m /\ m \in 0..m /\ m \notin 0..k
      BY <1>4
    <2>2. <<0..k, 0..m>> \in R
      <3>1. 0..k # 0..m /\ 0..k \in SUBSET Nat /\ 0..m \in SUBSET Nat
        BY <2>1
      <3> QED
        BY <2>1, <3>1 DEF StrictSubsetOrdering
    <2> QED
      BY <1>2, <1>3, <2>1, <2>2
  <1> QED
    BY <1>4

\* Induction, as a fact about the set of the numbers it is for.
LEMMA Induction ==
  ASSUME NEW S, 0 \in S, \A n \in Nat : n \in S => n + 1 \in S
  PROVE  \A n \in Nat : n \in S
  <1> SUFFICES ASSUME Nat \ S # {} PROVE FALSE
    OBVIOUS
  <1>1. PICK m \in Nat \ S : \A k \in Nat \ S : m <= k
    BY LeastElement
  <1>2. m # 0 /\ m - 1 \in Nat
    OBVIOUS
  <1>3. m - 1 \in S
    BY <1>1, <1>2
  <1> QED
    BY <1>2, <1>3

\* The values that start with z and go on, n times, as g says.
Iterates(i, T, z, g, n) ==
  i \in [0..n -> T] /\ i[0] = z /\ \A k \in 1..n : i[k] = g[k-1][i[k-1]]

\* Whatever z and g are, there are such values.
LEMMA Recursion ==
  ASSUME NEW T, NEW z \in T, NEW g, \A k \in Nat : \A x \in T : g[k][x] \in T
  PROVE  \A n \in Nat : \E i : Iterates(i, T, z, g, n)
  <1> DEFINE S == {m \in Nat : \E i : Iterates(i, T, z, g, m)}
  <1>1. 0 \in S
    <2>1. Iterates([k \in 0..0 |-> z], T, z, g, 0)
      BY DEF Iterates
    <2> QED
      BY <2>1
  <1>2. ASSUME NEW m \in Nat, m \in S PROVE m + 1 \in S
    <2>1. PICK i : Iterates(i, T, z, g, m)
      BY <1>2
    <2> DEFINE j == [k \in 0..m+1 |-> IF k = m + 1 THEN g[m][i[m]] ELSE i[k]]
    <2>2. g[m][i[m]] \in T
      BY <2>1 DEF Iterates
    <2>3. j \in [0..m+1 -> T]
      BY <2>1, <2>2 DEF Iterates
    <2>4. j[0] = z /\ \A k \in 1..m+1 : j[k] = g[k-1][j[k-1]]
      BY <2>1 DEF Iterates
    <2>5. Iterates(j, T, z, g, m + 1)
      BY <2>3, <2>4 DEF Iterates
    <2> QED
      BY <2>5
  <1>3. \A n \in Nat : n \in S
    <2> HIDE DEF S
    <2> QED
      BY <1>1, <1>2, Induction
  <1> QED
    BY <1>3

(***************************************************************************)
(* merge().                                                                *)
(***************************************************************************)
LEMMA TakenEquation ==
  ASSUME NEW a \in Seq(Int), NEW b \in Seq(Int)
  PROVE  Taken(a, b) =
           [k \in 0..Len(a)+Len(b) |-> IF k = 0 THEN 0
                                       ELSE Take(a, b, k - 1)[Taken(a, b)[k-1]]]
  <1> DEFINE n == Len(a) + Len(b)
  <1> DEFINE T == 0..Len(a)
  <1> DEFINE g == [k \in Nat |-> Take(a, b, k)]
  <1> DEFINE equation(i) ==
               i = [k \in 0..n |-> IF k = 0 THEN 0 ELSE Take(a, b, k - 1)[i[k-1]]]
  <1>1. n \in Nat /\ Len(a) \in Nat /\ 0 \in T
    OBVIOUS
  <1>2. \A k \in Nat : \A x \in T : g[k][x] \in T
    BY DEF Take
  <1>3. \E i : equation(i)
    <2>1. PICK i : Iterates(i, T, 0, g, n)
      <3> HIDE DEF g, T, n, equation
      <3> QED
        BY <1>1, <1>2, Recursion
    <2>2. \A k \in 0..n : i[k] = IF k = 0 THEN 0 ELSE Take(a, b, k - 1)[i[k-1]]
      BY <1>1, <2>1 DEF Iterates
    <2>3. equation(i)
      <3> HIDE DEF n, T
      <3> QED
        BY <2>1, <2>2 DEF Iterates
    <2> QED
      BY <2>3
  <1>4. Taken(a, b) = CHOOSE i : equation(i)
    BY DEF Taken
  <1> HIDE DEF equation
  <1>5. equation(Taken(a, b))
    BY <1>3, <1>4
  <1> QED
    BY <1>5 DEF equation

\* What the k-th record written is: the next one of a or the next one of b.
FromA(a, b, k) ==
  LET x == Taken(a, b)[k-1]
  IN  /\ Taken(a, b)[k] = x + 1 /\ x < Len(a)
      /\ k - 1 - x = Len(b) \/ a[x+1] <= b[k-x]

FromB(a, b, k) ==
  LET x == Taken(a, b)[k-1]
  IN  /\ Taken(a, b)[k] = x /\ k - 1 - x < Len(b)
      /\ x = Len(a) \/ b[k-x] <= a[x+1]

\* merge() reads a and b to their ends, one record at a time.
LEMMA TakenSteps ==
  ASSUME NEW a \in Seq(Int), NEW b \in Seq(Int)
  PROVE  /\ Taken(a, b)[0] = 0
         /\ \A k \in 0..Len(a)+Len(b) :
              Taken(a, b)[k] \in 0..Len(a) /\ k - Taken(a, b)[k] \in 0..Len(b)
         /\ \A k \in 1..Len(a)+Len(b) : FromA(a, b, k) \/ FromB(a, b, k)
  <1> DEFINE n == Len(a) + Len(b)
  <1> DEFINE i == Taken(a, b)
  <1> DEFINE within(k) == i[k] \in 0..Len(a) /\ k - i[k] \in 0..Len(b)
  <1>1. /\ n \in Nat /\ Len(a) \in Nat /\ Len(b) \in Nat
        /\ \A k \in 1..Len(a) : a[k] \in Int
        /\ \A k \in 1..Len(b) : b[k] \in Int
    OBVIOUS
  <1>2. i[0] = 0 /\ \A k \in 1..n : i[k] = Take(a, b, k-1)[i[k-1]]
    <2> HIDE DEF i
    <2>1. i = [k \in 0..n |-> IF k = 0 THEN 0 ELSE Take(a, b, k-1)[i[k-1]]]
      BY TakenEquation DEF i
    <2> HIDE DEF n
    <2> QED
      BY <1>1, <2>1
  <1> HIDE DEF i
  <1>3. ASSUME NEW k \in 1..n, within(k-1)
        PROVE  within(k) /\ (FromA(a, b, k) \/ FromB(a, b, k))
    <2> DEFINE x == i[k-1]
    <2>1. x \in 0..Len(a) /\ k - 1 - x \in 0..Len(b) /\ k <= Len(a) + Len(b)
      BY <1>3
    <2>2. i[k] = IF x < Len(a) /\ (k - 1 - x = Len(b) \/ a[x+1] <= b[(k-1)-x+1])
                   THEN x + 1 ELSE x
      BY <1>2, <2>1 DEF Take
    <2> HIDE DEF x
    <2>3. (k-1)-x+1 = k-x
      BY <2>1
    <2>4. CASE x < Len(a) /\ (k - 1 - x = Len(b) \/ a[x+1] <= b[k-x])
      <3>1. i[k] = x + 1
        BY <2>2, <2>3, <2>4
      <3>2. FromA(a, b, k)
        BY <2>4, <3>1 DEF FromA, x, i
      <3> QED
        BY <1>1, <2>1, <2>4, <3>1, <3>2
    <2>5. CASE ~(x < Len(a) /\ (k - 1 - x = Len(b) \/ a[x+1] <= b[k-x]))
      <3>1. i[k] = x
        BY <2>2, <2>3, <2>5
      <3>2. k - 1 - x < Len(b)
        <4>1. CASE x < Len(a)
          <5>1. k - 1 - x # Len(b)
            BY <2>5, <4>1
          <5>2. k - 1 - x \in 0..Len(b) /\ Len(b) \in Nat
            BY <1>1, <2>1
          <5> QED
            BY <5>1, <5>2
        <4> QED
          BY <1>1, <2>1, <4>1
      <3>3. x = Len(a) \/ b[k-x] <= a[x+1]
        <4>1. CASE x < Len(a)
          <5>1. x + 1 \in 1..Len(a) /\ k - x \in 1..Len(b)
            BY <1>1, <2>1, <3>2, <4>1
          <5>2. a[x+1] \in Int /\ b[k-x] \in Int
            BY <1>1, <5>1
          <5>3. ~(a[x+1] <= b[k-x])
            BY <2>5, <4>1
          <5> QED
            BY <5>2, <5>3
        <4> QED
          BY <1>1, <2>1, <4>1
      <3>4. FromB(a, b, k)
        BY <3>1, <3>2, <3>3 DEF FromB, x, i
      <3> QED
        BY <1>1, <2>1, <3>1, <3>2, <3>4
    <2> QED
      BY <2>4, <2>5
  <1>4. \A k \in 0..n : within(k)
    <2> DEFINE S == {m \in Nat : m <= n => within(m)}
    <2> HIDE DEF within
    <2>1. 0 \in S
      BY <1>1, <1>2 DEF within
    <2>2. ASSUME NEW m \in Nat, m \in S PROVE m + 1 \in S
      <3>1. CASE m + 1 <= n
        <4>1. within(m) /\ m + 1 \in 1..n /\ m + 1 - 1 = m
          BY <1>1, <2>2, <3>1
        <4>2. within(m + 1)
          BY <1>3, <4>1
        <4> QED
          BY <4>2
      <3> QED
        BY <3>1
    <2>3. \A m \in Nat : m \in S
      <3> HIDE DEF S
      <3> QED
        BY <2>1, <2>2, Induction
    <2> QED
      BY <1>1, <2>3
  <1>5. \A k \in 1..n : FromA(a, b, k) \/ FromB(a, b, k)
    <2> TAKE k \in 1..n
    <2>1. within(k-1)
      BY <1>1, <1>4
    <2> QED
      BY <1>3, <2>1
  <1> QED
    BY <1>2, <1>4, <1>5 DEF i

\* One record further, from either side.
LEMMA Further ==
  ASSUME NEW k \in Int, NEW m \in Int, NEW x \in Int, NEW y \in Int,
         x <= y, k - x <= k + m - y
  PROVE  /\ x <= y + 1 /\ k - x <= k + (m + 1) - (y + 1)
         /\ x <= y /\ k - x <= k + (m + 1) - y
  OBVIOUS

\* merge() never goes back.
LEMMA TakenMonotone ==
  ASSUME NEW a \in Seq(Int), NEW b \in Seq(Int),
         NEW k \in 0..Len(a)+Len(b), NEW l \in 0..Len(a)+Len(b), k <= l
  PROVE  Taken(a, b)[k] <= Taken(a, b)[l] /\ k - Taken(a, b)[k] <= l - Taken(a, b)[l]
  <1> DEFINE n == Len(a) + Len(b)
  <1> DEFINE i == Taken(a, b)
  <1> DEFINE S == {m \in Nat : k + m <= n => i[k] <= i[k+m] /\ k - i[k] <= k + m - i[k+m]}
  <1>1. n \in Nat /\ \A m \in 0..n : i[m] \in Int
    BY TakenSteps
  <1>2. \A m \in 1..n : i[m] = i[m-1] + 1 \/ i[m] = i[m-1]
    BY TakenSteps DEF FromA, FromB
  <1> HIDE DEF n, i
  <1>3. k \in 0..n /\ l \in 0..n
    BY DEF n
  <1>4. 0 \in S
    BY <1>1, <1>3
  <1>5. ASSUME NEW m \in Nat, m \in S PROVE m + 1 \in S
    <2> SUFFICES ASSUME k + (m + 1) <= n
                 PROVE  i[k] <= i[k+(m+1)] /\ k - i[k] <= k + (m + 1) - i[k+(m+1)]
      OBVIOUS
    <2>1. /\ k + (m + 1) \in 1..n /\ k + (m + 1) - 1 = k + m
          /\ i[k] \in Int /\ i[k+m] \in Int
      BY <1>1, <1>3
    <2>2. i[k] <= i[k+m] /\ k - i[k] <= k + m - i[k+m]
      BY <1>1, <1>3, <1>5, <2>1
    <2>3. i[k+(m+1)] = i[k+m] + 1 \/ i[k+(m+1)] = i[k+m]
      BY <1>2, <2>1
    <2>4. PICK x \in Int, y \in Int : x = i[k] /\ y = i[k+m]
      BY <2>1
    <2>5. x <= y /\ k - x <= k + m - y
      BY <2>2, <2>4
    <2>6. /\ x <= y + 1 /\ k - x <= k + (m + 1) - (y + 1)
          /\ x <= y /\ k - x <= k + (m + 1) - y
      <3>1. k \in Int
        BY <1>3
      <3> QED
        BY <2>5, <3>1, Further
    <2>7. i[k+(m+1)] = y + 1 \/ i[k+(m+1)] = y
      BY <2>3, <2>4
    <2> QED
      BY <2>4, <2>6, <2>7
  <1>6. \A m \in Nat : m \in S
    <2> HIDE DEF S
    <2> QED
      BY <1>4, <1>5, Induction
  <1>7. l - k \in Nat /\ k + (l - k) = l
    BY <1>1, <1>3
  <1>8. i[k] <= i[k+(l-k)] /\ k - i[k] <= k + (l - k) - i[k+(l-k)]
    BY <1>1, <1>3, <1>6, <1>7
  <1>9. i[k] <= i[l] /\ k - i[k] <= l - i[l]
    BY <1>1, <1>3, <1>7, <1>8
  <1> QED
    BY <1>9 DEF i

\* A sequence of the same records in some order.
Rearranges(r, s) ==
  /\ r \in Seq(Int) /\ Len(r) = Len(s)
  /\ \E p \in Bijection(1..Len(s), 1..Len(s)) : \A k \in 1..Len(s) : r[k] = s[p[k]]

\* What the library says of a permutation, with its domain kept closed.
LEMMA Permutation ==
  ASSUME NEW n, NEW p \in Bijection(1..n, 1..n)
  PROVE  /\ p \in [1..n -> 1..n] /\ \A k, l \in 1..n : p[k] = p[l] => k = l
         /\ \A l \in 1..n : \E k \in 1..n : p[k] = l
  <1> DEFINE D == 1..n
  <1>1. p \in Bijection(D, D)
    OBVIOUS
  <1> HIDE DEF D
  <1>2. /\ p \in [D -> D] /\ \A k, l \in D : p[k] = p[l] => k = l
        /\ \A l \in D : \E k \in D : p[k] = l
    BY <1>1, Fun_BijectionProperties
  <1> QED
    BY <1>2 DEF D

LEMMA PermutationTwice ==
  ASSUME NEW n, NEW p \in Bijection(1..n, 1..n), NEW o \in Bijection(1..n, 1..n)
  PROVE  [k \in 1..n |-> o[p[k]]] \in Bijection(1..n, 1..n)
  <1> DEFINE D == 1..n
  <1>1. p \in Bijection(D, D) /\ o \in Bijection(D, D)
    OBVIOUS
  <1> HIDE DEF D
  <1>2. [k \in D |-> o[p[k]]] \in Bijection(D, D)
    BY <1>1, Fun_BijTransitive
  <1> QED
    BY <1>2 DEF D

\* An injection of a finite interval into itself is a bijection.
LEMMA FiniteBijection ==
  ASSUME NEW n \in Nat, NEW p \in [1..n -> 1..n],
         \A k, l \in 1..n : k < l => p[k] # p[l]
  PROVE  p \in Bijection(1..n, 1..n)
  <1>1. \A k, l \in 1..n : p[k] = p[l] => k = l
    OBVIOUS
  <1>2. p \in Injection(1..n, 1..n)
    BY <1>1, Fun_IsInj
  <1>3. p \in Surjection(1..n, 1..n)
    BY <1>2, FS_Interval, FS_Injection
  <1> QED
    BY <1>2, <1>3, Fun_IsBij


\* How merge() goes on: it takes the next record of one side, which is no greater
\* than the next of the other.
Alternates(a, b, la, lb, i) ==
  /\ \A k \in 0..la+lb : i[k] \in 0..la /\ k - i[k] \in 0..lb
  /\ \A k \in 1..la+lb :
       \/ /\ i[k] = i[k-1] + 1 /\ i[k-1] < la
          /\ k - 1 - i[k-1] = lb \/ a[i[k-1]+1] <= b[k-i[k-1]]
       \/ /\ i[k] = i[k-1] /\ k - 1 - i[k-1] < lb
          /\ i[k-1] = la \/ b[k-i[k-1]] <= a[i[k-1]+1]
  /\ \A k, l \in 0..la+lb : k <= l => i[k] <= i[l] /\ k - i[k] <= l - i[l]

\* So it writes every record once, and in order if both sides are.
LEMMA MergeOrder ==
  ASSUME NEW la \in Nat, NEW lb \in Nat,
         NEW a \in [1..la -> Int], NEW b \in [1..lb -> Int], NEW i \in [0..la+lb -> Int],
         Alternates(a, b, la, lb, i),
         NEW k \in 1..la+lb, NEW l \in 1..la+lb, k < l
  PROVE  /\ (IF i[k] > i[k-1] THEN i[k] ELSE la + k - i[k])
              # (IF i[l] > i[l-1] THEN i[l] ELSE la + l - i[l])
         /\ (\A x, y \in 1..la : x <= y => a[x] <= a[y])
              /\ (\A x, y \in 1..lb : x <= y => b[x] <= b[y])
              => (IF i[k] > i[k-1] THEN a[i[k]] ELSE b[k-i[k]])
                   <= (IF i[l] > i[l-1] THEN a[i[l]] ELSE b[l-i[l]])
  <1>1. k \in 0..la+lb /\ l \in 0..la+lb /\ k - 1 \in 0..la+lb /\ l - 1 \in 0..la+lb
    OBVIOUS
  <1>2. PICK x \in 0..la, x1 \in 0..la, y \in 0..la, y1 \in 0..la :
          x = i[k] /\ x1 = i[k-1] /\ y = i[l] /\ y1 = i[l-1]
    BY <1>1 DEF Alternates
  <1>3. /\ x <= y1 /\ k - x <= l - 1 - y1
        /\ k - x \in 0..lb /\ l - y \in 0..lb /\ k - 1 - x1 \in 0..lb /\ l - 1 - y1 \in 0..lb
    <2>1. k <= l - 1
      BY <1>1
    <2>2. i[k] <= i[l-1] /\ k - i[k] <= l - 1 - i[l-1]
      BY <1>1, <2>1 DEF Alternates
    <2>3. /\ k - i[k] \in 0..lb /\ l - i[l] \in 0..lb
          /\ k - 1 - i[k-1] \in 0..lb /\ l - 1 - i[l-1] \in 0..lb
      BY <1>1 DEF Alternates
    <2> QED
      BY <1>2, <2>2, <2>3
  <1>4. /\ x = x1 + 1 \/ (x = x1 /\ k - 1 - x1 < lb)
        /\ y = y1 + 1 \/ (y = y1 /\ l - 1 - y1 < lb)
    BY <1>2 DEF Alternates
  <1>5. /\ x = x1 + 1 /\ k - 1 - x1 # lb => a[x] <= b[k-x1]
        /\ x = x1 /\ x # la => b[k-x] <= a[x+1]
    <2>1. \/ /\ x = x1 + 1 /\ x1 < la
             /\ k - 1 - x1 = lb \/ a[x1+1] <= b[k-x1]
          \/ /\ x = x1 /\ k - 1 - x1 < lb
             /\ x1 = la \/ b[k-x1] <= a[x1+1]
      BY <1>2 DEF Alternates
    <2> QED
      BY <2>1
  <1> SUFFICES /\ (IF x > x1 THEN x ELSE la + k - x) # (IF y > y1 THEN y ELSE la + l - y)
               /\ (\A u, v \in 1..la : u <= v => a[u] <= a[v])
                    /\ (\A u, v \in 1..lb : u <= v => b[u] <= b[v])
                    => (IF x > x1 THEN a[x] ELSE b[k-x]) <= (IF y > y1 THEN a[y] ELSE b[l-y])
    BY <1>2
  <1>6. CASE x = x1 + 1 /\ y = y1 + 1
    <2>1. x \in 1..la /\ y \in 1..la /\ x < y
      BY <1>3, <1>6
    <2> QED
      BY <1>6, <2>1
  <1>7. CASE x = x1 /\ y = y1
    <2>1. k - x \in 1..lb /\ l - y \in 1..lb /\ k - x < l - y
      BY <1>3, <1>4, <1>7
    <2> QED
      BY <1>7, <2>1
  <1>8. CASE x = x1 + 1 /\ y = y1
    <2>1. /\ x \in 1..la /\ l - y \in 1..lb /\ k - x + 1 <= l - y
          /\ k - x + 1 \in 1..lb /\ k - 1 - x1 # lb /\ k - x1 = k - x + 1
      BY <1>3, <1>4, <1>8
    <2>2. a[x] <= b[k-x+1]
      BY <1>5, <1>8, <2>1
    <2>3. (\A u, v \in 1..lb : u <= v => b[u] <= b[v]) => b[k-x+1] <= b[l-y]
      BY <2>1
    <2>4. a[x] \in Int /\ b[k-x+1] \in Int /\ b[l-y] \in Int
      BY <2>1
    <2>5. x > x1 /\ ~(y > y1) /\ x # la + l - y
      BY <1>8, <2>1
    <2>6. (\A u, v \in 1..lb : u <= v => b[u] <= b[v]) => a[x] <= b[l-y]
      BY <2>2, <2>3, <2>4
    <2> QED
      BY <2>5, <2>6
  <1>9. CASE x = x1 /\ y = y1 + 1
    <2>1. /\ y \in 1..la /\ k - x \in 1..lb /\ x + 1 <= y /\ x + 1 \in 1..la /\ x # la
      BY <1>3, <1>4, <1>9
    <2>2. b[k-x] <= a[x+1]
      BY <1>5, <1>9, <2>1
    <2>3. (\A u, v \in 1..la : u <= v => a[u] <= a[v]) => a[x+1] <= a[y]
      BY <2>1
    <2>4. b[k-x] \in Int /\ a[x+1] \in Int /\ a[y] \in Int
      BY <2>1
    <2>5. ~(x > x1) /\ y > y1 /\ la + k - x # y
      BY <1>9, <2>1
    <2>6. (\A u, v \in 1..la : u <= v => a[u] <= a[v]) => b[k-x] <= a[y]
      BY <2>2, <2>3, <2>4
    <2> QED
      BY <2>5, <2>6
  <1> QED
    BY <1>4, <1>6, <1>7, <1>8, <1>9

\* merge() rearranges what it is given, and merges it if both sides are in order.
LEMMA MergedFacts ==
  ASSUME NEW a \in Seq(Int), NEW b \in Seq(Int)
  PROVE  /\ Rearranges(Merged(a, b), a \o b)
         /\ Ascending(a) /\ Ascending(b) => Ascending(Merged(a, b))
  <1> DEFINE la == Len(a)
  <1> DEFINE lb == Len(b)
  <1> DEFINE n == la + lb
  <1> DEFINE i == Taken(a, b)
  <1> DEFINE r == Merged(a, b)
  <1> DEFINE source(k) == IF i[k] > i[k-1] THEN i[k] ELSE la + k - i[k]
  <1>1. /\ la \in Nat /\ lb \in Nat
        /\ a \in [1..la -> Int] /\ b \in [1..lb -> Int]
        /\ a \o b \in Seq(Int) /\ Len(a \o b) = n
        /\ \A x \in 1..la : (a \o b)[x] = a[x]
        /\ \A x \in 1..lb : (a \o b)[la + x] = b[x]
    OBVIOUS
  <1>2. i \in [0..n -> Int]
    <2>1. \A k \in 0..n : i[k] \in Int
      BY TakenSteps
    <2>2. i = [k \in 0..n |-> IF k = 0 THEN 0 ELSE Take(a, b, k-1)[i[k-1]]]
      <3> HIDE DEF i
      <3> QED
        BY TakenEquation DEF i
    <2> HIDE DEF i, n
    <2> QED
      BY <2>1, <2>2
  <1>3. Alternates(a, b, la, lb, i)
    BY TakenSteps, TakenMonotone DEF Alternates, FromA, FromB
  <1>4. r = [k \in 1..n |-> IF i[k] > i[k-1] THEN a[i[k]] ELSE b[k-i[k]]]
    BY DEF Merged
  <1> HIDE DEF i, r, la, lb
  <1>5. ASSUME NEW k \in 1..n
        PROVE  /\ source(k) \in 1..n
               /\ r[k] = (a \o b)[source(k)] /\ r[k] \in Int
    <2>1. k \in 0..n /\ k - 1 \in 0..n
      BY <1>1
    <2>2. PICK x \in 0..la, x1 \in 0..la : x = i[k] /\ x1 = i[k-1]
      BY <1>3, <2>1 DEF Alternates
    <2>3. k - x \in 0..lb /\ k - 1 - x1 \in 0..lb
      BY <1>3, <2>1, <2>2 DEF Alternates
    <2>4. x = x1 + 1 \/ (x = x1 /\ k - 1 - x1 < lb)
      BY <1>3, <2>2 DEF Alternates
    <2>5. r[k] = IF x > x1 THEN a[x] ELSE b[k-x]
      BY <1>4, <2>2
    <2>6. source(k) = IF x > x1 THEN x ELSE la + k - x
      BY <2>2
    <2> HIDE DEF source
    <2>7. CASE x = x1 + 1
      <3>1. x \in 1..la /\ source(k) = x /\ r[k] = a[x]
        BY <1>1, <2>5, <2>6, <2>7
      <3> QED
        BY <1>1, <3>1
    <2>8. CASE x = x1 /\ k - 1 - x1 < lb
      <3>1. k - x \in 1..lb /\ source(k) = la + (k - x) /\ r[k] = b[k-x]
        BY <1>1, <2>3, <2>5, <2>6, <2>8
      <3> QED
        BY <1>1, <3>1
    <2> QED
      BY <2>4, <2>7, <2>8
  <1>6. ASSUME NEW k \in 1..n, NEW l \in 1..n, k < l
        PROVE  /\ source(k) # source(l)
               /\ Ascending(a) /\ Ascending(b) => r[k] <= r[l]
    <2>1. /\ r[k] = IF i[k] > i[k-1] THEN a[i[k]] ELSE b[k-i[k]]
          /\ r[l] = IF i[l] > i[l-1] THEN a[i[l]] ELSE b[l-i[l]]
      BY <1>4
    <2>2. /\ Ascending(a) <=> \A x, y \in 1..la : x <= y => a[x] <= a[y]
          /\ Ascending(b) <=> \A x, y \in 1..lb : x <= y => b[x] <= b[y]
      BY DEF Ascending, la, lb
    <2>3. /\ source(k) # source(l)
          /\ (\A x, y \in 1..la : x <= y => a[x] <= a[y])
              /\ (\A x, y \in 1..lb : x <= y => b[x] <= b[y])
              => (IF i[k] > i[k-1] THEN a[i[k]] ELSE b[k-i[k]])
                   <= (IF i[l] > i[l-1] THEN a[i[l]] ELSE b[l-i[l]])
      BY <1>1, <1>2, <1>3, <1>6, MergeOrder
    <2> HIDE DEF source
    <2> QED
      BY <2>1, <2>2, <2>3
  <1> DEFINE p == [k \in 1..n |-> source(k)]
  <1> HIDE DEF source
  <1>7. r \in Seq(Int) /\ Len(r) = n
    <2>1. r \in [1..n -> Int]
      BY <1>4, <1>5
    <2> QED
      BY <1>1, <2>1
  <1>8. p \in Bijection(1..n, 1..n)
    <2>1. p \in [1..n -> 1..n]
      BY <1>5
    <2>2. \A k, l \in 1..n : k < l => p[k] # p[l]
      BY <1>6
    <2>3. n \in Nat
      BY <1>1
    <2> HIDE DEF p, n
    <2> QED
      BY <2>1, <2>2, <2>3, FiniteBijection
  <1>9. Rearranges(r, a \o b)
    <2>1. \A k \in 1..n : r[k] = (a \o b)[p[k]]
      BY <1>5
    <2> HIDE DEF p, n
    <2> QED
      BY <1>1, <1>7, <1>8, <2>1 DEF Rearranges
  <1>10. Ascending(a) /\ Ascending(b) => Ascending(r)
    <2> SUFFICES ASSUME Ascending(a), Ascending(b),
                        NEW k \in 1..n, NEW l \in 1..n, k <= l
                 PROVE  r[k] <= r[l]
      BY <1>7 DEF Ascending
    <2>1. r[k] \in Int
      BY <1>5
    <2>2. CASE k = l
      BY <2>1, <2>2
    <2>3. CASE k < l
      BY <1>6, <2>3
    <2> QED
      BY <1>1, <2>2, <2>3
  <1> QED
    BY <1>9, <1>10 DEF r

(***************************************************************************)
(* qsort.                                                                  *)
(***************************************************************************)
LEMMA RearrangesNothing ==
  ASSUME NEW s \in Seq(Int)
  PROVE  Rearranges(s, s)
  <1> DEFINE n == Len(s)
  <1> DEFINE p == [k \in 1..n |-> k]
  <1>1. n \in Nat
    OBVIOUS
  <1> HIDE DEF n
  <1>2. p \in [1..n -> 1..n] /\ \A k, l \in 1..n : k < l => p[k] # p[l]
    BY <1>1
  <1>3. \A k \in 1..n : s[k] = s[p[k]]
    OBVIOUS
  <1> HIDE DEF p
  <1>4. p \in Bijection(1..n, 1..n)
    BY <1>1, <1>2, FiniteBijection
  <1> QED
    BY <1>3, <1>4 DEF Rearranges, n

\* A rearrangement of a rearrangement is one.
LEMMA RearrangesTwice ==
  ASSUME NEW q, NEW r, NEW s, s \in Seq(Int), Rearranges(q, r), Rearranges(r, s)
  PROVE  Rearranges(q, s)
  <1> DEFINE n == Len(s)
  <1>1. n \in Nat /\ q \in Seq(Int) /\ Len(q) = n /\ Len(r) = n
    BY DEF Rearranges
  <1>2. PICK p \in Bijection(1..n, 1..n) : \A k \in 1..n : q[k] = r[p[k]]
    BY <1>1 DEF Rearranges
  <1>3. PICK o \in Bijection(1..n, 1..n) : \A k \in 1..n : r[k] = s[o[k]]
    BY DEF Rearranges
  <1> HIDE DEF n
  <1>4. [k \in 1..n |-> o[p[k]]] \in Bijection(1..n, 1..n)
    BY <1>2, <1>3, PermutationTwice
  <1>5. \A k \in 1..n : q[k] = s[[m \in 1..n |-> o[p[m]]][k]]
    <2> TAKE k \in 1..n
    <2>1. p \in [1..n -> 1..n]
      BY <1>2, Permutation
    <2>2. p[k] \in 1..n
      BY <2>1
    <2>3. q[k] = r[p[k]] /\ r[p[k]] = s[o[p[k]]]
      BY <1>2, <1>3, <2>2
    <2> QED
      BY <2>3
  <1> QED
    BY <1>1, <1>4, <1>5 DEF Rearranges, n

\* So is one with a record more at its end.
LEMMA RearrangesAppend ==
  ASSUME NEW r, NEW s, s \in Seq(Int), Rearranges(r, s), NEW x \in Int
  PROVE  Rearranges(Append(r, x), Append(s, x))
  <1> DEFINE n == Len(s)
  <1>1. n \in Nat /\ r \in Seq(Int) /\ Len(r) = n
    BY DEF Rearranges
  <1>2. PICK p \in Bijection(1..n, 1..n) : \A k \in 1..n : r[k] = s[p[k]]
    BY DEF Rearranges
  <1> DEFINE q == [k \in 1..n+1 |-> IF k = n + 1 THEN n + 1 ELSE p[k]]
  <1>3. /\ Append(r, x) \in Seq(Int) /\ Len(Append(r, x)) = n + 1 /\ Len(Append(s, x)) = n + 1
        /\ \A k \in 1..n : Append(r, x)[k] = r[k] /\ Append(s, x)[k] = s[k]
        /\ Append(r, x)[n+1] = x /\ Append(s, x)[n+1] = x
    BY <1>1
  <1> HIDE DEF n
  <1>4. p \in [1..n -> 1..n] /\ \A k, l \in 1..n : p[k] = p[l] => k = l
    BY <1>2, Permutation
  <1>5. /\ q[n+1] = n + 1
        /\ \A k \in 1..n : q[k] = p[k] /\ p[k] \in 1..n
    BY <1>1, <1>4
  <1>6. q \in Bijection(1..n+1, 1..n+1)
    <2>1. q \in [1..n+1 -> 1..n+1]
      BY <1>1, <1>4
    <2> HIDE DEF q
    <2>2. ASSUME NEW k \in 1..n+1, NEW l \in 1..n+1, k < l PROVE q[k] # q[l]
      <3>1. k \in 1..n /\ k # l
        BY <1>1, <2>2
      <3>2. CASE l = n + 1
        BY <1>1, <1>5, <3>1, <3>2
      <3>3. CASE l # n + 1
        <4>1. l \in 1..n
          BY <1>1, <3>3
        <4> QED
          BY <1>4, <1>5, <3>1, <4>1
      <3> QED
        BY <3>2, <3>3
    <2>3. n + 1 \in Nat
      BY <1>1
    <2> QED
      BY <2>1, <2>2, <2>3, FiniteBijection
  <1> DEFINE a == Append(r, x)
             b == Append(s, x)
  <1>7. /\ a[n+1] = b[n+1]
        /\ \A k \in 1..n : a[k] = r[k] /\ b[k] = s[k]
    BY <1>3
  <1> HIDE DEF q, a, b
  <1>8. \A k \in 1..n+1 : a[k] = b[q[k]]
    <2> TAKE k \in 1..n+1
    <2>1. CASE k = n + 1
      BY <2>1, <1>5, <1>7
    <2>2. CASE k # n + 1
      <3>1. k \in 1..n
        BY <2>2, <1>1
      <3>2. a[k] = r[k] /\ r[k] = s[p[k]]
        BY <3>1, <1>2, <1>7
      <3>3. q[k] = p[k] /\ b[p[k]] = s[p[k]]
        BY <3>1, <1>5, <1>7
      <3> QED
        BY <3>2, <3>3
    <2> QED
      BY <2>1, <2>2
  <1>9. a \in Seq(Int) /\ Len(a) = n + 1 /\ Len(b) = n + 1
    BY <1>3 DEF a, b
  <1>10. Rearranges(a, b)
    BY <1>6, <1>8, <1>9 DEF Rearranges
  <1> QED
    BY <1>10 DEF a, b

\* By induction: put the greatest record last and order the others.
LEMMA CanBeSorted ==
  \A n \in Nat : \A s \in Seq(Int) : Len(s) = n => \E r : Rearranges(r, s) /\ Ascending(r)
  <1> DEFINE sortable(s) == \E r : Rearranges(r, s) /\ Ascending(r)
  <1> DEFINE S == {n \in Nat : \A s \in Seq(Int) : Len(s) = n => sortable(s)}
  <1>1. 0 \in S
    <2> SUFFICES ASSUME NEW s \in Seq(Int), Len(s) = 0 PROVE sortable(s)
      OBVIOUS
    <2>2. Rearranges(s, s)
      BY RearrangesNothing
    <2>3. Ascending(s)
      BY DEF Ascending
    <2> QED
      BY <2>2, <2>3
  <1>2. ASSUME NEW n \in Nat, n \in S PROVE n + 1 \in S
    <2> SUFFICES ASSUME NEW s \in Seq(Int), Len(s) = n + 1 PROVE sortable(s)
      OBVIOUS
    <2> DEFINE front == [k \in 1..n |-> s[k]]
    <2> DEFINE x == s[n+1]
    <2>1. front \in Seq(Int) /\ Len(front) = n /\ x \in Int
      OBVIOUS
    <2>2. s = Append(front, x)
      OBVIOUS
    <2> HIDE DEF front, x
    <2>3. PICK r : Rearranges(r, front) /\ Ascending(r)
      BY <1>2, <2>1
    <2>4. Rearranges(Append(r, x), s) /\ r \in Seq(Int)
      <3>1. r \in Seq(Int)
        BY <2>3 DEF Rearranges
      <3>2. Rearranges(Append(r, x), Append(front, x))
        BY <2>1, <2>3, RearrangesAppend
      <3> QED
        BY <2>2, <3>1, <3>2
    <2>5. <<x>> \in Seq(Int) /\ Ascending(<<x>>) /\ r \o <<x>> = Append(r, x)
      BY <2>1, <2>4 DEF Ascending
    <2>6. Rearranges(Merged(r, <<x>>), Append(r, x)) /\ Ascending(Merged(r, <<x>>))
      BY <2>3, <2>4, <2>5, MergedFacts
    <2>7. Rearranges(Merged(r, <<x>>), s)
      BY <2>4, <2>6, RearrangesTwice
    <2> QED
      BY <2>6, <2>7
  <1>3. \A n \in Nat : n \in S
    <2> HIDE DEF S
    <2> QED
      BY <1>1, <1>2, Induction
  <1> QED
    BY <1>3

\* qsort returns the records it was given, in order.
LEMMA SortedFacts ==
  ASSUME NEW s \in Seq(Int)
  PROVE  Rearranges(Sorted(s), s) /\ Ascending(Sorted(s))
  <1> DEFINE n == Len(s)
  <1> DEFINE permuted(p) == [i \in 1..n |-> s[p[i]]]
  <1> DEFINE orders == {permuted(p) : p \in Bijection(1..n, 1..n)}
  <1>1. PICK r : Rearranges(r, s) /\ Ascending(r)
    BY CanBeSorted
  <1>2. r \in orders
    <2>1. r \in Seq(Int) /\ Len(r) = n /\ r = [i \in 1..n |-> r[i]]
      BY <1>1 DEF Rearranges
    <2>2. PICK p \in Bijection(1..n, 1..n) : \A k \in 1..n : r[k] = s[p[k]]
      BY <1>1 DEF Rearranges
    <2>3. r = permuted(p)
      BY <2>1, <2>2
    <2> QED
      BY <2>3
  <1>3. Sorted(s) = CHOOSE q \in orders : Ascending(q)
    BY DEF Sorted
  <1>4. Sorted(s) \in orders /\ Ascending(Sorted(s))
    <2> HIDE DEF orders
    <2> QED
      BY <1>1, <1>2, <1>3
  <1>5. PICK p \in Bijection(1..n, 1..n) : Sorted(s) = permuted(p)
    BY <1>4
  <1>6. p \in [1..n -> 1..n]
    BY <1>5, Permutation
  <1>7. Sorted(s) \in [1..n -> Int]
    BY <1>5, <1>6
  <1>8. Sorted(s) \in Seq(Int) /\ Len(Sorted(s)) = n
    <2> HIDE DEF permuted
    <2>1. n \in Nat
      OBVIOUS
    <2> HIDE DEF n
    <2> QED
      BY <1>7, <2>1
  <1> QED
    BY <1>4, <1>5, <1>8 DEF Rearranges

(***************************************************************************)
(* The records of a file.                                                  *)
(***************************************************************************)
LEMMA SliceFacts ==
  ASSUME NEW f \in [Positions -> Int], NEW start \in Int, NEW n \in Nat,
         start..start+n-1 \subseteq Positions
  PROVE  Slice(f, start, n) \in Seq(Int) /\ Len(Slice(f, start, n)) = n
  <1>1. \A i \in 1..n : start + i - 1 \in start..start+n-1
    OBVIOUS
  <1>2. \A i \in 1..n : f[start+i-1] \in Int
    BY <1>1
  <1>3. Slice(f, start, n) \in [1..n -> Int]
    BY <1>2 DEF Slice
  <1> QED
    BY <1>3

\* A bijection between the places of the records shows that they are the same.
LEMMA SameByBijection ==
  ASSUME NEW f \in [Positions -> Int], NEW g \in [Positions -> Int],
         NEW p \in Bijection(Positions, Positions), \A i \in Positions : g[i] = f[p[i]]
  PROVE  SameRecords(f, g)
  <1> DEFINE at(h, k) == {i \in Positions : h[i] = k}
  <1>1. /\ p \in [Positions -> Positions]
        /\ \A i, j \in Positions : p[i] = p[j] => i = j
        /\ \A j \in Positions : \E i \in Positions : p[i] = j
    BY Fun_BijectionProperties
  <1>2. IsFiniteSet(Positions)
    <2>1. num_parts*records_per_part-1 \in Int
      BY SortAssumption
    <2> QED
      BY <2>1, FS_Interval DEF Positions
  <1>3. ASSUME NEW k PROVE Cardinality(at(f, k)) = Cardinality(at(g, k))
    <2> DEFINE q == [i \in at(g, k) |-> p[i]]
    <2>1. q \in [at(g, k) -> at(f, k)]
      BY <1>1
    <2>2. \A i, j \in at(g, k) : q[i] = q[j] => i = j
      BY <1>1
    <2>3. \A j \in at(f, k) : \E i \in at(g, k) : q[i] = j
      BY <1>1
    <2>4. IsFiniteSet(at(g, k))
      BY <1>2, FS_Subset
    <2> HIDE DEF q, at
    <2>5. q \in Bijection(at(g, k), at(f, k))
      BY <2>1, <2>2, <2>3, Fun_IsBij
    <2> QED
      BY <2>4, <2>5, FS_Bijection DEF ExistsBijection
  <1> QED
    BY <1>3 DEF SameRecords

\* What is put in the place of a stretch of the file.
LEMMA PlacedFacts ==
  ASSUME NEW f \in [Positions -> Int], NEW start \in Int, NEW s \in Seq(Int),
         start..start+Len(s)-1 \subseteq Positions
  PROVE  /\ Placed(f, start, s) \in [Positions -> Int]
         /\ Slice(Placed(f, start, s), start, Len(s)) = s
         /\ \A i \in Positions \ (start..start+Len(s)-1) : Placed(f, start, s)[i] = f[i]
  <1> DEFINE n == Len(s)
  <1>1. n \in Nat /\ s = [i \in 1..n |-> s[i]] /\ \A i \in 1..n : s[i] \in Int
    OBVIOUS
  <1>2. start..start+n-1 \subseteq Positions
    OBVIOUS
  <1>3. Placed(f, start, s) =
          [i \in Positions |-> IF i \in start..start+n-1 THEN s[i-start+1] ELSE f[i]]
    BY DEF Placed
  <1> HIDE DEF n
  <1>4. \A i \in start..start+n-1 : i - start + 1 \in 1..n
    BY <1>1
  <1>5. \A i \in 1..n : start+i-1 \in start..start+n-1 /\ (start+i-1)-start+1 = i
    BY <1>1
  <1>6. Placed(f, start, s) \in [Positions -> Int]
    BY <1>1, <1>3, <1>4
  <1>7. \A i \in 1..n : Placed(f, start, s)[start+i-1] = s[i]
    BY <1>2, <1>3, <1>5
  <1>8. Slice(Placed(f, start, s), start, n) = s
    BY <1>1, <1>7 DEF Slice
  <1>9. \A i \in Positions \ (start..start+n-1) : Placed(f, start, s)[i] = f[i]
    BY <1>3
  <1> QED
    BY <1>6, <1>8, <1>9 DEF n

\* Records rearranged within a stretch of the file are the same records.
LEMMA PlacedSame ==
  ASSUME NEW f \in [Positions -> Int], NEW start \in Int, NEW n \in Nat, NEW s,
         start..start+n-1 \subseteq Positions, Rearranges(s, Slice(f, start, n))
  PROVE  SameRecords(f, Placed(f, start, s))
  <1>1. /\ Len(Slice(f, start, n)) = n /\ s \in Seq(Int) /\ Len(s) = n
        /\ \A i \in 1..n : Slice(f, start, n)[i] = f[start+i-1]
    BY SliceFacts DEF Rearranges, Slice
  <1>2. PICK o \in Bijection(1..n, 1..n) : \A k \in 1..n : s[k] = f[start+o[k]-1]
    <2>1. PICK o \in Bijection(1..n, 1..n) : \A k \in 1..n : s[k] = Slice(f, start, n)[o[k]]
      BY <1>1 DEF Rearranges
    <2>2. o \in [1..n -> 1..n]
      BY <2>1, Permutation
    <2>3. ASSUME NEW k \in 1..n PROVE s[k] = f[start+o[k]-1]
      <3>1. s[k] = Slice(f, start, n)[o[k]] /\ o[k] \in 1..n
        BY <2>1, <2>2
      <3> QED
        BY <1>1, <3>1
    <2> QED
      BY <2>3
  <1> DEFINE inside == start..start+n-1
  <1> DEFINE p == [i \in Positions |-> IF i \in inside THEN start + o[i-start+1] - 1 ELSE i]
  <1> DEFINE g == Placed(f, start, s)
  <1>3. /\ o \in [1..n -> 1..n]
        /\ \A k, l \in 1..n : o[k] = o[l] => k = l
        /\ \A l \in 1..n : \E k \in 1..n : o[k] = l
    BY <1>2, Permutation
  <1>4. /\ \A i \in inside : i - start + 1 \in 1..n
        /\ \A k \in 1..n : start + k - 1 \in inside /\ (start + k - 1) - start + 1 = k
    OBVIOUS
  <1>5. g = [i \in Positions |-> IF i \in inside THEN s[i-start+1] ELSE f[i]]
    BY <1>1 DEF Placed
  <1>6. g \in [Positions -> Int]
    BY <1>1, PlacedFacts
  <1> HIDE DEF g
  <1>7. inside \subseteq Positions /\ Positions \subseteq Int
    BY DEF Positions
  <1>8. \A i \in inside : start + o[i-start+1] - 1 \in inside
    BY <1>3, <1>4
  <1>9. \A i \in Positions : g[i] = f[p[i]]
    <2> TAKE i \in Positions
    <2>1. CASE i \in inside
      <3>1. i - start + 1 \in 1..n
        BY <1>4, <2>1
      <3>2. g[i] = s[i-start+1] /\ p[i] = start + o[i-start+1] - 1
        BY <1>5, <2>1
      <3> HIDE DEF p, inside
      <3> QED
        BY <1>2, <3>1, <3>2
    <2>2. CASE i \notin inside
      BY <1>5, <2>2
    <2> QED
      BY <2>1, <2>2
  <1>10. p \in Bijection(Positions, Positions)
    <2>1. p \in [Positions -> Positions]
      <3> HIDE DEF inside
      <3> QED
        BY <1>7, <1>8
    <2>2. ASSUME NEW i \in Positions, NEW j \in Positions, p[i] = p[j] PROVE i = j
      <3>1. i \in inside <=> j \in inside
        <4> HIDE DEF inside
        <4> QED
          BY <1>8, <2>2
      <3>2. CASE i \in inside
        <4>1. o[i-start+1] = o[j-start+1]
          <5>1. start + o[i-start+1] - 1 = start + o[j-start+1] - 1
            BY <2>2, <3>1, <3>2
          <5>2. o[i-start+1] \in Int /\ o[j-start+1] \in Int
            BY <1>3, <1>4, <3>1, <3>2
          <5> QED
            BY <5>1, <5>2
        <4>2. i - start + 1 = j - start + 1
          BY <1>3, <1>4, <3>1, <3>2, <4>1
        <4> QED
          BY <1>7, <4>2
      <3>3. CASE i \notin inside
        BY <2>2, <3>1, <3>3
      <3> QED
        BY <3>2, <3>3
    <2>3. ASSUME NEW j \in Positions PROVE \E i \in Positions : p[i] = j
      <3>1. CASE j \in inside
        <4>1. PICK k \in 1..n : o[k] = j - start + 1
          BY <1>3, <1>4, <3>1
        <4>2. start + k - 1 \in inside /\ (start + k - 1) - start + 1 = k
          BY <1>4
        <4>3. p[start+k-1] = start + (j - start + 1) - 1
          BY <1>7, <4>1, <4>2
        <4>4. start + (j - start + 1) - 1 = j
          BY <1>7
        <4> QED
          BY <1>7, <4>2, <4>3, <4>4
      <3>2. CASE j \notin inside
        BY <3>2
      <3> QED
        BY <3>1, <3>2
    <2> HIDE DEF p
    <2> QED
      BY <2>1, <2>2, <2>3, Fun_IsBij
  <1> HIDE DEF p
  <1> QED
    BY <1>6, <1>9, <1>10, SameByBijection DEF g

SortLabels  == {"part", "create", "none", "missing", "sort", "claim", "sorted", "done"}
MergeLabels == {"merge", "copy", "merged", "exited"}

\* The part of the state that says who works where.
Shapes ==
  /\ part \in Nat
  /\ block_map \in [Blocks -> 0..2]
  /\ pc \in [Tids -> SortLabels \cup MergeLabels]
  /\ block \in [Tids -> Blocks]
  /\ current_blocks \in [Tids -> 1..blocks]

\* The barrier: either no thread merges or all do, in the same round.
SameRound ==
  \A t, u \in Tids :
    pc[t] \in MergeLabels => pc[u] \in MergeLabels /\ current_blocks[t] = current_blocks[u]

\* Before the first barrier, no thread of the part has merged yet.
FirstRound ==
  pc[0] \notin {"part", "done"} =>
    \A t \in Tids : pc[t] \in SortLabels => current_blocks[t] = blocks

\* A thread that sorts its block, or will when it has been created, has marked it
\* as taken, and is the only one with this block.
Holds(t) == pc[t] \in {"create", "none", "sort"}

OwnBlocks ==
  pc[0] \notin {"part", "done"} =>
    \A t \in Tids : Holds(t) =>
      /\ block_map[block[t]] = 1
      /\ \A u \in Tids \ {t} : Holds(u) => block[u] # block[t]

\* Only thread 0 is main; the others do not exist while it maps, merges or ends.
MainLabels ==
  /\ pc[0] # "none"
  /\ \A t \in Tids \ {0} : pc[t] \notin {"part", "create", "done"}
  /\ pc[0] \in {"part", "done"} => \A t \in Tids \ {0} : pc[t] = "none"

IInv == Shapes /\ SameRound /\ FirstRound /\ OwnBlocks /\ MainLabels

(***************************************************************************)
(* Arithmetic.                                                             *)
(***************************************************************************)
LEMMA Constants ==
  /\ threads \in Nat /\ blocks \in Nat /\ threads > 0 /\ threads < blocks
  /\ records_per_part \in Nat /\ num_parts \in Nat
  /\ 0 \in Tids /\ Tids \subseteq Blocks /\ Tids \subseteq Nat /\ Blocks \subseteq Nat
  BY SortAssumption DEF Tids, Blocks

LEMMA Quotient ==
  ASSUME NEW a \in Nat, NEW b \in Nat \ {0}
  PROVE  a \div b \in Nat
  OBVIOUS

\* One stretch ends before the next one starts.
LEMMA LessTimes ==
  ASSUME NEW m \in Nat, NEW n \in Nat, NEW l \in Nat, m < n
  PROVE  m * l + l <= n * l
  <1>1. PICK k \in Nat : n = m + 1 + k
    <2>1. n - m - 1 \in Nat /\ n = m + 1 + (n - m - 1)
      OBVIOUS
    <2> QED
      BY <2>1
  <1>2. n * l = m * l + l + k * l /\ k * l \in Nat
    BY <1>1
  <1> QED
    BY <1>2

\* A product divided by one of its factors.
LEMMA Exact ==
  ASSUME NEW m \in Nat, NEW c \in Nat \ {0}
  PROVE  (m * c) \div c = m
  <1> DEFINE q == (m * c) \div c
  <1>1. q \in Nat /\ q * c <= m * c /\ m * c < q * c + c
    <2>1. m * c \in Nat
      OBVIOUS
    <2>2. \A x \in Nat : x \div c \in Nat /\ (x \div c) * c <= x /\ x < (x \div c) * c + c
      OBVIOUS
    <2> QED
      BY <2>1, <2>2
  <1> HIDE DEF q
  <1>2. ~(q < m) /\ ~(m < q)
    BY <1>1, LessTimes
  <1> QED
    BY <1>1, <1>2 DEF q

\* Half of an even number of runs, as a thread computes it.
LEMMA Halves == \A c \in Nat : c % 2 = 0 => (c + 1) \div 2 = c \div 2 /\ 2 * (c \div 2) = c
  OBVIOUS

\* Stretches of the same length with different numbers do not meet.
LEMMA Stretches ==
  ASSUME NEW start \in Int, NEW length \in Nat, NEW i \in Nat, NEW j \in Nat, i # j
  PROVE  (start + i * length..start + i * length + length - 1)
           \cap (start + j * length..start + j * length + length - 1) = {}
  <1>1. \A m, n \in Nat : m < n => m * length + length <= n * length
    BY LessTimes
  <1>2. i * length \in Int /\ j * length \in Int
    OBVIOUS
  <1>3. i < j \/ j < i
    OBVIOUS
  <1>4. i * length + length <= j * length \/ j * length + length <= i * length
    BY <1>1, <1>3
  <1> QED
    BY <1>2, <1>4

(***************************************************************************)
(* The invariant.                                                          *)
(***************************************************************************)
LEMMA InitInv == Init => IInv
  <1> SUFFICES ASSUME Init PROVE IInv
    OBVIOUS
  <1>1. Shapes
    BY Constants DEF Init, Shapes, SortLabels
  <1>2. pc[0] = "part" /\ \A t \in Tids \ {0} : pc[t] = "none"
    BY Constants DEF Init
  <1> QED
    BY <1>1, <1>2, Constants
       DEF IInv, SameRound, FirstRound, OwnBlocks, MainLabels, MergeLabels

\* A step that moves thread t only, from one label to another of the same phase,
\* and does not make it hold a block.
LEMMA MovesThread ==
  ASSUME IInv, NEW t \in Tids, NEW label, pc' = [pc EXCEPT ![t] = label],
         UNCHANGED <<part, block_map, block, current_blocks>>,
         pc[0] \notin {"part", "done"}, label \notin {"part", "create", "done", "none"},
         \/ pc[t] \in SortLabels /\ label \in SortLabels
         \/ pc[t] \in MergeLabels /\ label \in MergeLabels,
         label = "sort" => Holds(t)
  PROVE  IInv'
  <1>1. /\ pc'[t] = label /\ \A u \in Tids \ {t} : pc'[u] = pc[u]
        /\ pc' \in [Tids -> SortLabels \cup MergeLabels]
    BY DEF IInv, Shapes
  <1>2. Shapes'
    BY <1>1 DEF IInv, Shapes
  <1>3. SameRound'
    BY <1>1 DEF IInv, SameRound, SortLabels, MergeLabels
  <1>4. MainLabels'
    BY <1>1, Constants DEF IInv, MainLabels
  <1>5. FirstRound'
    BY <1>1 DEF IInv, FirstRound, SortLabels, MergeLabels
  <1>6. \A u \in Tids : Holds(u)' => Holds(u)
    BY <1>1 DEF Holds
  <1>7. OwnBlocks'
    BY <1>6 DEF IInv, OwnBlocks
  <1> QED
    BY <1>2, <1>3, <1>4, <1>5, <1>7 DEF IInv

LEMMA MapPartInv == IInv /\ MapPart => IInv'
  <1> SUFFICES ASSUME IInv, MapPart PROVE IInv'
    OBVIOUS
  <1>1. /\ pc'[0] = "create" /\ \A t \in Tids \ {0} : pc'[t] = "none"
        /\ pc' \in [Tids -> SortLabels \cup MergeLabels]
    BY Constants DEF MapPart, Goto, IInv, Shapes, MainLabels, SortLabels
  <1>2. /\ part' = part /\ block_map' = [b \in Blocks |-> IF b < threads THEN 1 ELSE 0]
        /\ block' = [t \in Tids |-> t] /\ current_blocks' = [t \in Tids |-> blocks]
    BY DEF MapPart
  <1>3. Shapes'
    BY <1>1, <1>2, Constants DEF IInv, Shapes
  <1>4. \A t \in Tids : block'[t] = t /\ t \in Blocks /\ t < threads
    BY <1>2, Constants DEF Tids
  <1>5. OwnBlocks'
    BY <1>2, <1>4 DEF OwnBlocks
  <1> QED
    BY <1>1, <1>2, <1>3, <1>5, Constants
       DEF IInv, SameRound, FirstRound, MainLabels, MergeLabels

LEMMA JoinInv == IInv /\ Join => IInv'
  <1> SUFFICES ASSUME IInv, Join PROVE IInv'
    OBVIOUS
  <1>1. /\ pc'[0] = "part" /\ \A t \in Tids \ {0} : pc'[t] = "none"
        /\ pc' \in [Tids -> SortLabels \cup MergeLabels]
        /\ part' = part + 1 /\ UNCHANGED <<block_map, block, current_blocks>>
    BY Constants DEF Join, SortLabels
  <1>2. Shapes'
    BY <1>1 DEF IInv, Shapes
  <1> QED
    BY <1>1, <1>2, Constants
       DEF IInv, SameRound, FirstRound, OwnBlocks, MainLabels, MergeLabels

LEMMA SortBlockInv == ASSUME IInv, NEW t \in Tids, SortBlock(t) PROVE IInv'
  <1>1. /\ pc[t] = "sort" /\ UNCHANGED <<part, block, current_blocks>>
        /\ pc'[t] = "claim" /\ \A u \in Tids \ {t} : pc'[u] = pc[u]
        /\ pc' \in [Tids -> SortLabels \cup MergeLabels]
        /\ block_map' = [block_map EXCEPT ![block[t]] = 2]
    BY DEF SortBlock, Goto, IInv, Shapes, SortLabels
  <1>2. pc[0] \notin {"part", "done"} /\ Holds(t) /\ block[t] \in Blocks
    BY <1>1 DEF IInv, MainLabels, Holds, Shapes
  <1>3. Shapes'
    BY <1>1 DEF IInv, Shapes
  <1>4. OwnBlocks'
    <2> SUFFICES ASSUME NEW u \in Tids, Holds(u)'
                 PROVE  /\ block_map'[block[u]] = 1
                        /\ \A v \in Tids \ {u} : Holds(v)' => block[v] # block[u]
      BY <1>1 DEF OwnBlocks
    <2>1. u # t /\ \A v \in Tids : Holds(v)' => Holds(v)
      BY <1>1 DEF Holds
    <2>2. block[u] # block[t] /\ block[u] \in Blocks /\ block_map[block[u]] = 1
      BY <1>2, <2>1 DEF IInv, OwnBlocks, Shapes
    <2> QED
      BY <1>1, <1>2, <2>1, <2>2 DEF IInv, OwnBlocks, Shapes
  <1>5. SameRound' /\ FirstRound'
    BY <1>1, <1>2 DEF IInv, SameRound, FirstRound, SortLabels, MergeLabels
  <1>6. MainLabels'
    BY <1>1, <1>2, Constants DEF IInv, MainLabels
  <1> QED
    BY <1>3, <1>4, <1>5, <1>6 DEF IInv

LEMMA ClaimInv == ASSUME IInv, NEW t \in Tids, Claim(t) PROVE IInv'
  <1>1. PICK b \in Blocks :
          /\ block_map[b] = 0
          /\ block' = [block EXCEPT ![t] = b] /\ block_map' = [block_map EXCEPT ![b] = 1]
    BY DEF Claim, Free
  <1>2. /\ pc[t] = "claim" /\ UNCHANGED <<part, current_blocks>>
        /\ pc'[t] = "sort" /\ \A u \in Tids \ {t} : pc'[u] = pc[u]
        /\ pc' \in [Tids -> SortLabels \cup MergeLabels]
    BY DEF Claim, Goto, IInv, Shapes, SortLabels
  <1>3. pc[0] \notin {"part", "done"}
    BY <1>2 DEF IInv, MainLabels
  <1>4. Shapes'
    <2>1. block' \in [Tids -> Blocks] /\ block_map' \in [Blocks -> 0..2]
      BY <1>1 DEF IInv, Shapes
    <2> QED
      BY <1>2, <2>1 DEF IInv, Shapes
  <1>5. /\ block'[t] = b /\ block_map'[b] = 1
        /\ \A u \in Tids \ {t} : block'[u] = block[u] /\ block[u] \in Blocks
        /\ \A c \in Blocks \ {b} : block_map'[c] = block_map[c]
    BY <1>1 DEF IInv, Shapes
  <1>6. \A u \in Tids \ {t} : Holds(u)' => Holds(u) /\ block[u] # b /\ block_map[block[u]] = 1
    BY <1>1, <1>2, <1>3 DEF Holds, IInv, OwnBlocks
  <1>7. OwnBlocks'
    BY <1>3, <1>5, <1>6 DEF IInv, OwnBlocks
  <1>8. SameRound' /\ FirstRound'
    BY <1>2, <1>3 DEF IInv, SameRound, FirstRound, SortLabels, MergeLabels
  <1>9. MainLabels'
    BY <1>2, <1>3, Constants DEF IInv, MainLabels
  <1> QED
    BY <1>4, <1>7, <1>8, <1>9 DEF IInv

LEMMA ReleaseInv == IInv /\ Release => IInv'
  <1> SUFFICES ASSUME IInv, Release PROVE IInv'
    OBVIOUS
  <1>1. /\ \A t \in Tids : pc[t] \in {"sorted", "merged"}
        /\ \A t \in Tids : pc'[t] = "merge"
        /\ pc' \in [Tids -> SortLabels \cup MergeLabels]
        /\ UNCHANGED <<part, block_map, block>>
    BY DEF Release, AtBarrier, MergeLabels
  <1> DEFINE halved(n) == (n + 1) \div 2
  <1>2. \A n \in 1..blocks : halved(n) \in 1..blocks
    BY Constants
  <1>3. \A t \in Tids : /\ current_blocks[t] \in 1..blocks
                        /\ current_blocks'[t] = IF pc[t] = "merged"
                             THEN halved(current_blocks[t]) ELSE current_blocks[t]
    BY DEF Release, IInv, Shapes
  <1>4. current_blocks' \in [Tids -> 1..blocks]
    <2> HIDE DEF halved
    <2>1. current_blocks' = [t \in Tids |-> current_blocks'[t]]
      BY DEF Release
    <2>2. \A t \in Tids : current_blocks'[t] \in 1..blocks
      BY <1>2, <1>3
    <2> QED
      BY <2>1, <2>2
  <1>5. ASSUME NEW t \in Tids, NEW u \in Tids PROVE current_blocks'[t] = current_blocks'[u]
    <2> HIDE DEF halved
    <2>1. pc[0] \notin {"part", "done"}
      BY <1>1, Constants
    <2>2. CASE pc[t] = "merged"
      <3>1. pc[u] = "merged" /\ current_blocks[t] = current_blocks[u]
        BY <1>1, <2>2 DEF IInv, SameRound, MergeLabels
      <3> QED
        BY <1>3, <2>2, <3>1
    <2>3. CASE pc[t] = "sorted"
      <3>1. pc[u] = "sorted"
        BY <1>1, <2>3 DEF IInv, SameRound, MergeLabels
      <3>2. current_blocks[t] = blocks /\ current_blocks[u] = blocks
        BY <2>1, <2>3, <3>1 DEF IInv, FirstRound, SortLabels
      <3> QED
        BY <1>3, <2>3, <3>1, <3>2
    <2> QED
      BY <1>1, <2>2, <2>3
  <1>6. Shapes'
    BY <1>1, <1>4 DEF IInv, Shapes
  <1>7. SameRound'
    BY <1>1, <1>5 DEF SameRound, MergeLabels
  <1>8. FirstRound' /\ OwnBlocks'
    BY <1>1 DEF FirstRound, OwnBlocks, Holds, SortLabels
  <1>9. MainLabels'
    BY <1>1, Constants DEF MainLabels
  <1> QED
    BY <1>6, <1>7, <1>8, <1>9 DEF IInv

LEMMA NextInv == IInv /\ [Next]_vars => IInv'
  <1> SUFFICES ASSUME IInv, [Next]_vars PROVE IInv'
    OBVIOUS
  <1> USE DEF Goto, SortLabels, MergeLabels
  <1>1. CASE UNCHANGED <<part, block_map, pc, block, current_blocks>>
    BY <1>1 DEF IInv, Shapes, SameRound, FirstRound, OwnBlocks, Holds, MainLabels
  <1>2. ASSUME NEW t \in Tids, Create(t) PROVE IInv'
    BY <1>2, MovesThread DEF Create, Holds
  <1>3. CASE Begin
    BY <1>3, Constants, MovesThread DEF Begin, Holds
  <1>4. ASSUME NEW t \in Tids,
               NothingFree(t) \/ Merge(t) \/ Copy(t) \/ NoPair(t) \/ Exit(t)
        PROVE  IInv'
    <2>1. pc[t] \in {"claim", "merge", "copy"} /\ pc[0] \notin {"part", "done"}
      BY <1>4 DEF NothingFree, Merge, Copy, NoPair, Exit, IInv, MainLabels
    <2>2. /\ UNCHANGED <<part, block_map, block, current_blocks>>
          /\ \E label \in {"sorted", "copy", "merged", "exited"} :
               /\ pc' = [pc EXCEPT ![t] = label]
               /\ label = "sorted" <=> pc[t] = "claim"
      BY <1>4 DEF NothingFree, Merge, Copy, NoPair, Exit
    <2> QED
      BY <2>1, <2>2, MovesThread
  <1>5. CASE Rename
    <2>1. /\ pc[0] = "part" /\ pc'[0] = "done" /\ \A t \in Tids \ {0} : pc'[t] = pc[t]
          /\ pc' \in [Tids -> SortLabels \cup MergeLabels]
          /\ UNCHANGED <<part, block_map, block, current_blocks>>
      BY <1>5, Constants DEF Rename, IInv, Shapes
    <2>2. \A t \in Tids \ {0} : pc'[t] = "none"
      BY <2>1 DEF IInv, MainLabels
    <2> QED
      BY <2>1, <2>2, Constants
         DEF IInv, Shapes, SameRound, FirstRound, OwnBlocks, MainLabels
  <1>6. ASSUME NEW p \in Parts, WriteRecord(p) PROVE IInv'
    BY <1>1, <1>6 DEF WriteRecord
  <1>7. CASE UNCHANGED vars
    BY <1>1, <1>7 DEF vars
  <1> QED
    BY <1>2, <1>3, <1>4, <1>5, <1>6, <1>7,
       MapPartInv, JoinInv, SortBlockInv, ClaimInv, ReleaseInv DEF Next, Main, Thread

(***************************************************************************)
(* Who works where.                                                        *)
(***************************************************************************)
LEMMA Disjoint == IInv => RangesDisjoint
  <1> SUFFICES ASSUME IInv, NEW t \in Tids, NEW u \in Tids, t # u
               PROVE  Working(t) \cap Working(u) = {}
    BY DEF RangesDisjoint
  <1> DEFINE merges(v) == pc[v] \in {"merge", "copy"} /\ HasPair(v)
  <1> DEFINE start == part * records_per_part
  <1>1. start \in Int /\ block_records \in Nat /\ t \in Nat /\ u \in Nat
    BY Constants, Quotient DEF IInv, Shapes, block_records
  <1>2. CASE pc[t] = "sort" /\ pc[u] = "sort"
    <2>1. pc[0] \notin {"part", "done"} /\ Holds(t) /\ Holds(u)
      BY <1>2 DEF IInv, MainLabels, Holds
    <2>2. block[t] # block[u] /\ block[t] \in Nat /\ block[u] \in Nat
      BY <2>1, Constants DEF IInv, OwnBlocks, Shapes
    <2> HIDE DEF start
    <2>3. (start + block[t] * block_records..start + block[t] * block_records + block_records - 1)
            \cap (start + block[u] * block_records
                    ..start + block[u] * block_records + block_records - 1) = {}
      BY <1>1, <2>2, Stretches
    <2> QED
      BY <1>2, <2>3 DEF Working, BlockStart, start
  <1>3. CASE merges(t) /\ merges(u)
    <2>1. current_blocks[t] = current_blocks[u] /\ current_blocks[t] \in 1..blocks
      BY <1>3 DEF IInv, SameRound, Shapes, MergeLabels
    <2>2. RunLength(u) = RunLength(t) /\ RunLength(t) \in Nat
      <3>1. blocks \div current_blocks[t] \in Nat
        BY <2>1, Constants, Quotient
      <3> QED
        BY <1>1, <2>1, <3>1 DEF RunLength
    <2> DEFINE length == 2 * RunLength(t)
    <2>3. length \in Nat /\ PairStart(t) = start + t * length /\ PairStart(u) = start + u * length
      BY <1>1, <2>2 DEF PairStart
    <2>4. Working(t) = PairStart(t)..PairStart(t) + length - 1
            /\ Working(u) = PairStart(u)..PairStart(u) + length - 1
      BY <1>3, <2>2 DEF Working
    <2> HIDE DEF start, length
    <2>5. (start + t * length..start + t * length + length - 1)
            \cap (start + u * length..start + u * length + length - 1) = {}
      BY <1>1, <2>3, Stretches
    <2> QED
      BY <2>3, <2>4, <2>5
  <1>4. CASE (pc[t] = "sort" /\ merges(u)) \/ (merges(t) /\ pc[u] = "sort")
    BY <1>4 DEF IInv, SameRound, MergeLabels
  <1>5. CASE (pc[t] # "sort" /\ ~merges(t)) \/ (pc[u] # "sort" /\ ~merges(u))
    BY <1>5 DEF Working
  <1> QED
    BY <1>2, <1>3, <1>4, <1>5

\* The barrier and block_map keep all threads in one phase and in one round, and no
\* block with two of them (Lab6/sort_index.c:56 to 111).
THEOREM InvHolds == FairSpec => []IInv
  BY InitInv, NextInv, PTL DEF FairSpec

\* No two threads ever read or write one record of the mapped file at a time, for
\* any number of them, and with no lock on the file (Lab6/sort_index.c:67 to 108).
THEOREM RangesHold == FairSpec => []RangesDisjoint
  BY InvHolds, Disjoint, PTL

(***************************************************************************)
(* How many runs there are, and that they lie in the file.                 *)
(***************************************************************************)
Idle == pc[0] \in {"part", "done"}

PartInFile == part \in 0..num_parts /\ (~Idle => part < num_parts)

\* The runs are as many as the blocks, or a half, a quarter, ... of them.
Rounds ==
  \A t \in Tids :
    /\ \E m \in 1..blocks : m * current_blocks[t] = blocks
    /\ pc[t] \in {"copy", "merged"} => current_blocks[t] > 1
    /\ pc[t] = "copy" => HasPair(t)

Ranges == PartInFile /\ Rounds

LEMMA RangesInit == Init => Ranges
  <1> SUFFICES ASSUME Init PROVE Ranges
    OBVIOUS
  <1>1. PartInFile
    BY Constants DEF Init, PartInFile, Idle
  <1>2. 1 * blocks = blocks /\ 1 \in 1..blocks
    BY Constants
  <1>3. Rounds
    BY <1>2, Constants DEF Init, Rounds
  <1> QED
    BY <1>1, <1>3 DEF Ranges

\* The next round has half as many runs.
LEMMA NextRound ==
  ASSUME NEW c \in 2..blocks, NEW m \in 1..blocks, m * c = blocks
  PROVE  /\ (c + 1) \div 2 = c \div 2 /\ 2 * (c \div 2) = c
         /\ 2 * m \in 1..blocks /\ (2 * m) * (c \div 2) = blocks
  <1>1. c \in 1..blocks /\ c # 1 /\ c \in Nat /\ blocks \in Nat
    BY Constants
  <1>2. c % 2 = 0
    <2>1. \A x, d \in 1..blocks : x * d = blocks => d = 1 \/ d % 2 = 0
      BY SortAssumption DEF PowerOfTwo
    <2>2. m * c = blocks => c = 1 \/ c % 2 = 0
      BY <1>1, <2>1
    <2> QED
      BY <1>1, <2>2
  <1>3. (c + 1) \div 2 = c \div 2 /\ 2 * (c \div 2) = c /\ c \div 2 \in Nat
    BY <1>1, <1>2, Halves
  <1> DEFINE h == c \div 2
  <1> HIDE DEF h
  <1>4. m * (2 * h) = (2 * m) * h /\ h \in Nat /\ 2 * h = c /\ h # 0
    BY <1>1, <1>3 DEF h
  <1>5. (2 * m) * h = blocks
    BY <1>4
  <1>6. 2 * m <= (2 * m) * h
    <2>1. 2 * m \in Nat /\ h >= 1
      BY <1>4
    <2> QED
      BY <2>1, <1>4
  <1> QED
    BY <1>1, <1>3, <1>4, <1>5, <1>6 DEF h

LEMMA RangesNext == IInv /\ Ranges /\ [Next]_vars => Ranges'
  <1> SUFFICES ASSUME IInv, Ranges, [Next]_vars PROVE Ranges'
    OBVIOUS
  <1>1. /\ part \in Int /\ num_parts \in Int /\ 0 \in Tids
        /\ pc \in [Tids -> SortLabels \cup MergeLabels]
        /\ current_blocks \in [Tids -> 1..blocks]
    BY Constants DEF IInv, Shapes
  <1> DEFINE whole(c) == \E m \in 1..blocks : m * c = blocks
  <1>2. ASSUME UNCHANGED <<part, current_blocks>>,
               Idle' = Idle \/ (Idle' /\ part' <= num_parts),
               \A t \in Tids : pc'[t] \in {"copy", "merged"} =>
                 \/ pc[t] \in {"copy", "merged"} /\ (pc'[t] = "copy" => pc[t] = "copy")
                 \/ current_blocks[t] > 1 /\ (pc'[t] = "copy" => HasPair(t))
        PROVE  Ranges'
    <2>1. PartInFile'
      BY <1>1, <1>2 DEF Ranges, PartInFile
    <2>2. \A t \in Tids : HasPair(t)' <=> HasPair(t)
      BY <1>2 DEF HasPair
    <2>3. Rounds'
      BY <1>2, <2>2 DEF Ranges, Rounds
    <2> QED
      BY <2>1, <2>3 DEF Ranges
  <1>3. ASSUME NEW t \in Tids, NEW label, pc' = [pc EXCEPT ![t] = label],
               UNCHANGED <<part, current_blocks>>, label \notin {"part", "done"},
               pc[t] \notin {"part", "done"},
               label \in {"copy", "merged"} =>
                 \/ pc[t] \in {"copy", "merged"} /\ (label = "copy" => pc[t] = "copy")
                 \/ current_blocks[t] > 1 /\ (label = "copy" => HasPair(t))
        PROVE  Ranges'
    <2>1. pc'[t] = label /\ \A u \in Tids \ {t} : pc'[u] = pc[u]
      BY <1>1, <1>3
    <2>2. Idle' = Idle
      BY <1>1, <1>3, <2>1 DEF Idle
    <2> QED
      BY <1>2, <1>3, <2>1, <2>2
  <1> USE DEF Goto
  <1>4. CASE MapPart
    <2>1. /\ pc' = [pc EXCEPT ![0] = "create"] /\ part < num_parts /\ part' = part
          /\ current_blocks' = [t \in Tids |-> blocks] /\ pc[0] = "part"
      BY <1>4 DEF MapPart
    <2>2. \A t \in Tids : pc'[t] \notin {"copy", "merged"}
      BY <1>1, <2>1 DEF IInv, MainLabels
    <2>3. whole(blocks)
      <3>1. 1 * blocks = blocks /\ 1 \in 1..blocks
        BY Constants
      <3> QED
        BY <3>1
    <2>4. Rounds'
      BY <2>1, <2>2, <2>3 DEF Rounds
    <2>5. PartInFile'
      BY <2>1 DEF PartInFile, Ranges
    <2> QED
      BY <2>4, <2>5 DEF Ranges
  <1>5. CASE Join
    <2>1. /\ \A t \in Tids : pc[t] = "exited"
          /\ pc' = [t \in Tids |-> IF t = 0 THEN "part" ELSE "none"]
          /\ part' = part + 1 /\ UNCHANGED current_blocks
      BY <1>5 DEF Join
    <2>2. part < num_parts /\ part \in 0..num_parts
      BY <1>1, <2>1 DEF Ranges, PartInFile, Idle
    <2>3. Idle' /\ \A t \in Tids : pc'[t] \notin {"copy", "merged"}
      BY <1>1, <2>1 DEF Idle
    <2>4. PartInFile'
      BY <1>1, <2>1, <2>2, <2>3 DEF PartInFile
    <2>5. Rounds'
      BY <2>1, <2>3 DEF Ranges, Rounds
    <2> QED
      BY <2>4, <2>5 DEF Ranges
  <1>6. CASE Release
    <2>1. /\ \A t \in Tids : pc[t] \in {"sorted", "merged"}
          /\ pc' = [t \in Tids |-> "merge"] /\ UNCHANGED part
          /\ current_blocks' =
               [t \in Tids |-> IF pc[t] = "merged" THEN (current_blocks[t] + 1) \div 2
                               ELSE current_blocks[t]]
      BY <1>6 DEF Release, AtBarrier
    <2>2. ~Idle /\ ~Idle'
      BY <1>1, <2>1 DEF Idle
    <2>3. PartInFile'
      BY <2>1, <2>2 DEF Ranges, PartInFile
    <2>4. ASSUME NEW t \in Tids PROVE whole(current_blocks'[t])
      <3>1. PICK m \in 1..blocks : m * current_blocks[t] = blocks
        BY DEF Ranges, Rounds
      <3>2. CASE pc[t] = "merged"
        <4> DEFINE c == current_blocks[t]
        <4>1. c \in 2..blocks /\ m * c = blocks
          BY <1>1, <3>1, <3>2 DEF Ranges, Rounds
        <4>2. current_blocks'[t] = (c + 1) \div 2
          BY <2>1, <3>2
        <4> HIDE DEF c
        <4> DEFINE half == (c + 1) \div 2
        <4>3. 2 * m \in 1..blocks /\ (2 * m) * half = blocks
          <5>1. 2 * m \in 1..blocks /\ half = c \div 2 /\ (2 * m) * (c \div 2) = blocks
            BY <4>1, NextRound
          <5> HIDE DEF half
          <5> QED
            BY <5>1
        <4> HIDE DEF half
        <4>4. whole(half)
          BY <4>3
        <4> HIDE DEF whole
        <4> QED
          BY <4>2, <4>4 DEF half
      <3>3. CASE pc[t] # "merged"
        BY <2>1, <3>1, <3>3
      <3> QED
        BY <3>2, <3>3
    <2>5. Rounds'
      BY <2>1, <2>4 DEF Rounds
    <2> QED
      BY <2>3, <2>5 DEF Ranges
  <1>7. ASSUME NEW t \in Tids, Create(t) PROVE Ranges'
    <2>1. PICK label \in {"sort", "missing"} : pc' = [pc EXCEPT ![t] = label]
      BY <1>7 DEF Create
    <2>2. pc[t] = "none" /\ UNCHANGED <<part, current_blocks>>
      BY <1>7 DEF Create
    <2> QED
      BY <1>3, <2>1, <2>2
  <1>8. CASE Begin
    BY <1>1, <1>3, <1>8 DEF Begin
  <1>9. CASE Rename
    <2>1. /\ pc[0] = "part" /\ pc' = [pc EXCEPT ![0] = "done"]
          /\ UNCHANGED <<part, current_blocks>>
      BY <1>9 DEF Rename
    <2>2. Idle' /\ Idle /\ \A t \in Tids : pc'[t] \in {"copy", "merged"} => pc'[t] = pc[t]
      BY <1>1, <2>1 DEF Idle
    <2> QED
      BY <1>2, <2>1, <2>2
  <1>10. ASSUME NEW p \in Parts, WriteRecord(p) PROVE Ranges'
    <2>1. UNCHANGED <<pc, part, current_blocks>>
      BY <1>10 DEF WriteRecord
    <2> QED
      BY <1>2, <2>1 DEF Idle
  <1>11. ASSUME NEW t \in Tids, Thread(t) PROVE Ranges'
    <2>1. /\ UNCHANGED <<part, current_blocks>>
          /\ \/ pc[t] = "sort" /\ pc' = [pc EXCEPT ![t] = "claim"]
             \/ pc[t] = "claim" /\ pc' = [pc EXCEPT ![t] = "sort"]
             \/ pc[t] = "claim" /\ pc' = [pc EXCEPT ![t] = "sorted"]
             \/ pc[t] = "merge" /\ pc' = [pc EXCEPT ![t] = "copy"] /\ HasPair(t)
             \/ pc[t] = "copy" /\ pc' = [pc EXCEPT ![t] = "merged"]
             \/ pc[t] = "merge" /\ pc' = [pc EXCEPT ![t] = "merged"] /\ current_blocks[t] > 1
             \/ pc[t] = "merge" /\ pc' = [pc EXCEPT ![t] = "exited"]
      BY <1>11 DEF Thread, SortBlock, Claim, NothingFree, Merge, Copy, NoPair, Exit
    <2>2. HasPair(t) => current_blocks[t] > 1
      BY DEF HasPair
    <2> QED
      BY <1>3, <2>1, <2>2
  <1>12. CASE UNCHANGED vars
    BY <1>2, <1>12 DEF vars, Idle
  <1> QED
    BY <1>4, <1>5, <1>6, <1>7, <1>8, <1>9, <1>10, <1>11, <1>12 DEF Next, Main

LEMMA StretchInFile ==
  ASSUME NEW p \in Nat, p < num_parts, NEW length \in Nat, NEW count \in Nat,
         count * length <= records_per_part, NEW i \in Nat, i < count
  PROVE  /\ p * records_per_part + i * length \in Int
         /\ p * records_per_part + i * length
              ..p * records_per_part + i * length + length - 1 \subseteq Positions
  <1>1. p * records_per_part + records_per_part <= num_parts * records_per_part
    BY Constants, LessTimes
  <1>2. i * length + length <= count * length
    BY LessTimes
  <1>3. /\ p * records_per_part \in Nat /\ i * length \in Nat /\ count * length \in Nat
        /\ num_parts * records_per_part \in Nat /\ records_per_part \in Nat
    BY Constants
  <1> DEFINE a == p * records_per_part
  <1> DEFINE b == i * length
  <1> DEFINE size == num_parts * records_per_part
  <1>4. a + b >= 0 /\ a + b + length <= size /\ a + b \in Int /\ size \in Int
    <2> DEFINE d == count * length
    <2>1. a + records_per_part <= size /\ b + length <= d /\ d <= records_per_part
      BY <1>1, <1>2
    <2>2. a \in Nat /\ b \in Nat /\ d \in Nat /\ size \in Nat /\ records_per_part \in Nat
      BY <1>3
    <2> HIDE DEF a, b, d, size
    <2> QED
      BY <2>1, <2>2
  <1> HIDE DEF a, b
  <1>5. a + b..a + b + length - 1 \subseteq 0..size - 1
    <2> HIDE DEF size
    <2> QED
      BY <1>4
  <1> QED
    BY <1>4, <1>5 DEF Positions, a, b

\* A part has room for its blocks; the records after the last block are in none.
LEMMA BlocksFit == block_records \in Nat /\ blocks * block_records <= records_per_part
  <1>1. block_records \in Nat /\ block_records * blocks <= records_per_part
    <2>1. \A n \in Nat, d \in Nat \ {0} : n \div d \in Nat /\ (n \div d) * d <= n
      OBVIOUS
    <2> QED
      BY <2>1, Constants DEF block_records
  <1> QED
    BY <1>1, Constants

\* A round's runs are of one length, and they all lie in the part.
LEMMA RunFacts ==
  ASSUME IInv, Ranges, NEW t \in Tids
  PROVE  /\ \E m \in 1..blocks : /\ m * current_blocks[t] = blocks
                                 /\ blocks \div current_blocks[t] = m
                                 /\ RunLength(t) = block_records * m
         /\ RunLength(t) \in Nat
         /\ current_blocks[t] * RunLength(t) <= records_per_part
  <1> DEFINE c == current_blocks[t]
  <1>1. PICK m \in 1..blocks : m * c = blocks
    BY DEF Ranges, Rounds
  <1>2. c \in Nat \ {0} /\ m \in Nat /\ blocks \in Nat
    BY Constants DEF IInv, Shapes
  <1>3. blocks \div c = m
    <2> HIDE DEF c
    <2>1. (m * c) \div c = m
      BY <1>2, Exact
    <2> QED
      BY <1>1, <2>1
  <1>4. RunLength(t) = block_records * m
    BY <1>3 DEF RunLength
  <1> HIDE DEF c
  <1>5. RunLength(t) \in Nat
    BY <1>2, <1>4, BlocksFit
  <1>6. c * RunLength(t) = blocks * block_records
    <2>1. c * (block_records * m) = (m * c) * block_records
      BY <1>2, BlocksFit
    <2> QED
      BY <1>1, <1>4, <2>1
  <1> QED
    BY <1>1, <1>3, <1>4, <1>5, <1>6, BlocksFit DEF c

LEMMA BlockInFile ==
  ASSUME IInv, Ranges, ~Idle, NEW b \in Blocks
  PROVE  /\ BlockStart(b) \in Int
         /\ BlockStart(b)..BlockStart(b) + block_records - 1 \subseteq Positions
  <1>1. part \in Nat /\ part < num_parts /\ b \in Nat /\ b < blocks /\ blocks \in Nat
    BY Constants DEF IInv, Shapes, Ranges, PartInFile, Blocks
  <1> QED
    BY <1>1, BlocksFit, StretchInFile DEF BlockStart

RunStart(r) == part * records_per_part + r * RunLength(0)

LEMMA RunInFile ==
  ASSUME IInv, Ranges, ~Idle, NEW r \in 0..current_blocks[0]-1
  PROVE  /\ RunStart(r) \in Int
         /\ RunStart(r)..RunStart(r) + RunLength(0) - 1 \subseteq Positions
  <1>1. /\ part \in Nat /\ part < num_parts /\ 0 \in Tids
        /\ r \in Nat /\ r < current_blocks[0] /\ current_blocks[0] \in Nat
    BY Constants DEF IInv, Shapes, Ranges, PartInFile
  <1>2. RunLength(0) \in Nat /\ current_blocks[0] * RunLength(0) <= records_per_part
    BY <1>1, RunFacts
  <1> QED
    BY <1>1, <1>2, StretchInFile DEF RunStart

\* The pair of a thread's number is two runs, one after the other.
LEMMA PairInFile ==
  ASSUME IInv, Ranges, ~Idle, NEW t \in Tids, HasPair(t), current_blocks[t] = current_blocks[0]
  PROVE  /\ RunLength(t) = RunLength(0) /\ RunLength(0) \in Nat
         /\ 2 * t \in 0..current_blocks[0]-1 /\ 2 * t + 1 \in 0..current_blocks[0]-1
         /\ PairStart(t) = RunStart(2*t) /\ PairStart(t) + RunLength(t) = RunStart(2*t+1)
         /\ PairStart(t) \in Int
         /\ PairStart(t)..PairStart(t) + 2 * RunLength(t) - 1 \subseteq Positions
  <1> DEFINE c == current_blocks[0]
  <1> DEFINE l == RunLength(0)
  <1>1. /\ part \in Nat /\ records_per_part \in Nat /\ t \in Nat /\ 0 \in Tids
        /\ c \in Nat \ {0} /\ t < c \div 2
    BY Constants DEF IInv, Shapes, HasPair
  <1>2. RunLength(t) = l /\ l \in Nat
    BY <1>1, RunFacts DEF RunLength
  <1>3. 2 * t \in 0..c-1 /\ 2 * t + 1 \in 0..c-1
    <2> HIDE DEF c
    <2> QED
      BY <1>1
  <1>4. PairStart(t) = RunStart(2*t)
    BY <1>2 DEF PairStart, RunStart
  <1>5. PairStart(t) + l = RunStart(2*t+1)
    <2> HIDE DEF l
    <2>1. (2*t+1) * l = 2*t*l + l /\ part * records_per_part \in Int /\ 2*t*l \in Int
      BY <1>1, <1>2
    <2> QED
      BY <1>2, <2>1 DEF PairStart, RunStart, l
  <1>6. /\ RunStart(2*t) \in Int
        /\ RunStart(2*t)..RunStart(2*t) + l - 1 \subseteq Positions
        /\ RunStart(2*t+1)..RunStart(2*t+1) + l - 1 \subseteq Positions
    BY <1>3, RunInFile
  <1>7. PairStart(t)..PairStart(t) + 2 * l - 1 \subseteq Positions
    <2> DEFINE s == PairStart(t)
    <2>1. s \in Int /\ s..s+l-1 \subseteq Positions /\ s+l..s+l+l-1 \subseteq Positions
      BY <1>4, <1>5, <1>6
    <2> HIDE DEF s, l
    <2>2. \A i \in s..s+2*l-1 : i \in s..s+l-1 \/ i \in s+l..s+l+l-1
      BY <1>2, <2>1
    <2> QED
      BY <2>1, <2>2 DEF s
  <1> QED
    BY <1>2, <1>3, <1>4, <1>5, <1>6, <1>7

(***************************************************************************)
(* What merge_parts has written: the records it has read, each once.       *)
(***************************************************************************)
Consumed ==
  {i \in Positions : \E p \in Parts : \E q \in 0..pos[p]-1 : i = p * records_per_part + q}

Written(w) ==
  w \in Bijection(1..Len(out), Consumed) /\ \A k \in 1..Len(out) : out[k] = file[w[k]]

Output ==
  /\ file \in [Positions -> Int] /\ out \in Seq(Int)
  /\ pos \in [Parts -> 0..records_per_part]
  /\ ~Idle \/ part < num_parts => out = << >>
  /\ pc[0] # "done" => \E w : Written(w)

LEMMA OutputInit == Init => Output
  <1> SUFFICES ASSUME Init PROVE Output
    OBVIOUS
  <1>1. /\ file \in [Positions -> Int] /\ out = << >> /\ pos = [p \in Parts |-> 0]
    BY SortAssumption DEF Init
  <1>2. pos \in [Parts -> 0..records_per_part]
    BY <1>1, Constants
  <1>3. Consumed = {}
    BY <1>1 DEF Consumed
  <1>4. out \in Seq(Int) /\ Len(out) = 0
    BY <1>1
  <1> DEFINE w == [k \in 1..Len(out) |-> 0]
  <1>5. w \in [1..Len(out) -> Consumed] /\ \A k \in 1..Len(out) : FALSE
    BY <1>3, <1>4
  <1>6. w \in Bijection(1..Len(out), Consumed)
    BY <1>3, <1>5, Fun_IsBij
  <1>7. Written(w)
    BY <1>5, <1>6 DEF Written
  <1> QED
    BY <1>1, <1>2, <1>4, <1>7 DEF Output

\* A place of the file belongs to one part and is one of its records.
LEMMA PlaceInPart ==
  ASSUME NEW p \in Parts, NEW q \in 0..records_per_part-1
  PROVE  /\ p * records_per_part + q \in Positions
         /\ \A o \in Parts, r \in 0..records_per_part-1 :
              o * records_per_part + r = p * records_per_part + q => o = p /\ r = q
  <1> DEFINE d == records_per_part
  <1>1. /\ Parts \subseteq Nat /\ p < num_parts /\ num_parts \in Nat /\ d \in Nat
        /\ num_parts * d \in Nat /\ \A o \in Parts : o * d \in Nat
    BY Constants DEF Parts
  <1>2. p * d + d <= num_parts * d
    BY <1>1, LessTimes
  <1>3. \A o \in Parts : (o < p => o * d + d <= p * d) /\ (p < o => p * d + d <= o * d)
    BY <1>1, LessTimes
  <1>4. ASSUME NEW o \in Parts, NEW r \in 0..d-1, o * d + r = p * d + q PROVE o = p /\ r = q
    <2>1. o \in Nat /\ p \in Nat /\ o * d \in Nat /\ p * d \in Nat
      BY <1>1
    <2>2. ~(o < p) /\ ~(p < o)
      <3> DEFINE x == o * d
      <3> DEFINE y == p * d
      <3>1. (o < p => x + d <= y) /\ (p < o => y + d <= x) /\ x + r = y + q
        BY <1>3, <1>4
      <3>2. x \in Nat /\ y \in Nat /\ d \in Nat
        BY <1>1
      <3> HIDE DEF x, y, d
      <3> QED
        BY <3>1, <3>2 DEF d
    <2> QED
      BY <1>4, <2>1, <2>2
  <1> QED
    BY <1>1, <1>2, <1>4 DEF Positions

\* Every place of the file is in a part.
LEMMA PartOfPlace ==
  ASSUME NEW i \in Positions
  PROVE  \E p \in Parts : \E q \in 0..records_per_part-1 : i = p * records_per_part + q
  <1> DEFINE d == records_per_part
  <1> DEFINE p == i \div d
  <1> DEFINE q == i % d
  <1>1. d \in Nat \ {0} /\ i \in Nat /\ num_parts \in Nat /\ i < num_parts * d
    BY SortAssumption DEF Positions
  <1>2. p \in Nat /\ q \in 0..d-1 /\ i = p * d + q
    <2>1. \A x \in Nat, y \in Nat \ {0} :
            x \div y \in Nat /\ x % y \in 0..y-1 /\ x = (x \div y) * y + (x % y)
      OBVIOUS
    <2> HIDE DEF d
    <2> QED
      BY <1>1, <2>1
  <1> HIDE DEF p, q, d
  <1>3. p < num_parts
    <2> SUFFICES ASSUME num_parts <= p PROVE FALSE
      BY <1>1, <1>2
    <2>1. num_parts * d <= p * d
      <3>1. CASE num_parts = p
        BY <1>1, <1>2, <3>1
      <3>2. CASE num_parts < p
        <4>1. num_parts * d + d <= p * d
          BY <1>1, <1>2, <3>2, LessTimes
        <4> QED
          BY <1>1, <1>2, <4>1
      <3> QED
        BY <1>1, <1>2, <3>1, <3>2
    <2> QED
      BY <1>1, <1>2, <2>1
  <1> QED
    BY <1>2, <1>3, <1>1 DEF Parts, d

LEMMA WriteRecordOutput == ASSUME IInv, Ranges, Output, NEW p \in Parts, WriteRecord(p) PROVE Output'
  <1> DEFINE new == p * records_per_part + pos[p]
  <1> DEFINE n == Len(out)
  <1>1. /\ pc[0] = "part" /\ part = num_parts /\ pos[p] < records_per_part
        /\ out' = Append(out, file[new]) /\ pos' = [pos EXCEPT ![p] = pos[p] + 1]
        /\ UNCHANGED <<file, part, pc>>
    BY DEF WriteRecord, Merging, Active, Current
  <1>2. /\ file \in [Positions -> Int] /\ out \in Seq(Int) /\ n \in Nat
        /\ pos \in [Parts -> 0..records_per_part]
    BY DEF Output
  <1>3. PICK w : Written(w)
    BY <1>1 DEF Output
  <1>4. /\ w \in [1..n -> Consumed] /\ \A k \in 1..n : out[k] = file[w[k]]
        /\ \A k, l \in 1..n : w[k] = w[l] => k = l
        /\ \A i \in Consumed : \E k \in 1..n : w[k] = i
    <2>1. w \in Bijection(1..n, Consumed) /\ \A k \in 1..n : out[k] = file[w[k]]
      BY <1>3 DEF Written
    <2> DEFINE D == 1..n
    <2>2. w \in Bijection(D, Consumed)
      BY <2>1
    <2> HIDE DEF D
    <2>3. /\ w \in [D -> Consumed] /\ \A k, l \in D : w[k] = w[l] => k = l
          /\ \A i \in Consumed : \E k \in D : w[k] = i
      BY <2>2, Fun_BijectionProperties
    <2> QED
      BY <2>1, <2>3 DEF D
  <1>5. pos[p] \in 0..records_per_part-1 /\ pos'[p] = pos[p] + 1 /\ records_per_part \in Nat
    BY <1>1, <1>2, Constants
  <1>6. new \in Positions /\ file[new] \in Int
    BY <1>2, <1>5, PlaceInPart
  <1>7. new \notin Consumed
    <2> SUFFICES ASSUME NEW o \in Parts, NEW r \in 0..pos[o]-1,
                        new = o * records_per_part + r
                 PROVE  FALSE
      BY DEF Consumed
    <2>1. r \in 0..records_per_part-1
      BY <1>2, <1>5
    <2>2. o = p /\ r = pos[p]
      BY <1>5, <2>1, PlaceInPart
    <2> QED
      BY <1>5, <2>2
  <1>8. Consumed' = Consumed \cup {new}
    <2>1. ASSUME NEW i \in Consumed' PROVE i \in Consumed \cup {new}
      <3>1. PICK o \in Parts : \E q \in 0..pos'[o]-1 : i = o * records_per_part + q
        BY DEF Consumed
      <3>2. PICK q \in 0..pos'[o]-1 : i = o * records_per_part + q
        BY <3>1
      <3>3. CASE o = p /\ q = pos[p]
        BY <3>2, <3>3
      <3>4. CASE ~(o = p /\ q = pos[p])
        <4>1. q \in 0..pos[o]-1
          <5>1. CASE o = p
            BY <1>5, <3>4, <5>1
          <5>2. CASE o # p
            <6>1. pos'[o] = pos[o]
              BY <1>1, <1>2, <5>2
            <6> QED
              BY <6>1
          <5> QED
            BY <5>1, <5>2
        <4> QED
          BY <3>2, <4>1 DEF Consumed
      <3> QED
        BY <3>3, <3>4
    <2>2. ASSUME NEW i \in Consumed PROVE i \in Consumed'
      <3>1. PICK o \in Parts : \E q \in 0..pos[o]-1 : i = o * records_per_part + q
        BY DEF Consumed
      <3>3. PICK q \in 0..pos[o]-1 : i = o * records_per_part + q
        BY <3>1
      <3>2. q \in 0..pos'[o]-1
        <4>1. CASE o = p
          BY <1>5, <4>1
        <4>2. CASE o # p
          BY <1>1, <1>2, <4>2
        <4> QED
          BY <4>1, <4>2
      <3> QED
        BY <3>2, <3>3 DEF Consumed
    <2>3. new \in Consumed'
      <3>1. pos[p] \in 0..pos'[p]-1
        BY <1>5
      <3> QED
        BY <1>6, <3>1 DEF Consumed
    <2> QED
      BY <2>1, <2>2, <2>3
  <1> HIDE DEF new
  <1> DEFINE v == [k \in 1..n+1 |-> IF k = n + 1 THEN new ELSE w[k]]
  <1>9. out' \in Seq(Int) /\ Len(out') = n + 1
    BY <1>1, <1>2, <1>6
  <1>10. \A k \in 1..n+1 : out'[k] = file[v[k]]
    BY <1>1, <1>2, <1>4
  <1>11. v \in Bijection(1..n+1, Consumed \cup {new})
    <2> HIDE DEF n
    <2>1. v \in [1..n+1 -> Consumed \cup {new}]
      BY <1>2, <1>4
    <2>2. \A k, l \in 1..n+1 : v[k] = v[l] => k = l
      BY <1>2, <1>4, <1>7
    <2>3. ASSUME NEW i \in Consumed \cup {new} PROVE \E k \in 1..n+1 : v[k] = i
      <3>1. CASE i = new
        <4>1. n + 1 \in 1..n+1 /\ v[n+1] = new
          BY <1>2
        <4> QED
          BY <3>1, <4>1
      <3>2. CASE i \in Consumed
        <4>1. PICK k \in 1..n : w[k] = i
          BY <1>4, <3>2
        <4>2. k \in 1..n+1 /\ v[k] = w[k]
          BY <1>2
        <4> QED
          BY <4>1, <4>2
      <3> QED
        BY <3>1, <3>2
    <2> HIDE DEF v
    <2> QED
      BY <2>1, <2>2, <2>3, Fun_IsBij
  <1> HIDE DEF v
  <1>12. \E x : Written(x)'
    <2>1. PICK x : x = v
      OBVIOUS
    <2>2. Written(x)'
      BY <1>1, <1>8, <1>9, <1>10, <1>11, <2>1 DEF Written
    <2> QED
      BY <2>2
  <1>13. pos' \in [Parts -> 0..records_per_part]
    BY <1>1, <1>2, <1>5
  <1>14. Idle' /\ ~(part' < num_parts)
    BY <1>1, Constants DEF Idle
  <1>15. file' \in [Positions -> Int]
    BY <1>1, <1>2
  <1> QED
    BY <1>9, <1>12, <1>13, <1>14, <1>15 DEF Output

\* Once all parts have been read, the output has as many records as the file.
LEMMA OutFull ==
  ASSUME IInv, Output, Rename
  PROVE  Len(out) = Cardinality(Positions)
  <1> DEFINE n == Len(out)
  <1>1. /\ pc[0] = "part" /\ Active = {} /\ pos \in [Parts -> 0..records_per_part]
        /\ n \in Nat /\ records_per_part \in Nat
    BY Constants DEF Rename, Merging, Goto, Output
  <1>2. PICK w : Written(w)
    BY <1>1 DEF Output
  <1>3. Consumed = Positions
    <2> SUFFICES ASSUME NEW i \in Positions PROVE i \in Consumed
      BY DEF Consumed
    <2>1. PICK p \in Parts, q \in 0..records_per_part-1 : i = p * records_per_part + q
      BY PartOfPlace
    <2>2. pos[p] = records_per_part
      BY <1>1 DEF Active
    <2> QED
      BY <2>1, <2>2 DEF Consumed
  <1>4. w \in Bijection(1..n, Positions)
    BY <1>2, <1>3 DEF Written
  <1> HIDE DEF n
  <1>5. n \in Int /\ 1 \in Int /\ (IF 1 > n THEN 0 ELSE n - 1 + 1) = n
    BY <1>1
  <1>6. IsFiniteSet(1..n) /\ Cardinality(1..n) = n
    BY <1>5, FS_Interval
  <1>7. Cardinality(Positions) = Cardinality(1..n)
    BY <1>4, <1>6, FS_Bijection DEF ExistsBijection
  <1> QED
    BY <1>6, <1>7 DEF n

\* The file that replaces the old one has its records.
LEMMA RenameOutput ==
  ASSUME IInv, Ranges, Output, Rename
  PROVE  file' \in [Positions -> Int] /\ SameRecords(file, file')
  <1> DEFINE n == Len(out)
  <1> DEFINE size == num_parts * records_per_part
  <1>1. /\ pc[0] = "part" /\ Active = {} /\ file' = [i \in Positions |-> out[i+1]]
    BY DEF Rename, Merging, Goto
  <1>2. /\ file \in [Positions -> Int] /\ out \in Seq(Int) /\ n \in Nat
        /\ pos \in [Parts -> 0..records_per_part] /\ size \in Nat
    BY Constants DEF Output
  <1>3. PICK w : Written(w)
    BY <1>1 DEF Output
  <1>4. Consumed = Positions
    <2> SUFFICES ASSUME NEW i \in Positions PROVE i \in Consumed
      BY DEF Consumed
    <2>1. PICK p \in Parts, q \in 0..records_per_part-1 : i = p * records_per_part + q
      BY PartOfPlace
    <2>2. pos[p] = records_per_part
      BY <1>1, <1>2, Constants DEF Active
    <2> QED
      BY <2>1, <2>2 DEF Consumed
  <1>5. w \in Bijection(1..n, Positions) /\ \A k \in 1..n : out[k] = file[w[k]]
    BY <1>3, <1>4 DEF Written
  <1>6. n = size
    <2>1. n = Cardinality(Positions)
      BY OutFull
    <2>2. Cardinality(Positions) = size
      <3> HIDE DEF size
      <3>1. Positions = 0..size-1
        BY DEF Positions, size
      <3> QED
        BY <1>2, <3>1, FS_Interval
    <2> QED
      BY <2>1, <2>2
  <1> HIDE DEF n
  <1>7. Positions = 0..n-1
    BY <1>6 DEF Positions
  <1>8. /\ w \in [1..n -> Positions]
        /\ \A k, l \in 1..n : w[k] = w[l] => k = l
        /\ \A i \in Positions : \E k \in 1..n : w[k] = i
    <2> DEFINE D == 1..n
    <2>1. w \in Bijection(D, Positions)
      BY <1>5
    <2> HIDE DEF D
    <2>2. /\ w \in [D -> Positions]
          /\ \A k, l \in D : w[k] = w[l] => k = l
          /\ \A i \in Positions : \E k \in D : w[k] = i
      BY <2>1, Fun_BijectionProperties
    <2> QED
      BY <2>2 DEF D
  <1>9. \A i \in Positions : i + 1 \in 1..n
    BY <1>2, <1>7
  <1>10. \A i \in Positions : out[i+1] \in Int
    BY <1>2, <1>9 DEF n
  <1>11. file' \in [Positions -> Int]
    BY <1>1, <1>10
  <1> DEFINE p == [i \in Positions |-> w[i+1]]
  <1>12. p \in Bijection(Positions, Positions)
    <2>1. p \in [Positions -> Positions]
      BY <1>8, <1>9
    <2>2. \A i, j \in Positions : p[i] = p[j] => i = j
      <3> TAKE i \in Positions, j \in Positions
      <3>1. p[i] = w[i+1] /\ p[j] = w[j+1] /\ i + 1 \in 1..n /\ j + 1 \in 1..n
        BY <1>9
      <3>2. i \in Int /\ j \in Int
        BY <1>7
      <3>3. w[i+1] = w[j+1] => i + 1 = j + 1
        BY <1>8, <3>1
      <3> HIDE DEF p
      <3> QED
        BY <3>1, <3>2, <3>3
    <2>3. \A i \in Positions : \E j \in Positions : p[j] = i
      <3> TAKE i \in Positions
      <3>1. PICK k \in 1..n : w[k] = i
        BY <1>8
      <3>2. k - 1 \in Positions /\ (k - 1) + 1 = k
        BY <1>2, <1>7
      <3> QED
        BY <3>1, <3>2
    <2> HIDE DEF p
    <2> QED
      BY <2>1, <2>2, <2>3, Fun_IsBij
  <1>13. \A i \in Positions : file'[i] = file[p[i]]
    BY <1>1, <1>5, <1>9
  <1> HIDE DEF p
  <1> QED
    BY <1>2, <1>11, <1>12, <1>13, SameByBijection

(***************************************************************************)
(* What is in order.                                                       *)
(***************************************************************************)
\* What a thread is about to copy back is its pair of runs, merged.
Buffers ==
  /\ tmp_buf \in [Tids -> Seq(Int)]
  /\ \A t \in Tids : pc[t] = "copy" =>
       tmp_buf[t] = Merged(Slice(file, PairStart(t), RunLength(t)),
                           Slice(file, PairStart(t) + RunLength(t), RunLength(t)))

AllMerge == \A t \in Tids : pc[t] \in MergeLabels

\* Before the first round: a block marked as sorted is, one marked as taken is some
\* thread's, and a thread that waits at the barrier has found none free.
BlocksSorted ==
  ~Idle /\ ~AllMerge =>
    /\ \A b \in Blocks : block_map[b] = 2 =>
         Ascending(Slice(file, BlockStart(b), block_records))
    /\ \A b \in Blocks : block_map[b] = 1 =>
         \E t \in Tids : pc[t] \in {"create", "none", "sort", "missing"} /\ block[t] = b
    /\ \A t \in Tids : pc[t] = "sorted" => Free = {}

\* In a round: a run whose records have all been merged in the rounds before is in
\* order until its pair is copied back; then the pair is.
Paired(r) ==
  \/ current_blocks[0] = blocks
  \/ (r + 1) * (blocks \div current_blocks[0]) <= 2 * threads

RunsReady ==
  AllMerge => \A r \in 0..current_blocks[0]-1 :
    Paired(r) /\ (\A t \in Tids : r \in {2*t, 2*t+1} => pc[t] \in {"merge", "copy"}) =>
      Ascending(Slice(file, RunStart(r), RunLength(0)))

PairsDone ==
  \A t \in Tids : pc[t] = "merged" /\ HasPair(t) /\ Paired(2*t+1) =>
    Ascending(Slice(file, PairStart(t), 2 * RunLength(t)))

Contents == Output /\ Buffers /\ BlocksSorted /\ RunsReady /\ PairsDone

\* Steps that leave the file and merge_parts alone.
LEMMA OutputSame ==
  ASSUME Output, UNCHANGED <<file, out, pos>>,
         ~Idle' \/ part' < num_parts => ~Idle \/ part < num_parts,
         pc'[0] # "done" => pc[0] # "done"
  PROVE  Output'
  <1>1. \A w : Written(w) => Written(w)'
    BY DEF Written, Consumed
  <1> QED
    BY <1>1 DEF Output

\* Steps that write the file before merge_parts starts.
LEMMA OutputEmpty ==
  ASSUME Output, UNCHANGED <<out, pos, part>>, file' \in [Positions -> Int], ~Idle
  PROVE  Output'
  <1>1. out = << >> /\ Len(out) = 0 /\ pc[0] # "done"
    BY DEF Output, Idle
  <1>2. \A w : Written(w) => Written(w)'
    <2>1. Consumed' = Consumed
      BY DEF Consumed
    <2> QED
      BY <1>1, <2>1 DEF Written
  <1> QED
    BY <1>1, <1>2 DEF Output

\* A stretch of the file that is not written to.
Apart(start, m, other, n) ==
  /\ start \in Int /\ start..start+m-1 \subseteq Positions
  /\ other \in Int /\ n \in Nat /\ other..other+n-1 \subseteq Positions
  /\ (other..other+n-1) \cap (start..start+m-1) = {}

LEMMA PlacedElsewhere ==
  ASSUME NEW f \in [Positions -> Int], NEW s \in Seq(Int), NEW start, NEW other, NEW n,
         Apart(start, Len(s), other, n)
  PROVE  Slice(Placed(f, start, s), other, n) = Slice(f, other, n)
  <1> USE DEF Apart
  <1>1. \A i \in Positions \ (start..start+Len(s)-1) : Placed(f, start, s)[i] = f[i]
    BY PlacedFacts
  <1>2. \A i \in 1..n : other + i - 1 \in other..other+n-1
    OBVIOUS
  <1>3. \A i \in 1..n : Placed(f, start, s)[other+i-1] = f[other+i-1]
    BY <1>1, <1>2
  <1> QED
    BY <1>3 DEF Slice

\* A stretch is its first half and then its second.
LEMMA SliceHalves ==
  ASSUME NEW f \in [Positions -> Int], NEW start \in Int, NEW n \in Nat,
         start..start+2*n-1 \subseteq Positions
  PROVE  /\ Slice(f, start, n) \in Seq(Int) /\ Slice(f, start + n, n) \in Seq(Int)
         /\ Slice(f, start, n) \o Slice(f, start + n, n) = Slice(f, start, 2*n)
  <1> DEFINE a == Slice(f, start, n)
  <1> DEFINE b == Slice(f, start + n, n)
  <1> DEFINE c == Slice(f, start, 2*n)
  <1>1. start..start+n-1 \subseteq Positions /\ start+n..start+n+n-1 \subseteq Positions
    <2>1. \A i \in start..start+n-1 : i \in start..start+2*n-1
      OBVIOUS
    <2>2. \A i \in start+n..start+n+n-1 : i \in start..start+2*n-1
      OBVIOUS
    <2> QED
      BY <2>1, <2>2
  <1>2. /\ a \in Seq(Int) /\ Len(a) = n /\ b \in Seq(Int) /\ Len(b) = n
        /\ c \in Seq(Int) /\ Len(c) = 2*n
    BY <1>1, SliceFacts
  <1>3. /\ \A i \in 1..n : a[i] = f[start+i-1] /\ b[i] = f[start+n+i-1]
        /\ \A i \in 1..2*n : c[i] = f[start+i-1]
    BY DEF Slice
  <1> HIDE DEF a, b, c
  <1>4. /\ a \o b \in Seq(Int) /\ Len(a \o b) = Len(a) + Len(b)
        /\ \A i \in 1..Len(a)+Len(b) :
             (a \o b)[i] = IF i <= Len(a) THEN a[i] ELSE b[i-Len(a)]
    BY <1>2, ConcatProperties
  <1> DEFINE d == a \o b
  <1>5. d \in Seq(Int) /\ Len(d) = 2*n
    BY <1>2, <1>4
  <1>6. d = c
    <2>1. \A i \in 1..2*n : d[i] = IF i <= n THEN a[i] ELSE b[i-n]
      BY <1>2, <1>4
    <2> HIDE DEF d
    <2>2. ASSUME NEW i \in 1..2*n PROVE d[i] = c[i]
      <3>1. CASE i <= n
        <4>1. i \in 1..n /\ d[i] = a[i]
          BY <2>1, <3>1
        <4> QED
          BY <1>3, <4>1
      <3>2. CASE i > n
        <4>1. i - n \in 1..n /\ start + n + (i - n) - 1 = start + i - 1 /\ d[i] = b[i-n]
          BY <2>1, <3>2
        <4>2. b[i-n] = f[start+n+(i-n)-1]
          BY <1>3, <4>1
        <4> QED
          BY <1>3, <4>1, <4>2
      <3> QED
        BY <3>1, <3>2
    <2> QED
      BY <1>2, <1>5, <2>2, SeqEqual
  <1> QED
    BY <1>2, <1>6 DEF a, b, c

\* A thread about to copy back holds the records of its pair, merged.
LEMMA PairMerged ==
  ASSUME IInv, Ranges, Output, Buffers, NEW t \in Tids, pc[t] = "copy"
  PROVE  /\ ~Idle /\ HasPair(t) /\ AllMerge /\ current_blocks[t] = current_blocks[0]
         /\ PairStart(t) \in Int /\ RunLength(t) \in Nat
         /\ PairStart(t)..PairStart(t) + 2*RunLength(t) - 1 \subseteq Positions
         /\ tmp_buf[t] \in Seq(Int) /\ Len(tmp_buf[t]) = 2*RunLength(t)
         /\ Rearranges(tmp_buf[t], Slice(file, PairStart(t), 2*RunLength(t)))
         /\ Ascending(Slice(file, PairStart(t), RunLength(t)))
              /\ Ascending(Slice(file, PairStart(t) + RunLength(t), RunLength(t)))
              => Ascending(tmp_buf[t])
  <1> DEFINE l == RunLength(t)
  <1> DEFINE start == PairStart(t)
  <1>1. ~Idle /\ HasPair(t) /\ AllMerge /\ current_blocks[t] = current_blocks[0]
    BY Constants DEF Idle, Ranges, Rounds, AllMerge, IInv, SameRound, MergeLabels
  <1>2. l \in Nat /\ start \in Int /\ start..start+2*l-1 \subseteq Positions
    BY <1>1, PairInFile
  <1>3. file \in [Positions -> Int]
    BY DEF Output
  <1>4. tmp_buf[t] = Merged(Slice(file, start, l), Slice(file, start+l, l))
    BY DEF Buffers
  <1> HIDE DEF l, start
  <1>5. /\ Slice(file, start, l) \in Seq(Int) /\ Slice(file, start+l, l) \in Seq(Int)
        /\ Slice(file, start, l) \o Slice(file, start+l, l) = Slice(file, start, 2*l)
    BY <1>2, <1>3, SliceHalves
  <1>6. /\ Rearranges(tmp_buf[t], Slice(file, start, 2*l))
        /\ Ascending(Slice(file, start, l)) /\ Ascending(Slice(file, start+l, l))
             => Ascending(tmp_buf[t])
    <2> DEFINE a == Slice(file, start, l)
    <2> DEFINE b == Slice(file, start+l, l)
    <2>1. a \in Seq(Int) /\ b \in Seq(Int) /\ a \o b = Slice(file, start, 2*l)
          /\ tmp_buf[t] = Merged(a, b)
      BY <1>4, <1>5
    <2> HIDE DEF a, b
    <2>2. /\ Rearranges(Merged(a, b), a \o b)
          /\ Ascending(a) /\ Ascending(b) => Ascending(Merged(a, b))
      BY <2>1, MergedFacts
    <2>3. /\ Rearranges(tmp_buf[t], Slice(file, start, 2*l))
          /\ Ascending(a) /\ Ascending(b) => Ascending(tmp_buf[t])
      BY <2>1, <2>2
    <2> QED
      BY <2>3 DEF a, b
  <1>7. Len(Slice(file, start, 2*l)) = 2*l
    <2>1. 2*l \in Nat
      BY <1>2
    <2> QED
      BY <1>2, <1>3, <2>1, SliceFacts
  <1>8. tmp_buf[t] \in Seq(Int) /\ Len(tmp_buf[t]) = 2*l
    BY <1>6, <1>7 DEF Rearranges
  <1> QED
    BY <1>1, <1>2, <1>6, <1>8 DEF l, start

(***************************************************************************)
(* The steps, one part of Contents after the other.                        *)
(***************************************************************************)
LEMMA ContentsInit == Init => Contents
  <1> SUFFICES ASSUME Init PROVE Contents
    OBVIOUS
  <1>1. Output
    BY OutputInit
  <1>2. pc[0] = "part" /\ \A t \in Tids : pc[t] \notin MergeLabels
    BY Constants DEF Init, MergeLabels
  <1>3. Idle /\ ~AllMerge
    BY <1>2, Constants DEF Idle, AllMerge, MergeLabels
  <1>4. tmp_buf \in [Tids -> Seq(Int)]
    BY DEF Init
  <1> QED
    BY <1>1, <1>2, <1>3, <1>4
       DEF Contents, Buffers, BlocksSorted, RunsReady, PairsDone, MergeLabels

\* What a thread step does to the labels.
LEMMA ThreadBusy ==
  ASSUME IInv, NEW t \in Tids, Thread(t)
  PROVE  /\ ~Idle /\ ~Idle'
         /\ \A u \in Tids \ {t} : pc'[u] = pc[u]
         /\ UNCHANGED <<part, current_blocks, pos, out>>
  <1>1. /\ UNCHANGED <<part, current_blocks, pos, out>>
        /\ pc[t] \in {"sort", "claim", "merge", "copy"}
        /\ \E label \in {"claim", "sort", "sorted", "copy", "merged", "exited"} :
             pc' = [pc EXCEPT ![t] = label]
    BY DEF Thread, SortBlock, Claim, NothingFree, Merge, Copy, NoPair, Exit, Goto
  <1>2. ~Idle
    BY <1>1 DEF Idle, IInv, MainLabels
  <1> QED
    BY <1>1, <1>2, Constants DEF Idle, IInv, Shapes

\* A thread that sorts writes its own block only.
LEMMA SortWrites ==
  ASSUME IInv, Ranges, Output, NEW t \in Tids, SortBlock(t)
  PROVE  /\ block[t] \in Blocks /\ ~Idle
         /\ file' \in [Positions -> Int] /\ SameRecords(file, file')
         /\ Ascending(Slice(file', BlockStart(block[t]), block_records))
         /\ \A b \in Blocks \ {block[t]} :
              Slice(file', BlockStart(b), block_records)
                = Slice(file, BlockStart(b), block_records)
  <1> DEFINE b == block[t]
  <1> DEFINE start == BlockStart(b)
  <1> DEFINE l == block_records
  <1> DEFINE before == Slice(file, start, l)
  <1>1. ~Idle
    BY ThreadBusy DEF Thread
  <1>2. b \in Blocks /\ file \in [Positions -> Int] /\ l \in Nat
    BY BlocksFit DEF IInv, Shapes, Output
  <1>3. start \in Int /\ start..start+l-1 \subseteq Positions
    BY <1>1, <1>2, BlockInFile
  <1>4. file' = Placed(file, start, Sorted(before))
    BY DEF SortBlock
  <1>5. ASSUME NEW c \in Blocks \ {b}
        PROVE  /\ BlockStart(c) \in Int /\ BlockStart(c)..BlockStart(c)+l-1 \subseteq Positions
               /\ (BlockStart(c)..BlockStart(c)+l-1) \cap (start..start+l-1) = {}
    <2> DEFINE base == part * records_per_part
    <2>1. BlockStart(c) \in Int /\ BlockStart(c)..BlockStart(c)+l-1 \subseteq Positions
      BY <1>1, BlockInFile
    <2>2. BlockStart(c) = base + c * l /\ start = base + b * l
      BY DEF BlockStart
    <2>3. base \in Int /\ b \in Nat /\ c \in Nat /\ b # c
      <3>1. part \in Nat /\ records_per_part \in Nat
        BY Constants DEF IInv, Shapes
      <3>2. base \in Int
        BY <3>1
      <3> HIDE DEF b, base
      <3> QED
        BY <1>2, <3>2, Constants
    <2> HIDE DEF base, l, start, b
    <2>4. (base + c * l..base + c * l + l - 1) \cap (base + b * l..base + b * l + l - 1) = {}
      BY <1>2, <2>3, Stretches
    <2> QED
      BY <2>1, <2>2, <2>4 DEF l
  <1> HIDE DEF start, l
  <1>6. before \in Seq(Int) /\ Len(before) = l
    BY <1>2, <1>3, SliceFacts
  <1>7. Rearranges(Sorted(before), before) /\ Ascending(Sorted(before))
    BY <1>6, SortedFacts
  <1>8. Sorted(before) \in Seq(Int) /\ Len(Sorted(before)) = l
    BY <1>6, <1>7 DEF Rearranges
  <1> DEFINE s == Sorted(before)
  <1>9. SameRecords(file, file')
    BY <1>2, <1>3, <1>4, <1>7, PlacedSame
  <1> HIDE DEF before
  <1>10. s \in Seq(Int) /\ Len(s) = l /\ Ascending(s) /\ file' = Placed(file, start, s)
    BY <1>4, <1>7, <1>8
  <1> HIDE DEF s
  <1>11. file' \in [Positions -> Int] /\ Slice(file', start, l) = s
    BY <1>2, <1>3, <1>10, PlacedFacts
  <1>12. ASSUME NEW c \in Blocks \ {b}
         PROVE  Slice(file', BlockStart(c), l) = Slice(file, BlockStart(c), l)
    <2> DEFINE x == BlockStart(c)
    <2>1. /\ x \in Int /\ x..x+l-1 \subseteq Positions
          /\ (x..x+l-1) \cap (start..start+Len(s)-1) = {}
          /\ start..start+Len(s)-1 \subseteq Positions
      BY <1>3, <1>5, <1>10, <1>12
    <2> HIDE DEF x
    <2>2. Slice(Placed(file, start, s), x, l) = Slice(file, x, l)
      <3>1. Apart(start, Len(s), x, l)
        BY <1>2, <1>3, <2>1 DEF Apart
      <3> QED
        BY <1>2, <1>10, <3>1, PlacedElsewhere
    <2> QED
      BY <1>10, <2>2 DEF x
  <1> QED
    BY <1>1, <1>2, <1>9, <1>10, <1>11, <1>12 DEF start, l

\* A thread that copies back writes its own pair of runs only.
LEMMA CopyWrites ==
  ASSUME IInv, Ranges, Output, Buffers, NEW t \in Tids, Copy(t)
  PROVE  /\ file' \in [Positions -> Int] /\ SameRecords(file, file')
         /\ Slice(file', PairStart(t), 2 * RunLength(t)) = tmp_buf[t]
         /\ \A r \in 0..current_blocks[0]-1 : r \notin {2*t, 2*t+1} =>
              Slice(file', RunStart(r), RunLength(0)) = Slice(file, RunStart(r), RunLength(0))
  <1> DEFINE start == PairStart(t)
  <1> DEFINE l == RunLength(0)
  <1> DEFINE s == tmp_buf[t]
  <1>1. pc[t] = "copy" /\ file' = Placed(file, start, s)
    BY DEF Copy, Goto
  <1>2. /\ ~Idle /\ HasPair(t) /\ current_blocks[t] = current_blocks[0]
        /\ start \in Int /\ RunLength(t) \in Nat
        /\ start..start+2*RunLength(t)-1 \subseteq Positions
        /\ s \in Seq(Int) /\ Len(s) = 2*RunLength(t)
        /\ Rearranges(s, Slice(file, start, 2*RunLength(t)))
    BY <1>1, PairMerged
  <1>3. RunLength(t) = l /\ start = RunStart(2*t) /\ start + l = RunStart(2*t+1)
    BY <1>2, PairInFile
  <1>4. file \in [Positions -> Int]
    BY DEF Output
  <1>5. ASSUME NEW r \in 0..current_blocks[0]-1, r \notin {2*t, 2*t+1}
        PROVE  /\ RunStart(r) \in Int /\ RunStart(r)..RunStart(r)+l-1 \subseteq Positions
               /\ (RunStart(r)..RunStart(r)+l-1) \cap (start..start+2*l-1) = {}
    <2> DEFINE base == part * records_per_part
    <2> DEFINE i == 2 * t
    <2>1. RunStart(r) \in Int /\ RunStart(r)..RunStart(r)+l-1 \subseteq Positions
      BY <1>2, RunInFile
    <2>2. /\ base \in Int /\ r \in Nat /\ i \in Nat /\ i + 1 \in Nat /\ r # i /\ r # i + 1
          /\ l \in Nat
      BY <1>2, <1>3, <1>5, Constants DEF IInv, Shapes
    <2>3. /\ RunStart(r) = base + r * l /\ RunStart(i) = base + i * l
          /\ RunStart(i+1) = base + (i + 1) * l
      BY DEF RunStart
    <2>4. start = RunStart(i) /\ start + l = RunStart(i+1)
      BY <1>3
    <2> DEFINE x == RunStart(r)
    <2> HIDE DEF base, l, i
    <2>5. /\ (base + r * l..base + r * l + l - 1) \cap (base + i * l..base + i * l + l - 1) = {}
          /\ (base + r * l..base + r * l + l - 1)
               \cap (base + (i+1) * l..base + (i+1) * l + l - 1) = {}
      BY <2>2, Stretches
    <2>6. /\ (x..x+l-1) \cap (start..start+l-1) = {}
          /\ (x..x+l-1) \cap (start+l..start+l+l-1) = {}
      BY <2>3, <2>4, <2>5
    <2>7. \A k \in start..start+2*l-1 : k \in start..start+l-1 \/ k \in start+l..start+l+l-1
      <3> HIDE DEF start
      <3> QED
        BY <1>2, <2>2
    <2> QED
      BY <2>1, <2>6, <2>7 DEF l
  <1> HIDE DEF start, s
  <1>6. SameRecords(file, file')
    <2> DEFINE n == 2 * RunLength(t)
    <2>1. n \in Nat /\ start..start+n-1 \subseteq Positions /\ Rearranges(s, Slice(file, start, n))
      BY <1>2
    <2> HIDE DEF n
    <2> QED
      BY <1>1, <1>2, <1>4, <2>1, PlacedSame
  <1> HIDE DEF l
  <1>7. file' \in [Positions -> Int] /\ Slice(file', start, 2*RunLength(t)) = s
    <2>1. start..start+Len(s)-1 \subseteq Positions
      BY <1>2
    <2>2. /\ Placed(file, start, s) \in [Positions -> Int]
          /\ Slice(Placed(file, start, s), start, Len(s)) = s
      BY <1>2, <1>4, <2>1, PlacedFacts
    <2> QED
      BY <1>1, <1>2, <2>2
  <1>8. ASSUME NEW r \in 0..current_blocks[0]-1, r \notin {2*t, 2*t+1}
        PROVE  Slice(file', RunStart(r), l) = Slice(file, RunStart(r), l)
    <2> DEFINE x == RunStart(r)
    <2>1. /\ x \in Int /\ x..x+l-1 \subseteq Positions
          /\ (x..x+l-1) \cap (start..start+Len(s)-1) = {}
          /\ start..start+Len(s)-1 \subseteq Positions
      BY <1>2, <1>3, <1>5, <1>8
    <2>2. l \in Nat
      BY <1>2, <1>3
    <2> HIDE DEF x
    <2>3. Slice(Placed(file, start, s), x, l) = Slice(file, x, l)
      <3>1. Apart(start, Len(s), x, l)
        BY <1>2, <2>1, <2>2 DEF Apart
      <3> QED
        BY <1>2, <1>4, <3>1, PlacedElsewhere
    <2> QED
      BY <1>1, <2>3 DEF x
  <1> QED
    BY <1>6, <1>7, <1>8 DEF l, start, s

\* The steps that write the file leave its records.
LEMMA FileSame ==
  ASSUME IInv, Ranges, Output, Buffers, [Next]_vars, file' # file
  PROVE  SameRecords(file, file') /\ file' \in [Positions -> Int]
  <1>1. CASE Rename
    BY <1>1, RenameOutput
  <1>2. ASSUME NEW t \in Tids, SortBlock(t)
        PROVE  SameRecords(file, file') /\ file' \in [Positions -> Int]
    BY <1>2, SortWrites
  <1>3. ASSUME NEW t \in Tids, Copy(t)
        PROVE  SameRecords(file, file') /\ file' \in [Positions -> Int]
    BY <1>3, CopyWrites
  <1>4. file' = file \/ Rename \/ \E t \in Tids : SortBlock(t) \/ Copy(t)
    BY DEF vars, Next, Main, Thread, MapPart, Begin, Join, Create, WriteRecord, Release,
           Claim, NothingFree, Merge, NoPair, Exit
  <1> QED
    BY <1>1, <1>2, <1>3, <1>4

LEMMA OutputNext == IInv /\ Ranges /\ Contents /\ [Next]_vars => Output'
  <1> SUFFICES ASSUME IInv, Ranges, Contents, [Next]_vars PROVE Output'
    OBVIOUS
  <1>1. Output /\ Buffers /\ part \in Int /\ 0 \in Tids
        /\ pc \in [Tids -> SortLabels \cup MergeLabels]
    BY Constants DEF Contents, IInv, Shapes
  <1>3. ASSUME UNCHANGED <<file, out, pos>>, ~Idle PROVE Output'
    BY <1>1, <1>3, OutputSame DEF Idle
  <1>4. CASE MapPart
    <2>1. UNCHANGED <<file, out, pos>> /\ part < num_parts /\ pc[0] = "part"
      BY <1>4 DEF MapPart, Goto
    <2> QED
      BY <1>1, <2>1, OutputSame
  <1>5. CASE Join
    <2>1. UNCHANGED <<file, out, pos>> /\ pc[0] = "exited"
      BY <1>1, <1>5 DEF Join
    <2> QED
      BY <1>3, <2>1 DEF Idle
  <1>6. CASE Release
    <2>1. UNCHANGED <<file, out, pos>> /\ pc[0] \in {"sorted", "merged"}
      BY <1>1, <1>6 DEF Release, AtBarrier
    <2> QED
      BY <1>3, <2>1 DEF Idle
  <1>7. ASSUME NEW t \in Tids, Create(t) \/ Begin PROVE Output'
    <2>1. UNCHANGED <<file, out, pos>> /\ pc[0] = "create"
      BY <1>7 DEF Create, Begin, Goto
    <2> QED
      BY <1>3, <2>1 DEF Idle
  <1>8. CASE Rename
    <2>1. /\ UNCHANGED <<out, pos, part>> /\ pc[0] = "part" /\ ~(part < num_parts)
          /\ pc'[0] = "done"
      BY <1>1, <1>8 DEF Rename, Merging, Goto
    <2>2. file' \in [Positions -> Int]
      BY <1>1, <1>8, RenameOutput
    <2>3. Idle'
      BY <2>1 DEF Idle
    <2> QED
      BY <1>1, <2>1, <2>2, <2>3 DEF Output
  <1>9. ASSUME NEW p \in Parts, WriteRecord(p) PROVE Output'
    BY <1>1, <1>9, WriteRecordOutput
  <1>10. ASSUME NEW t \in Tids, Thread(t) PROVE Output'
    <2>1. ~Idle /\ UNCHANGED <<out, pos, part>>
      BY <1>10, ThreadBusy
    <2>2. file' \in [Positions -> Int]
      <3>1. CASE file' = file
        BY <1>1, <3>1 DEF Output
      <3> QED
        BY <1>1, <3>1, FileSame
    <2> QED
      BY <1>1, <2>1, <2>2, OutputEmpty
  <1>11. CASE UNCHANGED vars
    BY <1>1, <1>11, OutputSame DEF vars, Idle
  <1> QED
    BY <1>1, <1>4, <1>5, <1>6, <1>7, <1>8, <1>9, <1>10, <1>11 DEF Next, Main

\* What a thread that merges finds in the file.
LEMMA PairType ==
  ASSUME IInv, Ranges, Output, NEW t \in Tids, Merge(t)
  PROVE  Merged(Slice(file, PairStart(t), RunLength(t)),
                Slice(file, PairStart(t) + RunLength(t), RunLength(t))) \in Seq(Int)
  <1> DEFINE a == Slice(file, PairStart(t), RunLength(t))
  <1> DEFINE b == Slice(file, PairStart(t) + RunLength(t), RunLength(t))
  <1>1. ~Idle
    BY ThreadBusy DEF Thread
  <1>2. HasPair(t) /\ current_blocks[t] = current_blocks[0]
    BY Constants DEF Merge, Goto, IInv, SameRound, MergeLabels
  <1>3. /\ PairStart(t) \in Int /\ RunLength(t) \in Nat
        /\ PairStart(t)..PairStart(t) + 2*RunLength(t) - 1 \subseteq Positions
        /\ file \in [Positions -> Int]
    BY <1>1, <1>2, PairInFile DEF Output
  <1>4. a \in Seq(Int) /\ b \in Seq(Int)
    BY <1>3, SliceHalves
  <1> HIDE DEF a, b
  <1>5. Rearranges(Merged(a, b), a \o b)
    BY <1>4, MergedFacts
  <1>6. Merged(a, b) \in Seq(Int)
    BY <1>5 DEF Rearranges
  <1> QED
    BY <1>6 DEF a, b

LEMMA BuffersNext == IInv /\ Ranges /\ Contents /\ [Next]_vars => Buffers'
  <1> SUFFICES ASSUME IInv, Ranges, Contents, [Next]_vars PROVE Buffers'
    OBVIOUS
  <1> DEFINE pair(t) == Merged(Slice(file, PairStart(t), RunLength(t)),
                               Slice(file, PairStart(t) + RunLength(t), RunLength(t)))
  <1> DEFINE filled(t) == pc[t] = "copy" => tmp_buf[t] = pair(t)
  <1>1. /\ Output /\ Buffers /\ 0 \in Tids /\ pc \in [Tids -> SortLabels \cup MergeLabels]
        /\ tmp_buf \in [Tids -> Seq(Int)] /\ \A t \in Tids : filled(t)
    BY Constants DEF Contents, Buffers, IInv, Shapes
  <1>2. ASSUME NEW t \in Tids, pc[t] = "copy", tmp_buf'[t] = tmp_buf[t],
               UNCHANGED <<part, current_blocks>>,
               \A r \in {2*t, 2*t+1} : Slice(file', RunStart(r), RunLength(0))
                                         = Slice(file, RunStart(r), RunLength(0))
        PROVE  filled(t)'
    <2>1. /\ RunLength(t) = RunLength(0)
          /\ PairStart(t) = RunStart(2*t) /\ PairStart(t) + RunLength(t) = RunStart(2*t+1)
      BY <1>1, <1>2, PairMerged, PairInFile
    <2>2. RunLength(t)' = RunLength(t) /\ PairStart(t)' = PairStart(t)
      BY <1>2 DEF RunLength, PairStart
    <2>3. tmp_buf[t] = pair(t)
      BY <1>1, <1>2
    <2> QED
      BY <1>2, <2>1, <2>2, <2>3
  <1>3. ASSUME UNCHANGED tmp_buf, \A t \in Tids : pc'[t] # "copy" PROVE Buffers'
    BY <1>1, <1>3 DEF Buffers
  <1>4. ASSUME UNCHANGED <<file, part, current_blocks, tmp_buf>>,
               \A t \in Tids : pc'[t] = "copy" => pc[t] = "copy"
        PROVE  Buffers'
    BY <1>1, <1>2, <1>4 DEF Buffers
  <1>5. CASE MapPart \/ Rename
    <2>1. \A t \in Tids : pc'[t] # "copy"
      BY <1>1, <1>5 DEF MapPart, Rename, Goto, IInv, MainLabels
    <2> QED
      BY <1>3, <1>5, <2>1 DEF MapPart, Rename
  <1>6. CASE Join \/ Release
    BY <1>3, <1>6 DEF Join, Release
  <1>7. ASSUME NEW t \in Tids, Create(t) \/ Begin PROVE Buffers'
    BY <1>1, <1>4, <1>7 DEF Create, Begin, Goto
  <1>8. ASSUME NEW p \in Parts, WriteRecord(p) PROVE Buffers'
    BY <1>4, <1>8 DEF WriteRecord
  <1>9. ASSUME NEW t \in Tids, NothingFree(t) \/ Claim(t) \/ NoPair(t) \/ Exit(t) PROVE Buffers'
    BY <1>1, <1>4, <1>9 DEF NothingFree, Claim, NoPair, Exit, Goto
  <1>10. ASSUME NEW t \in Tids, SortBlock(t) PROVE Buffers'
    <2>1. \A u \in Tids : pc'[u] # "copy"
      BY <1>1, <1>10 DEF SortBlock, Goto, IInv, SameRound, MergeLabels
    <2> QED
      BY <1>3, <1>10, <2>1 DEF SortBlock
  <1>11. ASSUME NEW t \in Tids, Merge(t) PROVE Buffers'
    <2>1. /\ UNCHANGED <<file, part, current_blocks>> /\ pc' = [pc EXCEPT ![t] = "copy"]
          /\ tmp_buf' = [tmp_buf EXCEPT ![t] = pair(t)]
      BY <1>11 DEF Merge, Goto
    <2>2. pair(t) \in Seq(Int)
      BY <1>1, <1>11, PairType
    <2>3. filled(t)'
      <3>1. pair(t)' = pair(t)
        BY <2>1 DEF PairStart, RunLength
      <3> HIDE DEF pair
      <3> QED
        BY <1>1, <2>1, <3>1
    <2>4. ASSUME NEW u \in Tids \ {t}, pc'[u] = "copy" PROVE filled(u)'
      <3>1. pc[u] = "copy" /\ tmp_buf'[u] = tmp_buf[u]
        <4> HIDE DEF pair
        <4> QED
          BY <1>1, <2>1, <2>4
      <3> QED
        BY <1>2, <2>1, <3>1
    <2>5. tmp_buf' \in [Tids -> Seq(Int)]
      <3> HIDE DEF pair
      <3> QED
        BY <1>1, <2>1, <2>2
    <2>6. \A u \in Tids : filled(u)'
      BY <2>3, <2>4
    <2> QED
      BY <2>5, <2>6 DEF Buffers
  <1>12. ASSUME NEW t \in Tids, Copy(t) PROVE Buffers'
    <2>1. /\ UNCHANGED <<part, current_blocks>> /\ pc' = [pc EXCEPT ![t] = "merged"]
          /\ pc[t] = "copy" /\ tmp_buf' = [tmp_buf EXCEPT ![t] = << >>]
      BY <1>12 DEF Copy, Goto
    <2>2. ASSUME NEW u \in Tids, pc'[u] = "copy" PROVE filled(u)'
      <3>1. pc[u] = "copy" /\ tmp_buf'[u] = tmp_buf[u] /\ u # t /\ u \in Nat /\ t \in Nat
        BY <1>1, <2>1, <2>2, Constants
      <3>2. 2*u \in 0..current_blocks[0]-1 /\ 2*u+1 \in 0..current_blocks[0]-1
        BY <1>1, <3>1, PairMerged, PairInFile
      <3>3. 2*u \notin {2*t, 2*t+1} /\ 2*u+1 \notin {2*t, 2*t+1}
        BY <3>1
      <3>4. \A r \in {2*u, 2*u+1} : Slice(file', RunStart(r), RunLength(0))
                                      = Slice(file, RunStart(r), RunLength(0))
        BY <1>1, <1>12, <3>2, <3>3, CopyWrites
      <3> QED
        BY <1>2, <2>1, <3>1, <3>4
    <2>3. tmp_buf' \in [Tids -> Seq(Int)]
      BY <1>1, <2>1
    <2> QED
      BY <2>2, <2>3 DEF Buffers
  <1>13. CASE UNCHANGED vars
    BY <1>4, <1>13 DEF vars
  <1> QED
    BY <1>1, <1>5, <1>6, <1>7, <1>8, <1>9, <1>10, <1>11, <1>12, <1>13 DEF Next, Main, Thread

LEMMA BlocksNext == IInv /\ Ranges /\ Contents /\ [Next]_vars => BlocksSorted'
  <1> SUFFICES ASSUME IInv, Ranges, Contents, [Next]_vars, ~Idle', ~AllMerge' PROVE BlocksSorted'
    BY DEF BlocksSorted
  <1> DEFINE waits(t) == pc[t] \in {"create", "none", "sort", "missing"}
  <1> DEFINE sorted(b) == Ascending(Slice(file, BlockStart(b), block_records))
  <1>1. /\ Output /\ 0 \in Tids /\ pc \in [Tids -> SortLabels \cup MergeLabels]
        /\ block \in [Tids -> Blocks] /\ block_map \in [Blocks -> 0..2] /\ Tids \subseteq Blocks
        /\ pc'[0] \notin {"part", "done"}
    BY Constants DEF Contents, IInv, Shapes, Idle
  <1>2. ASSUME ~Idle, ~AllMerge
        PROVE  /\ \A b \in Blocks : block_map[b] = 2 => sorted(b)
               /\ \A b \in Blocks : block_map[b] = 1 => \E t \in Tids : waits(t) /\ block[t] = b
               /\ \A t \in Tids : pc[t] = "sorted" => Free = {}
    BY <1>2 DEF Contents, BlocksSorted
  <1>3. ASSUME \A b \in Blocks : block_map'[b] = 2 => sorted(b)',
               \A b \in Blocks : block_map'[b] = 1 => \E t \in Tids : waits(t)' /\ block'[t] = b,
               \A t \in Tids : pc'[t] = "sorted" => Free' = {}
        PROVE  BlocksSorted'
    BY <1>3 DEF BlocksSorted
  <1> HIDE DEF sorted
  <1>4. ASSUME ~Idle, ~AllMerge, UNCHANGED <<file, part, block_map, block>>,
               \A t \in Tids : waits(t) => waits(t)',
               \A t \in Tids : pc'[t] = "sorted" => pc[t] = "sorted" \/ Free = {}
        PROVE  BlocksSorted'
    <2>1. Free' = Free /\ \A b \in Blocks : sorted(b)' <=> sorted(b)
      BY <1>4 DEF Free, sorted, BlockStart
    <2> QED
      BY <1>2, <1>3, <1>4, <2>1
  <1>5. CASE MapPart
    <2>1. /\ block_map' = [b \in Blocks |-> IF b < threads THEN 1 ELSE 0]
          /\ block' = [t \in Tids |-> t] /\ pc' = [pc EXCEPT ![0] = "create"]
          /\ pc[0] = "part"
      BY <1>5 DEF MapPart, Goto
    <2>2. pc'[0] = "create" /\ \A t \in Tids \ {0} : pc'[t] = "none"
      BY <1>1, <2>1 DEF IInv, MainLabels
    <2>3. \A b \in Blocks : block_map'[b] = 1 => b \in Tids /\ block'[b] = b
      BY <2>1, Constants DEF Tids, Blocks
    <2>4. \A b \in Blocks : block_map'[b] # 2
      BY <2>1
    <2> QED
      BY <1>3, <2>2, <2>3, <2>4
  <1>6. CASE Join \/ Rename
    BY <1>1, <1>6 DEF Join, Rename, Goto
  <1>7. CASE Release
    BY <1>7 DEF Release, AllMerge, MergeLabels
  <1>8. ASSUME NEW t \in Tids, Create(t) \/ Begin PROVE BlocksSorted'
    <2>1. /\ pc[0] = "create" /\ UNCHANGED <<file, part, block_map, block>>
          /\ \A u \in Tids : waits(u) => waits(u)'
          /\ \A u \in Tids : pc'[u] = "sorted" => pc[u] = "sorted"
      BY <1>1, <1>8 DEF Create, Begin, Goto
    <2>2. ~Idle /\ ~AllMerge
      BY <1>1, <2>1 DEF Idle, AllMerge, MergeLabels
    <2> QED
      BY <1>4, <2>1, <2>2
  <1>9. ASSUME NEW p \in Parts, WriteRecord(p) PROVE BlocksSorted'
    BY <1>1, <1>9 DEF WriteRecord, Merging
  <1>10. ASSUME NEW t \in Tids, Merge(t) \/ Copy(t) \/ NoPair(t) \/ Exit(t) PROVE BlocksSorted'
    <2>1. /\ pc[t] \in MergeLabels
          /\ \E label \in MergeLabels : pc' = [pc EXCEPT ![t] = label]
      BY <1>10 DEF Merge, Copy, NoPair, Exit, Goto, MergeLabels
    <2>2. \A u \in Tids : pc[u] \in MergeLabels
      BY <2>1 DEF IInv, SameRound
    <2> QED
      BY <1>1, <2>1, <2>2 DEF AllMerge
  <1>11. ASSUME NEW t \in Tids, NothingFree(t) \/ Claim(t) \/ SortBlock(t)
         PROVE  ~Idle /\ ~AllMerge /\ pc[t] \in {"sort", "claim"}
    BY <1>11, ThreadBusy
       DEF Thread, AllMerge, MergeLabels, NothingFree, Claim, SortBlock, Goto
  <1>12. ASSUME NEW t \in Tids, NothingFree(t) PROVE BlocksSorted'
    <2>1. /\ pc[t] = "claim" /\ pc' = [pc EXCEPT ![t] = "sorted"] /\ Free = {}
          /\ UNCHANGED <<file, part, block_map, block>>
      BY <1>12 DEF NothingFree, Goto
    <2> QED
      BY <1>1, <1>4, <1>11, <1>12, <2>1
  <1>13. ASSUME NEW t \in Tids, Claim(t) PROVE BlocksSorted'
    <2>1. /\ pc[t] = "claim" /\ pc' = [pc EXCEPT ![t] = "sort"] /\ UNCHANGED <<file, part>>
      BY <1>13 DEF Claim, Goto
    <2>2. PICK b \in Blocks : /\ block_map[b] = 0 /\ block' = [block EXCEPT ![t] = b]
                              /\ block_map' = [block_map EXCEPT ![b] = 1]
      BY <1>13 DEF Claim, Free
    <2>3. ~Idle /\ ~AllMerge /\ Free # {}
      BY <1>11, <1>13, <2>2 DEF Free
    <2>4. ASSUME NEW c \in Blocks, block_map'[c] = 2 PROVE sorted(c)'
      <3>1. sorted(c)
        BY <1>1, <1>2, <2>2, <2>3, <2>4
      <3> QED
        BY <2>1, <3>1 DEF sorted, BlockStart
    <2>5. ASSUME NEW c \in Blocks, block_map'[c] = 1
          PROVE  \E u \in Tids : waits(u)' /\ block'[u] = c
      <3>1. CASE c = b
        BY <1>1, <2>1, <2>2, <3>1
      <3>2. CASE c # b
        <4>1. PICK u \in Tids : waits(u) /\ block[u] = c
          BY <1>1, <1>2, <2>2, <2>3, <2>5, <3>2
        <4>2. u # t
          BY <2>1, <4>1
        <4> QED
          BY <1>1, <2>1, <2>2, <4>1, <4>2
      <3> QED
        BY <3>1, <3>2
    <2>6. \A u \in Tids : pc'[u] # "sorted"
      BY <1>1, <1>2, <2>1, <2>3
    <2> QED
      BY <1>3, <2>4, <2>5, <2>6
  <1>14. ASSUME NEW t \in Tids, SortBlock(t) PROVE BlocksSorted'
    <2> DEFINE b == block[t]
    <2>1. /\ pc[t] = "sort" /\ pc' = [pc EXCEPT ![t] = "claim"]
          /\ block_map' = [block_map EXCEPT ![b] = 2] /\ UNCHANGED <<part, block>>
      BY <1>14 DEF SortBlock, Goto
    <2>2. ~Idle /\ ~AllMerge /\ b \in Blocks
      BY <1>1, <1>11, <1>14
    <2>3. /\ Ascending(Slice(file', BlockStart(b), block_records))
          /\ \A c \in Blocks \ {b} : Slice(file', BlockStart(c), block_records)
                                       = Slice(file, BlockStart(c), block_records)
      BY <1>1, <1>14, SortWrites
    <2>4. ASSUME NEW c \in Blocks, block_map'[c] = 2 PROVE sorted(c)'
      <3>1. BlockStart(c)' = BlockStart(c)
        BY <2>1 DEF BlockStart
      <3>2. CASE c = b
        BY <2>3, <3>1, <3>2 DEF sorted
      <3>3. CASE c # b
        <4>1. sorted(c)
          BY <1>1, <1>2, <2>1, <2>2, <2>4, <3>3
        <4> QED
          BY <2>3, <3>1, <3>3, <4>1 DEF sorted
      <3> QED
        BY <3>2, <3>3
    <2>5. ASSUME NEW c \in Blocks, block_map'[c] = 1
          PROVE  \E u \in Tids : waits(u)' /\ block'[u] = c
      <3>1. c # b /\ block_map[c] = 1
        BY <1>1, <2>1, <2>2, <2>5
      <3>2. PICK u \in Tids : waits(u) /\ block[u] = c
        BY <1>2, <2>2, <3>1
      <3> QED
        BY <1>1, <2>1, <3>1, <3>2
    <2>6. ASSUME NEW u \in Tids, pc'[u] = "sorted" PROVE Free' = {}
      <3>1. Free = {}
        BY <1>1, <1>2, <2>1, <2>2, <2>6
      <3>2. Free' \subseteq Free
        BY <1>1, <2>1, <2>2 DEF Free
      <3> QED
        BY <3>1, <3>2
    <2> QED
      BY <1>3, <2>4, <2>5, <2>6
  <1>15. CASE UNCHANGED vars
    <2>1. ~Idle /\ ~AllMerge
      BY <1>15 DEF vars, Idle, AllMerge
    <2> QED
      BY <1>4, <1>15, <2>1 DEF vars
  <1> QED
    BY <1>1, <1>5, <1>6, <1>7, <1>8, <1>9, <1>10, <1>12, <1>13, <1>14, <1>15 DEF Next, Main, Thread

\* A thread that copies its pair of runs back leaves it in order.
LEMMA PairReady ==
  ASSUME IInv, Ranges, Contents, NEW t \in Tids, Copy(t), Paired(2*t+1)
  PROVE  Ascending(Slice(file', PairStart(t), 2 * RunLength(t)))
  <1>1. pc[t] = "copy" /\ Output /\ Buffers /\ RunsReady
    BY DEF Copy, Goto, Contents
  <1>2. /\ ~Idle /\ HasPair(t) /\ AllMerge /\ current_blocks[t] = current_blocks[0]
        /\ Ascending(Slice(file, PairStart(t), RunLength(t)))
             /\ Ascending(Slice(file, PairStart(t) + RunLength(t), RunLength(t)))
             => Ascending(tmp_buf[t])
    BY <1>1, PairMerged
  <1>3. /\ RunLength(t) = RunLength(0)
        /\ 2 * t \in 0..current_blocks[0]-1 /\ 2 * t + 1 \in 0..current_blocks[0]-1
        /\ PairStart(t) = RunStart(2*t) /\ PairStart(t) + RunLength(t) = RunStart(2*t+1)
    BY <1>2, PairInFile
  <1>4. Paired(2*t)
    <2> DEFINE m == blocks \div current_blocks[0]
    <2>1. m \in Nat /\ t \in Nat /\ threads \in Nat
      BY Constants, RunFacts
    <2>2. current_blocks[0] = blocks \/ (2*t+1+1) * m <= 2 * threads
      BY DEF Paired
    <2> HIDE DEF m
    <2>3. (2*t+1+1) * m = (2*t+1) * m + m /\ (2*t+1) * m \in Nat
      BY <2>1
    <2>4. current_blocks[0] = blocks \/ (2*t+1) * m <= 2 * threads
      BY <2>1, <2>2, <2>3
    <2> QED
      BY <2>4 DEF Paired, m
  <1>5. \A r \in {2*t, 2*t+1} : \A u \in Tids : r \in {2*u, 2*u+1} => u = t
    BY Constants
  <1>6. \A r \in {2*t, 2*t+1} : Ascending(Slice(file, RunStart(r), RunLength(0)))
    <2> SUFFICES ASSUME NEW r \in {2*t, 2*t+1}
                 PROVE  Ascending(Slice(file, RunStart(r), RunLength(0)))
      OBVIOUS
    <2>1. r \in 0..current_blocks[0]-1 /\ Paired(r)
      BY <1>3, <1>4
    <2>2. \A u \in Tids : r \in {2*u, 2*u+1} => pc[u] \in {"merge", "copy"}
      BY <1>1, <1>5
    <2> QED
      BY <1>1, <1>2, <2>1, <2>2 DEF RunsReady
  <1>7. Ascending(tmp_buf[t])
    BY <1>2, <1>3, <1>6
  <1> QED
    BY <1>1, <1>7, CopyWrites

LEMMA PairsNext == IInv /\ Ranges /\ Contents /\ [Next]_vars => PairsDone'
  <1> SUFFICES ASSUME IInv, Ranges, Contents, [Next]_vars PROVE PairsDone'
    OBVIOUS
  <1> DEFINE due(t) == pc[t] = "merged" /\ HasPair(t) /\ Paired(2*t+1)
  <1> DEFINE done(t) == Ascending(Slice(file, PairStart(t), 2 * RunLength(t)))
  <1>1. /\ Output /\ Buffers /\ 0 \in Tids /\ pc \in [Tids -> SortLabels \cup MergeLabels]
    BY Constants DEF Contents, IInv, Shapes
  <1>2. \A t \in Tids : due(t) => done(t)
    BY DEF Contents, PairsDone
  <1>3. ASSUME UNCHANGED <<part, current_blocks>>, NEW t \in Tids
        PROVE  /\ RunLength(t)' = RunLength(t) /\ PairStart(t)' = PairStart(t)
               /\ HasPair(t)' = HasPair(t) /\ Paired(2*t+1)' = Paired(2*t+1)
    BY <1>3 DEF RunLength, PairStart, HasPair, Paired
  <1>4. ASSUME UNCHANGED <<part, current_blocks, file>>,
               \A t \in Tids : pc'[t] = "merged" => pc[t] = "merged" \/ ~HasPair(t)
        PROVE  PairsDone'
    BY <1>2, <1>3, <1>4 DEF PairsDone
  <1>5. ASSUME \A t \in Tids : pc'[t] # "merged" PROVE PairsDone'
    BY <1>5 DEF PairsDone
  <1>6. CASE MapPart \/ Rename
    <2>1. \A t \in Tids : pc'[t] # "merged"
      BY <1>1, <1>6 DEF MapPart, Rename, Goto, IInv, MainLabels
    <2> QED
      BY <1>5, <2>1
  <1>7. CASE Join \/ Release
    BY <1>5, <1>7 DEF Join, Release
  <1>8. ASSUME NEW t \in Tids, Create(t) \/ Begin PROVE PairsDone'
    BY <1>1, <1>4, <1>8 DEF Create, Begin, Goto
  <1>9. ASSUME NEW p \in Parts, WriteRecord(p) PROVE PairsDone'
    BY <1>4, <1>9 DEF WriteRecord
  <1>10. ASSUME NEW t \in Tids,
                NothingFree(t) \/ Claim(t) \/ Merge(t) \/ NoPair(t) \/ Exit(t)
         PROVE  PairsDone'
    BY <1>1, <1>4, <1>10 DEF NothingFree, Claim, Merge, NoPair, Exit, Goto
  <1>11. ASSUME NEW t \in Tids, SortBlock(t) PROVE PairsDone'
    <2>1. \A u \in Tids : pc'[u] # "merged"
      BY <1>1, <1>11 DEF SortBlock, Goto, IInv, SameRound, MergeLabels
    <2> QED
      BY <1>5, <2>1
  <1>12. ASSUME NEW t \in Tids, Copy(t) PROVE PairsDone'
    <2>1. /\ UNCHANGED <<part, current_blocks>> /\ pc' = [pc EXCEPT ![t] = "merged"]
          /\ pc[t] = "copy"
      BY <1>12 DEF Copy, Goto
    <2>2. ASSUME NEW u \in Tids \ {t}, pc[u] = "merged", HasPair(u), done(u) PROVE done(u)'
      <3> DEFINE start == PairStart(u)
      <3> DEFINE l == RunLength(u)
      <3>1. ~Idle /\ current_blocks[u] = current_blocks[0] /\ u \in Nat /\ t \in Nat /\ u # t
        BY <1>1, <1>12, <2>2, Constants, ThreadBusy DEF IInv, SameRound, MergeLabels, Thread
      <3>2. /\ l = RunLength(0) /\ l \in Nat
            /\ 2*u \in 0..current_blocks[0]-1 /\ 2*u+1 \in 0..current_blocks[0]-1
            /\ start = RunStart(2*u) /\ start + l = RunStart(2*u+1)
            /\ start \in Int /\ start..start + 2*l - 1 \subseteq Positions
        BY <2>2, <3>1, PairInFile
      <3>3. 2*u \notin {2*t, 2*t+1} /\ 2*u+1 \notin {2*t, 2*t+1}
        BY <3>1
      <3>4. /\ file' \in [Positions -> Int] /\ file \in [Positions -> Int]
            /\ \A r \in {2*u, 2*u+1} : Slice(file', RunStart(r), RunLength(0))
                                         = Slice(file, RunStart(r), RunLength(0))
        BY <1>1, <1>12, <3>2, <3>3, CopyWrites DEF Output
      <3>5. /\ Slice(file', start, l) = Slice(file, start, l)
            /\ Slice(file', start + l, l) = Slice(file, start + l, l)
        BY <3>2, <3>4
      <3> HIDE DEF start, l
      <3>6. /\ Slice(file, start, l) \o Slice(file, start + l, l) = Slice(file, start, 2*l)
            /\ Slice(file', start, l) \o Slice(file', start + l, l) = Slice(file', start, 2*l)
        BY <3>2, <3>4, SliceHalves
      <3>7. Slice(file', start, 2*l) = Slice(file, start, 2*l)
        BY <3>5, <3>6
      <3> QED
        BY <1>3, <2>1, <2>2, <3>7 DEF start, l
    <2>3. ASSUME Paired(2*t+1) PROVE done(t)'
      BY <1>3, <1>12, <2>1, <2>3, PairReady
    <2>4. ASSUME NEW u \in Tids, due(u)' PROVE done(u)'
      <3>1. HasPair(u) /\ Paired(2*u+1)
        BY <1>3, <2>1, <2>4
      <3>2. CASE u = t
        BY <2>3, <3>1, <3>2
      <3>3. CASE u # t
        <4>1. pc[u] = "merged"
          BY <1>1, <2>1, <2>4, <3>3
        <4>2. done(u)
          BY <1>2, <3>1, <4>1
        <4> QED
          BY <2>2, <3>1, <3>3, <4>1, <4>2
      <3> QED
        BY <3>2, <3>3
    <2> QED
      BY <2>4 DEF PairsDone
  <1>13. CASE UNCHANGED vars
    BY <1>4, <1>13 DEF vars
  <1> QED
    BY <1>1, <1>6, <1>7, <1>8, <1>9, <1>10, <1>11, <1>12, <1>13 DEF Next, Main, Thread

\* The first round starts with the blocks, all of them in order.
LEMMA FirstRelease ==
  ASSUME IInv, Ranges, Contents, Release, NEW t \in Tids, pc[t] = "sorted",
         NEW r \in 0..current_blocks'[0]-1
  PROVE  Ascending(Slice(file', RunStart(r)', RunLength(0)'))
  <1>1. /\ \A u \in Tids : pc[u] \in {"sorted", "merged"}
        /\ current_blocks'[0] = IF pc[0] = "merged" THEN (current_blocks[0] + 1) \div 2
                                ELSE current_blocks[0]
        /\ UNCHANGED <<file, part>> /\ 0 \in Tids
    BY Constants DEF Release, AtBarrier
  <1>2. \A u \in Tids : pc[u] = "sorted"
    BY <1>1 DEF IInv, SameRound, MergeLabels
  <1>3. ~Idle /\ ~AllMerge
    BY <1>1, <1>2 DEF Idle, AllMerge, MergeLabels
  <1>4. current_blocks[0] = blocks
    BY <1>1, <1>2 DEF IInv, FirstRound, SortLabels
  <1>5. current_blocks'[0] = blocks
    BY <1>1, <1>2, <1>4
  <1>6. \A b \in Blocks : Ascending(Slice(file, BlockStart(b), block_records))
    <2>1. Free = {} /\ \A b \in Blocks : block_map[b] # 1
      BY <1>1, <1>2, <1>3 DEF Contents, BlocksSorted
    <2>2. \A b \in Blocks : block_map[b] = 2
      <3>1. \A b \in Blocks : block_map[b] \in 0..2 /\ block_map[b] # 0
        BY <2>1 DEF Free, IInv, Shapes
      <3> QED
        BY <2>1, <3>1
    <2> QED
      BY <1>3, <2>2 DEF Contents, BlocksSorted
  <1>7. RunLength(0)' = block_records
    <2>1. (1 * blocks) \div blocks = 1
      BY Constants, Exact
    <2>2. blocks \div blocks = 1
      <3>1. 1 * blocks = blocks
        BY Constants
      <3> QED
        BY <2>1, <3>1
    <2> QED
      BY <1>5, <2>2, BlocksFit DEF RunLength, block_records
  <1>8. RunStart(r)' = BlockStart(r) /\ r \in Blocks
    BY <1>1, <1>5, <1>7 DEF RunStart, BlockStart, Blocks
  <1> QED
    BY <1>1, <1>6, <1>7, <1>8

\* Each later round starts with the pairs of the round before, those in order that
\* a thread has merged.
LEMMA NextRelease ==
  ASSUME IInv, Ranges, Contents, Release, NEW t \in Tids, pc[t] = "merged",
         NEW r \in 0..current_blocks'[0]-1, Paired(r)'
  PROVE  Ascending(Slice(file', RunStart(r)', RunLength(0)'))
  <1> DEFINE c == current_blocks[0]
  <1> DEFINE h == c \div 2
  <1>1. /\ \A u \in Tids : pc[u] \in {"sorted", "merged"}
        /\ current_blocks'[0] = IF pc[0] = "merged" THEN (c + 1) \div 2 ELSE c
        /\ UNCHANGED <<file, part>> /\ 0 \in Tids
    BY Constants DEF Release, AtBarrier
  <1>2. \A u \in Tids : pc[u] = "merged" /\ current_blocks[u] = c
    BY <1>1 DEF IInv, SameRound, MergeLabels
  <1>3. c \in 2..blocks
    <2>1. c \in 1..blocks /\ c > 1 /\ blocks \in Nat
      BY <1>1, <1>2, Constants DEF IInv, Shapes, Ranges, Rounds
    <2> QED
      BY <2>1
  <1>4. PICK m \in 1..blocks :
          m * c = blocks /\ blocks \div c = m /\ RunLength(0) = block_records * m
    BY <1>1, RunFacts
  <1>5. current_blocks'[0] = h /\ 2 * h = c /\ 2 * m \in 1..blocks /\ (2 * m) * h = blocks
    <2> HIDE DEF c
    <2>1. /\ (c + 1) \div 2 = c \div 2 /\ 2 * (c \div 2) = c
          /\ 2 * m \in 1..blocks /\ (2 * m) * (c \div 2) = blocks
      BY <1>3, <1>4, NextRound
    <2> QED
      BY <1>1, <1>2, <2>1
  <1>6. h \in Nat \ {0} /\ h # blocks /\ blocks \in Nat /\ r \in Nat /\ r < h
    <2>1. h \in Int /\ 2 * h = c /\ c >= 2 /\ c <= blocks /\ blocks \in Nat
          /\ r \in 0..h-1
      BY <1>3, <1>5, Constants
    <2> HIDE DEF h, c
    <2> QED
      BY <2>1
  <1>7. blocks \div h = 2 * m
    <2> HIDE DEF h
    <2>1. ((2 * m) * h) \div h = 2 * m
      <3>1. 2 * m \in Nat
        BY <1>5
      <3> QED
        BY <1>6, <3>1, Exact
    <2> QED
      BY <1>5, <2>1
  <1> HIDE DEF h, c
  <1>8. RunLength(0)' = 2 * RunLength(0) /\ RunLength(0) \in Nat
    <2>1. RunLength(0)' = block_records * (2 * m)
      BY <1>5, <1>7 DEF RunLength, block_records
    <2>2. block_records * (2 * m) = 2 * (block_records * m)
      BY BlocksFit
    <2> QED
      BY <1>1, <1>4, <2>1, <2>2, RunFacts
  <1>9. (r + 1) * (2 * m) <= 2 * threads
    BY <1>5, <1>6, <1>7 DEF Paired
  <1>10. r \in Tids
    <2>1. 2 * (r + 1) <= (r + 1) * (2 * m)
      <3>1. PICK k \in Nat : m = k + 1
        <4>1. m - 1 \in Nat /\ m = (m - 1) + 1
          OBVIOUS
        <4> QED
          BY <4>1
      <3>2. (r + 1) * (2 * (k + 1)) = 2 * (r + 1) + 2 * ((r + 1) * k) /\ (r + 1) * k \in Nat
        BY <1>6
      <3> QED
        BY <1>6, <3>1, <3>2
    <2> DEFINE x == (r + 1) * (2 * m)
    <2>2. x \in Int /\ 2 * (r + 1) <= x /\ x <= 2 * threads
      BY <1>6, <1>9, <2>1
    <2> HIDE DEF x
    <2> QED
      BY <1>6, <2>2, Constants DEF Tids
  <1>11. HasPair(r) /\ pc[r] = "merged"
    BY <1>2, <1>3, <1>6, <1>10 DEF HasPair, h
  <1>12. Paired(2*r+1)
    <2>1. (2*r+1+1) * m = (r + 1) * (2 * m)
      BY <1>6
    <2> QED
      BY <1>4, <1>9, <2>1 DEF Paired, c
  <1>13. Ascending(Slice(file, PairStart(r), 2 * RunLength(r)))
    BY <1>10, <1>11, <1>12 DEF Contents, PairsDone
  <1>14. RunLength(r) = RunLength(0)
    BY <1>2, <1>10 DEF RunLength, c
  <1>15. RunStart(r)' = PairStart(r)
    <2>1. RunStart(r)' = part * records_per_part + r * (2 * RunLength(0))
      BY <1>1, <1>8 DEF RunStart
    <2> DEFINE l == RunLength(0)
    <2>2. PairStart(r) = part * records_per_part + 2 * r * l /\ l \in Nat
      BY <1>8, <1>14 DEF PairStart
    <2> HIDE DEF l
    <2>3. r * (2 * l) = 2 * r * l
      BY <1>6, <2>2
    <2> QED
      BY <2>1, <2>2, <2>3 DEF l
  <1> QED
    BY <1>1, <1>8, <1>13, <1>14, <1>15

LEMMA RunsNext == IInv /\ Ranges /\ Contents /\ [Next]_vars => RunsReady'
  <1> SUFFICES ASSUME IInv, Ranges, Contents, [Next]_vars, AllMerge' PROVE RunsReady'
    BY DEF RunsReady
  <1> DEFINE busy(r) == \A t \in Tids : r \in {2*t, 2*t+1} => pc[t] \in {"merge", "copy"}
  <1> DEFINE ready(r) == Ascending(Slice(file, RunStart(r), RunLength(0)))
  <1>1. /\ Output /\ Buffers /\ RunsReady /\ 0 \in Tids
        /\ pc \in [Tids -> SortLabels \cup MergeLabels]
        /\ \A t \in Tids : pc'[t] \in MergeLabels
    BY Constants DEF Contents, IInv, Shapes, AllMerge
  <1>2. ASSUME UNCHANGED <<part, current_blocks>>, NEW r
        PROVE  /\ RunLength(0)' = RunLength(0) /\ RunStart(r)' = RunStart(r)
               /\ Paired(r)' = Paired(r)
    BY <1>2 DEF RunLength, RunStart, Paired
  <1>3. ASSUME UNCHANGED <<part, current_blocks, file>>, AllMerge,
               \A t \in Tids : pc'[t] \in {"merge", "copy"} => pc[t] \in {"merge", "copy"}
        PROVE  RunsReady'
    <2> SUFFICES ASSUME NEW r \in 0..current_blocks[0]-1, Paired(r), busy(r)'
                 PROVE  ready(r)'
      BY <1>2, <1>3 DEF RunsReady
    <2>1. busy(r)
      BY <1>3
    <2>2. ready(r)
      BY <1>1, <1>3, <2>1 DEF RunsReady
    <2> QED
      BY <1>2, <1>3, <2>2
  <1>4. CASE Release
    <2> SUFFICES ASSUME NEW r \in 0..current_blocks'[0]-1, Paired(r)' PROVE ready(r)'
      BY DEF RunsReady
    <2>1. pc[0] \in {"sorted", "merged"}
      BY <1>1, <1>4 DEF Release, AtBarrier
    <2> QED
      BY <1>1, <1>4, <2>1, FirstRelease, NextRelease
  <1>5. CASE MapPart \/ Begin \/ Join \/ Rename
    BY <1>1, <1>5 DEF MapPart, Begin, Join, Rename, Goto, MergeLabels
  <1>6. ASSUME NEW t \in Tids, Create(t) \/ NothingFree(t) \/ Claim(t) \/ SortBlock(t)
        PROVE  FALSE
    BY <1>1, <1>6 DEF Create, NothingFree, Claim, SortBlock, Goto, MergeLabels
  <1>7. ASSUME NEW p \in Parts, WriteRecord(p) PROVE FALSE
    BY <1>1, <1>7 DEF WriteRecord, Merging, MergeLabels
  <1>8. ASSUME NEW t \in Tids, Merge(t) \/ NoPair(t) \/ Exit(t) PROVE RunsReady'
    <2>1. pc[t] \in MergeLabels
      BY <1>8 DEF Merge, NoPair, Exit, Goto, MergeLabels
    <2>2. AllMerge
      BY <2>1 DEF AllMerge, IInv, SameRound
    <2> QED
      BY <1>1, <1>3, <1>8, <2>2 DEF Merge, NoPair, Exit, Goto
  <1>9. ASSUME NEW t \in Tids, Copy(t) PROVE RunsReady'
    <2>1. /\ UNCHANGED <<part, current_blocks>> /\ pc' = [pc EXCEPT ![t] = "merged"]
          /\ pc[t] = "copy"
      BY <1>9 DEF Copy, Goto
    <2> SUFFICES ASSUME NEW r \in 0..current_blocks[0]-1, Paired(r), busy(r)'
                 PROVE  ready(r)'
      BY <1>2, <2>1 DEF RunsReady
    <2>2. r \notin {2*t, 2*t+1} /\ busy(r)
      BY <1>1, <2>1
    <2>3. AllMerge
      BY <2>1 DEF AllMerge, IInv, SameRound, MergeLabels
    <2>4. ready(r)
      BY <1>1, <2>2, <2>3 DEF RunsReady
    <2>5. Slice(file', RunStart(r), RunLength(0)) = Slice(file, RunStart(r), RunLength(0))
      BY <1>1, <1>9, <2>2, CopyWrites
    <2> QED
      BY <1>2, <2>1, <2>4, <2>5
  <1>10. CASE UNCHANGED vars
    BY <1>1, <1>3, <1>10 DEF vars, AllMerge
  <1> QED
    BY <1>4, <1>5, <1>6, <1>7, <1>8, <1>9, <1>10 DEF Next, Main, Thread

(***************************************************************************)
(* The theorems.                                                           *)
(***************************************************************************)
LEMMA ContentsHold == FairSpec => [](IInv /\ Ranges /\ Contents)
  <1>1. Init => IInv /\ Ranges /\ Contents
    BY InitInv, RangesInit, ContentsInit
  <1>2. IInv /\ Ranges /\ Contents /\ [Next]_vars => (IInv /\ Ranges /\ Contents)'
    <2> SUFFICES ASSUME IInv, Ranges, Contents, [Next]_vars PROVE (IInv /\ Ranges /\ Contents)'
      OBVIOUS
    <2>1. Contents'
      BY OutputNext, BuffersNext, BlocksNext, RunsNext, PairsNext DEF Contents
    <2> QED
      BY <2>1, NextInv, RangesNext
  <1> QED
    BY <1>1, <1>2, PTL DEF FairSpec

\* When a round of merging starts, all blocks are sorted (first round), or all runs
\* are that the threads have paired in the rounds before, for any number of threads
\* and blocks and for any file (Lab6/sort_index.c:62 to 110).
THEOREM RunsHold == FairSpec => []RunsSorted
  <1>1. IInv /\ Ranges /\ Contents => RunsSorted
    <2> SUFFICES ASSUME IInv, Ranges, Contents,
                        \A t \in Tids : pc[t] \in {"merge", "copy"},
                        NEW r \in 0..current_blocks[0]-1,
                        ~((r + 1) * (blocks \div current_blocks[0]) > 2 * threads
                            /\ current_blocks[0] # blocks)
                 PROVE  Ascending(Slice(file, RunStart(r), RunLength(0)))
      BY DEF RunsSorted, RunStart
    <2>1. AllMerge
      BY DEF AllMerge, MergeLabels
    <2>2. Paired(r)
      <3>1. 0 \in Tids
        BY Constants
      <3>2. PICK m \in 1..blocks : blocks \div current_blocks[0] = m
        BY <3>1, RunFacts
      <3>3. (r + 1) * m \in Int /\ threads \in Int
        BY Constants DEF IInv, Shapes
      <3> QED
        BY <3>2, <3>3 DEF Paired
    <2> QED
      BY <2>1, <2>2 DEF Contents, RunsReady
  <1> QED
    BY <1>1, ContentsHold, PTL

\* Sorting, merging, copying back and renaming keep every record of the file, each
\* as often as it was there (Lab6/sort_index.c:24 to 160).
THEOREM RecordsHold == FairSpec => NothingLost
  <1>1. IInv /\ Ranges /\ Contents /\ [Next]_vars => [file' # file => SameRecords(file, file')]_vars
    BY FileSame DEF Contents
  <1> QED
    BY <1>1, ContentsHold, PTL DEF FairSpec, NothingLost

\* The types of the state of sort_index.
THEOREM TypeHolds == FairSpec => []TypeOK
  <1>1. IInv /\ Ranges /\ Contents => TypeOK
    BY DEF IInv, Shapes, Ranges, PartInFile, Contents, Output, Buffers, TypeOK,
           Labels, SortLabels, MergeLabels
  <1> QED
    BY <1>1, ContentsHold, PTL

(***************************************************************************)
(* What merge_parts makes of parts that are in order.                      *)
(***************************************************************************)
PartsSorted == \A p \in Parts : Ascending(Slice(file, p * records_per_part, records_per_part))

\* The output is in order, and not above any record still to be read.
OutSorted ==
  pc[0] = "part" /\ PartsSorted =>
    Ascending(out) /\ \A p \in Active : \A k \in 1..Len(out) : out[k] <= Current(p)

LEMMA PartOrder ==
  ASSUME PartsSorted, file \in [Positions -> Int], NEW p \in Parts,
         NEW q \in 0..records_per_part-1, q + 1 < records_per_part
  PROVE  file[p * records_per_part + q] <= file[p * records_per_part + (q + 1)]
  <1> DEFINE n == records_per_part
  <1> DEFINE start == p * n
  <1>1. n \in Nat /\ start \in Nat
    BY Constants DEF Parts
  <1>2. start..start+n-1 \subseteq Positions
    <2>1. \A i \in start..start+n-1 : i - start \in 0..n-1 /\ i = start + (i - start)
      <3> HIDE DEF start, n
      <3> QED
        BY <1>1
    <2>2. \A r \in 0..n-1 : start + r \in Positions
      BY PlaceInPart
    <2> HIDE DEF start, n
    <2> QED
      BY <2>1, <2>2
  <1> HIDE DEF start
  <1>3. Len(Slice(file, start, n)) = n
    BY <1>1, <1>2, SliceFacts
  <1>4. q + 1 \in 1..n /\ q + 2 \in 1..n /\ q + 1 <= q + 2
    BY <1>1
  <1>5. Slice(file, start, n)[q+1] <= Slice(file, start, n)[q+2]
    BY <1>3, <1>4 DEF PartsSorted, Ascending, start
  <1>6. start + (q + 1) - 1 = start + q /\ start + (q + 2) - 1 = start + (q + 1)
    BY <1>1
  <1>7. Slice(file, start, n)[q+1] = file[start+q] /\ Slice(file, start, n)[q+2] = file[start+(q+1)]
    BY <1>4, <1>6 DEF Slice
  <1> QED
    BY <1>5, <1>7 DEF start

LEMMA OutSortedNext == IInv /\ Ranges /\ Contents /\ OutSorted /\ [Next]_vars => OutSorted'
  <1> SUFFICES ASSUME IInv, Ranges, Contents, OutSorted, [Next]_vars, pc'[0] = "part", PartsSorted'
               PROVE  (Ascending(out) /\ \A p \in Active : \A k \in 1..Len(out) :
                         out[k] <= Current(p))'
    BY DEF OutSorted
  <1>1. /\ Output /\ 0 \in Tids /\ pc \in [Tids -> SortLabels \cup MergeLabels]
        /\ file \in [Positions -> Int] /\ out \in Seq(Int)
        /\ pos \in [Parts -> 0..records_per_part] /\ records_per_part \in Nat
    BY Constants DEF Contents, Output, IInv, Shapes
  <1>2. CASE Join
    <2>1. pc[0] = "exited" /\ out' = out
      BY <1>1, <1>2 DEF Join
    <2>2. out' = << >> /\ Len(out') = 0
      BY <1>1, <2>1 DEF Output, Idle
    <2> QED
      BY <2>2 DEF Ascending
  <1>3. ASSUME NEW p \in Parts, WriteRecord(p)
        PROVE  (Ascending(out) /\ \A q \in Active : \A k \in 1..Len(out) : out[k] <= Current(q))'
    <2> DEFINE x == Current(p)
    <2> DEFINE n == Len(out)
    <2>1. /\ pc[0] = "part" /\ p \in Active /\ Least(p) /\ out' = Append(out, x)
          /\ pos' = [pos EXCEPT ![p] = @ + 1] /\ UNCHANGED file
      BY <1>3 DEF WriteRecord, Merging
    <2>2. PartsSorted
      BY <2>1 DEF PartsSorted
    <2>3. Ascending(out) /\ \A q \in Active : \A k \in 1..n : out[k] <= Current(q)
      BY <2>1, <2>2 DEF OutSorted
    <2>4. \A q \in Active : q \in Parts /\ pos[q] \in 0..records_per_part-1 /\ Current(q) \in Int
      <3>1. \A q \in Active : q \in Parts /\ pos[q] \in 0..records_per_part-1
        BY <1>1 DEF Active
      <3> QED
        BY <1>1, <3>1, PlaceInPart DEF Current
    <2>5. \A q \in Active : x <= Current(q)
      BY <2>1, <2>4 DEF Least
    <2>6. \A q \in Active' : q \in Active /\ Current(q) <= Current(q)'
      <3> SUFFICES ASSUME NEW q \in Active' PROVE q \in Active /\ Current(q) <= Current(q)'
        OBVIOUS
      <3>1. q \in Parts /\ pos'[q] < records_per_part
        BY DEF Active
      <3>2. CASE q = p
        <4>1. pos'[q] = pos[p] + 1 /\ pos[p] \in 0..records_per_part-1
          BY <1>1, <2>1, <2>4, <3>2
        <4>2. Current(q) <= file[p * records_per_part + (pos[p] + 1)]
          BY <1>1, <2>2, <3>1, <3>2, <4>1, PartOrder DEF Current
        <4> QED
          BY <2>1, <3>2, <4>1, <4>2 DEF Current
      <3>3. CASE q # p
        <4>1. pos'[q] = pos[q]
          BY <1>1, <2>1, <3>1, <3>3
        <4>2. q \in Active /\ Current(q)' = Current(q)
          BY <2>1, <3>1, <4>1 DEF Active, Current
        <4> QED
          BY <2>4, <4>2
      <3> QED
        BY <3>2, <3>3
    <2> HIDE DEF x
    <2>7. x \in Int
      BY <2>1, <2>4 DEF x
    <2>8. /\ Len(out') = n + 1 /\ out'[n+1] = x /\ n \in Nat
          /\ \A k \in 1..n : out'[k] = out[k] /\ out[k] \in Int
      BY <1>1, <2>1, <2>7
    <2>9. \A k \in 1..n+1 : out'[k] \in Int /\ out'[k] <= x
      BY <2>1, <2>3, <2>7, <2>8 DEF x
    <2>10. Ascending(out')
      <3> SUFFICES ASSUME NEW i \in 1..n+1, NEW j \in 1..n+1, i <= j PROVE out'[i] <= out'[j]
        BY <2>8 DEF Ascending
      <3>1. CASE j = n + 1
        BY <2>8, <2>9, <3>1
      <3>2. CASE j # n + 1
        <4>1. i \in 1..n /\ j \in 1..n
          BY <2>8, <3>2
        <4> QED
          BY <2>3, <2>8, <4>1 DEF Ascending
      <3> QED
        BY <3>1, <3>2
    <2>11. \A q \in Active' : Current(q)' \in Int
      <3>1. \A q \in Active' : q \in Parts /\ pos'[q] \in 0..records_per_part-1
        <4>1. pos' \in [Parts -> 0..records_per_part]
          BY <1>1, <1>3, WriteRecordOutput DEF Output
        <4> QED
          BY <1>1, <4>1 DEF Active
      <3> QED
        BY <1>1, <2>1, <3>1, PlaceInPart DEF Current
    <2>12. ASSUME NEW q \in Active', NEW k \in 1..n+1 PROVE out'[k] <= Current(q)'
      <3>1. out'[k] <= x /\ x <= Current(q) /\ Current(q) <= Current(q)'
        BY <2>5, <2>6, <2>9
      <3> QED
        BY <2>4, <2>6, <2>7, <2>9, <2>11, <3>1
    <2> QED
      BY <2>8, <2>10, <2>12
  <1>4. CASE UNCHANGED vars
    <2>1. UNCHANGED <<file, out, pos, pc>>
      BY <1>4 DEF vars
    <2>2. PartsSorted
      BY <2>1 DEF PartsSorted
    <2>3. Ascending(out) /\ \A p \in Active : \A k \in 1..Len(out) : out[k] <= Current(p)
      BY <2>1, <2>2 DEF OutSorted
    <2>4. Active' = Active /\ \A p \in Active : Current(p)' = Current(p)
      BY <2>1 DEF Active, Current
    <2> QED
      BY <2>1, <2>3, <2>4
  <1>5. ASSUME NEW t \in Tids, Thread(t) \/ Create(t) PROVE FALSE
    BY <1>1, <1>5, ThreadBusy DEF Create, Idle
  <1>6. CASE MapPart \/ Begin \/ Rename \/ Release
    BY <1>1, <1>6 DEF MapPart, Begin, Rename, Release, Goto
  <1> QED
    BY <1>2, <1>3, <1>4, <1>5, <1>6 DEF Next, Main

\* merge_parts does its part: if the parts it reads are in order, the file it
\* renames into place is (Lab6/sort_index.c:113 to 164).
PartsMerge == [][Rename /\ PartsSorted => FileSorted']_vars

\* So a result that is not in order can only come from the rounds of merging.
THEOREM PartsMergeHolds == FairSpec => PartsMerge
  <1>1. Init => OutSorted
    <2> SUFFICES ASSUME Init PROVE OutSorted
      OBVIOUS
    <2>1. out = << >> /\ Len(out) = 0
      BY DEF Init
    <2> QED
      BY <2>1 DEF OutSorted, Ascending
  <1>2. FairSpec => []OutSorted
    BY <1>1, OutSortedNext, ContentsHold, PTL DEF FairSpec
  <1>3. IInv /\ Ranges /\ Contents /\ OutSorted => [Rename /\ PartsSorted => FileSorted']_vars
    <2> SUFFICES ASSUME IInv, Contents, OutSorted, Rename, PartsSorted PROVE FileSorted'
      OBVIOUS
    <2> DEFINE n == Len(out)
    <2>1. /\ pc[0] = "part" /\ file' = [i \in Positions |-> out[i+1]]
          /\ Output /\ n \in Nat
      BY DEF Rename, Merging, Goto, Contents, Output
    <2>2. n = Cardinality(Positions)
      BY <2>1, OutFull
    <2>3. Ascending(out)
      BY <2>1 DEF OutSorted
    <2>4. n = num_parts * records_per_part /\ Positions = 0..n-1
      <3> DEFINE size == num_parts * records_per_part
      <3>1. size \in Nat /\ Positions = 0..size-1
        BY Constants DEF Positions
      <3> HIDE DEF size
      <3>2. Cardinality(Positions) = size
        BY <3>1, FS_Interval
      <3> QED
        BY <2>2, <3>1, <3>2 DEF size
    <2> HIDE DEF n
    <2> DEFINE s == [i \in 1..n |-> file'[i-1]]
    <2>5. \A i \in 1..n : s[i] = out[i]
      <3> SUFFICES ASSUME NEW i \in 1..n PROVE file'[i-1] = out[i]
        OBVIOUS
      <3>1. i - 1 \in Positions /\ (i - 1) + 1 = i
        BY <2>1, <2>4
      <3> QED
        BY <2>1, <3>1
    <2>6. Len(s) = n
      BY <2>1
    <2> HIDE DEF s
    <2>7. Ascending(s)
      BY <2>3, <2>5, <2>6 DEF Ascending, n
    <2> QED
      BY <2>2, <2>7 DEF FileSorted, s
  <1> QED
    BY <1>2, <1>3, ContentsHold, PTL DEF FairSpec, PartsMerge

(***************************************************************************)
(* Nobody waits for nothing: the barrier, pthread_join and merge_parts.    *)
(***************************************************************************)
\* Nobody starts before all have been created, and who has ended has merged last.
Created == pc[0] \notin {"part", "create", "done"} => \A t \in Tids : pc[t] # "none"

LastRound == \A t \in Tids : pc[t] = "exited" => current_blocks[t] <= 1

LEMMA CreatedNext == IInv /\ Created /\ [Next]_vars => Created'
  <1> SUFFICES ASSUME IInv, Created, [Next]_vars, pc'[0] \notin {"part", "create", "done"},
                      NEW t \in Tids
               PROVE  pc'[t] # "none"
    BY DEF Created
  <1>1. 0 \in Tids /\ pc \in [Tids -> SortLabels \cup MergeLabels]
    BY Constants DEF IInv, Shapes
  <1>2. CASE Begin
    BY <1>1, <1>2 DEF Begin, Goto
  <1>3. CASE pc[0] \notin {"part", "create", "done"}
    <2>1. pc[t] # "none"
      BY <1>3 DEF Created
    <2>2. CASE pc' = pc
      BY <2>1, <2>2
    <2>3. CASE \E u \in Tids, label \in SortLabels \cup MergeLabels :
                  label # "none" /\ pc' = [pc EXCEPT ![u] = label]
      BY <1>1, <2>1, <2>3
    <2>4. CASE Release
      BY <2>4 DEF Release
    <2>5. ~Join /\ ~MapPart /\ ~Begin /\ ~Rename
      BY <1>1, <1>3 DEF Join, MapPart, Begin, Rename, Merging, Goto
    <2> QED
      BY <1>1, <2>2, <2>3, <2>4, <2>5
         DEF Next, Main, Thread, Create, WriteRecord, SortBlock, Claim, NothingFree, Merge, Copy,
             NoPair, Exit, Goto, vars, SortLabels, MergeLabels
  <1>4. CASE pc[0] \in {"part", "create", "done"} /\ ~Begin
    <2>1. pc'[0] \in {"part", "create", "done"}
      BY <1>1, <1>4
         DEF Next, Main, Thread, MapPart, Join, Rename, Create, Release, AtBarrier, WriteRecord,
             SortBlock, Claim, NothingFree, Merge, Copy, NoPair, Exit, Goto, vars
    <2> QED
      BY <2>1
  <1> QED
    BY <1>2, <1>3, <1>4

LEMMA LastRoundNext == IInv /\ LastRound /\ [Next]_vars => LastRound'
  <1> SUFFICES ASSUME IInv, LastRound, [Next]_vars, NEW t \in Tids, pc'[t] = "exited"
               PROVE  current_blocks'[t] <= 1
    BY DEF LastRound
  <1>1. 0 \in Tids /\ pc \in [Tids -> SortLabels \cup MergeLabels]
    BY Constants DEF IInv, Shapes
  <1>2. ~MapPart /\ ~Release /\ ~Join
    BY <1>1 DEF MapPart, Release, Join, Goto, IInv, MainLabels
  <1>3. current_blocks' = current_blocks
    BY <1>2 DEF Next, Main, Thread, Begin, Rename, Create, WriteRecord, SortBlock, Claim,
                NothingFree, Merge, Copy, NoPair, Exit, vars
  <1>4. CASE pc[t] = "exited"
    BY <1>3, <1>4 DEF LastRound
  <1>5. CASE pc[t] # "exited"
    <2>1. Exit(t)
      BY <1>1, <1>2, <1>5 DEF Next, Main, Thread, Begin, Rename, Create, WriteRecord, SortBlock,
                              Claim, NothingFree, Merge, Copy, NoPair, Exit, Goto, vars
    <2> QED
      BY <1>3, <2>1 DEF Exit
  <1> QED
    BY <1>4, <1>5

\* merge_parts finds the least of the records it compares.
LEMMA FirstLeast ==
  ASSUME NEW A \in SUBSET Nat, NEW c \in [A -> Int], NEW n \in Nat, \A p \in A : p < n, A # {}
  PROVE  \E p \in A : \A q \in A : c[p] < c[q] \/ (c[p] = c[q] /\ p <= q)
  <1> DEFINE before(p, q) == c[p] < c[q] \/ (c[p] = c[q] /\ p <= q)
  <1> DEFINE first(p, m) == p \in A /\ p < m /\ \A q \in A : q < m => before(p, q)
  <1> DEFINE S == {m \in Nat : (\E p \in A : p < m) => \E p \in A : first(p, m)}
  <1>1. 0 \in S
    OBVIOUS
  <1>2. ASSUME NEW m \in Nat, m \in S PROVE m + 1 \in S
    <2> SUFFICES ASSUME \E p \in A : p < m + 1 PROVE \E p \in A : first(p, m + 1)
      OBVIOUS
    <2>1. \A q \in A : q < m + 1 <=> q < m \/ q = m
      OBVIOUS
    <2>2. CASE \A p \in A : ~(p < m)
      <3>1. m \in A /\ before(m, m)
        BY <2>1, <2>2
      <3> QED
        BY <2>1, <2>2, <3>1
    <2>3. CASE \E p \in A : p < m
      <3>1. PICK p \in A : first(p, m)
        BY <1>2, <2>3
      <3>2. CASE m \in A /\ c[m] < c[p]
        <4>1. \A q \in A : q < m => c[m] < c[q]
          BY <3>1, <3>2
        <4> QED
          BY <2>1, <3>2, <4>1
      <3>3. CASE ~(m \in A /\ c[m] < c[p])
        <4>1. m \in A => before(p, m)
          BY <3>1, <3>3
        <4> QED
          BY <2>1, <3>1, <4>1
      <3> QED
        BY <3>2, <3>3
    <2> QED
      BY <2>2, <2>3
  <1>3. n \in S
    <2> HIDE DEF S
    <2>1. \A m \in Nat : m \in S
      BY <1>1, <1>2, Induction
    <2> QED
      BY <2>1
  <1>4. PICK p \in A : first(p, n)
    BY <1>3
  <1> QED
    BY <1>4

LEMMA SomeLeast ==
  ASSUME IInv, Contents, Merging, Active # {}
  PROVE  \E p \in Active : Least(p)
  <1>1. /\ file \in [Positions -> Int] /\ pos \in [Parts -> 0..records_per_part]
        /\ records_per_part \in Nat /\ num_parts \in Nat
    BY Constants DEF Contents, Output
  <1>2. \A p \in Active : /\ p \in Parts /\ p \in Nat /\ p < num_parts
                          /\ pos[p] \in 0..records_per_part-1
    BY <1>1 DEF Active, Parts
  <1>3. \A p \in Active : Current(p) \in Int
    BY <1>1, <1>2, PlaceInPart DEF Current
  <1> DEFINE A == Active
  <1> DEFINE c == [p \in A |-> Current(p)]
  <1>4. /\ A \in SUBSET Nat /\ c \in [A -> Int] /\ A # {} /\ \A p \in A : p < num_parts
        /\ \A p \in A : c[p] = Current(p)
    BY <1>2, <1>3
  <1> HIDE DEF A, c
  <1>5. PICK p \in A : \A q \in A : c[p] < c[q] \/ (c[p] = c[q] /\ p <= q)
    BY <1>1, <1>4, FirstLeast
  <1>6. \A q \in A : Current(p) < Current(q) \/ (Current(p) = Current(q) /\ p <= q)
    BY <1>4, <1>5
  <1> QED
    BY <1>6 DEF A, Least

\* While every thread has been created, somebody can go on until the program ends:
\* main maps a part, creates a thread, compares, renames or joins, a thread sorts,
\* merges or copies, or all are at the barrier, which opens.  A barrier wait in a
\* loop deadlocks when one thread waits once more than the others (lines 86 to 108).
NoStandstill ==
  (\A t \in Tids : pc[t] # "missing") =>
    \/ pc[0] = "part" /\ part < num_parts
    \/ Merging /\ (Active = {} \/ \E p \in Active : Least(p))
    \/ pc[0] \in {"create", "done"}
    \/ \E t \in Tids : pc[t] \in {"sort", "claim", "merge", "copy"}
    \/ AtBarrier = Tids
    \/ \A t \in Tids : pc[t] = "exited"

\* sort_index does not deadlock, for any number of threads, blocks and parts and any
\* file, if pthread_create has not failed (Lab6/sort_index.c:86 to 108 and 265).
THEOREM NoStandstillHolds == FairSpec => []NoStandstill
  <1>1. Init => Created /\ LastRound
    <2> SUFFICES ASSUME Init PROVE Created /\ LastRound
      OBVIOUS
    <2>1. pc[0] = "part" /\ \A t \in Tids : pc[t] # "exited"
      BY Constants DEF Init
    <2> QED
      BY <2>1 DEF Created, LastRound
  <1>2. IInv /\ Ranges /\ Contents /\ Created /\ LastRound => NoStandstill
    <2> SUFFICES ASSUME IInv, Ranges, Contents, Created, LastRound,
                        \A t \in Tids : pc[t] # "missing",
                        pc[0] \notin {"create", "done"},
                        \A t \in Tids : pc[t] \notin {"sort", "claim", "merge", "copy"}
                 PROVE  \/ pc[0] = "part" /\ part < num_parts
                        \/ Merging /\ (Active = {} \/ \E p \in Active : Least(p))
                        \/ AtBarrier = Tids
                        \/ \A t \in Tids : pc[t] = "exited"
      BY DEF NoStandstill
    <2>1. 0 \in Tids /\ pc \in [Tids -> SortLabels \cup MergeLabels]
      BY Constants DEF IInv, Shapes
    <2>2. CASE pc[0] = "part"
      <3>1. part \in 0..num_parts /\ num_parts \in Nat
        BY Constants DEF Ranges, PartInFile
      <3>2. part < num_parts \/ Merging
        BY <2>2, <3>1 DEF Merging
      <3> QED
        BY <2>2, <3>2, SomeLeast
    <2>3. CASE pc[0] # "part"
      <3>1. \A t \in Tids : pc[t] \in {"sorted", "merged", "exited"}
        BY <2>1, <2>3 DEF Created, IInv, MainLabels, SortLabels, MergeLabels
      <3>2. CASE \A t \in Tids : pc[t] \in {"sorted", "merged"}
        BY <3>2 DEF AtBarrier
      <3>3. ASSUME NEW t \in Tids, pc[t] = "exited", NEW u \in Tids PROVE pc[u] = "exited"
        <4>1. pc[u] \in {"merged", "exited"} /\ current_blocks[t] = current_blocks[u]
          BY <3>1, <3>3 DEF IInv, SameRound, MergeLabels
        <4>2. current_blocks[t] <= 1 /\ current_blocks[t] \in Int
          BY <3>3 DEF LastRound, IInv, Shapes
        <4>3. pc[u] = "merged" => current_blocks[u] > 1
          BY DEF Ranges, Rounds
        <4> QED
          BY <4>1, <4>2, <4>3
      <3> QED
        BY <3>1, <3>2, <3>3
    <2> QED
      BY <2>2, <2>3
  <1> QED
    BY <1>1, <1>2, CreatedNext, LastRoundNext, ContentsHold, PTL DEF FairSpec

\* pthread_create has failed for a thread of the part being sorted.
Missing == \E t \in Tids : pc[t] = "missing"

\* If pthread_create fails once, sort_index never ends: nobody looks at its result,
\* and the barrier, set up for all threads, never opens (lines 86, 248 and 265).
THEOREM MissingHangs == FairSpec => [](Missing => [](pc[0] # "done"))
  <1>1. IInv /\ Missing /\ [Next]_vars => Missing'
    <2> SUFFICES ASSUME IInv, [Next]_vars, NEW t \in Tids, pc[t] = "missing"
                 PROVE  pc'[t] = "missing"
      BY DEF Missing
    <2>1. 0 \in Tids /\ pc \in [Tids -> SortLabels \cup MergeLabels]
      BY Constants DEF IInv, Shapes
    <2>2. ~Join /\ ~Release
      BY DEF Join, Release, AtBarrier
    <2> QED
      BY <2>1, <2>2 DEF Next, Main, Thread, MapPart, Begin, Rename, Create, WriteRecord, SortBlock,
                        Claim, NothingFree, Merge, Copy, NoPair, Exit, Goto, vars
  <1>2. IInv /\ Missing => pc[0] # "done"
    BY Constants DEF IInv, MainLabels, Missing
  <1> QED
    BY <1>1, <1>2, InvHolds, PTL DEF FairSpec
===================================================================================
