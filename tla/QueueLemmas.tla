----------------------------- MODULE QueueLemmas -----------------------------
(***************************************************************************)
(* What the proofs about the queues of Lab4 and Lab5 share: how many       *)
(* threads or processes are at some labels, and what each operation on the *)
(* ring does to the messages between head and tail.                        *)
(***************************************************************************)
EXTENDS MessageRing, FiniteSetTheorems, SequenceTheorems, TLAPS

USE RingAssumption

(***************************************************************************)
(* Counting the members of a group that are at some labels.                *)
(***************************************************************************)
At(f, group, labels)     == {t \in group : f[t] \in labels}
Number(f, group, labels) == Cardinality(At(f, group, labels))

LEMMA NumberType ==
  ASSUME NEW f, NEW group, IsFiniteSet(group), NEW labels
  PROVE  IsFiniteSet(At(f, group, labels)) /\ Number(f, group, labels) \in Nat
<1>1. At(f, group, labels) \in SUBSET group
  BY DEF At
<1>2. IsFiniteSet(At(f, group, labels))
  BY <1>1, FS_Subset
<1> QED
  BY <1>2, FS_CardinalityType DEF Number

\* Somebody is there only if the number is not zero.
LEMMA NumberPositive ==
  ASSUME NEW f, NEW group, IsFiniteSet(group), NEW labels,
         NEW t \in group, f[t] \in labels
  PROVE  Number(f, group, labels) >= 1
<1> DEFINE A == At(f, group, labels)
<1>1. t \in A
  BY DEF At
<1>2. IsFiniteSet(A) /\ Cardinality(A) \in Nat
  BY NumberType DEF Number
<1> HIDE DEF A
<1>3. Cardinality(A) # 0
  BY <1>1, <1>2, FS_EmptySet
<1> QED
  BY <1>2, <1>3 DEF Number, A

\* Nobody is there when the number is zero, and the number is then the same as
\* long as nobody comes or goes.
LEMMA NumberZero ==
  ASSUME NEW f, NEW group, NEW labels, \A t \in group : f[t] \notin labels
  PROVE  Number(f, group, labels) = 0
<1>1. At(f, group, labels) = {}
  BY DEF At
<1> QED
  BY <1>1, FS_EmptySet DEF Number

LEMMA NumberSame ==
  ASSUME NEW f, NEW g, NEW group, NEW labels,
         \A t \in group : f[t] \in labels <=> g[t] \in labels
  PROVE  Number(g, group, labels) = Number(f, group, labels)
<1>1. At(g, group, labels) = At(f, group, labels)
  BY DEF At
<1> QED
  BY <1>1 DEF Number

\* When t alone moves, the number changes by t.
LEMMA NumberMoves ==
  ASSUME NEW f, NEW g, NEW group, IsFiniteSet(group), NEW labels,
         NEW t, \A u \in group : u # t => g[u] = f[u]
  PROVE  Number(g, group, labels)
           = Number(f, group, labels)
             + (IF t \in group /\ g[t] \in labels THEN 1 ELSE 0)
             - (IF t \in group /\ f[t] \in labels THEN 1 ELSE 0)
<1> DEFINE A == At(f, group, labels)
           B == At(g, group, labels)
<1>1. /\ t \in A <=> t \in group /\ f[t] \in labels
      /\ B = IF t \in group /\ g[t] \in labels THEN A \cup {t} ELSE A \ {t}
  BY DEF At
<1>2. IsFiniteSet(A) /\ Cardinality(A) \in Nat
  BY NumberType DEF Number
<1>3. /\ Cardinality(A \cup {t}) = IF t \in A THEN Cardinality(A) ELSE Cardinality(A) + 1
      /\ Cardinality(A \ {t}) = IF t \in A THEN Cardinality(A) - 1 ELSE Cardinality(A)
  BY <1>2, FS_AddElement, FS_RemoveElement
<1>4. Number(f, group, labels) = Cardinality(A) /\ Number(g, group, labels) = Cardinality(B)
  BY DEF Number
<1> HIDE DEF A, B
<1> QED
  BY <1>1, <1>2, <1>3, <1>4

-------------------------------------------------------------------------------
(***************************************************************************)
(* The ring.  The messages lie between head and tail in the order in which *)
(* they were produced.  Wrap is the remainder by FIXED_SIZE of a number    *)
(* below twice that size.                                                  *)
(***************************************************************************)
Wrap(k) == IF k < FIXED_SIZE THEN k ELSE k - FIXED_SIZE

RingInv ==
  /\ tail = Wrap(head + Outstanding)
  /\ \A i \in 0..Outstanding-1 : buffer[Wrap(head + i)] = consumedCount + 1 + i

\* The next index of the ring is one.
LEMMA AdvanceInRing ==
  ASSUME NEW i \in 0..FIXED_SIZE-1
  PROVE  Advance(i) = Wrap(i + 1) /\ Advance(i) \in 0..FIXED_SIZE-1
BY DEF Advance, Wrap

LEMMA RingStarts == RingInit => RingTypeOK /\ RingInv
BY DEF RingInit, RingTypeOK, RingInv, Outstanding, NoMessage, Wrap

LEMMA RingKept ==
  ASSUME UNCHANGED ringVars
  PROVE  /\ RingTypeOK => RingTypeOK'
         /\ RingInv => RingInv'
         /\ Outstanding' = Outstanding
BY DEF ringVars, RingTypeOK, RingInv, Outstanding

\* Writing into the slot at tail touches no message while there is a free slot.
LEMMA RingBegins ==
  ASSUME RingTypeOK, RingInv, Outstanding \in 0..FIXED_SIZE-1, BeginMessage
  PROVE  RingTypeOK' /\ RingInv' /\ Outstanding' = Outstanding
<1>1. RingTypeOK' /\ Outstanding' = Outstanding
  BY DEF BeginMessage, RingTypeOK, Torn, Outstanding
<1>2. \A i \in 0..Outstanding-1 : Wrap(head + i) # tail /\ Wrap(head + i) \in 0..FIXED_SIZE-1
  BY DEF RingTypeOK, RingInv, Wrap
<1> QED
  BY <1>1, <1>2 DEF BeginMessage, RingTypeOK, RingInv

LEMMA RingFinishes ==
  ASSUME RingTypeOK, RingInv, Outstanding \in 0..FIXED_SIZE-1, FinishMessage
  PROVE  RingTypeOK' /\ RingInv' /\ Outstanding' = Outstanding + 1
<1>1. /\ head \in 0..FIXED_SIZE-1 /\ tail \in 0..FIXED_SIZE-1
      /\ producedCount \in Nat /\ consumedCount \in Nat
      /\ buffer \in [0..FIXED_SIZE-1 -> Int]
  BY DEF RingTypeOK
<1>2. /\ buffer' = [buffer EXCEPT ![tail] = producedCount + 1]
      /\ tail' = Wrap(tail + 1) /\ tail' \in 0..FIXED_SIZE-1
      /\ head' = head /\ consumedCount' = consumedCount
      /\ producedCount' = producedCount + 1
  BY <1>1, AdvanceInRing DEF FinishMessage
<1>3. /\ Outstanding' = Outstanding + 1
      /\ producedCount + 1 = consumedCount + 1 + Outstanding
  BY <1>1, <1>2 DEF Outstanding
<1>4. RingTypeOK'
  BY <1>1, <1>2 DEF RingTypeOK
<1>5. \A i \in 0..Outstanding-1 : Wrap(head + i) # tail /\ Wrap(head + i) \in 0..FIXED_SIZE-1
  BY <1>1 DEF RingInv, Wrap
<1>6. tail' = Wrap(head' + Outstanding')
  BY <1>1, <1>2, <1>3 DEF RingInv, Wrap
<1>7. buffer'[Wrap(head + Outstanding)] = consumedCount + 1 + Outstanding
  BY <1>1, <1>2, <1>3 DEF RingInv
<1>8. \A i \in 0..Outstanding-1 : buffer'[Wrap(head + i)] = consumedCount + 1 + i
  BY <1>1, <1>2, <1>5 DEF RingInv
<1>9. ASSUME NEW i \in 0..Outstanding'-1
      PROVE  buffer'[Wrap(head' + i)] = consumedCount' + 1 + i
  <2>1. i \in 0..Outstanding-1 \/ i = Outstanding
    BY <1>3, <1>9
  <2> QED
    BY <1>2, <1>7, <1>8, <2>1
<1> QED
  BY <1>3, <1>4, <1>6, <1>9 DEF RingInv

\* The oldest message is at head.
LEMMA RingOldest ==
  ASSUME RingTypeOK, RingInv, Outstanding \in 1..FIXED_SIZE
  PROVE  buffer[head] = consumedCount + 1
<1>1. buffer[Wrap(head + 0)] = consumedCount + 1 + 0
  BY DEF RingInv
<1> QED
  BY <1>1 DEF RingTypeOK, Wrap

LEMMA RingTakes ==
  ASSUME RingTypeOK, RingInv, Outstanding \in 1..FIXED_SIZE, TakeMessage
  PROVE  RingTypeOK' /\ RingInv' /\ Outstanding' = Outstanding - 1
<1>1. /\ head \in 0..FIXED_SIZE-1 /\ tail \in 0..FIXED_SIZE-1
      /\ producedCount \in Nat /\ consumedCount \in Nat
  BY DEF RingTypeOK
<1>2. /\ head' = Wrap(head + 1) /\ head' \in 0..FIXED_SIZE-1
      /\ consumedCount' = consumedCount + 1
      /\ UNCHANGED <<buffer, tail, producedCount>>
  BY <1>1, AdvanceInRing DEF TakeMessage
<1>3. Outstanding' = Outstanding - 1
  BY <1>1, <1>2 DEF Outstanding
<1>4. RingTypeOK'
  BY <1>1, <1>2 DEF RingTypeOK
<1>5. \A i \in 0..Outstanding-1 : Wrap(head' + i) = Wrap(head + (i + 1))
  BY <1>1, <1>2 DEF Wrap
<1>6. tail' = Wrap(head' + Outstanding')
  BY <1>1, <1>2, <1>3 DEF RingInv, Wrap
<1>7. ASSUME NEW i \in 0..Outstanding'-1
      PROVE  buffer'[Wrap(head' + i)] = consumedCount' + 1 + i
  <2>1. i \in 0..Outstanding-1 /\ i + 1 \in 0..Outstanding-1
    BY <1>3, <1>7
  <2>2. buffer[Wrap(head + (i + 1))] = consumedCount + 1 + (i + 1)
    BY <2>1 DEF RingInv
  <2>3. consumedCount + 1 + (i + 1) = consumedCount' + 1 + i
    BY <1>1, <1>2, <2>1
  <2> QED
    BY <1>2, <1>5, <2>1, <2>2, <2>3
<1> QED
  BY <1>3, <1>4, <1>6, <1>7 DEF RingInv

-------------------------------------------------------------------------------
(***************************************************************************)
(* The messages in the ring as a sequence: the numbers after consumedCount.*)
(***************************************************************************)
Numbers(c, k) == [i \in 1..k |-> c + i]

LEMMA NumbersAppend ==
  ASSUME NEW c \in Nat, NEW k \in Nat
  PROVE  /\ Numbers(c, k) \in Seq(Int) /\ Len(Numbers(c, k)) = k
         /\ Numbers(c, k + 1) = Append(Numbers(c, k), c + k + 1)
BY DEF Numbers

LEMMA NumbersTail ==
  ASSUME NEW c \in Nat, NEW k \in Nat \ {0}
  PROVE  /\ Numbers(c, k) # << >>
         /\ Head(Numbers(c, k)) = c + 1
         /\ Tail(Numbers(c, k)) = Numbers(c + 1, k - 1)
<1>1. Numbers(c, k) \in Seq(Int) /\ Len(Numbers(c, k)) = k
  BY DEF Numbers
<1>2. Numbers(c, k) # << >> /\ Head(Numbers(c, k)) = Numbers(c, k)[1]
  BY <1>1
<1>3. Numbers(c, k)[1] = c + 1
  BY DEF Numbers
<1>4. /\ Tail(Numbers(c, k)) \in Seq(Int) /\ Len(Tail(Numbers(c, k))) = k - 1
      /\ \A i \in 1..k-1 : Tail(Numbers(c, k))[i] = Numbers(c, k)[i + 1]
  BY <1>1, <1>2, HeadTailProperties
<1>5. \A i \in 1..k-1 : Numbers(c, k)[i + 1] = c + 1 + i
  BY DEF Numbers
<1>6. Tail(Numbers(c, k)) = Numbers(c + 1, k - 1)
  BY <1>4, <1>5 DEF Numbers
<1> QED
  BY <1>2, <1>3, <1>6

LEMMA ContentsNumbers ==
  RingTypeOK /\ RingInv /\ Outstanding \in 0..FIXED_SIZE
    => Contents = Numbers(consumedCount, Outstanding)
<1> SUFFICES ASSUME RingTypeOK, RingInv, Outstanding \in 0..FIXED_SIZE
             PROVE  Contents = Numbers(consumedCount, Outstanding)
  OBVIOUS
<1>1. head \in 0..FIXED_SIZE-1 /\ consumedCount \in Nat
  BY DEF RingTypeOK
<1>2. ASSUME NEW i \in 1..Outstanding
      PROVE  buffer[(head + i - 1) % FIXED_SIZE] = consumedCount + i
  <2>1. i - 1 \in 0..Outstanding-1
    BY <1>1
  <2>2. buffer[Wrap(head + (i - 1))] = consumedCount + 1 + (i - 1)
    BY <2>1 DEF RingInv
  <2>3. (head + i - 1) % FIXED_SIZE = Wrap(head + (i - 1))
    BY <1>1, <2>1 DEF Wrap
  <2> QED
    BY <1>1, <2>2, <2>3
<1> QED
  BY <1>2 DEF Contents, Numbers

\* The same after a step.
LEMMA ContentsNumbersNext ==
  (RingTypeOK /\ RingInv /\ Outstanding \in 0..FIXED_SIZE)'
    => (Contents = Numbers(consumedCount, Outstanding))'
BY ContentsNumbers, PTL

\* Beginning a message leaves the contents as they are, finishing it appends the
\* next number ...
LEMMA ContentsStay ==
  ASSUME RingTypeOK, RingInv, Outstanding \in 0..FIXED_SIZE-1, BeginMessage
  PROVE  Contents' = Contents
<1>1. RingTypeOK' /\ RingInv' /\ Outstanding' = Outstanding
  BY RingBegins
<1>2. Contents = Numbers(consumedCount, Outstanding)
  BY ContentsNumbers
<1>3. Outstanding' \in 0..FIXED_SIZE
  BY <1>1
<1>4. Contents' = Numbers(consumedCount', Outstanding')
  BY <1>1, <1>3, ContentsNumbersNext
<1> QED
  BY <1>1, <1>2, <1>4 DEF BeginMessage

LEMMA ContentsGrow ==
  ASSUME RingTypeOK, RingInv, Outstanding \in 0..FIXED_SIZE-1, FinishMessage
  PROVE  /\ Len(Contents) = Outstanding
         /\ producedCount' = producedCount + 1 /\ consumedCount' = consumedCount
         /\ Contents' = Append(Contents, producedCount')
<1>1. RingTypeOK' /\ RingInv' /\ Outstanding' = Outstanding + 1
  BY RingFinishes
<1>2. Contents = Numbers(consumedCount, Outstanding)
  BY ContentsNumbers
<1>3. Outstanding' \in 0..FIXED_SIZE
  BY <1>1
<1>4. Contents' = Numbers(consumedCount', Outstanding')
  BY <1>1, <1>3, ContentsNumbersNext
<1>5. /\ producedCount' = producedCount + 1 /\ consumedCount' = consumedCount
      /\ consumedCount \in Nat /\ consumedCount + Outstanding + 1 = producedCount'
  BY DEF FinishMessage, RingTypeOK, Outstanding
<1>6. Outstanding \in Nat
  OBVIOUS
<1>7. /\ Len(Numbers(consumedCount, Outstanding)) = Outstanding
      /\ Numbers(consumedCount, Outstanding + 1)
           = Append(Numbers(consumedCount, Outstanding), consumedCount + Outstanding + 1)
  BY <1>5, <1>6, NumbersAppend
<1> QED
  BY <1>1, <1>2, <1>4, <1>5, <1>7

\* ... and consuming takes off the first, the one after consumedCount.
LEMMA ContentsShrink ==
  ASSUME RingTypeOK, RingInv, Outstanding \in 1..FIXED_SIZE, TakeMessage
  PROVE  /\ Contents # << >> /\ consumedCount' = Head(Contents)
         /\ producedCount' = producedCount
         /\ Contents' = Tail(Contents)
<1>1. RingTypeOK' /\ RingInv' /\ Outstanding' = Outstanding - 1
  BY RingTakes
<1>2. Contents = Numbers(consumedCount, Outstanding)
  BY ContentsNumbers
<1>3. Outstanding' \in 0..FIXED_SIZE
  BY <1>1
<1>4. Contents' = Numbers(consumedCount', Outstanding')
  BY <1>1, <1>3, ContentsNumbersNext
<1>5. /\ consumedCount' = consumedCount + 1 /\ producedCount' = producedCount
      /\ consumedCount \in Nat
  BY DEF TakeMessage, RingTypeOK
<1>6. Outstanding \in Nat \ {0}
  OBVIOUS
<1> QED
  BY <1>1, <1>2, <1>4, <1>5, <1>6, NumbersTail
==============================================================================
