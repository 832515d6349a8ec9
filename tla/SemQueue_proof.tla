---------------------------- MODULE SemQueue_proof ----------------------------
(***************************************************************************)
(* The safety of Lab5/parent1.c for any number of threads, any size of the *)
(* ring and any sequence of keys.                                          *)
(***************************************************************************)
EXTENDS SemQueue, QueueLemmas

USE MenuAssumption, RingAssumption, SizeAssumption

-------------------------------------------------------------------------------
(***************************************************************************)
(* Types.  The test of the size in '+' and '-' must still hold when the    *)
(* size is changed, some steps of the main thread later.                   *)
(***************************************************************************)
SizeInv ==
  /\ main = "grow" => current_queue_size < FIXED_SIZE
  /\ main \in {"shrinkWait", "shrink"} => current_queue_size > 1

TypeInv == TypeOK /\ SizeInv

LEMMA RoleOfThread == \A t : RoleOf(t) \in Roles
BY DEF RoleOf, Roles

LEMMA TypeInit == Init => TypeInv
<1> SUFFICES ASSUME Init PROVE TypeInv
  OBVIOUS
<1>1. MenuTypeOK
  BY DEF Init, MenuInit, MenuTypeOK
<1>2. RingTypeOK
  BY DEF Init, RingInit, RingTypeOK, NoMessage
<1>3. pc \in [Threads -> Labels]
  BY DEF Init, MenuInit, Labels
<1> QED
  BY <1>1, <1>2, <1>3
     DEF Init, MenuInit, TypeInv, TypeOK, SizeInv, MainLabels, NoMessage

\* A step of the main thread that leaves the queue alone keeps the types.
LEMMA MenuTypes == TypeInv /\ Menu => TypeInv'
<1> SUFFICES ASSUME TypeInv, Menu PROVE TypeInv'
  OBVIOUS
<1> USE RoleOfThread DEF TypeInv, TypeOK, SizeInv
<1>1. UNCHANGED <<semVars, ringVars, msg, current_queue_size>>
  BY DEF Menu
<1>2. RingTypeOK'
  BY <1>1 DEF RingTypeOK, ringVars
<1>3. ASSUME NEW r \in Roles, Spawn(r) PROVE TypeInv'
  <2>1. MenuTypeOK'
    BY <1>3 DEF Spawn, Press, MenuTypeOK, Pool, Threads, Roles
  <2>2. pc' \in [Threads -> Labels] /\ main' \in MainLabels /\ mutex' = mutex
    BY <1>3 DEF Spawn, Press, Labels, MainLabels
  <2> QED
    BY <1>1, <1>2, <1>3, <2>1, <2>2 DEF semVars, Spawn, Press
<1>4. ASSUME NEW r \in Roles, Kill(r) PROVE TypeInv'
  <2>1. threads[r] \in Seq(Threads) /\ threads[r] # << >>
    BY <1>4 DEF Kill, MenuTypeOK
  <2>2. Front(threads[r]) \in Seq(Threads) /\ Last(threads[r]) \in Threads
    BY <2>1 DEF Front, Last
  <2>3. MenuTypeOK'
    BY <1>4, <2>2 DEF Kill, Press, MenuTypeOK
  <2> QED
    BY <1>1, <1>2, <1>4, <2>3 DEF semVars, Kill, Press, MainLabels
<1>5. CASE CountUp \/ CountDown
  <2>1. MenuTypeOK'
    BY <1>5 DEF CountUp, CountDown, MainLocked, MenuTypeOK
  <2> QED
    BY <1>1, <1>2, <1>5, <2>1 DEF semVars, CountUp, CountDown, MainLocked, MainLabels
<1>6. CASE Join
  <2>1. MenuTypeOK' /\ pc' \in [Threads -> Labels]
    BY <1>6 DEF Join, MenuTypeOK, Labels
  <2> QED
    BY <1>1, <1>2, <1>6, <2>1 DEF semVars, Join, MainLabels
<1>7. CASE AskStatus \/ ShowStatus \/ Quit \/ JoinAll
  <2>1. MenuTypeOK'
    BY <1>7 DEF AskStatus, ShowStatus, Quit, JoinAll, MenuTypeOK
  <2> QED
    BY <1>1, <1>2, <1>7, <2>1
       DEF semVars, AskStatus, ShowStatus, Quit, JoinAll, Press, MainLocked, MainLabels
<1> QED
  BY <1>3, <1>4, <1>5, <1>6, <1>7 DEF Menu, MenuStep

\* So does a step of a thread.
LEMMA ThreadTypes ==
  ASSUME TypeInv, NEW t \in Threads,
         \/ t \in Producers /\ ProducerStep(t)
         \/ t \in Consumers /\ ConsumerStep(t)
  PROVE  TypeInv'
<1> USE DEF TypeInv, TypeOK
<1>1. UNCHANGED <<threads, count, main, subject, current_queue_size>>
  BY DEF ProducerStep, ConsumerStep, ThreadOnly, ProducerWait, Lock, BeginFill, EndFill,
         ProducerPost, ConsumerWait, Copy, EndCopy, ConsumerPost, Sleep, Exit
<1>2. MenuTypeOK' /\ SizeInv' /\ main' \in MainLabels /\ current_queue_size' \in 1..FIXED_SIZE
  BY <1>1 DEF MenuTypeOK, SizeInv
<1>3. pc' \in [Threads -> Labels]
  BY DEF ProducerStep, ConsumerStep, Goto, ProducerWait, Lock, BeginFill, EndFill,
         ProducerPost, ConsumerWait, Copy, EndCopy, ConsumerPost, Sleep, Exit, Labels
<1>4. mutex' \in Threads \cup {NoThread}
  BY DEF ProducerStep, ConsumerStep, ProducerWait, Lock, BeginFill, EndFill,
         ProducerPost, ConsumerWait, Copy, EndCopy, ConsumerPost, Sleep, Exit
<1>5. empty_count' \in Nat /\ full_count' \in Nat
  BY DEF ProducerStep, ConsumerStep, semVars, ProducerWait, Lock, BeginFill, EndFill,
         ProducerPost, ConsumerWait, Copy, EndCopy, ConsumerPost, Sleep, Exit
<1>6. CASE BeginFill(t) \/ EndFill(t)
  <2>1. RingTypeOK'
    <3>1. CASE BeginFill(t)
      BY <3>1 DEF BeginFill, BeginMessage, RingTypeOK, Torn
    <3>2. CASE EndFill(t)
      <4>1. Advance(tail) \in 0..FIXED_SIZE-1 /\ producedCount + 1 \in Nat
        <5>1. tail \in 0..FIXED_SIZE-1 /\ producedCount \in Nat
          BY DEF RingTypeOK
        <5> QED
          BY <5>1, AdvanceInRing
      <4> QED
        BY <3>2, <4>1 DEF EndFill, FinishMessage, RingTypeOK
    <3> QED
      BY <1>6, <3>1, <3>2
  <2> QED
    BY <1>2, <1>3, <1>4, <1>5, <1>6, <2>1 DEF BeginFill, EndFill
<1>7. CASE Copy(t) /\ t \in Consumers
  <2>1. RingTypeOK'
    BY <1>7 DEF Copy, RingTypeOK, ringVars
  <2>2. msg' \in [Consumers -> Int]
    BY <1>7 DEF Copy, RingTypeOK
  <2> QED
    BY <1>2, <1>3, <1>4, <1>5, <2>1, <2>2
<1>8. CASE EndCopy(t) /\ t \in Consumers
  <2>1. RingTypeOK'
    BY <1>8, AdvanceInRing DEF EndCopy, TakeMessage, RingTypeOK
  <2>2. msg' \in [Consumers -> Int]
    BY <1>8 DEF EndCopy, NoMessage
  <2> QED
    BY <1>2, <1>3, <1>4, <1>5, <2>1, <2>2
<1>9. CASE UNCHANGED <<ringVars, msg>>
  BY <1>2, <1>3, <1>4, <1>5, <1>9 DEF RingTypeOK, ringVars
<1> QED
  BY <1>6, <1>7, <1>8, <1>9
     DEF ProducerStep, ConsumerStep, ProducerWait, Lock, ProducerPost, ConsumerWait,
         ConsumerPost, Sleep, Exit

\* And a step of '+' or '-'.
LEMMA ResizeTypes == TypeInv /\ Resize => TypeInv'
<1> SUFFICES ASSUME TypeInv, Resize PROVE TypeInv'
  OBVIOUS
<1> USE DEF TypeInv, TypeOK
<1>1. UNCHANGED <<pc, mutex, threads, count, subject, ringVars, msg>>
  BY DEF Resize, Grow, GrowCounted, Shrink, ShrinkWait, ShrinkCounted, MainLocked, semVars
<1>2. MenuTypeOK' /\ RingTypeOK' /\ main' \in MainLabels
  BY <1>1
     DEF MenuTypeOK, RingTypeOK, ringVars, Resize, Grow, GrowCounted, Shrink, ShrinkWait,
         ShrinkCounted, Press, MainLocked, MainLabels
<1>3. empty_count' \in Nat /\ full_count' \in Nat
  BY DEF Resize, Grow, GrowCounted, Shrink, ShrinkWait, ShrinkCounted, semVars
<1>4. current_queue_size' \in 1..FIXED_SIZE /\ SizeInv'
  BY DEF Resize, Grow, GrowCounted, Shrink, ShrinkWait, ShrinkCounted, Press, MainLocked,
         SizeInv
<1> QED
  BY <1>1, <1>2, <1>3, <1>4

LEMMA TypeStep == TypeInv /\ [Next]_vars => TypeInv'
<1> SUFFICES ASSUME TypeInv, [Next]_vars PROVE TypeInv'
  OBVIOUS
<1>1. CASE UNCHANGED vars
  BY <1>1
     DEF vars, menuVars, semVars, ringVars, TypeInv, TypeOK, SizeInv, MenuTypeOK, RingTypeOK
<1> QED
  BY <1>1, MenuTypes, ThreadTypes, ResizeTypes DEF Next, Threads

\* The state of parent1.c always has its type: the ring is never indexed out of
\* bounds, no semaphore goes negative, and '+' and '-', though they test the
\* size before they wait, keep it between 1 and FIXED_SIZE (lines 173 to 194).
THEOREM TypesHold == Spec => []TypeOK
<1>1. TypeInv => TypeOK
  BY DEF TypeInv
<1> QED
  BY <1>1, TypeInit, TypeStep, PTL DEF Spec

LEMMA ThreadsFinite == IsFiniteSet(Threads)
BY FS_Union DEF Threads

-------------------------------------------------------------------------------
(***************************************************************************)
(* Steps that do not concern the ring.  Outside is what all the steps of   *)
(* the main thread, and the steps of a thread between two rounds of its    *)
(* loop, have in common: '+' and '-' move tokens and size together.        *)
(***************************************************************************)
Idle == {"none", "start", "rest", "exited"}

Outside ==
  /\ \A t \in Threads : pc'[t] = pc[t] \/ (pc[t] \in Idle /\ pc'[t] \in Idle)
  /\ UNCHANGED <<mutex, full_count, ringVars, msg>>
  /\ Capacity' = Capacity + empty_count' - empty_count

LEMMA MenuOutside == TypeInv /\ Menu => Outside
<1> SUFFICES ASSUME TypeInv, Menu PROVE Outside
  OBVIOUS
<1> USE DEF TypeInv, TypeOK
<1>1. UNCHANGED <<mutex, semVars, ringVars, msg, current_queue_size>>
  BY DEF Menu, MenuStep, Spawn, Kill, CountUp, CountDown, Join, AskStatus, ShowStatus,
         Quit, JoinAll
<1>2. main \notin {"grow", "shrink"} /\ main' \notin {"grow", "shrink"}
  BY DEF Menu, MenuStep, Spawn, Kill, CountUp, CountDown, Join, AskStatus, ShowStatus,
         Quit, JoinAll, Press, MainLocked
<1>3. \A t \in Threads : pc'[t] = pc[t] \/ (pc[t] \in Idle /\ pc'[t] \in Idle)
  BY DEF Menu, MenuStep, Spawn, Kill, CountUp, CountDown, Join, AskStatus, ShowStatus,
         Quit, JoinAll, Idle
<1> QED
  BY <1>1, <1>2, <1>3 DEF Outside, semVars, Capacity

LEMMA ResizeOutside == TypeInv /\ Resize => Outside
<1> SUFFICES ASSUME TypeInv, Resize PROVE Outside
  OBVIOUS
<1> USE DEF TypeInv, TypeOK
<1>1. UNCHANGED <<pc, mutex, full_count, ringVars, msg>>
  BY DEF Resize, Grow, GrowCounted, Shrink, ShrinkWait, ShrinkCounted, semVars
<1>2. Capacity' = Capacity + empty_count' - empty_count
  BY DEF Resize, Grow, GrowCounted, Shrink, ShrinkWait, ShrinkCounted, semVars, Press,
         MainLocked, Capacity
<1> QED
  BY <1>1, <1>2 DEF Outside

LEMMA RestOutside ==
  TypeInv /\ (\E t \in Threads : Sleep(t) \/ Exit(t)) => Outside
<1> SUFFICES ASSUME TypeInv, NEW t \in Threads, Sleep(t) \/ Exit(t) PROVE Outside
  OBVIOUS
<1> USE DEF TypeInv, TypeOK
<1>1. UNCHANGED <<mutex, semVars, ringVars, msg, main, current_queue_size>>
  BY DEF Sleep, Exit, ThreadOnly
<1>2. \A u \in Threads : pc'[u] = pc[u] \/ (pc[u] \in Idle /\ pc'[u] \in Idle)
  BY DEF Sleep, Exit, Goto, CancellationPoints, Idle
<1> QED
  BY <1>1, <1>2 DEF Outside, semVars, Capacity

\* A step of a producer or a consumer that is not Outside.
ProducerWork(p) ==
  ProducerWait(p) \/ Lock(p) \/ BeginFill(p) \/ EndFill(p) \/ ProducerPost(p)
ConsumerWork(c) ==
  ConsumerWait(c) \/ Lock(c) \/ Copy(c) \/ EndCopy(c) \/ ConsumerPost(c)

LEMMA StepCases ==
  ASSUME TypeInv, [Next]_vars
  PROVE  \/ Outside
         \/ \E p \in Producers : ProducerWork(p)
         \/ \E c \in Consumers : ConsumerWork(c)
<1>1. CASE UNCHANGED vars
  BY <1>1 DEF vars, menuVars, semVars, ringVars, Outside, Capacity, TypeInv, TypeOK
<1>2. CASE Menu \/ Resize
  BY <1>2, MenuOutside, ResizeOutside
<1>3. ASSUME NEW p \in Producers, ProducerStep(p) PROVE Outside \/ ProducerWork(p)
  BY <1>3, RestOutside DEF ProducerStep, ProducerWork, Threads
<1>4. ASSUME NEW c \in Consumers, ConsumerStep(c) PROVE Outside \/ ConsumerWork(c)
  BY <1>4, RestOutside DEF ConsumerStep, ConsumerWork, Threads
<1> QED
  BY <1>1, <1>2, <1>3, <1>4 DEF Next

LEMMA NumberOutside ==
  ASSUME Outside, NEW group \in SUBSET Threads, NEW labels, labels \cap Idle = {}
  PROVE  Number(pc', group, labels) = Number(pc, group, labels)
<1>1. At(pc', group, labels) = At(pc, group, labels)
  BY DEF At, Outside
<1> QED
  BY <1>1 DEF Number

-------------------------------------------------------------------------------
(***************************************************************************)
(* Mutual exclusion: the thread in the critical section is the owner of    *)
(* the mutex, and a producer does what producers do.                       *)
(***************************************************************************)
MutexInv ==
  /\ \A t \in Threads : pc[t] \in {"locked", "filling", "copied"} <=> mutex = t
  /\ \A p \in Producers : pc[p] # "copied"
  /\ \A c \in Consumers : pc[c] # "filling"

LEMMA MutexInit == Init => MutexInv
BY DEF Init, MenuInit, MutexInv, Threads

LEMMA MutexStep ==
  ASSUME TypeInv, MutexInv, [Next]_vars
  PROVE  MutexInv'
<1> USE DEF TypeInv, TypeOK, MutexInv, Threads
<1>1. CASE Outside
  BY <1>1 DEF Outside, Idle
<1>2. ASSUME NEW p \in Producers, ProducerWork(p) PROVE MutexInv'
  BY <1>2 DEF ProducerWork, ProducerWait, Lock, BeginFill, EndFill, ProducerPost, Goto,
              MutexFree
<1>3. ASSUME NEW c \in Consumers, ConsumerWork(c) PROVE MutexInv'
  BY <1>3 DEF ConsumerWork, ConsumerWait, Lock, Copy, EndCopy, ConsumerPost, Goto,
              MutexFree
<1> QED
  BY <1>1, <1>2, <1>3, StepCases

-------------------------------------------------------------------------------
(***************************************************************************)
(* Tokens.  One is in empty_count, in full_count, or in the hand of a      *)
(* thread that has returned from sem_wait and not yet called sem_post.     *)
(***************************************************************************)
Hand == {"lock", "locked", "filling", "copied", "post"}

LEMMA InHandNumber ==
  /\ Cardinality(InHand) = Number(pc, Threads, Hand)
  /\ Cardinality(InHand)' = Number(pc', Threads, Hand)
BY DEF InHand, Number, At, Hand

LEMMA TokensInit == Init => TokensConserved
<1> SUFFICES ASSUME Init PROVE TokensConserved
  OBVIOUS
<1>1. InHand = {}
  BY DEF Init, MenuInit, InHand
<1> QED
  BY <1>1, FS_EmptySet DEF Init, MenuInit, TokensConserved, Capacity

\* What a step of a thread does to the number of threads of a group that are
\* at some labels.
LEMMA NumberGoto ==
  ASSUME TypeInv, NEW t \in Threads, NEW a, NEW b, Goto(t, a, b),
         NEW group \in SUBSET Threads, NEW labels
  PROVE  Number(pc', group, labels)
           = Number(pc, group, labels)
             + (IF t \in group /\ b \in labels THEN 1 ELSE 0)
             - (IF t \in group /\ a \in labels THEN 1 ELSE 0)
<1>1. pc[t] = a /\ pc'[t] = b /\ \A u \in group : u # t => pc'[u] = pc[u]
  BY DEF TypeInv, TypeOK, Goto
<1>2. IsFiniteSet(group)
  BY ThreadsFinite, FS_Subset
<1> QED
  BY <1>1, <1>2, NumberMoves

LEMMA TokensStep ==
  ASSUME TypeInv, MutexInv, TokensConserved, [Next]_vars
  PROVE  TokensConserved'
<1> DEFINE n == Number(pc, Threads, Hand)
           m == Number(pc', Threads, Hand)
<1>1. n \in Int /\ m \in Int
  BY NumberType, ThreadsFinite
<1>2. Capacity \in Int /\ empty_count \in Nat /\ full_count \in Nat
  BY DEF TypeInv, TypeOK, Capacity
<1>3. Capacity' \in Int /\ empty_count' \in Nat /\ full_count' \in Nat
  BY TypeStep DEF TypeInv, TypeOK, Capacity
<1>4. empty_count + full_count + n = Capacity
  BY InHandNumber DEF TokensConserved
<1>5. SUFFICES empty_count' + full_count' + m = Capacity'
  BY InHandNumber DEF TokensConserved
<1>6. CASE Outside
  <2>1. m = n
    BY <1>6, NumberOutside DEF Hand, Idle
  <2>2. full_count' = full_count /\ Capacity' = Capacity + empty_count' - empty_count
    BY <1>6 DEF Outside
  <2> HIDE DEF n, m
  <2> QED
    BY <1>1, <1>2, <1>3, <1>4, <2>1, <2>2
<1>7. ASSUME NEW t \in Threads, NEW a, NEW b, Goto(t, a, b)
      PROVE  m = n + (IF b \in Hand THEN 1 ELSE 0) - (IF a \in Hand THEN 1 ELSE 0)
  BY <1>7, NumberGoto
<1> HIDE DEF n, m
<1>8. ASSUME NEW p \in Producers, ProducerWork(p)
      PROVE  empty_count' + full_count' + m = Capacity'
  <2> USE DEF Threads, Hand
  <2>1. Capacity' = Capacity
    BY <1>8 DEF ProducerWork, ProducerWait, Lock, BeginFill, EndFill, ProducerPost,
                ThreadOnly, Capacity
  <2>2. CASE ProducerWait(p)
    <3>1. m = n + 1
      BY <1>1, <1>7, <2>2 DEF ProducerWait
    <3> QED
      BY <1>1, <1>2, <1>4, <2>1, <2>2, <3>1 DEF ProducerWait
  <2>3. CASE Lock(p) \/ BeginFill(p) \/ EndFill(p)
    <3>1. m = n
      BY <1>1, <1>7, <2>3 DEF Lock, BeginFill, EndFill
    <3> QED
      BY <1>1, <1>2, <1>4, <2>1, <2>3, <3>1 DEF Lock, BeginFill, EndFill, semVars
  <2>4. CASE ProducerPost(p)
    <3>1. m = n - 1
      BY <1>1, <1>7, <2>4 DEF ProducerPost
    <3> QED
      BY <1>1, <1>2, <1>4, <2>1, <2>4, <3>1 DEF ProducerPost
  <2> QED
    BY <1>8, <2>2, <2>3, <2>4 DEF ProducerWork
<1>9. ASSUME NEW c \in Consumers, ConsumerWork(c)
      PROVE  empty_count' + full_count' + m = Capacity'
  <2> USE DEF Threads, Hand
  <2>1. Capacity' = Capacity
    BY <1>9 DEF ConsumerWork, ConsumerWait, Lock, Copy, EndCopy, ConsumerPost,
                ThreadOnly, Capacity
  <2>2. CASE ConsumerWait(c)
    <3>1. m = n + 1
      BY <1>1, <1>7, <2>2 DEF ConsumerWait
    <3> QED
      BY <1>1, <1>2, <1>4, <2>1, <2>2, <3>1 DEF ConsumerWait
  <2>3. CASE Lock(c) \/ Copy(c) \/ EndCopy(c)
    <3>1. m = n
      BY <1>1, <1>7, <2>3 DEF Lock, Copy, EndCopy
    <3> QED
      BY <1>1, <1>2, <1>4, <2>1, <2>3, <3>1 DEF Lock, Copy, EndCopy, semVars
  <2>4. CASE ConsumerPost(c)
    <3>1. m = n - 1
      BY <1>1, <1>7, <2>4 DEF ConsumerPost
    <3> QED
      BY <1>1, <1>2, <1>4, <2>1, <2>4, <3>1 DEF ConsumerPost
  <2> QED
    BY <1>9, <2>2, <2>3, <2>4 DEF ConsumerWork
<1> QED
  BY <1>6, <1>8, <1>9, StepCases

-------------------------------------------------------------------------------
(***************************************************************************)
(* Messages.  One that is in the ring is announced by a token: in          *)
(* full_count, in the hand of the producer that is about to post it, or in *)
(* the hand of the consumer that is about to take it.                      *)
(***************************************************************************)
Filled  == {"post"}
Claimed == {"lock", "locked", "copied"}

OutInv ==
  Outstanding = full_count + Number(pc, Producers, Filled) + Number(pc, Consumers, Claimed)

LEMMA GroupTypes ==
  ASSUME NEW f, NEW labels
  PROVE  /\ Number(f, Producers, labels) \in Nat
         /\ Number(f, Consumers, labels) \in Nat
         /\ IsFiniteSet(At(f, Producers, labels))
         /\ IsFiniteSet(At(f, Consumers, labels))
BY NumberType

LEMMA OutInit == Init => OutInv
<1> SUFFICES ASSUME Init PROVE OutInv
  OBVIOUS
<1>1. At(pc, Producers, Filled) = {} /\ At(pc, Consumers, Claimed) = {}
  BY DEF Init, MenuInit, At, Filled, Claimed, Threads
<1>2. Number(pc, Producers, Filled) = 0 /\ Number(pc, Consumers, Claimed) = 0
  BY <1>1, FS_EmptySet DEF Number
<1> QED
  BY <1>2 DEF Init, RingInit, OutInv, Outstanding

LEMMA OutStep ==
  ASSUME TypeInv, MutexInv, OutInv, [Next]_vars
  PROVE  OutInv'
<1> DEFINE x == Number(pc, Producers, Filled)
           y == Number(pc, Consumers, Claimed)
           x1 == Number(pc', Producers, Filled)
           y1 == Number(pc', Consumers, Claimed)
<1>1. x \in Int /\ y \in Int /\ x1 \in Int /\ y1 \in Int
  BY GroupTypes
<1>2. /\ full_count \in Int /\ producedCount \in Int /\ consumedCount \in Int
      /\ producedCount - consumedCount = full_count + x + y
  BY DEF OutInv, Outstanding, TypeInv, TypeOK, RingTypeOK
<1>3. SUFFICES producedCount' - consumedCount' = full_count' + x1 + y1
  BY DEF OutInv, Outstanding
<1>4. CASE Outside
  <2>1. x1 = x /\ y1 = y
    BY <1>4, NumberOutside DEF Filled, Claimed, Idle, Threads
  <2>2. UNCHANGED <<full_count, producedCount, consumedCount>>
    BY <1>4 DEF Outside, ringVars
  <2> HIDE DEF x, y, x1, y1
  <2> QED
    BY <1>1, <1>2, <2>1, <2>2
<1>5. ASSUME NEW t \in Producers, NEW a, NEW b, Goto(t, a, b)
      PROVE  /\ x1 = x + (IF b \in Filled THEN 1 ELSE 0) - (IF a \in Filled THEN 1 ELSE 0)
             /\ y1 = y
  <2>1. t \in Threads /\ Producers \in SUBSET Threads /\ Consumers \in SUBSET Threads
        /\ t \notin Consumers
    BY DEF Threads
  <2>2. x1 = x + (IF t \in Producers /\ b \in Filled THEN 1 ELSE 0)
               - (IF t \in Producers /\ a \in Filled THEN 1 ELSE 0)
    BY <1>5, <2>1, NumberGoto
  <2>3. y1 = y + (IF t \in Consumers /\ b \in Claimed THEN 1 ELSE 0)
               - (IF t \in Consumers /\ a \in Claimed THEN 1 ELSE 0)
    BY <1>5, <2>1, NumberGoto
  <2> HIDE DEF x, y, x1, y1
  <2> QED
    BY <1>1, <2>1, <2>2, <2>3
<1>6. ASSUME NEW t \in Consumers, NEW a, NEW b, Goto(t, a, b)
      PROVE  /\ x1 = x
             /\ y1 = y + (IF b \in Claimed THEN 1 ELSE 0) - (IF a \in Claimed THEN 1 ELSE 0)
  <2>1. t \in Threads /\ Producers \in SUBSET Threads /\ Consumers \in SUBSET Threads
        /\ t \notin Producers
    BY DEF Threads
  <2>2. x1 = x + (IF t \in Producers /\ b \in Filled THEN 1 ELSE 0)
               - (IF t \in Producers /\ a \in Filled THEN 1 ELSE 0)
    BY <1>6, <2>1, NumberGoto
  <2>3. y1 = y + (IF t \in Consumers /\ b \in Claimed THEN 1 ELSE 0)
               - (IF t \in Consumers /\ a \in Claimed THEN 1 ELSE 0)
    BY <1>6, <2>1, NumberGoto
  <2> HIDE DEF x, y, x1, y1
  <2> QED
    BY <1>1, <2>1, <2>2, <2>3
<1> HIDE DEF x, y, x1, y1
<1>7. ASSUME NEW p \in Producers, ProducerWork(p)
      PROVE  producedCount' - consumedCount' = full_count' + x1 + y1
  <2> USE <1>1, <1>2, <1>5 DEF Filled, ringVars, semVars
  <2>1. CASE ProducerWait(p)
    BY <2>1 DEF ProducerWait
  <2>2. CASE Lock(p)
    BY <2>2 DEF Lock
  <2>3. CASE BeginFill(p)
    BY <2>3 DEF BeginFill, BeginMessage
  <2>4. CASE EndFill(p)
    BY <2>4 DEF EndFill, FinishMessage
  <2>5. CASE ProducerPost(p)
    BY <2>5 DEF ProducerPost
  <2> QED
    BY <1>7, <2>1, <2>2, <2>3, <2>4, <2>5 DEF ProducerWork
<1>8. ASSUME NEW c \in Consumers, ConsumerWork(c)
      PROVE  producedCount' - consumedCount' = full_count' + x1 + y1
  <2> USE <1>1, <1>2, <1>6 DEF Claimed, ringVars, semVars
  <2>1. CASE ConsumerWait(c)
    BY <2>1 DEF ConsumerWait
  <2>2. CASE Lock(c)
    BY <2>2 DEF Lock
  <2>3. CASE Copy(c)
    BY <2>3 DEF Copy
  <2>4. CASE EndCopy(c)
    BY <2>4 DEF EndCopy, TakeMessage
  <2>5. CASE ConsumerPost(c)
    BY <2>5 DEF ConsumerPost
  <2> QED
    BY <1>8, <2>1, <2>2, <2>3, <2>4, <2>5 DEF ConsumerWork
<1> QED
  BY <1>4, <1>7, <1>8, StepCases

\* The tokens bound the messages, and leave room for the one a producer is
\* about to write; a consumer in its critical section has one to take.
LEMMA Bounds ==
  ASSUME TypeInv, TokensConserved, OutInv
  PROVE  /\ Outstanding \in 0..Capacity
         /\ Capacity \in 1..FIXED_SIZE
         /\ \A p \in Producers : pc[p] \in {"locked", "filling"} => Outstanding < Capacity
         /\ \A c \in Consumers : pc[c] \in {"locked", "copied"} => Outstanding > 0
<1> DEFINE A == At(pc, Producers, Filled)
           B == At(pc, Consumers, Claimed)
           H == At(pc, Threads, Hand)
<1>1. /\ IsFiniteSet(A) /\ Cardinality(A) \in Nat
      /\ IsFiniteSet(B) /\ Cardinality(B) \in Nat
      /\ IsFiniteSet(H) /\ Cardinality(H) \in Nat
  BY NumberType, GroupTypes, ThreadsFinite DEF Number
<1>2. empty_count \in Nat /\ full_count \in Nat
  BY DEF TypeInv, TypeOK
<1>3. Capacity \in 1..FIXED_SIZE
  BY DEF Capacity, TypeInv, TypeOK, SizeInv
<1>4. empty_count + full_count + Cardinality(H) = Capacity
  BY InHandNumber DEF TokensConserved, Number
<1>5. Outstanding = full_count + Cardinality(A) + Cardinality(B)
  BY DEF OutInv, Number
<1>6. A \cap B = {} /\ A \cup B \subseteq H
  BY DEF At, Threads, Filled, Claimed, Hand
<1>7. IsFiniteSet(A \cup B) /\ Cardinality(A \cup B) = Cardinality(A) + Cardinality(B)
  <2>1. Cardinality(A \cap B) = 0
    BY <1>6, FS_EmptySet
  <2>2. Cardinality(A \cup B) = Cardinality(A) + Cardinality(B) - Cardinality(A \cap B)
    BY <1>1, FS_Union
  <2>3. IsFiniteSet(A \cup B)
    BY <1>1, FS_Union
  <2> HIDE DEF A, B
  <2> QED
    BY <1>1, <2>1, <2>2, <2>3
<1>8. Cardinality(A \cup B) \in Nat /\ Cardinality(A \cup B) <= Cardinality(H)
  BY <1>1, <1>6, <1>7, FS_Subset, FS_CardinalityType
<1>9. ASSUME NEW p \in Producers, pc[p] \in {"locked", "filling"}
      PROVE  Cardinality(A) + Cardinality(B) + 1 <= Cardinality(H)
  <2>1. p \notin A \cup B /\ (A \cup B) \cup {p} \subseteq H
    BY <1>6, <1>9 DEF At, Threads, Filled, Claimed, Hand
  <2>2. Cardinality((A \cup B) \cup {p}) = Cardinality(A \cup B) + 1
    BY <1>7, <2>1, FS_AddElement
  <2>3. Cardinality((A \cup B) \cup {p}) <= Cardinality(H)
    BY <1>1, <2>1, FS_Subset
  <2> HIDE DEF A, B, H
  <2> QED
    BY <1>1, <1>7, <1>8, <2>2, <2>3
<1>10. ASSUME NEW c \in Consumers, pc[c] \in {"locked", "copied"}
       PROVE  Cardinality(B) # 0
  <2>1. c \in B
    BY <1>10 DEF At, Claimed
  <2> HIDE DEF B
  <2> QED
    BY <1>1, <2>1, FS_EmptySet
<1> HIDE DEF A, B, H
<1>11. Outstanding \in 0..Capacity
  BY <1>1, <1>2, <1>3, <1>4, <1>5, <1>7, <1>8
<1>12. ASSUME NEW p \in Producers, pc[p] \in {"locked", "filling"}
       PROVE  Outstanding < Capacity
  BY <1>1, <1>2, <1>3, <1>4, <1>5, <1>9, <1>12
<1>13. ASSUME NEW c \in Consumers, pc[c] \in {"locked", "copied"}
       PROVE  Outstanding > 0
  BY <1>1, <1>2, <1>5, <1>10, <1>13
<1> QED
  BY <1>3, <1>11, <1>12, <1>13

-------------------------------------------------------------------------------
(***************************************************************************)
(* The messages.                                                           *)
(***************************************************************************)
LEMMA RingStart == Init => RingInv /\ InOrder
BY RingStarts DEF Init, MenuInit, InOrder, Threads

LEMMA RingStep ==
  ASSUME TypeInv, MutexInv, TokensConserved, OutInv, RingInv, InOrder, [Next]_vars
  PROVE  RingInv' /\ InOrder'
<1>1. /\ RingTypeOK /\ pc \in [Threads -> Labels] /\ msg \in [Consumers -> Int]
      /\ Outstanding \in 0..FIXED_SIZE
  BY Bounds DEF TypeInv, TypeOK
<1>2. CASE Outside
  <2>1. UNCHANGED <<ringVars, msg>>
    BY <1>2 DEF Outside
  <2>2. \A c \in Consumers : pc'[c] = "copied" => pc[c] = "copied"
    BY <1>2 DEF Outside, Idle, Threads
  <2> QED
    BY <2>1, <2>2, RingKept DEF InOrder, ringVars
<1>3. ASSUME NEW p \in Producers, ProducerWork(p) PROVE RingInv' /\ InOrder'
  <2>1. InOrder'
    BY <1>1, <1>3
       DEF ProducerWork, ProducerWait, Lock, BeginFill, EndFill, ProducerPost, Goto,
           BeginMessage, FinishMessage, InOrder, ringVars, Threads
  <2>2. CASE BeginFill(p)
    <3>1. Outstanding \in 0..FIXED_SIZE-1 /\ BeginMessage
      BY <1>1, <2>2, Bounds DEF BeginFill, Goto
    <3> QED
      BY <1>1, <2>1, <3>1, RingBegins
  <2>3. CASE EndFill(p)
    <3>1. Outstanding \in 0..FIXED_SIZE-1 /\ FinishMessage
      BY <1>1, <2>3, Bounds DEF EndFill, Goto
    <3> QED
      BY <1>1, <2>1, <3>1, RingFinishes
  <2>4. CASE UNCHANGED ringVars
    BY <2>1, <2>4, RingKept
  <2> QED
    BY <1>3, <2>2, <2>3, <2>4 DEF ProducerWork, ProducerWait, Lock, ProducerPost
<1>4. ASSUME NEW c \in Consumers, ConsumerWork(c) PROVE RingInv' /\ InOrder'
  <2>1. CASE Copy(c)
    <3>1. Outstanding \in 1..FIXED_SIZE
      BY <1>1, <2>1, Bounds DEF Copy, Goto
    <3>2. buffer[head] = consumedCount + 1
      BY <1>1, <3>1, RingOldest
    <3>3. RingInv' /\ UNCHANGED ringVars
      BY <2>1, RingKept DEF Copy
    <3>4. InOrder'
      BY <1>1, <2>1, <3>2, <3>3 DEF InOrder, Copy, Goto, ringVars, Threads
    <3> QED
      BY <3>3, <3>4
  <2>2. CASE EndCopy(c)
    <3>1. Outstanding \in 1..FIXED_SIZE /\ TakeMessage
      BY <1>1, <2>2, Bounds DEF EndCopy, Goto
    <3>2. RingInv'
      BY <1>1, <3>1, RingTakes
    <3>3. \A d \in Consumers : pc'[d] # "copied"
      BY <1>1, <2>2 DEF EndCopy, Goto, MutexInv, Threads
    <3> QED
      BY <3>2, <3>3 DEF InOrder
  <2>3. CASE ConsumerWait(c) \/ Lock(c) \/ ConsumerPost(c)
    <3>1. UNCHANGED <<ringVars, msg>> /\ RingInv'
      BY <2>3, RingKept DEF ConsumerWait, Lock, ConsumerPost
    <3>2. InOrder'
      BY <1>1, <2>3, <3>1
         DEF ConsumerWait, Lock, ConsumerPost, Goto, InOrder, ringVars, Threads
    <3> QED
      BY <3>1, <3>2
  <2> QED
    BY <1>4, <2>1, <2>2, <2>3 DEF ConsumerWork
<1> QED
  BY <1>2, <1>3, <1>4, StepCases

-------------------------------------------------------------------------------
(***************************************************************************)
(* The inductive invariant and what follows from it.                       *)
(***************************************************************************)
SafetyInv == TypeInv /\ MutexInv /\ TokensConserved /\ OutInv /\ RingInv /\ InOrder

THEOREM SafetyHolds == Spec => []SafetyInv
<1>1. Init => SafetyInv
  BY TypeInit, MutexInit, TokensInit, OutInit, RingStart DEF SafetyInv
<1>2. SafetyInv /\ [Next]_vars => SafetyInv'
  BY TypeStep, MutexStep, TokensStep, OutStep, RingStep DEF SafetyInv
<1> QED
  BY <1>1, <1>2, PTL DEF Spec

\* The tokens of empty_count and full_count and those in the hands of threads
\* always make up the size of the queue, whatever threads are cancelled in
\* sem_wait, printf or sleep and whenever '+' and '-' resize it.
THEOREM TokensHold == Spec => []TokensConserved
<1>1. SafetyInv => TokensConserved
  BY DEF SafetyInv
<1> QED
  BY <1>1, SafetyHolds, PTL

\* The ring never holds more messages than the queue has room for, nor fewer
\* than none: no producer overwrites a message and no consumer reads a slot
\* that is not filled, although neither of them tests head against tail.
THEOREM NoOverwriteHolds == Spec => []NoOverwrite
<1>1. SafetyInv => NoOverwrite
  BY Bounds DEF SafetyInv, NoOverwrite
<1> QED
  BY <1>1, SafetyHolds, PTL

\* What a consumer has copied is the oldest message, whole: hash_ok=NO, and a
\* message lost or printed twice, are impossible (consumer, lines 92 to 100).
THEOREM InOrderHolds == Spec => []InOrder
<1>1. SafetyInv => InOrder
  BY DEF SafetyInv
<1> QED
  BY <1>1, SafetyHolds, PTL

\* The count that 's' computes from head and tail is the number of messages in
\* the ring, except that it is zero when every slot is in use (line 197).
THEOREM StatusCountHolds == Spec => []StatusCount
<1>1. SafetyInv => StatusCount
  <2> SUFFICES ASSUME SafetyInv PROVE StatusCount
    OBVIOUS
  <2>1. head \in 0..FIXED_SIZE-1 /\ tail \in 0..FIXED_SIZE-1
    BY DEF SafetyInv, TypeInv, TypeOK, RingTypeOK
  <2>2. Outstanding \in 0..FIXED_SIZE
    BY Bounds DEF SafetyInv
  <2>3. tail = Wrap(head + Outstanding)
    BY DEF SafetyInv, RingInv
  <2>4. Used = IF tail < head THEN tail - head + FIXED_SIZE ELSE tail - head
    BY <2>1 DEF Used
  <2> QED
    BY <2>1, <2>2, <2>3, <2>4 DEF StatusCount, Wrap
<1> QED
  BY <1>1, SafetyHolds, PTL

-------------------------------------------------------------------------------
(***************************************************************************)
(* Refinement.  The ring holds the numbers after consumedCount, in order;  *)
(* the end of a producer's critical section is Produce, the end of a       *)
(* consumer's is Consume, and only '+' and '-' resize.                     *)
(***************************************************************************)
LEMMA FifoInit == Init => Fifo!Init
<1> SUFFICES ASSUME Init PROVE Fifo!Init
  OBVIOUS
<1>1. Contents = << >>
  BY DEF Init, RingInit, Contents, Outstanding
<1> QED
  BY <1>1 DEF Init, MenuInit, RingInit, Fifo!Init, Capacity

LEMMA CapacityRange == SafetyInv => Capacity \in 1..FIXED_SIZE
BY Bounds DEF SafetyInv

LEMMA FifoStep ==
  ASSUME SafetyInv, Capacity' \in 1..FIXED_SIZE, [Next]_vars
  PROVE  [Fifo!Next]_(Fifo!fifoVars)
<1> USE DEF Fifo!Next, Fifo!fifoVars
<1>1. /\ RingTypeOK /\ RingInv /\ Outstanding \in 0..Capacity /\ Capacity \in 1..FIXED_SIZE
      /\ Outstanding \in 0..FIXED_SIZE
  BY Bounds DEF SafetyInv, TypeInv, TypeOK
<1>2. CASE Outside
  <2>1. UNCHANGED <<Contents, producedCount, consumedCount>>
    BY <1>2 DEF Outside, ringVars, Contents, Outstanding
  <2> QED
    BY <2>1 DEF Fifo!Resize
<1>3. ASSUME NEW p \in Producers, ProducerWork(p) PROVE [Fifo!Next]_(Fifo!fifoVars)
  <2>1. Capacity' = Capacity
    BY <1>3 DEF ProducerWork, ProducerWait, Lock, BeginFill, EndFill, ProducerPost,
                ThreadOnly, Capacity
  <2>2. CASE EndFill(p)
    <3>1. Outstanding < Capacity /\ FinishMessage
      BY <2>2, Bounds DEF SafetyInv, EndFill, Goto
    <3>2. Outstanding \in 0..FIXED_SIZE-1
      BY <1>1, <3>1
    <3>3. /\ Len(Contents) = Outstanding
          /\ producedCount' = producedCount + 1 /\ consumedCount' = consumedCount
          /\ Contents' = Append(Contents, producedCount')
      BY <1>1, <3>1, <3>2, ContentsGrow
    <3> QED
      BY <2>1, <3>1, <3>3 DEF Fifo!Produce
  <2>3. CASE BeginFill(p)
    <3>1. Outstanding < Capacity /\ BeginMessage
      BY <2>3, Bounds DEF SafetyInv, BeginFill, Goto
    <3>2. Outstanding \in 0..FIXED_SIZE-1
      BY <1>1, <3>1
    <3>3. Contents' = Contents
      BY <1>1, <3>1, <3>2, ContentsStay
    <3> QED
      BY <2>1, <3>1, <3>3 DEF BeginMessage
  <2>4. CASE UNCHANGED ringVars
    BY <2>1, <2>4 DEF ringVars, Contents, Outstanding
  <2> QED
    BY <1>3, <2>2, <2>3, <2>4 DEF ProducerWork, ProducerWait, Lock, ProducerPost
<1>4. ASSUME NEW c \in Consumers, ConsumerWork(c) PROVE [Fifo!Next]_(Fifo!fifoVars)
  <2>1. Capacity' = Capacity
    BY <1>4 DEF ConsumerWork, ConsumerWait, Lock, Copy, EndCopy, ConsumerPost,
                ThreadOnly, Capacity
  <2>2. CASE EndCopy(c)
    <3>1. Outstanding \in 1..FIXED_SIZE /\ TakeMessage
      BY <1>1, <2>2, Bounds DEF SafetyInv, EndCopy, Goto
    <3>2. /\ Contents # << >> /\ consumedCount' = Head(Contents)
          /\ producedCount' = producedCount /\ Contents' = Tail(Contents)
      BY <1>1, <3>1, ContentsShrink
    <3> QED
      BY <2>1, <3>2 DEF Fifo!Consume
  <2>3. CASE UNCHANGED ringVars
    BY <2>1, <2>3 DEF ringVars, Contents, Outstanding
  <2> QED
    BY <1>4, <2>2, <2>3 DEF ConsumerWork, ConsumerWait, Lock, Copy, ConsumerPost
<1> QED
  BY <1>2, <1>3, <1>4, StepCases DEF SafetyInv

\* parent1.c implements the first-in first-out queue of BoundedFifo: whatever
\* the interleaving, messages come out once each, in order, and one is put in
\* only while there is room at the size of that moment.
THEOREM FifoImplemented == Spec => ImplementsFifo
<1>1. SafetyInv /\ SafetyInv' /\ [Next]_vars => [Fifo!Next]_(Fifo!fifoVars)
  <2>1. SafetyInv' => (Capacity \in 1..FIXED_SIZE)'
    BY CapacityRange, PTL
  <2> QED
    BY <2>1, FifoStep
<1> QED
  BY <1>1, FifoInit, SafetyHolds, PTL DEF Spec, ImplementsFifo, Fifo!Spec

-------------------------------------------------------------------------------
(***************************************************************************)
(* Nobody waits for nothing.  CanGoOn(t) is what the next statement of t   *)
(* needs, so that t is at a statement that does not block, or at one that  *)
(* blocks and need not.  (MaxProduced, a bound of the model, is put        *)
(* aside: producer() has no such test.)                                    *)
(***************************************************************************)
Living(group) == {t \in group : pc[t] \notin {"none", "exited"}}

CanGoOn(t) ==
  \/ pc[t] \in {"locked", "filling", "copied", "post", "rest"}
  \/ pc[t] = "lock" /\ MutexFree
  \/ pc[t] = "start" /\ IF t \in Producers THEN empty_count > 0 ELSE full_count > 0

SomebodyGoesOn ==
  Living(Producers) # {} /\ Living(Consumers) # {} => \E t \in Threads : CanGoOn(t)

LEMMA GoesOn == SafetyInv => SomebodyGoesOn
<1> SUFFICES ASSUME SafetyInv,
                    NEW p \in Living(Producers), NEW c \in Living(Consumers),
                    \A t \in Threads : ~CanGoOn(t)
             PROVE  FALSE
  BY DEF SomebodyGoesOn
<1>1. /\ p \in Producers /\ pc[p] \notin {"none", "exited"}
      /\ c \in Consumers /\ c \notin Producers /\ pc[c] \notin {"none", "exited"}
      /\ p \in Threads /\ c \in Threads
  BY DEF Living, Threads
<1>2. /\ pc \in [Threads -> Labels] /\ mutex \in Threads \cup {NoThread}
      /\ empty_count \in Nat /\ full_count \in Nat
  BY DEF SafetyInv, TypeInv, TypeOK
\* The owner of the mutex would go on, so it is free ...
<1>3. MutexFree
  <2>1. SUFFICES ASSUME mutex \in Threads PROVE FALSE
    BY <1>2 DEF MutexFree
  <2>2. pc[mutex] \in {"locked", "filling", "copied"}
    BY <2>1 DEF SafetyInv, MutexInv
  <2> QED
    BY <2>1, <2>2 DEF CanGoOn
\* ... and whoever lives waits for a token.
<1>4. \A t \in Threads : pc[t] \in {"none", "start", "exited"}
  BY <1>2, <1>3 DEF CanGoOn, Labels
<1>5. pc[p] = "start" /\ pc[c] = "start"
  BY <1>1, <1>4
<1>6. empty_count = 0 /\ full_count = 0
  BY <1>1, <1>2, <1>5 DEF CanGoOn
<1>7. Cardinality(InHand) = 0
  <2>1. InHand = {}
    BY <1>4 DEF InHand
  <2> QED
    BY <2>1, FS_EmptySet
<1>8. Capacity = 0
  BY <1>6, <1>7 DEF SafetyInv, TokensConserved
<1>9. Capacity \in 1..FIXED_SIZE
  BY CapacityRange
<1> QED
  BY <1>8, <1>9

\* As long as there are a producer and a consumer, the threads of parent1.c never
\* all wait, for the mutex, a free place or a message: somebody's next statement
\* does not block, whatever was killed and however often the queue was resized.
THEOREM SomebodyAlwaysGoesOn == Spec => []SomebodyGoesOn
BY GoesOn, SafetyHolds, PTL
==============================================================================
