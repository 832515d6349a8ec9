--------------------------- MODULE CondQueue_proof ---------------------------
(***************************************************************************)
(* The safety of Lab5/parent2.c for any number of threads, any size of the *)
(* ring, any sequence of keys, and wakeups without a signal at any moment. *)
(* What concerns the messages holds as long as the operator leaves one     *)
(* slot of the ring unused: a full ring is not told from an empty one.     *)
(***************************************************************************)
EXTENDS CondQueue, QueueLemmas

USE MenuAssumption, RingAssumption, SizeAssumption

\* The size begins below the number of slots and is not raised to it.
OneSlotUnused == QUEUE_SIZE < FIXED_SIZE /\ SizeLimit < FIXED_SIZE

LEMMA ThreadsFinite == IsFiniteSet(Threads)
BY FS_Union DEF Threads

LEMMA RoleOfThread == \A t : RoleOf(t) \in Roles
BY DEF RoleOf, Roles

-------------------------------------------------------------------------------
(***************************************************************************)
(* What pthread_cond_signal does: nothing when nobody waits, and otherwise *)
(* it wakes one thread of the group.                                       *)
(***************************************************************************)
Wakes(f, g, t) ==
  f[t] = "waiting" /\ g[t] = "woken" /\ \A u \in Threads : u # t => g[u] = f[u]

LEMMA SignalWakes ==
  ASSUME NEW f \in [Threads -> Labels], NEW group \in SUBSET Threads, NEW g \in Signal(f, group)
  PROVE  /\ g \in [Threads -> Labels]
         /\ \/ g = f /\ Waiting(f, group) = {}
            \/ \E t \in group : Wakes(f, g, t)
<1>1. CASE Waiting(f, group) = {}
  BY <1>1 DEF Signal
<1>2. CASE Waiting(f, group) # {}
  <2>1. PICK t \in Waiting(f, group) : g = [f EXCEPT ![t] = "woken"]
    BY <1>2 DEF Signal
  <2>2. t \in group /\ t \in Threads /\ f[t] = "waiting"
    BY DEF Waiting
  <2> QED
    BY <2>1, <2>2 DEF Labels, Wakes
<1> QED
  BY <1>1, <1>2

-------------------------------------------------------------------------------
(***************************************************************************)
(* Kinds of steps.  Quiet is what the steps of the main thread that do not *)
(* resize have in common with those of a thread between two rounds.        *)
(***************************************************************************)
Idle     == {"none", "start", "rest", "dying", "exited"}
Critical == {"check", "filling", "copied"}

\* The types of everything but the ring.
Shapes ==
  /\ MenuTypeOK
  /\ mutex \in Threads \cup {NoThread, DeadOwner}
  /\ pc \in [Threads -> Labels] /\ main \in MainLabels
  /\ msg \in [Consumers -> Int]
  /\ current_queue_size \in 1..FIXED_SIZE

Quiet ==
  /\ \A t \in Threads : pc'[t] = pc[t] \/ (pc[t] \in Idle /\ pc'[t] \in Idle)
  /\ mutex' = mutex \/ (mutex = NoThread /\ mutex' = DeadOwner)
  /\ UNCHANGED <<ringVars, msg, current_queue_size>>

\* A step that is not quiet and leaves the ring alone.
Moves(t) == Lock(t) \/ Wait(t) \/ SpuriousWakeup(t) \/ CancelWait(t)

LEMMA MenuQuiet == ASSUME Shapes, Menu PROVE Quiet
<1>1. UNCHANGED <<mutex, ringVars, msg, current_queue_size>>
  BY DEF Menu, MenuStep, Spawn, Kill, CountUp, CountDown, Join, AskStatus, ShowStatus, Quit,
         JoinAll
<1>2. \A t \in Threads : pc'[t] = pc[t] \/ (pc[t] \in Idle /\ pc'[t] \in Idle)
  BY DEF Shapes, Menu, MenuStep, Spawn, Kill, CountUp, CountDown, Join, AskStatus, ShowStatus,
         Quit, JoinAll, Idle
<1> QED
  BY <1>1, <1>2 DEF Quiet

LEMMA StepCases ==
  ASSUME Shapes, [Next]_vars
  PROVE  \/ Quiet
         \/ \E t \in Threads : Moves(t)
         \/ \E p \in Producers : BeginFill(p) \/ EndFill(p)
         \/ \E c \in Consumers : Copy(c) \/ EndCopy(c)
         \/ Grow \/ Shrink
<1>1. CASE UNCHANGED vars
  BY <1>1 DEF vars, menuVars, Quiet
<1>2. CASE AskGrow \/ AskShrink
  BY <1>2 DEF AskGrow, AskShrink, Quiet
<1>3. ASSUME NEW t \in Threads, Sleep(t) \/ Exit(t) \/ Die(t) PROVE Quiet
  BY <1>3 DEF Shapes, Sleep, Exit, Die, Goto, MutexFree, ThreadOnly, Idle, Quiet
<1> QED
  BY <1>1, <1>2, <1>3, MenuQuiet
     DEF Next, ProducerRuns, ConsumerRuns, ThreadRuns, Resize, Moves, Threads

-------------------------------------------------------------------------------
(***************************************************************************)
(* Types.                                                                  *)
(***************************************************************************)
LEMMA ShapesStart == Init => Shapes
<1> SUFFICES ASSUME Init PROVE Shapes
  OBVIOUS
<1>1. MenuTypeOK
  BY DEF Init, MenuInit, MenuTypeOK
<1> QED
  BY <1>1 DEF Init, MenuInit, Shapes, Labels, MainLabels, NoMessage

LEMMA MenuShapes == ASSUME Shapes, Menu PROVE Shapes'
<1> USE RoleOfThread DEF Shapes
<1>1. UNCHANGED <<mutex, msg, current_queue_size>>
  BY DEF Menu, MenuStep, Spawn, Kill, CountUp, CountDown, Join, AskStatus, ShowStatus, Quit,
         JoinAll
<1>2. main' \in MainLabels
  BY DEF Menu, MenuStep, Spawn, Kill, CountUp, CountDown, Join, AskStatus, ShowStatus, Quit,
         JoinAll, Press, MainLocked, MainLabels
<1>3. pc' \in [Threads -> Labels]
  BY DEF Menu, MenuStep, Spawn, Kill, CountUp, CountDown, Join, AskStatus, ShowStatus, Quit,
         JoinAll, Labels
<1>4. ASSUME NEW r \in Roles, Spawn(r) PROVE MenuTypeOK'
  <2>1. PICK t \in Pool(r) : threads' = [threads EXCEPT ![r] = Append(@, t)] /\ subject' = t
    BY <1>4 DEF Spawn
  <2>2. t \in Threads
    BY DEF Pool, Threads
  <2>3. Append(threads[r], t) \in Seq(Threads)
    BY <2>2 DEF MenuTypeOK
  <2>4. count' = count
    BY <1>4 DEF Spawn
  <2> QED
    BY <2>1, <2>2, <2>3, <2>4 DEF MenuTypeOK
<1>5. ASSUME NEW r \in Roles, Kill(r) PROVE MenuTypeOK'
  <2>1. threads[r] \in Seq(Threads) /\ threads[r] # << >>
    BY <1>5 DEF Kill, MenuTypeOK
  <2>2. Front(threads[r]) \in Seq(Threads) /\ Last(threads[r]) \in Threads
    BY <2>1 DEF Front, Last
  <2> QED
    BY <1>5, <2>2 DEF Kill, MenuTypeOK
<1>6. ASSUME CountUp \/ CountDown PROVE MenuTypeOK'
  BY <1>6 DEF CountUp, CountDown, MenuTypeOK
<1>7. ASSUME Join \/ AskStatus \/ ShowStatus \/ Quit \/ JoinAll PROVE MenuTypeOK'
  BY <1>7 DEF Join, AskStatus, ShowStatus, Quit, JoinAll, MenuTypeOK
<1>8. MenuTypeOK'
  BY <1>4, <1>5, <1>6, <1>7 DEF Menu, MenuStep
<1> QED
  BY <1>1, <1>2, <1>3, <1>8

\* The steps of the threads, and those of '+' and '-', one variable at a time.
LEMMA OtherShapes ==
  ASSUME Shapes, RingTypeOK,
         \/ \E t \in Threads : Moves(t) \/ Sleep(t) \/ Exit(t) \/ Die(t)
         \/ \E p \in Producers : BeginFill(p) \/ EndFill(p)
         \/ \E c \in Consumers : Copy(c) \/ EndCopy(c)
         \/ Resize
  PROVE  Shapes'
<1> USE DEF Shapes
<1>1. MenuTypeOK'
  BY DEF Moves, Lock, Wait, SpuriousWakeup, CancelWait, Sleep, Exit, Die, BeginFill, EndFill,
         Copy, EndCopy, Resize, AskGrow, Grow, AskShrink, Shrink, ThreadOnly, MenuTypeOK
<1>2. main' \in MainLabels
  BY DEF Moves, Lock, Wait, SpuriousWakeup, CancelWait, Sleep, Exit, Die, BeginFill, EndFill,
         Copy, EndCopy, Resize, AskGrow, Grow, AskShrink, Shrink, ThreadOnly, Press,
         MainLocked, MainLabels
<1>3. mutex' \in Threads \cup {NoThread, DeadOwner}
  BY DEF Moves, Lock, Wait, SpuriousWakeup, CancelWait, Sleep, Exit, Die, BeginFill, EndFill,
         Copy, EndCopy, Resize, AskGrow, Grow, AskShrink, Shrink
<1>4. pc' \in [Threads -> Labels]
  <2>1. ASSUME NEW p \in Producers, EndFill(p) PROVE pc' \in [Threads -> Labels]
    <3>1. [pc EXCEPT ![p] = "rest"] \in [Threads -> Labels] /\ Consumers \in SUBSET Threads
      BY DEF Labels, Threads
    <3> QED
      BY <2>1, <3>1, SignalWakes DEF EndFill
  <2>2. ASSUME NEW c \in Consumers, EndCopy(c) PROVE pc' \in [Threads -> Labels]
    <3>1. [pc EXCEPT ![c] = "rest"] \in [Threads -> Labels] /\ Producers \in SUBSET Threads
      BY DEF Labels, Threads
    <3> QED
      BY <2>2, <3>1, SignalWakes DEF EndCopy
  <2>3. CASE Grow
    BY <2>3, SignalWakes DEF Grow, Threads
  <2>4. ASSUME NEW t \in Threads,
               \/ Moves(t) \/ Sleep(t) \/ Exit(t) \/ Die(t)
               \/ BeginFill(t) \/ Copy(t)
        PROVE  pc' \in [Threads -> Labels]
    BY <2>4 DEF Moves, Lock, Wait, SpuriousWakeup, CancelWait, Sleep, Exit, Die, BeginFill,
                Copy, Goto, Labels
  <2>5. CASE AskGrow \/ AskShrink \/ Shrink
    BY <2>5 DEF AskGrow, AskShrink, Shrink
  <2> QED
    BY <2>1, <2>2, <2>3, <2>4, <2>5 DEF Resize, Threads
<1>5. msg' \in [Consumers -> Int]
  <2>1. ASSUME NEW c \in Consumers, Copy(c) \/ EndCopy(c) PROVE msg' \in [Consumers -> Int]
    BY <2>1 DEF Copy, EndCopy, RingTypeOK, NoMessage
  <2>2. ASSUME NEW t \in Threads, Moves(t) \/ Sleep(t) \/ Exit(t) \/ Die(t)
        PROVE  UNCHANGED msg
    BY <2>2 DEF Moves, Lock, Wait, SpuriousWakeup, CancelWait, Sleep, Exit, Die
  <2>3. ASSUME NEW p \in Producers, BeginFill(p) \/ EndFill(p) PROVE UNCHANGED msg
    BY <2>3 DEF BeginFill, EndFill
  <2>4. ASSUME Resize PROVE UNCHANGED msg
    BY <2>4 DEF Resize, AskGrow, Grow, AskShrink, Shrink
  <2> QED
    BY <2>1, <2>2, <2>3, <2>4
<1>6. current_queue_size' \in 1..FIXED_SIZE
  <2>1. CASE Resize
    BY <2>1 DEF Resize, AskGrow, Grow, AskShrink, Shrink
  <2>2. CASE ~Resize
    BY <2>2 DEF Moves, Lock, Wait, SpuriousWakeup, CancelWait, Sleep, Exit, Die, BeginFill,
                EndFill, Copy, EndCopy, ThreadOnly
  <2> QED
    BY <2>1, <2>2
<1> QED
  BY <1>1, <1>2, <1>3, <1>4, <1>5, <1>6

LEMMA ShapesStep == ASSUME Shapes, RingTypeOK, [Next]_vars PROVE Shapes'
<1>1. CASE UNCHANGED vars
  BY <1>1 DEF vars, menuVars, Shapes, MenuTypeOK
<1> QED
  BY <1>1, MenuShapes, OtherShapes
     DEF Next, ProducerRuns, ConsumerRuns, ThreadRuns, Moves, Threads

-------------------------------------------------------------------------------
(***************************************************************************)
(* Mutual exclusion.                                                       *)
(***************************************************************************)
MutexInv ==
  /\ \A t \in Threads : pc[t] \in Critical <=> mutex = t
  /\ \A p \in Producers : pc[p] # "copied"
  /\ \A c \in Consumers : pc[c] # "filling"

LEMMA MutexStart == Init => MutexInv
BY DEF Init, MenuInit, MutexInv, Critical, Threads

\* A signal lets nobody into the critical section.
LEMMA MutexSignal ==
  ASSUME NEW f \in [Threads -> Labels], NEW group \in SUBSET Threads, NEW g \in Signal(f, group)
  PROVE  \A t \in Threads : /\ g[t] \in Critical <=> f[t] \in Critical
                            /\ g[t] \in {"filling", "copied"} <=> f[t] \in {"filling", "copied"}
                            /\ g[t] = f[t] \/ g[t] = "woken"
BY SignalWakes DEF Wakes, Critical

LEMMA MutexStep ==
  ASSUME Shapes, MutexInv, [Next]_vars
  PROVE  MutexInv'
<1> USE DEF Shapes, MutexInv, Threads
<1>1. CASE Quiet
  BY <1>1 DEF Quiet, Idle, Critical
<1>2. ASSUME NEW t \in Threads, Moves(t) PROVE MutexInv'
  BY <1>2 DEF Moves, Lock, Wait, SpuriousWakeup, CancelWait, Goto, MutexFree, Critical
<1>3. ASSUME NEW p \in Producers, BeginFill(p) PROVE MutexInv'
  BY <1>3 DEF BeginFill, Goto, Critical
<1>4. ASSUME NEW c \in Consumers, Copy(c) PROVE MutexInv'
  BY <1>4 DEF Copy, Goto, Critical
<1>5. ASSUME NEW t \in Threads, EndFill(t) \/ EndCopy(t) PROVE MutexInv'
  <2> DEFINE f == [pc EXCEPT ![t] = "rest"]
  <2>1. f \in [Threads -> Labels] /\ Producers \in SUBSET Threads /\ Consumers \in SUBSET Threads
    BY DEF Labels
  <2>2. \A u \in Threads : f[u] \notin Critical
    BY <1>5 DEF EndFill, EndCopy, Critical
  <2>3. pc' \in Signal(f, Producers) \/ pc' \in Signal(f, Consumers)
    BY <1>5 DEF EndFill, EndCopy
  <2> HIDE DEF f
  <2>4. \A u \in Threads : pc'[u] \notin Critical
    BY <2>1, <2>2, <2>3, MutexSignal
  <2>5. mutex' = NoThread
    BY <1>5 DEF EndFill, EndCopy
  <2> QED
    BY <2>4, <2>5 DEF Critical
<1>6. CASE Grow
  <2>1. pc' \in Signal(pc, Producers) /\ Producers \in SUBSET Threads /\ mutex' = mutex
    BY <1>6 DEF Grow
  <2>2. \A t \in Threads : /\ pc'[t] \in Critical <=> pc[t] \in Critical
                           /\ pc'[t] = pc[t] \/ pc'[t] = "woken"
    BY <2>1, MutexSignal
  <2> QED
    BY <2>1, <2>2
<1>7. CASE Shrink
  BY <1>7 DEF Shrink
<1> QED
  BY <1>1, <1>2, <1>3, <1>4, <1>5, <1>6, <1>7, StepCases

-------------------------------------------------------------------------------
(***************************************************************************)
(* What holds at any size of the queue, the full ring included.            *)
(***************************************************************************)
LEMMA RingTypes == ASSUME Shapes, RingTypeOK, [Next]_vars PROVE RingTypeOK'
<1>1. CASE BeginMessage
  BY <1>1 DEF BeginMessage, RingTypeOK, Torn
<1>2. CASE FinishMessage
  <2>1. tail \in 0..FIXED_SIZE-1 /\ producedCount \in Nat
    BY DEF RingTypeOK
  <2>2. Advance(tail) \in 0..FIXED_SIZE-1 /\ producedCount + 1 \in Nat
    BY <2>1, AdvanceInRing
  <2> QED
    BY <1>2, <2>2 DEF FinishMessage, RingTypeOK
<1>3. CASE TakeMessage
  BY <1>3, AdvanceInRing DEF TakeMessage, RingTypeOK
<1>4. CASE UNCHANGED ringVars
  BY <1>4 DEF ringVars, RingTypeOK
<1>5. ASSUME NEW t \in Threads, ThreadRuns(t) \/ SpuriousWakeup(t) PROVE UNCHANGED ringVars
  BY <1>5 DEF ThreadRuns, SpuriousWakeup, Lock, Wait, Sleep, Exit, CancelWait, Die
<1>6. ASSUME Menu \/ Resize \/ UNCHANGED vars PROVE UNCHANGED ringVars
  BY <1>6 DEF Menu, Resize, AskGrow, AskShrink, Grow, Shrink, vars
<1>7. ASSUME NEW t \in Threads, BeginFill(t) \/ EndFill(t) \/ Copy(t) \/ EndCopy(t)
      PROVE  BeginMessage \/ FinishMessage \/ TakeMessage \/ UNCHANGED ringVars
  BY <1>7 DEF BeginFill, EndFill, Copy, EndCopy
<1> QED
  BY <1>1, <1>2, <1>3, <1>4, <1>5, <1>6, <1>7 DEF Next, ProducerRuns, ConsumerRuns, Threads

BaseInv == Shapes /\ RingTypeOK /\ MutexInv

LEMMA BaseHolds == Spec => []BaseInv
<1>1. Init => BaseInv
  BY ShapesStart, RingStarts, MutexStart DEF Init, BaseInv
<1>2. BaseInv /\ [Next]_vars => BaseInv'
  BY ShapesStep, RingTypes, MutexStep DEF BaseInv
<1> QED
  BY <1>1, <1>2, PTL DEF Spec

\* parent2.c never indexes the ring out of bounds and keeps the size between 1
\* and FIXED_SIZE, for any number of threads and any sequence of keys, the size
\* at which it no longer tells a full ring from an empty one included.
THEOREM TypesHold == Spec => []TypeOK
<1>1. BaseInv => TypeOK
  BY DEF BaseInv, Shapes, TypeOK
<1> QED
  BY <1>1, BaseHolds, PTL

-------------------------------------------------------------------------------
(***************************************************************************)
(* The size.  The test '+' has made still holds when the size is raised.   *)
(***************************************************************************)
SizeInv ==
  /\ current_queue_size < FIXED_SIZE
  /\ main = "grow" => current_queue_size < SizeLimit

LEMMA SizeStart == OneSlotUnused /\ Init => SizeInv
BY DEF OneSlotUnused, Init, MenuInit, SizeInv

LEMMA SizeStep ==
  ASSUME OneSlotUnused, Shapes, SizeInv, [Next]_vars
  PROVE  SizeInv'
<1> USE DEF SizeInv, Shapes
<1>1. ASSUME UNCHANGED current_queue_size, main' = main \/ main' # "grow" PROVE SizeInv'
  BY <1>1
<1>2. CASE Menu \/ AskShrink
  BY <1>1, <1>2 DEF Menu, MenuStep, Spawn, Kill, CountUp, CountDown, Join, AskStatus,
                    ShowStatus, Quit, JoinAll, Press, MainLocked, AskShrink
<1>3. CASE AskGrow
  BY <1>3 DEF AskGrow, Press
<1>4. CASE Grow \/ Shrink
  BY <1>4 DEF Grow, Shrink, MainLocked, OneSlotUnused
<1>5. ASSUME NEW t \in Threads, Moves(t) \/ Sleep(t) \/ Exit(t) \/ Die(t) PROVE SizeInv'
  BY <1>1, <1>5 DEF Moves, Lock, Wait, SpuriousWakeup, CancelWait, Sleep, Exit, Die, ThreadOnly
<1>6. ASSUME NEW p \in Producers, BeginFill(p) \/ EndFill(p) PROVE SizeInv'
  BY <1>1, <1>6 DEF BeginFill, EndFill, ThreadOnly
<1>7. ASSUME NEW c \in Consumers, Copy(c) \/ EndCopy(c) PROVE SizeInv'
  BY <1>1, <1>7 DEF Copy, EndCopy, ThreadOnly
<1>8. CASE UNCHANGED vars
  BY <1>1, <1>8 DEF vars, menuVars
<1> QED
  BY <1>2, <1>3, <1>4, <1>5, <1>6, <1>7, <1>8
     DEF Next, ProducerRuns, ConsumerRuns, ThreadRuns, Moves, Resize, Threads

-------------------------------------------------------------------------------
(***************************************************************************)
(* The messages.  What a thread has read from head and tail is still true  *)
(* when it acts on it, for it has the mutex.                               *)
(***************************************************************************)
CountInv ==
  /\ Outstanding \in 0..FIXED_SIZE-1
  /\ \A p \in Producers : pc[p] = "filling" => Outstanding < current_queue_size
  /\ \A c \in Consumers : pc[c] = "copied" => Outstanding > 0

RingAll == RingTypeOK /\ RingInv /\ CountInv /\ InOrder

LEMMA RingStart == Init => RingAll
BY RingStarts
   DEF Init, MenuInit, RingInit, RingAll, CountInv, InOrder, Outstanding, Threads

LEMMA UsedCount ==
  ASSUME RingTypeOK, RingInv, Outstanding \in 0..FIXED_SIZE-1
  PROVE  Used = Outstanding
<1>1. head \in 0..FIXED_SIZE-1 /\ tail \in 0..FIXED_SIZE-1 /\ tail = Wrap(head + Outstanding)
  BY DEF RingTypeOK, RingInv
<1>2. Used = IF tail < head THEN tail - head + FIXED_SIZE ELSE tail - head
  BY <1>1 DEF Used
<1> QED
  BY <1>1, <1>2 DEF Wrap

LEMMA RingStep ==
  ASSUME Shapes, MutexInv, MutexInv', SizeInv, RingAll, [Next]_vars
  PROVE  RingAll'
<1>1. /\ RingTypeOK /\ RingInv /\ Outstanding \in 0..FIXED_SIZE-1
      /\ current_queue_size \in 1..FIXED_SIZE-1
      /\ Used = Outstanding
  BY UsedCount DEF RingAll, CountInv, SizeInv, Shapes
<1>2. ASSUME UNCHANGED <<ringVars, msg, current_queue_size>>,
             \A t \in Threads : pc'[t] \in {"filling", "copied"} => pc'[t] = pc[t]
      PROVE  RingAll'
  <2>1. RingTypeOK' /\ RingInv' /\ Outstanding' = Outstanding
    BY <1>1, <1>2, RingKept
  <2> QED
    BY <1>2, <2>1 DEF RingAll, CountInv, InOrder, ringVars, Threads
<1>3. ASSUME RingTypeOK', RingInv', Outstanding' \in 0..FIXED_SIZE-1, mutex' = NoThread
      PROVE  RingAll'
  BY <1>3 DEF MutexInv, RingAll, CountInv, InOrder, Critical, Threads
<1>4. CASE Quiet
  BY <1>2, <1>4 DEF Quiet, Idle
<1>5. ASSUME NEW t \in Threads, Moves(t) PROVE RingAll'
  <2>1. UNCHANGED <<ringVars, msg, current_queue_size>>
    BY <1>5 DEF Moves, Lock, Wait, SpuriousWakeup, CancelWait, ThreadOnly
  <2>2. \A u \in Threads : pc'[u] \in {"filling", "copied"} => pc'[u] = pc[u]
    BY <1>5 DEF Moves, Lock, Wait, SpuriousWakeup, CancelWait, Goto, Shapes
  <2> QED
    BY <1>2, <2>1, <2>2
<1>6. ASSUME NEW p \in Producers, BeginFill(p) PROVE RingAll'
  <2>1. BeginMessage /\ Outstanding < current_queue_size
    BY <1>1, <1>6 DEF BeginFill, Full
  <2>2. RingTypeOK' /\ RingInv' /\ Outstanding' = Outstanding
    BY <1>1, <2>1, RingBegins
  <2>3. \A c \in Consumers : pc'[c] # "copied"
    BY <1>6 DEF BeginFill, Goto, MutexInv, Critical, Shapes, Threads
  <2>4. current_queue_size' = current_queue_size
    BY <1>6 DEF BeginFill, ThreadOnly
  <2> QED
    BY <1>1, <2>1, <2>2, <2>3, <2>4 DEF RingAll, CountInv, InOrder
<1>7. ASSUME NEW p \in Producers, EndFill(p) PROVE RingAll'
  <2>1. FinishMessage /\ mutex' = NoThread /\ Outstanding < current_queue_size
    BY <1>7 DEF EndFill, RingAll, CountInv
  <2>2. RingTypeOK' /\ RingInv' /\ Outstanding' = Outstanding + 1
    BY <1>1, <2>1, RingFinishes
  <2> QED
    BY <1>1, <1>3, <2>1, <2>2
<1>8. ASSUME NEW c \in Consumers, Copy(c) PROVE RingAll'
  <2>1. Outstanding \in 1..FIXED_SIZE
    BY <1>1, <1>8 DEF Copy, Empty
  <2>2. buffer[head] = consumedCount + 1
    BY <1>1, <2>1, RingOldest
  <2>3. RingTypeOK' /\ RingInv' /\ Outstanding' = Outstanding /\ consumedCount' = consumedCount
    BY <1>1, <1>8, RingKept DEF Copy, ringVars
  <2>4. \A d \in Consumers : pc'[d] = "copied" => d = c
    BY <1>8 DEF Copy, Goto, MutexInv, Critical, Shapes, Threads
  <2>5. \A p \in Producers : pc'[p] # "filling"
    BY <1>8 DEF Copy, Goto, MutexInv, Critical, Shapes, Threads
  <2>6. msg'[c] = buffer[head]
    BY <1>8 DEF Copy, Shapes
  <2> QED
    BY <1>1, <2>1, <2>2, <2>3, <2>4, <2>5, <2>6 DEF RingAll, CountInv, InOrder
<1>9. ASSUME NEW c \in Consumers, EndCopy(c) PROVE RingAll'
  <2>1. TakeMessage /\ mutex' = NoThread /\ Outstanding > 0
    BY <1>9 DEF EndCopy, RingAll, CountInv
  <2>2. RingTypeOK' /\ RingInv' /\ Outstanding' = Outstanding - 1
    BY <1>1, <2>1, RingTakes
  <2> QED
    BY <1>1, <1>3, <2>1, <2>2
<1>10. CASE Grow \/ Shrink
  <2>1. UNCHANGED ringVars /\ mutex' = NoThread
    BY <1>10 DEF Grow, Shrink, MainLocked, MutexFree
  <2>2. RingTypeOK' /\ RingInv' /\ Outstanding' = Outstanding
    BY <1>1, <2>1, RingKept
  <2> QED
    BY <1>1, <1>3, <2>1, <2>2
<1> QED
  BY <1>4, <1>5, <1>6, <1>7, <1>8, <1>9, <1>10, StepCases

-------------------------------------------------------------------------------
(***************************************************************************)
(* Wakeups.  Awake counts the threads of a group that will look at the     *)
(* condition again, or have seen it true.                                  *)
(***************************************************************************)
Awake(f, group) == Number(f, group, {"woken", "check", "filling", "copied"})
Asleep(f, group) == Waiting(f, group) # {}

WakeInv ==
  /\ Asleep(pc, Producers) => current_queue_size - Outstanding <= Awake(pc, Producers)
  /\ Asleep(pc, Consumers) => Outstanding <= Awake(pc, Consumers)

Groups == {Producers, Consumers}

LEMMA AwakeType ==
  ASSUME NEW f, NEW group \in Groups
  PROVE  Awake(f, group) \in Nat
BY NumberType DEF Awake, Groups

\* What it means for a group that one thread goes from one label to another.
LEMMA AwakeMoves ==
  ASSUME NEW f, NEW g, NEW group \in Groups,
         NEW t, \A u \in group : u # t => g[u] = f[u]
  PROVE  /\ Awake(g, group)
              = Awake(f, group)
                + (IF t \in group /\ g[t] \in {"woken", "check", "filling", "copied"} THEN 1 ELSE 0)
                - (IF t \in group /\ f[t] \in {"woken", "check", "filling", "copied"} THEN 1 ELSE 0)
         /\ Asleep(g, group) => Asleep(f, group) \/ (t \in group /\ g[t] = "waiting")
<1>1. IsFiniteSet(group)
  BY DEF Groups
<1> QED
  BY <1>1, NumberMoves DEF Awake, Asleep, Waiting

\* A signal adds one to the threads awake, if anybody of the group waits.
LEMMA AwakeSignal ==
  ASSUME NEW f \in [Threads -> Labels], NEW group \in Groups, NEW other \in Groups,
         group \cap other = {}, NEW g \in Signal(f, group)
  PROVE  /\ Asleep(g, group) => Asleep(f, group) /\ Awake(g, group) = Awake(f, group) + 1
         /\ Awake(g, other) = Awake(f, other)
         /\ Asleep(g, other) <=> Asleep(f, other)
<1>0. group \in SUBSET Threads /\ other \in SUBSET Threads /\ group \cap other = {}
  BY DEF Groups, Threads
<1>1. CASE g = f /\ Waiting(f, group) = {}
  BY <1>1 DEF Asleep
<1>2. ASSUME NEW t \in group, Wakes(f, g, t)
      PROVE  /\ Asleep(g, group) => Asleep(f, group) /\ Awake(g, group) = Awake(f, group) + 1
             /\ Awake(g, other) = Awake(f, other)
             /\ Asleep(g, other) <=> Asleep(f, other)
  <2>1. /\ f[t] = "waiting" /\ g[t] = "woken"
        /\ \A u \in Threads : u # t => g[u] = f[u]
    BY <1>2 DEF Wakes
  <2>2. \A u \in group : u # t => g[u] = f[u]
    BY <1>0, <2>1
  <2>3. \A u \in other : g[u] = f[u]
    BY <1>0, <2>1
  <2>4. Asleep(f, group)
    BY <2>1 DEF Asleep, Waiting
  <2>5. Awake(g, group) = Awake(f, group) + 1
    BY <2>1, <2>2, AwakeMoves, AwakeType
  <2>6. Awake(g, other) = Awake(f, other)
    BY <2>3, NumberSame DEF Awake
  <2>7. Asleep(g, other) <=> Asleep(f, other)
    BY <2>3 DEF Asleep, Waiting
  <2> QED
    BY <2>4, <2>5, <2>6, <2>7
<1>3. (g = f /\ Waiting(f, group) = {}) \/ \E t \in group : Wakes(f, g, t)
  BY <1>0, SignalWakes
<1> QED
  BY <1>1, <1>2, <1>3

\* A smaller queue has less room.
LEMMA LessRoom ==
  ASSUME NEW size \in Int, NEW smaller \in Int, smaller <= size,
         NEW used \in Int, NEW awake \in Int, size - used <= awake
  PROVE  smaller - used <= awake
OBVIOUS

LEMMA WakeStart == Init => WakeInv
BY DEF Init, MenuInit, WakeInv, Asleep, Waiting, Threads

LEMMA WakeStep ==
  ASSUME Shapes, MutexInv, SizeInv, RingAll, WakeInv, [Next]_vars
  PROVE  WakeInv'
<1> DEFINE P  == Awake(pc, Producers)   P1 == Awake(pc', Producers)
           C  == Awake(pc, Consumers)   C1 == Awake(pc', Consumers)
<1>1. P \in Nat /\ C \in Nat /\ P1 \in Nat /\ C1 \in Nat
  BY AwakeType DEF Groups
<1>2. /\ Used = Outstanding /\ Outstanding \in 0..FIXED_SIZE-1
      /\ current_queue_size \in 1..FIXED_SIZE
      /\ producedCount \in Nat /\ consumedCount \in Nat
  BY UsedCount DEF RingAll, CountInv, RingTypeOK, Shapes
<1>3. /\ Asleep(pc, Producers) => current_queue_size - Outstanding <= P
      /\ Asleep(pc, Consumers) => Outstanding <= C
  BY DEF WakeInv
<1>4. SUFFICES /\ Asleep(pc', Producers) => current_queue_size' - Outstanding' <= P1
               /\ Asleep(pc', Consumers) => Outstanding' <= C1
  BY DEF WakeInv
<1>5. Producers \in Groups /\ Consumers \in Groups /\ Producers \cap Consumers = {}
      /\ Producers \in SUBSET Threads /\ Consumers \in SUBSET Threads
  BY DEF Groups, Threads
<1>6. ASSUME NEW t \in Threads, NEW a, NEW b, Goto(t, a, b)
      PROVE  \A group \in Groups :
               /\ Awake(pc', group)
                    = Awake(pc, group)
                      + (IF t \in group /\ b \in {"woken", "check", "filling", "copied"} THEN 1 ELSE 0)
                      - (IF t \in group /\ a \in {"woken", "check", "filling", "copied"} THEN 1 ELSE 0)
               /\ Asleep(pc', group) => Asleep(pc, group) \/ (t \in group /\ b = "waiting")
  <2>1. pc[t] = a /\ pc'[t] = b /\ \A u \in Threads : u # t => pc'[u] = pc[u]
    BY <1>6 DEF Goto, Shapes
  <2>2. \A group \in Groups : group \in SUBSET Threads
    BY <1>5 DEF Groups
  <2> QED
    BY <2>1, <2>2, AwakeMoves
<1>7. CASE Quiet
  <2>1. P1 = P /\ C1 = C
    BY <1>5, <1>7, NumberSame DEF Quiet, Idle, Awake
  <2>2. /\ Asleep(pc', Producers) <=> Asleep(pc, Producers)
        /\ Asleep(pc', Consumers) <=> Asleep(pc, Consumers)
    BY <1>5, <1>7 DEF Quiet, Idle, Asleep, Waiting
  <2> HIDE DEF P, C, P1, C1
  <2> QED
    BY <1>3, <1>7, <2>1, <2>2 DEF Quiet, ringVars, Outstanding
<1>8. ASSUME NEW t \in Threads, NEW a, NEW b, Goto(t, a, b),
             UNCHANGED <<producedCount, consumedCount, current_queue_size>>,
             b # "waiting",
             a \in {"woken", "check", "filling", "copied"}
               => b \in {"woken", "check", "filling", "copied"}
      PROVE  /\ Asleep(pc', Producers) => current_queue_size' - Outstanding' <= P1
             /\ Asleep(pc', Consumers) => Outstanding' <= C1
  <2>1. /\ P1 >= P /\ (Asleep(pc', Producers) => Asleep(pc, Producers))
        /\ C1 >= C /\ (Asleep(pc', Consumers) => Asleep(pc, Consumers))
    BY <1>1, <1>5, <1>6, <1>8
  <2> HIDE DEF P, C, P1, C1
  <2> QED
    BY <1>1, <1>2, <1>3, <1>8, <2>1 DEF Outstanding
<1>9. ASSUME NEW t \in Threads, Moves(t)
      PROVE  /\ Asleep(pc', Producers) => current_queue_size' - Outstanding' <= P1
             /\ Asleep(pc', Consumers) => Outstanding' <= C1
  <2> HIDE DEF P, C, P1, C1
  <2>1. UNCHANGED <<producedCount, consumedCount, current_queue_size>>
    BY <1>9 DEF Moves, Lock, Wait, SpuriousWakeup, CancelWait, ThreadOnly, ringVars
  <2>2. CASE Lock(t)
    <3>1. PICK a \in {"start", "woken"} : Goto(t, a, "check")
      BY <2>2 DEF Lock, Goto
    <3> QED
      BY <1>8, <2>1, <3>1
  <2>3. CASE SpuriousWakeup(t) \/ CancelWait(t)
    <3>1. PICK b \in {"woken", "dying"} : Goto(t, "waiting", b)
      BY <2>3 DEF SpuriousWakeup, CancelWait
    <3> QED
      BY <1>8, <2>1, <3>1
  <2>4. CASE Wait(t) /\ t \in Producers
    <3>1. Goto(t, "check", "waiting") /\ Outstanding >= current_queue_size
      BY <1>2, <2>4 DEF Wait, Full
    <3>2. C1 = C /\ (Asleep(pc', Consumers) => Asleep(pc, Consumers))
      BY <1>1, <1>5, <1>6, <2>4, <3>1 DEF C, C1
    <3> QED
      BY <1>1, <1>2, <1>3, <2>1, <3>1, <3>2 DEF Outstanding
  <2>5. CASE Wait(t) /\ t \in Consumers
    <3>1. Goto(t, "check", "waiting") /\ Outstanding = 0
      BY <1>2, <1>5, <2>5 DEF Wait, Empty
    <3>2. P1 = P /\ (Asleep(pc', Producers) => Asleep(pc, Producers))
      BY <1>1, <1>5, <1>6, <2>5, <3>1 DEF P, P1
    <3> QED
      BY <1>1, <1>2, <1>3, <2>1, <3>1, <3>2 DEF Outstanding
  <2> QED
    BY <1>9, <2>2, <2>3, <2>4, <2>5 DEF Moves, Threads
<1>10. ASSUME NEW p \in Producers, BeginFill(p)
       PROVE  /\ Asleep(pc', Producers) => current_queue_size' - Outstanding' <= P1
              /\ Asleep(pc', Consumers) => Outstanding' <= C1
  BY <1>5, <1>8, <1>10 DEF BeginFill, BeginMessage, ThreadOnly
<1>11. ASSUME NEW c \in Consumers, Copy(c)
       PROVE  /\ Asleep(pc', Producers) => current_queue_size' - Outstanding' <= P1
              /\ Asleep(pc', Consumers) => Outstanding' <= C1
  BY <1>5, <1>8, <1>11 DEF Copy, ringVars, ThreadOnly
<1>12. ASSUME NEW p \in Producers, EndFill(p)
       PROVE  /\ Asleep(pc', Producers) => current_queue_size' - Outstanding' <= P1
              /\ Asleep(pc', Consumers) => Outstanding' <= C1
  <2> DEFINE f == [pc EXCEPT ![p] = "rest"]
  <2>1. /\ f \in [Threads -> Labels] /\ pc[p] = "filling" /\ f[p] = "rest"
        /\ \A u \in Threads : u # p => f[u] = pc[u]
    BY <1>5, <1>12 DEF Shapes, EndFill, Labels
  <2>2. /\ pc' \in Signal(f, Consumers) /\ current_queue_size' = current_queue_size
        /\ consumedCount' = consumedCount /\ producedCount' = producedCount + 1
    BY <1>12 DEF EndFill, FinishMessage, ThreadOnly
  <2> HIDE DEF f, P, C, P1, C1
  <2>3. /\ Awake(f, Producers) = P - 1 /\ (Asleep(f, Producers) => Asleep(pc, Producers))
        /\ Awake(f, Consumers) = C /\ (Asleep(f, Consumers) => Asleep(pc, Consumers))
    <3>1. p \in Producers /\ \A u \in Producers : u # p => f[u] = pc[u]
      BY <1>5, <2>1
    <3>2. \A u \in Consumers : f[u] = pc[u]
      BY <1>5, <2>1
    <3>3. Awake(f, Producers) = P - 1 /\ (Asleep(f, Producers) => Asleep(pc, Producers))
      BY <1>1, <1>5, <2>1, <3>1, AwakeMoves DEF P
    <3>4. Awake(f, Consumers) = C
      BY <3>2, NumberSame DEF Awake, C
    <3>5. Asleep(f, Consumers) => Asleep(pc, Consumers)
      BY <3>2 DEF Asleep, Waiting
    <3> QED
      BY <3>3, <3>4, <3>5
  <2>4. /\ Asleep(pc', Consumers) => Asleep(f, Consumers) /\ C1 = C + 1
        /\ P1 = P - 1 /\ (Asleep(pc', Producers) => Asleep(f, Producers))
    BY <1>5, <2>1, <2>2, <2>3, AwakeSignal DEF P1, C1
  <2> QED
    BY <1>1, <1>2, <1>3, <2>2, <2>3, <2>4 DEF Outstanding
<1>13. ASSUME NEW c \in Consumers, EndCopy(c)
       PROVE  /\ Asleep(pc', Producers) => current_queue_size' - Outstanding' <= P1
              /\ Asleep(pc', Consumers) => Outstanding' <= C1
  <2> DEFINE f == [pc EXCEPT ![c] = "rest"]
  <2>1. /\ f \in [Threads -> Labels] /\ pc[c] = "copied" /\ f[c] = "rest"
        /\ \A u \in Threads : u # c => f[u] = pc[u]
    BY <1>5, <1>13 DEF Shapes, EndCopy, Labels
  <2>2. /\ pc' \in Signal(f, Producers) /\ current_queue_size' = current_queue_size
        /\ producedCount' = producedCount /\ consumedCount' = consumedCount + 1
    BY <1>13 DEF EndCopy, TakeMessage, ThreadOnly
  <2> HIDE DEF f, P, C, P1, C1
  <2>3. /\ Awake(f, Consumers) = C - 1 /\ (Asleep(f, Consumers) => Asleep(pc, Consumers))
        /\ Awake(f, Producers) = P /\ (Asleep(f, Producers) => Asleep(pc, Producers))
    <3>1. c \in Consumers /\ \A u \in Consumers : u # c => f[u] = pc[u]
      BY <1>5, <2>1
    <3>2. \A u \in Producers : f[u] = pc[u]
      BY <1>5, <2>1
    <3>3. Awake(f, Consumers) = C - 1 /\ (Asleep(f, Consumers) => Asleep(pc, Consumers))
      BY <1>1, <1>5, <2>1, <3>1, AwakeMoves DEF C
    <3>4. Awake(f, Producers) = P
      BY <3>2, NumberSame DEF Awake, P
    <3>5. Asleep(f, Producers) => Asleep(pc, Producers)
      BY <3>2 DEF Asleep, Waiting
    <3> QED
      BY <3>3, <3>4, <3>5
  <2>4. /\ Asleep(pc', Producers) => Asleep(f, Producers) /\ P1 = P + 1
        /\ C1 = C - 1 /\ (Asleep(pc', Consumers) => Asleep(f, Consumers))
    BY <1>5, <2>1, <2>2, <2>3, AwakeSignal DEF P1, C1
  <2> QED
    BY <1>1, <1>2, <1>3, <2>2, <2>3, <2>4 DEF Outstanding
<1>14. CASE Grow
  <2>1. /\ pc' \in Signal(pc, Producers) /\ current_queue_size' = current_queue_size + 1
        /\ UNCHANGED <<producedCount, consumedCount>> /\ pc \in [Threads -> Labels]
    BY <1>14 DEF Grow, ringVars, Shapes
  <2> HIDE DEF P, C, P1, C1
  <2>2. /\ Asleep(pc', Producers) => Asleep(pc, Producers) /\ P1 = P + 1
        /\ C1 = C /\ (Asleep(pc', Consumers) => Asleep(pc, Consumers))
    BY <1>5, <2>1, AwakeSignal DEF P, C, P1, C1
  <2> QED
    BY <1>1, <1>2, <1>3, <2>1, <2>2 DEF Outstanding
<1>15. CASE Shrink
  <2>1. UNCHANGED <<producedCount, consumedCount, pc>>
    BY <1>15 DEF Shrink, ringVars
  <2>2. current_queue_size' <= current_queue_size /\ current_queue_size' \in Nat
    BY <1>2, <1>15 DEF Shrink
  <2>3. Outstanding' = Outstanding
    BY <2>1 DEF Outstanding
  <2>4. Asleep(pc', Producers) => current_queue_size - Outstanding <= P1
    BY <1>3, <2>1
  <2>5. Asleep(pc', Consumers) => Outstanding <= C1
    BY <1>3, <2>1
  <2>6. Asleep(pc', Producers) => current_queue_size' - Outstanding <= P1
    BY <1>1, <1>2, <2>2, <2>4, LessRoom
  <2> QED
    BY <2>3, <2>5, <2>6
<1> QED
  BY <1>7, <1>9, <1>10, <1>11, <1>12, <1>13, <1>14, <1>15, StepCases

-------------------------------------------------------------------------------
(***************************************************************************)
(* The inductive invariant.                                                *)
(***************************************************************************)
SafetyInv == Shapes /\ MutexInv /\ SizeInv /\ RingAll /\ WakeInv

LEMMA SafetyStart == OneSlotUnused /\ Init => SafetyInv
BY ShapesStart, MutexStart, SizeStart, RingStart, WakeStart DEF SafetyInv

LEMMA SafetyStep == OneSlotUnused /\ SafetyInv /\ [Next]_vars => SafetyInv'
<1> SUFFICES ASSUME OneSlotUnused, SafetyInv, [Next]_vars PROVE SafetyInv'
  OBVIOUS
<1>1. Shapes' /\ MutexInv' /\ SizeInv'
  BY ShapesStep, MutexStep, SizeStep DEF SafetyInv, RingAll
<1>2. RingAll'
  BY <1>1, RingStep DEF SafetyInv
<1>3. WakeInv'
  BY WakeStep DEF SafetyInv
<1> QED
  BY <1>1, <1>2, <1>3 DEF SafetyInv

\* The inductive invariant of parent2.c, as long as the operator leaves one slot
\* of the ring unused: types, mutual exclusion, the account of messages by head
\* and tail, the contents of the ring, and a thread awake for every free place
\* and every message somebody waits for.
THEOREM SafetyHolds == OneSlotUnused => (Spec => []SafetyInv)
<1> SUFFICES ASSUME OneSlotUnused PROVE Spec => []SafetyInv
  OBVIOUS
<1>1. Init => SafetyInv
  BY SafetyStart
<1>2. SafetyInv /\ [Next]_vars => SafetyInv'
  BY SafetyStep
<1> QED
  BY <1>1, <1>2, PTL DEF Spec

\* head and tail tell how many messages there are: neither wait loop of
\* parent2.c is ever wrong about the queue being full or empty.
THEOREM CountHolds == OneSlotUnused => (Spec => []CountFromIndices)
<1>1. SafetyInv => CountFromIndices
  <2> SUFFICES ASSUME SafetyInv PROVE CountFromIndices
    OBVIOUS
  <2>1. RingTypeOK /\ RingInv /\ Outstanding \in 0..FIXED_SIZE-1
    BY DEF SafetyInv, RingAll, CountInv
  <2> QED
    BY <2>1, UsedCount DEF CountFromIndices
<1> QED
  BY <1>1, SafetyHolds, PTL

\* Every message a consumer copies out of the ring is the oldest one not yet
\* consumed, whole: its hash verifies.
THEOREM InOrderHolds == OneSlotUnused => (Spec => []InOrder)
<1>1. SafetyInv => InOrder
  BY DEF SafetyInv, RingAll
<1> QED
  BY <1>1, SafetyHolds, PTL

\* No signal of parent2.c goes to nobody while somebody it concerns waits: while
\* producers wait, as many producers are awake as there are free places, and
\* while consumers wait, as many consumers as there are messages.
THEOREM WakeupsHold == OneSlotUnused => (Spec => []NoLostWakeup)
<1>1. SafetyInv => NoLostWakeup
  <2> SUFFICES ASSUME SafetyInv PROVE NoLostWakeup
    OBVIOUS
  <2>1. /\ Asleep(pc, Producers) => current_queue_size - Outstanding <= Awake(pc, Producers)
        /\ Asleep(pc, Consumers) => Outstanding <= Awake(pc, Consumers)
    BY DEF SafetyInv, WakeInv
  <2>2. /\ \A p \in Producers : pc[p] # "copied"
        /\ \A c \in Consumers : pc[c] # "filling"
    BY DEF SafetyInv, MutexInv
  <2>3. /\ At(pc, Producers, {"woken", "check", "filling", "copied"})
             = On({"woken", "check", "filling"}, Producers)
        /\ At(pc, Consumers, {"woken", "check", "filling", "copied"})
             = On({"woken", "check", "copied"}, Consumers)
    BY <2>2 DEF At, On
  <2>4. /\ Asleep(pc, Producers) <=> On({"waiting"}, Producers) # {}
        /\ Asleep(pc, Consumers) <=> On({"waiting"}, Consumers) # {}
    BY DEF Asleep, Waiting, On
  <2> QED
    BY <2>1, <2>3, <2>4 DEF Awake, Number, NoLostWakeup
<1> QED
  BY <1>1, SafetyHolds, PTL

-------------------------------------------------------------------------------
(***************************************************************************)
(* The refinement: the end of a producer's critical section is Produce,    *)
(* the end of a consumer's is Consume, and only '+' and '-' resize.        *)
(***************************************************************************)
LEMMA FifoInit == Init => Fifo!Init
<1> SUFFICES ASSUME Init PROVE Fifo!Init
  OBVIOUS
<1>1. Contents = << >>
  BY DEF Init, RingInit, Contents, Outstanding
<1> QED
  BY <1>1 DEF Init, RingInit, Fifo!Init

LEMMA FifoStep ==
  ASSUME SafetyInv, current_queue_size' \in 1..FIXED_SIZE, [Next]_vars
  PROVE  [Fifo!Next]_(Fifo!fifoVars)
<1> USE DEF Fifo!Next, Fifo!fifoVars
<1>1. RingTypeOK /\ RingInv /\ Outstanding \in 0..FIXED_SIZE-1 /\ Used = Outstanding
  BY UsedCount DEF SafetyInv, RingAll, CountInv
<1>2. ASSUME UNCHANGED <<ringVars, current_queue_size>> PROVE [Fifo!Next]_(Fifo!fifoVars)
  BY <1>2 DEF ringVars, Contents, Outstanding
<1>3. CASE Quiet
  BY <1>2, <1>3 DEF Quiet
<1>4. ASSUME NEW t \in Threads, Moves(t) PROVE [Fifo!Next]_(Fifo!fifoVars)
  BY <1>2, <1>4 DEF Moves, Lock, Wait, SpuriousWakeup, CancelWait, ThreadOnly
<1>5. ASSUME NEW p \in Producers, BeginFill(p) PROVE [Fifo!Next]_(Fifo!fifoVars)
  <2>1. BeginMessage /\ current_queue_size' = current_queue_size
    BY <1>5 DEF BeginFill, ThreadOnly
  <2>2. Contents' = Contents
    BY <1>1, <2>1, ContentsStay
  <2> QED
    BY <2>1, <2>2 DEF BeginMessage
<1>6. ASSUME NEW p \in Producers, EndFill(p) PROVE [Fifo!Next]_(Fifo!fifoVars)
  <2>1. /\ FinishMessage /\ current_queue_size' = current_queue_size
        /\ Outstanding < current_queue_size
    BY <1>6 DEF EndFill, ThreadOnly, SafetyInv, RingAll, CountInv
  <2>2. /\ Len(Contents) = Outstanding
        /\ producedCount' = producedCount + 1 /\ consumedCount' = consumedCount
        /\ Contents' = Append(Contents, producedCount')
    BY <1>1, <2>1, ContentsGrow
  <2> QED
    BY <2>1, <2>2 DEF Fifo!Produce
<1>7. ASSUME NEW c \in Consumers, Copy(c) PROVE [Fifo!Next]_(Fifo!fifoVars)
  BY <1>2, <1>7 DEF Copy, ThreadOnly
<1>8. ASSUME NEW c \in Consumers, EndCopy(c) PROVE [Fifo!Next]_(Fifo!fifoVars)
  <2>1. /\ TakeMessage /\ current_queue_size' = current_queue_size
        /\ Outstanding \in 1..FIXED_SIZE
    BY <1>1, <1>8 DEF EndCopy, ThreadOnly, SafetyInv, RingAll, CountInv
  <2>2. /\ Contents # << >> /\ consumedCount' = Head(Contents)
        /\ producedCount' = producedCount /\ Contents' = Tail(Contents)
    BY <1>1, <2>1, ContentsShrink
  <2> QED
    BY <2>1, <2>2 DEF Fifo!Consume
<1>9. CASE Grow \/ Shrink
  <2>1. UNCHANGED ringVars
    BY <1>9 DEF Grow, Shrink
  <2>2. UNCHANGED <<Contents, producedCount, consumedCount>>
    BY <2>1 DEF ringVars, Contents, Outstanding
  <2> QED
    BY <2>2 DEF Fifo!Resize
<1> QED
  BY <1>3, <1>4, <1>5, <1>6, <1>7, <1>8, <1>9, StepCases DEF SafetyInv

\* parent2.c implements the first-in first-out queue of BoundedFifo: whatever the
\* interleaving and whoever wakes without a signal, messages come out once each,
\* in order, and one is put in only while there is room.
THEOREM FifoImplemented == OneSlotUnused => (Spec => ImplementsFifo)
<1>1. SafetyInv /\ SafetyInv' /\ [Next]_vars => [Fifo!Next]_(Fifo!fifoVars)
  <2>1. SafetyInv' => current_queue_size' \in 1..FIXED_SIZE
    BY DEF SafetyInv, Shapes
  <2> QED
    BY <2>1, FifoStep
<1> QED
  BY <1>1, FifoInit, SafetyHolds, PTL DEF Spec, ImplementsFifo, Fifo!Spec

-------------------------------------------------------------------------------
(***************************************************************************)
(* Nobody waits for nothing.  CanGoOn(t) is what the next statement of t   *)
(* needs; a thread that waits on a condition does not go on by itself.     *)
(* (MaxProduced, a bound of the model, is put aside: producer() has no     *)
(* such test.)                                                             *)
(***************************************************************************)
Living(group) == {t \in group : pc[t] \notin {"none", "exited"}}

CanGoOn(t) ==
  \/ pc[t] \in {"check", "filling", "copied", "rest"}
  \/ pc[t] \in {"start", "woken", "dying"} /\ MutexFree

SomebodyGoesOn ==
  Living(Producers) # {} /\ Living(Consumers) # {}
    => mutex = DeadOwner \/ \E t \in Threads : CanGoOn(t)

LEMMA GoesOn == SafetyInv => SomebodyGoesOn
<1> SUFFICES ASSUME SafetyInv, mutex # DeadOwner,
                    NEW p \in Living(Producers), NEW c \in Living(Consumers),
                    \A t \in Threads : ~CanGoOn(t)
             PROVE  FALSE
  BY DEF SomebodyGoesOn
<1>1. /\ p \in Producers /\ pc[p] \notin {"none", "exited"}
      /\ c \in Consumers /\ pc[c] \notin {"none", "exited"}
      /\ p \in Threads /\ c \in Threads
  BY DEF Living, Threads
<1>2. /\ pc \in [Threads -> Labels] /\ mutex \in Threads \cup {NoThread, DeadOwner}
      /\ current_queue_size \in 1..FIXED_SIZE
  BY DEF SafetyInv, Shapes
\* The owner of the mutex would go on, so it is free ...
<1>3. MutexFree
  <2>1. SUFFICES ASSUME mutex \in Threads PROVE FALSE
    BY <1>2 DEF MutexFree
  <2>2. pc[mutex] \in {"check", "filling", "copied"}
    BY <2>1 DEF SafetyInv, MutexInv, Critical
  <2> QED
    BY <2>1, <2>2 DEF CanGoOn
\* ... and whoever lives waits for a signal, with nobody awake.
<1>4. \A t \in Threads : pc[t] \in {"none", "waiting", "exited"}
  BY <1>2, <1>3 DEF CanGoOn, Labels
<1>5. Asleep(pc, Producers) /\ Asleep(pc, Consumers)
  BY <1>1, <1>4 DEF Asleep, Waiting
<1>6. Awake(pc, Producers) = 0 /\ Awake(pc, Consumers) = 0
  BY <1>4, NumberZero DEF Awake, Threads
<1>7. current_queue_size - Outstanding <= 0 /\ Outstanding <= 0
  BY <1>5, <1>6 DEF SafetyInv, WakeInv
<1>8. Outstanding \in Int
  BY DEF SafetyInv, RingAll, CountInv
<1> QED
  BY <1>2, <1>7, <1>8

\* As long as there are a producer and a consumer, the threads of parent2.c never
\* all sleep or wait for each other: somebody's next statement does not block,
\* unless a kill has left the mutex with nobody (lines 63 and 82).
THEOREM SomebodyAlwaysGoesOn == OneSlotUnused => (Spec => []SomebodyGoesOn)
BY GoesOn, SafetyHolds, PTL

\* Such a kill stops the queue for good: from then on nobody puts a message in
\* or takes one out, and the size no longer changes.
Stopped == UNCHANGED <<mutex, ringVars, current_queue_size>>

LEMMA DeadStays ==
  MutexInv /\ mutex = DeadOwner /\ [Next]_vars => Stopped
<1> SUFFICES ASSUME MutexInv, mutex = DeadOwner, [Next]_vars PROVE Stopped
  OBVIOUS
<1>1. ~MutexFree /\ \A t \in Threads : pc[t] \notin Critical
  BY DEF MutexFree, MutexInv
<1>2. CASE UNCHANGED vars
  BY <1>2 DEF vars, menuVars, Stopped
<1>3. CASE Menu
  BY <1>3 DEF Menu, MenuStep, Spawn, Kill, CountUp, CountDown, Join, AskStatus, ShowStatus,
              Quit, JoinAll, Stopped
<1>4. CASE Resize
  BY <1>1, <1>4 DEF Resize, AskGrow, AskShrink, Grow, Shrink, MainLocked, Stopped
<1>5. ASSUME NEW t \in Threads, ThreadRuns(t) \/ SpuriousWakeup(t) PROVE Stopped
  BY <1>1, <1>5 DEF ThreadRuns, SpuriousWakeup, Lock, Wait, Sleep, Exit, CancelWait, Die,
                    ThreadOnly, Goto, Critical, Stopped
<1>6. ASSUME NEW t \in Threads, BeginFill(t) \/ EndFill(t) \/ Copy(t) \/ EndCopy(t)
      PROVE  FALSE
  BY <1>1, <1>6 DEF BeginFill, EndFill, Copy, EndCopy, Goto, Critical
<1> QED
  BY <1>2, <1>3, <1>4, <1>5, <1>6 DEF Next, ProducerRuns, ConsumerRuns, Threads

\* Killing a thread inside pthread_cond_wait (parent2.c installs no cleanup
\* handler) can end the service: once the mutex belongs to a thread that has
\* ended, no later step changes the ring, the size or the mutex.
THEOREM DeadForGood == Spec => [][mutex = DeadOwner => Stopped]_vars
<1>1. BaseInv /\ [Next]_vars => [mutex = DeadOwner => Stopped]_vars
  BY DeadStays DEF BaseInv
<1> QED
  BY <1>1, BaseHolds, PTL DEF Spec
==============================================================================
