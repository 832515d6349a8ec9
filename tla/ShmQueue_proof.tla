---------------------------- MODULE ShmQueue_proof ----------------------------
(***************************************************************************)
(* The safety of Lab4/parent.c for any number of processes, any size of    *)
(* the ring, and signals at any moment.                                    *)
(***************************************************************************)
EXTENDS ShmQueue, QueueLemmas

USE ShmAssumption, RingAssumption

-------------------------------------------------------------------------------
(***************************************************************************)
(* Kinds of steps.  Outside is what all steps of the parent, and those of  *)
(* a process that holds no token, have in common.  Abandon is the step in  *)
(* which a token is lost.                                                  *)
(***************************************************************************)
Idle     == {"none", "forked", "check", "call", "blocked", "exited"}
Hand     == {"lockCall", "lockBlocked", "locked", "filling", "copied", "post"}
Critical == {"locked", "filling", "copied"}

\* The types of everything but the ring.
Shapes ==
  /\ SEM_MUTEX \in 0..1 /\ SEM_FILL_COUNT \in Nat /\ SEM_EMPTY_COUNT \in Nat
  /\ pc \in [Processes -> Labels] /\ main \in MainLabels
  /\ needTerminate \in [Processes -> BOOLEAN] /\ pending \subseteq Processes
  /\ msg \in [Consumers -> Int]
  /\ pids \in [Roles -> Seq(Processes)]
  /\ subject \in Processes \cup {NoProcess}

Outside ==
  /\ \A t \in Processes : pc'[t] = pc[t] \/ (pc[t] \in Idle /\ pc'[t] \in Idle)
  /\ UNCHANGED <<semVars, ringVars, msg>>

Abandon(t) ==
  /\ Goto(t, "lockBlocked", "exited")
  /\ UNCHANGED <<semVars, ringVars, msg>>

\* A step of a process that takes, has or gives a token.
Work(t) == TakeToken(t) \/ TakeMutex(t) \/ BlockForMutex(t) \/ GiveToken(t)

ProducerWork(p) == Work(p) \/ BeginFill(p) \/ EndFill(p)
ConsumerWork(c) == Work(c) \/ Copy(c) \/ EndCopy(c)

LEMMA ProcessesFinite == IsFiniteSet(Processes)
BY FS_Union DEF Processes

LEMMA LoopCases ==
  ASSUME Shapes, NEW t \in Processes, LoopStep(t)
  PROVE  Outside \/ Work(t)
<1>1. CASE InstallHandlers(t) \/ Check(t) \/ BlockForToken(t)
  BY <1>1 DEF Shapes, InstallHandlers, Check, BlockForToken, Goto, Outside, Idle
<1> QED
  BY <1>1 DEF LoopStep, Work

LEMMA DeliverCases ==
  ASSUME Shapes, NEW t \in Processes, Deliver(t)
  PROVE  Outside \/ Abandon(t)
<1>1. UNCHANGED <<semVars, ringVars, msg>>
  BY DEF Deliver
<1>2. CASE pc[t] = "lockBlocked"
  BY <1>1, <1>2 DEF Shapes, Deliver, AfterSignal, Abandon, Goto
<1>3. CASE pc[t] # "lockBlocked"
  BY <1>1, <1>3 DEF Shapes, Deliver, AfterSignal, Outside, Idle
<1> QED
  BY <1>2, <1>3

LEMMA ParentOutside ==
  ASSUME Shapes, (\E r \in Roles : Spawn(r) \/ Kill(r)) \/ Reap \/ Quit \/ ReapAll
  PROVE  Outside
<1>1. UNCHANGED <<semVars, ringVars, msg>>
  BY DEF Spawn, Kill, Reap, Quit, ReapAll, ParentOnly
<1>2. CASE \E r \in Roles : Spawn(r)
  BY <1>1, <1>2 DEF Shapes, Spawn, Goto, Outside, Idle
<1>3. CASE Reap
  BY <1>1, <1>3 DEF Shapes, Reap, Goto, Outside, Idle
<1>4. CASE (\E r \in Roles : Kill(r)) \/ Quit \/ ReapAll
  BY <1>1, <1>4 DEF Kill, Quit, ReapAll, Outside
<1> QED
  BY <1>2, <1>3, <1>4

LEMMA StepCases ==
  ASSUME Shapes, [Next]_vars
  PROVE  \/ Outside
         \/ \E t \in Processes : Abandon(t)
         \/ \E p \in Producers : ProducerWork(p)
         \/ \E c \in Consumers : ConsumerWork(c)
<1>1. CASE UNCHANGED vars
  BY <1>1 DEF vars, procVars, Outside
<1>2. ASSUME NEW p \in Producers, ProducerStep(p) PROVE Outside \/ ProducerWork(p)
  BY <1>2, LoopCases DEF ProducerStep, ProducerWork, Processes
<1>3. ASSUME NEW c \in Consumers, ConsumerStep(c) PROVE Outside \/ ConsumerWork(c)
  BY <1>3, LoopCases DEF ConsumerStep, ConsumerWork, Processes
<1> QED
  BY <1>1, <1>2, <1>3, DeliverCases, ParentOutside DEF Next

-------------------------------------------------------------------------------
(***************************************************************************)
(* Mutual exclusion.  SEM_MUTEX is zero just when some process is in its   *)
(* critical section, and then there is one.                                *)
(***************************************************************************)
MutexInv ==
  /\ SEM_MUTEX = 0 <=> \E t \in Processes : pc[t] \in Critical
  /\ \A t, u \in Processes : pc[t] \in Critical /\ pc[u] \in Critical => t = u
  /\ \A p \in Producers : pc[p] # "copied"
  /\ \A c \in Consumers : pc[c] # "filling"

LEMMA MutexStep ==
  ASSUME Shapes, MutexInv, [Next]_vars
  PROVE  MutexInv'
<1> USE DEF Shapes, MutexInv, Processes, Critical
<1>1. CASE Outside
  BY <1>1 DEF Outside, Idle, semVars
<1>2. ASSUME NEW t \in Processes, Abandon(t) PROVE MutexInv'
  BY <1>2 DEF Abandon, Goto, semVars
<1>3. ASSUME NEW t \in Processes, Work(t) PROVE MutexInv'
  <2>1. CASE TakeMutex(t)
    BY <2>1 DEF TakeMutex
  <2>2. CASE TakeToken(t) \/ BlockForMutex(t) \/ GiveToken(t)
    BY <2>2 DEF TakeToken, BlockForMutex, GiveToken, Goto, semVars
  <2> QED
    BY <1>3, <2>1, <2>2 DEF Work
<1>4. ASSUME NEW p \in Producers, BeginFill(p) PROVE MutexInv'
  BY <1>4 DEF BeginFill, Goto, semVars
<1>5. ASSUME NEW p \in Producers, EndFill(p) PROVE MutexInv'
  BY <1>5 DEF EndFill, Goto
<1>6. ASSUME NEW c \in Consumers, Copy(c) PROVE MutexInv'
  BY <1>6 DEF Copy, Goto, semVars
<1>7. ASSUME NEW c \in Consumers, EndCopy(c) PROVE MutexInv'
  BY <1>7 DEF EndCopy, Goto
<1> QED
  BY <1>1, <1>2, <1>3, <1>4, <1>5, <1>6, <1>7, StepCases DEF ProducerWork, ConsumerWork

(***************************************************************************)
(* Types.                                                                  *)
(***************************************************************************)
LEMMA ShapesStart == Init => Shapes /\ MutexInv
<1> SUFFICES ASSUME Init PROVE Shapes /\ MutexInv
  OBVIOUS
<1>1. Shapes
  BY DEF Init, Shapes, Labels, MainLabels, NoMessage
<1>2. MutexInv
  BY DEF Init, MutexInv, Critical, Processes
<1> QED
  BY <1>1, <1>2

LEMMA ChildShapes ==
  ASSUME Shapes, MutexInv, RingTypeOK, NEW t \in Processes,
         \/ t \in Producers /\ ProducerStep(t)
         \/ t \in Consumers /\ ConsumerStep(t)
         \/ Deliver(t)
  PROVE  Shapes'
<1> USE DEF Shapes
<1>1. UNCHANGED mainVars /\ pending' \subseteq Processes
  BY DEF ProducerStep, ConsumerStep, LoopStep, Deliver, ProcessOnly, InstallHandlers, Check,
         TakeToken, BlockForToken, TakeMutex, BlockForMutex, GiveToken, BeginFill, EndFill,
         Copy, EndCopy
<1>2. pc' \in [Processes -> Labels] /\ needTerminate' \in [Processes -> BOOLEAN]
  <2>1. CASE Deliver(t)
    BY <2>1 DEF Deliver, AfterSignal, Labels
  <2>2. CASE ~Deliver(t)
    BY <2>2 DEF ProducerStep, ConsumerStep, LoopStep, ProcessOnly, InstallHandlers, Check,
         TakeToken, BlockForToken, TakeMutex, BlockForMutex, GiveToken, BeginFill, EndFill,
         Copy, EndCopy, Goto, Labels
  <2> QED
    BY <2>1, <2>2
<1>3. SEM_FILL_COUNT' \in Nat /\ SEM_EMPTY_COUNT' \in Nat
  BY DEF ProducerStep, ConsumerStep, LoopStep, Deliver, semVars, InstallHandlers, Check,
         TakeToken, Available, BlockForToken, TakeMutex, BlockForMutex, GiveToken, BeginFill,
         EndFill, Copy, EndCopy
<1>4. SEM_MUTEX' \in 0..1
  <2>1. CASE EndFill(t) \/ EndCopy(t)
    BY <2>1 DEF EndFill, EndCopy, Goto, MutexInv, Critical
  <2>2. CASE ~(EndFill(t) \/ EndCopy(t))
    BY <2>2 DEF ProducerStep, ConsumerStep, LoopStep, Deliver, semVars, InstallHandlers,
         Check, TakeToken, BlockForToken, TakeMutex, BlockForMutex, GiveToken, BeginFill,
         Copy
  <2> QED
    BY <2>1, <2>2
<1>5. msg' \in [Consumers -> Int]
  <2>1. CASE (Copy(t) \/ EndCopy(t)) /\ t \in Consumers
    BY <2>1 DEF Copy, EndCopy, RingTypeOK, NoMessage
  <2>2. CASE UNCHANGED msg
    BY <2>2
  <2> QED
    BY <2>1, <2>2 DEF ProducerStep, ConsumerStep, LoopStep, Deliver, InstallHandlers, Check,
         TakeToken, BlockForToken, TakeMutex, BlockForMutex, GiveToken, BeginFill, EndFill
<1> QED
  BY <1>1, <1>2, <1>3, <1>4, <1>5 DEF mainVars

LEMMA ParentShapes ==
  ASSUME Shapes, (\E r \in Roles : Spawn(r) \/ Kill(r)) \/ Reap \/ Quit \/ ReapAll
  PROVE  Shapes'
<1> USE DEF Shapes
<1>1. UNCHANGED <<semVars, msg>> /\ main' \in MainLabels
  BY DEF Spawn, Kill, Reap, Quit, ReapAll, ParentOnly, Press, MainLabels
<1>2. ASSUME NEW r \in Roles, Spawn(r) PROVE Shapes'
  <2>1. PICK t \in Pool(r) :
           /\ Goto(t, "none", "forked")
           /\ needTerminate' = [needTerminate EXCEPT ![t] = FALSE]
           /\ pids' = [pids EXCEPT ![r] = Append(@, t)]
    BY <1>2 DEF Spawn
  <2>2. t \in Processes
    BY DEF Pool, Processes
  <2>3. Append(pids[r], t) \in Seq(Processes)
    BY <2>2
  <2> QED
    BY <1>1, <1>2, <2>1, <2>2, <2>3 DEF Spawn, Goto, Labels, semVars
<1>3. ASSUME NEW r \in Roles, Kill(r) PROVE Shapes'
  <2>1. pids[r] \in Seq(Processes) /\ pids[r] # << >>
    BY <1>3 DEF Kill
  <2>2. Last(pids[r]) \in Processes
    BY <2>1 DEF Last
  <2> QED
    BY <1>1, <1>3, <2>2 DEF Kill, semVars
<1>4. CASE Reap
  <2>1. RoleOf(subject) \in Roles
    BY DEF RoleOf, Roles
  <2>2. pids[RoleOf(subject)] \in Seq(Processes)
    BY <2>1
  <2>3. Front(pids[RoleOf(subject)]) \in Seq(Processes)
    BY <2>2 DEF Front
  <2> QED
    BY <1>1, <1>4, <2>1, <2>3 DEF Reap, Goto, Labels, semVars
<1>5. CASE Quit
  <2>1. Listed \subseteq Processes
    <3>1. ASSUME NEW r \in Roles, NEW i \in 1..Len(pids[r]) PROVE pids[r][i] \in Processes
      BY <3>1
    <3> QED
      BY <3>1 DEF Listed
  <2> QED
    BY <1>1, <1>5, <2>1 DEF Quit, semVars
<1>6. CASE ReapAll
  BY <1>1, <1>6 DEF ReapAll, semVars
<1> QED
  BY <1>2, <1>3, <1>4, <1>5, <1>6

LEMMA ShapesStep ==
  ASSUME Shapes, MutexInv, RingTypeOK, [Next]_vars
  PROVE  Shapes'
<1>1. CASE UNCHANGED vars
  BY <1>1 DEF vars, semVars, procVars, mainVars, Shapes
<1> QED
  BY <1>1, ChildShapes, ParentShapes DEF Next, Processes

-------------------------------------------------------------------------------
(***************************************************************************)
(* Tokens and messages.  A token of SEM_EMPTY_COUNT, or one on its way     *)
(* there or from there, is a free slot; a token of SEM_FILL_COUNT, or one  *)
(* on its way, is a message.  The converse does not hold once a process    *)
(* has been killed with a token, hence the inequalities: a slot, or a      *)
(* message, may be left that no token stands for.                          *)
(***************************************************************************)
Writing == {"lockCall", "lockBlocked", "locked", "filling"}
Claimed == {"lockCall", "lockBlocked", "locked", "copied"}
Done    == {"post"}

Room  == SEM_EMPTY_COUNT + Number(pc, Producers, Writing) + Number(pc, Consumers, Done)
Stock == SEM_FILL_COUNT + Number(pc, Consumers, Claimed) + Number(pc, Producers, Done)

TokenInv == Room <= FIXED_SIZE - Outstanding /\ Stock <= Outstanding

LEMMA TokenTypes ==
  ASSUME Shapes, RingTypeOK
  PROVE  Room \in Nat /\ Stock \in Nat /\ Outstanding \in Int
<1>1. /\ SEM_EMPTY_COUNT \in Nat /\ SEM_FILL_COUNT \in Nat
      /\ producedCount \in Nat /\ consumedCount \in Nat
  BY DEF Shapes, RingTypeOK
<1>2. /\ Number(pc, Producers, Writing) \in Nat /\ Number(pc, Consumers, Done) \in Nat
      /\ Number(pc, Consumers, Claimed) \in Nat /\ Number(pc, Producers, Done) \in Nat
  BY NumberType, ShmAssumption
<1> QED
  BY <1>1, <1>2 DEF Room, Stock, Outstanding

LEMMA TokenStart == Init => TokenInv
<1> SUFFICES ASSUME Init PROVE TokenInv
  OBVIOUS
<1>1. /\ Number(pc, Producers, Writing) = 0 /\ Number(pc, Consumers, Done) = 0
      /\ Number(pc, Consumers, Claimed) = 0 /\ Number(pc, Producers, Done) = 0
  BY NumberZero DEF Init, Processes, Writing, Claimed, Done
<1> QED
  BY <1>1 DEF Init, RingInit, TokenInv, Room, Stock, Outstanding

\* What a step of one process from a to b does to these numbers.
LEMMA ProducerMoves ==
  ASSUME Shapes, NEW p \in Producers, NEW a, NEW b, Goto(p, a, b)
  PROVE  /\ Number(pc', Producers, Writing)
              = Number(pc, Producers, Writing)
                + (IF b \in Writing THEN 1 ELSE 0) - (IF a \in Writing THEN 1 ELSE 0)
         /\ Number(pc', Producers, Done)
              = Number(pc, Producers, Done)
                + (IF b \in Done THEN 1 ELSE 0) - (IF a \in Done THEN 1 ELSE 0)
         /\ Number(pc', Consumers, Claimed) = Number(pc, Consumers, Claimed)
         /\ Number(pc', Consumers, Done) = Number(pc, Consumers, Done)
<1>1. pc[p] = a /\ pc'[p] = b /\ \A u \in Processes : u # p => pc'[u] = pc[u]
  BY DEF Goto, Shapes, Processes
<1>2. \A c \in Consumers : pc'[c] = pc[c]
  BY <1>1 DEF Processes
<1>3. /\ Number(pc', Consumers, Claimed) = Number(pc, Consumers, Claimed)
      /\ Number(pc', Consumers, Done) = Number(pc, Consumers, Done)
  BY <1>2, NumberSame
<1>4. \A u \in Producers : u # p => pc'[u] = pc[u]
  BY <1>1 DEF Processes
<1> QED
  BY <1>1, <1>3, <1>4, NumberMoves

LEMMA ConsumerMoves ==
  ASSUME Shapes, NEW c \in Consumers, NEW a, NEW b, Goto(c, a, b)
  PROVE  /\ Number(pc', Consumers, Claimed)
              = Number(pc, Consumers, Claimed)
                + (IF b \in Claimed THEN 1 ELSE 0) - (IF a \in Claimed THEN 1 ELSE 0)
         /\ Number(pc', Consumers, Done)
              = Number(pc, Consumers, Done)
                + (IF b \in Done THEN 1 ELSE 0) - (IF a \in Done THEN 1 ELSE 0)
         /\ Number(pc', Producers, Writing) = Number(pc, Producers, Writing)
         /\ Number(pc', Producers, Done) = Number(pc, Producers, Done)
<1>1. pc[c] = a /\ pc'[c] = b /\ \A u \in Processes : u # c => pc'[u] = pc[u]
  BY DEF Goto, Shapes, Processes
<1>2. \A p \in Producers : pc'[p] = pc[p]
  BY <1>1 DEF Processes
<1>3. /\ Number(pc', Producers, Writing) = Number(pc, Producers, Writing)
      /\ Number(pc', Producers, Done) = Number(pc, Producers, Done)
  BY <1>2, NumberSame
<1>4. \A u \in Consumers : u # c => pc'[u] = pc[u]
  BY <1>1 DEF Processes
<1> QED
  BY <1>1, <1>3, <1>4, NumberMoves

LEMMA TakeCases ==
  ASSUME NEW t
  PROVE  /\ TakeToken(t) => \E a \in {"call", "blocked"} : Goto(t, a, "lockCall")
         /\ TakeMutex(t) => \E a \in {"lockCall", "lockBlocked"} : Goto(t, a, "locked")
BY DEF TakeToken, TakeMutex, Goto

LEMMA TokenStep ==
  ASSUME Shapes, MutexInv, RingTypeOK, TokenInv, [Next]_vars
  PROVE  TokenInv'
<1> DEFINE w  == Number(pc, Producers, Writing)   w1 == Number(pc', Producers, Writing)
           f  == Number(pc, Producers, Done)      f1 == Number(pc', Producers, Done)
           k  == Number(pc, Consumers, Claimed)   k1 == Number(pc', Consumers, Claimed)
           d  == Number(pc, Consumers, Done)      d1 == Number(pc', Consumers, Done)
<1>1. w \in Nat /\ f \in Nat /\ k \in Nat /\ d \in Nat
  BY NumberType
<1>2. SEM_EMPTY_COUNT \in Nat /\ SEM_FILL_COUNT \in Nat
  BY DEF Shapes
<1>3. producedCount \in Nat /\ consumedCount \in Nat
  BY DEF RingTypeOK
<1>4. /\ SEM_EMPTY_COUNT + w + d <= FIXED_SIZE - (producedCount - consumedCount)
      /\ SEM_FILL_COUNT + k + f <= producedCount - consumedCount
  BY DEF TokenInv, Room, Stock, Outstanding
<1>5. SUFFICES
        /\ SEM_EMPTY_COUNT' + w1 + d1 <= FIXED_SIZE - (producedCount' - consumedCount')
        /\ SEM_FILL_COUNT' + k1 + f1 <= producedCount' - consumedCount'
  BY DEF TokenInv, Room, Stock, Outstanding
<1>6. CASE Outside
  <2>1. w1 = w /\ f1 = f /\ k1 = k /\ d1 = d
    BY <1>6, NumberSame DEF Outside, Idle, Processes, Writing, Claimed, Done
  <2> HIDE DEF w, f, k, d, w1, f1, k1, d1
  <2> QED
    BY <1>4, <1>6, <2>1 DEF Outside, semVars, ringVars
<1>7. ASSUME NEW p \in Producers, NEW a, NEW b, Goto(p, a, b)
      PROVE  /\ w1 = w + (IF b \in Writing THEN 1 ELSE 0) - (IF a \in Writing THEN 1 ELSE 0)
             /\ f1 = f + (IF b \in Done THEN 1 ELSE 0) - (IF a \in Done THEN 1 ELSE 0)
             /\ k1 = k /\ d1 = d
  BY <1>7, ProducerMoves
<1>8. ASSUME NEW c \in Consumers, NEW a, NEW b, Goto(c, a, b)
      PROVE  /\ k1 = k + (IF b \in Claimed THEN 1 ELSE 0) - (IF a \in Claimed THEN 1 ELSE 0)
             /\ d1 = d + (IF b \in Done THEN 1 ELSE 0) - (IF a \in Done THEN 1 ELSE 0)
             /\ w1 = w /\ f1 = f
  BY <1>8, ConsumerMoves
<1> HIDE DEF w, f, k, d, w1, f1, k1, d1
<1> USE <1>1, <1>2, <1>3, <1>4 DEF Writing, Claimed, Done
<1>9. ASSUME NEW p \in Producers, ProducerWork(p) \/ Abandon(p)
      PROVE  /\ SEM_EMPTY_COUNT' + w1 + d1 <= FIXED_SIZE - (producedCount' - consumedCount')
             /\ SEM_FILL_COUNT' + k1 + f1 <= producedCount' - consumedCount'
  <2>1. CASE TakeToken(p)
    <3>1. PICK a \in {"call", "blocked"} : Goto(p, a, "lockCall")
      BY <2>1, TakeCases
    <3> QED
      BY <1>7, <2>1, <3>1 DEF TakeToken, ringVars
  <2>2. CASE TakeMutex(p)
    <3>1. PICK a \in {"lockCall", "lockBlocked"} : Goto(p, a, "locked")
      BY <2>2, TakeCases
    <3> QED
      BY <1>7, <2>2, <3>1 DEF TakeMutex, ringVars
  <2>3. CASE BlockForMutex(p)
    BY <1>7, <2>3 DEF BlockForMutex, semVars, ringVars
  <2>4. CASE GiveToken(p)
    BY <1>7, <2>4 DEF GiveToken, ringVars
  <2>5. CASE BeginFill(p)
    BY <1>7, <2>5 DEF BeginFill, BeginMessage, semVars
  <2>6. CASE EndFill(p)
    BY <1>7, <2>6 DEF EndFill, FinishMessage
  <2>7. CASE Abandon(p)
    BY <1>7, <2>7 DEF Abandon, semVars, ringVars
  <2> QED
    BY <1>9, <2>1, <2>2, <2>3, <2>4, <2>5, <2>6, <2>7 DEF ProducerWork, Work
<1>10. ASSUME NEW c \in Consumers, ConsumerWork(c) \/ Abandon(c)
       PROVE  /\ SEM_EMPTY_COUNT' + w1 + d1 <= FIXED_SIZE - (producedCount' - consumedCount')
              /\ SEM_FILL_COUNT' + k1 + f1 <= producedCount' - consumedCount'
  <2>0. c \notin Producers
    OBVIOUS
  <2>1. CASE TakeToken(c)
    <3>1. PICK a \in {"call", "blocked"} : Goto(c, a, "lockCall")
      BY <2>1, TakeCases
    <3> QED
      BY <1>8, <2>0, <2>1, <3>1 DEF TakeToken, ringVars
  <2>2. CASE TakeMutex(c)
    <3>1. PICK a \in {"lockCall", "lockBlocked"} : Goto(c, a, "locked")
      BY <2>2, TakeCases
    <3> QED
      BY <1>8, <2>2, <3>1 DEF TakeMutex, ringVars
  <2>3. CASE BlockForMutex(c)
    BY <1>8, <2>3 DEF BlockForMutex, semVars, ringVars
  <2>4. CASE GiveToken(c)
    BY <1>8, <2>0, <2>4 DEF GiveToken, ringVars
  <2>5. CASE Copy(c)
    BY <1>8, <2>5 DEF Copy, semVars, ringVars
  <2>6. CASE EndCopy(c)
    BY <1>8, <2>6 DEF EndCopy, TakeMessage
  <2>7. CASE Abandon(c)
    BY <1>8, <2>7 DEF Abandon, semVars, ringVars
  <2> QED
    BY <1>10, <2>1, <2>2, <2>3, <2>4, <2>5, <2>6, <2>7 DEF ConsumerWork, Work
<1> QED
  BY <1>6, <1>9, <1>10, StepCases DEF Processes

\* A producer in its critical section has room, a consumer a message.
LEMMA Bounds ==
  ASSUME Shapes, RingTypeOK, TokenInv
  PROVE  /\ Outstanding \in 0..FIXED_SIZE
         /\ \A p \in Producers : pc[p] \in Writing => Outstanding \in 0..FIXED_SIZE-1
         /\ \A c \in Consumers : pc[c] \in Claimed => Outstanding \in 1..FIXED_SIZE
<1>1. /\ Number(pc, Producers, Writing) \in Nat /\ Number(pc, Consumers, Done) \in Nat
      /\ Number(pc, Consumers, Claimed) \in Nat /\ Number(pc, Producers, Done) \in Nat
  BY NumberType
<1>2. /\ SEM_EMPTY_COUNT \in Nat /\ SEM_FILL_COUNT \in Nat /\ Outstanding \in Int
  BY TokenTypes DEF Shapes
<1>3. /\ Outstanding \in 0..FIXED_SIZE
      /\ Number(pc, Producers, Writing) >= 1 => Outstanding \in 0..FIXED_SIZE-1
      /\ Number(pc, Consumers, Claimed) >= 1 => Outstanding \in 1..FIXED_SIZE
  BY <1>1, <1>2 DEF TokenInv, Room, Stock
<1> QED
  BY <1>3, NumberPositive

-------------------------------------------------------------------------------
(***************************************************************************)
(* The messages.                                                           *)
(***************************************************************************)
LEMMA RingStep ==
  ASSUME Shapes, MutexInv, RingTypeOK, TokenInv, RingInv, InOrder, [Next]_vars
  PROVE  RingTypeOK' /\ RingInv' /\ InOrder'
<1> USE DEF InOrder
<1>1. CASE UNCHANGED <<ringVars, msg>> /\ \A c \in Consumers : pc'[c] = "copied" => pc[c] = "copied"
  BY <1>1, RingKept DEF ringVars
<1>2. CASE Outside
  <2>1. UNCHANGED <<ringVars, msg>> /\ \A c \in Consumers : pc'[c] = "copied" => pc[c] = "copied"
    BY <1>2 DEF Outside, Idle, Processes
  <2> QED
    BY <1>1, <2>1
<1>3. ASSUME NEW t \in Processes, Abandon(t) \/ Work(t) PROVE RingTypeOK' /\ RingInv' /\ InOrder'
  <2>1. UNCHANGED <<ringVars, msg>>
    BY <1>3 DEF Abandon, Work, TakeToken, TakeMutex, BlockForMutex, GiveToken
  <2>2. \A c \in Consumers : pc'[c] = "copied" => pc[c] = "copied"
    BY <1>3 DEF Abandon, Work, TakeToken, TakeMutex, BlockForMutex, GiveToken, Goto, Shapes,
                Processes
  <2> QED
    BY <1>1, <2>1, <2>2
<1>4. ASSUME NEW p \in Producers, BeginFill(p) PROVE RingTypeOK' /\ RingInv' /\ InOrder'
  <2>1. Outstanding \in 0..FIXED_SIZE-1 /\ BeginMessage
    BY <1>4, Bounds DEF BeginFill, Goto, Writing
  <2>2. \A c \in Consumers : pc'[c] = "copied" => pc[c] = "copied"
    BY <1>4 DEF BeginFill, Goto, Shapes, Processes
  <2> QED
    BY <1>4, <2>1, <2>2, RingBegins DEF BeginFill, BeginMessage
<1>5. ASSUME NEW p \in Producers, EndFill(p) PROVE RingTypeOK' /\ RingInv' /\ InOrder'
  <2>1. Outstanding \in 0..FIXED_SIZE-1 /\ FinishMessage
    BY <1>5, Bounds DEF EndFill, Goto, Writing
  <2>2. \A c \in Consumers : pc'[c] = "copied" => pc[c] = "copied"
    BY <1>5 DEF EndFill, Goto, Shapes, Processes
  <2> QED
    BY <1>5, <2>1, <2>2, RingFinishes DEF EndFill, FinishMessage
<1>6. ASSUME NEW c \in Consumers, Copy(c) PROVE RingTypeOK' /\ RingInv' /\ InOrder'
  <2>1. Outstanding \in 1..FIXED_SIZE
    BY <1>6, Bounds DEF Copy, Goto, Claimed
  <2>2. buffer[head] = consumedCount + 1
    BY <2>1, RingOldest
  <2>3. RingTypeOK' /\ RingInv' /\ consumedCount' = consumedCount
    BY <1>6, RingKept DEF Copy, ringVars
  <2> QED
    BY <1>6, <2>2, <2>3 DEF Copy, Goto, Shapes, Processes
<1>7. ASSUME NEW c \in Consumers, EndCopy(c) PROVE RingTypeOK' /\ RingInv' /\ InOrder'
  <2>1. Outstanding \in 1..FIXED_SIZE /\ TakeMessage
    BY <1>7, Bounds DEF EndCopy, Goto, Claimed
  <2>2. RingTypeOK' /\ RingInv'
    BY <2>1, RingTakes
  <2>3. \A e \in Consumers : pc'[e] # "copied"
    BY <1>7 DEF EndCopy, Goto, MutexInv, Critical, Shapes, Processes
  <2> QED
    BY <2>2, <2>3
<1> QED
  BY <1>2, <1>3, <1>4, <1>5, <1>6, <1>7, StepCases DEF ProducerWork, ConsumerWork, Processes

-------------------------------------------------------------------------------
(***************************************************************************)
(* The inductive invariant and what follows from it.                       *)
(***************************************************************************)
SafetyInv ==
  Shapes /\ MutexInv /\ RingTypeOK /\ TokenInv /\ RingInv /\ InOrder

LEMMA SafetyStart == Init => SafetyInv
<1> SUFFICES ASSUME Init PROVE SafetyInv
  OBVIOUS
<1>1. RingTypeOK /\ RingInv
  BY RingStarts DEF Init
<1>2. InOrder
  BY DEF Init, InOrder, Processes
<1> QED
  BY <1>1, <1>2, ShapesStart, TokenStart DEF SafetyInv

\* The inductive invariant of Lab4: one live process at most in its critical
\* section, no more tokens than free places or messages, and the ring in order.
THEOREM SafetyHolds == Spec => []SafetyInv
<1>1. SafetyInv /\ [Next]_vars => SafetyInv'
  BY ShapesStep, MutexStep, TokenStep, RingStep DEF SafetyInv
<1> QED
  BY <1>1, SafetyStart, PTL DEF Spec

\* The state of Lab4 always has its type: whatever processes are killed, no
\* index leaves the ring and SEM_MUTEX stays a binary semaphore.
THEOREM TypesHold == Spec => []TypeOK
<1>1. SafetyInv => TypeOK
  BY DEF SafetyInv, Shapes, TypeOK
<1> QED
  BY <1>1, SafetyHolds, PTL

\* SIGTERM never ends a process inside its critical section, so the mutex is
\* never lost: while it is taken, one living process has it (lines 113 to 189).
THEOREM MutexHolds == Spec => []MutexHeldByLiving
<1>1. SafetyInv => MutexHeldByLiving
  <2> SUFFICES ASSUME SafetyInv PROVE MutexHeldByLiving
    OBVIOUS
  <2> DEFINE C == On({"locked", "filling", "copied"})
  <2>1. CASE SEM_MUTEX = 1
    <3>1. C = {}
      BY <2>1 DEF SafetyInv, MutexInv, Critical, On
    <3> QED
      BY <2>1, <3>1, FS_EmptySet DEF MutexHeldByLiving
  <2>2. CASE SEM_MUTEX = 0
    <3>1. PICK t \in Processes : C = {t}
      BY <2>2 DEF SafetyInv, MutexInv, Critical, On
    <3> QED
      BY <2>2, <3>1, FS_Singleton DEF MutexHeldByLiving
  <2> QED
    BY <2>1, <2>2 DEF SafetyInv, Shapes
<1> QED
  BY <1>1, SafetyHolds, PTL

\* Every message comes out once, whole and in order, however many processes are
\* killed and whatever tokens are lost with them (hash_ok=YES, lines 181 to 185).
THEOREM InOrderHolds == Spec => []InOrder
<1>1. SafetyInv => InOrder
  BY DEF SafetyInv
<1> QED
  BY <1>1, SafetyHolds, PTL

-------------------------------------------------------------------------------
(***************************************************************************)
(* Where a token can be lost.                                              *)
(***************************************************************************)
LEMMA TokensOfHand ==
  /\ Tokens = SEM_EMPTY_COUNT + SEM_FILL_COUNT + Number(pc, Processes, Hand)
  /\ Tokens' = SEM_EMPTY_COUNT' + SEM_FILL_COUNT' + Number(pc', Processes, Hand)
BY DEF Tokens, On, Number, At, Hand

LEMMA TokensStep ==
  ASSUME Shapes, [Next]_vars, \A t \in Processes : ~Abandon(t)
  PROVE  Tokens' = Tokens
<1> DEFINE n == Number(pc, Processes, Hand)
           m == Number(pc', Processes, Hand)
<1>1. n \in Nat /\ SEM_EMPTY_COUNT \in Nat /\ SEM_FILL_COUNT \in Nat
  BY NumberType, ProcessesFinite DEF Shapes
<1>2. SUFFICES SEM_EMPTY_COUNT' + SEM_FILL_COUNT' + m = SEM_EMPTY_COUNT + SEM_FILL_COUNT + n
  BY TokensOfHand
<1>3. CASE Outside
  <2>1. m = n
    BY <1>3, NumberSame DEF Outside, Idle, Hand
  <2> HIDE DEF n, m
  <2> QED
    BY <1>3, <2>1 DEF Outside, semVars
<1>4. ASSUME NEW t \in Processes, NEW a, NEW b, Goto(t, a, b)
      PROVE  m = n + (IF b \in Hand THEN 1 ELSE 0) - (IF a \in Hand THEN 1 ELSE 0)
  <2>1. pc[t] = a /\ pc'[t] = b /\ \A u \in Processes : u # t => pc'[u] = pc[u]
    BY <1>4 DEF Goto, Shapes
  <2> QED
    BY <2>1, NumberMoves, ProcessesFinite
<1> HIDE DEF n, m
<1> USE <1>1 DEF Hand, Processes
<1>5. ASSUME NEW t \in Processes, Work(t)
      PROVE  SEM_EMPTY_COUNT' + SEM_FILL_COUNT' + m = SEM_EMPTY_COUNT + SEM_FILL_COUNT + n
  <2>1. CASE TakeToken(t)
    <3>1. PICK a \in {"call", "blocked"} : Goto(t, a, "lockCall")
      BY <2>1, TakeCases
    <3> QED
      BY <1>4, <2>1, <3>1 DEF TakeToken
  <2>2. CASE TakeMutex(t)
    <3>1. PICK a \in {"lockCall", "lockBlocked"} : Goto(t, a, "locked")
      BY <2>2, TakeCases
    <3> QED
      BY <1>4, <2>2, <3>1 DEF TakeMutex
  <2>3. CASE BlockForMutex(t)
    BY <1>4, <2>3 DEF BlockForMutex, semVars
  <2>4. CASE GiveToken(t)
    BY <1>4, <2>4 DEF GiveToken
  <2> QED
    BY <1>5, <2>1, <2>2, <2>3, <2>4 DEF Work
<1>6. ASSUME NEW p \in Producers, BeginFill(p) \/ EndFill(p)
      PROVE  SEM_EMPTY_COUNT' + SEM_FILL_COUNT' + m = SEM_EMPTY_COUNT + SEM_FILL_COUNT + n
  <2>1. CASE BeginFill(p)
    BY <1>4, <2>1 DEF BeginFill, semVars
  <2>2. CASE EndFill(p)
    BY <1>4, <2>2 DEF EndFill
  <2> QED
    BY <1>6, <2>1, <2>2
<1>7. ASSUME NEW c \in Consumers, Copy(c) \/ EndCopy(c)
      PROVE  SEM_EMPTY_COUNT' + SEM_FILL_COUNT' + m = SEM_EMPTY_COUNT + SEM_FILL_COUNT + n
  <2>1. CASE Copy(c)
    BY <1>4, <2>1 DEF Copy, semVars
  <2>2. CASE EndCopy(c)
    BY <1>4, <2>2 DEF EndCopy
  <2> QED
    BY <1>7, <2>1, <2>2
<1> QED
  BY <1>3, <1>5, <1>6, <1>7, StepCases DEF ProducerWork, ConsumerWork

\* A signal costs the queue a token only when it finds its process blocked for
\* the mutex; anywhere else the process gives back what it took.
THEOREM TokensHold == Spec => TokensKept
<1> DEFINE Lost == \E t \in Processes : pc[t] = "lockBlocked" /\ pc'[t] = "exited"
<1>1. SafetyInv /\ [Next]_vars => [Tokens' = Tokens \/ Lost]_vars
  <2> SUFFICES ASSUME SafetyInv, [Next]_vars PROVE Tokens' = Tokens \/ Lost
    OBVIOUS
  <2>1. ASSUME NEW t \in Processes, Abandon(t) PROVE Lost
    BY <2>1 DEF Abandon, Goto, SafetyInv, Shapes
  <2> QED
    BY <2>1, TokensStep DEF SafetyInv
<1> QED
  BY <1>1, SafetyHolds, PTL DEF Spec, TokensKept

LEMMA AbandonTakes ==
  ASSUME Shapes, NEW t \in Processes, Abandon(t)
  PROVE  Tokens' = Tokens - 1
<1> DEFINE n == Number(pc, Processes, Hand)
           m == Number(pc', Processes, Hand)
<1>1. n \in Nat /\ SEM_EMPTY_COUNT \in Nat /\ SEM_FILL_COUNT \in Nat
  BY NumberType, ProcessesFinite DEF Shapes
<1>2. SEM_EMPTY_COUNT' = SEM_EMPTY_COUNT /\ SEM_FILL_COUNT' = SEM_FILL_COUNT
  BY DEF Abandon, semVars
<1>3. m = n - 1
  <2>1. /\ pc[t] = "lockBlocked" /\ pc'[t] = "exited"
        /\ \A u \in Processes : u # t => pc'[u] = pc[u]
    BY DEF Abandon, Goto, Shapes
  <2>2. m = n + (IF t \in Processes /\ pc'[t] \in Hand THEN 1 ELSE 0)
              - (IF t \in Processes /\ pc[t] \in Hand THEN 1 ELSE 0)
    BY <2>1, NumberMoves, ProcessesFinite
  <2> HIDE DEF n, m
  <2> QED
    BY <1>1, <2>1, <2>2 DEF Hand
<1>4. /\ Tokens = SEM_EMPTY_COUNT + SEM_FILL_COUNT + n
      /\ Tokens' = SEM_EMPTY_COUNT' + SEM_FILL_COUNT' + m
  BY TokensOfHand
<1> HIDE DEF n, m
<1> QED
  BY <1>1, <1>2, <1>3, <1>4

\* No token is ever made up, and each kill of a process blocked for the mutex
\* (lines 120 and 162) costs the queue exactly one.
THEOREM KillTakesOne == Spec => [][Tokens' \in {Tokens - 1, Tokens}]_vars
<1>1. SafetyInv /\ [Next]_vars => [Tokens' \in {Tokens - 1, Tokens}]_vars
  BY AbandonTakes, TokensStep DEF SafetyInv
<1> QED
  BY <1>1, SafetyHolds, PTL DEF Spec

(***************************************************************************)
(* A process blocks for the mutex while another has it, with a token of    *)
(* its own, so the last token is never one that can be lost.               *)
(***************************************************************************)
Stuck == {"lockBlocked"}

TokenLeft == Number(pc, Processes, Stuck) < Tokens /\ Tokens <= FIXED_SIZE

LEMMA TokenLeftStart == Init => TokenLeft
<1> SUFFICES ASSUME Init PROVE TokenLeft
  OBVIOUS
<1>1. Number(pc, Processes, Stuck) = 0 /\ Number(pc, Processes, Hand) = 0
  BY NumberZero DEF Init, Stuck, Hand
<1>2. Tokens = FIXED_SIZE
  BY <1>1, TokensOfHand DEF Init
<1> QED
  BY <1>1, <1>2 DEF TokenLeft

\* Nobody blocks for the mutex but while another process is inside with a token.
LEMMA TwoInHand ==
  ASSUME Shapes, MutexInv, NEW t \in Processes, BlockForMutex(t)
  PROVE  Number(pc, Processes, Stuck) + 2 <= Number(pc, Processes, Hand)
<1>1. PICK u \in Processes : pc[u] \in Critical
  BY DEF MutexInv, BlockForMutex
<1>2. pc[t] = "lockCall" /\ t # u
  BY <1>1 DEF BlockForMutex, Goto, Critical
<1> DEFINE S == At(pc, Processes, Stuck)
           H == At(pc, Processes, Hand)
<1>3. IsFiniteSet(S) /\ Cardinality(S) \in Nat /\ IsFiniteSet(H) /\ Cardinality(H) \in Nat
  BY NumberType, ProcessesFinite DEF Number
<1>4. t \notin S /\ u \notin S \cup {t} /\ (S \cup {t}) \cup {u} \subseteq H
  BY <1>1, <1>2 DEF At, Stuck, Hand, Critical
<1> HIDE DEF S, H
<1>5. IsFiniteSet(S \cup {t}) /\ Cardinality(S \cup {t}) = Cardinality(S) + 1
  BY <1>3, <1>4, FS_AddElement
<1>6. Cardinality((S \cup {t}) \cup {u}) = Cardinality(S) + 2
  <2>1. Cardinality((S \cup {t}) \cup {u}) = Cardinality(S \cup {t}) + 1
    BY <1>4, <1>5, FS_AddElement
  <2> QED
    BY <1>3, <1>5, <2>1
<1>7. Cardinality((S \cup {t}) \cup {u}) <= Cardinality(H)
  BY <1>3, <1>4, FS_Subset
<1> QED
  BY <1>6, <1>7 DEF Number, S, H

LEMMA TokenLeftStep ==
  ASSUME Shapes, MutexInv, TokenLeft, [Next]_vars
  PROVE  TokenLeft'
<1> DEFINE n == Number(pc, Processes, Stuck)
           m == Number(pc', Processes, Stuck)
<1>1. n \in Nat /\ Tokens \in Int /\ n < Tokens /\ Tokens <= FIXED_SIZE
  <2>1. n \in Nat /\ Number(pc, Processes, Hand) \in Nat
    BY NumberType, ProcessesFinite
  <2>2. Tokens \in Int
    BY <2>1, TokensOfHand DEF Shapes
  <2> QED
    BY <2>1, <2>2 DEF TokenLeft
<1>2. SUFFICES m < Tokens' /\ Tokens' <= FIXED_SIZE
  BY DEF TokenLeft
<1>3. ASSUME NEW t \in Processes, \A u \in Processes : u # t => pc'[u] = pc[u]
      PROVE  m = n + (IF pc'[t] \in Stuck THEN 1 ELSE 0) - (IF pc[t] \in Stuck THEN 1 ELSE 0)
  BY <1>3, NumberMoves, ProcessesFinite
<1> HIDE DEF n, m
<1>4. ASSUME NEW t \in Processes, Abandon(t) PROVE m = n - 1 /\ Tokens' = Tokens - 1
  <2>1. /\ pc[t] = "lockBlocked" /\ pc'[t] = "exited"
        /\ \A u \in Processes : u # t => pc'[u] = pc[u]
    BY <1>4 DEF Abandon, Goto, Shapes
  <2>2. m = n - 1
    BY <1>1, <1>3, <2>1 DEF Stuck
  <2> QED
    BY <1>4, <2>2, AbandonTakes
<1>5. ASSUME NEW t \in Processes, BlockForMutex(t) PROVE m = n + 1 /\ n + 2 <= Tokens
  <2>1. /\ pc[t] = "lockCall" /\ pc'[t] = "lockBlocked"
        /\ \A u \in Processes : u # t => pc'[u] = pc[u]
    BY <1>5 DEF BlockForMutex, Goto, Shapes
  <2>2. m = n + 1
    BY <1>1, <1>3, <2>1 DEF Stuck
  <2>3. n + 2 <= Number(pc, Processes, Hand)
    BY <1>5, TwoInHand DEF n
  <2>4. Number(pc, Processes, Hand) \in Nat /\ SEM_EMPTY_COUNT \in Nat /\ SEM_FILL_COUNT \in Nat
    BY NumberType, ProcessesFinite DEF Shapes
  <2>5. Tokens = SEM_EMPTY_COUNT + SEM_FILL_COUNT + Number(pc, Processes, Hand)
    BY TokensOfHand
  <2> QED
    BY <1>1, <2>2, <2>3, <2>4, <2>5
<1>6. ASSUME \A t \in Processes : ~BlockForMutex(t) /\ ~Abandon(t) PROVE m <= n
  <2>1. CASE Outside
    <3>1. \A t \in Processes : pc[t] \in Stuck <=> pc'[t] \in Stuck
      BY <2>1 DEF Outside, Idle, Stuck
    <3>2. m = n
      BY <3>1, NumberSame DEF n, m
    <3> QED
      BY <1>1, <3>2
  <2>2. ASSUME NEW t \in Processes,
               \/ TakeToken(t) \/ TakeMutex(t) \/ GiveToken(t)
               \/ BeginFill(t) \/ EndFill(t) \/ Copy(t) \/ EndCopy(t)
        PROVE  m <= n
    <3>1. /\ pc'[t] \notin Stuck
          /\ \A u \in Processes : u # t => pc'[u] = pc[u]
      BY <2>2 DEF TakeToken, TakeMutex, GiveToken, BeginFill, EndFill, Copy, EndCopy, Goto,
                  Stuck, Shapes
    <3> QED
      BY <1>1, <1>3, <3>1
  <2> QED
    BY <1>6, <2>1, <2>2, StepCases DEF ProducerWork, ConsumerWork, Work, Processes
<1>7. CASE \A t \in Processes : ~Abandon(t)
  <2>1. Tokens' = Tokens
    BY <1>7, TokensStep
  <2>2. m <= n \/ (m = n + 1 /\ n + 2 <= Tokens)
    BY <1>5, <1>6, <1>7
  <2>3. m \in Nat
    BY NumberType, ProcessesFinite DEF m
  <2> QED
    BY <1>1, <2>1, <2>2, <2>3
<1> QED
  BY <1>1, <1>4, <1>7

\* However many processes are killed while blocked for the mutex, at least one
\* token is left: the queue of Lab4 shrinks, and never to nothing.
THEOREM TokensLeftHold == Spec => [](Tokens \in 1..FIXED_SIZE)
<1>1. SafetyInv /\ TokenLeft /\ [Next]_vars => TokenLeft'
  BY TokenLeftStep DEF SafetyInv
<1>2. SafetyInv /\ TokenLeft => Tokens \in 1..FIXED_SIZE
  <2> SUFFICES ASSUME SafetyInv, TokenLeft PROVE Tokens \in 1..FIXED_SIZE
    OBVIOUS
  <2>1. /\ Number(pc, Processes, Stuck) \in Nat /\ Number(pc, Processes, Hand) \in Nat
        /\ SEM_EMPTY_COUNT \in Nat /\ SEM_FILL_COUNT \in Nat
    BY NumberType, ProcessesFinite DEF SafetyInv, Shapes
  <2>2. Tokens \in Int
    BY <2>1, TokensOfHand
  <2> QED
    BY <2>1, <2>2 DEF TokenLeft
<1> QED
  BY <1>1, <1>2, TokenLeftStart, SafetyHolds, PTL DEF Spec

-------------------------------------------------------------------------------
(***************************************************************************)
(* Refinement.  The end of a producer's critical section is Produce, the   *)
(* end of a consumer's is Consume, and every other step leaves the queue.  *)
(***************************************************************************)
LEMMA FifoInit == Init => Fifo!Init
<1> SUFFICES ASSUME Init PROVE Fifo!Init
  OBVIOUS
<1>1. Contents = << >>
  BY DEF Init, RingInit, Contents, Outstanding
<1> QED
  BY <1>1 DEF Init, RingInit, Fifo!Init

LEMMA FifoStep ==
  ASSUME SafetyInv, [Next]_vars
  PROVE  [Fifo!Next]_(Fifo!fifoVars)
<1> USE DEF Fifo!Next, Fifo!fifoVars, SafetyInv
<1>1. CASE UNCHANGED ringVars
  BY <1>1 DEF ringVars, Contents, Outstanding
<1>2. ASSUME NEW p \in Producers, EndFill(p) PROVE Fifo!Produce
  <2>1. Outstanding \in 0..FIXED_SIZE-1 /\ FinishMessage
    BY <1>2, Bounds DEF EndFill, Goto, Writing
  <2>2. /\ Len(Contents) = Outstanding
        /\ producedCount' = producedCount + 1 /\ consumedCount' = consumedCount
        /\ Contents' = Append(Contents, producedCount')
    BY <2>1, ContentsGrow
  <2> QED
    BY <2>1, <2>2 DEF Fifo!Produce
<1>3. ASSUME NEW c \in Consumers, EndCopy(c) PROVE Fifo!Consume
  <2>1. Outstanding \in 1..FIXED_SIZE /\ TakeMessage
    BY <1>3, Bounds DEF EndCopy, Goto, Claimed
  <2>2. /\ Contents # << >> /\ consumedCount' = Head(Contents)
        /\ producedCount' = producedCount /\ Contents' = Tail(Contents)
    BY <2>1, ContentsShrink
  <2> QED
    BY <2>2 DEF Fifo!Consume
<1>4. ASSUME NEW p \in Producers, BeginFill(p) PROVE UNCHANGED Fifo!fifoVars
  <2>1. Outstanding \in 0..FIXED_SIZE-1 /\ BeginMessage
    BY <1>4, Bounds DEF BeginFill, Goto, Writing
  <2>2. Contents' = Contents
    BY <2>1, ContentsStay
  <2> QED
    BY <2>1, <2>2 DEF BeginMessage
<1>5. CASE Outside \/ (\E t \in Processes : Abandon(t) \/ Work(t)) \/ \E c \in Consumers : Copy(c)
  BY <1>1, <1>5 DEF Outside, Abandon, Work, TakeToken, TakeMutex, BlockForMutex, GiveToken, Copy
<1> QED
  BY <1>2, <1>3, <1>4, <1>5, StepCases DEF ProducerWork, ConsumerWork, Processes

\* Lab4 implements the first-in first-out queue of BoundedFifo with room for
\* FIXED_SIZE messages, whatever processes are killed: lost tokens only make it
\* accept or deliver less.
THEOREM FifoImplemented == Spec => ImplementsFifo
<1> QED
  BY FifoInit, FifoStep, SafetyHolds, PTL DEF Spec, ImplementsFifo, Fifo!Spec

-------------------------------------------------------------------------------
(***************************************************************************)
(* Nobody waits for nothing.  CanGoOn(t) is what the next statement of t   *)
(* needs, so that t is at a statement that does not block, or at one that  *)
(* blocks and need not.  (MaxProduced, a bound of the model, is put aside: *)
(* producer_loop() has no such test.)                                      *)
(***************************************************************************)
Living(group) == {t \in group : pc[t] \notin {"none", "exited"}}

CanGoOn(t) ==
  \/ pc[t] \in {"forked", "check", "locked", "filling", "copied", "post"}
  \/ pc[t] \in {"lockCall", "lockBlocked"} /\ SEM_MUTEX > 0
  \/ pc[t] \in {"call", "blocked"} /\ Available(t) > 0

SomebodyGoesOn ==
  Living(Producers) # {} /\ Living(Consumers) # {}
    => \E t \in Processes : CanGoOn(t)

LEMMA GoesOn == SafetyInv /\ Tokens \in 1..FIXED_SIZE => SomebodyGoesOn
<1> SUFFICES ASSUME SafetyInv, Tokens # 0,
                    NEW p \in Living(Producers), NEW c \in Living(Consumers),
                    \A t \in Processes : ~CanGoOn(t)
             PROVE  FALSE
  BY DEF SomebodyGoesOn
<1>1. /\ p \in Producers /\ pc[p] \notin {"none", "exited"}
      /\ c \in Consumers /\ c \notin Producers /\ pc[c] \notin {"none", "exited"}
      /\ p \in Processes /\ c \in Processes
  BY DEF Living, Processes
<1>2. /\ pc \in [Processes -> Labels] /\ SEM_MUTEX \in 0..1
      /\ SEM_FILL_COUNT \in Nat /\ SEM_EMPTY_COUNT \in Nat
  BY DEF SafetyInv, Shapes
\* Whoever has the mutex would go on, so it is free ...
<1>3. SEM_MUTEX = 1
  <2>1. SUFFICES ASSUME SEM_MUTEX = 0 PROVE FALSE
    BY <1>2
  <2>2. PICK t \in Processes : pc[t] \in Critical
    BY <2>1 DEF SafetyInv, MutexInv
  <2> QED
    BY <2>2 DEF CanGoOn, Critical
\* ... and whoever lives waits for a token.
<1>4. \A t \in Processes : pc[t] \in {"none", "call", "blocked", "exited"}
  BY <1>2, <1>3 DEF CanGoOn, Labels
<1>5. SEM_EMPTY_COUNT = 0 /\ SEM_FILL_COUNT = 0
  <2>1. pc[p] \in {"call", "blocked"} /\ pc[c] \in {"call", "blocked"}
    BY <1>1, <1>4
  <2> QED
    BY <1>1, <1>2, <2>1 DEF CanGoOn, Available
<1>6. Number(pc, Processes, Hand) = 0
  BY <1>4, NumberZero DEF Hand
<1> QED
  BY <1>5, <1>6, TokensOfHand

\* As long as there are a producer and a consumer, the processes of Lab4 never all
\* wait for each other, whatever was killed and whatever tokens it took along: the
\* next statement of one of them does not block.
THEOREM SomebodyAlwaysGoesOn == Spec => []SomebodyGoesOn
BY GoesOn, SafetyHolds, TokensLeftHold, PTL
==============================================================================
