------------------------------- MODULE SemQueue -------------------------------
(***************************************************************************)
(* Lab5/parent1.c: producer and consumer threads over a ring of FIXED_SIZE *)
(* slots, kept apart by a mutex and by two counting semaphores whose       *)
(* tokens also carry the current size of the queue.                        *)
(***************************************************************************)
EXTENDS ThreadMenu, MessageRing, FiniteSets

CONSTANTS
  QUEUE_SIZE,  \* size of the queue at the start
  MaxProduced  \* bound: no thread starts a message once this many are produced

ASSUME SizeAssumption ==
  /\ QUEUE_SIZE \in 1..FIXED_SIZE
  /\ MaxProduced \in Nat
  /\ IsFiniteSet(Producers) /\ IsFiniteSet(Consumers)

VARIABLES
  empty_count, full_count,      \* the semaphores
  msg,                          \* the message each consumer has copied
  current_queue_size

semVars  == <<empty_count, full_count>>
vars == <<menuVars, semVars, ringVars, msg, current_queue_size>>

Init ==
  /\ MenuInit
  /\ empty_count = QUEUE_SIZE
  /\ full_count = 0
  /\ RingInit
  /\ msg = [c \in Consumers |-> NoMessage]
  /\ current_queue_size = QUEUE_SIZE

Goto(t, from, to) == pc[t] = from /\ pc' = [pc EXCEPT ![t] = to]
ThreadOnly == UNCHANGED <<threads, count, main, subject, current_queue_size>>

(***************************************************************************)
(* The loop of producer().                                                 *)
(***************************************************************************)
ProducerWait(p) ==
  /\ Goto(p, "start", "lock")
  /\ producedCount < MaxProduced
  /\ empty_count > 0 /\ empty_count' = empty_count - 1
  /\ ThreadOnly /\ UNCHANGED <<mutex, full_count, ringVars, msg>>

\* Mutant of Lock: the thread goes on without waiting for the mutex.
LockForgotten(t) ==
  /\ Goto(t, "lock", "locked")
  /\ mutex' = t
  /\ ThreadOnly /\ UNCHANGED <<semVars, ringVars, msg>>

Lock(t) ==
  /\ Goto(t, "lock", "locked")
  /\ MutexFree /\ mutex' = t
  /\ ThreadOnly /\ UNCHANGED <<semVars, ringVars, msg>>

BeginFill(p) ==
  /\ Goto(p, "locked", "filling")
  /\ BeginMessage
  /\ ThreadOnly /\ UNCHANGED <<mutex, semVars, msg>>

\* The end of fill_random_message, the new tail and count, and the unlock.
EndFill(p) ==
  /\ Goto(p, "filling", "post")
  /\ FinishMessage
  /\ mutex' = NoThread
  /\ ThreadOnly /\ UNCHANGED <<semVars, msg>>

\* Mutant of ProducerPost: the token goes back where it came from.
ProducerPostEmpty(p) ==
  /\ Goto(p, "post", "rest")
  /\ empty_count' = empty_count + 1
  /\ ThreadOnly /\ UNCHANGED <<mutex, full_count, ringVars, msg>>

ProducerPost(p) ==
  /\ Goto(p, "post", "rest")
  /\ full_count' = full_count + 1
  /\ ThreadOnly /\ UNCHANGED <<mutex, empty_count, ringVars, msg>>

(***************************************************************************)
(* The loop of consumer().                                                 *)
(***************************************************************************)
ConsumerWait(c) ==
  /\ Goto(c, "start", "lock")
  /\ full_count > 0 /\ full_count' = full_count - 1
  /\ ThreadOnly /\ UNCHANGED <<mutex, empty_count, ringVars, msg>>

Copy(c) ==
  /\ Goto(c, "locked", "copied")
  /\ msg' = [msg EXCEPT ![c] = buffer[head]]
  /\ ThreadOnly /\ UNCHANGED <<mutex, semVars, ringVars>>

\* The new head and count, and the unlock.  From here on msg is read by its own
\* thread alone, which verifies and prints it.
EndCopy(c) ==
  /\ Goto(c, "copied", "post")
  /\ TakeMessage
  /\ msg' = [msg EXCEPT ![c] = NoMessage]
  /\ mutex' = NoThread
  /\ ThreadOnly /\ UNCHANGED semVars

\* Mutant of ConsumerPost: the post is forgotten.
ConsumerForgets(c) ==
  /\ Goto(c, "post", "rest")
  /\ ThreadOnly /\ UNCHANGED <<mutex, semVars, ringVars, msg>>

ConsumerPost(c) ==
  /\ Goto(c, "post", "rest")
  /\ empty_count' = empty_count + 1
  /\ ThreadOnly /\ UNCHANGED <<mutex, full_count, ringVars, msg>>

(***************************************************************************)
(* printf and sleep, then round again.  A cancelled thread ends at one of  *)
(* its cancellation points: blocked in sem_wait, which then takes no       *)
(* token, or in printf or sleep.                                           *)
(***************************************************************************)
Sleep(t) ==
  /\ Goto(t, "rest", "start") /\ ~Cancelled(t)
  /\ ThreadOnly /\ UNCHANGED <<mutex, semVars, ringVars, msg>>

CancellationPoints == {"start", "rest"}

Exit(t) ==
  /\ Cancelled(t) /\ pc[t] \in CancellationPoints
  /\ pc' = [pc EXCEPT ![t] = "exited"]
  /\ ThreadOnly /\ UNCHANGED <<mutex, semVars, ringVars, msg>>

ProducerStep(p) ==
  \/ ProducerWait(p) \/ Lock(p) \/ BeginFill(p) \/ EndFill(p) \/ ProducerPost(p)
  \/ Sleep(p) \/ Exit(p)

ConsumerStep(c) ==
  \/ ConsumerWait(c) \/ Lock(c) \/ Copy(c) \/ EndCopy(c) \/ ConsumerPost(c)
  \/ Sleep(c) \/ Exit(c)

(***************************************************************************)
(* '+' gives a token and then counts it; '-' first takes a token, blocking *)
(* the whole menu while there is none, and then counts it.                 *)
(***************************************************************************)
Grow ==
  /\ Press("+", "grow")
  /\ current_queue_size < FIXED_SIZE
  /\ empty_count' = empty_count + 1
  /\ UNCHANGED <<pc, mutex, threads, count, subject, full_count, ringVars, msg,
                 current_queue_size>>

GrowCounted ==
  /\ MainLocked("grow", "menu")
  /\ current_queue_size' = current_queue_size + 1
  /\ UNCHANGED <<pc, mutex, threads, count, subject, semVars, ringVars, msg>>

Shrink ==
  /\ Press("-", "shrinkWait")
  /\ current_queue_size > 1
  /\ UNCHANGED <<pc, mutex, threads, count, subject, semVars, ringVars, msg,
                 current_queue_size>>

\* Mutant of ShrinkWait: '-' lowers the size without taking a token.
ShrinkAtOnce ==
  /\ main = "shrinkWait" /\ main' = "shrink"
  /\ UNCHANGED <<pc, mutex, threads, count, subject, semVars, ringVars, msg,
                 current_queue_size>>

ShrinkWait ==
  /\ main = "shrinkWait" /\ main' = "shrink"
  /\ empty_count > 0 /\ empty_count' = empty_count - 1
  /\ UNCHANGED <<pc, mutex, threads, count, subject, full_count, ringVars, msg,
                 current_queue_size>>

ShrinkCounted ==
  /\ MainLocked("shrink", "menu")
  /\ current_queue_size' = current_queue_size - 1
  /\ UNCHANGED <<pc, mutex, threads, count, subject, semVars, ringVars, msg>>

Menu == MenuStep /\ UNCHANGED <<semVars, ringVars, msg, current_queue_size>>
Resize == Grow \/ GrowCounted \/ Shrink \/ ShrinkWait \/ ShrinkCounted

Next ==
  \/ \E p \in Producers : ProducerStep(p)
  \/ \E c \in Consumers : ConsumerStep(c)
  \/ Menu
  \/ Resize

Spec == Init /\ [][Next]_vars

(***************************************************************************)
(* A runnable thread runs: each thread, and the main thread inside a       *)
(* command, takes a step that stays enabled.  Keys need not be pressed.    *)
(***************************************************************************)
MainProgress ==
  \/ MainResumes /\ UNCHANGED <<semVars, ringVars, msg, current_queue_size>>
  \/ GrowCounted \/ ShrinkWait \/ ShrinkCounted

Fairness ==
  /\ \A p \in Producers : WF_vars(ProducerStep(p))
  /\ \A c \in Consumers : WF_vars(ConsumerStep(c))
  /\ WF_vars(MainProgress)

FairSpec == Spec /\ Fairness

-------------------------------------------------------------------------------
Labels ==
  {"none", "start", "lock", "locked", "filling", "copied", "post", "rest", "exited"}

MainLabels ==
  {"menu", "countUp", "countDown", "join", "joinAll", "finished", "status",
   "grow", "shrinkWait", "shrink"}

\* The state of parent1.c: indices stay inside the ring, semaphores and counts
\* are never negative, and the size stays between 1 and FIXED_SIZE.
TypeOK ==
  /\ MenuTypeOK /\ RingTypeOK
  /\ mutex \in Threads \cup {NoThread}
  /\ pc \in [Threads -> Labels] /\ main \in MainLabels
  /\ empty_count \in Nat /\ full_count \in Nat
  /\ msg \in [Consumers -> Int]
  /\ current_queue_size \in 1..FIXED_SIZE

\* The size of the queue as its tokens have it: '+' gives the token before it
\* raises current_queue_size, '-' takes it before it lowers it.
Capacity ==
  current_queue_size + (IF main = "grow" THEN 1 ELSE 0)
                     - (IF main = "shrink" THEN 1 ELSE 0)

InHand == {t \in Threads : pc[t] \in {"lock", "locked", "filling", "copied", "post"}}

\* No token is lost or made up, whatever threads are cancelled and whenever the
\* queue is resized (sem_wait and sem_post in producer, consumer and main).
TokensConserved ==
  empty_count + full_count + Cardinality(InHand) = Capacity

\* There are never more messages waiting than the queue has room for, so a
\* producer never writes over a message nobody has consumed, and a consumer
\* never reads a slot nobody has filled.
NoOverwrite == Outstanding \in 0..Capacity

\* The n-th message consumed is the n-th produced, whole (hash_ok=YES).
InOrder == \A c \in Consumers : pc[c] = "copied" => msg[c] = consumedCount + 1

\* The ring, between head and tail, is a first-in first-out queue in which a
\* producer adds a message only while there is room.
Fifo == INSTANCE BoundedFifo WITH
  MaxCapacity <- FIXED_SIZE,
  queue <- Contents,
  capacity <- Capacity,
  sent <- producedCount,
  delivered <- consumedCount

ImplementsFifo == Fifo!Spec

\* While there are consumers, every message produced is consumed.
Delivered ==
  \A n \in 1..MaxProduced :
    (producedCount >= n /\ threads["consumer"] # << >>)
      ~> \/ consumedCount >= n
         \/ threads["consumer"] = << >>
         \/ main \in {"joinAll", "finished"}

\* What 's' shows as messages in the queue is their number, except that a ring
\* with no slot free is shown as empty (line 197).
StatusCount == Used = (IF Outstanding = FIXED_SIZE THEN 0 ELSE Outstanding)

\* 'P' and 'C' come back to the menu, 'q' ends the program, wherever the
\* cancelled threads are; and '-' comes back as long as there is a consumer, even
\* when the queue is full.  With none it may block the menu for good.
CommandsReturn ==
  /\ main = "join" ~> main = "menu"
  /\ main = "joinAll" ~> main = "finished"
  /\ main = "shrinkWait" /\ threads["consumer"] # << >> ~> main = "menu"
==============================================================================
