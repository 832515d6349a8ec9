------------------------------ MODULE CondQueue ------------------------------
(***************************************************************************)
(* Lab5/parent2.c: producer and consumer threads over a ring of FIXED_SIZE *)
(* slots, kept apart by a mutex and two condition variables.  Whether the  *)
(* queue is full or empty is told from head and tail alone.                *)
(*                                                                         *)
(* pthread_cond_wait may return without a signal; a thread cancelled in it *)
(* takes the mutex back before it ends, and parent2.c installs no cleanup  *)
(* handler that would release it: the mutex is then DeadOwner's for good.  *)
(***************************************************************************)
EXTENDS ThreadMenu, MessageRing, FiniteSets

CONSTANTS
  DeadOwner,   \* owner of the mutex once a thread has ended holding it
  QUEUE_SIZE,  \* size of the queue at the start
  SizeLimit,   \* bound: the operator does not press '+' at this size
  MaxProduced  \* bound: no thread starts a message once this many are produced

ASSUME SizeAssumption ==
  /\ QUEUE_SIZE \in 1..FIXED_SIZE /\ SizeLimit \in 1..FIXED_SIZE
  /\ MaxProduced \in Nat
  /\ IsFiniteSet(Producers) /\ IsFiniteSet(Consumers)
  /\ DeadOwner \notin Threads \cup {NoThread}

VARIABLES
  msg,  \* the message each consumer has copied
  current_queue_size

vars == <<menuVars, ringVars, msg, current_queue_size>>

Init ==
  /\ MenuInit
  /\ RingInit
  /\ msg = [c \in Consumers |-> NoMessage]
  /\ current_queue_size = QUEUE_SIZE

Goto(t, from, to) == pc[t] = from /\ pc' = [pc EXCEPT ![t] = to]
ThreadOnly == UNCHANGED <<threads, count, main, subject, current_queue_size>>

(***************************************************************************)
(* pthread_cond_signal: one of the threads waiting, if there is one, may   *)
(* try to take the mutex back.  Producers wait on not_full and consumers   *)
(* on not_empty.  Signal(f, group) is what the signal makes of f.          *)
(***************************************************************************)
Waiting(f, group) == {t \in group : f[t] = "waiting"}

Signal(f, group) ==
  IF Waiting(f, group) = {} THEN {f}
  ELSE {[f EXCEPT ![t] = "woken"] : t \in Waiting(f, group)}

\* Mutant of Full: > for >=.
FullLate == Used > current_queue_size

Full  == Used >= current_queue_size
Empty == Used = 0

\* Mutant of Lock: the thread goes on without waiting for the mutex.
LockForgotten(t) ==
  /\ pc[t] \in {"start", "woken"}
  /\ pc[t] = "start" /\ t \in Producers => producedCount < MaxProduced \/ Cancelled(t)
  /\ mutex' = t
  /\ pc' = [pc EXCEPT ![t] = "check"]
  /\ ThreadOnly /\ UNCHANGED <<ringVars, msg>>

\* The mutex is taken at the top of the loop, or back on the way out of
\* pthread_cond_wait; either way the condition is looked at next.
Lock(t) ==
  /\ pc[t] \in {"start", "woken"}
  /\ pc[t] = "start" /\ t \in Producers => producedCount < MaxProduced \/ Cancelled(t)
  /\ MutexFree /\ mutex' = t
  /\ pc' = [pc EXCEPT ![t] = "check"]
  /\ ThreadOnly /\ UNCHANGED <<ringVars, msg>>

Wait(t) ==
  /\ Goto(t, "check", "waiting")
  /\ IF t \in Producers THEN Full ELSE Empty
  /\ mutex' = NoThread
  /\ ThreadOnly /\ UNCHANGED <<ringVars, msg>>

SpuriousWakeup(t) ==
  /\ Goto(t, "waiting", "woken")
  /\ ThreadOnly /\ UNCHANGED <<mutex, ringVars, msg>>

(***************************************************************************)
(* The rest of the loop of producer().                                     *)
(***************************************************************************)
BeginFill(p) ==
  /\ Goto(p, "check", "filling") /\ ~Full
  /\ BeginMessage
  /\ ThreadOnly /\ UNCHANGED <<mutex, msg>>

\* Mutant of EndFill: it signals not_full.
EndFillSignalsProducers(p) ==
  /\ pc[p] = "filling"
  /\ FinishMessage
  /\ pc' \in Signal([pc EXCEPT ![p] = "rest"], Producers)
  /\ mutex' = NoThread
  /\ ThreadOnly /\ UNCHANGED msg

\* The end of fill_random_message, the new tail and count, signal and unlock.
EndFill(p) ==
  /\ pc[p] = "filling"
  /\ FinishMessage
  /\ pc' \in Signal([pc EXCEPT ![p] = "rest"], Consumers)
  /\ mutex' = NoThread
  /\ ThreadOnly /\ UNCHANGED msg

(***************************************************************************)
(* The rest of the loop of consumer().                                     *)
(***************************************************************************)
Copy(c) ==
  /\ Goto(c, "check", "copied") /\ ~Empty
  /\ msg' = [msg EXCEPT ![c] = buffer[head]]
  /\ ThreadOnly /\ UNCHANGED <<mutex, ringVars>>

\* The new head and count, signal and unlock.  Nobody reads msg afterwards
\* but this thread, which verifies and prints it.
EndCopy(c) ==
  /\ pc[c] = "copied"
  /\ TakeMessage
  /\ msg' = [msg EXCEPT ![c] = NoMessage]
  /\ pc' \in Signal([pc EXCEPT ![c] = "rest"], Producers)
  /\ mutex' = NoThread
  /\ ThreadOnly

(***************************************************************************)
(* printf and sleep, then round again.                                     *)
(***************************************************************************)
Sleep(t) ==
  /\ Goto(t, "rest", "start") /\ ~Cancelled(t)
  /\ ThreadOnly /\ UNCHANGED <<mutex, ringVars, msg>>

\* A cancelled thread ends in printf or sleep ...
Exit(t) ==
  /\ Cancelled(t) /\ Goto(t, "rest", "exited")
  /\ ThreadOnly /\ UNCHANGED <<mutex, ringVars, msg>>

\* ... or leaves the wait, and ends once it has the mutex.
CancelWait(t) ==
  /\ Cancelled(t) /\ Goto(t, "waiting", "dying")
  /\ ThreadOnly /\ UNCHANGED <<mutex, ringVars, msg>>

Die(t) ==
  /\ Goto(t, "dying", "exited")
  /\ MutexFree /\ mutex' = DeadOwner
  /\ ThreadOnly /\ UNCHANGED <<ringVars, msg>>

\* What a runnable thread does by itself; a spurious wakeup it only suffers.
ThreadRuns(t) == Lock(t) \/ Wait(t) \/ Sleep(t) \/ Exit(t) \/ CancelWait(t) \/ Die(t)

ProducerRuns(p) == ThreadRuns(p) \/ BeginFill(p) \/ EndFill(p)
ConsumerRuns(c) == ThreadRuns(c) \/ Copy(c) \/ EndCopy(c)

(***************************************************************************)
(* '+' and '-' test and change the size under the mutex.                   *)
(***************************************************************************)
AskGrow ==
  /\ Press("+", "grow")
  /\ current_queue_size < SizeLimit
  /\ UNCHANGED <<pc, mutex, threads, count, subject, ringVars, msg, current_queue_size>>

\* Mutant of Grow: it does not signal.
GrowSilently ==
  /\ MainLocked("grow", "menu")
  /\ current_queue_size < FIXED_SIZE
  /\ current_queue_size' = current_queue_size + 1
  /\ UNCHANGED <<pc, mutex, threads, count, subject, ringVars, msg>>

Grow ==
  /\ MainLocked("grow", "menu")
  /\ current_queue_size < FIXED_SIZE
  /\ current_queue_size' = current_queue_size + 1
  /\ pc' \in Signal(pc, Producers)
  /\ UNCHANGED <<mutex, threads, count, subject, ringVars, msg>>

AskShrink ==
  /\ Press("-", "shrink")
  /\ UNCHANGED <<pc, mutex, threads, count, subject, ringVars, msg, current_queue_size>>

Shrink ==
  /\ MainLocked("shrink", "menu")
  /\ current_queue_size' =
       IF current_queue_size > 1 THEN current_queue_size - 1 ELSE current_queue_size
  /\ UNCHANGED <<pc, mutex, threads, count, subject, ringVars, msg>>

\* No thread is created either once MaxProduced messages are produced.
Menu ==
  /\ MenuStep
  /\ producedCount >= MaxProduced => main' # "countUp"
  /\ UNCHANGED <<ringVars, msg, current_queue_size>>
Resize == AskGrow \/ Grow \/ AskShrink \/ Shrink

Next ==
  \/ \E p \in Producers : ProducerRuns(p)
  \/ \E c \in Consumers : ConsumerRuns(c)
  \/ \E t \in Threads : SpuriousWakeup(t)
  \/ Menu
  \/ Resize

Spec == Init /\ [][Next]_vars

(***************************************************************************)
(* A runnable thread runs, and so does the main thread inside a command.   *)
(* The mutex is not refused to one of them for ever while the others get   *)
(* it again and again: they hold it for a moment, then sleep for three     *)
(* seconds or wait for a key.  A cancelled thread that waits time and      *)
(* again is cancelled in one of its waits.  Keys need not be pressed and   *)
(* spurious wakeups need not happen.                                       *)
(***************************************************************************)
MainProgress ==
  \/ MainResumes /\ UNCHANGED <<ringVars, msg, current_queue_size>>
  \/ Grow \/ Shrink

Fairness ==
  /\ \A p \in Producers : WF_vars(ProducerRuns(p))
  /\ \A c \in Consumers : WF_vars(ConsumerRuns(c))
  /\ \A t \in Threads : SF_vars(Lock(t) \/ Die(t)) /\ SF_vars(CancelWait(t))
  /\ SF_vars(MainProgress)

FairSpec == Spec /\ Fairness

-------------------------------------------------------------------------------
Labels ==
  {"none", "start", "check", "waiting", "woken", "dying", "filling", "copied",
   "rest", "exited"}

MainLabels ==
  {"menu", "countUp", "countDown", "join", "joinAll", "finished", "status",
   "grow", "shrink"}

\* The state of parent2.c: indices stay inside the ring and the size stays
\* between 1 and FIXED_SIZE.
TypeOK ==
  /\ MenuTypeOK /\ RingTypeOK
  /\ mutex \in Threads \cup {NoThread, DeadOwner}
  /\ pc \in [Threads -> Labels] /\ main \in MainLabels
  /\ msg \in [Consumers -> Int]
  /\ current_queue_size \in 1..FIXED_SIZE

On(labels, group) == {t \in group : pc[t] \in labels}

\* No wakeup is lost: while producers wait, each free place of the queue is
\* spoken for by a producer that is awake (one signal per message consumed and
\* per '+', lines 88 and 179), and while consumers wait, each message by a
\* consumer that is awake (line 69).
NoLostWakeup ==
  /\ On({"waiting"}, Producers) # {}
       => current_queue_size - Outstanding
            <= Cardinality(On({"woken", "check", "filling"}, Producers))
  /\ On({"waiting"}, Consumers) # {}
       => Outstanding <= Cardinality(On({"woken", "check", "copied"}, Consumers))

\* As long as the operator leaves one slot unused, head and tail tell how many
\* messages there are: neither test of the two wait loops is ever wrong.
CountFromIndices == Used = Outstanding

\* The n-th message consumed is the n-th produced, whole (hash_ok=YES).
InOrder == \A c \in Consumers : pc[c] = "copied" => msg[c] = consumedCount + 1

\* The ring, between head and tail, is a first-in first-out queue in which a
\* producer adds a message only while there is room.
Fifo == INSTANCE BoundedFifo WITH
  MaxCapacity <- FIXED_SIZE,
  queue <- Contents,
  capacity <- current_queue_size,
  sent <- producedCount,
  delivered <- consumedCount

ImplementsFifo == Fifo!Spec

\* Every message produced is consumed, unless the operator has killed every
\* consumer, is leaving, or a kill has left the mutex with nobody (lines 63, 82).
Delivered ==
  \A n \in 1..MaxProduced :
    (producedCount >= n /\ threads["consumer"] # << >>)
      ~> \/ consumedCount >= n
         \/ threads["consumer"] = << >>
         \/ mutex = DeadOwner
         \/ main \in {"joinAll", "finished"}

\* 'P', 'C' and 'q' come back from pthread_join, wherever the cancelled threads
\* are, but for one case: a thread cancelled in pthread_cond_wait (lines 63 and
\* 82) has ended with the mutex.
KillReturns ==
  main \in {"join", "joinAll"}
    ~> main \notin {"join", "joinAll"} \/ mutex = DeadOwner
==============================================================================
