------------------------------ MODULE ThreadMenu ------------------------------
(***************************************************************************)
(* The main thread of Lab5/parent1.c and Lab5/parent2.c: a menu that reads *)
(* one key at a time, creates and cancels producer and consumer threads,   *)
(* and joins them.  The two programs share this code line by line; the     *)
(* queue the threads work on, and the keys that resize it, are in the      *)
(* modules that extend this one.                                           *)
(*                                                                         *)
(* The main thread holds `mutex' only for single statements that no other  *)
(* thread reads, so such a critical section is one step, enabled when the  *)
(* mutex is free.                                                          *)
(***************************************************************************)
EXTENDS Integers, Sequences

CONSTANTS
  Producers, Consumers, \* identities pthread_create may give to new threads
  NoThread,             \* nobody: no mutex owner, no thread being joined
  MAX_THREADS,          \* the length of producer_threads and consumer_threads
  Commands              \* the keys the operator of this instance may press

Threads == Producers \cup Consumers
Roles   == {"producer", "consumer"}
Keys    == {"p", "c", "P", "C", "+", "-", "s", "q"}

ASSUME MenuAssumption ==
  /\ Producers \cap Consumers = {}
  /\ NoThread \notin Threads
  /\ MAX_THREADS \in Nat
  /\ Commands \subseteq Keys

VARIABLES
  pc,      \* where each thread is; "none": not created, "exited": not yet joined
  mutex,   \* the thread that holds `mutex', or NoThread
  threads, \* producer_threads and consumer_threads, up to their counts
  count,   \* the shared counters producers and consumers that 's' shows
  main,    \* where the main thread is
  subject  \* the thread the key in progress is about

menuVars == <<pc, mutex, threads, count, main, subject>>

RoleOf(t) == IF t \in Producers THEN "producer" ELSE "consumer"
Pool(r)   == IF r = "producer" THEN Producers ELSE Consumers
SpawnKey(r) == IF r = "producer" THEN "p" ELSE "c"
KillKey(r)  == IF r = "producer" THEN "P" ELSE "C"

Last(s)  == s[Len(s)]
Front(s) == SubSeq(s, 1, Len(s) - 1)
Listed   == UNION {{threads[r][i] : i \in 1..Len(threads[r])} : r \in Roles}

MenuInit ==
  /\ pc = [t \in Threads |-> "none"]
  /\ mutex = NoThread
  /\ threads = [r \in Roles |-> << >>]
  /\ count = [r \in Roles |-> 0]
  /\ main = "menu"
  /\ subject = NoThread

Press(key, next) == main = "menu" /\ key \in Commands /\ main' = next

\* pthread_mutex_lock returns only if this holds.
MutexFree == mutex = NoThread

\* Mutant of MainLocked: the main thread does not take the mutex.
MainUnlocked(from, next) == main = from /\ main' = next

\* A critical section of the main thread, entered at `from'.
MainLocked(from, next) == main = from /\ MutexFree /\ main' = next

(***************************************************************************)
(* 'p' and 'c': the new thread may run before the counter is raised.       *)
(***************************************************************************)
Spawn(r) ==
  /\ Press(SpawnKey(r), "countUp")
  /\ Len(threads[r]) < MAX_THREADS
  /\ \E t \in Pool(r) :
       /\ pc[t] = "none"
       /\ pc' = [pc EXCEPT ![t] = "start"]
       /\ threads' = [threads EXCEPT ![r] = Append(@, t)]
       /\ subject' = t
  /\ UNCHANGED <<mutex, count>>

CountUp ==
  /\ MainLocked("countUp", "menu")
  /\ count' = [count EXCEPT ![RoleOf(subject)] = @ + 1]
  /\ subject' = NoThread
  /\ UNCHANGED <<pc, mutex, threads>>

(***************************************************************************)
(* 'P' and 'C': cancel the youngest thread, then wait in pthread_join for  *)
(* as long as it takes that thread to reach a cancellation point.          *)
(***************************************************************************)
Kill(r) ==
  /\ Press(KillKey(r), "join")
  /\ threads[r] # << >>
  /\ subject' = Last(threads[r])
  /\ threads' = [threads EXCEPT ![r] = Front(@)]
  /\ UNCHANGED <<pc, mutex, count>>

Join ==
  /\ main = "join" /\ pc[subject] = "exited"
  /\ main' = "countDown"
  /\ pc' = [pc EXCEPT ![subject] = "none"]
  /\ UNCHANGED <<mutex, threads, count, subject>>

CountDown ==
  /\ MainLocked("countDown", "menu")
  /\ count' = [count EXCEPT ![RoleOf(subject)] = @ - 1]
  /\ subject' = NoThread
  /\ UNCHANGED <<pc, mutex, threads>>

(***************************************************************************)
(* 's' prints under the mutex and changes nothing.  'q', or the end of the *)
(* input, cancels every listed thread and joins them all.                  *)
(***************************************************************************)
AskStatus ==
  /\ Press("s", "status")
  /\ UNCHANGED <<pc, mutex, threads, count, subject>>

ShowStatus ==
  /\ MainLocked("status", "menu")
  /\ UNCHANGED <<pc, mutex, threads, count, subject>>

Quit ==
  /\ Press("q", "joinAll")
  /\ UNCHANGED <<pc, mutex, threads, count, subject>>

JoinAll ==
  /\ main = "joinAll"
  /\ \A t \in Listed : pc[t] = "exited"
  /\ main' = "finished"
  /\ UNCHANGED <<pc, mutex, threads, count, subject>>

\* Mutants of Cancelled: 'q' cancels the producers and forgets the consumers; 'P'
\* and 'C' join without cancelling.
CancelledProducers(t) ==
  \/ main = "join" /\ t = subject
  \/ main = "joinAll" /\ t \in Listed \cap Producers

CancelledAtQuit(t) == main = "joinAll" /\ t \in Listed

\* pthread_cancel has been called on t and nobody has joined it yet.
Cancelled(t) ==
  \/ main = "join" /\ t = subject
  \/ main = "joinAll" /\ t \in Listed

MenuStep ==
  \/ \E r \in Roles : Spawn(r) \/ Kill(r)
  \/ CountUp \/ CountDown \/ Join \/ AskStatus \/ ShowStatus \/ Quit \/ JoinAll

\* What the main thread does once a key is pressed; the keys are the operator's.
MainResumes == CountUp \/ CountDown \/ Join \/ ShowStatus \/ JoinAll

MenuTypeOK ==
  /\ threads \in [Roles -> Seq(Threads)]
  /\ count \in [Roles -> Int]
  /\ subject \in Threads \cup {NoThread}
==============================================================================
