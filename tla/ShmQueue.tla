------------------------------- MODULE ShmQueue -------------------------------
(***************************************************************************)
(* Lab4/parent.c: producer and consumer processes over a ring of FIXED_SIZE*)
(* slots in shared memory (QUEUE_SIZE in the source), kept apart by three  *)
(* System V semaphores, and the parent that forks them and ends them with  *)
(* SIGTERM.                                                                *)
(*                                                                         *)
(* A process that SIGTERM finds blocked in semop leaves it with EINTR; any *)
(* other process only has needTerminate set, and looks at it at the top of *)
(* its loop.  SIGINT, and errors of the system calls other than EINTR, are *)
(* left out.                                                               *)
(***************************************************************************)
EXTENDS MessageRing, Sequences, FiniteSets

CONSTANTS
  Producers, Consumers, \* identities fork may give to new processes
  NoProcess,            \* nobody: the parent is waiting for no process
  Commands,             \* the keys the operator of this instance may press
  MaxProduced           \* bound: no process starts a message once this many are produced

Processes == Producers \cup Consumers
Roles     == {"producer", "consumer"}

ASSUME ShmAssumption ==
  /\ Producers \cap Consumers = {} /\ NoProcess \notin Processes
  /\ IsFiniteSet(Producers) /\ IsFiniteSet(Consumers)
  /\ Commands \subseteq {"p", "c", "P", "C", "q"}
  /\ MaxProduced \in Nat

VARIABLES
  SEM_MUTEX, SEM_FILL_COUNT, SEM_EMPTY_COUNT,
  pc,             \* where each process is; "none": not forked, "exited": not waited for
  needTerminate,  \* the flag SIGTERM sets in each process
  pending,        \* processes the parent has signalled or is about to
  msg,            \* the message each consumer has copied
  pids,           \* producers_pid and consumers_pid, up to their counts
  main,           \* where the parent is
  subject         \* the process the parent is waiting for

semVars  == <<SEM_MUTEX, SEM_FILL_COUNT, SEM_EMPTY_COUNT>>
procVars == <<pc, needTerminate, msg>>
mainVars == <<pids, main, subject>>
vars     == <<semVars, procVars, pending, mainVars, ringVars>>

RoleOf(t)   == IF t \in Producers THEN "producer" ELSE "consumer"
Pool(r)     == IF r = "producer" THEN Producers ELSE Consumers
SpawnKey(r) == IF r = "producer" THEN "p" ELSE "c"
KillKey(r)  == IF r = "producer" THEN "P" ELSE "C"
Last(s)     == s[Len(s)]
Front(s)    == SubSeq(s, 1, Len(s) - 1)
Listed      == UNION {{pids[r][i] : i \in 1..Len(pids[r])} : r \in Roles}

Init ==
  /\ SEM_MUTEX = 1 /\ SEM_FILL_COUNT = 0 /\ SEM_EMPTY_COUNT = FIXED_SIZE
  /\ RingInit
  /\ pc = [t \in Processes |-> "none"]
  /\ needTerminate = [t \in Processes |-> FALSE]
  /\ pending = {}
  /\ msg = [c \in Consumers |-> NoMessage]
  /\ pids = [r \in Roles |-> << >>]
  /\ main = "menu" /\ subject = NoProcess

Goto(t, from, to) == pc[t] = from /\ pc' = [pc EXCEPT ![t] = to]
ProcessOnly == UNCHANGED <<needTerminate, pending, mainVars>>

(***************************************************************************)
(* What both loops share.  Until the child has called signal, SIGTERM ends *)
(* it at once.                                                             *)
(***************************************************************************)
InstallHandlers(t) ==
  /\ Goto(t, "forked", "check")
  /\ ProcessOnly /\ UNCHANGED <<semVars, msg, ringVars>>

\* Mutant of Check: while (1).
CheckNothing(t) ==
  /\ Goto(t, "check", "call")
  /\ ProcessOnly /\ UNCHANGED <<semVars, msg, ringVars>>

\* while (!needTerminate)
Check(t) ==
  /\ Goto(t, "check", IF needTerminate[t] THEN "exited" ELSE "call")
  /\ ProcessOnly /\ UNCHANGED <<semVars, msg, ringVars>>

\* semop(-1) on SEM_EMPTY_COUNT or SEM_FILL_COUNT, which may block.
Available(t) == IF t \in Producers THEN SEM_EMPTY_COUNT ELSE SEM_FILL_COUNT

MayProceed(t) == t \in Producers => producedCount < MaxProduced

TakeToken(t) ==
  /\ pc[t] \in {"call", "blocked"} /\ MayProceed(t)
  /\ Available(t) > 0
  /\ pc' = [pc EXCEPT ![t] = "lockCall"]
  /\ IF t \in Producers
       THEN SEM_EMPTY_COUNT' = SEM_EMPTY_COUNT - 1 /\ UNCHANGED SEM_FILL_COUNT
       ELSE SEM_FILL_COUNT' = SEM_FILL_COUNT - 1 /\ UNCHANGED SEM_EMPTY_COUNT
  /\ ProcessOnly /\ UNCHANGED <<SEM_MUTEX, msg, ringVars>>

BlockForToken(t) ==
  /\ Goto(t, "call", "blocked") /\ Available(t) = 0
  /\ ProcessOnly /\ UNCHANGED <<semVars, msg, ringVars>>

\* Mutant of TakeMutex: the mutex is entered whoever has it.
TakeMutexAlways(t) ==
  /\ pc[t] \in {"lockCall", "lockBlocked"}
  /\ pc' = [pc EXCEPT ![t] = "locked"]
  /\ ProcessOnly
  /\ UNCHANGED <<semVars, msg, ringVars>>

\* semop(-1) on SEM_MUTEX, which may block.
TakeMutex(t) ==
  /\ pc[t] \in {"lockCall", "lockBlocked"}
  /\ SEM_MUTEX > 0 /\ SEM_MUTEX' = SEM_MUTEX - 1
  /\ pc' = [pc EXCEPT ![t] = "locked"]
  /\ ProcessOnly
  /\ UNCHANGED <<SEM_FILL_COUNT, SEM_EMPTY_COUNT, msg, ringVars>>

BlockForMutex(t) ==
  /\ Goto(t, "lockCall", "lockBlocked") /\ SEM_MUTEX = 0
  /\ ProcessOnly /\ UNCHANGED <<semVars, msg, ringVars>>

\* Mutant of GiveToken: the token goes back where it came from.
GiveTokenBack(t) ==
  /\ Goto(t, "post", "check")
  /\ IF t \in Producers
       THEN SEM_EMPTY_COUNT' = SEM_EMPTY_COUNT + 1 /\ UNCHANGED SEM_FILL_COUNT
       ELSE SEM_FILL_COUNT' = SEM_FILL_COUNT + 1 /\ UNCHANGED SEM_EMPTY_COUNT
  /\ ProcessOnly /\ UNCHANGED <<SEM_MUTEX, msg, ringVars>>

\* semop(1) on SEM_FILL_COUNT or SEM_EMPTY_COUNT, then printf and sleep, during
\* which SIGTERM does no more than set the flag the next check reads.
GiveToken(t) ==
  /\ Goto(t, "post", "check")
  /\ IF t \in Producers
       THEN SEM_FILL_COUNT' = SEM_FILL_COUNT + 1 /\ UNCHANGED SEM_EMPTY_COUNT
       ELSE SEM_EMPTY_COUNT' = SEM_EMPTY_COUNT + 1 /\ UNCHANGED SEM_FILL_COUNT
  /\ ProcessOnly /\ UNCHANGED <<SEM_MUTEX, msg, ringVars>>

(***************************************************************************)
(* The critical sections of producer_loop() and consumer_loop().           *)
(***************************************************************************)
BeginFill(p) ==
  /\ Goto(p, "locked", "filling")
  /\ BeginMessage
  /\ ProcessOnly /\ UNCHANGED <<semVars, msg>>

\* The new tail and count, and semop(1) on SEM_MUTEX.
EndFill(p) ==
  /\ Goto(p, "filling", "post")
  /\ FinishMessage
  /\ SEM_MUTEX' = SEM_MUTEX + 1
  /\ ProcessOnly /\ UNCHANGED <<SEM_FILL_COUNT, SEM_EMPTY_COUNT, msg>>

Copy(c) ==
  /\ Goto(c, "locked", "copied")
  /\ msg' = [msg EXCEPT ![c] = buffer[head]]
  /\ ProcessOnly /\ UNCHANGED <<semVars, ringVars>>

\* The new head and count, and semop(1) on SEM_MUTEX.  From here on msg is
\* read by its own process alone, which verifies and prints it.
EndCopy(c) ==
  /\ Goto(c, "copied", "post")
  /\ TakeMessage
  /\ msg' = [msg EXCEPT ![c] = NoMessage]
  /\ SEM_MUTEX' = SEM_MUTEX + 1
  /\ ProcessOnly /\ UNCHANGED <<SEM_FILL_COUNT, SEM_EMPTY_COUNT>>

LoopStep(t) ==
  \/ InstallHandlers(t) \/ Check(t) \/ TakeToken(t) \/ BlockForToken(t)
  \/ TakeMutex(t) \/ BlockForMutex(t) \/ GiveToken(t)

ProducerStep(p) == LoopStep(p) \/ BeginFill(p) \/ EndFill(p)
ConsumerStep(c) == LoopStep(c) \/ Copy(c) \/ EndCopy(c)

\* Mutants of AfterSignal: no handler is installed, so the signal kills anywhere;
\* EINTR is not told from success, so the process goes on as if it had a token.
KilledAnywhere(label) == "exited"

InterruptIsSuccess(label) ==
  CASE label \in {"forked", "lockBlocked"} -> "exited"
    [] label = "blocked" -> "lockCall"
    [] OTHER -> label

(***************************************************************************)
(* SIGTERM reaches t.  Blocked for a token it goes round its loop; blocked *)
(* for the mutex it breaks out of the loop and ends.                       *)
(***************************************************************************)
AfterSignal(label) ==
  CASE label \in {"forked", "lockBlocked"} -> "exited"
    [] label = "blocked" -> "check"
    [] OTHER -> label

Deliver(t) ==
  /\ t \in pending /\ pending' = pending \ {t}
  /\ pc' = [pc EXCEPT ![t] = AfterSignal(@)]
  /\ needTerminate' = [needTerminate EXCEPT ![t] = TRUE]
  /\ UNCHANGED <<semVars, msg, mainVars, ringVars>>

(***************************************************************************)
(* The parent.  's' prints what it finds in shared memory, without the     *)
(* mutex, and changes nothing.                                             *)
(***************************************************************************)
Press(key, next) == main = "menu" /\ key \in Commands /\ main' = next
ParentOnly == UNCHANGED <<semVars, msg, ringVars>>

Spawn(r) ==
  /\ Press(SpawnKey(r), "menu")
  /\ \E t \in Pool(r) :
       /\ Goto(t, "none", "forked")
       /\ needTerminate' = [needTerminate EXCEPT ![t] = FALSE]
       /\ pids' = [pids EXCEPT ![r] = Append(@, t)]
  /\ ParentOnly /\ UNCHANGED <<pending, subject>>

\* kill, then waitpid; the lists and counts follow when it returns.
Kill(r) ==
  /\ Press(KillKey(r), "wait")
  /\ pids[r] # << >>
  /\ subject' = Last(pids[r]) /\ pending' = {subject'}
  /\ ParentOnly /\ UNCHANGED <<pc, needTerminate, pids>>

Reap ==
  /\ main = "wait" /\ main' = "menu"
  /\ Goto(subject, "exited", "none")
  /\ pids' = [pids EXCEPT ![RoleOf(subject)] = Front(@)]
  /\ subject' = NoProcess
  /\ ParentOnly /\ UNCHANGED <<needTerminate, pending>>

Quit ==
  /\ Press("q", "waitAll") /\ pending' = Listed
  /\ ParentOnly /\ UNCHANGED <<pc, needTerminate, pids, subject>>

ReapAll ==
  /\ main = "waitAll" /\ main' = "finished"
  /\ \A t \in Listed : pc[t] = "exited"
  /\ ParentOnly /\ UNCHANGED <<pc, needTerminate, pending, pids, subject>>

Next ==
  \/ \E p \in Producers : ProducerStep(p)
  \/ \E c \in Consumers : ConsumerStep(c)
  \/ \E t \in Processes : Deliver(t)
  \/ \E r \in Roles : Spawn(r) \/ Kill(r)
  \/ Reap \/ Quit \/ ReapAll

Spec == Init /\ [][Next]_vars

\* Processes that can run do, signals arrive, and the parent goes on with the
\* command it is in.  Keys need not be pressed.
Fairness ==
  /\ \A p \in Producers : WF_vars(ProducerStep(p))
  /\ \A c \in Consumers : WF_vars(ConsumerStep(c))
  /\ \A t \in Processes : WF_vars(Deliver(t))
  /\ WF_vars(Reap \/ ReapAll)

FairSpec == Spec /\ Fairness

-------------------------------------------------------------------------------
Labels ==
  {"none", "forked", "check", "call", "blocked", "lockCall", "lockBlocked",
   "locked", "filling", "copied", "post", "exited"}

MainLabels == {"menu", "wait", "waitAll", "finished"}

\* The state of the parent and its children: indices stay inside the ring, the
\* mutex is a binary semaphore, the others never go negative.
TypeOK ==
  /\ RingTypeOK
  /\ SEM_MUTEX \in 0..1 /\ SEM_FILL_COUNT \in Nat /\ SEM_EMPTY_COUNT \in Nat
  /\ pc \in [Processes -> Labels] /\ main \in MainLabels
  /\ needTerminate \in [Processes -> BOOLEAN] /\ pending \subseteq Processes
  /\ msg \in [Consumers -> Int]
  /\ pids \in [Roles -> Seq(Processes)]
  /\ subject \in Processes \cup {NoProcess}

On(labels) == {t \in Processes : pc[t] \in labels}

\* A token is in one of the two semaphores or with a process that has taken it
\* and not yet given it back.
Tokens ==
  SEM_EMPTY_COUNT + SEM_FILL_COUNT
    + Cardinality(On({"lockCall", "lockBlocked", "locked", "filling", "copied", "post"}))

\* Whatever a signal interrupts, a token is lost in one case only: its process
\* is killed while blocked for the mutex (lines 120 and 162).
TokensKept ==
  [][Tokens' = Tokens
     \/ \E t \in Processes : pc[t] = "lockBlocked" /\ pc'[t] = "exited"]_vars

\* A process never ends with the mutex: while it is taken, exactly one live
\* process has it, and will give it back.
MutexHeldByLiving ==
  Cardinality(On({"locked", "filling", "copied"})) = 1 - SEM_MUTEX

\* The n-th message consumed is the n-th produced, whole (hash_ok=YES).
InOrder == \A c \in Consumers : pc[c] = "copied" => msg[c] = consumedCount + 1

\* The ring, between head and tail, is a first-in first-out queue in which a
\* producer adds a message only while there is room.
Fifo == INSTANCE BoundedFifo WITH
  MaxCapacity <- FIXED_SIZE,
  queue <- Contents,
  capacity <- FIXED_SIZE,
  sent <- producedCount,
  delivered <- consumedCount

ImplementsFifo == Fifo!Spec

\* While there are consumers and no token is lost, every message produced is
\* consumed.
Delivered ==
  \A n \in 1..MaxProduced :
    (producedCount >= n /\ pids["consumer"] # << >>)
      ~> \/ consumedCount >= n
         \/ pids["consumer"] = << >>
         \/ Tokens < FIXED_SIZE
         \/ main \in {"waitAll", "finished"}

\* A process told to end does end, whatever it has taken it gives back first.
\* The one case left out is SIGTERM between the test of needTerminate and semop
\* (lines 113-115 and 155-157), which may leave it blocked and the parent in waitpid.
SignalEnds ==
  \A t \in Processes :
    needTerminate[t] /\ pc[t] \notin {"call", "blocked"}
      ~> pc[t] \in {"exited", "none"}
==============================================================================
