---------------------------- MODULE SignalStats -----------------------------
(***************************************************************************)
(* Lab3/parent.c: children that toggle a pair of flags and count, in a     *)
(* signal handler, the pairs they see; after CYCLE_LIMIT rounds a child    *)
(* asks the parent with SIGUSR1 and prints once SIGUSR2 answers.           *)
(*                                                                         *)
(* A process has at most one signal of a kind pending: a second SIGUSR1    *)
(* for the parent is dropped, and its sender with it.  A child raises      *)
(* SIGUSR1 to itself only, inside raise().                                 *)
(***************************************************************************)
EXTENDS Integers, Sequences, FiniteSets

CONSTANTS
  Children, NoChild,  \* the processes fork may create, each once; nobody, or the
                      \* -1 of a fork that has failed
  CYCLE_LIMIT,        \* 101 in the source
  MAX_CHILDREN,       \* the length of children
  Commands            \* the keys the operator may press

ASSUME StatsAssumption ==
  /\ NoChild \notin Children
  /\ CYCLE_LIMIT \in Nat \ {0} /\ MAX_CHILDREN \in Nat
  /\ Commands \subseteq {"+", "-", "k", "q"}

VARIABLES
  pc,           \* where each child is; "zombie": ended, not waited for
  data, toggle, \* the flags <<a, b>> of each child, and what it sets next
  stats,        \* how often each child has counted each pair
  cycle_count,
  pending,      \* SIGUSR2 and SIGTERM on their way to each child
  usr1,         \* whose SIGUSR1 is pending at the parent, or NoChild
  si_pid,       \* whose SIGUSR1 the parent's handler is handling, or NoChild
  main, key,    \* where the parent is, and the command it is in
  children,     \* children, up to child_count, which holds -1 like a process
  todo          \* the children the command in progress has still to end

childVars  == <<pc, data, toggle, stats, cycle_count>>
parentVars == <<main, key, children, todo>>
vars == <<childVars, pending, usr1, si_pid, parentVars>>

Pairs   == {0, 1} \X {0, 1}
NoStats == [d \in Pairs |-> 0]

Init ==
  /\ pc = [c \in Children |-> "none"]
  /\ data = [c \in Children |-> <<0, 0>>] /\ toggle = [c \in Children |-> 0]
  /\ stats = [c \in Children |-> NoStats] /\ cycle_count = [c \in Children |-> 0]
  /\ pending = [c \in Children |-> {}]
  /\ usr1 = NoChild /\ si_pid = NoChild
  /\ main = "menu" /\ key = "k" /\ children = << >> /\ todo = << >>

Alive(c) == pc[c] \notin {"none", "zombie", "reaped"}
Goto(c, from, to) == pc[c] = from /\ pc' = [pc EXCEPT ![c] = to]

(***************************************************************************)
(* child_process.                                                          *)
(***************************************************************************)
Setup(c) ==
  /\ Goto(c, "forked", "sleep")
  /\ UNCHANGED <<data, toggle, stats, cycle_count, pending, usr1>>

\* Mutant of StoreA: SIGUSR1 is raised between the two stores.
StoreAOnly(c) ==
  /\ Goto(c, "sleep", "raise")
  /\ data' = [data EXCEPT ![c][1] = 1 - toggle[c]]
  /\ toggle' = [toggle EXCEPT ![c] = 1 - @]
  /\ UNCHANGED <<stats, cycle_count, pending, usr1>>

StoreA(c) ==
  /\ Goto(c, "sleep", "halfStored")
  /\ data' = [data EXCEPT ![c][1] = 1 - toggle[c]]
  /\ UNCHANGED <<toggle, stats, cycle_count, pending, usr1>>

StoreB(c) ==
  /\ Goto(c, "halfStored", "raise")
  /\ data' = [data EXCEPT ![c][2] = 1 - toggle[c]]
  /\ toggle' = [toggle EXCEPT ![c] = 1 - @]
  /\ UNCHANGED <<stats, cycle_count, pending, usr1>>

\* raise(SIGUSR1) returns when child_sigusr1_handler has.
Raise(c) ==
  /\ pc[c] = "raise"
  /\ stats' = [stats EXCEPT ![c][data[c]] = @ + 1]
  /\ cycle_count' = [cycle_count EXCEPT ![c] = @ + 1]
  /\ pc' = [pc EXCEPT ![c] = IF cycle_count'[c] >= CYCLE_LIMIT THEN "ask" ELSE "sleep"]
  /\ UNCHANGED <<data, toggle, pending, usr1>>

\* kill(getppid(), SIGUSR1).
Ask(c) ==
  /\ Goto(c, "ask", "asked")
  /\ usr1' = IF usr1 = NoChild /\ main # "exited" THEN c ELSE usr1
  /\ UNCHANGED <<data, toggle, stats, cycle_count, pending>>

Pause(c) ==
  /\ Goto(c, "asked", "paused")
  /\ UNCHANGED <<data, toggle, stats, cycle_count, pending, usr1>>

PrintStats(c) ==
  /\ Goto(c, "print", "sleep")
  /\ stats' = [stats EXCEPT ![c] = NoStats]
  /\ cycle_count' = [cycle_count EXCEPT ![c] = 0]
  /\ UNCHANGED <<data, toggle, pending, usr1>>

ChildStep(c) ==
  /\ Setup(c) \/ StoreA(c) \/ StoreB(c) \/ Raise(c) \/ Ask(c) \/ Pause(c) \/ PrintStats(c)
  /\ UNCHANGED <<si_pid, parentVars>>

\* A signal arrives.  SIGUSR2 ends a child without a handler for it, wakes one
\* in pause, and is forgotten by any other.
AfterUSR2(label) ==
  CASE label = "forked" -> "zombie"
    [] label = "paused" -> "print"
    [] OTHER            -> label

Deliver(c, signal) ==
  /\ Alive(c) /\ signal \in pending[c]
  /\ pending' = [pending EXCEPT ![c] = @ \ {signal}]
  /\ pc' = [pc EXCEPT ![c] = IF signal = "TERM" THEN "zombie" ELSE AfterUSR2(@)]
  /\ UNCHANGED <<data, toggle, stats, cycle_count, usr1, si_pid, parentVars>>

(***************************************************************************)
(* parent_sigusr1_handler interrupts the parent wherever it is.  It is     *)
(* installed without SA_RESTART: waitpid, if the parent waits in it, gives *)
(* up, and the command goes on as if the child had been waited for.  When  *)
(* main is "wait" the parent is in waitpid, or about to call it.           *)
(***************************************************************************)
\* kill(-1) is for every process of the user (of which the model has Children).
Means(pid) == {c \in Children : pid \in {c, NoChild}}

Send(pid, signal) ==
  pending' = [c \in Children |-> IF c \in Means(pid) /\ Alive(c) THEN pending[c] \cup {signal}
                                 ELSE pending[c]]

\* The children waitpid(pid) may return with, or waits for.
Awaited(pid) == {c \in Means(pid) : pc[c] \notin {"none", "reaped"}}
Zombies(pid) == {c \in Awaited(pid) : pc[c] = "zombie"}

\* The command has done with the first of todo.
TodoDone ==
  /\ todo' = Tail(todo)
  /\ IF Tail(todo) # << >> THEN main' = "term" /\ children' = children
     ELSE /\ main' = IF key = "q" THEN "exited" ELSE "menu"
          /\ children' = IF key = "-" THEN children ELSE << >>
  /\ UNCHANGED key

Handle ==
  /\ usr1 # NoChild /\ si_pid = NoChild /\ main # "exited"
  /\ si_pid' = usr1 /\ usr1' = NoChild
  /\ \/ UNCHANGED parentVars
     \/ main = "wait" /\ Zombies(Head(todo)) = {} /\ TodoDone
  /\ UNCHANGED <<childVars, pending>>

\* Mutants of Reply: it answers the youngest child; it forgets to answer; it
\* does not return.
ReplyToLast ==
  /\ si_pid # NoChild /\ si_pid' = NoChild
  /\ IF children = << >> THEN pending' = pending
     ELSE Send(children[Len(children)], "USR2")
  /\ UNCHANGED <<childVars, usr1, parentVars>>

ReplyForgotten ==
  /\ si_pid # NoChild /\ si_pid' = NoChild
  /\ UNCHANGED <<childVars, pending, usr1, parentVars>>

ReplyEndless ==
  /\ si_pid # NoChild /\ si_pid' = si_pid
  /\ Send(si_pid, "USR2")
  /\ UNCHANGED <<childVars, usr1, parentVars>>

Reply ==
  /\ si_pid # NoChild /\ si_pid' = NoChild
  /\ Send(si_pid, "USR2")
  /\ UNCHANGED <<childVars, usr1, parentVars>>

(***************************************************************************)
(* The parent's menu.  While the handler runs, the rest waits.             *)
(***************************************************************************)
Press(k) == main = "menu" /\ k \in Commands /\ si_pid = NoChild /\ key' = k

create_child ==
  /\ Press("+") /\ Len(children) < MAX_CHILDREN
  /\ \/ \E c \in Children : Goto(c, "none", "forked") /\ children' = Append(children, c)
     \/ pc' = pc /\ children' = Append(children, NoChild) \* nobody looks at the -1
  /\ UNCHANGED <<data, toggle, stats, cycle_count, pending, usr1, si_pid, main, todo>>

kill_last_child_process ==
  /\ Press("-") /\ children # << >>
  /\ main' = "term"
  /\ todo' = <<children[Len(children)]>>
  /\ children' = SubSeq(children, 1, Len(children) - 1)
  /\ UNCHANGED <<childVars, pending, usr1, si_pid>>

\* Mutant of kill_all_child_processes: only the first child is killed.
KillFirst(k) ==
  /\ Press(k) /\ children # << >>
  /\ main' = "term" /\ todo' = <<children[1]>>
  /\ UNCHANGED <<childVars, pending, usr1, si_pid, children>>

\* 'k', and 'q' when there are children.
kill_all_child_processes(k) ==
  /\ Press(k) /\ children # << >>
  /\ main' = "term" /\ todo' = children
  /\ UNCHANGED <<childVars, pending, usr1, si_pid, children>>

exit_the_program ==
  /\ Press("q") /\ children = << >> /\ main' = "exited"
  /\ UNCHANGED <<childVars, pending, usr1, si_pid, children, todo>>

\* Mutant of Term: the child is waited for without having been told to end.
TermForgotten ==
  /\ main = "term" /\ si_pid = NoChild /\ main' = "wait"
  /\ UNCHANGED <<childVars, pending, usr1, si_pid, key, children, todo>>

Term ==
  /\ main = "term" /\ si_pid = NoChild /\ main' = "wait"
  /\ Send(Head(todo), "TERM")
  /\ UNCHANGED <<childVars, usr1, si_pid, key, children, todo>>

WaitPid ==
  /\ main = "wait" /\ si_pid = NoChild
  /\ \/ \E c \in Zombies(Head(todo)) : Goto(c, "zombie", "reaped")
     \/ Awaited(Head(todo)) = {} /\ pc' = pc
  /\ TodoDone
  /\ UNCHANGED <<data, toggle, stats, cycle_count, pending, usr1, si_pid>>

Menu ==
  \/ create_child \/ kill_last_child_process \/ exit_the_program
  \/ \E k \in {"k", "q"} : kill_all_child_processes(k)

Next ==
  \/ \E c \in Children : ChildStep(c) \/ \E s \in {"USR2", "TERM"} : Deliver(c, s)
  \/ Handle \/ Reply \/ Menu \/ Term \/ WaitPid

\* Every process runs and every signal arrives; keys need not be pressed.  The
\* handler takes no time that matters: the parent also gets on between two of
\* its runs, however many there are.
FairSpec ==
  /\ Init /\ [][Next]_vars
  /\ \A c \in Children :
       WF_vars(ChildStep(c)) /\ \A s \in {"USR2", "TERM"} : WF_vars(Deliver(c, s))
  /\ WF_vars(Handle) /\ WF_vars(Reply) /\ SF_vars(Term \/ WaitPid)

-------------------------------------------------------------------------------
Labels ==
  {"none", "forked", "sleep", "halfStored", "raise", "ask", "asked", "paused",
   "print", "zombie", "reaped"}

\* The state of the parent and its children.
TypeOK ==
  /\ pc \in [Children -> Labels]
  /\ data \in [Children -> Pairs] /\ toggle \in [Children -> {0, 1}]
  /\ stats \in [Children -> [Pairs -> 0..CYCLE_LIMIT]]
  /\ cycle_count \in [Children -> 0..CYCLE_LIMIT]
  /\ pending \in [Children -> SUBSET {"USR2", "TERM"}]
  /\ usr1 \in Children \cup {NoChild} /\ si_pid \in Children \cup {NoChild}
  /\ main \in {"menu", "term", "wait", "exited"} /\ key \in {"+", "-", "k", "q"}
  /\ children \in Seq(Children \cup {NoChild}) /\ Len(children) <= MAX_CHILDREN
  /\ todo \in Seq(Children \cup {NoChild})

\* What is printed is true: no child ever counts a torn pair, whole pairs
\* alternate, and every round since the last print has been counted
\* (lines 43 to 54 and 83 to 104).
StatsTruthful ==
  \A c \in Children : LET s == stats[c] IN
    /\ s[<<0, 1>>] = 0 /\ s[<<1, 0>>] = 0
    /\ s[<<0, 0>>] - s[<<1, 1>>] \in -1..1
    /\ s[<<0, 0>>] + s[<<1, 1>>] = cycle_count[c]

\* c has asked, and the parent or an answer is still on its way to it.
Owed(c) == usr1 = c \/ si_pid = c \/ "USR2" \in pending[c]

\* SIGUSR2, which ends a process that has no handler for it, is only ever on
\* its way to a child that has asked, or to one that has ended meanwhile.
AnswersToAskers ==
  \A c \in Children : Owed(c) /\ Alive(c) => pc[c] \in {"asked", "paused"}

\* A child in pause that no answer will reach.
Stranded(c) == pc[c] \in {"asked", "paused"} /\ ~Owed(c)

\* A request is lost in two ways only: another child's is pending (line 98), or
\* the answer comes before the child has called pause (line 99).
LostOnly ==
  [][\A c \in Children : Stranded(c)' /\ ~Stranded(c) =>
       \/ pc[c] = "ask" /\ (usr1 # NoChild \/ main = "exited")
       \/ pc[c] = "asked" /\ "USR2" \in pending[c]]_vars

\* A child whose request is not lost prints, or is killed.
Answered ==
  \A c \in Children :
    pc[c] = "paused" ~> pc[c] # "paused" \/ Stranded(c) \/ main = "exited"

\* No child is left behind: one that is alive is in the table or in the command
\* in progress, or SIGTERM is on its way to it, also after a waitpid that the
\* handler has cut short, or one that was given the -1 of a fork (lines 115 to 122,
\* 132 to 134 and 147 to 151).
NoneEscapes ==
  \A c \in Children : Alive(c) =>
    \/ \E i \in 1..Len(children) : children[i] = c
    \/ \E i \in 1..Len(todo) : todo[i] = c
    \/ "TERM" \in pending[c]

\* '-', 'k' and 'q' come to an end.
KillReturns == main \in {"term", "wait"} ~> main \in {"menu", "exited"}
==============================================================================
