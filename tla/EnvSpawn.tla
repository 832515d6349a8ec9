------------------------------ MODULE EnvSpawn ------------------------------
(***************************************************************************)
(* Lab2/parent.c: a menu that starts the program of child.c, once per '+'  *)
(* or '*', and waits for all children after 'q'.                           *)
(*                                                                         *)
(* A child whose execve fails returns from creat_child into the loop of    *)
(* main, as a second menu on the same terminal: it has a copy of the       *)
(* parent's counter and of the characters the parent has buffered.         *)
(***************************************************************************)
EXTENDS Integers, Sequences, FiniteSets

CONSTANTS
  Processes, Root,  \* the processes; the one the operator has started
  MAX_CHILD,        \* 99 in the source
  Lines,            \* the lines the operator may type
  MaxTyped          \* bound: how many lines

ASSUME SpawnAssumption ==
  /\ Root \in Processes /\ MAX_CHILD \in Nat /\ MaxTyped \in Nat
  /\ Lines \subseteq Seq({"+", "q"})  \* '*' only differs in what child.c prints

VARIABLES
  status,             \* none, menu, forked, program, waiting, zombie, reaped
  parent, number, \* who created each process, as which child
  child_num,      \* its own counter
  buffer,         \* what its getchar has buffered
  typed           \* lines typed

spawnVars == <<status, parent, number, child_num, buffer, typed>>

SpawnInit ==
  /\ status = [p \in Processes |-> IF p = Root THEN "menu" ELSE "none"]
  /\ parent = [p \in Processes |-> p]
  /\ number = [p \in Processes |-> 0] /\ child_num = [p \in Processes |-> 0]
  /\ buffer = [p \in Processes |-> << >>] /\ typed = 0

Becomes(p, from, to) == status[p] = from /\ status' = [status EXCEPT ![p] = to]
ChildrenOf(p) == {c \in Processes \ {p} : parent[c] = p}

\* The terminal gives a line to one of the processes that read it.
Type(p, line) ==
  /\ typed < MaxTyped /\ status[p] = "menu" /\ buffer[p] = << >>
  /\ typed' = typed + 1
  /\ buffer' = [buffer EXCEPT ![p] = line]
  /\ UNCHANGED <<status, parent, number, child_num>>

Key(p, k) ==
  /\ status[p] = "menu" /\ buffer[p] # << >> /\ Head(buffer[p]) = k
  /\ UNCHANGED typed

\* '+': the number is used up also when there is no child: the limit is not
\* reached, but CHILD_PATH is not set, or fork fails.
CreatesNone(p) ==
  /\ Key(p, "+")
  /\ child_num' = [child_num EXCEPT ![p] = IF @ < MAX_CHILD THEN @ + 1 ELSE @]
  /\ buffer' = [buffer EXCEPT ![p] = Tail(@)]
  /\ UNCHANGED <<status, parent, number>>

\* Mutant of Create: the number is not raised.
CreateSameNumber(p, c) ==
  /\ Key(p, "+") /\ child_num[p] < MAX_CHILD
  /\ Becomes(c, "none", "forked")
  /\ parent' = [parent EXCEPT ![c] = p]
  /\ number' = [number EXCEPT ![c] = child_num[p]]
  /\ buffer' = [buffer EXCEPT ![p] = Tail(@), ![c] = Tail(buffer[p])]
  /\ UNCHANGED child_num

Create(p, c) ==
  /\ Key(p, "+") /\ child_num[p] < MAX_CHILD
  /\ Becomes(c, "none", "forked")
  /\ parent' = [parent EXCEPT ![c] = p]
  /\ number' = [number EXCEPT ![c] = child_num[p]]
  /\ child_num' = [child_num EXCEPT ![p] = @ + 1, ![c] = child_num[p] + 1]
  /\ buffer' = [buffer EXCEPT ![p] = Tail(@), ![c] = Tail(buffer[p])]

Exec(c) ==
  /\ Becomes(c, "forked", "program")
  /\ UNCHANGED <<parent, number, child_num, buffer, typed>>

ExecFails(c) ==
  /\ Becomes(c, "forked", "menu")
  /\ UNCHANGED <<parent, number, child_num, buffer, typed>>

\* child.c prints its environment and ends.
ProgramEnds(c) ==
  /\ Becomes(c, "program", "zombie")
  /\ UNCHANGED <<parent, number, child_num, buffer, typed>>

Quit(p) ==
  /\ Key(p, "q") /\ Becomes(p, "menu", "waiting")
  /\ buffer' = [buffer EXCEPT ![p] = << >>]
  /\ UNCHANGED <<parent, number, child_num>>

\* while (wait(NULL) > 0);
Wait(p) ==
  /\ status[p] = "waiting"
  /\ \E c \in ChildrenOf(p) : Becomes(c, "zombie", "reaped")
  /\ UNCHANGED <<parent, number, child_num, buffer, typed>>

\* Mutant of Exit: it waits for a child too many.
ExitLate(p) ==
  /\ Cardinality({c \in ChildrenOf(p) : status[c] = "reaped"}) = child_num[p] + 1
  /\ Becomes(p, "waiting", "zombie")
  /\ UNCHANGED <<parent, number, child_num, buffer, typed>>

Exit(p) ==
  /\ \A c \in ChildrenOf(p) : status[c] = "reaped"
  /\ Becomes(p, "waiting", "zombie")
  /\ UNCHANGED <<parent, number, child_num, buffer, typed>>

Runs(p) ==
  \/ CreatesNone(p) \/ (\E c \in Processes : Create(p, c)) \/ Quit(p)
  \/ Exec(p) \/ ExecFails(p) \/ ProgramEnds(p) \/ Wait(p) \/ Exit(p)

SpawnNext == \E p \in Processes : Runs(p) \/ \E line \in Lines : Type(p, line)

\* Processes that can run do; the operator need not type.
SpawnSpec == SpawnInit /\ [][SpawnNext]_spawnVars /\ \A p \in Processes : WF_spawnVars(Runs(p))

-------------------------------------------------------------------------------
States == {"none", "menu", "forked", "program", "waiting", "zombie", "reaped"}

\* The state of the processes.
SpawnTypeOK ==
  /\ status \in [Processes -> States]
  /\ parent \in [Processes -> Processes]
  /\ number \in [Processes -> 0..MAX_CHILD]
  /\ child_num \in [Processes -> 0..MAX_CHILD]
  /\ buffer \in [Processes -> Seq({"+", "q"})]
  /\ typed \in 0..MaxTyped

\* The children of one process have different names, whatever processes have
\* become menus meanwhile (child_num++, lines 113 and 119).
NamesDistinct ==
  \A p \in Processes : \A c, d \in ChildrenOf(p) : c # d => number[c] # number[d]

\* 'q' ends a menu, unless a descendant that execve has failed in still reads
\* the terminal: then the operator has to press 'q' there as well.
QuitEnds ==
  \A p \in Processes :
    status[p] = "waiting" ~> status[p] # "waiting" \/ \E c \in Processes : status[c] = "menu"
==============================================================================
