------------------------- MODULE ChildProcesses_proof -------------------------
(***************************************************************************)
(* Theorems about the two programs that create child processes, for any    *)
(* children, limits and keys.  SignalStats (Lab3): what is printed is      *)
(* true, answers go to children that have asked, a request is lost in two  *)
(* ways only, and no child escapes.  EnvSpawn (Lab2): the children of a    *)
(* process have different names, and none outlives it.                     *)
(***************************************************************************)
EXTENDS SignalStats, EnvSpawn, TLAPS

Running(c) == pc[c] \notin {"zombie", "reaped"}

(***************************************************************************)
(* One child.                                                              *)
(***************************************************************************)
\* The types of what a child counts with.
Counters(c) ==
  /\ pc[c] \in Labels /\ toggle[c] \in {0, 1}
  /\ stats[c] \in [Pairs -> Nat] /\ cycle_count[c] \in 0..CYCLE_LIMIT

\* The pair is torn between the two stores only, or in a child that has ended.
Whole(c) ==
  /\ pc[c] = "halfStored" => data[c] = <<1 - toggle[c], toggle[c]>>
  /\ Running(c) /\ pc[c] # "halfStored" => data[c] = <<toggle[c], toggle[c]>>

\* How many more pairs of zeros than of ones have been counted.
Excess(c) == stats[c][<<0, 0>>] - stats[c][<<1, 1>>]

\* No torn pair has been counted, and every round has.
Counted(c) ==
  /\ stats[c][<<0, 1>>] = 0 /\ stats[c][<<1, 0>>] = 0
  /\ stats[c][<<0, 0>>] + stats[c][<<1, 1>>] = cycle_count[c]

\* The pair counted last is the one in toggle, except that at "raise" it is the
\* other one.
Alternates(c) ==
  /\ Excess(c) \in -1..1
  /\ Running(c) /\ pc[c] # "raise" /\ toggle[c] = 0 => Excess(c) \in 0..1
  /\ Running(c) /\ pc[c] # "raise" /\ toggle[c] = 1 => Excess(c) \in -1..0
  /\ pc[c] = "raise" /\ toggle[c] = 0 => Excess(c) \in -1..0
  /\ pc[c] = "raise" /\ toggle[c] = 1 => Excess(c) \in 0..1

\* A child that goes on counting is below the limit.
BelowLimit(c) ==
  pc[c] \in {"none", "forked", "sleep", "halfStored", "raise"} =>
    cycle_count[c] < CYCLE_LIMIT

ChildOK(c) == Counters(c) /\ Whole(c) /\ Counted(c) /\ Alternates(c) /\ BelowLimit(c)

Shapes ==
  /\ pc \in [Children -> Labels]
  /\ data \in [Children -> Pairs] /\ toggle \in [Children -> {0, 1}]
  /\ stats \in [Children -> [Pairs -> Nat]]
  /\ cycle_count \in [Children -> 0..CYCLE_LIMIT]

ChildInv == Shapes /\ \A c \in Children : ChildOK(c)

LEMMA InitChildren == Init => ChildInv
  <1> SUFFICES ASSUME Init PROVE ChildInv
    OBVIOUS
  <1>1. Shapes
    BY StatsAssumption DEF Init, Shapes, Labels, Pairs, NoStats
  <1>2. ASSUME NEW c \in Children PROVE ChildOK(c)
    <2>1. /\ pc[c] = "none" /\ data[c] = <<0, 0>> /\ toggle[c] = 0 /\ cycle_count[c] = 0
          /\ stats[c] = [d \in Pairs |-> 0]
      BY <1>2 DEF Init, NoStats
    <2>2. /\ stats[c][<<0, 0>>] = 0 /\ stats[c][<<1, 1>>] = 0
          /\ stats[c][<<0, 1>>] = 0 /\ stats[c][<<1, 0>>] = 0
      BY <2>1 DEF Pairs
    <2> QED
      BY <1>1, <1>2, <2>1, <2>2, StatsAssumption
         DEF ChildOK, Counters, Whole, Counted, Alternates, Excess, BelowLimit, Running, Shapes
  <1> QED
    BY <1>1, <1>2 DEF ChildInv

\* A child whose counters are left alone, and whose label does not change what is
\* said of them.
LEMMA SameChild ==
  ASSUME NEW c \in Children, ChildOK(c), pc'[c] \in Labels,
         data'[c] = data[c], toggle'[c] = toggle[c], stats'[c] = stats[c],
         cycle_count'[c] = cycle_count[c],
         \/ pc'[c] = pc[c]
         \/ pc'[c] \in {"zombie", "reaped"}
         \/ pc[c] = "none" /\ pc'[c] = "forked"
         \/ pc[c] = "forked" /\ pc'[c] = "sleep"
         \/ /\ pc[c] \in {"ask", "asked", "paused"}
            /\ pc'[c] \in {"asked", "paused", "print"}
  PROVE  ChildOK(c)'
  BY DEF ChildOK, Counters, Whole, Counted, Alternates, Excess, BelowLimit, Running

\* A step of child c leaves the others alone.
LEMMA OtherChildren ==
  ASSUME ChildInv, NEW c \in Children, ChildOK(c)', Shapes',
         \A d \in Children \ {c} :
           /\ pc'[d] = pc[d] /\ data'[d] = data[d] /\ toggle'[d] = toggle[d]
           /\ stats'[d] = stats[d] /\ cycle_count'[d] = cycle_count[d]
  PROVE  ChildInv'
  <1>1. ASSUME NEW d \in Children \ {c} PROVE ChildOK(d)'
    BY <1>1, SameChild DEF ChildInv, Shapes
  <1> QED
    BY <1>1 DEF ChildInv

\* A step that only moves child c.
LEMMA MovesChild ==
  ASSUME ChildInv, NEW c \in Children, NEW label \in Labels,
         pc' = [pc EXCEPT ![c] = label], UNCHANGED <<data, toggle, stats, cycle_count>>,
         \/ label = pc[c]
         \/ label \in {"zombie", "reaped"}
         \/ pc[c] = "none" /\ label = "forked"
         \/ pc[c] = "forked" /\ label = "sleep"
         \/ pc[c] \in {"ask", "asked", "paused"} /\ label \in {"asked", "paused", "print"}
  PROVE  ChildInv'
  <1>1. Shapes' /\ pc'[c] = label /\ \A d \in Children \ {c} : pc'[d] = pc[d]
    BY DEF ChildInv, Shapes
  <1>2. ChildOK(c)'
    BY <1>1, SameChild DEF ChildInv
  <1> QED
    BY <1>1, <1>2, OtherChildren

LEMMA StoresChild ==
  ASSUME ChildInv, NEW c \in Children, StoreA(c) \/ StoreB(c)
  PROVE  ChildInv'
  <1>0. Shapes /\ ChildOK(c)
    BY DEF ChildInv
  <1>1. CASE StoreA(c)
    <2>1. /\ pc[c] = "sleep" /\ pc' = [pc EXCEPT ![c] = "halfStored"]
          /\ UNCHANGED <<toggle, stats, cycle_count>>
      BY <1>1 DEF StoreA, Goto
    <2>2. data[c] = <<toggle[c], toggle[c]>>
      BY <1>0, <2>1 DEF ChildOK, Whole, Running
    <2>3. data'[c] = <<1 - toggle[c], toggle[c]>>
      BY <1>0, <1>1, <2>2 DEF StoreA, Shapes
    <2>4. data' \in [Children -> Pairs] /\ \A d \in Children \ {c} : data'[d] = data[d]
      BY <1>0, <1>1, <2>3 DEF StoreA, Shapes, Pairs
    <2>5. Shapes' /\ pc'[c] = "halfStored" /\ \A d \in Children \ {c} : pc'[d] = pc[d]
      BY <1>0, <2>1, <2>4 DEF Shapes, Labels
    <2>6. ChildOK(c)'
      BY <1>0, <2>1, <2>3, <2>5
         DEF ChildOK, Counters, Whole, Counted, Alternates, Excess, BelowLimit, Running, Shapes
    <2> QED
      BY <2>1, <2>4, <2>5, <2>6, OtherChildren
  <1>2. CASE StoreB(c)
    <2>1. /\ pc[c] = "halfStored" /\ pc' = [pc EXCEPT ![c] = "raise"]
          /\ toggle' = [toggle EXCEPT ![c] = 1 - @]
          /\ UNCHANGED <<stats, cycle_count>>
      BY <1>2 DEF StoreB, Goto
    <2>2. data[c] = <<1 - toggle[c], toggle[c]>>
      BY <1>0, <2>1 DEF ChildOK, Whole
    <2>3. data'[c] = <<1 - toggle[c], 1 - toggle[c]>> /\ toggle'[c] = 1 - toggle[c]
      BY <1>0, <1>2, <2>1, <2>2 DEF StoreB, Shapes
    <2>4. data' \in [Children -> Pairs] /\ \A d \in Children \ {c} : data'[d] = data[d]
      BY <1>0, <1>2, <2>3 DEF StoreB, Shapes, Pairs
    <2>5. /\ Shapes' /\ pc'[c] = "raise"
          /\ \A d \in Children \ {c} : pc'[d] = pc[d] /\ toggle'[d] = toggle[d]
      <3>1. 1 - toggle[c] \in {0, 1}
        BY <1>0 DEF Shapes
      <3>2. toggle' \in [Children -> {0, 1}] /\ \A d \in Children \ {c} : toggle'[d] = toggle[d]
        BY <1>0, <2>1, <3>1 DEF Shapes
      <3> QED
        BY <1>0, <2>1, <2>4, <3>2 DEF Shapes, Labels
    <2>6. ChildOK(c)'
      BY <1>0, <2>1, <2>3, <2>5
         DEF ChildOK, Counters, Whole, Counted, Alternates, Excess, BelowLimit, Running, Shapes
    <2> QED
      BY <2>1, <2>4, <2>5, <2>6, OtherChildren
  <1> QED
    BY <1>1, <1>2

LEMMA RaiseChild ==
  ASSUME ChildInv, NEW c \in Children, Raise(c)
  PROVE  ChildInv'
  <1>0. Shapes /\ ChildOK(c) /\ pc[c] = "raise" /\ UNCHANGED <<data, toggle>>
    BY DEF ChildInv, Raise
  <1>1. data[c] = <<toggle[c], toggle[c]>> /\ cycle_count[c] < CYCLE_LIMIT
    BY <1>0 DEF ChildOK, Whole, Running, BelowLimit
  <1>2. /\ stats[c] \in [Pairs -> Nat] /\ data[c] \in Pairs
        /\ stats[c][data[c]] + 1 \in Nat
    BY <1>0 DEF Shapes
  <1> DEFINE counted == [stats[c] EXCEPT ![data[c]] = stats[c][data[c]] + 1]
  <1>3. stats' = [stats EXCEPT ![c] = counted]
    BY DEF Raise
  <1>4. counted \in [Pairs -> Nat]
    BY <1>2
  <1>5. /\ stats' \in [Children -> [Pairs -> Nat]] /\ stats'[c] = counted
        /\ \A d \in Children \ {c} : stats'[d] = stats[d]
    <2> HIDE DEF counted
    <2> QED
      BY <1>0, <1>3, <1>4 DEF Shapes
  <1>6. /\ cycle_count' \in [Children -> 0..CYCLE_LIMIT]
        /\ cycle_count'[c] = cycle_count[c] + 1
        /\ \A d \in Children \ {c} : cycle_count'[d] = cycle_count[d]
    BY <1>0, <1>1, StatsAssumption DEF Raise, Shapes
  <1>7. /\ pc' \in [Children -> Labels]
        /\ pc'[c] = IF cycle_count'[c] >= CYCLE_LIMIT THEN "ask" ELSE "sleep"
        /\ \A d \in Children \ {c} : pc'[d] = pc[d]
    BY <1>0 DEF Raise, Shapes, Labels
  <1>8. Shapes'
    BY <1>0, <1>5, <1>6, <1>7 DEF Shapes
  <1>9. ChildOK(c)'
    <2>1. /\ stats'[c][<<0, 1>>] = 0 /\ stats'[c][<<1, 0>>] = 0
          /\ toggle[c] = 0 => /\ stats'[c][<<0, 0>>] = stats[c][<<0, 0>>] + 1
                              /\ stats'[c][<<1, 1>>] = stats[c][<<1, 1>>]
          /\ toggle[c] = 1 => /\ stats'[c][<<1, 1>>] = stats[c][<<1, 1>>] + 1
                              /\ stats'[c][<<0, 0>>] = stats[c][<<0, 0>>]
          /\ stats[c][<<0, 0>>] \in Nat /\ stats[c][<<1, 1>>] \in Nat
          /\ toggle[c] \in {0, 1}
      <3>1. toggle[c] \in {0, 1} /\ stats[c][<<0, 1>>] = 0 /\ stats[c][<<1, 0>>] = 0
        BY <1>0 DEF ChildOK, Counters, Counted
      <3>2. /\ <<0, 0>> \in Pairs /\ <<0, 1>> \in Pairs /\ <<1, 0>> \in Pairs
            /\ <<1, 1>> \in Pairs
        BY DEF Pairs
      <3>3. \A d \in Pairs : stats'[c][d] = IF d = data[c] THEN stats[c][d] + 1 ELSE stats[c][d]
        BY <1>2, <1>5
      <3>4. CASE toggle[c] = 0
        BY <1>1, <1>2, <3>1, <3>2, <3>3, <3>4
      <3>5. CASE toggle[c] = 1
        BY <1>1, <1>2, <3>1, <3>2, <3>3, <3>5
      <3> QED
        BY <3>1, <3>4, <3>5
    <2>2. Counters(c)' /\ BelowLimit(c)'
      BY <1>0, <1>6, <1>7, <1>8, StatsAssumption DEF Counters, BelowLimit, Shapes
    <2>3. Whole(c)'
      BY <1>0, <1>1, <1>7 DEF Whole, Running
    <2>4. Counted(c)'
      BY <1>0, <1>6, <2>1 DEF ChildOK, Counted, Shapes
    <2>5. Alternates(c)'
      BY <1>0, <1>7, <2>1 DEF ChildOK, Alternates, Excess, Running
    <2> QED
      BY <2>2, <2>3, <2>4, <2>5 DEF ChildOK
  <1> QED
    BY <1>0, <1>5, <1>6, <1>7, <1>8, <1>9, OtherChildren

LEMMA PrintChild ==
  ASSUME ChildInv, NEW c \in Children, PrintStats(c)
  PROVE  ChildInv'
  <1>0. Shapes /\ ChildOK(c) /\ pc[c] = "print" /\ UNCHANGED <<data, toggle>>
    BY DEF ChildInv, PrintStats, Goto
  <1>1. /\ Shapes' /\ pc'[c] = "sleep" /\ stats'[c] = NoStats /\ cycle_count'[c] = 0
        /\ \A d \in Children \ {c} :
             pc'[d] = pc[d] /\ stats'[d] = stats[d] /\ cycle_count'[d] = cycle_count[d]
    BY <1>0, StatsAssumption DEF PrintStats, Goto, Shapes, NoStats, Labels
  <1>2. /\ stats'[c][<<0, 0>>] = 0 /\ stats'[c][<<1, 1>>] = 0
        /\ stats'[c][<<0, 1>>] = 0 /\ stats'[c][<<1, 0>>] = 0
    BY <1>1 DEF NoStats, Pairs
  <1>3. ChildOK(c)'
    BY <1>0, <1>1, <1>2, StatsAssumption
       DEF ChildOK, Counters, Whole, Counted, Alternates, Excess, BelowLimit, Running, Shapes
  <1> QED
    BY <1>0, <1>1, <1>3, OtherChildren

LEMMA NextChildren == ChildInv /\ [Next]_vars => ChildInv'
  <1> SUFFICES ASSUME ChildInv, [Next]_vars PROVE ChildInv'
    OBVIOUS
  <1>0. Shapes
    BY DEF ChildInv
  <1>1. CASE UNCHANGED childVars
    <2>1. \A c \in Children : ChildOK(c)'
      BY <1>1, SameChild DEF childVars, ChildInv, Shapes
    <2> QED
      BY <1>1, <2>1 DEF childVars, ChildInv, Shapes
  <1>2. ASSUME NEW c \in Children, ChildStep(c) PROVE ChildInv'
    <2>1. CASE Setup(c)
      BY <2>1, MovesChild DEF Setup, Goto, Labels
    <2>2. CASE Ask(c)
      BY <2>2, MovesChild DEF Ask, Goto, Labels
    <2>3. CASE Pause(c)
      BY <2>3, MovesChild DEF Pause, Goto, Labels
    <2> QED
      BY <1>2, <2>1, <2>2, <2>3, StoresChild, RaiseChild, PrintChild DEF ChildStep
  <1>3. ASSUME NEW c \in Children, NEW signal \in {"USR2", "TERM"}, Deliver(c, signal)
        PROVE  ChildInv'
    <2> DEFINE label == IF signal = "TERM" THEN "zombie" ELSE AfterUSR2(pc[c])
    <2>1. /\ pc[c] \in Labels /\ pc' = [pc EXCEPT ![c] = label]
          /\ UNCHANGED <<data, toggle, stats, cycle_count>>
      BY <1>0, <1>3 DEF Deliver, Shapes
    <2>2. label \in Labels /\ (\/ label = pc[c] \/ label \in {"zombie", "reaped"}
                               \/ pc[c] \in {"ask", "asked", "paused"}
                                    /\ label \in {"asked", "paused", "print"})
      BY <2>1 DEF AfterUSR2, Labels
    <2> HIDE DEF label
    <2> QED
      BY <2>1, <2>2, MovesChild
  <1>4. CASE create_child \/ WaitPid
    <2>1. /\ UNCHANGED <<data, toggle, stats, cycle_count>>
          /\ \/ pc' = pc
             \/ \E c \in Children : Goto(c, "none", "forked") \/ Goto(c, "zombie", "reaped")
      BY <1>4 DEF create_child, WaitPid, Zombies, Awaited, Means
    <2>2. CASE pc' = pc
      BY <1>1, <2>1, <2>2 DEF childVars
    <2>3. ASSUME NEW c \in Children, Goto(c, "none", "forked") \/ Goto(c, "zombie", "reaped")
          PROVE  ChildInv'
      BY <2>1, <2>3, MovesChild DEF Goto, Labels
    <2> QED
      BY <2>1, <2>2, <2>3
  <1>5. CASE \/ Handle \/ Reply \/ kill_last_child_process \/ exit_the_program \/ Term
             \/ \E k \in {"k", "q"} : kill_all_child_processes(k)
    BY <1>1, <1>5 DEF Handle, Reply, kill_last_child_process, exit_the_program, Term,
       kill_all_child_processes
  <1>6. CASE UNCHANGED vars
    BY <1>1, <1>6 DEF vars
  <1> QED
    BY <1>2, <1>3, <1>4, <1>5, <1>6 DEF Next, Menu

THEOREM ChildInvHolds == FairSpec => []ChildInv
  BY InitChildren, NextChildren, PTL DEF FairSpec

\* What a child prints is true: no child ever counts a pair torn between the two
\* stores, and every round is counted (Lab3/parent.c:43 to 54 and 83 to 104).
THEOREM StatsHold == FairSpec => []StatsTruthful
  <1>1. ChildInv => StatsTruthful
    BY DEF ChildInv, ChildOK, Counted, Alternates, Excess, StatsTruthful
  <1> QED
    BY <1>1, ChildInvHolds, PTL

(***************************************************************************)
(* Requests and answers.                                                   *)
(***************************************************************************)
\* c is owed at most one answer, by one of those it may come from.
OwedOnce(c) ==
  /\ ~(usr1 = c /\ si_pid = c)
  /\ ~(usr1 = c /\ "USR2" \in pending[c])
  /\ ~(si_pid = c /\ "USR2" \in pending[c])

AskInv ==
  /\ pc \in [Children -> Labels]
  /\ pending \in [Children -> SUBSET {"USR2", "TERM"}]
  /\ usr1 \in Children \cup {NoChild} /\ si_pid \in Children \cup {NoChild}
  /\ \A c \in Children :
       OwedOnce(c) /\ (Owed(c) => pc[c] \in {"asked", "paused", "zombie", "reaped"})

\* kill adds the signal to those it is for, if they are alive.
LEMMA SendFacts ==
  ASSUME pending \in [Children -> SUBSET {"USR2", "TERM"}],
         NEW pid, NEW signal \in {"USR2", "TERM"}, Send(pid, signal)
  PROVE  /\ pending' \in [Children -> SUBSET {"USR2", "TERM"}]
         /\ \A c \in Children :
              /\ pending[c] \subseteq pending'[c] /\ pending'[c] \subseteq pending[c] \cup {signal}
              /\ pid \in Children \ {c} => pending'[c] = pending[c]
              /\ Alive(c) /\ (pid = c \/ pid = NoChild) => signal \in pending'[c]
  <1>1. pending' = [c \in Children |-> IF c \in Means(pid) /\ Alive(c)
                                        THEN pending[c] \cup {signal} ELSE pending[c]]
    BY DEF Send
  <1>2. \A c \in Children : c \in Means(pid) <=> pid = c \/ pid = NoChild
    BY DEF Means
  <1> QED
    BY <1>1, <1>2, StatsAssumption

LEMMA InitAsk == Init => AskInv
  BY StatsAssumption DEF Init, AskInv, OwedOnce, Owed, Labels

\* A step by which nobody asks and nobody is answered.
LEMMA SameAsk ==
  ASSUME AskInv, UNCHANGED <<pending, usr1, si_pid>>, pc' \in [Children -> Labels],
         \A c \in Children : Owed(c) => pc'[c] \in {"asked", "paused", "zombie", "reaped"}
  PROVE  AskInv'
  BY DEF AskInv, OwedOnce, Owed

LEMMA NextAsk == AskInv /\ [Next]_vars => AskInv'
  <1> SUFFICES ASSUME AskInv, [Next]_vars PROVE AskInv'
    OBVIOUS
  <1>0. pc \in [Children -> Labels]
    BY DEF AskInv
  <1>1. CASE UNCHANGED <<pc, pending, usr1, si_pid>>
    BY <1>1, SameAsk DEF AskInv
  <1>2. ASSUME NEW c \in Children, ChildStep(c) PROVE AskInv'
    <2>1. CASE Ask(c)
      <3>1. /\ ~Owed(c) /\ pc'[c] = "asked" /\ UNCHANGED <<pending, si_pid>>
            /\ pc' \in [Children -> Labels] /\ \A d \in Children \ {c} : pc'[d] = pc[d]
        BY <1>2, <2>1 DEF ChildStep, Ask, Goto, AskInv, Labels
      <3>2. usr1' = usr1 \/ (usr1 = NoChild /\ usr1' = c)
        BY <2>1 DEF Ask
      <3> QED
        BY <3>1, <3>2, StatsAssumption DEF AskInv, OwedOnce, Owed
    <2>2. CASE Setup(c) \/ StoreA(c) \/ StoreB(c) \/ Raise(c) \/ Pause(c) \/ PrintStats(c)
      <3>1. UNCHANGED <<pending, usr1, si_pid>> /\ pc' \in [Children -> Labels]
        BY <1>0, <1>2, <2>2
           DEF ChildStep, Setup, StoreA, StoreB, Raise, Pause, PrintStats, Goto, Labels
      <3>2. \A d \in Children : Owed(d) => pc'[d] \in {"asked", "paused", "zombie", "reaped"}
        BY <1>0, <2>2 DEF Setup, StoreA, StoreB, Raise, Pause, PrintStats, Goto, AskInv
      <3> QED
        BY <3>1, <3>2, SameAsk
    <2> QED
      BY <1>2, <2>1, <2>2 DEF ChildStep
  <1>3. ASSUME NEW c \in Children, NEW signal \in {"USR2", "TERM"}, Deliver(c, signal)
        PROVE  AskInv'
    <2>1. /\ UNCHANGED <<usr1, si_pid>>
          /\ pending'[c] = pending[c] \ {signal} /\ signal \in pending[c]
          /\ pending' \in [Children -> SUBSET {"USR2", "TERM"}]
          /\ pc' \in [Children -> Labels]
          /\ pc'[c] = IF signal = "TERM" THEN "zombie" ELSE AfterUSR2(pc[c])
          /\ \A d \in Children \ {c} : pc'[d] = pc[d] /\ pending'[d] = pending[d]
      BY <1>3 DEF Deliver, AskInv, AfterUSR2, Labels
    <2>2. Owed(c)' => pc'[c] = "zombie"
      BY <2>1 DEF AskInv, OwedOnce, Owed
    <2> QED
      BY <2>1, <2>2 DEF AskInv, OwedOnce, Owed
  <1>4. CASE Handle
    BY <1>4, StatsAssumption DEF Handle, childVars, AskInv, OwedOnce, Owed
  <1>5. CASE Reply
    <2>1. /\ si_pid \in Children /\ si_pid' = NoChild /\ UNCHANGED <<pc, usr1>>
          /\ pending' \in [Children -> SUBSET {"USR2", "TERM"}]
          /\ \A d \in Children \ {si_pid} : pending'[d] = pending[d]
      BY <1>5, SendFacts DEF Reply, childVars, AskInv
    <2> QED
      BY <2>1, StatsAssumption DEF AskInv, OwedOnce, Owed
  <1>6. CASE Term
    <2>1. /\ UNCHANGED <<pc, usr1, si_pid>>
          /\ pending' \in [Children -> SUBSET {"USR2", "TERM"}]
          /\ \A d \in Children : "USR2" \in pending'[d] <=> "USR2" \in pending[d]
      <3>1. UNCHANGED <<pc, usr1, si_pid>> /\ Send(Head(todo), "TERM")
        BY <1>6 DEF Term, childVars
      <3> QED
        BY <3>1, SendFacts DEF AskInv
    <2> QED
      BY <2>1 DEF AskInv, OwedOnce, Owed
  <1>7. CASE create_child \/ WaitPid
    <2>1. /\ UNCHANGED <<pending, usr1, si_pid>>
          /\ \/ pc' = pc
             \/ \E d \in Children : Goto(d, "none", "forked") \/ Goto(d, "zombie", "reaped")
      BY <1>7 DEF create_child, WaitPid, Zombies, Awaited, Means
    <2>2. CASE pc' = pc
      BY <1>0, <2>1, <2>2, SameAsk DEF AskInv
    <2>3. ASSUME NEW d \in Children, Goto(d, "none", "forked") \/ Goto(d, "zombie", "reaped")
          PROVE  AskInv'
      <3>1. pc' \in [Children -> Labels]
        BY <1>0, <2>3 DEF Goto, Labels
      <3>2. \A e \in Children : Owed(e) => pc'[e] \in {"asked", "paused", "zombie", "reaped"}
        BY <1>0, <2>3 DEF Goto, AskInv
      <3> QED
        BY <2>1, <3>1, <3>2, SameAsk
    <2> QED
      BY <2>1, <2>2, <2>3
  <1>8. CASE \/ kill_last_child_process \/ exit_the_program
             \/ \E k \in {"k", "q"} : kill_all_child_processes(k)
    BY <1>1, <1>8
       DEF kill_last_child_process, exit_the_program, kill_all_child_processes, childVars
  <1>9. CASE UNCHANGED vars
    BY <1>1, <1>9 DEF vars, childVars
  <1> QED
    BY <1>2, <1>3, <1>4, <1>5, <1>6, <1>7, <1>8, <1>9 DEF Next, Menu

\* SIGUSR2 is only ever on its way to a child that has asked: none meets a child
\* whose handler is not installed yet, which it would end (Lab3/parent.c:60 to 75
\* and 110 to 112).
THEOREM AnswersHold == FairSpec => []AnswersToAskers
  <1>1. AskInv => AnswersToAskers
    BY DEF AskInv, AnswersToAskers, Alive
  <1> QED
    BY <1>1, InitAsk, NextAsk, PTL DEF FairSpec

\* A request is only lost behind another child's, or by an answer that comes before
\* the child has called pause; in particular no handler of the parent forgets one
\* (Lab3/parent.c:98 and 99, 110 to 112).
THEOREM LossesHold == FairSpec => LostOnly
  <1>1. ASSUME AskInv, [Next]_vars, NEW c \in Children, Stranded(c)', ~Stranded(c)
        PROVE  \/ pc[c] = "ask" /\ (usr1 # NoChild \/ main = "exited")
               \/ pc[c] = "asked" /\ "USR2" \in pending[c]
    <2>1. /\ pc \in [Children -> Labels] /\ pending \in [Children -> SUBSET {"USR2", "TERM"}]
          /\ pc'[c] \in {"asked", "paused"} /\ ~Owed(c)'
          /\ pc[c] \in {"asked", "paused"} => Owed(c)
      BY <1>1 DEF AskInv, Stranded
    <2>2. CASE UNCHANGED <<pc, pending, usr1, si_pid>>
      BY <1>1, <2>2 DEF Stranded, Owed
    <2>3. ASSUME NEW d \in Children, ChildStep(d)
          PROVE  pc[c] = "ask" /\ (usr1 # NoChild \/ main = "exited")
      <3>1. UNCHANGED <<pending, si_pid>>
        BY <2>3 DEF ChildStep, Setup, StoreA, StoreB, Raise, Ask, Pause, PrintStats
      <3>2. usr1' = usr1 \/ (usr1 = NoChild /\ usr1' = d)
        BY <2>3 DEF ChildStep, Setup, StoreA, StoreB, Raise, Ask, Pause, PrintStats
      <3>3. Owed(c) => Owed(c)'
        BY <3>1, <3>2, StatsAssumption DEF Owed
      <3>4. pc[c] \notin {"asked", "paused"}
        BY <2>1, <3>3
      <3>5. d = c /\ Ask(c)
        BY <2>1, <2>3, <3>4
           DEF ChildStep, Setup, StoreA, StoreB, Raise, Ask, Pause, PrintStats, Goto
      <3> QED
        BY <2>1, <3>5 DEF Ask, Goto, Owed
    <2>4. ASSUME NEW d \in Children, NEW signal \in {"USR2", "TERM"}, Deliver(d, signal)
          PROVE  pc[c] = "asked" /\ "USR2" \in pending[c]
      <3>1. /\ pc'[d] = IF signal = "TERM" THEN "zombie" ELSE AfterUSR2(pc[d])
            /\ \A e \in Children \ {d} : pc'[e] = pc[e] /\ pending'[e] = pending[e]
            /\ pending'[d] = pending[d] \ {signal}
            /\ signal \in pending[d] /\ usr1' = usr1 /\ si_pid' = si_pid
        BY <2>1, <2>4 DEF Deliver
      <3>2. c = d
        BY <2>1, <3>1 DEF Owed
      <3> QED
        BY <2>1, <3>1, <3>2 DEF AfterUSR2, Owed
    <2>5. CASE Handle
      BY <2>1, <2>5, StatsAssumption DEF Handle, childVars, Owed
    <2>6. CASE Reply
      <3>1. UNCHANGED <<pc, usr1>> /\ si_pid' = NoChild /\ Send(si_pid, "USR2")
        BY <2>6 DEF Reply, childVars
      <3>2. si_pid = c /\ Alive(c)
        BY <2>1, <3>1, <1>1, SendFacts DEF Owed, AskInv, Alive
      <3>3. "USR2" \in pending'[c]
        BY <2>1, <3>1, <3>2, SendFacts
      <3> QED
        BY <2>1, <3>3 DEF Owed
    <2>7. CASE Term
      <3>1. UNCHANGED <<pc, usr1, si_pid>> /\ Send(Head(todo), "TERM")
        BY <2>7 DEF Term, childVars
      <3>2. \A d \in Children : "USR2" \in pending[d] => "USR2" \in pending'[d]
        BY <2>1, <3>1, SendFacts
      <3> QED
        BY <2>1, <3>1, <3>2 DEF Owed
    <2>8. CASE create_child \/ WaitPid
      <3>1. UNCHANGED <<pending, usr1, si_pid>> /\ pc'[c] \in {pc[c], "forked", "reaped"}
        BY <2>1, <2>8 DEF create_child, WaitPid, Goto, Zombies, Awaited, Means
      <3> QED
        BY <2>1, <3>1 DEF Owed
    <2>9. CASE \/ kill_last_child_process \/ exit_the_program
               \/ \E k \in {"k", "q"} : kill_all_child_processes(k)
      BY <2>2, <2>9
         DEF kill_last_child_process, exit_the_program, kill_all_child_processes, childVars
    <2>10. CASE UNCHANGED vars
      BY <2>2, <2>10 DEF vars, childVars
    <2> QED
      BY <1>1, <2>3, <2>4, <2>5, <2>6, <2>7, <2>8, <2>9, <2>10 DEF Next, Menu
  <1>2. AskInv /\ [Next]_vars =>
          [\A c \in Children : Stranded(c)' /\ ~Stranded(c) =>
             \/ pc[c] = "ask" /\ (usr1 # NoChild \/ main = "exited")
             \/ pc[c] = "asked" /\ "USR2" \in pending[c]]_vars
    BY <1>1
  <1> QED
    BY <1>2, InitAsk, NextAsk, PTL DEF FairSpec, LostOnly

(***************************************************************************)
(* The table of children.                                                  *)
(***************************************************************************)
Entries    == Children \cup {NoChild}
Has(s, c)  == \E i \in 1..Len(s) : s[i] = c
Ending(c)  == ~Alive(c) \/ "TERM" \in pending[c]
InCommand  == main \in {"term", "wait"}

\* At the menu every child is in the table; during 'k' and 'q' every child of the
\* table is still to be ended; the child waited for has been sent its SIGTERM.  An
\* entry that is the -1 of a fork stands for no child.
TableInv ==
  /\ pending \in [Children -> SUBSET {"USR2", "TERM"}]
  /\ children \in Seq(Entries) /\ todo \in Seq(Entries)
  /\ todo # << >> <=> InCommand
  /\ main = "wait" => \A c \in Children : Head(todo) = c => Ending(c)
  /\ \A c \in Children :
       \/ Ending(c) \/ Has(todo, c)
       \/ Has(children, c) /\ (InCommand => key = "-")

LEMMA HasTail ==
  ASSUME NEW s \in Seq(Entries), s # << >>, NEW c, Has(s, c)
  PROVE  c = Head(s) \/ Has(Tail(s), c)
  <1>1. PICK i \in 1..Len(s) : s[i] = c
    BY DEF Has
  <1>2. CASE i = 1
    BY <1>1, <1>2
  <1>3. CASE i # 1
    <2>1. i - 1 \in 1..Len(Tail(s)) /\ Tail(s)[i - 1] = c
      BY <1>1, <1>3
    <2> QED
      BY <2>1 DEF Has
  <1> QED
    BY <1>2, <1>3

LEMMA HasFront ==
  ASSUME NEW s \in Seq(Entries), s # << >>, NEW c, Has(s, c)
  PROVE  Has(<<s[Len(s)]>>, c) \/ Has(SubSeq(s, 1, Len(s) - 1), c)
  <1>1. PICK i \in 1..Len(s) : s[i] = c
    BY DEF Has
  <1>2. CASE i = Len(s)
    BY <1>1, <1>2 DEF Has
  <1>3. CASE i # Len(s)
    <2>1. i \in 1..Len(SubSeq(s, 1, Len(s) - 1)) /\ SubSeq(s, 1, Len(s) - 1)[i] = c
      BY <1>1, <1>3
    <2> QED
      BY <2>1 DEF Has
  <1> QED
    BY <1>2, <1>3

LEMMA HasAppend ==
  ASSUME NEW s \in Seq(Entries), NEW d \in Entries, NEW c, Has(s, c) \/ c = d
  PROVE  Has(Append(s, d), c)
  <1>1. CASE c = d
    <2>1. Len(s) + 1 \in 1..Len(Append(s, d)) /\ Append(s, d)[Len(s) + 1] = c
      BY <1>1
    <2> QED
      BY <2>1 DEF Has
  <1>2. CASE Has(s, c)
    <2>1. PICK i \in 1..Len(s) : s[i] = c
      BY <1>2 DEF Has
    <2>2. i \in 1..Len(Append(s, d)) /\ Append(s, d)[i] = c
      BY <2>1
    <2> QED
      BY <2>2 DEF Has
  <1> QED
    BY <1>1, <1>2

\* The table loses nobody when a command has done with the first of todo, who is
\* ending.
LEMMA DoneTable ==
  ASSUME TableInv, InCommand, TodoDone, \A c \in Children : Head(todo) = c => Ending(c),
         pending' \in [Children -> SUBSET {"USR2", "TERM"}],
         \A c \in Children : Ending(c) => Ending(c)'
  PROVE  TableInv'
  <1>1. /\ todo \in Seq(Entries) /\ todo # << >> /\ todo' = Tail(todo)
        /\ todo' \in Seq(Entries) /\ children' \in Seq(Entries)
        /\ (InCommand' <=> Tail(todo) # << >>) /\ main' # "wait" /\ key' = key
    <2>1. todo \in Seq(Entries) /\ todo # << >> /\ children \in Seq(Entries)
      BY DEF TableInv
    <2>2. Tail(todo) \in Seq(Entries) /\ << >> \in Seq(Entries)
      BY <2>1
    <2>3. CASE Tail(todo) # << >>
      BY <2>1, <2>2, <2>3 DEF TodoDone, InCommand
    <2>4. CASE Tail(todo) = << >>
      BY <2>1, <2>2, <2>4 DEF TodoDone, InCommand
    <2> QED
      BY <2>3, <2>4
  <1>2. ASSUME NEW c \in Children
        PROVE  \/ Ending(c)' \/ Has(todo', c)
               \/ Has(children', c) /\ (InCommand' => key' = "-")
    <2>1. CASE Ending(c)
      BY <2>1
    <2>2. CASE Has(todo, c)
      BY <1>1, <2>2, HasTail
    <2>3. CASE Has(children, c) /\ key = "-"
      BY <1>1, <2>3 DEF TodoDone
    <2> QED
      BY <2>1, <2>2, <2>3 DEF TableInv
  <1> QED
    BY <1>1, <1>2 DEF TableInv, Has

LEMMA InitTable == Init => TableInv
  BY DEF Init, TableInv, Ending, Alive, InCommand

\* A step that leaves the commands alone and brings no child to life.
LEMMA SameTable ==
  ASSUME TableInv, UNCHANGED parentVars,
         pending' \in [Children -> SUBSET {"USR2", "TERM"}],
         \A c \in Children : Ending(c) => Ending(c)'
  PROVE  TableInv'
  BY DEF TableInv, parentVars, Has, InCommand

LEMMA NextTable == AskInv /\ TableInv /\ [Next]_vars => TableInv'
  <1> SUFFICES ASSUME AskInv, TableInv, [Next]_vars PROVE TableInv'
    OBVIOUS
  <1>0. pc \in [Children -> Labels] /\ pending \in [Children -> SUBSET {"USR2", "TERM"}]
    BY DEF AskInv
  <1>1. CASE UNCHANGED <<pc, pending>> /\ UNCHANGED parentVars
    BY <1>0, <1>1, SameTable DEF Ending, Alive
  <1>2. ASSUME NEW c \in Children, ChildStep(c) PROVE TableInv'
    <2>1. UNCHANGED pending /\ UNCHANGED parentVars
      BY <1>2 DEF ChildStep, Setup, StoreA, StoreB, Raise, Ask, Pause, PrintStats
    <2>2. \A d \in Children : Ending(d) => Ending(d)'
      BY <1>0, <1>2 DEF ChildStep, Setup, StoreA, StoreB, Raise, Ask, Pause, PrintStats, Goto,
         Ending, Alive
    <2> QED
      BY <1>0, <2>1, <2>2, SameTable
  <1>3. ASSUME NEW c \in Children, NEW signal \in {"USR2", "TERM"}, Deliver(c, signal)
        PROVE  TableInv'
    <2>1. UNCHANGED parentVars /\ pending' \in [Children -> SUBSET {"USR2", "TERM"}]
      BY <1>0, <1>3 DEF Deliver
    <2>2. \A d \in Children : Ending(d) => Ending(d)'
      BY <1>0, <1>3 DEF Deliver, Ending, Alive, AfterUSR2
    <2> QED
      BY <2>1, <2>2, SameTable
  <1>4. CASE Handle
    <2>1. UNCHANGED <<pc, pending>> /\ \A d \in Children : Ending(d) <=> Ending(d)'
      BY <1>4 DEF Handle, childVars, Ending, Alive
    <2>2. CASE main = "wait" /\ TodoDone
      BY <1>0, <2>1, <2>2, DoneTable DEF TableInv, InCommand
    <2>3. CASE UNCHANGED parentVars
      BY <1>1, <2>1, <2>3
    <2> QED
      BY <1>4, <2>2, <2>3 DEF Handle
  <1>5. CASE Reply
    <2>1. UNCHANGED parentVars /\ UNCHANGED pc /\ Send(si_pid, "USR2")
      BY <1>5 DEF Reply, childVars
    <2>2. /\ pending' \in [Children -> SUBSET {"USR2", "TERM"}]
          /\ \A d \in Children : Ending(d) => Ending(d)'
      BY <1>0, <2>1, SendFacts DEF Ending, Alive
    <2> QED
      BY <2>1, <2>2, SameTable
  <1>6. CASE create_child
    <2>1. PICK e \in Entries :
            /\ children' = Append(children, e)
            /\ (e \in Children /\ Goto(e, "none", "forked")) \/ pc' = pc
      BY <1>6 DEF create_child, Entries
    <2>2. main' = main /\ main = "menu" /\ UNCHANGED <<pending, todo>>
      BY <1>6 DEF create_child, Press
    <2>3. \A d \in Children \ {e} : Ending(d) => Ending(d)'
      BY <1>0, <2>1, <2>2 DEF Goto, Ending, Alive
    <2>4. \A d \in Children : Has(children, d) \/ d = e => Has(children', d)
      BY <2>1, HasAppend DEF TableInv
    <2>5. children' \in Seq(Entries)
      BY <2>1 DEF TableInv
    <2> QED
      BY <2>2, <2>3, <2>4, <2>5 DEF TableInv, InCommand, Has
  <1>7. CASE kill_last_child_process
    <2>1. /\ children # << >> /\ main = "menu" /\ main' = "term" /\ key' = "-"
          /\ todo' = <<children[Len(children)]>>
          /\ children' = SubSeq(children, 1, Len(children) - 1)
          /\ UNCHANGED <<pc, pending>>
      BY <1>7 DEF kill_last_child_process, Press, childVars
    <2>2. children' \in Seq(Entries) /\ todo' \in Seq(Entries) /\ todo' # << >>
      BY <2>1 DEF TableInv
    <2>3. \A d \in Children : Has(children, d) => Has(todo', d) \/ Has(children', d)
      BY <2>1, HasFront DEF TableInv
    <2>4. \A d \in Children : ~Has(todo, d)
      BY <2>1 DEF TableInv, InCommand, Has
    <2> QED
      BY <2>1, <2>2, <2>3, <2>4 DEF TableInv, InCommand, Ending, Alive
  <1>8. ASSUME NEW k \in {"k", "q"}, kill_all_child_processes(k) PROVE TableInv'
    <2>1. /\ children # << >> /\ main = "menu" /\ main' = "term" /\ todo' = children
          /\ UNCHANGED <<pc, pending, children>>
      BY <1>8 DEF kill_all_child_processes, Press, childVars
    <2>2. \A d \in Children : ~Has(todo, d)
      BY <2>1 DEF TableInv, InCommand, Has
    <2> QED
      BY <2>1, <2>2 DEF TableInv, InCommand, Ending, Alive, Has
  <1>9. CASE exit_the_program
    BY <1>9 DEF exit_the_program, Press, childVars, TableInv, InCommand, Ending, Alive, Has
  <1>10. CASE Term
    <2>1. /\ main = "term" /\ main' = "wait" /\ UNCHANGED <<pc, key, children, todo>>
          /\ Send(Head(todo), "TERM")
      BY <1>10 DEF Term, childVars
    <2>2. /\ pending' \in [Children -> SUBSET {"USR2", "TERM"}]
          /\ \A d \in Children : Ending(d) => Ending(d)'
      BY <1>0, <2>1, SendFacts DEF Ending, Alive
    <2>3. \A d \in Children : Head(todo) = d => Ending(d)'
      BY <1>0, <2>1, SendFacts DEF Ending, Alive
    <2> QED
      BY <2>1, <2>2, <2>3 DEF TableInv, InCommand, Has
  <1>11. CASE WaitPid
    <2>1. /\ UNCHANGED pending /\ main = "wait" /\ TodoDone
          /\ (\E c \in Children : Goto(c, "zombie", "reaped")) \/ pc' = pc
      BY <1>11 DEF WaitPid, Zombies, Awaited, Means
    <2>2. \A d \in Children : Ending(d) => Ending(d)'
      BY <1>0, <2>1 DEF Goto, Ending, Alive
    <2> QED
      BY <1>0, <2>1, <2>2, DoneTable DEF TableInv, InCommand
  <1>12. CASE UNCHANGED vars
    BY <1>1, <1>12 DEF vars, childVars
  <1> QED
    BY <1>2, <1>3, <1>4, <1>5, <1>6, <1>7, <1>8, <1>9, <1>10, <1>11, <1>12 DEF Next, Menu

\* No child is forgotten alive, although a handler may cut a waitpid short and the
\* table is emptied all the same (Lab3/parent.c:132 to 134 and 147 to 151).
THEOREM NoneEscapesHolds == FairSpec => []NoneEscapes
  <1>1. TableInv => NoneEscapes
    BY DEF TableInv, NoneEscapes, Ending, Has
  <1> QED
    BY <1>1, InitAsk, NextAsk, InitTable, NextTable, PTL DEF FairSpec

(***************************************************************************)
(* EnvSpawn: the names of children, and who waits for whom.                *)
(***************************************************************************)
Symbols == {"+", "q"}

SpawnShapes ==
  /\ status \in [Processes -> States]
  /\ parent \in [Processes -> Processes]
  /\ number \in [Processes -> Nat]
  /\ child_num \in [Processes -> 0..MAX_CHILD]
  /\ buffer \in [Processes -> Seq(Symbols)]
  /\ typed \in 0..MaxTyped

\* Only a process that has been, or is, a menu has children.
Childless(p) == \A c \in Processes : c # p => parent[c] # p

NoChildren ==
  \A p \in Processes :
    /\ status[p] \in {"none", "forked", "program"} => Childless(p)
    /\ status[p] = "none" => parent[p] = p

\* The numbers a process has given are below its counter, each given once.
NumbersUsed ==
  \A p \in Processes : \A c \in ChildrenOf(p) :
    /\ number[c] < child_num[p]
    /\ \A d \in ChildrenOf(p) \ {c} : number[d] # number[c]

\* A process that has ended has waited for all its children.
NoOrphans ==
  \A p \in Processes : status[p] \in {"zombie", "reaped"} =>
    \A c \in ChildrenOf(p) : status[c] = "reaped"

SpawnInv == SpawnShapes /\ NoChildren /\ NumbersUsed /\ NoOrphans

LEMMA InitSpawn == SpawnInit => SpawnInv
  <1> SUFFICES ASSUME SpawnInit PROVE SpawnInv
    OBVIOUS
  <1>1. \A p \in Processes : status[p] \in {"menu", "none"} /\ parent[p] = p
    BY DEF SpawnInit
  <1>2. SpawnShapes
    BY SpawnAssumption DEF SpawnInit, SpawnShapes, States
  <1> QED
    BY <1>1, <1>2
       DEF SpawnInv, NoChildren, Childless, NumbersUsed, ChildrenOf, NoOrphans

\* A step by which nobody gets a child.
LEMMA NobodyBorn ==
  ASSUME SpawnInv, SpawnShapes', UNCHANGED <<parent, number>>,
         \A p \in Processes :
           /\ child_num'[p] >= child_num[p]
           /\ status'[p] \in {"none", "forked", "program"} =>
                status[p] \in {"none", "forked", "program"}
           /\ status'[p] = "none" => status[p] = "none"
           /\ status[p] = "reaped" => status'[p] = "reaped"
           /\ status'[p] \in {"zombie", "reaped"} =>
                \/ status[p] \in {"zombie", "reaped", "program"}
                \/ \A c \in ChildrenOf(p) : status[c] = "reaped"
  PROVE  SpawnInv'
  <1>1. \A p \in Processes : ChildrenOf(p)' = ChildrenOf(p) /\ ChildrenOf(p) \subseteq Processes
    BY DEF ChildrenOf
  <1>2. NoChildren'
    BY DEF SpawnInv, NoChildren, Childless
  <1>3. NumbersUsed'
    BY <1>1 DEF SpawnInv, SpawnShapes, NumbersUsed
  <1>4. \A p \in Processes : status[p] = "program" => ChildrenOf(p) = {}
    BY DEF SpawnInv, NoChildren, Childless, ChildrenOf
  <1>5. NoOrphans'
    BY <1>1, <1>4 DEF SpawnInv, NoOrphans
  <1> QED
    BY <1>2, <1>3, <1>5 DEF SpawnInv

LEMMA CreateSpawn ==
  ASSUME SpawnInv, NEW p \in Processes, NEW c \in Processes, Create(p, c)
  PROVE  SpawnInv'
  <1>1. /\ status[p] = "menu" /\ buffer[p] # << >> /\ child_num[p] < MAX_CHILD
        /\ status[c] = "none" /\ c # p
        /\ status' = [status EXCEPT ![c] = "forked"]
        /\ parent' = [parent EXCEPT ![c] = p]
        /\ number' = [number EXCEPT ![c] = child_num[p]]
        /\ child_num' = [child_num EXCEPT ![p] = @ + 1, ![c] = child_num[p] + 1]
        /\ buffer' = [buffer EXCEPT ![p] = Tail(@), ![c] = Tail(buffer[p])]
        /\ typed' = typed
    BY DEF Create, Key, Becomes
  <1>2. child_num[p] \in Nat /\ child_num[p] + 1 \in 0..MAX_CHILD
    <2>1. child_num[p] \in 0..MAX_CHILD /\ child_num[p] < MAX_CHILD
      BY <1>1 DEF SpawnInv, SpawnShapes
    <2> QED
      BY <2>1, SpawnAssumption
  <1>3. Tail(buffer[p]) \in Seq(Symbols)
    BY <1>1 DEF SpawnInv, SpawnShapes
  <1>4. SpawnShapes'
    BY <1>1, <1>2, <1>3 DEF SpawnInv, SpawnShapes, States
  <1>5. /\ status'[c] = "forked" /\ parent'[c] = p /\ number'[c] = child_num[p]
        /\ child_num'[p] = child_num[p] + 1
        /\ \A q \in Processes \ {c} : /\ status'[q] = status[q] /\ parent'[q] = parent[q]
                                      /\ number'[q] = number[q]
        /\ \A q \in Processes \ {p, c} : child_num'[q] = child_num[q]
    BY <1>1, <1>2 DEF SpawnInv, SpawnShapes
  <1>6. /\ Childless(c) /\ parent[c] = c
    BY <1>1 DEF SpawnInv, NoChildren
  <1>7. /\ ChildrenOf(p)' = ChildrenOf(p) \cup {c} /\ c \notin ChildrenOf(p)
        /\ ChildrenOf(c)' = {}
        /\ \A q \in Processes \ {p, c} : ChildrenOf(q)' = ChildrenOf(q) /\ c \notin ChildrenOf(q)
    BY <1>1, <1>5, <1>6 DEF ChildrenOf, Childless
  <1>8. NoChildren'
    BY <1>1, <1>5, <1>6 DEF SpawnInv, NoChildren, Childless
  <1>9. NumbersUsed'
    <2> SUFFICES ASSUME NEW q \in Processes, NEW d \in ChildrenOf(q)'
                 PROVE  /\ number'[d] < child_num'[q]
                        /\ \A e \in ChildrenOf(q)' \ {d} : number'[e] # number'[d]
      BY DEF NumbersUsed
    <2>1. \A r \in Processes : ChildrenOf(r) \subseteq Processes
      BY DEF ChildrenOf
    <2>2. CASE q = p
      <3>1. \A e \in ChildrenOf(p) : number'[e] = number[e] /\ number[e] < child_num[p]
                                     /\ number[e] \in Nat
        BY <1>5, <1>7, <2>1 DEF SpawnInv, SpawnShapes, NumbersUsed
      <3> QED
        BY <1>2, <1>5, <1>7, <2>1, <2>2, <3>1 DEF SpawnInv, NumbersUsed
    <2>3. CASE q # p
      BY <1>5, <1>7, <2>1, <2>3 DEF SpawnInv, NumbersUsed
    <2> QED
      BY <2>2, <2>3
  <1>10. NoOrphans'
    BY <1>1, <1>5, <1>7 DEF SpawnInv, NoOrphans, ChildrenOf
  <1> QED
    BY <1>4, <1>8, <1>9, <1>10 DEF SpawnInv

LEMMA NextSpawn == SpawnInv /\ [SpawnNext]_spawnVars => SpawnInv'
  <1> SUFFICES ASSUME SpawnInv, [SpawnNext]_spawnVars PROVE SpawnInv'
    OBVIOUS
  <1>1. ASSUME NEW p \in Processes, NEW line \in Lines, Type(p, line) PROVE SpawnInv'
    <2>1. /\ line \in Seq(Symbols) /\ UNCHANGED <<status, parent, number, child_num>>
          /\ typed' = typed + 1 /\ typed < MaxTyped
          /\ buffer' = [buffer EXCEPT ![p] = line]
      BY <1>1, SpawnAssumption DEF Type, Symbols
    <2>2. SpawnShapes'
      BY <2>1, SpawnAssumption DEF SpawnInv, SpawnShapes
    <2>3. \A q \in Processes : child_num[q] \in Int /\ child_num'[q] = child_num[q]
      BY <2>1 DEF SpawnInv, SpawnShapes
    <2> QED
      BY <2>1, <2>2, <2>3, NobodyBorn
  <1>2. ASSUME NEW p \in Processes, CreatesNone(p) \/ Quit(p) PROVE SpawnInv'
    <2>1. /\ buffer[p] # << >> /\ typed' = typed /\ UNCHANGED <<parent, number>>
          /\ \/ buffer' = [buffer EXCEPT ![p] = Tail(@)]
             \/ buffer' = [buffer EXCEPT ![p] = << >>]
          /\ \/ child_num' = child_num
             \/ child_num' = [child_num EXCEPT ![p] =
                                IF child_num[p] < MAX_CHILD THEN child_num[p] + 1
                                ELSE child_num[p]]
          /\ \/ status' = status
             \/ status[p] = "menu" /\ status' = [status EXCEPT ![p] = "waiting"]
      BY <1>2 DEF CreatesNone, Quit, Key, Becomes
    <2>2. /\ Tail(buffer[p]) \in Seq(Symbols) /\ << >> \in Seq(Symbols)
          /\ child_num[p] \in Nat /\ child_num[p] < MAX_CHILD => child_num[p] + 1 \in 0..MAX_CHILD
      BY <2>1, SpawnAssumption DEF SpawnInv, SpawnShapes
    <2>3. buffer' \in [Processes -> Seq(Symbols)]
      BY <2>1, <2>2 DEF SpawnInv, SpawnShapes
    <2>4. /\ child_num' \in [Processes -> 0..MAX_CHILD]
          /\ \A q \in Processes : child_num'[q] >= child_num[q]
      <3>1. /\ child_num \in [Processes -> 0..MAX_CHILD] /\ MAX_CHILD \in Nat
            /\ child_num[p] \in 0..MAX_CHILD
        BY SpawnAssumption DEF SpawnInv, SpawnShapes
      <3>2. CASE child_num' = child_num
        BY <3>1, <3>2
      <3>3. PICK k \in 0..MAX_CHILD : k >= child_num[p] /\
                 (child_num' # child_num => child_num' = [child_num EXCEPT ![p] = k])
        BY <2>1, <3>1
      <3>4. CASE child_num' = [child_num EXCEPT ![p] = k]
        BY <3>1, <3>3, <3>4
      <3> QED
        BY <3>2, <3>3, <3>4
    <2>5. /\ status' \in [Processes -> States]
          /\ \A q \in Processes : \/ status'[q] = status[q]
                                  \/ status[q] = "menu" /\ status'[q] = "waiting"
      BY <2>1 DEF SpawnInv, SpawnShapes, States
    <2>6. SpawnShapes'
      BY <2>1, <2>3, <2>4, <2>5 DEF SpawnInv, SpawnShapes
    <2> QED
      BY <2>1, <2>4, <2>5, <2>6, NobodyBorn
  <1>3. ASSUME NEW p \in Processes, Exec(p) \/ ExecFails(p) \/ ProgramEnds(p) PROVE SpawnInv'
    <2>1. /\ UNCHANGED <<parent, number, child_num, buffer, typed>>
          /\ \/ status[p] = "forked" /\ status' = [status EXCEPT ![p] = "program"]
             \/ status[p] = "forked" /\ status' = [status EXCEPT ![p] = "menu"]
             \/ status[p] = "program" /\ status' = [status EXCEPT ![p] = "zombie"]
      BY <1>3 DEF Exec, ExecFails, ProgramEnds, Becomes
    <2>2. SpawnShapes'
      BY <2>1 DEF SpawnInv, SpawnShapes, States
    <2>3. \A q \in Processes : child_num[q] \in Int /\ child_num'[q] = child_num[q]
      BY <2>1 DEF SpawnInv, SpawnShapes
    <2>4. status \in [Processes -> States] /\ \A q \in Processes \ {p} : status'[q] = status[q]
      BY <2>1 DEF SpawnInv, SpawnShapes
    <2>5. \/ status[p] = "forked" /\ status'[p] \in {"program", "menu"}
          \/ status[p] = "program" /\ status'[p] = "zombie"
      BY <2>1, <2>4
    <2> QED
      BY <2>1, <2>2, <2>3, <2>4, <2>5, NobodyBorn
  <1>4. ASSUME NEW p \in Processes, Wait(p) PROVE SpawnInv'
    <2>1. PICK c \in Processes :
            /\ status[c] = "zombie" /\ status' = [status EXCEPT ![c] = "reaped"]
            /\ UNCHANGED <<parent, number, child_num, buffer, typed>>
      BY <1>4 DEF Wait, ChildrenOf, Becomes
    <2>2. SpawnShapes'
      BY <2>1 DEF SpawnInv, SpawnShapes, States
    <2>3. \A q \in Processes : child_num[q] \in Int /\ child_num'[q] = child_num[q]
      BY <2>1 DEF SpawnInv, SpawnShapes
    <2>4. status \in [Processes -> States] /\ \A q \in Processes \ {c} : status'[q] = status[q]
      BY <2>1 DEF SpawnInv, SpawnShapes
    <2>5. status[c] = "zombie" /\ status'[c] = "reaped"
      BY <2>1, <2>4
    <2> QED
      BY <2>1, <2>2, <2>3, <2>4, <2>5, NobodyBorn
  <1>5. ASSUME NEW p \in Processes, Exit(p) PROVE SpawnInv'
    <2>1. /\ status[p] = "waiting" /\ status' = [status EXCEPT ![p] = "zombie"]
          /\ \A c \in ChildrenOf(p) : status[c] = "reaped"
          /\ UNCHANGED <<parent, number, child_num, buffer, typed>>
      BY <1>5 DEF Exit, Becomes
    <2>2. SpawnShapes'
      BY <2>1 DEF SpawnInv, SpawnShapes, States
    <2>3. \A q \in Processes : child_num[q] \in Int /\ child_num'[q] = child_num[q]
      BY <2>1 DEF SpawnInv, SpawnShapes
    <2>4. status \in [Processes -> States] /\ \A q \in Processes \ {p} : status'[q] = status[q]
      BY <2>1 DEF SpawnInv, SpawnShapes
    <2>5. status[p] = "waiting" /\ status'[p] = "zombie"
      BY <2>1, <2>4
    <2> QED
      BY <2>1, <2>2, <2>3, <2>4, <2>5, NobodyBorn
  <1>6. CASE UNCHANGED spawnVars
    BY <1>6 DEF spawnVars, SpawnInv, SpawnShapes, NoChildren, Childless, NumbersUsed,
                ChildrenOf, NoOrphans
  <1> QED
    BY <1>1, <1>2, <1>3, <1>4, <1>5, <1>6, CreateSpawn DEF SpawnNext, Runs

\* Names, parents and counters agree, in every process that runs this program,
\* whichever has created it (Lab2/parent.c:103 to 129).
THEOREM SpawnInvHolds == SpawnSpec => []SpawnInv
  BY InitSpawn, NextSpawn, PTL DEF SpawnSpec

\* The children of one process have different names, whatever processes have become
\* menus because execve has failed in them (Lab2/parent.c:113 and 119).
THEOREM NamesHold == SpawnSpec => []NamesDistinct
  <1>1. SpawnInv => NamesDistinct
    BY DEF SpawnInv, NumbersUsed, NamesDistinct
  <1> QED
    BY <1>1, SpawnInvHolds, PTL

\* No process ends before it has waited for every child it has created, also those
\* that have become menus and created children themselves (Lab2/parent.c:128).
THEOREM NoOrphansHolds == SpawnSpec => []NoOrphans
  <1>1. SpawnInv => NoOrphans
    BY DEF SpawnInv
  <1> QED
    BY <1>1, SpawnInvHolds, PTL
================================================================================
