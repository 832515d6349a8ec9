--------------------------- MODULE RecordStore_proof ---------------------------
(***************************************************************************)
(* Theorems about RecordStore, for any processes, values and number of     *)
(* records: its types, that the file is whole once every init_file has     *)
(* returned, and who may hold a lock.                                      *)
(***************************************************************************)
EXTENDS RecordStore, TLAPS

\* What is behind the types of the file: only a value a user has entered is put.
Entered == \A p \in Processes : pc[p] \in {"lock", "reread", "put"} => rec_wrk[p] \in Values

\* init_file starts with the first record.
FromTheStart == \A p \in Processes : pc[p] \in {"start", "create"} => written[p] = 0

\* p is in init_file, and has still to write record r.
WillWrite(p, r) == pc[p] = "initializing" /\ written[p] < r

\* A record that is missing or a hole will be written by somebody.
BlanksFilled ==
  exists => \A r \in Records : file[r] \in {Hole, Missing} =>
              \E p \in Processes : WillWrite(p, r)

IInv == TypeOK /\ Entered /\ FromTheStart /\ BlanksFilled

\* What a write at record r leaves in the file.
LEMMA WrittenType ==
  ASSUME file \in [Records -> Versions \cup {Missing}],
         NEW r \in Records, NEW v \in Values \cup {Initial}
  PROVE  /\ Written(r, v) \in [Records -> Versions \cup {Missing}]
         /\ \A s \in Records : Written(r, v)[s] \in {Hole, Missing} =>
              s # r /\ file[s] \in {Hole, Missing}
  BY RecordAssumption DEF Written, Versions

LEMMA DropLocksType ==
  ASSUME lock \in [Records -> Processes \cup {NoProcess}], NEW p
  PROVE  DropLocks(p) \in [Records -> Processes \cup {NoProcess}]
  BY DEF DropLocks

LEMMA FetchedType ==
  ASSUME file \in [Records -> Versions \cup {Missing}],
         NEW r \in Records, NEW v \in Versions \cup {Unread}
  PROVE  Fetched(r, v) \in Versions \cup {Unread}
  BY DEF Fetched

LEMMA InitInv == Init => IInv
  <1> SUFFICES ASSUME Init PROVE IInv
    OBVIOUS
  <1>1. TypeOK
    BY RecordAssumption DEF Init, TypeOK, Labels, Records, Versions
  <1>2. Entered /\ FromTheStart
    BY DEF Init, Entered, FromTheStart
  <1>3. BlanksFilled
    BY RecordAssumption DEF Init, BlanksFilled, Versions
  <1> QED
    BY <1>1, <1>2, <1>3 DEF IInv

(***************************************************************************)
(* The types.                                                              *)
(***************************************************************************)
LEMMA NextTypes == IInv /\ [Next]_vars => TypeOK'
  <1> SUFFICES ASSUME IInv, [Next]_vars PROVE TypeOK'
    OBVIOUS
  <1> USE DEF TypeOK, Labels, Goto
  <1>0. TypeOK
    BY DEF IInv
  <1>1. CASE UNCHANGED vars
    BY <1>0, <1>1 DEF vars
  <1>2. ASSUME NEW p \in Processes, Access(p) PROVE TypeOK'
    BY <1>0, <1>2 DEF Access
  <1>3. ASSUME NEW p \in Processes, Create(p) PROVE TypeOK'
    BY <1>0, <1>3 DEF Create
  <1>4. ASSUME NEW p \in Processes, WriteInitial(p) PROVE TypeOK'
    <2>1. written[p] + 1 \in Records /\ written[p] + 1 \in 0..RecordCount
      BY <1>0, <1>4, RecordAssumption DEF WriteInitial, Records
    <2>2. written' \in [Processes -> 0..RecordCount] /\ written'[p] = written[p] + 1
      BY <1>0, <1>4, <2>1 DEF WriteInitial
    <2>3. file' \in [Records -> Versions \cup {Missing}]
      BY <1>0, <1>4, <2>1, <2>2, WrittenType DEF WriteInitial
    <2> QED
      BY <1>0, <1>4, <2>2, <2>3 DEF WriteInitial
  <1>5. ASSUME NEW p \in Processes, Initialized(p) PROVE TypeOK'
    BY <1>0, <1>5, DropLocksType DEF Initialized
  <1>6. ASSUME NEW p \in Processes, NEW r \in Records, Choose(p, r) PROVE TypeOK'
    BY <1>0, <1>6 DEF Choose
  <1>7. ASSUME NEW p \in Processes, Get(p) PROVE TypeOK'
    <2>1. Fetched(rec_no[p], rec[p]) \in Versions \cup {Unread}
      BY <1>0, FetchedType
    <2> QED
      BY <1>0, <1>7, <2>1, DropLocksType DEF Get
  <1>8. ASSUME NEW p \in Processes, NEW v \in Values, Edit(p, v) PROVE TypeOK'
    BY <1>0, <1>8 DEF Edit
  <1>9. ASSUME NEW p \in Processes, Keep(p) PROVE TypeOK'
    BY <1>0, <1>9, DropLocksType DEF Keep
  <1>10. ASSUME NEW p \in Processes, Lock(p) PROVE TypeOK'
    BY <1>0, <1>10 DEF Lock
  <1>11. ASSUME NEW p \in Processes, Reread(p) PROVE TypeOK'
    <2>1. Fetched(rec_no[p], rec_new[p]) \in Versions \cup {Unread}
      BY <1>0, FetchedType
    <2>2. lock' \in [Records -> Processes \cup {NoProcess}]
      BY <1>0, <1>11, DropLocksType DEF Reread
    <2>3. rec_new' \in [Processes -> Versions \cup {Unread}]
      BY <1>0, <1>11, <2>1 DEF Reread
    <2>4. rec_new'[p] \in Versions \cup {Unread}
      BY <2>3
    <2>5. pc' \in [Processes -> Labels] /\ rec' \in [Processes -> Versions \cup {Unread}]
      BY <1>0, <1>11, <2>4 DEF Reread
    <2> QED
      BY <1>0, <1>11, <2>2, <2>3, <2>5 DEF Reread
  <1>12. ASSUME NEW p \in Processes, Put(p) PROVE TypeOK'
    <2>1. rec_wrk[p] \in Values
      BY <1>12 DEF IInv, Entered, Put
    <2>2. file' \in [Records -> Versions \cup {Missing}]
      BY <1>0, <1>12, <2>1, WrittenType DEF Put
    <2> QED
      BY <1>0, <1>12, <2>2, DropLocksType DEF Put
  <1>13. ASSUME NEW p \in Processes, Exit(p) PROVE TypeOK'
    BY <1>0, <1>13 DEF Exit
  <1> QED
    BY <1>1, <1>2, <1>3, <1>4, <1>5, <1>6, <1>7, <1>8, <1>9, <1>10, <1>11, <1>12, <1>13
       DEF Next, Runs

(***************************************************************************)
(* The rest of the invariant.                                              *)
(***************************************************************************)
LEMMA NextEntered == IInv /\ [Next]_vars => Entered' /\ FromTheStart'
  <1> SUFFICES ASSUME IInv, [Next]_vars PROVE Entered' /\ FromTheStart'
    OBVIOUS
  <1> USE DEF IInv, TypeOK, Entered, FromTheStart, Goto
  <1>1. CASE UNCHANGED vars
    BY <1>1 DEF vars
  <1>2. ASSUME NEW p \in Processes,
               \/ Access(p) \/ Create(p) \/ WriteInitial(p) \/ Initialized(p)
               \/ (\E r \in Records : Choose(p, r)) \/ Get(p)
        PROVE  Entered' /\ FromTheStart'
    BY <1>2 DEF Access, Create, WriteInitial, Initialized, Choose, Get
  <1>3. ASSUME NEW p \in Processes,
               \/ (\E v \in Values : Edit(p, v)) \/ Keep(p) \/ Lock(p)
               \/ Reread(p) \/ Put(p) \/ Exit(p)
        PROVE  Entered' /\ FromTheStart'
    BY <1>3 DEF Edit, Keep, Lock, Reread, Put, Exit
  <1> QED
    BY <1>1, <1>2, <1>3 DEF Next, Runs

\* A step that makes nothing blank and leaves init_file as it is.
LEMMA SameBlanks ==
  ASSUME BlanksFilled, UNCHANGED <<exists, written>>,
         \A r \in Records : file'[r] \in {Hole, Missing} => file[r] \in {Hole, Missing},
         \A p \in Processes : pc[p] = "initializing" => pc'[p] = "initializing"
  PROVE  BlanksFilled'
  BY DEF BlanksFilled, WillWrite

LEMMA NextBlanks == IInv /\ [Next]_vars => BlanksFilled'
  <1> SUFFICES ASSUME IInv, [Next]_vars PROVE BlanksFilled'
    OBVIOUS
  <1>0. TypeOK /\ BlanksFilled
    BY DEF IInv
  <1>1. CASE UNCHANGED vars
    BY <1>0, <1>1, SameBlanks DEF vars
  <1>2. ASSUME NEW p \in Processes,
               \/ Access(p) \/ (\E r \in Records : Choose(p, r)) \/ Get(p)
               \/ (\E v \in Values : Edit(p, v)) \/ Keep(p) \/ Lock(p) \/ Exit(p)
        PROVE  BlanksFilled'
    <2>1. UNCHANGED <<exists, written, file>>
      BY <1>2 DEF Access, Choose, Get, Edit, Keep, Lock, Exit
    <2>2. \A q \in Processes : pc[q] = "initializing" => pc'[q] = "initializing"
      BY <1>0, <1>2 DEF TypeOK, Goto, Access, Choose, Get, Edit, Keep, Lock, Exit
    <2> QED
      BY <1>0, <2>1, <2>2, SameBlanks
  <1>3. ASSUME NEW p \in Processes, Reread(p) PROVE BlanksFilled'
    BY <1>0, <1>3, SameBlanks DEF TypeOK, Reread
  <1>4. ASSUME NEW p \in Processes, Create(p) PROVE BlanksFilled'
    <2>1. \A r \in Records : WillWrite(p, r)'
      BY <1>0, <1>4 DEF IInv, FromTheStart, TypeOK, Create, Goto, WillWrite, Records
    <2> QED
      BY <2>1 DEF BlanksFilled
  <1>5. ASSUME NEW p \in Processes, WriteInitial(p) PROVE BlanksFilled'
    <2>1. /\ written[p] + 1 \in Records /\ UNCHANGED <<exists, pc>>
          /\ written'[p] = written[p] + 1 /\ file' = Written(written[p] + 1, Initial)
          /\ \A q \in Processes \ {p} : written'[q] = written[q]
      BY <1>0, <1>5, RecordAssumption DEF TypeOK, WriteInitial, Records
    <2> SUFFICES ASSUME exists, NEW r \in Records, file'[r] \in {Hole, Missing}
                 PROVE  \E q \in Processes : WillWrite(q, r)'
      BY <2>1 DEF BlanksFilled
    <2>2. r # written[p] + 1 /\ file[r] \in {Hole, Missing}
      BY <1>0, <2>1, WrittenType DEF TypeOK
    <2>3. PICK q \in Processes : WillWrite(q, r)
      BY <1>0, <2>2 DEF BlanksFilled
    <2>4. written'[q] < r
      <3>1. CASE q = p
        BY <1>0, <2>1, <2>2, <2>3, <3>1, RecordAssumption DEF WillWrite, TypeOK, Records
      <3>2. CASE q # p
        BY <2>1, <2>3, <3>2 DEF WillWrite
      <3> QED
        BY <3>1, <3>2
    <2>5. WillWrite(q, r)'
      BY <2>1, <2>3, <2>4 DEF WillWrite
    <2> QED
      BY <2>5
  <1>6. ASSUME NEW p \in Processes, Initialized(p) PROVE BlanksFilled'
    <2> SUFFICES ASSUME exists, NEW r \in Records, file[r] \in {Hole, Missing}
                 PROVE  \E q \in Processes : WillWrite(q, r)'
      BY <1>6 DEF BlanksFilled, Initialized
    <2>1. PICK q \in Processes : WillWrite(q, r)
      BY <1>0 DEF BlanksFilled
    <2>2. q # p
      BY <1>6, <2>1, RecordAssumption DEF Initialized, WillWrite, Records
    <2>3. WillWrite(q, r)'
      BY <1>0, <1>6, <2>1, <2>2 DEF WillWrite, TypeOK, Initialized, Goto
    <2> QED
      BY <2>3
  <1>7. ASSUME NEW p \in Processes, Put(p) PROVE BlanksFilled'
    <2>1. rec_wrk[p] \in Values /\ rec_no[p] \in Records
      BY <1>0, <1>7 DEF IInv, Entered, TypeOK, Put, Goto
    <2>2. \A r \in Records : file'[r] \in {Hole, Missing} => file[r] \in {Hole, Missing}
      BY <1>0, <1>7, <2>1, WrittenType DEF TypeOK, Put
    <2> QED
      BY <1>0, <1>7, <2>2, SameBlanks DEF TypeOK, Put, Goto
  <1> QED
    BY <1>1, <1>2, <1>3, <1>4, <1>5, <1>6, <1>7 DEF Next, Runs

\* The inductive invariant holds in every reachable state.
THEOREM InvHolds == Spec => []IInv
  <1>1. IInv /\ [Next]_vars => IInv'
    BY NextTypes, NextEntered, NextBlanks DEF IInv
  <1> QED
    BY <1>1, InitInv, PTL DEF Spec

\* The file never holds anything but records, and every process works on a record
\* of it (Lab7/main.c:41 to 54 and 141 to 187).
THEOREM TypesHold == Spec => []TypeOK
  <1>1. IInv => TypeOK
    BY DEF IInv
  <1> QED
    BY <1>1, InvHolds, PTL

\* Once no process is in init_file, the file has every record: each has been
\* written after the last process that cut the file off (Lab7/main.c:41 to 54).
THEOREM InitCompletes == Spec => []InitComplete
  <1>1. IInv => InitComplete
    BY DEF IInv, InitComplete, BlanksFilled, WillWrite
  <1> QED
    BY <1>1, InvHolds, PTL

(***************************************************************************)
(* The locks.                                                              *)
(***************************************************************************)
\* A record is locked only while its holder reads it again: get_record drops the
\* lock when it closes its descriptor, whatever record it has read, and so does
\* every other close.  So a process that waits for a lock, for its user, or that is
\* about to write, holds none: no processes wait for each other in a circle (line
\* 121), and put_record (line 176) never writes under the lock that is to protect it.
LocksHeld ==
  \A r \in Records : lock[r] # NoProcess =>
    lock[r] \in Processes /\ pc[lock[r]] = "reread" /\ rec_no[lock[r]] = r

\* A step of p that moves nobody else, and no holder of a lock but p.
LEMMA OthersHold ==
  ASSUME TypeOK, LocksHeld, NEW p \in Processes,
         pc' \in [Processes -> Labels], \A q \in Processes \ {p} : pc'[q] = pc[q],
         \A q \in Processes \ {p} : rec_no'[q] = rec_no[q],
         \/ pc[p] # "reread" /\ lock' = lock
         \/ lock' = DropLocks(p)
  PROVE  LocksHeld'
  <1> SUFFICES ASSUME NEW r \in Records, lock'[r] # NoProcess
               PROVE  /\ lock'[r] \in Processes /\ pc'[lock'[r]] = "reread"
                      /\ rec_no'[lock'[r]] = r
    BY DEF LocksHeld
  <1>1. lock'[r] = lock[r] /\ lock[r] # p
    <2>1. CASE lock' = lock
      <3>1. lock[r] # p \/ lock' = DropLocks(p)
        BY <2>1 DEF LocksHeld
      <3> QED
        BY <2>1, <3>1 DEF DropLocks
    <2>2. CASE lock' = DropLocks(p)
      BY <2>2 DEF DropLocks
    <2> QED
      BY <2>1, <2>2
  <1>2. lock[r] \in Processes \ {p} /\ pc[lock[r]] = "reread" /\ rec_no[lock[r]] = r
    BY <1>1 DEF LocksHeld
  <1> QED
    BY <1>1, <1>2

LEMMA LocksNext == IInv /\ LocksHeld /\ [Next]_vars => LocksHeld'
  <1> SUFFICES ASSUME IInv, LocksHeld, [Next]_vars PROVE LocksHeld'
    OBVIOUS
  <1>0. TypeOK /\ TypeOK'
    BY NextTypes DEF IInv
  <1>1. CASE UNCHANGED vars
    BY <1>1 DEF vars, LocksHeld
  <1>2. ASSUME NEW p \in Processes, Lock(p) PROVE LocksHeld'
    <2> DEFINE m == rec_no[p]
    <2>1. /\ m \in Records /\ pc[p] = "lock" /\ pc'[p] = "reread" /\ rec_no' = rec_no
          /\ lock'[m] = p /\ \A r \in Records \ {m} : lock'[r] = lock[r]
          /\ \A q \in Processes \ {p} : pc'[q] = pc[q]
      BY <1>0, <1>2 DEF Lock, Goto, TypeOK
    <2> HIDE DEF m
    <2> SUFFICES ASSUME NEW r \in Records, lock'[r] # NoProcess
                 PROVE  /\ lock'[r] \in Processes /\ pc'[lock'[r]] = "reread"
                        /\ rec_no'[lock'[r]] = r
      BY DEF LocksHeld
    <2>2. CASE r = m
      BY <2>1, <2>2 DEF m
    <2>3. CASE r # m
      <3>1. lock[r] \in Processes /\ pc[lock[r]] = "reread" /\ rec_no[lock[r]] = r /\ lock[r] # p
        BY <2>1, <2>3 DEF LocksHeld
      <3> QED
        BY <2>1, <2>3, <3>1
    <2> QED
      BY <2>2, <2>3
  <1>3. ASSUME NEW p \in Processes,
               \/ Access(p) \/ Create(p) \/ WriteInitial(p) \/ Initialized(p)
               \/ (\E r \in Records : Choose(p, r)) \/ Get(p)
        PROVE  LocksHeld'
    <2>1. \/ pc[p] # "reread" /\ lock' = lock
          \/ lock' = DropLocks(p)
      BY <1>3 DEF Access, Create, WriteInitial, Initialized, Choose, Get, Goto
    <2>2. \A q \in Processes \ {p} : pc'[q] = pc[q]
      BY <1>0, <1>3 DEF Access, Create, WriteInitial, Initialized, Choose, Get, Goto, TypeOK
    <2>3. \A q \in Processes \ {p} : rec_no'[q] = rec_no[q]
      BY <1>0, <1>3 DEF Access, Create, WriteInitial, Initialized, Choose, Get, TypeOK
    <2>4. pc' \in [Processes -> Labels]
      BY <1>0 DEF TypeOK
    <2> QED
      BY <1>0, <2>1, <2>2, <2>3, <2>4, OthersHold
  <1>4. ASSUME NEW p \in Processes,
               (\E v \in Values : Edit(p, v)) \/ Keep(p) \/ Reread(p) \/ Put(p) \/ Exit(p)
        PROVE  LocksHeld'
    <2>1. \/ pc[p] # "reread" /\ lock' = lock
          \/ lock' = DropLocks(p)
      BY <1>4 DEF Edit, Keep, Reread, Put, Exit, Goto
    <2>2. \A q \in Processes \ {p} : pc'[q] = pc[q]
      BY <1>0, <1>4 DEF Edit, Keep, Reread, Put, Exit, Goto, TypeOK
    <2>3. \A q \in Processes \ {p} : rec_no'[q] = rec_no[q]
      BY <1>4 DEF Edit, Keep, Reread, Put, Exit
    <2>4. pc' \in [Processes -> Labels]
      BY <1>0 DEF TypeOK
    <2> QED
      BY <1>0, <2>1, <2>2, <2>3, <2>4, OthersHold
  <1> QED
    BY <1>1, <1>2, <1>3, <1>4 DEF Next, Runs

\* For any number of processes and records, nobody waits for a lock, or for its user,
\* with a lock held, and nobody writes with one held (Lab7/main.c:121 and 166 to 177).
THEOREM LocksHold == Spec => []LocksHeld
  <1>1. Init => LocksHeld
    BY DEF Init, LocksHeld
  <1> QED
    BY <1>1, LocksNext, InvHolds, PTL DEF Spec
================================================================================
