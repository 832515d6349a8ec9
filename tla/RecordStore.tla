----------------------------- MODULE RecordStore -----------------------------
(***************************************************************************)
(* Lab7/main.c: processes that show and modify the records of one file.    *)
(* modify_and_save_record shows a record to its user, and before it writes *)
(* the user's version it locks the record, reads it again and compares.    *)
(*                                                                         *)
(* The locks are POSIX record locks: a process loses its locks on a file   *)
(* when it closes any descriptor of the file, and get_record and           *)
(* put_record open and close one of their own.                             *)
(*                                                                         *)
(* A record is abstracted to one value; Hole is a record of zeros left by  *)
(* a write beyond the end of the file, Missing is one at or beyond the     *)
(* end.  A read or write of one record is atomic.                          *)
(***************************************************************************)
EXTENDS Integers, FiniteSets

CONSTANTS
  Processes, NoProcess,
  RecordCount,            \* records init_file writes: 10 in the source
  Initial, Values,        \* what init_file writes; what users enter
  Hole, Missing, Unread,  \* no value: see above; Unread is an unset struct record_s
  FileExists              \* whether the file is there when the processes start

Records  == 1..RecordCount
Versions == Values \cup {Initial, Hole}

ASSUME RecordAssumption ==
  /\ RecordCount \in Nat \ {0} /\ FileExists \in BOOLEAN
  /\ NoProcess \notin Processes
  /\ {Missing, Unread} \cap Versions = {} /\ Missing # Unread
  /\ Hole \notin Values \cup {Initial}

VARIABLES
  exists, file,  \* whether the file is there, and its records
  lock,          \* the process that holds the lock of each record
  pc,            \* where each process is
  written,       \* records each process has written in init_file
  rec_no,        \* the record each process works on,
  rec, rec_wrk,  \* as get_record read it first, and as the user changed it,
  rec_new        \* and as it was read again

vars == <<exists, file, lock, pc, written, rec_no, rec, rec_wrk, rec_new>>

Init ==
  /\ exists = FileExists
  /\ file = [r \in Records |-> IF FileExists THEN Initial ELSE Missing]
  /\ lock = [r \in Records |-> NoProcess]
  /\ pc = [p \in Processes |-> "start"]
  /\ written = [p \in Processes |-> 0]
  /\ rec_no = [p \in Processes |-> 1]
  /\ rec = [p \in Processes |-> Unread]
  /\ rec_wrk = [p \in Processes |-> Unread]
  /\ rec_new = [p \in Processes |-> Unread]

Goto(p, from, to) == pc[p] = from /\ pc' = [pc EXCEPT ![p] = to]

\* get_record_count, and a write of v at record r.
Count == Cardinality({r \in Records : file[r] # Missing})

Written(r, v) ==
  [s \in Records |-> IF s = r THEN v
                     ELSE IF s < r /\ file[s] = Missing THEN Hole
                     ELSE file[s]]

\* What read may leave in a struct that held v: nothing is read past the end.
Fetched(r, v) == IF file[r] = Missing THEN v ELSE file[r]

\* The locks once p has closed a descriptor of the file, or unlocked.
DropLocks(p) == [r \in Records |-> IF lock[r] = p THEN NoProcess ELSE lock[r]]

(***************************************************************************)
(* main and init_file.                                                     *)
(***************************************************************************)
Access(p) ==
  /\ Goto(p, "start", IF exists THEN "menu" ELSE "create")
  /\ UNCHANGED <<exists, file, lock, written, rec_no, rec, rec_wrk, rec_new>>

Create(p) ==
  /\ Goto(p, "create", "initializing")
  /\ exists' = TRUE
  /\ file' = [r \in Records |-> Missing]
  /\ UNCHANGED <<lock, written, rec_no, rec, rec_wrk, rec_new>>

WriteInitial(p) ==
  /\ pc[p] = "initializing" /\ written[p] < RecordCount
  /\ written' = [written EXCEPT ![p] = @ + 1]
  /\ file' = Written(written'[p], Initial)
  /\ UNCHANGED <<exists, lock, pc, rec_no, rec, rec_wrk, rec_new>>

\* Mutant of Initialized: the loop stops one record short.
InitializedEarly(p) ==
  /\ Goto(p, "initializing", "menu") /\ written[p] >= RecordCount - 1
  /\ lock' = DropLocks(p)
  /\ UNCHANGED <<exists, file, written, rec_no, rec, rec_wrk, rec_new>>

Initialized(p) ==
  /\ Goto(p, "initializing", "menu") /\ written[p] = RecordCount
  /\ lock' = DropLocks(p)
  /\ UNCHANGED <<exists, file, written, rec_no, rec, rec_wrk, rec_new>>

(***************************************************************************)
(* Menu choice 3: modify_and_save_record.  Choices 1 and 2 change nothing. *)
(***************************************************************************)
Choose(p, r) ==
  /\ Goto(p, "menu", "get") /\ r <= Count
  /\ rec_no' = [rec_no EXCEPT ![p] = r]
  /\ UNCHANGED <<exists, file, lock, written, rec, rec_wrk, rec_new>>

\* Mutant of Get: the record is locked as it is shown, and stays so while its user
\* changes it.
GetLocked(p) ==
  /\ Goto(p, "get", "edit")
  /\ lock[rec_no[p]] \in {NoProcess, p}
  /\ rec' = [rec EXCEPT ![p] = Fetched(rec_no[p], @)]
  /\ lock' = [lock EXCEPT ![rec_no[p]] = p]
  /\ UNCHANGED <<exists, file, written, rec_no, rec_wrk, rec_new>>

Get(p) ==
  /\ Goto(p, "get", "edit")
  /\ rec' = [rec EXCEPT ![p] = Fetched(rec_no[p], @)]
  /\ lock' = DropLocks(p)
  /\ UNCHANGED <<exists, file, written, rec_no, rec_wrk, rec_new>>

\* The user's version is written only if it differs from the one shown.
Edit(p, v) ==
  /\ v # rec[p]
  /\ Goto(p, "edit", "lock")
  /\ rec_wrk' = [rec_wrk EXCEPT ![p] = v]
  /\ UNCHANGED <<exists, file, lock, written, rec_no, rec, rec_new>>

Keep(p) ==
  /\ Goto(p, "edit", "menu")
  /\ lock' = DropLocks(p)
  /\ rec' = [rec EXCEPT ![p] = Unread] /\ rec_new' = [rec_new EXCEPT ![p] = Unread]
  /\ UNCHANGED <<exists, file, written, rec_no, rec_wrk>>

\* fcntl(F_SETLKW) waits until no other process has the lock.
Lock(p) ==
  /\ Goto(p, "lock", "reread")
  /\ lock[rec_no[p]] \in {NoProcess, p}
  /\ lock' = [lock EXCEPT ![rec_no[p]] = p]
  /\ UNCHANGED <<exists, file, written, rec_no, rec, rec_wrk, rec_new>>

\* rec_new is read and compared with rec; get_record has closed its descriptor
\* by then, so unlock_record finds nothing to unlock.  A changed record is shown
\* again.  Two unset structs may or may not compare equal.
Reread(p) ==
  /\ pc[p] = "reread"
  /\ rec_new' = [rec_new EXCEPT ![p] = Fetched(rec_no[p], @)]
  /\ \/ /\ rec_new'[p] = rec[p]
        /\ pc' = [pc EXCEPT ![p] = "put"] /\ rec' = rec
     \/ /\ rec_new'[p] # rec[p] \/ rec_new'[p] = Unread
        /\ pc' = [pc EXCEPT ![p] = "get"] /\ rec' = [rec EXCEPT ![p] = rec_new'[p]]
  /\ lock' = DropLocks(p)
  /\ UNCHANGED <<exists, file, written, rec_no, rec_wrk>>

Put(p) ==
  /\ Goto(p, "put", "menu")
  /\ file' = Written(rec_no[p], rec_wrk[p])
  /\ lock' = DropLocks(p)
  /\ rec' = [rec EXCEPT ![p] = Unread]
  /\ rec_wrk' = [rec_wrk EXCEPT ![p] = Unread] /\ rec_new' = [rec_new EXCEPT ![p] = Unread]
  /\ UNCHANGED <<exists, written, rec_no>>

Exit(p) ==
  /\ Goto(p, "menu", "exited")
  /\ UNCHANGED <<exists, file, lock, written, rec_no, rec, rec_wrk, rec_new>>

\* What p does by itself, once its user has answered.
Runs(p) ==
  \/ Access(p) \/ Create(p) \/ WriteInitial(p) \/ Initialized(p)
  \/ Get(p) \/ Lock(p) \/ Reread(p) \/ Put(p)

Next ==
  \E p \in Processes :
    \/ Runs(p)
    \/ \E r \in Records : Choose(p, r)
    \/ \E v \in Values : Edit(p, v)
    \/ Keep(p)
    \/ Exit(p)

Spec == Init /\ [][Next]_vars

\* A process that waits neither for its user nor for a lock goes on, and a
\* waiter is not passed over for ever when the lock is freed again and again.
FairSpec == Spec /\ \A p \in Processes : WF_vars(Runs(p)) /\ SF_vars(Lock(p))

-------------------------------------------------------------------------------
Labels ==
  {"start", "create", "initializing", "menu", "get", "edit", "lock", "reread",
   "put", "exited"}

\* The state of the file, the locks and the processes.
TypeOK ==
  /\ exists \in BOOLEAN
  /\ file \in [Records -> Versions \cup {Missing}]
  /\ lock \in [Records -> Processes \cup {NoProcess}]
  /\ pc \in [Processes -> Labels]
  /\ written \in [Processes -> 0..RecordCount]
  /\ rec_no \in [Processes -> Records]
  /\ rec \in [Processes -> Versions \cup {Unread}]
  /\ rec_wrk \in [Processes -> Values \cup {Unread}]
  /\ rec_new \in [Processes -> Versions \cup {Unread}]

\* However many processes find no file and write one over each other's, the
\* file is whole once the last of them is done (lines 41 to 54): no record is
\* missing, and none is a hole.
InitComplete ==
  exists /\ (\A p \in Processes : pc[p] # "initializing")
    => \A r \in Records : file[r] \notin {Hole, Missing}

\* Whatever a user has asked for or entered, the process comes back to him, with the
\* menu or the record shown again (line 171): it does not wait for ever for a lock,
\* though others lock the record again and again, and their users may never answer
\* (lines 121 and 150 to 174).
UserAnswered ==
  \A p \in Processes : pc[p] \in {"get", "lock", "reread", "put"} ~> pc[p] \in {"menu", "edit"}

\* An update replaces the record its user was shown; a record that another
\* process has changed meanwhile is not overwritten (line 171).
NoLostUpdate ==
  [][\A p \in Processes : Put(p) => file[rec_no[p]] = rec[p]]_vars
==============================================================================
