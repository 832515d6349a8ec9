# A verification project for the OSandSP labs

The repository holds eight small, independent C programs about processes,
signals, threads, memory mapping, record locks and sockets. This project models
those in which several processes or threads share state or talk to each other,
checks the models with TLC, and proves the safety of most of them with TLAPS.
References such as `parent1.c:63` are to files and lines of the repository.

1. [Inventory](#1-inventory)
2. [Modules](#2-modules)
3. [How the models correspond to the code](#3-how-the-models-correspond-to-the-code)
4. [Runs](#4-runs)
5. [Fairness](#5-fairness)
6. [Proofs](#6-proofs)
7. [What the code does that its own texts do not say](#7-what-the-code-does-that-its-own-texts-do-not-say)
8. [What is not modelled](#8-what-is-not-modelled)
9. [Plan](#9-plan)

## 1. Inventory

Nothing but the eight directories `Lab1` to `Lab8` is program code, some 2,200
lines of it; the `cmake-build-debug` directories, with the twelve thousand lines of
the compiler probes `CMakeCCompilerId.c` and `CMakeCXXCompilerId.cpp`, and `.idea`
are generated.

| Component | State it keeps | Operations | What makes it hard | What makes it correct |
|---|---|---|---|---|
| **Lab5 semaphore queue**, `Lab5/parent1.c` | ring `buffer`, `head`, `tail`, the counts of messages; `mutex`, `empty_count`, `full_count`; `current_queue_size`; the arrays of threads and their counts | threads `producer`, `consumer`; keys `p c P C + - s q` read by `main` | threads created and cancelled at any point; the size kept in tokens and in a variable; `main` itself waits for a semaphore | no token lost; nothing overwritten; messages whole and in order; kill, quit and resize come back |
| **Lab5 condition queue**, `Lab5/parent2.c` | the same ring and menu; `not_full`, `not_empty` | the same | wakeups can be lost, stolen or spurious; full and empty are told from `head` and `tail` alone; cancellation inside `pthread_cond_wait` | no lost wakeup; the index arithmetic is right; the same queue as above |
| **Lab4 shared-memory queue**, `Lab4/parent.c` | the ring in shared memory; three System V semaphores; in each process `needTerminate`; in the parent the lists of children | processes `producer_loop`, `consumer_loop`; `SIGTERM`; keys `p c P C s q` | a signal between any two steps; `EINTR` from one of two semaphore operations; tokens die with processes | mutex never left taken; queue in order; no token lost; `waitpid` returns |
| **Lab7 record store**, `Lab7/main.c` | a file of ten records; POSIX record locks; in each process the record shown and the record edited | `init_file`, list, get, modify and save | several processes start on no file; the user sits between read and write; closing any descriptor drops the locks | the file is whole; no lost update; nobody waits for a lock for ever |
| **Lab6 index sort**, `Lab6/sort_index.c` | mapped part of the file, `block_map`, barrier, mutex | `thread_func`: sort blocks, merge in phases; `merge_parts`: k-way merge into a new file | claims of blocks; phases kept apart by a barrier; which thread merges what | no two threads on the same records; no record lost; the result is sorted |
| **Lab6 generator and viewer**, `Lab6/gen.c`, `Lab6/view.c` | none | write and print an index file | nothing | the header counts the records |
| **Lab3 signal statistics**, `Lab3/parent.c` | in each child the pair, four counters, `cycle_count`; in the parent the children | the child's loop and its two handlers; the parent's handler; keys `+ - l k q` | signals between test and `pause`; a handler of the parent running inside its menu; a failed `fork` in the table of children | no torn pair is counted, the counts add up to the rounds; a child that asks is answered; no child survives a kill |
| **Lab8 server**, `Lab8/server.c` | a session per client with its directory; `log_mutex`; `running` | `ECHO QUIT INFO CD LIST`, shutdown on `SIGINT` | one thread per client; requests split or joined in the stream; `CD` without argument is not answered | each request answered once, in order; the directory stays inside the root |
| **Lab8 client**, `Lab8/client.c` | the socket; the line typed; a command file | send a line, read the response until silence | a response is over after five seconds without data; late data belongs to the wrong request; reads join and cut what the server writes; the user may press Control-C | responses are shown under their requests |
| **Lab2 environment and children**, `Lab2/parent.c`, `Lab2/child.c` | the sorted environment; the number of the next child | `+ * q`: fork and execve with a reduced environment | a child whose `execve` fails goes on in the parent's loop | children numbered 0 to 99; all waited for |
| **Lab1 directory walk**, `Lab1/dirwalk.c`, `Lab1/function.c` | the list of paths | options, recursive walk, sort | recursion over links and unreadable directories | each entry listed once, by kind |

The components do not interact with each other. Inside Lab4 and the two programs
of Lab5 the interaction is the same: a menu creates and ends producers and
consumers, and these share one ring. `parent1.c` and `parent2.c` have the same
menu, ring and helper functions line by line.

The hazards these programs are exposed to are listed in `PROJECT.json` at the
lines where they bite, each with the properties that watch it.

## 2. Modules

| Module | Models |
|---|---|
| `BoundedFifo` | abstract: what a queue of Lab4 or Lab5 promises. Messages are numbered; they leave once each, in order; one enters only while there is room; the room may change. |
| `MessageRing` | the ring of Lab4 and Lab5: `head`, `tail`, slots, counts, and the two halves of writing a message |
| `ThreadMenu` | the main thread of Lab5: create, cancel, join, count, status, quit |
| `SemQueue` | `parent1.c`: `ThreadMenu` and `MessageRing` composed over semaphores |
| `CondQueue` | `parent2.c`: the same two composed over condition variables |
| `ShmQueue` | `Lab4/parent.c`: `MessageRing` with processes, semaphores and signals |
| `RecordStore` | `Lab7/main.c` |
| `ParallelSort` | `Lab6/sort_index.c`: the threads of each part, and the merge of the parts |
| `SignalStats` | `Lab3/parent.c`: the children, the parent's handler and its menu |
| `CommandSession` | `Lab8/client.c` and one thread of `Lab8/server.c`, composed over a connection |
| `SessionServer` | `Lab8/server.c` with several clients: accept, threads, log, descriptors, shutdown |
| `EnvSpawn` | `Lab2/parent.c`, with what matters of `child.c` |
| `QueueLemmas` | what the proofs about the three queues share: counting threads at some labels, and what each operation on the ring does to the messages in it |
| `SemQueue_proof`, `CondQueue_proof`, `ShmQueue_proof`, `RecordStore_proof`, `ParallelSort_proof` | theorems about the module of that name |
| `ChildProcesses_proof` | theorems about `SignalStats` and `EnvSpawn`, the two programs whose processes create processes |
| `Lab8_proof` | theorems about `CommandSession` and `SessionServer` |
| `MCSemQueue`, `MCCondQueue`, `MCRecordStore`, `MCParallelSort`, `MCEnvSpawn` | instances for TLC: symmetry sets, the files to sort, the lines to type |

`SemQueue`, `CondQueue` and `ShmQueue` each refine `BoundedFifo` (`ImplementsFifo`
is a property of their runs). The queue is read off the ring, from `head` to
`tail` (`Contents`); its capacity is what the tokens say (`Capacity` in
`SemQueue`), `current_queue_size` (`CondQueue`) or the number of slots
(`ShmQueue`).

A definition called a mutant in its comment is a variant of a definition with a
plausible mistake in it. It is used by no specification; it records which mistake
makes which property fail.

## 3. How the models correspond to the code

**Messages.** A message is its number; `Torn` is a slot that
`fill_random_message` has begun and not finished. The type, size, data and hash of
a message are therefore abstracted to "whole or not": `hash_ok=YES` is
`msg[c] = consumedCount + 1`, which says also that the message is the right one.
Filling and copying take two steps each, so that a reader or a second writer in
between is seen.

**Threads of Lab5** (`SemQueue`, `CondQueue`). `pc[t]` is where a thread is.
A step ends where another thread may see the difference: `sem_wait`, taking the
mutex, beginning and ending the copy, releasing the mutex together with the last
statements before it, `sem_post`, and the rest of the round (`printf`, `sleep`).
What a thread does with its own copy after the critical section is not a step.
Cancellation is deferred, so a cancelled thread ends only at a cancellation
point: `sem_wait`, `pthread_cond_wait`, `printf`, `sleep`. One that is waiting in
`sem_wait` takes no token; one in `pthread_cond_wait` takes the mutex back and
ends holding it, for `parent2.c` installs no cleanup handler. After that the mutex
belongs to `DeadOwner`.

**Main thread of Lab5** (`ThreadMenu`). A key is read at `menu`; each later step
is one blocking call. The main thread holds `mutex` only around single statements
which no other thread reads (the counts of threads), or, in `parent2.c`, around
the change of the size, so such a section is one step enabled when the mutex is
free. The order of the code is kept: `p` starts the thread before it counts it,
`+` of `parent1.c` posts the token before it raises `current_queue_size`, `-`
waits for the token first.

**Processes of Lab4** (`ShmQueue`). A `semop` is called (`call`, `lockCall`) and
then succeeds or blocks (`blocked`, `lockBlocked`): `SIGTERM` interrupts it only
in the second state. `Deliver` is the arrival of the signal. Before the child has
installed its handler (`forked`) it dies of it; blocked for a token it goes round
the loop and sees `needTerminate`; blocked for the mutex it breaks out of the loop
with the token in its hand; everywhere else only the flag is set. `s` reads and
prints without changing anything, and is no action.

**Processes of Lab7** (`RecordStore`). Each process has its own program counter;
reading and writing one record is atomic. `Access` and `Create` are separate, as
in the code. `DropLocks` is in every step in which the process closes a descriptor
of the file, which by POSIX drops all its locks on it. `get_record` opens and
closes one, so the lock taken at `main.c:166` is gone after the comparison. A
record beyond the end of the file is `Missing`; one skipped by a write further on
is `Hole`; reading a missing record leaves the struct (`rec`, `rec_new`) as it was, `Unread` if
it was never set.

**Threads of Lab6** (`ParallelSort`). A file is a function from positions to
keys. Sorting a block (`qsort`), merging two runs into `tmp_buf`, and copying them
back are one step each. `Sorted` is one of the rearrangements in order; which one
makes no difference, a record being its key. `Merged` is the loops of `merge()`:
`Taken` is how many records of the first run are among the first `k` written, and
`Take` how one more iteration changes that number. `RangesDisjoint` says that nobody else
is at these records meanwhile, which is what makes the coarse steps right. The code keeps the
length of a run and their number in two variables; the model keeps the number
(`current_blocks`), from which the length follows. `Release` is the barrier: it
opens when every thread of the command line is there, so `Create` may leave a
thread out (`missing`), for `pthread_create` is not checked, and then it never
opens. `merge_parts` reads one record ahead of each part; `Current` is that record.

**Processes of Lab3** (`SignalStats`). A signal of a kind is pending or not, and is
not counted: `usr1` is the one `SIGUSR1` the parent can have pending. A child's
`SIGUSR1` to itself is handled inside `raise`, so storing the pair, in two steps,
and counting it cannot overlap; `StatsTruthful` says so, and its mutant raises
between the two. `Handle` and `Reply` are the parent's handler, which interrupts
the menu anywhere. It is installed without `SA_RESTART`; so, while the parent is in
`waitpid`, `Handle` may also end the wait, and the command goes on with a child that
may be still alive; it may not if the handler runs before `waitpid` is called, or if
the child has ended. A child before its `sigaction` (`forked`) would die of
`SIGUSR2`. A `fork` that fails puts its -1 into `children` (`NoChild`, in
`create_child`): `Means` is whom `kill` and `waitpid` then take it for, every child
there is.

**Client and server of Lab8** (`CommandSession`). What travels is pieces: a line
and its newline, which are two writes of the client (`SendLine`, `SendNewline`), one
way, one `dprintf` the other. A read takes any number of the pieces there are. So the
server may read a command before its newline, several commands of which it executes
the first (`Serve`), or newlines only (`Skip`). A piece of an answer is `empty` (a
newline alone), `bye` (contains BYE, which the text of an `ECHO` and the name of a
file may) or `text`, which is all that `read_server_response` tells apart
(`client.c:48`). A read of the client holds `MAX_BUFFER - 1` bytes and may end within a
piece (`ReadCut`): `Cuts` says what it has seen of the piece and what it leaves, which
may be the newline alone (`cut`). `ReadWhole` and `ReadCut` do not count bytes: any read
may be the one that is full. `Timeout` may happen whenever there is nothing to read,
since five seconds may pass at any time. The client ends at its prompt (`Leave`), after
a QUIT (`Return`), by `SIGPIPE` (in `ClientWrites`), or by any other signal at any moment
(`Interrupt`), in the middle of an answer too; a socket closed with data unread in it
resets the connection.
`toServer` and `toClient` say what a write meets: an open connection, a closed one
(the write succeeds and causes a reset), or a reset one (`SIGPIPE`). `ahead` is a
history variable.

**Server of Lab8** (`SessionServer`). What several sessions share is `log_mutex` and
the numbers of descriptors. `open[d]` is who has descriptor `d`; `accept` and
`opendir` take the lowest free number, and a `close` frees its number whoever has
it by then. The handler of `SIGINT` runs in the main thread between any two of its
steps, `accept` included, which `signal` has it restart and which then fails on the
closed socket. `CreateFails` includes `pthread_detach` of a thread that was never
set, after which the process may be dead. What client and server say is left to
`CommandSession`; the two share no variable, for a session of `SessionServer` is one
of `CommandSession` with its reads and writes summed up in `Command` and `Answer`.

**Processes of Lab2** (`EnvSpawn`). A process has a counter and the characters its
`getchar` has buffered, and `fork` copies both. `ExecFails` turns a child into a
menu. A line is given to any one of the menus that read the terminal.

## 4. Runs

All constants are model values or small numbers, given in the `.cfg` of the run's
name. Deadlock is not checked because each program may stop: the operator quits,
or presses no key.

| Run | Instance | What it shows |
|---|---|---|
| `SemQueue` | 2 producers, 2 consumers, 2 slots, size 1 to 2, 3 messages, all keys | safety, refinement and liveness of `parent1.c` |
| `CondQueue` | 2 and 2, 3 slots, size 1 to 2, 5 messages, all keys, spurious wakeups; symmetry | safety and refinement of `parent2.c`, one slot unused |
| `CondQueueLiveness` | 1 producer, 2 consumers, 3 slots, 2 messages, all keys but `s` | messages are consumed and kills return, unless a cancelled thread keeps the mutex |
| `ShmQueue` | 1 producer, 2 consumers, 2 slots, 3 messages, all keys | safety, refinement and liveness of Lab4 under signals: one message at a time in order, every message consumed unless a token is lost, a process told to end ends |
| `RecordStore` | 2 processes, 2 records, 2 values, no file | initialization by several processes; nobody waits for the user of another |
| `RecordStoreLostUpdate` | 2 processes, 1 record, the file exists | an update may be lost (violation) |
| `ParallelSort` | 2 threads, 16 blocks, 2 parts of 33 records, four files | claims, barrier, merges and the rename, safety and termination |
| `ParallelSortResult` | 1 thread, 4 blocks, 1 part of 4 records | the result need not be sorted (violation) |
| `SignalStats` | 2 children, 3 rounds, all keys, `fork` may fail | truth of the counts, lost requests, answers, kills |
| `CommandSession` | 1 client, 3 lines, all commands, reads cut anywhere, signals at any moment | client and server stay in step, and both end |
| `SessionServer` | 2 clients, 3 descriptors, any number of `SIGINT`s | sockets are not closed by others, clients are served, the server ends |
| `EnvSpawn` | 4 processes, 3 lines of 1 or 2 keys, limit 2 | numbering, waiting and quitting, every `execve` able to fail |

**The bounds.** `MaxProduced` stops producers from starting a message once so many
are produced; everything else still runs. (In `CondQueue` a cancelled producer may
start one more, since it could not reach its end otherwise, and no thread is
created any more.) With two or three slots, three to five
messages are more than a lap of the ring, and two threads of each kind are enough
for a thread to be overtaken in each state by one of its own kind and by one of
the other. `ShmQueue` and `CondQueueLiveness` have one producer, to keep the
liveness graph small; the safety of both modules is proved for any number.
`MAX_THREADS` (100 in the source) is 2, the number of threads of each kind there are.
`SizeLimit`, in `CondQueue`, is the size at which the operator presses `+` no
more: one below the number of slots, because at the full size `parent2.c` does not
work (section 7). `RecordCount` is 10 in the source; two records give a
file that is missing, partly written, with a hole, and whole. The values of a
record are those two users could disagree on.

Sixteen blocks for two threads are what makes a thread claim several blocks, and
the rounds of merging go through pairs with a thread, pairs without, and threads
without a pair; 33 records leave one that belongs to no block. The four files are
in order, in reverse order, with equal keys, and one whose parts the rounds with
enough threads do sort, and so a result that is sorted. `CYCLE_LIMIT` is
101 in the source; three rounds show both pairs, and one of them twice. `MAX_CHILDREN`
is 2, so that a failed `fork` may fill the table with or without a child beside it. Two children are
needed for one's request to hide the other's. Three lines let an answer come one,
or two, requests late, and a `QUIT` in a file be followed by another line. Four
processes of Lab2 are a parent, a child that has become a menu, a child of that
one, and a sibling; `MAX_CHILD` is 99 in the source, and 2 lets the limit be
reached. Three descriptors are the listener's and one for each client, so that a
listing can take the one a client is waiting for, and a number given back is taken
again at once.

**Properties.**

* `TypeOK`, of `SemQueue` and `CondQueue` (those of `ShmQueue` and `RecordStore` are
  proved, section 6). Its parts that are not mere types: indices stay in the ring, semaphores do not go negative, the size stays between 1 and
  `FIXED_SIZE` though `+` and `-` test it some steps before they change it.
* `TokensConserved` (`SemQueue`): the tokens in `empty_count`, in `full_count` and
  in the hands of threads are as many as the queue has places, through all
  cancellations and resizes. No thread of `parent1.c` or Lab4 compares `head` with
  `tail`: only the tokens keep a producer from overwriting (`NoOverwrite`, proved
  from them in section 6). `TokensKept` (`ShmQueue`): a token is lost in one
  case only, the death of a process blocked for the mutex.
* `InOrder`: what a consumer has copied is the oldest message, whole.
* `ImplementsFifo`: refinement of `BoundedFifo`, see above.
* `StatusCount` (`SemQueue`), `CountFromIndices` (`CondQueue`): what
  `(tail - head + FIXED_SIZE) % FIXED_SIZE` is worth. In `parent1.c` it is right
  except that a ring with no free slot counts as empty; in `parent2.c`, with one
  slot unused, it is always right, so both wait loops test what they mean to.
* `NoLostWakeup` (`CondQueue`): while threads of one kind
  wait, each free place or message is spoken for by an awake thread of that kind.
  One signal per message and per `+` is enough; `-` needs none.
* `MutexHeldByLiving` (`ShmQueue`): the mutex is taken exactly while one live
  process is in its critical section; no signal leaves it taken.
* `CommandsReturn` (`SemQueue`): the menu comes back from `P` and `C`, from `q`, and
  from `-` as long as there is a consumer.
  `KillReturns` of `CondQueue` has one exception, a mutex a cancelled thread has
  kept; `SignalEnds` of `ShmQueue` leaves out a signal that falls between the test
  of `needTerminate` and `semop`.
* `Delivered`: while there are consumers every message is consumed, with the same
  exceptions.
* `InitComplete`, `UserAnswered` (`RecordStore`): once no process is initializing,
  the file has all its records and no hole, whoever overwrote whom; a process that
  is fetching, locking, comparing or writing a record comes back to its user, though
  other users never answer. A lock taken before the user is asked, as the mutant
  takes it, breaks that.
* `RangesDisjoint`, `RunsSorted`, `NothingLost`, `Ends`
  (`ParallelSort`): threads that share a buffer without a lock never meet in it;
  at the start of each round the runs that pairs with a thread have gone into are
  sorted; every change of the file, the rename included, is a permutation; and the
  program ends, unless a thread is missing at the barrier.
* `StatsTruthful`, `AnswersToAskers`, `LostOnly`, `Answered`, `NoneEscapes`,
  `KillReturns` (`SignalStats`): what is printed is what happened; `SIGUSR2`, which
  would end an unprepared process, only goes to children that have asked; a
  request is lost only behind another child's or by an answer before `pause`; any
  other is answered; no child is forgotten, though the handler cuts waits short and
  the table may hold the -1 of a failed `fork`; and the commands that wait for
  children end.
* `InStep`, `Synchronized`, `HandlerEnds` (`CommandSession`): what the client prints answers what it has sent, until it
  runs ahead; it runs ahead in three ways only, five seconds of silence, a BYE in an
  answer, and a read that has left the newline of an entry behind; until then only a
  client that a signal has ended can end the server by `SIGPIPE`, and one that leaves
  cannot; the thread of a client that is gone ends, whatever has ended it.
* `SocketsOwned`, `Served`, `ShutdownEnds` (`SessionServer`): nobody but a session
  closes its socket, though numbers are reused and the listener's is closed more
  than once; a client is given a thread or closed unless the server ends or is out
  of descriptors; `SIGINT` ends the server wherever it finds it.
* `NamesDistinct`, `QuitEnds` (`EnvSpawn`): children of one process have different
  names; `q` ends a menu unless another menu is left on the terminal.

## 5. Fairness

`Spec` has none and serves the safety runs. `FairSpec` says that a thread or
process that can take a step takes one (`WF` of each thread's step), that signals
sent are delivered, and that the main thread goes on with the command it is in.
It never says that a key is pressed or that a user answers.

In `CondQueue` the mutex is granted with strong fairness, and in `RecordStore` the
record lock. A thread that has released the mutex sleeps for three seconds, or
waits, before it asks again, and a process that has released a record lock waits
for its user; so a waiter is not passed over for ever. In `CondQueue` a cancelled
thread that waits on a condition time and again acts on the cancellation in one of
its waits (`SF` of `CancelWait`): `pthread_cond_wait` is a cancellation point each
time it is entered. In `CommandSession` the client goes on by itself except at its
prompt (`ClientStep`), where the user need not type, nor press Control-C; a read or a
time-out comes when the client is in `read_server_response`. In `SignalStats` the menu has strong fairness (`Term`,
`WaitPid`), because a step of it is disabled while the handler runs, which is for a
moment once in ten seconds and child. In `SessionServer` the main thread has strong
fairness for `log_mutex`: a session asks for it again only after it has read from
its client. Of a session only `Unlock` is fair, since its other steps may wait for
the client. `SemQueue` needs only weak
fairness, because `MaxProduced` bounds how often a thread can be overtaken: after
the last message the remaining threads block or rest.

## 6. Proofs

### `SemQueue_proof`

`SemQueue_proof` proves the safety of `parent1.c` for every number of threads,
slots, places and messages and for every set of keys. `tlapm SemQueue_proof.tla`
checks it. It rests on the three named assumptions on the constants
(`MenuAssumption`, `RingAssumption`, `SizeAssumption`): the two kinds of threads
are disjoint finite sets, the ring has a slot, and the first size is between one
and the number of slots. `FIXED_SIZE`, `QUEUE_SIZE` and `MAX_THREADS` are
arbitrary.

| Theorem | States |
|---|---|
| `TypesHold` | `Spec => []TypeOK` |
| `SafetyHolds` | `Spec => []SafetyInv`, the inductive invariant |
| `TokensHold` | `Spec => []TokensConserved` |
| `NoOverwriteHolds` | `Spec => []NoOverwrite` |
| `InOrderHolds` | `Spec => []InOrder` |
| `StatusCountHolds` | `Spec => []StatusCount` |
| `FifoImplemented` | `Spec => ImplementsFifo` |
| `SomebodyAlwaysGoesOn` | `Spec => []SomebodyGoesOn` |

The argument:

1. `TypeInv` adds to the types that the test of the size made by `+` or `-` still
   holds when the size is changed. Without it the size could leave its range.
2. `Outside` sums up in three lines what all steps of the main thread, and the
   steps of a thread between two rounds, have in common: threads move only among
   idle labels, the ring is left alone, and `Capacity` and `empty_count` change by
   the same amount. Each later proof has one case for them (`StepCases`), and one
   for each step of the loops.
3. `MutexInv`: the thread in its critical section owns the mutex.
4. Threads at given labels are counted with `Number` (`QueueLemmas`); `NumberMoves`
   says what a step of one thread does to such a count. It rests on the cardinality
   theorems for finite sets and is what makes the number of threads arbitrary.
5. `TokensConserved` is inductive together with 1 and 3.
6. `OutInv` accounts for each message in the ring by a token: in `full_count`,
   with the producer about to post it, or with the consumer about to take it.
   From 5 and 6, `Bounds`: a producer in its critical section finds room, a
   consumer a message. Neither property is inductive without the other.
7. `RingInv` (`QueueLemmas`) places message `consumedCount + 1 + i` in the `i`-th
   slot after `head`. With `Bounds`, a producer's slot is none of these, and `InOrder`
   follows.
8. For the refinement, `ContentsNumbers` (`QueueLemmas`) rewrites the queue read off
   the ring as the numbers after `consumedCount`. The end of a producer's critical section is
   then `Produce`, of a consumer's `Consume`, and a step that is `Outside` is
   `Resize` or a stutter.
9. `SomebodyGoesOn`: while a producer and a consumer live, the next statement of
   some thread does not block (`CanGoOn`). If all were blocked, the mutex would be
   free, its owner being in its critical section; so all would wait for tokens,
   with none in either semaphore and none in a hand, against 5, since the size is
   at least one. `MaxProduced` is put aside here, the code having no such test.

### `CondQueue_proof`

The same for `parent2.c`: `TypesHold`, `WakeupsHold` (`NoLostWakeup`), `CountHolds`
(`CountFromIndices`), `InOrderHolds`, `FifoImplemented`, `SomebodyAlwaysGoesOn` and
`DeadForGood`, for every number of threads, slots and messages and every set of
keys. They rest on the three assumptions on the constants. `TypesHold` and
`DeadForGood` need no more; they follow from `BaseInv` (types and mutual exclusion),
which is inductive at any size of the queue. The others are conditional on
`OneSlotUnused`: the size begins below the number of slots and the operator does
not raise it that far. The condition is needed, for at the full size a full ring is
taken for an empty one (section 7). The parts of `SafetyInv`:

1. `Shapes`, `RingTypeOK`: types. `SizeInv`: the size is below the number of slots, and the
   test `+` has made still holds when it raises the size.
2. `MutexInv`: the thread in its critical section is the owner of the mutex. A
   cancelled thread that ends with it leaves nobody in a critical section.
3. `CountInv`: a producer that fills a slot has found room and a consumer that
   copies has found a message, and both are still there. With one slot unused this
   makes `Used`, what the code computes, equal to `Outstanding` (`UsedCount`).
4. `RingInv` and `InOrder`, as in `SemQueue_proof`.
5. `WakeInv`: `NoLostWakeup` with threads counted by `Awake`. `SignalWakes` and
   `AwakeSignal` say what a signal does: it wakes one thread of its group, or
   nobody waits in that group. A producer that finishes takes one from the
   producers awake and one from the free places; the message it adds is matched by
   the consumer it wakes. `StepCases` leaves nine kinds of steps to look at.

Two theorems say when the threads can all be stuck. `SomebodyAlwaysGoesOn`: while a
producer and a consumer live and the mutex has not been left with nobody, some
thread's next statement does not block. Were all asleep or waiting for a free mutex,
nobody would be awake, and by `WakeInv` the queue would have neither a free place
nor a message. `DeadForGood`, an action property, says what the exception costs:
once a thread killed in `pthread_cond_wait` has ended with the mutex, no step ever
changes the ring, the size or the mutex again.

### `ShmQueue_proof`

The safety of Lab4 for every number of processes, slots and messages, with
`SIGTERM` at any moment: `TypesHold`, `MutexHolds`, `InOrderHolds`, `TokensHold`
(the action property `TokensKept`), `KillTakesOne`, `TokensLeftHold`,
`FifoImplemented` and `SomebodyAlwaysGoesOn`. They rest on `RingAssumption` and
`ShmAssumption`.

1. `MutexInv`: `SEM_MUTEX` is taken exactly if somebody is in the critical section,
   and at most one process is. `DeliverCases` shows that a signal never ends a
   process there.
2. `TokenInv` cannot be the equation of `SemQueue_proof`, for a process that dies
   blocked for the mutex takes its token with it. It is two inequalities: the
   tokens for room (`Room`), in `SEM_EMPTY_COUNT` and in the hands of processes,
   are no more than the free places, and those for messages (`Stock`) no more than
   the messages. A lost token makes them slack and never false, which is why the
   queue stays in order however many processes are killed.
3. `Bounds`: with 1 and 2 a producer in its critical section has a free slot, and a
   consumer a message; `RingInv` and `InOrder` follow as above.
4. `TokensHold`: of all steps only `Abandon`, the death of a process blocked for
   the mutex, changes the number of tokens, and (`KillTakesOne`) takes one.
5. `TokensLeftHold`: kills never take the last token. The inductive invariant is
   `TokenLeft`, that there are more tokens than processes blocked for the mutex. A
   process that blocks there has a token, and so has the process inside, which is
   not blocked (`TwoInHand`).
6. `SomebodyAlwaysGoesOn`: while a producer and a consumer live, the next statement
   of some process does not block, by 1 and 5: if all were blocked, the mutex would
   be free and no token left. Lost tokens make Lab4 slower, and may keep a
   message in the ring, but it never stands still.

### `RecordStore_proof`

For every number of processes and records: `TypesHold`, `InitCompletes` and
`LocksHold`. They rest on `RecordAssumption` (there is a record, and the marks `Missing`, `Hole`,
`Unread` and `Initial` are not versions a process may type). `InitComplete` speaks
of a process that has reached the menu; it is not inductive, for another process
may truncate the file afterwards. `BlanksFilled` is: for each record that is
missing or a hole some process is in `init_file` and has not come to it yet. The
same process has it before it when it truncates (`FromTheStart`), and writing
record `r` fills at once what it had left to fill there. `Entered` says that a
process saving a record has one to save.

`LocksHold` says that a record is locked only by a process that is reading it again
to compare: `get_record` drops the lock with the descriptor it closes, as every other
`close` of the file does. So a process that waits, for a lock or for its user, has
none (which is why `UserAnswered` holds), and processes never wait for each other in a
circle; and `put_record` writes
without the lock that is meant to protect it, which is how an update can be lost
(section 7).

### `ParallelSort_proof`

For every number of threads, blocks, parts and records, and every file:
`RangesHold`, `RunsHold` (`RunsSorted`), `RecordsHold` (the action property
`NothingLost`), `PartsMergeHolds`, `TypeHolds`, `NoStandstillHolds` and `MissingHangs`.
They rest on `SortAssumption`, what `main` accepts: `blocks` is a power of two and at
least four times `threads`. (Of the power of two the proofs use that it has no odd
divisor but one, and `PowerOfTwo` says just that.)

1. `IInv` says who works where. `SameRound` keeps all threads that are merging in
   one round, since the barrier opens for all of them, and says that no thread merges
   while another sorts; `FirstRound` says that who has not merged still believes in
   `blocks` runs; `OwnBlocks` gives a block being sorted to one thread,
   by the map under its mutex. `RangesDisjoint` is arithmetic from there (`Stretches`):
   two blocks, and two pairs of one round, cover disjoint stretches.
2. `Ranges` places these stretches in the file: the runs of a round, times their
   length, make up the blocks (`Rounds`). This needs the power of two: with an odd
   number of runs, `(current_blocks + 1) / 2` need no longer divide `blocks`.
3. What `qsort` and `merge()` return (`SortedFacts`, `MergedFacts`): a
   rearrangement, in order if the runs given to `merge()` are. `TakenSteps` and
   `TakenMonotone` are the loop invariant of `merge()`: every record written is the
   next one of either run, and neither index goes back. That the loop has a value at
   all, and that every sequence can be sorted, is by induction on a
   length. The library's induction theorems take an operator as a parameter; here
   induction is a fact about the set of numbers a statement is true of
   (`Induction`), which follows from `LeastElement`, and that from the
   well-foundedness of inclusion among finite sets.
4. `Contents` is what is in the file. `Output`: what `merge_parts` has written is what
   it has read, record by record, so the file it renames into place has the same
   records when all parts are read. `Buffers`: what a thread is about to copy back is
   its pair merged, though other threads have written the file since. `BlocksSorted`:
   in the first phase a block marked 2 is in order, one marked 1 is in the
   hands of a thread, and a thread at the barrier has seen none marked 0. So when
   the barrier opens, all are in order. `RunsReady` and `PairsDone`: during a round
   a run is in order until its pair has been copied back, and the pair after that, as
   far as there is a thread for it. `RunsSorted` alone is not inductive; it speaks of
   the start of a round only.
5. `SortWrites` and `CopyWrites` say that a thread changes its block or pair
   only, which rests on 1 and 2; `FirstRelease` and `NextRelease` are the barrier.
   A pair of one round is a run of the next; `Paired` says which runs come from
   pairs that had a thread in every round.

`RunsHold` says how far the sort gets, and so why its result need not be in order
(section 7): with `blocks >= 4 * threads` the first round already has twice as many
pairs as threads. `PartsMergeHolds` says that nothing else is the matter: if the parts
are in order when `merge_parts` has read them, the file it renames into place is.
Its invariant `OutSorted` is that no record written is above one still to be read;
no run checks the property, which `ParallelSort_proof` states (`PartsMerge`).

`NoStandstillHolds`: if `pthread_create` has not failed, somebody can go on until the
program ends. A barrier in a loop deadlocks when some threads wait there once more
than others. They do not: who has ended has left its last round (`LastRound`), in
which by `SameRound` everybody is, so nobody waits at the barrier for one that
is gone. While all have been created (`Created`), either all are at the barrier or
all have ended. `MissingHangs` is the other side: with one thread that was not
created, which the code does not notice, `sort_index` never ends.

### `ChildProcesses_proof`

Lab3, for every number of children, every `CYCLE_LIMIT` and `MAX_CHILDREN`:
`StatsHold`, `AnswersHold`, `NoneEscapesHolds` and `LossesHold` (the action property
`LostOnly`).

* `ChildInv`: the pair is whole when the handler counts it (`Whole`), and its
  halves take turns (`Alternates`), so the two counters stay within one of each
  other (`Counted`, `BelowLimit`).
* `AskInv`: a child is owed an answer at most once and by one cause: the request
  on its way, the answer pending, or the turn in the parent's handler. `LossesHold`
  goes through the steps with it: only a child that asks, or is answered before
  `pause`, comes to wait for nothing. In particular the parent's handler, whatever
  it interrupts, passes every request it takes on.
* `TableInv`: while the parent is in a command that ends children, whatever it
  has passed over in its table has `SIGTERM` pending or has ended. An entry of the
  table is a child, found there once, or the -1 of a failed `fork`, any number of
  times; `SendFacts` says that a signal sent to either reaches at least the child
  meant.

Lab2, for every number of processes, lines and children: `NamesHold`
(`NamesDistinct`) and `NoOrphansHolds`, a process that has ended has waited for all
its children. Both are parts of `SpawnInv`. `NumbersUsed` adds to `NamesDistinct`
that the numbers given are below `child_num`, which makes it inductive, and
`NoChildren` that a process whose `execve` has not failed has no children: when it
fails, the copied counter starts a family of its own.

### `Lab8_proof`

`CommandSession`, for sessions of every length up to `MaxRequests`: `InStepHolds`,
`SynchronizedHolds` and `HandlersFree`. While the client has not run ahead, client and server are
`Together`: at its prompt, nothing but newlines is under way (`Idle`); if it
is reading, one line or one answer to its last line is (`OneLine`, `OneAnswer`), and
the empty line that ends an answer is the last piece of it (`EmptyLast`). A client
that has closed the connection of its own accord did so when at most the greeting was
still to be written, and one write causes the reset that only a second would meet
(`OneWrite`); a client ended by a signal may leave more, and so `InStep` excepts it.
What a read leaves, whether it ends with a piece or within one, is pieces that were
there, no `empty` among them that was not, and the last still the last (`Unread`).
`SynchronizedHolds` is an action property: the client comes to be ahead only by the
time-out, a BYE, or a newline that a read has cut off. `HandlersFree` needs none of
this: a client that is gone has closed its side, or was killed by a reset after the
server had closed its own (`GoneInv`), so its handler has something to write, a line to
read, or reads the end of the stream.

`SessionServer`, for every number of clients and descriptors: `SocketsHold`
(`SocketsOwned`). `DescriptorInv` has `SocketsApart`, a session's socket is open, its
own, and never has the number of the listener: that one is closed several times, by
the handler and by `main`, and each time whoever has it by then loses it. No client
can have it, because `accept` fails once it is closed the first time; directories
can, so `DirsApart` says that every *other* directory is its
session's alone, and a `closedir` takes no socket away. `OnePlace` says that a client
is once in the backlog, just accepted, or served.

### What they have in common

In all of these, the bounds of the runs (`MaxRequests`, `MaxTyped`, `Commands` and the
like) are arbitrary constants, and fairness is not used: a theorem about
`FairSpec` needs `Init` and `Next` alone.

### Only model-checked

All liveness (`CommandsReturn`, `KillReturns`, `SignalEnds`, `Delivered`,
`UserAnswered`, `Ends`, `Answered`, `HandlerEnds`, `Served`, `ShutdownEnds`,
`QuitEnds`), which is out of the prover's reach. What can be proved of it is that
nobody waits for nothing, in state predicates that spell out what the next
statement of a thread needs, `ENABLED` being out of reach too: `SomebodyGoesOn` for
the three queues, `NoStandstill`, `LocksHeld` and `HandlerFree`. That what can go on
does, and gets where it should, stays with TLC. Every invariant, action property and
refinement of section 4 is proved.

## 7. What the code does that its own texts do not say

The two violation runs each show one of these; the quoted lines are in
`PROJECT.json`.

* `ParallelSortResult`: `sort_index` renames a file into place that is not sorted.
  In each round of merging a thread merges one pair, that of its number, while
  the program insists on four blocks or more per thread (`sort_index.c:99`, `186`).
* `RecordStoreLostUpdate`: Lab7 may overwrite a change it means to detect.

Others are stated as the exceptions of properties that hold, or kept out of the
runs:

* `parent2.c`: a thread cancelled while it waits on a condition ends with the
  mutex, and the menu and the queue block for good (`mutex = DeadOwner` in
  `KillReturns`, `DeadForGood` in section 6). At
  the size `FIXED_SIZE`, which `+` allows, a full ring is taken for an empty one:
  with `SizeLimit = FIXED_SIZE`, `CountFromIndices` and `ImplementsFifo` fail.
* Lab4: `P` or `C` may wait for a process that has seen nothing of its signal and
  blocks (the case `SignalEnds` leaves out), and may cost a place of the queue
  (the case `TokensKept` names), though never the last (`TokensLeftHold`). The status shows a full ring as empty; a producer
  prints type and size from a slot that is no longer its own.
* `parent1.c`: with a full queue and no consumer `-` blocks the menu for good
  (hence the condition in `CommandsReturn`).
* Lab6: one thread that cannot be created hangs `sort_index` (`MissingHangs`).
* Lab7: a process that starts on no file may wipe out what another one has saved
  since, for `access` and `open` with `O_TRUNC` are two steps.
* Lab3: a child whose request is lost sleeps until it is killed (`LostOnly`). When
  `fork` has failed, `-` or `k` comes to its -1 and sends `SIGTERM` to every process of
  the user (`parent.c:115`, `133`, `148`); of these the model has the children.
* Lab8: the client may run ahead of the server for the rest of a session, in three
  ways (`Synchronized`); a line after a `QUIT` in a file ends the client by `SIGPIPE`.
  Control-C in a client that is reading a listing may end the server, with every
  session in it, by `SIGPIPE` (`server.c:101`; the exception in `InStep`).

## 8. What is not modelled

* Lab4: `SIGINT`, failures of system calls other than `EINTR`, what an earlier run
  leaves in the semaphores, the missing test for a 101st child.
* Lab5: failures of `pthread_create`. The contents of messages beyond whole or
  not.
* Lab7: listing and showing records, which change nothing; failures of `open`,
  `read` and `write`; a crash.
* Lab6: failures of system calls other than `pthread_create`, and a crash in the
  middle of a step; nothing repairs a file the program was interrupted in. `open`,
  `mmap` and `rename` end the program when they fail, but `merge_parts` looks at the
  result of none of its `read`s and `write`s (`sort_index.c:120`, `133`, `148`, `151`), and
  a failed `malloc` of `tmp_buf` goes on to the merge of the parts (`255` to `258`):
  `NothingLost` and `Ends` are about runs in which these succeed.
* Lab3: processes outside the program, which `kill(-1)` reaches too.
* Lab8: a line that a read of the server cuts in two, which takes more than
  `MAX_BUFFER - 1` unread bytes, as of commands sent ahead (`server.c:117`); then the rest
  would be taken for a command. Entries of a listing that hold a newline
  themselves or, being 1,023 bytes long, have lost it, and the buffer that `handle_list`
  sends unset for files of other types; the current directory of a session, links and
  `realpath`; the text of the
  log, whose times come from the static struct of `localtime` (`server.c:34`);
  failures while either program starts.
* Lab2: the contents of the environment and of `env.txt`, including that a file
  that cannot be opened or has more than nine known names is undefined behaviour
  (`Lab2/parent.c:33`, `51`).
* Lab1 walks a tree once and keeps nothing between two steps; nothing interleaves
  with it, and what it prints is formatting. `Lab6/gen.c`, `Lab6/view.c` and
  `Lab1/main.c.save` are straight-line input and output, and an editor's backup.
* The compiler probes and caches CMake has generated under `cmake-build-debug`,
  which are most of the lines of the repository and no part of the programs.

## 9. Plan

All components with control worth checking have a module, and every safety property
of every run has a theorem. What could follow is about results rather than steps:
which parts of the file `sort_index` does leave in order when the threads end, and
what a session of `SessionServer` writes to its client.
