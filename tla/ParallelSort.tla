---------------------------- MODULE ParallelSort ----------------------------
(***************************************************************************)
(* Lab6/sort_index.c: the parts of an index file are sorted one after the  *)
(* other, each by several threads working in the mapped file itself, and   *)
(* then merged into a new file that is renamed over the old one.           *)
(*                                                                         *)
(* A record is abstracted to its time_mark, qsort of a block, a merge into *)
(* tmp_buf and the memcpy back are one step each, and the mutex is only    *)
(* held for the single accesses to block_map.                              *)
(***************************************************************************)
EXTENDS Integers, Sequences, FiniteSets, Functions

CONSTANTS
  threads, blocks,              \* the command line of sort_index
  records_per_part, num_parts,  \* memsize and the file, in records
  Inputs                        \* the files the program may be started on

Tids      == 0..threads-1
Blocks    == 0..blocks-1
Parts     == 0..num_parts-1
Positions == 0..num_parts*records_per_part-1
block_records == records_per_part \div blocks

\* No odd divisor but 1.
PowerOfTwo(n) == \A m, d \in 1..n : m * d = n => d = 1 \/ d % 2 = 0

ASSUME SortAssumption ==
  /\ threads \in 1..8192 /\ blocks \in Nat /\ blocks >= 4 * threads /\ PowerOfTwo(blocks)
  /\ records_per_part \in Nat \ {0} /\ num_parts \in Nat
  /\ Inputs \subseteq [Positions -> Int]

VARIABLES
  file,           \* the records of the file on disk, mapped shared
  part,           \* how many parts have been sorted
  block_map,      \* 0: free, 1: taken, 2: sorted
  pc, block,      \* where each thread is, and the block it sorts; thread 0 is main
  current_blocks, \* how many sorted runs each thread believes there are
  tmp_buf,        \* what each thread has merged there and not copied back
  pos, out        \* merge_parts: records read of each part; records written

vars == <<file, part, block_map, pc, block, current_blocks, tmp_buf, pos, out>>

(***************************************************************************)
(* qsort, merge(), and what they are applied to.                           *)
(***************************************************************************)
Slice(f, start, n) == [i \in 1..n |-> f[start + i - 1]]

Placed(f, start, s) ==
  [i \in Positions |->
     IF i \in start..start+Len(s)-1 THEN s[i - start + 1] ELSE f[i]]

Ascending(s) == \A i, j \in 1..Len(s) : i <= j => s[i] <= s[j]

Sorted(s) ==
  CHOOSE r \in {[i \in 1..Len(s) |-> s[p[i]]] : p \in Bijection(1..Len(s), 1..Len(s))} :
    Ascending(r)

\* merge() has written k records, x of them from a: how many when the next is written.
Take(a, b, k) ==
  [x \in 0..Len(a) |->
     IF x < Len(a) /\ (k - x = Len(b) \/ a[x+1] <= b[k-x+1]) THEN x + 1 ELSE x]

\* How many records of a are among the first k that merge() writes.
Taken(a, b) ==
  LET i[k \in 0..Len(a) + Len(b)] == IF k = 0 THEN 0 ELSE Take(a, b, k - 1)[i[k-1]]
  IN  i

\* Mutant of Merged: the last record is not copied.
MergedShort(a, b) ==
  LET i == Taken(a, b)
  IN  [k \in 1..Len(a) + Len(b) - 1 |-> IF i[k] > i[k-1] THEN a[i[k]] ELSE b[k - i[k]]]

Merged(a, b) ==
  LET i == Taken(a, b)
  IN  [k \in 1..Len(a) + Len(b) |-> IF i[k] > i[k-1] THEN a[i[k]] ELSE b[k - i[k]]]

BlockStart(b) == part * records_per_part + b * block_records

\* A thread's runs are this long, and it merges the pair of its own number only.
RunLength(t) == block_records * (blocks \div current_blocks[t])
PairStart(t) == part * records_per_part + 2 * t * RunLength(t)
HasPair(t)   == current_blocks[t] > 1 /\ t < current_blocks[t] \div 2

Goto(t, from, to) == pc[t] = from /\ pc' = [pc EXCEPT ![t] = to]

(***************************************************************************)
(* main: map a part, create the threads, work as thread 0, join.           *)
(***************************************************************************)
Init ==
  /\ file \in Inputs
  /\ part = 0
  /\ block_map = [b \in Blocks |-> 0]
  /\ pc = [t \in Tids |-> IF t = 0 THEN "part" ELSE "none"]
  /\ block = [t \in Tids |-> t]
  /\ current_blocks = [t \in Tids |-> blocks]
  /\ tmp_buf = [t \in Tids |-> << >>]
  /\ pos = [p \in Parts |-> 0] /\ out = << >>

\* Mutant of MapPart: the threads' own blocks are not set aside.
MapPartAllFree ==
  /\ Goto(0, "part", "create") /\ part < num_parts
  /\ block_map' = [b \in Blocks |-> 0]
  /\ block' = [t \in Tids |-> t]
  /\ current_blocks' = [t \in Tids |-> blocks]
  /\ UNCHANGED <<file, part, tmp_buf, pos, out>>

MapPart ==
  /\ Goto(0, "part", "create") /\ part < num_parts
  /\ block_map' = [b \in Blocks |-> IF b < threads THEN 1 ELSE 0]
  /\ block' = [t \in Tids |-> t]
  /\ current_blocks' = [t \in Tids |-> blocks]
  /\ UNCHANGED <<file, part, tmp_buf, pos, out>>

\* The result of pthread_create is not looked at: a thread may be missing.
Create(t) ==
  /\ pc[0] = "create" /\ t > 0 /\ pc[t] = "none"
  /\ \A u \in 1..t-1 : pc[u] # "none"
  /\ \E result \in {"sort", "missing"} : pc' = [pc EXCEPT ![t] = result]
  /\ UNCHANGED <<file, part, block_map, block, current_blocks, tmp_buf, pos, out>>

Begin ==
  /\ Goto(0, "create", "sort")
  /\ \A t \in Tids \ {0} : pc[t] # "none"
  /\ UNCHANGED <<file, part, block_map, block, current_blocks, tmp_buf, pos, out>>

Join ==
  /\ \A t \in Tids : pc[t] = "exited"
  /\ pc' = [t \in Tids |-> IF t = 0 THEN "part" ELSE "none"]
  /\ part' = part + 1
  /\ UNCHANGED <<file, block_map, block, current_blocks, tmp_buf, pos, out>>

(***************************************************************************)
(* thread_func, first its blocks ...                                       *)
(***************************************************************************)
SortBlock(t) ==
  /\ Goto(t, "sort", "claim")
  /\ LET start == BlockStart(block[t])
     IN  file' = Placed(file, start, Sorted(Slice(file, start, block_records)))
  /\ block_map' = [block_map EXCEPT ![block[t]] = 2]
  /\ UNCHANGED <<part, block, current_blocks, tmp_buf, pos, out>>

Free == {b \in Blocks : block_map[b] = 0}

Claim(t) ==
  /\ Goto(t, "claim", "sort")
  /\ \E b \in Free :
       /\ \A c \in Free : b <= c
       /\ block' = [block EXCEPT ![t] = b]
       /\ block_map' = [block_map EXCEPT ![b] = 1]
  /\ UNCHANGED <<file, part, current_blocks, tmp_buf, pos, out>>

NothingFree(t) ==
  /\ Goto(t, "claim", "sorted") /\ Free = {}
  /\ UNCHANGED <<file, part, block_map, block, current_blocks, tmp_buf, pos, out>>

(***************************************************************************)
(* ... then the rounds of merging, each ended by the barrier.              *)
(***************************************************************************)
\* Mutant of AtBarrier: the barrier is initialized for one thread less.
AtBarrierButOne == {t \in Tids : pc[t] \in {"sorted", "merged"} \/ t = threads - 1}

AtBarrier == {t \in Tids : pc[t] \in {"sorted", "merged"}}

Release ==
  /\ AtBarrier = Tids
  /\ pc' = [t \in Tids |-> "merge"]
  /\ current_blocks' =
       [t \in Tids |-> IF pc[t] = "merged" THEN (current_blocks[t] + 1) \div 2
                       ELSE current_blocks[t]]
  /\ UNCHANGED <<file, part, block_map, block, tmp_buf, pos, out>>

Merge(t) ==
  /\ Goto(t, "merge", "copy") /\ HasPair(t)
  /\ LET n == RunLength(t)
     IN  tmp_buf' = [tmp_buf EXCEPT ![t] =
           Merged(Slice(file, PairStart(t), n), Slice(file, PairStart(t) + n, n))]
  /\ UNCHANGED <<file, part, block_map, block, current_blocks, pos, out>>

Copy(t) ==
  /\ Goto(t, "copy", "merged")
  /\ file' = Placed(file, PairStart(t), tmp_buf[t])
  /\ tmp_buf' = [tmp_buf EXCEPT ![t] = << >>]
  /\ UNCHANGED <<part, block_map, block, current_blocks, pos, out>>

\* Mutant of NoPair: a thread without a pair ends.
NoPairEnds(t) ==
  /\ Goto(t, "merge", "exited") /\ current_blocks[t] > 1 /\ ~HasPair(t)
  /\ UNCHANGED <<file, part, block_map, block, current_blocks, tmp_buf, pos, out>>

NoPair(t) ==
  /\ Goto(t, "merge", "merged") /\ current_blocks[t] > 1 /\ ~HasPair(t)
  /\ UNCHANGED <<file, part, block_map, block, current_blocks, tmp_buf, pos, out>>

Exit(t) ==
  /\ Goto(t, "merge", "exited") /\ current_blocks[t] <= 1
  /\ UNCHANGED <<file, part, block_map, block, current_blocks, tmp_buf, pos, out>>

(***************************************************************************)
(* merge_parts: the least of the parts' next records is written, the first *)
(* part's if there are several, until all parts are read.                  *)
(***************************************************************************)
Merging    == pc[0] = "part" /\ part = num_parts

Active     == {p \in Parts : pos[p] < records_per_part}
Current(p) == file[p * records_per_part + pos[p]]

Least(p) ==
  \A q \in Active : Current(p) < Current(q) \/ (Current(p) = Current(q) /\ p <= q)

\* One round of the loop; its reads and writes, which nobody checks, succeed here.
WriteRecord(p) ==
  /\ Merging /\ p \in Active /\ Least(p)
  /\ out' = Append(out, Current(p))
  /\ pos' = [pos EXCEPT ![p] = @ + 1]
  /\ UNCHANGED <<file, part, block_map, pc, block, current_blocks, tmp_buf>>

Rename ==
  /\ Merging /\ Active = {}
  /\ Goto(0, "part", "done")
  /\ file' = [i \in Positions |-> out[i + 1]]
  /\ UNCHANGED <<part, block_map, block, current_blocks, tmp_buf, pos, out>>

Main == MapPart \/ Begin \/ Join \/ Rename
          \/ (\E t \in Tids : Create(t)) \/ (\E p \in Parts : WriteRecord(p))

Thread(t) ==
  \/ SortBlock(t) \/ Claim(t) \/ NothingFree(t)
  \/ Merge(t) \/ Copy(t) \/ NoPair(t) \/ Exit(t)

Next == Main \/ Release \/ \E t \in Tids : Thread(t)

\* Every thread that can run does; a full barrier opens.
FairSpec ==
  /\ Init /\ [][Next]_vars
  /\ WF_vars(Main) /\ WF_vars(Release) /\ \A t \in Tids : WF_vars(Thread(t))

-------------------------------------------------------------------------------
Labels ==
  {"part", "create", "none", "missing", "sort", "claim", "sorted", "merge", "copy",
   "merged", "exited", "done"}

\* The state of sort_index.
TypeOK ==
  /\ file \in [Positions -> Int] /\ part \in 0..num_parts
  /\ block_map \in [Blocks -> 0..2]
  /\ pc \in [Tids -> Labels] /\ block \in [Tids -> Blocks]
  /\ current_blocks \in [Tids -> 1..blocks]
  /\ tmp_buf \in [Tids -> Seq(Int)]
  /\ pos \in [Parts -> 0..records_per_part] /\ out \in Seq(Int)

\* The records a thread reads and writes in its present step.
Working(t) ==
  IF pc[t] = "sort" THEN BlockStart(block[t])..BlockStart(block[t]) + block_records - 1
  ELSE IF pc[t] \in {"merge", "copy"} /\ HasPair(t)
    THEN PairStart(t)..PairStart(t) + 2 * RunLength(t) - 1
  ELSE {}

\* Without a lock on the buffer, block_map, the threads' numbers and the barrier
\* keep any two threads off each other's records (lines 67 to 108).
RangesDisjoint ==
  \A t, u \in Tids : t # u => Working(t) \cap Working(u) = {}

\* How far the sort gets.  When a round of merging starts, every block is sorted
\* (first round), or every run that only pairs with a thread of their number
\* have gone into (later rounds).
RunsSorted ==
  (\A t \in Tids : pc[t] \in {"merge", "copy"}) =>
    \A r \in 0..current_blocks[0]-1 :
      \/ (r + 1) * (blocks \div current_blocks[0]) > 2 * threads
         /\ current_blocks[0] # blocks
      \/ Ascending(Slice(file, part * records_per_part + r * RunLength(0), RunLength(0)))

SameRecords(f, g) ==
  \A k \in {f[i] : i \in Positions} :
    Cardinality({i \in Positions : f[i] = k}) = Cardinality({i \in Positions : g[i] = k})

\* No step loses or repeats a record: sorting, merging and renaming permute, as long
\* as the reads and writes of merge_parts succeed.
NothingLost == [][file' # file => SameRecords(file, file')]_vars

\* The program ends, unless a thread could not be created: then the others wait
\* at the barrier for ever.
Ends == <>(pc[0] = "done" \/ \E t \in Tids : pc[t] = "missing")

\* When the program ends, the file is sorted.
FileSorted == pc[0] = "done" => Ascending([i \in 1..Cardinality(Positions) |-> file[i - 1]])
==============================================================================
