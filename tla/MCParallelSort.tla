--------------------------- MODULE MCParallelSort ---------------------------
(* Instances of ParallelSort for TLC. *)
EXTENDS ParallelSort

Size == num_parts * records_per_part

\* A sorted file; one in reverse; one with equal keys; and one that the blocks'
\* qsorts and the first merges are enough to sort, part by part.
Files ==
  { [i \in 0..Size-1 |-> i],
    [i \in 0..Size-1 |-> Size - i],
    [i \in 0..Size-1 |-> (7 * i) % 4],
    [i \in 0..Size-1 |->
       LET j == i % records_per_part
       IN  IF j < 4 * block_records THEN 4 * block_records - j ELSE i] }
==============================================================================
