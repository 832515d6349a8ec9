---------------------------- MODULE MCRecordStore ----------------------------
(* Instances of RecordStore for TLC. *)
EXTENDS RecordStore, TLC

\* Processes are interchangeable, and so are the values users enter.
Symmetry == Permutations(Processes) \cup Permutations(Values)
==============================================================================
