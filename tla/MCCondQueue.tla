----------------------------- MODULE MCCondQueue -----------------------------
(* Instances of CondQueue for TLC. *)
EXTENDS CondQueue, TLC

\* Threads of one kind are interchangeable.
Symmetry == Permutations(Producers) \cup Permutations(Consumers)
==============================================================================
