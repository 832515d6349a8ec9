------------------------------ MODULE MCSemQueue ------------------------------
(* Instances of SemQueue for TLC.  Its run checks liveness, so it uses no *)
(* symmetry.                                                              *)
EXTENDS SemQueue
==============================================================================
