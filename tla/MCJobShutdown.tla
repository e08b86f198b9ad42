---------------------------- MODULE MCJobShutdown ----------------------------
(* JobShutdown with its jobs and workers as interchangeable model values. *)
EXTENDS JobShutdown, TLC

Symmetry == Permutations(Jobs) \cup Permutations(Workers)
=============================================================================
