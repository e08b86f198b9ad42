------------------------------ MODULE MCJobQueue ------------------------------
(* JobQueue with its jobs and workers as interchangeable model values. *)
EXTENDS JobQueue, TLC

Symmetry == Permutations(Jobs) \cup Permutations(Workers)
=============================================================================
