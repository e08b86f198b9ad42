----------------------------- MODULE MCCheckerPool -----------------------------
(* CheckerPool as it is: its .cfg files give the constants. *)
EXTENDS CheckerPool
=============================================================================
