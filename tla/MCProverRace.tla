----------------------------- MODULE MCProverRace -----------------------------
(* ProverRace as it is: its .cfg files give the constants. *)
EXTENDS ProverRace
=============================================================================
