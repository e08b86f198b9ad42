------------------------------- MODULE MCWebPoll -------------------------------
(* WebPoll with two jobs and two chains of polls. *)
EXTENDS WebPoll, TLC

CONSTANTS j1, j2, k1, k2
=============================================================================
