------------------------------ MODULE MCStatusLog ------------------------------
(* StatusLog with one worker. *)
EXTENDS StatusLog

CONSTANT w1
===============================================================================
