------------------------------ MODULE JobService ------------------------------
(***************************************************************************)
(* What the job scheduler promises its users, without its queue, its       *)
(* worker tasks or its processes: accepted jobs start in the order they    *)
(* were accepted, at most Capacity of them run at a time, each ends with   *)
(* one outcome that never changes while the service remembers it, a job    *)
(* that is asked to stop neither succeeds nor times out, and only an ended *)
(* job is forgotten.  JobQueue implements it.                              *)
(***************************************************************************)
EXTENDS Naturals, FiniteSets, Sequences, SequencesExt

CONSTANTS Jobs, Capacity

VARIABLES
  line,     \* the waiting jobs, in the order they were accepted
  running,  \* the jobs being worked on
  outcome,  \* how a job ended, "none" before that
  asked     \* the jobs a user asked to stop

vars == <<line, running, outcome, asked>>

Outcomes == {"proved", "unproved", "timeout", "invalid", "error", "cancelled"}

TypeOK ==
  /\ line \in Seq(Jobs)
  /\ running \in SUBSET Jobs
  /\ outcome \in [Jobs -> Outcomes \cup {"none"}]
  /\ asked \in SUBSET Jobs

Init ==
  /\ line = <<>> /\ running = {} /\ asked = {}
  /\ outcome = [j \in Jobs |-> "none"]

Waiting == ToSet(line)
Unknown == {j \in Jobs : outcome[j] = "none"} \ (running \cup Waiting)

Ends(j, o) == outcome' = [outcome EXCEPT ![j] = o]

Accept(j) ==
  /\ j \in Unknown
  /\ line' = Append(line, j)
  /\ UNCHANGED <<running, outcome, asked>>

Refuse(j) ==
  /\ j \in Unknown
  /\ Ends(j, "error")
  /\ UNCHANGED <<line, running, asked>>

(* The first in line starts, or turns out not to be startable. *)
Start ==
  /\ line # <<>> /\ Cardinality(running) < Capacity
  /\ line' = Tail(line)
  /\ \/ running' = running \cup {Head(line)} /\ UNCHANGED outcome
     \/ Ends(Head(line), "error") /\ UNCHANGED running
  /\ UNCHANGED asked

Stop(j) ==
  /\ asked' = asked \cup {j}
  /\ \/ j \in running /\ UNCHANGED <<line, running, outcome>>
     \/ \E i \in DOMAIN line :
          /\ line[i] = j
          /\ line' = RemoveAt(line, i)
          /\ Ends(j, "cancelled")
          /\ UNCHANGED running

Complete(j) ==
  /\ j \in running
  /\ running' = running \ {j}
  /\ \E o \in Outcomes :
       /\ j \in asked => o \notin {"proved", "unproved", "timeout"}
       /\ o = "cancelled" => j \in asked
       /\ Ends(j, o)
  /\ UNCHANGED <<line, asked>>

Forget(S) ==
  /\ UNCHANGED <<line, running>>
  /\ \A j \in S : outcome[j] # "none"
  /\ asked' = asked \ S
  /\ outcome' = [j \in Jobs |-> IF j \in S THEN "none" ELSE outcome[j]]

Next ==
  \/ \E S \in SUBSET Jobs : Forget(S)
  \/ \E j \in Jobs : Accept(j) \/ Refuse(j) \/ Stop(j) \/ Complete(j)
  \/ Start

Spec == Init /\ [][Next]_vars
=============================================================================
