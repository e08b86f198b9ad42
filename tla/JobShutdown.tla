------------------------------ MODULE JobShutdown ------------------------------
(***************************************************************************)
(* JobQueue with the end of the server: JobQueue.shutdown (queue.py:94),   *)
(* which lifespan runs when uvicorn has answered the last request and the  *)
(* janitor is cancelled (app.py:73-79).  It kills the runners it finds one *)
(* after the other, while the worker tasks go on: they end their jobs,     *)
(* take the next ones and start provers it has not listed.  Only then are  *)
(* the tasks cancelled, and run()'s except clause kills what they watch.   *)
(***************************************************************************)
EXTENDS JobQueue

VARIABLES
  down,  \* how far shutdown() is; "up" before it
  todo,  \* the jobs of the runners it still has to kill
  cur    \* the job whose kill() it waits in

shutVars == <<down, todo, cur>>
allVars  == <<vars, shutVars>>

ShutTypeOK ==
  /\ phase \in [Jobs -> ActivePhases \cup TerminalPhases \cup {"none"}]
  /\ pc \in [Workers -> Suspended \cup {"endKill", "end"}]
  /\ job \in [Workers -> Jobs \cup {NoJob}]
  /\ down \in {"up", "killing", "grace", "gather", "done"}
  /\ todo \in SUBSET Jobs
  /\ cur \in Jobs \cup {NoJob}

ShutInit == Init /\ down = "up" /\ todo = {} /\ cur = NoJob

-----------------------------------------------------------------------------
(* list(self._running.values()), with no request left in a handler *)
Begins ==
  /\ down = "up" /\ killers = {}
  /\ down' = "killing"
  /\ todo' = {j \in Jobs : Held(j)}
  /\ UNCHANGED <<vars, cur>>

(***************************************************************************)
(* One turn of the for loop: the record is marked whatever its phase is by *)
(* now, and kill() returns at once unless the prover is up.  (Turns whose  *)
(* kill() returns at once run together in the code; apart here.)           *)
(***************************************************************************)
KillNext(j) ==
  /\ down = "killing" /\ j \in todo
  /\ SetPhase(j, "failed", "error")
  /\ todo' = todo \ {j}
  /\ IF leader[j] = "alive" THEN down' = "grace" /\ cur' = j
                            ELSE UNCHANGED <<down, cur>>
  /\ UNCHANGED <<cancelReq, lines, tasks, processes, killers>>

KillReturns ==   \* the prover ended within the grace
  /\ down = "grace" /\ leader[cur] # "alive"
  /\ down' = "killing" /\ cur' = NoJob
  /\ UNCHANGED <<vars, todo>>

KillEscalates ==
  /\ down = "grace"
  /\ KillGroup(cur)
  /\ down' = "killing" /\ cur' = NoJob
  /\ UNCHANGED <<records, lines, tasks, killers, todo>>

CancelTasks ==   \* task.cancel() of each, then gather
  /\ down = "killing" /\ todo = {}
  /\ down' = "gather"
  /\ UNCHANGED <<vars, todo, cur>>

-----------------------------------------------------------------------------
(* CancelledError at the place where a worker task is suspended *)

End(w) == pc' = [pc EXCEPT ![w] = "end"] /\ job' = [job EXCEPT ![w] = NoJob]

IdleEnds(w) ==
  /\ down = "gather" /\ pc[w] = "get"
  /\ End(w)
  /\ UNCHANGED <<records, lines, processes, killers, shutVars>>

(* Nothing to kill: no prover yet, or it has been reaped.  A process whose *)
(* creation is interrupted is killed by asyncio itself.                    *)
RunnerEnds(w) ==
  /\ down = "gather" /\ pc[w] \in Suspended \ {"get"}
  /\ pc[w] \in Attended => leader[job[w]] # "alive"
  /\ SetPhase(job[w], "cancelled", "error")
  /\ End(w)
  /\ UNCHANGED <<cancelReq, lines, processes, killers, shutVars>>

RunnerKillsNot(w) ==   \* mutant: run() does not catch CancelledError
  /\ down = "gather" /\ pc[w] \in Attended /\ leader[job[w]] = "alive"
  /\ End(w)
  /\ UNCHANGED <<records, lines, processes, killers, shutVars>>

RunnerKills(w) ==   \* run()'s except clause enters kill()
  /\ down = "gather" /\ pc[w] \in Attended /\ leader[job[w]] = "alive"
  /\ Goto(w, "endKill")
  /\ UNCHANGED <<records, lines, processes, killers, shutVars>>

RunnerKilled(w) ==
  /\ pc[w] = "endKill" /\ leader[job[w]] # "alive"
  /\ SetPhase(job[w], "cancelled", "error")
  /\ End(w)
  /\ UNCHANGED <<cancelReq, lines, processes, killers, shutVars>>

RunnerWaitsOn(w) == RunnerKilled(w)   \* mutant: kill() has no grace limit

RunnerEscalates(w) ==
  /\ pc[w] = "endKill"
  /\ KillGroup(job[w])
  /\ SetPhase(job[w], "cancelled", "error")
  /\ End(w)
  /\ UNCHANGED <<cancelReq, lines, killers, shutVars>>

Gathered ==
  /\ down = "gather" /\ \A w \in Workers : pc[w] = "end"
  /\ down' = "done"
  /\ UNCHANGED <<vars, todo, cur>>

-----------------------------------------------------------------------------
WorkerEnds(w) ==
  IdleEnds(w) \/ RunnerEnds(w) \/ RunnerKills(w) \/ RunnerKilled(w) \/ RunnerEscalates(w)

ShutGoesOn ==
  (\E j \in Jobs : KillNext(j)) \/ KillReturns \/ KillEscalates \/ CancelTasks \/ Gathered

ShutStep == Begins \/ ShutGoesOn

ShutNext ==
  \/ down = "up" /\ Next /\ UNCHANGED shutVars
  \/ down \in {"killing", "grace"} /\ (\E w \in Workers : WorkerStep(w)) /\ UNCHANGED shutVars
  \/ down # "up" /\ (\E j \in Jobs : ProverStep(j)) /\ UNCHANGED shutVars
  \/ ShutStep
  \/ \E w \in Workers : WorkerEnds(w)

ShutSpec == ShutInit /\ [][ShutNext]_allVars

(* Ready tasks run and the grace timers fire, as in JobQueue; nothing else *)
(* is needed, and no shutdown need come.                                   *)
ShutFairness ==
  /\ Fairness
  /\ WF_allVars(ShutGoesOn)
  /\ \A w \in Workers : WF_allVars(WorkerEnds(w))

FairShutSpec == ShutSpec /\ ShutFairness

-----------------------------------------------------------------------------
(* Properties *)

(***************************************************************************)
(* "Kill every running child before the process exits" (queue.py:95): no   *)
(* prover outlives shutdown(), the ones included that a worker started     *)
(* after the list of runners was taken.                                    *)
(***************************************************************************)
NoneOutlives == down = "done" => \A j \in Jobs : leader[j] # "alive"

(***************************************************************************)
(* Until then every prover has someone who will kill it: the worker that   *)
(* watches it, cancelled or not.  Jobs overwritten by shutdown's "failed"  *)
(* keep their worker.                                                      *)
(***************************************************************************)
StillAttended ==
  \A j \in Jobs : leader[j] = "alive" =>
    \E w \in Workers : Holds(w, j) /\ pc[w] \in Attended \cup {"endKill"}

(***************************************************************************)
(* shutdown() returns, although provers may ignore SIGTERM and workers may *)
(* have started new ones meanwhile.                                        *)
(***************************************************************************)
ShutdownEnds == down = "killing" ~> down = "done"

(***************************************************************************)
(* While the server is up every accepted job ends, whatever the prover     *)
(* does: it is dequeued although the jobs before it may hang and ignore    *)
(* SIGTERM, its build ends, and the deadline and SIGKILL bound the rest.   *)
(***************************************************************************)
EveryJobEnds == \A j \in Jobs : IsActive(j) ~> ~IsActive(j) \/ down # "up"
=============================================================================
