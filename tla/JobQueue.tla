------------------------------- MODULE JobQueue -------------------------------
(***************************************************************************)
(* The job scheduler of the server: the FIFO queue and its worker tasks    *)
(* (server/jobs/queue.py), the job records they move through phases        *)
(* (server/jobs/store.py), the runner that owns the prover's process group *)
(* (server/jobs/runner.py) and the two HTTP handlers that touch them       *)
(* (submit and cancel, server/app.py), while the server is up.             *)
(*                                                                         *)
(* Everything but the prover runs on one asyncio loop, so a step here is   *)
(* what runs between two awaits that really suspend.  A worker task is     *)
(* suspended at one of these places:                                       *)
(*   get          queue.get()                            queue.py:66       *)
(*   building     olean.build_reference                  runner.py:101     *)
(*   spawning     child_env, create_subprocess_exec      runner.py:124,132 *)
(*   watching     wait_for(proc.wait(), POLL_INTERVAL)   runner.py:156     *)
(*   cancelKill   kill and wait, on seeing a cancel      runner.py:164     *)
(*   timeoutKill  kill and wait, on the deadline         runner.py:172     *)
(* The phase "preparing" (runner.py:96-98) is set and left within one such *)
(* step, so no other task ever sees it; "proving" stands for "verifying"   *)
(* too, between which the status log moves a job (statuslog.py:123-135).   *)
(* Shutdown is not in this module.                                         *)
(***************************************************************************)
EXTENDS Naturals, FiniteSets, Sequences, SequencesExt

CONSTANTS Jobs,      \* job ids; an id stands for a new job once nothing knows it
          Workers,   \* the worker tasks, settings.max_concurrent_jobs of them
          MaxQueue,  \* settings.max_queue, the bound of the asyncio.Queue
          MaxKept,   \* settings.max_jobs_kept, the bound prune() keeps to
          NoJob      \* what a worker suspended in queue.get() holds

ASSUME JobsAssumption == IsFiniteSet(Jobs)   \* ids have a fixed length
ASSUME WorkersAssumption == Workers # {} /\ IsFiniteSet(Workers)
ASSUME MaxQueueAssumption == MaxQueue \in Nat \ {0}
ASSUME MaxKeptAssumption == MaxKept \in Nat
ASSUME NoJobAssumption == NoJob \notin Jobs

VARIABLES
  phase,      \* Job.phase, "none" while the store has no record of the id
  verdict,    \* Job.verdict
  cancelReq,  \* Job.cancel_requested
  ended,      \* the stored terminal jobs in the order of their ended_at
  fifo,       \* JobQueue._queue
  pending,    \* JobQueue._pending, what position() and depth are read from
  pc,         \* where each worker task is suspended
  job,        \* the job each worker runs: JobQueue._running
  leader,     \* the prover process as the loop knows it (proc, proc.returncode)
  kids,       \* whether other members of its process group are alive
  proof,      \* how far the prover got with a proof
  killers     \* jobs with a cancel handler suspended in kill()'s grace wait

records   == <<phase, verdict, cancelReq, ended>>
lines     == <<fifo, pending>>
tasks     == <<pc, job>>
processes == <<leader, kids, proof>>
vars      == <<records, lines, tasks, processes, killers>>

-----------------------------------------------------------------------------
ActivePhases   == {"queued", "checking", "proving"}
TerminalPhases == {"succeeded", "failed", "timeout", "cancelled"}
Verdicts       == {"none", "proved", "unproved", "invalid", "error"}
Suspended      == {"get", "building", "spawning", "watching", "cancelKill", "timeoutKill"}
Attended       == {"watching", "cancelKill", "timeoutKill"}  \* self.proc is set

TypeOK ==
  /\ phase \in [Jobs -> ActivePhases \cup TerminalPhases \cup {"none"}]
  /\ verdict \in [Jobs -> Verdicts]
  /\ cancelReq \in [Jobs -> BOOLEAN]
  /\ ended \in Seq(Jobs)
  /\ fifo \in Seq(Jobs) /\ Len(fifo) <= MaxQueue
  /\ pending \in Seq(Jobs)
  /\ pc \in [Workers -> Suspended]
  /\ job \in [Workers -> Jobs \cup {NoJob}]
  /\ leader \in [Jobs -> {"none", "alive", "exited"}]
  /\ kids \in [Jobs -> BOOLEAN]
  /\ proof \in [Jobs -> {"none", "verified", "written"}]
  /\ killers \in SUBSET Jobs

Init ==
  /\ phase = [j \in Jobs |-> "none"]
  /\ verdict = [j \in Jobs |-> "none"]
  /\ cancelReq = [j \in Jobs |-> FALSE]
  /\ ended = <<>>
  /\ fifo = <<>> /\ pending = <<>>
  /\ pc = [w \in Workers |-> "get"]
  /\ job = [w \in Workers |-> NoJob]
  /\ leader = [j \in Jobs |-> "none"]
  /\ kids = [j \in Jobs |-> FALSE]
  /\ proof = [j \in Jobs |-> "none"]
  /\ killers = {}

-----------------------------------------------------------------------------
(* Job records *)

IsActive(j) == phase[j] \in ActivePhases
Holds(w, j) == job[w] = j
Held(j) == \E w \in Workers : Holds(w, j)

(* list.remove of an id, nothing when it is absent (the callers test first) *)
WithoutHead(s, j) == IF s = <<>> THEN s ELSE Tail(s)   \* mutant: pop(0)

Without(s, j) ==
  IF \E i \in DOMAIN s : s[i] = j
  THEN RemoveAt(s, CHOOSE i \in DOMAIN s : s[i] = j)
  ELSE s

SetPhase(j, p, v) ==
  /\ phase' = [phase EXCEPT ![j] = p]
  /\ verdict' = [verdict EXCEPT ![j] = IF v = "none" THEN @ ELSE v]
  /\ ended' = IF p \in TerminalPhases /\ j \notin ToSet(ended)
              THEN Append(ended, j) ELSE ended

(***************************************************************************)
(* The janitor: drop the records older than the retention time, which are  *)
(* a prefix of ended, then the oldest terminal ones beyond the bound.      *)
(***************************************************************************)
Stored == {j \in Jobs : phase[j] # "none"}

OverflowOfEnded(aged) ==   \* mutant: only the ended records are counted
  IF Len(ended) - aged > MaxKept THEN Len(ended) - aged - MaxKept ELSE 0

Overflow(aged) ==
  LET kept == Cardinality(Stored) - aged
  IN IF kept > MaxKept THEN kept - MaxKept ELSE 0

Prune(aged) ==
  LET dropped == IF aged + Overflow(aged) < Len(ended) THEN aged + Overflow(aged)
                                                       ELSE Len(ended)
      gone == {ended[i] : i \in 1..dropped}
  IN /\ dropped > 0
     /\ ended' = SubSeq(ended, dropped + 1, Len(ended))
     /\ phase' = [j \in Jobs |-> IF j \in gone THEN "none" ELSE phase[j]]
     /\ verdict' = [j \in Jobs |-> IF j \in gone THEN "none" ELSE verdict[j]]
     /\ cancelReq' = [j \in Jobs |-> cancelReq[j] /\ j \notin gone]
     /\ leader' = [j \in Jobs |-> IF j \in gone THEN "none" ELSE leader[j]]
     /\ proof' = [j \in Jobs |-> IF j \in gone THEN "none" ELSE proof[j]]
     /\ UNCHANGED <<lines, tasks, kids, killers>>

-----------------------------------------------------------------------------
(* HTTP handlers *)

(***************************************************************************)
(* create_job once the submission is admitted: store.create, queue.submit. *)
(* There is no await in between.  new_id is random: a fresh id is one that *)
(* no queue, handler or process still knows.                               *)
(***************************************************************************)
Fresh(j) ==
  phase[j] = "none" /\ j \notin ToSet(fifo) /\ j \notin killers /\ ~kids[j]

SubmitUnbounded(j) ==   \* mutant: the asyncio.Queue has no maxsize
  /\ Fresh(j)
  /\ fifo' = Append(fifo, j)
  /\ pending' = Append(pending, j)
  /\ phase' = [phase EXCEPT ![j] = "queued"]
  /\ UNCHANGED <<verdict, cancelReq, ended, tasks, processes, killers>>

SubmitLifo(j) ==   \* mutant: a LifoQueue
  /\ Fresh(j)
  /\ Len(fifo) < MaxQueue
  /\ fifo' = <<j>> \o fifo
  /\ pending' = Append(pending, j)
  /\ phase' = [phase EXCEPT ![j] = "queued"]
  /\ UNCHANGED <<verdict, cancelReq, ended, tasks, processes, killers>>

Submit(j) ==
  /\ Fresh(j)
  /\ Len(fifo) < MaxQueue
  /\ fifo' = Append(fifo, j)
  /\ pending' = Append(pending, j)
  /\ phase' = [phase EXCEPT ![j] = "queued"]
  /\ UNCHANGED <<verdict, cancelReq, ended, tasks, processes, killers>>

SubmitRefused(j) ==   \* put_nowait raised QueueFull: the record stays, failed
  /\ Fresh(j)
  /\ Len(fifo) >= MaxQueue
  /\ SetPhase(j, "failed", "error")
  /\ UNCHANGED <<cancelReq, lines, tasks, processes, killers>>

(***************************************************************************)
(* cancel_job and JobQueue.cancel up to the first suspension.  For a held  *)
(* job kill() returns at once unless the prover is up and not reaped; a    *)
(* queued one leaves _pending but stays in the asyncio.Queue.              *)
(***************************************************************************)
Cancel(j) ==
  /\ IsActive(j)
  /\ cancelReq' = [cancelReq EXCEPT ![j] = TRUE]
  /\ \/ /\ Held(j)
        /\ killers' = IF leader[j] = "alive" THEN killers \cup {j} ELSE killers
        /\ UNCHANGED <<phase, verdict, ended, pending>>
     \/ /\ ~Held(j) /\ j \in ToSet(pending)
        /\ pending' = Without(pending, j)
        /\ SetPhase(j, "cancelled", "error")
        /\ UNCHANGED killers
  /\ UNCHANGED <<fifo, tasks, processes>>

HttpKillReturns(j) ==   \* proc.wait() ended within the grace
  /\ j \in killers
  /\ leader[j] # "alive"
  /\ killers' = killers \ {j}
  /\ UNCHANGED <<records, lines, tasks, processes>>

-----------------------------------------------------------------------------
(* The worker tasks *)

EndJob(w, p, v) ==
  /\ SetPhase(job[w], p, v)
  /\ pc' = [pc EXCEPT ![w] = "get"]
  /\ job' = [job EXCEPT ![w] = NoJob]

Goto(w, label) == pc' = [pc EXCEPT ![w] = label] /\ UNCHANGED job

KillByTerm(j) == UNCHANGED processes   \* mutant: no escalation after the grace

(* SIGKILL to the group: kill() after the grace, whoever called it *)
KillGroup(j) ==
  /\ leader' = [leader EXCEPT ![j] = IF @ = "alive" THEN "exited" ELSE @]
  /\ kids' = [kids EXCEPT ![j] = FALSE]
  /\ UNCHANGED proof

(***************************************************************************)
(* One turn of the loop from queue.get() to the build: an id whose record  *)
(* is gone or no longer to be run is skipped, otherwise the runner makes   *)
(* its directories and starts the build; an OSError there fails the job.   *)
(***************************************************************************)
NeverSkips(j) == phase[j] = "none"   \* mutant: only a missing record is skipped

Skips(j) == cancelReq[j] \/ ~IsActive(j)

Dequeue(w) ==
  /\ pc[w] = "get" /\ fifo # <<>>
  /\ LET j == Head(fifo)
     IN /\ fifo' = Tail(fifo)
        /\ pending' = Without(pending, j)
        /\ IF Skips(j)
           THEN /\ IF IsActive(j) THEN SetPhase(j, "cancelled", "error")
                                  ELSE UNCHANGED <<phase, verdict, ended>>
                /\ UNCHANGED tasks
           ELSE \/ /\ SetPhase(j, "checking", "none")
                   /\ pc' = [pc EXCEPT ![w] = "building"]
                   /\ job' = [job EXCEPT ![w] = j]
                \/ /\ SetPhase(j, "failed", "error")
                   /\ UNCHANGED tasks
  /\ UNCHANGED <<cancelReq, processes, killers>>

(* build_reference returned.  A failed build is reported before a cancel. *)
BuildDone(w) ==
  /\ pc[w] = "building"
  /\ \/ EndJob(w, "failed", "invalid")               \* not ok
     \/ EndJob(w, "failed", "error")                 \* it raised
     \/ cancelReq[job[w]] /\ EndJob(w, "cancelled", "error")
     \/ /\ ~cancelReq[job[w]]
        /\ Goto(w, "spawning")
        /\ UNCHANGED <<phase, verdict, ended>>
  /\ UNCHANGED <<cancelReq, lines, processes, killers>>

Spawn(w) ==
  /\ pc[w] = "spawning"
  /\ Goto(w, "watching")
  /\ SetPhase(job[w], "proving", "none")
  /\ leader' = [leader EXCEPT ![job[w]] = "alive"]
  /\ kids' = [kids EXCEPT ![job[w]] = TRUE]
  /\ UNCHANGED <<cancelReq, lines, proof, killers>>

SpawnFailsSilently(w) ==   \* mutant: the runner's except clause sets no phase
  /\ pc[w] = "spawning"
  /\ pc' = [pc EXCEPT ![w] = "get"]
  /\ job' = [job EXCEPT ![w] = NoJob]
  /\ UNCHANGED <<records, lines, processes, killers>>

SpawnFailsFatally(w) ==   \* mutant: the exception ends the worker task
  /\ pc[w] = "spawning"
  /\ SetPhase(job[w], "failed", "error")
  /\ pc' = [pc EXCEPT ![w] = "dead"]
  /\ job' = [job EXCEPT ![w] = NoJob]
  /\ UNCHANGED <<cancelReq, lines, processes, killers>>

SpawnFails(w) ==
  /\ pc[w] = "spawning"
  /\ EndJob(w, "failed", "error")
  /\ UNCHANGED <<cancelReq, lines, processes, killers>>

(***************************************************************************)
(* The cancel and deadline tests of a poll that finds the prover running.  *)
(* When it has just been reaped, kill() and wait() return at once: the     *)
(* poll then ends the job as Finish does, timedOut being free there.       *)
(***************************************************************************)
PollCancelNoWait(w) ==   \* mutant: SIGTERM and go, without kill()'s wait
  /\ pc[w] = "watching" /\ cancelReq[job[w]] /\ leader[job[w]] = "alive"
  /\ EndJob(w, "cancelled", "error")
  /\ UNCHANGED <<cancelReq, lines, processes, killers>>

PollCancel(w) ==
  /\ pc[w] = "watching" /\ cancelReq[job[w]] /\ leader[job[w]] = "alive"
  /\ Goto(w, "cancelKill")
  /\ UNCHANGED <<records, lines, processes, killers>>

PollDeadline(w) ==
  /\ pc[w] = "watching" /\ ~cancelReq[job[w]] /\ leader[job[w]] = "alive"
  /\ Goto(w, "timeoutKill")
  /\ UNCHANGED <<records, lines, processes, killers>>

GraceOver(w) ==
  /\ pc[w] \in {"cancelKill", "timeoutKill"}
  /\ KillGroup(job[w])
  /\ UNCHANGED <<records, lines, tasks, killers>>

HttpGraceOver(j) ==
  /\ j \in killers
  /\ KillGroup(j)
  /\ killers' = killers \ {j}
  /\ UNCHANGED <<records, lines, tasks>>

CancelDone(w) ==
  /\ pc[w] = "cancelKill" /\ leader[job[w]] = "exited"
  /\ EndJob(w, "cancelled", "error")
  /\ UNCHANGED <<cancelReq, lines, processes, killers>>

(* _finish: rcZero is the exit code, sv the last SafeVerify result tailed *)
OutcomeByResult(j, timedOut, rcZero, sv) ==   \* mutant: no cancel test first
  IF timedOut THEN <<"timeout", "unproved">>
  ELSE IF proof[j] = "written" \/ (rcZero /\ sv)
       THEN <<"succeeded", "proved">> ELSE <<"failed", "unproved">>

OutcomeByExitCode(j, timedOut, rcZero, sv) ==   \* mutant: exit code 0 is enough
  IF cancelReq[j] THEN <<"cancelled", "error">>
  ELSE IF timedOut THEN <<"timeout", "unproved">>
  ELSE IF proof[j] = "written" \/ rcZero
       THEN <<"succeeded", "proved">> ELSE <<"failed", "unproved">>

Outcome(j, timedOut, rcZero, sv) ==
  CASE cancelReq[j]                  -> <<"cancelled", "error">>
    [] ~cancelReq[j] /\ timedOut     -> <<"timeout", "unproved">>
    [] ~cancelReq[j] /\ ~timedOut    ->
         IF proof[j] = "written" \/ (rcZero /\ sv)
         THEN <<"succeeded", "proved">> ELSE <<"failed", "unproved">>

Finish(w) ==
  /\ pc[w] \in {"watching", "timeoutKill"} /\ leader[job[w]] = "exited"
  /\ \E timedOut, rcZero, sv \in BOOLEAN :
       /\ pc[w] = "timeoutKill" => timedOut
       /\ sv => proof[job[w]] # "none"
       /\ LET o == Outcome(job[w], timedOut, rcZero, sv) IN EndJob(w, o[1], o[2])
  /\ UNCHANGED <<cancelReq, lines, processes, killers>>

(***************************************************************************)
(* _read_result lets UnicodeDecodeError through: a result file cut in the  *)
(* middle of a character, by a process killed while writing it, ends the   *)
(* job in run()'s except clause.                                           *)
(***************************************************************************)
FinishRaises(w) ==
  /\ pc[w] \in {"watching", "timeoutKill"} /\ leader[job[w]] = "exited"
  /\ proof[job[w]] # "none"
  /\ EndJob(w, "failed", "error")
  /\ UNCHANGED <<cancelReq, lines, processes, killers>>

-----------------------------------------------------------------------------
(***************************************************************************)
(* The prover's process group, which owes the server nothing: the leader   *)
(* and the others exit when they like, so a SIGTERM needs no action of its *)
(* own and one that is ignored is a group that stays.                      *)
(***************************************************************************)
LeaderExits(j) ==
  /\ leader[j] = "alive"
  /\ leader' = [leader EXCEPT ![j] = "exited"]
  /\ UNCHANGED <<records, lines, tasks, kids, proof, killers>>

KidsExit(j) ==
  /\ kids[j]
  /\ kids' = [kids EXCEPT ![j] = FALSE]
  /\ UNCHANGED <<records, lines, tasks, leader, proof, killers>>

(***************************************************************************)
(* SafeVerify accepts a worker's sketch; the worker then writes its result *)
(* file.  Nobody looks at what it does once the job has ended.             *)
(***************************************************************************)
ProverVerifies(j) ==
  /\ Held(j) /\ kids[j] /\ proof[j] = "none"
  /\ proof' = [proof EXCEPT ![j] = "verified"]
  /\ UNCHANGED <<records, lines, tasks, leader, kids, killers>>

ProverWrites(j) ==
  /\ Held(j) /\ kids[j] /\ proof[j] = "verified"
  /\ proof' = [proof EXCEPT ![j] = "written"]
  /\ UNCHANGED <<records, lines, tasks, leader, kids, killers>>

-----------------------------------------------------------------------------
WorkerStep(w) ==
  \/ Dequeue(w) \/ BuildDone(w) \/ Spawn(w) \/ SpawnFails(w)
  \/ PollCancel(w) \/ PollDeadline(w) \/ GraceOver(w)
  \/ CancelDone(w) \/ Finish(w) \/ FinishRaises(w)

HttpStep(j) ==
  Submit(j) \/ SubmitRefused(j) \/ Cancel(j) \/ HttpKillReturns(j) \/ HttpGraceOver(j)

ProverStep(j) ==
  LeaderExits(j) \/ KidsExit(j) \/ ProverVerifies(j) \/ ProverWrites(j)

Janitor == \E aged \in 0..Len(ended) : Prune(aged)

Next ==
  \/ \E w \in Workers : WorkerStep(w)
  \/ \E j \in Jobs : HttpStep(j) \/ ProverStep(j)
  \/ Janitor

Spec == Init /\ [][Next]_vars

(***************************************************************************)
(* The loop runs every task that is ready and every timer that is due; the *)
(* build is bounded by its own timeout and process creation returns.  The  *)
(* prover, its group, the users and the janitor promise nothing.           *)
(***************************************************************************)
Fairness ==
  /\ \A w \in Workers : WF_vars(WorkerStep(w))
  /\ \A j \in Jobs : WF_vars(HttpKillReturns(j) \/ HttpGraceOver(j))

FairSpec == Spec /\ Fairness

-----------------------------------------------------------------------------
(* Properties *)

(* Where the ids stand in the queue whose jobs are still to be started. *)
Waiting == {i \in DOMAIN fifo : phase[fifo[i]] = "queued"}

(***************************************************************************)
(* _pending is the asyncio.Queue without the ids that were cancelled while *)
(* queued: the position and depth the API reports count exactly the jobs   *)
(* still to be started, in the order they will be (queue.py:22-34), though *)
(* the two lists are changed by three handlers at different moments.       *)
(***************************************************************************)
PendingMatchesQueue ==
  /\ Len(pending) = Cardinality(Waiting)
  /\ \A i \in Waiting : pending[Cardinality({k \in Waiting : k < i}) + 1] = fifo[i]

(***************************************************************************)
(* No job is lost or run twice: a job is active exactly when it has one    *)
(* owner, its single slot in the queue while it is queued and one worker   *)
(* after that, whatever cancels, prunes and failures come in between.      *)
(***************************************************************************)
Owners(j) == Cardinality({w \in Workers : Holds(w, j)})
Slots(j)  == Cardinality({i \in DOMAIN fifo : fifo[i] = j})

OneOwner ==
  \A j \in Jobs :
    /\ Slots(j) <= 1
    /\ phase[j] = "queued" => Slots(j) = 1
    /\ Owners(j) = IF IsActive(j) /\ phase[j] # "queued" THEN 1 ELSE 0

(***************************************************************************)
(* A job that was asked to stop is never reported proved or timed out,     *)
(* whichever of the cancel, the prover's exit, the deadline and the build  *)
(* comes first (the comment at runner.py:190).                             *)
(***************************************************************************)
CancelWins == \A j \in Jobs : cancelReq[j] => phase[j] \notin {"succeeded", "timeout"}

(***************************************************************************)
(* "proved" is only ever said of a job whose prover got a sketch through   *)
(* SafeVerify, by the result file or by the status log (_finish).          *)
(***************************************************************************)
ProvedIsVerified == \A j \in Jobs : verdict[j] = "proved" => proof[j] # "none"

(***************************************************************************)
(* A prover that the loop has not reaped is attended by the one worker     *)
(* that runs its job: no path out of run() leaves it behind.  (Its group   *)
(* may survive it: see KillReapsGroup.)                                  *)
(***************************************************************************)
ProverIsAttended ==
  \A j \in Jobs : leader[j] = "alive" => \E w \in Workers : Holds(w, j) /\ pc[w] \in Attended

(***************************************************************************)
(* A job that has ended keeps its phase and verdict until it is pruned: no *)
(* worker, late cancel or queue entry that outlived it revives it.         *)
(***************************************************************************)
OutcomeIsFinal ==
  [][\A j \in Jobs : phase[j] \in TerminalPhases =>
        \/ phase'[j] = phase[j] /\ verdict'[j] = verdict[j]
        \/ phase'[j] = "none"]_vars

(***************************************************************************)
(* A prune leaves no more than the bound, unless all that is left is still *)
(* active, and never an older ended job in place of a newer one.           *)
(***************************************************************************)
StoreBounded ==
  [][~(Stored \subseteq Stored') =>
        /\ Cardinality(Stored') <= MaxKept \/ \A j \in Stored' : IsActive(j)'
        /\ \A i, k \in DOMAIN ended :
             i < k /\ phase'[ended[k]] = "none" => phase'[ended[i]] = "none"]_vars

(***************************************************************************)
(* kill()'s docstring and tests/test_integration.py:189: once a cancel has *)
(* signalled the process group nothing of it survives, not even a member   *)
(* that ignores SIGTERM.                                                   *)
(***************************************************************************)
KillReapsGroup ==
  \A j \in Jobs : (j \in killers \/ \E w \in Workers : Holds(w, j) /\ pc[w] = "cancelKill")
                 ~> ~kids[j]

(***************************************************************************)
(* The scheduler implements the service it promises.                       *)
(***************************************************************************)
Service == INSTANCE JobService WITH
  Capacity <- Cardinality(Workers),
  line     <- pending,
  running  <- {j \in Jobs : Held(j)},
  outcome  <- [j \in Jobs |-> IF phase[j] \in {"timeout", "cancelled"} THEN phase[j]
                              ELSE verdict[j]],
  asked    <- {j \in Jobs : cancelReq[j]}

ImplementsService == Service!Spec
=============================================================================
