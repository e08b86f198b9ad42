---------------------------- MODULE JobQueueProofs ----------------------------
(***************************************************************************)
(* Proofs about JobQueue for any set of jobs and workers and any bounds.   *)
(* The safety properties are not inductive: that a worker may end its job  *)
(* rests on no other worker holding it, which rests on the queue having    *)
(* each id once and none that is already running.  IInv gathers this.      *)
(*                                                                         *)
(* The second half proves that JobQueue implements JobService.  There the  *)
(* line is _pending, while the jobs are started from the asyncio.Queue:    *)
(* that the one is the other without the cancelled ids (LineInv) is the    *)
(* core of it, and gives what position() reports, too.                     *)
(*                                                                         *)
(* The last part is about JobShutdown.                                     *)
(***************************************************************************)
EXTENDS JobShutdown, TLAPS, SequenceTheorems, FiniteSetTheorems

Running == {"checking", "proving"}

(* Each id is queued at most once, and never while its job runs. *)
FifoInv ==
  /\ \A i, k \in DOMAIN fifo : fifo[i] = fifo[k] => i = k
  /\ \A i \in DOMAIN fifo : phase[fifo[i]] \notin Running

(* ended lists jobs that have ended, once each. *)
EndedInv ==
  /\ \A i, k \in DOMAIN ended : ended[i] = ended[k] => i = k
  /\ \A i \in DOMAIN ended : phase[ended[i]] \in TerminalPhases

(* A busy worker has a job of its own, in the phase its place tells. *)
TaskInv ==
  /\ \A w \in Workers : job[w] = NoJob <=> pc[w] = "get"
  /\ \A w, v \in Workers : job[w] = job[v] /\ job[w] # NoJob => w = v
  /\ \A w \in Workers : pc[w] \in {"building", "spawning"} => phase[job[w]] = "checking"
  /\ \A w \in Workers : pc[w] \in Attended => phase[job[w]] = "proving"

CancelInv ==
  \A j \in Jobs : cancelReq[j] => phase[j] \notin {"none", "queued", "succeeded", "timeout"}

IInv ==
  TypeOK /\ FifoInv /\ EndedInv /\ TaskInv /\ CancelInv /\ ProverIsAttended /\ ProvedIsVerified

(* list.remove keeps a list a list of the same things. *)
LEMMA WithoutType ==
  ASSUME NEW S, NEW s \in Seq(S), NEW e
  PROVE  Without(s, e) \in Seq(S)
<1>1. CASE \E i \in DOMAIN s : s[i] = e
  <2> DEFINE i == CHOOSE i \in DOMAIN s : s[i] = e
  <2>1. i \in 1..Len(s)
    BY <1>1
  <2>2. SubSeq(s, 1, i - 1) \in Seq(S) /\ SubSeq(s, i + 1, Len(s)) \in Seq(S)
    <3> HIDE DEF i
    <3> QED BY <2>1
  <2>3. RemoveAt(s, i) \in Seq(S)
    BY <2>2, ConcatProperties DEF RemoveAt
  <2> QED
    BY <1>1, <2>3 DEF Without
<1>2. CASE ~ \E i \in DOMAIN s : s[i] = e
  BY <1>2 DEF Without
<1> QED
  BY <1>1, <1>2

(* What set_phase does to the ended jobs. *)
LEMMA SetPhaseEnded ==
  ASSUME TypeOK, EndedInv, NEW j \in Jobs,
         NEW p \in ActivePhases \cup TerminalPhases, NEW v \in Verdicts,
         phase[j] \notin TerminalPhases \/ p \in TerminalPhases,
         SetPhase(j, p, v)
  PROVE  /\ phase' \in [Jobs -> ActivePhases \cup TerminalPhases \cup {"none"}]
         /\ verdict' \in [Jobs -> Verdicts]
         /\ ended' \in Seq(Jobs)
         /\ EndedInv'
<1>1. phase' \in [Jobs -> ActivePhases \cup TerminalPhases \cup {"none"}]
  BY DEF SetPhase, TypeOK
<1>2. verdict' \in [Jobs -> Verdicts]
  BY DEF SetPhase, TypeOK
<1>3. ended' \in Seq(Jobs)
  BY DEF SetPhase, TypeOK
<1>4. CASE p \in TerminalPhases /\ j \notin ToSet(ended)
  BY <1>4, <1>1 DEF SetPhase, TypeOK, EndedInv, ToSet
<1>5. CASE ~(p \in TerminalPhases /\ j \notin ToSet(ended))
  BY <1>5, <1>1 DEF SetPhase, TypeOK, EndedInv, ToSet
<1> QED
  BY <1>1, <1>2, <1>3, <1>4, <1>5

(* A server that has just started satisfies the inductive invariant. *)
THEOREM InitInv == Init => IInv
BY MaxQueueAssumption, NoJobAssumption
   DEF Init, IInv, TypeOK, FifoInv, EndedInv, TaskInv, CancelInv, ProverIsAttended,
       ProvedIsVerified, Attended, Verdicts, Suspended

-----------------------------------------------------------------------------
(* A worker that ends its job leaves the invariant standing. *)
LEMMA EndJobInv ==
  ASSUME IInv, NEW w \in Workers, pc[w] # "get",
         NEW p \in TerminalPhases, NEW v \in Verdicts,
         EndJob(w, p, v),
         cancelReq[job[w]] => p \notin {"succeeded", "timeout"},
         v = "proved" => proof[job[w]] # "none",
         leader[job[w]] # "alive",
         UNCHANGED <<cancelReq, lines, processes, killers>>
  PROVE  IInv'
<1> DEFINE j == job[w]
<1>1. j \in Jobs /\ phase[j] \in Running
  BY NoJobAssumption DEF IInv, TypeOK, TaskInv, Suspended, Attended, Running
<1>2. \A u \in Workers : u # w => job[u] # j
  BY <1>1, NoJobAssumption DEF IInv, TaskInv, TypeOK
<1>3. phase[j] \notin TerminalPhases \/ p \in TerminalPhases
  OBVIOUS
<1>4. SetPhase(j, p, v)
  BY DEF EndJob
<1>5. /\ phase' \in [Jobs -> ActivePhases \cup TerminalPhases \cup {"none"}]
      /\ verdict' \in [Jobs -> Verdicts]
      /\ ended' \in Seq(Jobs)
      /\ EndedInv'
  BY <1>1, <1>3, <1>4, SetPhaseEnded DEF IInv
<1>6. TypeOK'
  BY <1>5 DEF IInv, TypeOK, EndJob, lines, processes, Suspended
<1>7. /\ phase' = [phase EXCEPT ![j] = p]
      /\ pc' = [pc EXCEPT ![w] = "get"]
      /\ job' = [job EXCEPT ![w] = NoJob]
      /\ verdict' = [verdict EXCEPT ![j] = IF v = "none" THEN @ ELSE v]
  BY DEF EndJob, SetPhase
<1>8. FifoInv'
  BY <1>1, <1>7 DEF IInv, TypeOK, FifoInv, lines, Running, TerminalPhases
<1>9. TaskInv'
  BY <1>1, <1>2, <1>7 DEF IInv, TypeOK, TaskInv, Attended
<1>10. CancelInv'
  BY <1>1, <1>7 DEF IInv, TypeOK, CancelInv, TerminalPhases
<1>11. ProverIsAttended'
  BY <1>1, <1>2, <1>7 DEF IInv, TypeOK, ProverIsAttended, Holds, processes
<1>12. ProvedIsVerified'
  BY <1>1, <1>7 DEF IInv, TypeOK, ProvedIsVerified, processes
<1> QED
  BY <1>5, <1>6, <1>8, <1>9, <1>10, <1>11, <1>12 DEF IInv

(* The HTTP handlers and their suspended kills. *)
LEMMA HttpInv ==
  ASSUME IInv, NEW j \in Jobs, HttpStep(j)
  PROVE  IInv'
<1>1. CASE Submit(j)
  <2>1. phase[j] = "none" /\ \A i \in DOMAIN fifo : fifo[i] # j
    BY <1>1 DEF Submit, Fresh, ToSet
  <2>2. TypeOK'
    BY <1>1, MaxQueueAssumption DEF IInv, TypeOK, Submit, tasks, processes, ActivePhases
  <2>3. FifoInv'
    BY <1>1, <2>1 DEF IInv, TypeOK, FifoInv, Submit, Running
  <2>4. EndedInv'
    BY <1>1, <2>1 DEF IInv, TypeOK, EndedInv, Submit, TerminalPhases
  <2>5. TaskInv'
    BY <1>1, <2>1 DEF IInv, TypeOK, TaskInv, Submit, tasks
  <2>6. CancelInv'
    BY <1>1, <2>1 DEF IInv, TypeOK, CancelInv, Submit
  <2>7. ProverIsAttended' /\ ProvedIsVerified'
    BY <1>1 DEF IInv, ProverIsAttended, ProvedIsVerified, Holds, Submit, tasks, processes
  <2> QED
    BY <2>2, <2>3, <2>4, <2>5, <2>6, <2>7 DEF IInv
<1>2. CASE SubmitRefused(j)
  <2>1. phase[j] = "none" /\ SetPhase(j, "failed", "error")
    BY <1>2 DEF SubmitRefused, Fresh
  <2>2. /\ phase' \in [Jobs -> ActivePhases \cup TerminalPhases \cup {"none"}]
        /\ verdict' \in [Jobs -> Verdicts] /\ ended' \in Seq(Jobs) /\ EndedInv'
    BY <2>1, SetPhaseEnded DEF IInv, TerminalPhases, Verdicts
  <2>3. TypeOK'
    BY <1>2, <2>2 DEF IInv, TypeOK, SubmitRefused, lines, tasks, processes
  <2>4. FifoInv'
    BY <1>2, <2>1 DEF IInv, TypeOK, FifoInv, SubmitRefused, SetPhase, lines, Running
  <2>5. TaskInv'
    BY <1>2, <2>1 DEF IInv, TypeOK, TaskInv, SubmitRefused, SetPhase, tasks
  <2>6. CancelInv'
    BY <1>2, <2>1 DEF IInv, TypeOK, CancelInv, SubmitRefused, SetPhase
  <2>7. ProverIsAttended' /\ ProvedIsVerified'
    BY <1>2, <2>1 DEF IInv, TypeOK, ProverIsAttended, ProvedIsVerified, Holds,
                     SubmitRefused, SetPhase, tasks, processes
  <2> QED
    BY <2>2, <2>3, <2>4, <2>5, <2>6, <2>7 DEF IInv
<1>3. CASE Cancel(j)
  <2>1. CASE Held(j) /\ UNCHANGED <<phase, verdict, ended, pending>>
             /\ killers' = IF leader[j] = "alive" THEN killers \cup {j} ELSE killers
    <3>1. phase[j] \in Running
      BY <2>1, NoJobAssumption DEF IInv, TypeOK, TaskInv, Held, Holds, Suspended, Attended, Running
    <3>2. TypeOK'
      BY <1>3, <2>1 DEF IInv, TypeOK, Cancel, tasks, processes
    <3>3. FifoInv' /\ EndedInv' /\ TaskInv'
      BY <1>3, <2>1 DEF IInv, FifoInv, EndedInv, TaskInv, Cancel, tasks
    <3>4. CancelInv'
      BY <1>3, <2>1, <3>1 DEF IInv, TypeOK, CancelInv, Cancel, Running
    <3>5. ProverIsAttended' /\ ProvedIsVerified'
      BY <1>3, <2>1 DEF IInv, ProverIsAttended, ProvedIsVerified, Holds, Cancel, tasks, processes
    <3> QED
      BY <3>2, <3>3, <3>4, <3>5 DEF IInv
  <2>2. CASE ~Held(j) /\ pending' = Without(pending, j) /\ SetPhase(j, "cancelled", "error")
             /\ UNCHANGED killers
    <3>1. phase[j] \notin TerminalPhases
      BY <1>3 DEF Cancel, IsActive, ActivePhases, TerminalPhases
    <3>2. /\ phase' \in [Jobs -> ActivePhases \cup TerminalPhases \cup {"none"}]
          /\ verdict' \in [Jobs -> Verdicts] /\ ended' \in Seq(Jobs) /\ EndedInv'
      BY <2>2, <3>1, SetPhaseEnded DEF IInv, TerminalPhases, Verdicts
    <3>3. pending' \in Seq(Jobs)
      BY <2>2, WithoutType DEF IInv, TypeOK
    <3>4. TypeOK'
      BY <1>3, <2>2, <3>2, <3>3 DEF IInv, TypeOK, Cancel, tasks, processes
    <3>5. FifoInv'
      BY <1>3, <2>2 DEF IInv, TypeOK, FifoInv, Cancel, SetPhase, Running
    <3>6. TaskInv'
      BY <1>3, <2>2 DEF IInv, TypeOK, TaskInv, Cancel, SetPhase, tasks, Held, Holds
    <3>7. CancelInv'
      BY <1>3, <2>2 DEF IInv, TypeOK, CancelInv, Cancel, SetPhase
    <3>8. ProverIsAttended' /\ ProvedIsVerified'
      BY <1>3, <2>2 DEF IInv, TypeOK, ProverIsAttended, ProvedIsVerified, Holds, Cancel,
                        SetPhase, tasks, processes
    <3> QED
      BY <3>2, <3>4, <3>5, <3>6, <3>7, <3>8 DEF IInv
  <2> QED
    BY <1>3, <2>1, <2>2 DEF Cancel
<1>4. CASE HttpKillReturns(j)
  BY <1>4 DEF HttpKillReturns, IInv, TypeOK, FifoInv, EndedInv, TaskInv, CancelInv,
              ProverIsAttended, ProvedIsVerified, Holds, records, lines, tasks, processes
<1>5. CASE HttpGraceOver(j)
  BY <1>5 DEF HttpGraceOver, KillGroup, IInv, TypeOK, FifoInv, EndedInv, TaskInv, CancelInv,
              ProverIsAttended, ProvedIsVerified, Holds, records, lines, tasks
<1> QED
  BY <1>1, <1>2, <1>3, <1>4, <1>5 DEF HttpStep

(* A worker that does not attend its job has no prover to leave behind. *)
LEMMA NoProverYet ==
  ASSUME IInv, NEW w \in Workers, pc[w] \in {"building", "spawning"}
  PROVE  job[w] \in Jobs /\ leader[job[w]] # "alive" /\ phase[job[w]] = "checking"
<1>1. job[w] \in Jobs /\ job[w] # NoJob
  BY NoJobAssumption DEF IInv, TypeOK, TaskInv
<1>2. \A v \in Workers : Holds(v, job[w]) => v = w
  BY <1>1 DEF IInv, TaskInv, Holds
<1> QED
  BY <1>1, <1>2 DEF IInv, ProverIsAttended, TaskInv, Attended

(* Taking an id from the queue, to run its job or to skip it, keeps it. *)
LEMMA DequeueInv ==
  ASSUME IInv, NEW w \in Workers, Dequeue(w)
  PROVE  IInv'
<1> DEFINE j == Head(fifo)
<1>1. /\ fifo \in Seq(Jobs) /\ fifo # <<>> /\ j \in Jobs /\ 1 \in DOMAIN fifo /\ j = fifo[1]
      /\ fifo' = Tail(fifo) /\ pending' = Without(pending, j)
      /\ pc[w] = "get"
      /\ UNCHANGED <<cancelReq, processes, killers>>
  BY DEF Dequeue, IInv, TypeOK
<1>2. /\ fifo' \in Seq(Jobs) /\ Len(fifo') <= MaxQueue
      /\ \A i \in DOMAIN fifo' : i + 1 \in DOMAIN fifo /\ fifo'[i] = fifo[i + 1]
  BY <1>1, MaxQueueAssumption DEF IInv, TypeOK
<1>3. pending' \in Seq(Jobs)
  BY <1>1, WithoutType DEF IInv, TypeOK
<1>4. \A i \in DOMAIN fifo' : fifo'[i] # j
  BY <1>1, <1>2 DEF IInv, FifoInv
<1>5. \A i, k \in DOMAIN fifo' : fifo'[i] = fifo'[k] => i = k
  BY <1>1, <1>2 DEF IInv, FifoInv
<1>6. phase[j] \notin Running
  BY <1>1 DEF IInv, FifoInv
<1>7. \A u \in Workers : job[u] # j
  BY <1>1, <1>6, NoJobAssumption
     DEF IInv, TaskInv, TypeOK, Suspended, Attended, Running
<1>8. CASE UNCHANGED <<phase, verdict, ended, tasks>>
  <2>1. TypeOK'
    BY <1>1, <1>2, <1>3, <1>8 DEF IInv, TypeOK, tasks, processes
  <2>2. FifoInv'
    BY <1>2, <1>5, <1>8 DEF IInv, FifoInv
  <2> QED
    BY <1>1, <1>8, <2>1, <2>2
       DEF IInv, EndedInv, TaskInv, CancelInv, ProverIsAttended, ProvedIsVerified, Holds,
           tasks, processes
<1>9. CASE /\ UNCHANGED tasks
           /\ \E p \in {"cancelled", "failed"} : SetPhase(j, p, "error")
           /\ IsActive(j)
  <2>1. PICK p \in {"cancelled", "failed"} : SetPhase(j, p, "error")
    BY <1>9
  <2>2. /\ phase' \in [Jobs -> ActivePhases \cup TerminalPhases \cup {"none"}]
        /\ verdict' \in [Jobs -> Verdicts] /\ ended' \in Seq(Jobs) /\ EndedInv'
    BY <1>1, <2>1, SetPhaseEnded DEF IInv, TerminalPhases, Verdicts
  <2>3. TypeOK'
    BY <1>1, <1>2, <1>3, <1>9, <2>2 DEF IInv, TypeOK, tasks, processes
  <2>4. FifoInv'
    BY <1>1, <1>2, <1>5, <2>1 DEF IInv, TypeOK, FifoInv, SetPhase, Running
  <2>5. TaskInv'
    BY <1>1, <1>7, <1>9, <2>1 DEF IInv, TypeOK, TaskInv, SetPhase, tasks, Attended
  <2>6. CancelInv'
    BY <1>1, <2>1 DEF IInv, TypeOK, CancelInv, SetPhase
  <2>7. ProverIsAttended' /\ ProvedIsVerified'
    BY <1>1, <1>9, <2>1 DEF IInv, TypeOK, ProverIsAttended, ProvedIsVerified, SetPhase, Holds,
                            tasks, processes
  <2> QED
    BY <2>2, <2>3, <2>4, <2>5, <2>6, <2>7 DEF IInv
<1>10. CASE /\ ~Skips(j)
            /\ SetPhase(j, "checking", "none")
            /\ pc' = [pc EXCEPT ![w] = "building"]
            /\ job' = [job EXCEPT ![w] = j]
  <2>1. phase[j] = "queued" /\ ~cancelReq[j]
    BY <1>6, <1>10 DEF Skips, IsActive, ActivePhases, Running
  <2>2. /\ phase' \in [Jobs -> ActivePhases \cup TerminalPhases \cup {"none"}]
        /\ verdict' \in [Jobs -> Verdicts] /\ ended' \in Seq(Jobs) /\ EndedInv'
    BY <1>1, <1>10, <2>1, SetPhaseEnded DEF IInv, ActivePhases, TerminalPhases, Verdicts
  <2>3. TypeOK'
    BY <1>1, <1>2, <1>3, <1>10, <2>2 DEF IInv, TypeOK, processes, Suspended
  <2>4. FifoInv'
    BY <1>1, <1>2, <1>4, <1>5, <1>10 DEF IInv, TypeOK, FifoInv, SetPhase, Running
  <2>5. TaskInv'
    BY <1>1, <1>7, <1>10, NoJobAssumption DEF IInv, TypeOK, TaskInv, SetPhase, Attended
  <2>6. CancelInv'
    BY <1>1, <1>10, <2>1 DEF IInv, TypeOK, CancelInv, SetPhase
  <2>7. ProverIsAttended'
    BY <1>1, <1>10 DEF IInv, TypeOK, ProverIsAttended, Holds, processes, Attended
  <2>8. ProvedIsVerified'
    BY <1>1, <1>10 DEF IInv, TypeOK, ProvedIsVerified, SetPhase, processes
  <2> QED
    BY <2>2, <2>3, <2>4, <2>5, <2>6, <2>7, <2>8 DEF IInv
<1> QED
  BY <1>8, <1>9, <1>10 DEF Dequeue, Skips

(* Every step of a worker task keeps it, one case per place of suspension. *)
LEMMA WorkerInv ==
  ASSUME IInv, NEW w \in Workers, WorkerStep(w)
  PROVE  IInv'
<1> USE DEF TerminalPhases, Verdicts
<1>1. CASE Dequeue(w)
  BY <1>1, DequeueInv
<1>2. CASE BuildDone(w)
  <2>1. leader[job[w]] # "alive" /\ job[w] \in Jobs /\ phase[job[w]] = "checking"
    BY <1>2, NoProverYet DEF BuildDone
  <2>2. CASE \E p \in {"failed", "cancelled"}, v \in {"invalid", "error"} : EndJob(w, p, v)
    BY <1>2, <2>1, <2>2, EndJobInv DEF BuildDone
  <2>3. CASE /\ Goto(w, "spawning") /\ UNCHANGED <<phase, verdict, ended>>
    BY <1>2, <2>1, <2>3
       DEF BuildDone, Goto, IInv, TypeOK, FifoInv, EndedInv, TaskInv, CancelInv, Suspended,
           Attended, ProverIsAttended, ProvedIsVerified, Holds, lines, processes
  <2> QED
    BY <1>2, <2>2, <2>3 DEF BuildDone
<1>3. CASE Spawn(w)
  <2> DEFINE j == job[w]
  <2>1. j \in Jobs /\ phase[j] = "checking"
    BY <1>3, NoProverYet DEF Spawn
  <2>2. /\ SetPhase(j, "proving", "none")
        /\ pc' = [pc EXCEPT ![w] = "watching"] /\ job' = job
        /\ leader' = [leader EXCEPT ![j] = "alive"] /\ kids' = [kids EXCEPT ![j] = TRUE]
        /\ pc[w] = "spawning"
        /\ UNCHANGED <<cancelReq, lines, proof, killers>>
    BY <1>3 DEF Spawn, Goto
  <2>3. /\ phase' \in [Jobs -> ActivePhases \cup TerminalPhases \cup {"none"}]
        /\ verdict' \in [Jobs -> Verdicts] /\ ended' \in Seq(Jobs) /\ EndedInv'
    BY <2>1, <2>2, SetPhaseEnded DEF IInv, ActivePhases
  <2>4. TypeOK'
    BY <2>1, <2>2, <2>3 DEF IInv, TypeOK, lines, Suspended
  <2>5. FifoInv'
    BY <2>1, <2>2 DEF IInv, TypeOK, FifoInv, SetPhase, lines, Running
  <2>6. TaskInv'
    BY <2>1, <2>2, NoJobAssumption DEF IInv, TypeOK, TaskInv, SetPhase, Attended
  <2>7. CancelInv'
    BY <2>1, <2>2 DEF IInv, TypeOK, CancelInv, SetPhase
  <2>8. ProverIsAttended'
    BY <2>1, <2>2 DEF IInv, TypeOK, ProverIsAttended, Holds, Attended
  <2>9. ProvedIsVerified'
    BY <2>1, <2>2 DEF IInv, TypeOK, ProvedIsVerified, SetPhase
  <2> QED
    BY <2>3, <2>4, <2>5, <2>6, <2>7, <2>8, <2>9 DEF IInv
<1>4. CASE SpawnFails(w)
  BY <1>4, NoProverYet, EndJobInv DEF SpawnFails
<1>5. CASE PollCancel(w) \/ PollDeadline(w)
  BY <1>5 DEF PollCancel, PollDeadline, Goto, IInv, TypeOK, FifoInv, EndedInv, TaskInv, CancelInv,
              Suspended, Attended, ProverIsAttended, ProvedIsVerified, Holds, records, lines,
              processes
<1>6. CASE GraceOver(w)
  BY <1>6 DEF GraceOver, KillGroup, IInv, TypeOK, FifoInv, EndedInv, TaskInv, CancelInv,
              ProverIsAttended, ProvedIsVerified, Holds, records, lines, tasks
<1>7. CASE CancelDone(w)
  BY <1>7, EndJobInv DEF CancelDone
<1>8. CASE Finish(w)
  <2>1. PICK timedOut, rcZero, sv \in BOOLEAN :
          /\ sv => proof[job[w]] # "none"
          /\ LET o == Outcome(job[w], timedOut, rcZero, sv) IN EndJob(w, o[1], o[2])
    BY <1>8 DEF Finish
  <2>2. PICK p \in TerminalPhases, v \in Verdicts :
          /\ EndJob(w, p, v)
          /\ cancelReq[job[w]] => p \notin {"succeeded", "timeout"}
          /\ v = "proved" => proof[job[w]] # "none"
    <3>1. job[w] \in Jobs /\ cancelReq[job[w]] \in BOOLEAN
      BY <1>8, NoJobAssumption DEF Finish, IInv, TypeOK, TaskInv
    <3>2. CASE cancelReq[job[w]]
      BY <2>1, <3>2 DEF Outcome
    <3>3. CASE ~cancelReq[job[w]] /\ timedOut
      BY <2>1, <3>3 DEF Outcome
    <3>4. CASE ~cancelReq[job[w]] /\ ~timedOut
      BY <2>1, <3>4 DEF Outcome
    <3> QED
      BY <3>1, <3>2, <3>3, <3>4
  <2> QED
    BY <1>8, <2>2, EndJobInv DEF Finish
<1>9. CASE FinishRaises(w)
  BY <1>9, EndJobInv DEF FinishRaises
<1> QED
  BY <1>1, <1>2, <1>3, <1>4, <1>5, <1>6, <1>7, <1>8, <1>9 DEF WorkerStep

(* The janitor drops a prefix of ended. *)
LEMMA PruneDrops ==
  ASSUME IInv, NEW aged \in 0..Len(ended), Prune(aged)
  PROVE  \E dropped \in 1..Len(ended) :
           /\ ended' = SubSeq(ended, dropped + 1, Len(ended))
           /\ phase' = [j \in Jobs |-> IF j \in {ended[i] : i \in 1..dropped} THEN "none" ELSE phase[j]]
           /\ verdict' = [j \in Jobs |-> IF j \in {ended[i] : i \in 1..dropped} THEN "none" ELSE verdict[j]]
           /\ cancelReq' = [j \in Jobs |-> cancelReq[j] /\ j \notin {ended[i] : i \in 1..dropped}]
           /\ leader' = [j \in Jobs |-> IF j \in {ended[i] : i \in 1..dropped} THEN "none" ELSE leader[j]]
           /\ proof' = [j \in Jobs |-> IF j \in {ended[i] : i \in 1..dropped} THEN "none" ELSE proof[j]]
           /\ UNCHANGED <<lines, tasks, kids, killers>>
<1> DEFINE d == IF aged + Overflow(aged) < Len(ended) THEN aged + Overflow(aged) ELSE Len(ended)
<1>1. d \in 1..Len(ended)
  <2>1. CASE aged + Overflow(aged) < Len(ended)
    <3>1. ended \in Seq(Jobs) /\ Len(ended) \in Nat
      BY DEF IInv, TypeOK
    <3>2. Overflow(aged) \in Nat
      <4>1. CASE Cardinality(Stored) - aged > MaxKept
        <5> DEFINE c == Cardinality(Stored) - aged
        <5>1. Overflow(aged) = c - MaxKept /\ c > MaxKept
          BY <4>1 DEF Overflow
        <5>2. Cardinality(Stored) \in Nat
          BY JobsAssumption, FS_Subset, FS_CardinalityType DEF Stored
        <5> QED
          BY <5>1, <5>2, <3>1, MaxKeptAssumption
      <4>2. CASE ~(Cardinality(Stored) - aged > MaxKept)
        BY <4>2 DEF Overflow
      <4> QED
        BY <4>1, <4>2
    <3> QED
      BY <2>1, <3>1, <3>2 DEF Prune
  <2>2. CASE ~(aged + Overflow(aged) < Len(ended))
    BY <2>2 DEF Prune, IInv, TypeOK
  <2> QED
    BY <2>1, <2>2
<1> QED
  BY <1>1 DEF Prune

(* That is ended jobs only. *)
LEMMA PruneInv ==
  ASSUME IInv, NEW aged \in 0..Len(ended), Prune(aged)
  PROVE  IInv'
<1>1. PICK dropped \in 1..Len(ended) :
        /\ ended' = SubSeq(ended, dropped + 1, Len(ended))
        /\ phase' = [j \in Jobs |-> IF j \in {ended[i] : i \in 1..dropped} THEN "none" ELSE phase[j]]
        /\ verdict' = [j \in Jobs |-> IF j \in {ended[i] : i \in 1..dropped} THEN "none" ELSE verdict[j]]
        /\ cancelReq' = [j \in Jobs |-> cancelReq[j] /\ j \notin {ended[i] : i \in 1..dropped}]
        /\ leader' = [j \in Jobs |-> IF j \in {ended[i] : i \in 1..dropped} THEN "none" ELSE leader[j]]
        /\ proof' = [j \in Jobs |-> IF j \in {ended[i] : i \in 1..dropped} THEN "none" ELSE proof[j]]
        /\ UNCHANGED <<lines, tasks, kids, killers>>
  BY PruneDrops
<1> DEFINE gone == {ended[i] : i \in 1..dropped}
<1>2. /\ ended' \in Seq(Jobs)
      /\ \A i \in DOMAIN ended' : i + dropped \in DOMAIN ended /\ ended'[i] = ended[i + dropped]
  BY <1>1 DEF IInv, TypeOK
<1>3. \A j \in gone : j \in Jobs /\ phase[j] \in TerminalPhases
  BY DEF IInv, TypeOK, EndedInv
<1>4. \A i \in DOMAIN ended' : ended'[i] \notin gone
  BY <1>2 DEF IInv, TypeOK, EndedInv
<1>5. \A w \in Workers : job[w] \notin gone
  <2> SUFFICES ASSUME NEW w \in Workers, job[w] \in gone PROVE FALSE
    OBVIOUS
  <2>1. phase[job[w]] \in TerminalPhases /\ job[w] # NoJob
    BY <1>3, NoJobAssumption
  <2>2. phase[job[w]] \in Running
    BY <2>1 DEF IInv, TypeOK, TaskInv, Suspended, Attended, Running
  <2> QED
    BY <2>1, <2>2 DEF Running, TerminalPhases
<1> HIDE DEF gone
<1>6. TypeOK'
  <2>1. phase' \in [Jobs -> ActivePhases \cup TerminalPhases \cup {"none"}]
    BY <1>1 DEF IInv, TypeOK
  <2>2. verdict' \in [Jobs -> Verdicts]
    BY <1>1 DEF IInv, TypeOK, Verdicts
  <2>3. cancelReq' \in [Jobs -> BOOLEAN]
    BY <1>1 DEF IInv, TypeOK
  <2>4. leader' \in [Jobs -> {"none", "alive", "exited"}]
    BY <1>1 DEF IInv, TypeOK
  <2>5. proof' \in [Jobs -> {"none", "verified", "written"}]
    BY <1>1 DEF IInv, TypeOK
  <2>6. UNCHANGED <<fifo, pending, pc, job, kids, killers>>
    BY <1>1 DEF lines, tasks
  <2> QED
    BY <1>2, <2>1, <2>2, <2>3, <2>4, <2>5, <2>6 DEF IInv, TypeOK
<1>7. FifoInv'
  BY <1>1 DEF IInv, TypeOK, FifoInv, lines, Running, gone
<1>8. EndedInv'
  <2>1. \A i, k \in DOMAIN ended' : ended'[i] = ended'[k] => i = k
    BY <1>1, <1>2 DEF IInv, EndedInv
  <2>2. \A i \in DOMAIN ended' : phase'[ended'[i]] = phase[ended'[i]]
    BY <1>1, <1>2, <1>4 DEF gone
  <2>3. \A i \in DOMAIN ended' : phase[ended'[i]] \in TerminalPhases
    BY <1>2 DEF IInv, EndedInv
  <2> QED
    BY <2>1, <2>2, <2>3 DEF EndedInv
<1>9. TaskInv'
  <2>1. \A w \in Workers : job[w] # NoJob => phase'[job[w]] = phase[job[w]]
    BY <1>1, <1>5 DEF IInv, TypeOK, gone
  <2>2. UNCHANGED <<pc, job>>
    BY <1>1 DEF tasks
  <2> QED
    BY <2>1, <2>2 DEF IInv, TypeOK, TaskInv, Attended
<1>10. CancelInv'
  BY <1>1 DEF IInv, TypeOK, CancelInv
<1>11. ProverIsAttended'
  BY <1>1 DEF IInv, TypeOK, ProverIsAttended, Holds, tasks
<1>12. ProvedIsVerified'
  BY <1>1 DEF IInv, TypeOK, ProvedIsVerified
<1> QED
  BY <1>6, <1>7, <1>8, <1>9, <1>10, <1>11, <1>12 DEF IInv

(* Every step of the system, or a stutter, keeps the inductive invariant. *)
LEMMA StepInv == IInv /\ [Next]_vars => IInv'
<1> SUFFICES ASSUME IInv, [Next]_vars PROVE IInv'
  OBVIOUS
<1>1. CASE \E w \in Workers : WorkerStep(w)
  BY <1>1, WorkerInv
<1>2. CASE \E j \in Jobs : HttpStep(j)
  BY <1>2, HttpInv
<1>3. CASE \E j \in Jobs : ProverStep(j)
  <2>1. UNCHANGED <<records, lines, tasks, killers>>
    BY <1>3 DEF ProverStep, LeaderExits, KidsExit, ProverVerifies, ProverWrites
  <2>2. FifoInv' /\ EndedInv' /\ TaskInv' /\ CancelInv'
    BY <2>1 DEF IInv, FifoInv, EndedInv, TaskInv, CancelInv, records, lines, tasks
  <2>3. PICK j \in Jobs : ProverStep(j)
    BY <1>3
  <2>4. /\ leader' \in [Jobs -> {"none", "alive", "exited"}] /\ kids' \in [Jobs -> BOOLEAN]
        /\ proof' \in [Jobs -> {"none", "verified", "written"}]
        /\ \A i \in Jobs : leader'[i] = "alive" => leader[i] = "alive"
        /\ \A i \in Jobs : proof[i] # "none" => proof'[i] # "none"
    BY <2>3 DEF ProverStep, LeaderExits, KidsExit, ProverVerifies, ProverWrites, IInv, TypeOK
  <2>5. TypeOK'
    BY <2>1, <2>4 DEF IInv, TypeOK, records, lines, tasks
  <2>6. ProverIsAttended' /\ ProvedIsVerified'
    BY <2>1, <2>4 DEF IInv, ProverIsAttended, ProvedIsVerified, Holds, records, tasks
  <2> QED
    BY <2>2, <2>5, <2>6 DEF IInv
<1>4. CASE Janitor
  BY <1>4, PruneInv DEF Janitor
<1>5. CASE UNCHANGED vars
  BY <1>5 DEF vars, IInv, TypeOK, FifoInv, EndedInv, TaskInv, CancelInv, ProverIsAttended,
              ProvedIsVerified, Holds, records, lines, tasks, processes
<1> QED
  BY <1>1, <1>2, <1>3, <1>4, <1>5 DEF Next

(* The inductive invariant holds in every reachable state. *)
THEOREM Invariance == Spec => []IInv
BY InitInv, StepInv, PTL DEF Spec

-----------------------------------------------------------------------------
(* Every variable keeps its type, and the asyncio.Queue its bound. *)
THEOREM TypeCorrect == Spec => []TypeOK
<1>1. IInv => TypeOK
  BY DEF IInv
<1> QED
  BY <1>1, Invariance, PTL

(***************************************************************************)
(* A job asked to stop is never reported proved or timed out, for any      *)
(* number of jobs, workers and cancel requests.                            *)
(***************************************************************************)
THEOREM CancelWinsAlways == Spec => []CancelWins
<1>1. IInv => CancelWins
  BY DEF IInv, CancelInv, CancelWins
<1> QED
  BY <1>1, Invariance, PTL

(* "proved" is only said of a job whose prover passed SafeVerify. *)
THEOREM ProvedAlwaysVerified == Spec => []ProvedIsVerified
<1>1. IInv => ProvedIsVerified
  BY DEF IInv
<1> QED
  BY <1>1, Invariance, PTL

(* A prover that was not reaped is attended by a worker of its job. *)
THEOREM ProverAlwaysAttended == Spec => []ProverIsAttended
<1>1. IInv => ProverIsAttended
  BY DEF IInv
<1> QED
  BY <1>1, Invariance, PTL

(***************************************************************************)
(* No step changes what an ended job was told, but for the pruning of its  *)
(* record: neither a worker, nor a late cancel, nor its id in the queue.   *)
(***************************************************************************)
THEOREM OutcomeAlwaysFinal == Spec => OutcomeIsFinal
<1> DEFINE Kept(j) == \/ phase'[j] = phase[j] /\ verdict'[j] = verdict[j]
                      \/ phase'[j] = "none"
<1>1. ASSUME IInv, Next, NEW j \in Jobs, phase[j] \in TerminalPhases
      PROVE  Kept(j)
  <2>1. ASSUME NEW i \in Jobs, i # j, NEW p, NEW v, SetPhase(i, p, v)
        PROVE  Kept(j)
    BY <1>1, <2>1 DEF SetPhase, IInv, TypeOK
  <2>2. ASSUME NEW w \in Workers, pc[w] # "get"
        PROVE  job[w] \in Jobs /\ job[w] # j
    BY <1>1, <2>2, NoJobAssumption
       DEF IInv, TypeOK, TaskInv, Suspended, Attended, TerminalPhases
  <2>3. ASSUME NEW w \in Workers, WorkerStep(w)
        PROVE  Kept(j)
    <3>1. CASE Dequeue(w)
      <4>1. Head(fifo) \in Jobs
        BY <1>1, <3>1 DEF Dequeue, IInv, TypeOK
      <4>2. CASE Head(fifo) = j
        <5>1. Skips(j) /\ ~IsActive(j)
          BY <1>1 DEF Skips, IsActive, ActivePhases, TerminalPhases
        <5> QED
          BY <3>1, <4>2, <5>1 DEF Dequeue
      <4>3. CASE Head(fifo) # j
        BY <2>1, <3>1, <4>1, <4>3 DEF Dequeue
      <4> QED
        BY <4>2, <4>3
    <3>2. CASE \E p, v : EndJob(w, p, v) /\ pc[w] # "get"
      BY <2>1, <2>2, <3>2 DEF EndJob
    <3>3. CASE Spawn(w)
      BY <2>1, <2>2, <3>3 DEF Spawn
    <3>4. CASE UNCHANGED <<phase, verdict>>
      BY <3>4
    <3> QED
      BY <2>3, <3>1, <3>2, <3>3, <3>4
         DEF WorkerStep, BuildDone, SpawnFails, PollCancel, PollDeadline, GraceOver, CancelDone,
             Finish, FinishRaises, records
  <2>4. ASSUME NEW i \in Jobs, HttpStep(i)
        PROVE  Kept(j)
    <3>1. CASE i # j
      BY <1>1, <2>1, <2>4, <3>1
         DEF HttpStep, Submit, SubmitRefused, Cancel, HttpKillReturns, HttpGraceOver, records,
             IInv, TypeOK
    <3>2. CASE i = j
      BY <1>1, <2>4, <3>2
         DEF HttpStep, Submit, SubmitRefused, Fresh, Cancel, IsActive, HttpKillReturns,
             HttpGraceOver, records, ActivePhases, TerminalPhases
    <3> QED
      BY <3>1, <3>2
  <2>5. ASSUME NEW i \in Jobs, ProverStep(i)
        PROVE  Kept(j)
    BY <2>5 DEF ProverStep, LeaderExits, KidsExit, ProverVerifies, ProverWrites, records
  <2>6. ASSUME Janitor
        PROVE  Kept(j)
    BY <2>6 DEF Janitor, Prune
  <2> QED
    BY <1>1, <2>3, <2>4, <2>5, <2>6 DEF Next
<1>2. IInv /\ [Next]_vars
        => [\A j \in Jobs : phase[j] \in TerminalPhases => Kept(j)]_vars
  BY <1>1
<1> QED
  BY <1>2, Invariance, PTL DEF Spec, OutcomeIsFinal

-----------------------------------------------------------------------------
(***************************************************************************)
(* No job is lost.  IInv says that a job has at most one owner; that it    *)
(* has one as long as it is active needs the converse, kept by every step  *)
(* that takes an id from the queue or frees a worker.                      *)
(***************************************************************************)
OwnedInv ==
  /\ \A j \in Jobs : phase[j] = "queued" => \E i \in DOMAIN fifo : fifo[i] = j
  /\ \A j \in Jobs : phase[j] \in Running => Held(j)

(* Every step keeps the link between active jobs and their owners. *)
LEMMA OwnedStep == IInv /\ OwnedInv /\ [Next]_vars => OwnedInv'
<1> SUFFICES ASSUME IInv, OwnedInv, [Next]_vars PROVE OwnedInv'
  OBVIOUS
<1>1. ASSUME UNCHANGED <<phase, fifo, job>>
      PROVE  OwnedInv'
  BY <1>1 DEF OwnedInv, Held, Holds
<1>2. ASSUME NEW w \in Workers, NEW p \in TerminalPhases, NEW v,
             EndJob(w, p, v), pc[w] # "get", UNCHANGED lines
      PROVE  OwnedInv'
  <2>1. job[w] \in Jobs /\ job[w] # NoJob
    BY <1>2, NoJobAssumption DEF IInv, TypeOK, TaskInv
  <2>2. /\ phase' = [phase EXCEPT ![job[w]] = p] /\ job' = [job EXCEPT ![w] = NoJob]
        /\ fifo' = fifo
    BY <1>2 DEF EndJob, SetPhase, lines
  <2>3. ASSUME NEW j \in Jobs, phase'[j] = "queued"
        PROVE  \E i \in DOMAIN fifo' : fifo'[i] = j
    BY <1>2, <2>1, <2>2, <2>3 DEF OwnedInv, IInv, TypeOK, TerminalPhases
  <2>4. ASSUME NEW j \in Jobs, phase'[j] \in Running
        PROVE  Held(j)'
    <3>1. j # job[w] /\ phase[j] \in Running
      BY <1>2, <2>1, <2>2, <2>4 DEF IInv, TypeOK, TerminalPhases, Running
    <3>2. PICK u \in Workers : job[u] = j
      BY <3>1 DEF OwnedInv, Held, Holds
    <3>3. job'[u] = j
      BY <2>2, <3>1, <3>2 DEF IInv, TypeOK
    <3> QED
      BY <3>3 DEF Held, Holds
  <2> QED
    BY <2>3, <2>4 DEF OwnedInv
<1>3. ASSUME NEW w \in Workers, Dequeue(w)
      PROVE  OwnedInv'
  <2> DEFINE j == Head(fifo)
  <2>1. /\ fifo \in Seq(Jobs) /\ fifo # <<>> /\ j \in Jobs /\ j = fifo[1]
        /\ fifo' = Tail(fifo) /\ pc[w] = "get"
        /\ job[w] = NoJob
    BY <1>3 DEF Dequeue, IInv, TypeOK, TaskInv
  <2>2. \A i \in DOMAIN fifo : i # 1 => i - 1 \in DOMAIN fifo' /\ fifo'[i - 1] = fifo[i]
    BY <2>1
  <2>3. /\ \A i \in Jobs : i # j => phase'[i] = phase[i]
        /\ phase'[j] # "queued"
        /\ phase'[j] \in Running => job' = [job EXCEPT ![w] = j]
        /\ job' = job \/ job' = [job EXCEPT ![w] = j]
    <3>1. CASE Skips(j)
      <4>1. CASE IsActive(j)
        BY <1>3, <3>1, <4>1, <2>1 DEF Dequeue, SetPhase, tasks, IInv, TypeOK, Running
      <4>2. CASE ~IsActive(j)
        <5>1. phase[j] \notin Running /\ phase[j] # "queued"
          BY <4>2 DEF IsActive, ActivePhases, Running
        <5> QED
          BY <1>3, <3>1, <4>2, <2>1, <5>1 DEF Dequeue, tasks
      <4> QED
        BY <4>1, <4>2
    <3>2. CASE ~Skips(j)
      BY <1>3, <3>2, <2>1 DEF Dequeue, SetPhase, tasks, IInv, TypeOK, Running
    <3> QED
      BY <3>1, <3>2
  <2>4. ASSUME NEW k \in Jobs, phase'[k] = "queued"
        PROVE  \E i \in DOMAIN fifo' : fifo'[i] = k
    <3>1. k # j /\ phase[k] = "queued"
      BY <2>3, <2>4
    <3>2. PICK i \in DOMAIN fifo : fifo[i] = k
      BY <3>1 DEF OwnedInv
    <3> QED
      BY <2>1, <2>2, <3>1, <3>2
  <2>5. ASSUME NEW k \in Jobs, phase'[k] \in Running
        PROVE  Held(k)'
    <3>1. CASE k = j
      BY <2>3, <2>5, <3>1 DEF Held, Holds, IInv, TypeOK
    <3>2. CASE k # j
      <4>1. phase[k] \in Running
        BY <2>3, <2>5, <3>2
      <4>2. PICK u \in Workers : job[u] = k
        BY <4>1 DEF OwnedInv, Held, Holds
      <4>3. job'[u] = k
        BY <2>1, <2>3, <4>2, NoJobAssumption DEF IInv, TypeOK
      <4> QED
        BY <4>3 DEF Held, Holds
    <3> QED
      BY <3>1, <3>2
  <2> QED
    BY <2>4, <2>5 DEF OwnedInv
<1>4. ASSUME NEW w \in Workers, WorkerStep(w)
      PROVE  OwnedInv'
  <2>1. CASE Spawn(w)
    <3>1. job[w] \in Jobs /\ job' = job /\ fifo' = fifo
          /\ phase' = [phase EXCEPT ![job[w]] = "proving"]
      BY <2>1, NoProverYet DEF Spawn, Goto, SetPhase, lines
    <3> QED
      BY <3>1 DEF OwnedInv, Held, Holds, IInv, TypeOK, Running
  <2>2. CASE PollCancel(w) \/ PollDeadline(w) \/ GraceOver(w)
    BY <1>1, <2>2 DEF PollCancel, PollDeadline, GraceOver, Goto, records, lines, tasks
  <2>3. CASE BuildDone(w)
    <3>1. CASE \E p \in {"failed", "cancelled"}, v \in {"invalid", "error"} : EndJob(w, p, v)
      BY <1>2, <2>3, <3>1 DEF BuildDone, TerminalPhases
    <3>2. CASE Goto(w, "spawning") /\ UNCHANGED <<phase, verdict, ended>>
      BY <1>1, <2>3, <3>2 DEF BuildDone, Goto, lines
    <3> QED
      BY <2>3, <3>1, <3>2 DEF BuildDone
  <2>4. CASE SpawnFails(w) \/ CancelDone(w) \/ FinishRaises(w)
    BY <1>2, <2>4 DEF SpawnFails, CancelDone, FinishRaises, TerminalPhases
  <2>5. CASE Finish(w)
    <3>1. PICK timedOut, rcZero, sv \in BOOLEAN :
            LET o == Outcome(job[w], timedOut, rcZero, sv) IN EndJob(w, o[1], o[2])
      BY <2>5 DEF Finish
    <3>2. cancelReq[job[w]] \in BOOLEAN
      BY <2>5, NoJobAssumption DEF Finish, IInv, TypeOK, TaskInv
    <3>3. \E p \in TerminalPhases, v \in Verdicts : EndJob(w, p, v)
      BY <3>1, <3>2 DEF Outcome, TerminalPhases, Verdicts
    <3> QED
      BY <1>2, <2>5, <3>3 DEF Finish
  <2> QED
    BY <1>3, <1>4, <2>1, <2>2, <2>3, <2>4, <2>5 DEF WorkerStep
<1>5. ASSUME NEW j \in Jobs, HttpStep(j)
      PROVE  OwnedInv'
  <2>1. CASE Submit(j)
    <3>1. /\ fifo \in Seq(Jobs) /\ fifo' = Append(fifo, j) /\ job' = job
          /\ phase' = [phase EXCEPT ![j] = "queued"]
      BY <2>1 DEF Submit, tasks, IInv, TypeOK
    <3>2. /\ \A i \in DOMAIN fifo : i \in DOMAIN fifo' /\ fifo'[i] = fifo[i]
          /\ Len(fifo) + 1 \in DOMAIN fifo' /\ fifo'[Len(fifo) + 1] = j
      BY <3>1
    <3> QED
      BY <3>1, <3>2 DEF OwnedInv, Held, Holds, IInv, TypeOK, Running
  <2>2. CASE SubmitRefused(j)
    BY <2>2 DEF SubmitRefused, SetPhase, OwnedInv, Held, Holds, IInv, TypeOK, Running, lines, tasks
  <2>3. CASE Cancel(j)
    <3>1. /\ fifo' = fifo /\ job' = job
          /\ phase' = phase \/ phase' = [phase EXCEPT ![j] = "cancelled"]
      BY <2>3 DEF Cancel, SetPhase, tasks
    <3> QED
      BY <3>1 DEF OwnedInv, Held, Holds, IInv, TypeOK, Running
  <2>4. CASE HttpKillReturns(j) \/ HttpGraceOver(j)
    BY <1>1, <2>4 DEF HttpKillReturns, HttpGraceOver, records, lines, tasks
  <2> QED
    BY <1>5, <2>1, <2>2, <2>3, <2>4 DEF HttpStep
<1>6. CASE Janitor
  <2>1. /\ \A j \in Jobs : phase'[j] # "none" => phase'[j] = phase[j]
        /\ UNCHANGED <<fifo, job>>
    BY <1>6 DEF Janitor, Prune, lines, tasks
  <2> QED
    BY <2>1 DEF OwnedInv, Held, Holds, Running
<1>7. CASE \E j \in Jobs : ProverStep(j)
  BY <1>1, <1>7 DEF ProverStep, LeaderExits, KidsExit, ProverVerifies, ProverWrites, records,
                    lines, tasks
<1>8. CASE UNCHANGED vars
  BY <1>1, <1>8 DEF vars, records, lines, tasks
<1> QED
  BY <1>4, <1>5, <1>6, <1>7, <1>8 DEF Next

(***************************************************************************)
(* Every active job has exactly one owner, its slot in the queue or its    *)
(* worker, and no other job has any.                                       *)
(***************************************************************************)
THEOREM AlwaysOneOwner == Spec => []OneOwner
<1>1. Init => OwnedInv
  BY DEF Init, OwnedInv, Running
<1>2. IInv /\ OwnedInv => OneOwner
  <2> SUFFICES ASSUME IInv, OwnedInv, NEW j \in Jobs
               PROVE  /\ Slots(j) <= 1
                      /\ phase[j] = "queued" => Slots(j) = 1
                      /\ Owners(j) = IF IsActive(j) /\ phase[j] # "queued" THEN 1 ELSE 0
    BY DEF OneOwner
  <2>1. CASE \E i \in DOMAIN fifo : fifo[i] = j
    <3>1. PICK i \in DOMAIN fifo : fifo[i] = j
      BY <2>1
    <3>2. {k \in DOMAIN fifo : fifo[k] = j} = {i}
      BY <3>1 DEF IInv, FifoInv
    <3>3. Slots(j) = 1
      BY <3>2, FS_Singleton DEF Slots
    <3> QED
      <4>1. \A w \in Workers : ~Holds(w, j)
        <5>1. phase[j] \notin Running
          BY <3>1 DEF IInv, FifoInv
        <5> QED
          BY <5>1, NoJobAssumption DEF IInv, TypeOK, TaskInv, Holds, Suspended, Attended, Running
      <4>2. Owners(j) = 0
        <5>1. {w \in Workers : Holds(w, j)} = {}
          BY <4>1
        <5> QED
          BY <5>1, FS_EmptySet DEF Owners
      <4>3. ~(IsActive(j) /\ phase[j] # "queued")
        BY <3>1 DEF IInv, FifoInv, IsActive, ActivePhases, Running
      <4> QED
        BY <3>3, <4>2, <4>3
  <2>2. CASE ~ \E i \in DOMAIN fifo : fifo[i] = j
    <3>1. Slots(j) = 0 /\ phase[j] # "queued"
      <4>1. {k \in DOMAIN fifo : fifo[k] = j} = {}
        BY <2>2
      <4> QED
        BY <2>2, <4>1, FS_EmptySet DEF Slots, OwnedInv
    <3>2. CASE Held(j)
      <4>1. PICK w \in Workers : job[w] = j
        BY <3>2 DEF Held, Holds
      <4>2. {u \in Workers : Holds(u, j)} = {w}
        BY <4>1, NoJobAssumption DEF IInv, TaskInv, Holds
      <4>3. phase[j] \in Running
        BY <4>1, NoJobAssumption DEF IInv, TypeOK, TaskInv, Suspended, Attended, Running
      <4>4. Owners(j) = 1
        BY <4>2, FS_Singleton DEF Owners
      <4> QED
        BY <3>1, <4>3, <4>4 DEF IsActive, ActivePhases, Running
    <3>3. CASE ~Held(j)
      <4>1. {u \in Workers : Holds(u, j)} = {}
        BY <3>3 DEF Held
      <4>2. ~IsActive(j)
        BY <3>1, <3>3 DEF OwnedInv, IsActive, ActivePhases, Running
      <4> QED
        BY <3>1, <4>1, <4>2, FS_EmptySet DEF Owners
    <3> QED
      BY <3>2, <3>3
  <2> QED
    BY <2>1, <2>2
<1> QED
  BY <1>1, <1>2, OwnedStep, Invariance, PTL DEF Spec

-----------------------------------------------------------------------------
(***************************************************************************)
(* The store's bound.  Prune counts all records but drops ended ones: that *)
(* this is enough needs every ended record to be listed in ended, once.    *)
(***************************************************************************)
EndedAll == \A j \in Jobs : phase[j] \in TerminalPhases => j \in ToSet(ended)

(* Every step keeps the list of the ended records complete. *)
LEMMA EndedAllStep == IInv /\ EndedAll /\ [Next]_vars => EndedAll'
<1> SUFFICES ASSUME IInv, EndedAll, [Next]_vars PROVE EndedAll'
  OBVIOUS
<1>1. ASSUME UNCHANGED <<phase, ended>>
      PROVE  EndedAll'
  BY <1>1 DEF EndedAll
<1>2. ASSUME NEW j \in Jobs, NEW p \in ActivePhases \cup TerminalPhases, NEW v, SetPhase(j, p, v)
      PROVE  EndedAll'
  <2>1. ToSet(ended) \subseteq ToSet(ended') /\ (p \in TerminalPhases => j \in ToSet(ended'))
    <3>1. CASE p \in TerminalPhases /\ j \notin ToSet(ended)
      <4>1. ended \in Seq(Jobs) /\ ended' = Append(ended, j)
        BY <1>2, <3>1 DEF SetPhase, IInv, TypeOK
      <4>2. /\ \A i \in DOMAIN ended : i \in DOMAIN ended' /\ ended'[i] = ended[i]
            /\ Len(ended) + 1 \in DOMAIN ended' /\ ended'[Len(ended) + 1] = j
        BY <4>1
      <4> QED
        BY <4>2 DEF ToSet
    <3>2. CASE ~(p \in TerminalPhases /\ j \notin ToSet(ended))
      BY <1>2, <3>2 DEF SetPhase
    <3> QED
      BY <3>1, <3>2
  <2>2. \A i \in Jobs : phase'[i] = IF i = j THEN p ELSE phase[i]
    BY <1>2 DEF SetPhase, IInv, TypeOK
  <2> QED
    BY <2>1, <2>2 DEF EndedAll
<1>3. ASSUME NEW w \in Workers, pc[w] # "get" PROVE job[w] \in Jobs
  BY <1>3, NoJobAssumption DEF IInv, TypeOK, TaskInv
<1>4. ASSUME NEW w \in Workers, WorkerStep(w) PROVE EndedAll'
  <2>1. CASE Dequeue(w)
    <3>1. Head(fifo) \in Jobs
      BY <2>1 DEF Dequeue, IInv, TypeOK
    <3> QED
      BY <1>1, <1>2, <2>1, <3>1 DEF Dequeue, ActivePhases, TerminalPhases
  <2>2. CASE \E p \in TerminalPhases : \E v : EndJob(w, p, v) /\ pc[w] # "get"
    BY <1>2, <1>3, <2>2 DEF EndJob
  <2>3. CASE Spawn(w)
    BY <1>2, <1>3, <2>3 DEF Spawn, ActivePhases
  <2>4. CASE Finish(w)
    <3>1. PICK timedOut, rcZero, sv \in BOOLEAN :
            LET o == Outcome(job[w], timedOut, rcZero, sv) IN EndJob(w, o[1], o[2])
      BY <2>4 DEF Finish
    <3>2. job[w] \in Jobs /\ cancelReq[job[w]] \in BOOLEAN
      BY <1>3, <2>4 DEF Finish, IInv, TypeOK
    <3>3. \E p \in TerminalPhases : \E v : EndJob(w, p, v)
      BY <3>1, <3>2 DEF Outcome, TerminalPhases
    <3> QED
      BY <2>2, <2>4, <3>3 DEF Finish
  <2>5. CASE UNCHANGED <<phase, ended>>
    BY <1>1, <2>5
  <2> QED
    BY <1>4, <2>1, <2>2, <2>3, <2>4, <2>5
       DEF WorkerStep, BuildDone, SpawnFails, PollCancel, PollDeadline, GraceOver, CancelDone,
           FinishRaises, records, TerminalPhases
<1>5. ASSUME NEW j \in Jobs, HttpStep(j) PROVE EndedAll'
  <2>1. CASE Submit(j)
    BY <2>1 DEF Submit, EndedAll, IInv, TypeOK, TerminalPhases
  <2>2. CASE SubmitRefused(j) \/ Cancel(j)
    BY <1>1, <1>2, <2>2 DEF SubmitRefused, Cancel, TerminalPhases
  <2>3. CASE HttpKillReturns(j) \/ HttpGraceOver(j)
    BY <1>1, <2>3 DEF HttpKillReturns, HttpGraceOver, records
  <2> QED
    BY <1>5, <2>1, <2>2, <2>3 DEF HttpStep
<1>6. CASE Janitor
  <2>1. PICK dropped \in 1..Len(ended) :
          /\ ended' = SubSeq(ended, dropped + 1, Len(ended))
          /\ phase' = [j \in Jobs |-> IF j \in {ended[i] : i \in 1..dropped} THEN "none" ELSE phase[j]]
    BY <1>6, PruneDrops DEF Janitor
  <2>2. ended \in Seq(Jobs) /\ Len(ended) \in Nat
    BY DEF IInv, TypeOK
  <2>3. \A i \in dropped + 1..Len(ended) : i - dropped \in DOMAIN ended' /\ ended'[i - dropped] = ended[i]
    BY <2>1, <2>2
  <2>4. ASSUME NEW j \in Jobs, phase'[j] \in TerminalPhases PROVE j \in ToSet(ended')
    <3>1. phase[j] \in TerminalPhases /\ j \notin {ended[i] : i \in 1..dropped}
      BY <2>1, <2>4 DEF TerminalPhases
    <3>2. PICK i \in 1..Len(ended) : ended[i] = j
      BY <2>2, <3>1 DEF EndedAll, ToSet
    <3>3. i \in dropped + 1..Len(ended)
      BY <2>2, <3>1, <3>2
    <3> QED
      BY <2>3, <3>2, <3>3 DEF ToSet
  <2> QED
    BY <2>4 DEF EndedAll
<1>7. CASE \E j \in Jobs : ProverStep(j)
  BY <1>1, <1>7 DEF ProverStep, LeaderExits, KidsExit, ProverVerifies, ProverWrites, records
<1>8. CASE UNCHANGED vars
  BY <1>1, <1>8 DEF vars, records
<1> QED
  BY <1>4, <1>5, <1>6, <1>7, <1>8 DEF Next

(* What a prune leaves: the bound, or only what it may not drop. *)
LEMMA PruneBounds ==
  ASSUME IInv, EndedAll, NEW aged \in 0..Len(ended), Prune(aged)
  PROVE  /\ Cardinality(Stored') <= MaxKept \/ \A j \in Stored' : IsActive(j)'
         /\ \A i, k \in DOMAIN ended :
              i < k /\ phase'[ended[k]] = "none" => phase'[ended[i]] = "none"
<1> DEFINE d == IF aged + Overflow(aged) < Len(ended) THEN aged + Overflow(aged) ELSE Len(ended)
           gone == {ended[i] : i \in 1..d}
<1>1. /\ ended \in Seq(Jobs) /\ Len(ended) \in Nat /\ DOMAIN ended = 1..Len(ended)
      /\ d > 0
      /\ phase' = [j \in Jobs |-> IF j \in gone THEN "none" ELSE phase[j]]
  BY DEF Prune, IInv, TypeOK
<1>2. Stored \in SUBSET Jobs /\ IsFiniteSet(Stored) /\ Cardinality(Stored) \in Nat
  BY JobsAssumption, FS_Subset, FS_CardinalityType DEF Stored
<1>3. Overflow(aged) \in Nat /\ Cardinality(Stored) - aged - Overflow(aged) <= MaxKept
  <2> DEFINE kept == Cardinality(Stored) - aged
  <2>1. kept \in Int /\ MaxKept \in Nat /\ Overflow(aged) = IF kept > MaxKept THEN kept - MaxKept ELSE 0
    BY <1>1, <1>2, MaxKeptAssumption DEF Overflow
  <2> HIDE DEF kept
  <2>2. Overflow(aged) \in Nat /\ kept - Overflow(aged) <= MaxKept
    BY <2>1
  <2> QED
    BY <2>2 DEF kept
<1>4. d \in 1..Len(ended)
  BY <1>1, <1>3
<1> HIDE DEF d
<1>5. gone \in SUBSET Stored /\ \A i \in 1..Len(ended) : ended[i] \in gone => i <= d
  BY <1>1, <1>4 DEF IInv, EndedInv, Stored, TerminalPhases
<1>6. Stored' = Stored \ gone
  BY <1>1 DEF Stored
<1>7. ASSUME d = aged + Overflow(aged) PROVE Cardinality(Stored') <= MaxKept
  <2>1. Cardinality(gone) = d
    <3> DEFINE f == [i \in 1..d |-> ended[i]]
    <3>1. f \in Bijection(1..d, gone)
      <4>1. f \in [1..d -> gone] /\ \A g \in gone : \E i \in 1..d : f[i] = g
        OBVIOUS
      <4>2. \A i, k \in 1..d : f[i] = f[k] => i = k
        BY <1>1, <1>4 DEF IInv, EndedInv
      <4> QED
        BY <4>1, <4>2 DEF Bijection, Injection, Surjection, IsInjective
    <3> QED
      <4>1. IsFiniteSet(1..d) /\ Cardinality(1..d) = d
        BY <1>4, FS_Interval
      <4> HIDE DEF gone
      <4> QED
        BY <3>1, <4>1, FS_Bijection DEF ExistsBijection
  <2>2. Cardinality(Stored \ gone) = Cardinality(Stored) - Cardinality(gone)
    <3>1. gone = Stored \cap gone
      BY <1>5
    <3> QED
      BY <1>2, <3>1, FS_Difference
  <2>3. Cardinality(Stored') <= MaxKept
    <3>1. Cardinality(Stored') = Cardinality(Stored) - d
      BY <1>6, <2>1, <2>2
    <3>2. aged \in Nat /\ Cardinality(Stored) - d = Cardinality(Stored) - aged - Overflow(aged)
      BY <1>1, <1>2, <1>3, <1>7
    <3> QED
      BY <1>3, <3>1, <3>2
  <2> QED
    BY <2>3
<1>8. ASSUME d = Len(ended) PROVE \A j \in Stored' : IsActive(j)'
  <2>1. \A j \in Stored' : phase[j] \notin TerminalPhases /\ phase'[j] = phase[j]
    <3> SUFFICES ASSUME NEW j \in Stored' PROVE phase[j] \notin TerminalPhases /\ phase'[j] = phase[j]
      OBVIOUS
    <3>1. j \in Jobs /\ j \notin gone
      BY <1>2, <1>6
    <3>2. j \notin ToSet(ended)
      BY <1>1, <1>8, <3>1 DEF ToSet
    <3> QED
      BY <1>1, <3>1, <3>2 DEF EndedAll
  <2>2. \A j \in Stored' : j \in Jobs /\ phase[j] # "none"
    BY <1>6 DEF Stored
  <2>3. \A j \in Stored' : IsActive(j)'
    BY <2>1, <2>2 DEF IsActive, IInv, TypeOK
  <2> QED
    BY <2>3
<1>9. ASSUME NEW i \in DOMAIN ended, NEW k \in DOMAIN ended, i < k, phase'[ended[k]] = "none"
      PROVE  phase'[ended[i]] = "none"
  <2>1. ended[i] \in Jobs /\ ended[k] \in Jobs /\ phase[ended[k]] # "none"
    <3>1. ended[i] \in Jobs /\ ended[k] \in Jobs
      BY <1>1
    <3>2. phase[ended[k]] \in TerminalPhases
      BY DEF IInv, EndedInv
    <3> QED
      BY <3>1, <3>2 DEF TerminalPhases
  <2>2. ended[k] \in gone
    BY <1>1, <1>9, <2>1
  <2>3. i \in 1..d
    BY <1>1, <1>4, <1>5, <1>9, <2>2
  <2>4. ended[i] \in gone
    BY <2>3
  <2> QED
    BY <1>1, <2>1, <2>4
<1>10. d = aged + Overflow(aged) \/ d = Len(ended)
  BY DEF d
<1> QED
  BY <1>7, <1>8, <1>9, <1>10

(***************************************************************************)
(* A prune (store.prune, run by the janitor) leaves no more records than   *)
(* the bound unless all it leaves are active, and drops the oldest ended   *)
(* ones first, for any bound, retention and number of jobs.                *)
(***************************************************************************)
THEOREM StoreAlwaysBounded == Spec => StoreBounded
<1> DEFINE Bounded == /\ Cardinality(Stored') <= MaxKept \/ \A j \in Stored' : IsActive(j)'
                      /\ \A i, k \in DOMAIN ended :
                           i < k /\ phase'[ended[k]] = "none" => phase'[ended[i]] = "none"
<1>1. Init => EndedAll
  BY DEF Init, EndedAll, TerminalPhases
<1>2. ASSUME IInv, EndedAll, Next, ~(Stored \subseteq Stored') PROVE Bounded
  <2>1. PICK i \in Jobs : phase[i] # "none" /\ phase'[i] = "none"
    BY <1>2 DEF Stored
  <2>2. ASSUME NEW j \in Jobs, NEW p, NEW v, SetPhase(j, p, v), p # "none" PROVE FALSE
    BY <1>2, <2>1, <2>2 DEF SetPhase, IInv, TypeOK
  <2>3. phase' # phase
    BY <2>1
  <2>4. Janitor
    <3>1. ASSUME NEW w \in Workers, WorkerStep(w) PROVE FALSE
      <4>1. pc[w] # "get" => job[w] \in Jobs
        BY <1>2, NoJobAssumption DEF IInv, TypeOK, TaskInv
      <4>2. CASE Dequeue(w)
        <5>1. Head(fifo) \in Jobs
          BY <1>2, <4>2 DEF Dequeue, IInv, TypeOK
        <5> QED
          BY <2>2, <2>3, <4>2, <5>1 DEF Dequeue
      <4>3. ASSUME NEW p, NEW v, p # "none", EndJob(w, p, v), pc[w] # "get" PROVE FALSE
        BY <2>2, <4>1, <4>3 DEF EndJob
      <4>4. CASE Spawn(w)
        BY <2>2, <4>1, <4>4 DEF Spawn
      <4>5. CASE Finish(w)
        <5>1. PICK timedOut, rcZero, sv \in BOOLEAN :
                LET o == Outcome(job[w], timedOut, rcZero, sv) IN EndJob(w, o[1], o[2])
          BY <4>5 DEF Finish
        <5>2. cancelReq[job[w]] \in BOOLEAN
          BY <1>2, <4>1, <4>5 DEF Finish, IInv, TypeOK
        <5>3. \E p \in TerminalPhases : \E v : EndJob(w, p, v)
          BY <5>1, <5>2 DEF Outcome, TerminalPhases
        <5> QED
          BY <4>3, <4>5, <5>3 DEF Finish, TerminalPhases
      <4> QED
        BY <2>3, <3>1, <4>2, <4>3, <4>4, <4>5
           DEF WorkerStep, BuildDone, SpawnFails, PollCancel, PollDeadline, GraceOver, CancelDone,
               FinishRaises, records
    <3>2. ASSUME NEW j \in Jobs, HttpStep(j) PROVE FALSE
      <4>1. CASE Submit(j)
        BY <1>2, <2>1, <4>1 DEF Submit, IInv, TypeOK
      <4>2. CASE SubmitRefused(j) \/ Cancel(j)
        BY <2>2, <2>3, <4>2 DEF SubmitRefused, Cancel
      <4>3. CASE HttpKillReturns(j) \/ HttpGraceOver(j)
        BY <2>3, <4>3 DEF HttpKillReturns, HttpGraceOver, records
      <4> QED
        BY <3>2, <4>1, <4>2, <4>3 DEF HttpStep
    <3>3. ASSUME NEW j \in Jobs, ProverStep(j) PROVE FALSE
      BY <2>3, <3>3 DEF ProverStep, LeaderExits, KidsExit, ProverVerifies, ProverWrites, records
    <3> QED
      BY <1>2, <3>1, <3>2, <3>3 DEF Next
  <2> QED
    BY <1>2, <2>4, PruneBounds DEF Janitor
<1>3. IInv /\ EndedAll /\ [Next]_vars => [~(Stored \subseteq Stored') => Bounded]_vars
  BY <1>2
<1> QED
  BY <1>1, <1>3, EndedAllStep, Invariance, PTL DEF Spec, StoreBounded

-----------------------------------------------------------------------------
(***************************************************************************)
(* The refinement of JobService                                            *)
(***************************************************************************)
Once(s) == \A a, b \in DOMAIN s : s[a] = s[b] => a = b

(* What two lists have in common stands in the same order in both. *)
InOrder(s, t) ==
  \A a, b \in DOMAIN s : \A i, k \in DOMAIN t : a < b /\ t[i] = s[a] /\ t[k] = s[b] => i < k

LineInv ==
  /\ Once(pending)
  /\ \A j \in Jobs : j \in ToSet(pending) <=> phase[j] = "queued"
  /\ InOrder(pending, fifo)

(* An active job has no verdict yet, an ended one tells how it ended. *)
RecordInv ==
  /\ \A j \in Jobs : phase[j] \notin TerminalPhases => verdict[j] = "none"
  /\ \A j \in Jobs : phase[j] \in {"succeeded", "failed"} => verdict[j] # "none"
  /\ \A w \in Workers : pc[w] = "cancelKill" => cancelReq[job[w]]

RInv == IInv /\ OwnedInv /\ LineInv /\ RecordInv

-----------------------------------------------------------------------------
(* list.remove on a list without repetitions *)
LEMMA RemoveAtProperties ==
  ASSUME NEW S, NEW s \in Seq(S), NEW i \in DOMAIN s
  PROVE  /\ RemoveAt(s, i) \in Seq(S)
         /\ Len(RemoveAt(s, i)) = Len(s) - 1
         /\ \A a \in 1..Len(s) - 1 : RemoveAt(s, i)[a] = IF a < i THEN s[a] ELSE s[a + 1]
<1> DEFINE l == SubSeq(s, 1, i - 1)
           r == SubSeq(s, i + 1, Len(s))
<1>1. i \in 1..Len(s) /\ Len(s) \in Nat /\ \A a \in 1..Len(s) : s[a] \in S
  BY LenProperties, ElementOfSeq
<1>2. l \in Seq(S) /\ Len(l) = i - 1 /\ \A a \in 1..i - 1 : l[a] = s[a]
  <2>1. i - 1 \in Int /\ 1 \in Int /\ \A a \in 1..i - 1 : s[a] \in S
    BY <1>1
  <2>2. /\ l \in Seq(S) /\ Len(l) = (IF 1 <= i - 1 THEN i - 1 - 1 + 1 ELSE 0)
        /\ \A a \in 1..i - 1 - 1 + 1 : l[a] = s[1 + a - 1]
    <3> HIDE DEF l
    <3> QED
      BY <2>1, SubSeqProperties DEF l
  <2> HIDE DEF l
  <2> QED
    BY <1>1, <2>2
<1>3. r \in Seq(S) /\ Len(r) = Len(s) - i /\ \A a \in 1..Len(s) - i : r[a] = s[a + i]
  <2>1. i + 1 \in Int /\ Len(s) \in Int /\ \A a \in i + 1..Len(s) : s[a] \in S
    BY <1>1
  <2>2. /\ r \in Seq(S) /\ Len(r) = (IF i + 1 <= Len(s) THEN Len(s) - (i + 1) + 1 ELSE 0)
        /\ \A a \in 1..Len(s) - (i + 1) + 1 : r[a] = s[i + 1 + a - 1]
    BY <2>1, SubSeqProperties
  <2> HIDE DEF r
  <2> QED
    BY <1>1, <2>2
<1> HIDE DEF l, r
<1>4. /\ l \o r \in Seq(S) /\ Len(l \o r) = Len(s) - 1
      /\ \A a \in 1..Len(s) - 1 : (l \o r)[a] = IF a <= Len(l) THEN l[a] ELSE r[a - Len(l)]
  <2>1. /\ l \o r \in Seq(S) /\ Len(l \o r) = Len(l) + Len(r)
        /\ \A a \in 1..Len(l) + Len(r) : (l \o r)[a] = IF a <= Len(l) THEN l[a] ELSE r[a - Len(l)]
    BY <1>2, <1>3, ConcatProperties
  <2>2. Len(l) + Len(r) = Len(s) - 1
    BY <1>1, <1>2, <1>3
  <2> QED
    BY <2>1, <2>2
<1>5. ASSUME NEW a \in 1..Len(s) - 1 PROVE (l \o r)[a] = IF a < i THEN s[a] ELSE s[a + 1]
  <2>1. CASE a < i
    <3>1. a \in 1..i - 1 /\ a <= Len(l)
      BY <1>1, <1>2, <2>1
    <3> QED
      BY <1>2, <1>4, <2>1, <3>1
  <2>2. CASE ~(a < i)
    <3>1. a - Len(l) \in 1..Len(s) - i /\ ~(a <= Len(l)) /\ (a - Len(l)) + i = a + 1
      BY <1>1, <1>2, <2>2
    <3> QED
      BY <1>3, <1>4, <2>2, <3>1
  <2> QED
    BY <2>1, <2>2
<1> QED
  BY <1>4, <1>5 DEF RemoveAt, l, r

LEMMA WithoutIs ==
  ASSUME NEW S, NEW s \in Seq(S), Once(s), NEW e
  PROVE  /\ e \notin ToSet(s) => Without(s, e) = s
         /\ \A i \in DOMAIN s : s[i] = e => Without(s, e) = RemoveAt(s, i)
<1>1. e \notin ToSet(s) => Without(s, e) = s
  BY DEF Without, ToSet
<1>2. ASSUME NEW i \in DOMAIN s, s[i] = e PROVE Without(s, e) = RemoveAt(s, i)
  <2>1. (CHOOSE k \in DOMAIN s : s[k] = e) = i
    BY <1>2 DEF Once
  <2> QED
    BY <1>2, <2>1 DEF Without
<1> QED
  BY <1>1, <1>2

LEMMA WithoutKeeps ==
  ASSUME NEW S, NEW s \in Seq(S), Once(s), NEW e
  PROVE  /\ Once(Without(s, e))
         /\ ToSet(Without(s, e)) = ToSet(s) \ {e}
         /\ \A t : InOrder(s, t) => InOrder(Without(s, e), t)
<1> DEFINE u == Without(s, e)
<1>1. CASE e \notin ToSet(s)
  BY <1>1, WithoutIs
<1>2. CASE e \in ToSet(s)
  <2>1. PICK i \in DOMAIN s : s[i] = e
    BY <1>2 DEF ToSet
  <2>2. /\ u \in Seq(S) /\ Len(u) = Len(s) - 1
        /\ \A a \in 1..Len(s) - 1 : u[a] = IF a < i THEN s[a] ELSE s[a + 1]
    BY <2>1, WithoutIs, RemoveAtProperties
  <2>3. i \in 1..Len(s) /\ Len(s) \in Nat /\ DOMAIN s = 1..Len(s) /\ DOMAIN u = 1..Len(s) - 1
    BY <2>1, <2>2, LenProperties
  <2> HIDE DEF u
  <2> DEFINE up(a) == IF a < i THEN a ELSE a + 1
  <2>4. \A a \in DOMAIN u : up(a) \in DOMAIN s /\ up(a) # i /\ u[a] = s[up(a)]
    BY <2>2, <2>3
  <2>5. \A a, b \in DOMAIN u : (up(a) = up(b) => a = b) /\ (a < b => up(a) < up(b))
    BY <2>3
  <2>6. \A c \in DOMAIN s : c # i => \E a \in DOMAIN u : up(a) = c
    <3> SUFFICES ASSUME NEW c \in DOMAIN s, c # i PROVE \E a \in DOMAIN u : up(a) = c
      OBVIOUS
    <3>1. CASE c < i
      BY <2>3, <3>1
    <3>2. CASE c > i
      <4>1. c - 1 \in DOMAIN u /\ up(c - 1) = c
        BY <2>3, <3>2
      <4> QED
        BY <4>1
    <3> QED
      BY <2>3, <3>1, <3>2
  <2> HIDE DEF up
  <2>7. Once(u)
    BY <2>4, <2>5 DEF Once
  <2>8. ToSet(u) = ToSet(s) \ {e}
    <3>1. ASSUME NEW x \in ToSet(u) PROVE x \in ToSet(s) \ {e}
      BY <2>1, <2>4, <3>1 DEF ToSet, Once
    <3>2. ASSUME NEW x \in ToSet(s) \ {e} PROVE x \in ToSet(u)
      <4>1. PICK c \in DOMAIN s : s[c] = x
        BY <3>2 DEF ToSet
      <4>2. PICK a \in DOMAIN u : up(a) = c
        BY <2>1, <2>6, <3>2, <4>1
      <4> QED
        BY <2>4, <4>1, <4>2 DEF ToSet
    <3> QED
      BY <3>1, <3>2
  <2>9. ASSUME NEW t, InOrder(s, t) PROVE InOrder(u, t)
    BY <2>4, <2>5, <2>9 DEF InOrder
  <2> QED
    BY <2>7, <2>8, <2>9 DEF u
<1> QED
  BY <1>1, <1>2
-----------------------------------------------------------------------------
(* What the steps do to the state the service is about. *)

(* A worker's turn with the head of the asyncio.Queue *)
LEMMA DequeueDoes ==
  ASSUME IInv, NEW w \in Workers, Dequeue(w)
  PROVE  \E j \in Jobs :
           /\ fifo # <<>> /\ j = Head(fifo) /\ job[w] = NoJob
           /\ fifo' = Tail(fifo) /\ pending' = Without(pending, j) /\ UNCHANGED cancelReq
           /\ \/ phase[j] # "queued" /\ UNCHANGED <<phase, verdict, tasks>>
              \/ /\ phase[j] = "queued" /\ SetPhase(j, "checking", "none")
                 /\ pc' = [pc EXCEPT ![w] = "building"] /\ job' = [job EXCEPT ![w] = j]
              \/ phase[j] = "queued" /\ SetPhase(j, "failed", "error") /\ UNCHANGED tasks
<1> DEFINE j == Head(fifo)
<1>1. /\ fifo \in Seq(Jobs) /\ fifo # <<>> /\ 1 \in DOMAIN fifo /\ j = fifo[1]
      /\ j \in Jobs /\ fifo' = Tail(fifo) /\ pending' = Without(pending, j) /\ UNCHANGED cancelReq
      /\ job[w] = NoJob
  BY DEF Dequeue, IInv, TypeOK, TaskInv
<1>2. phase[j] \notin Running
  BY <1>1 DEF IInv, FifoInv
<1>3. cancelReq[j] => phase[j] # "queued"
  BY <1>1 DEF IInv, CancelInv
<1>4. IsActive(j) <=> phase[j] = "queued"
  BY <1>2 DEF IsActive, ActivePhases, Running
<1>5. CASE Skips(j)
  BY <1>1, <1>3, <1>4, <1>5 DEF Dequeue, Skips
<1>6. CASE ~Skips(j)
  BY <1>1, <1>4, <1>6 DEF Dequeue, Skips
<1> QED
  BY <1>5, <1>6

(* How a worker ends the job it has. *)
Ending(w, p, v) ==
  /\ job[w] \in Jobs
  /\ EndJob(w, p, v) /\ UNCHANGED <<cancelReq, lines>>
  /\ cancelReq[job[w]] => p = "cancelled" \/ (p = "failed" /\ v \in {"invalid", "error"})
  /\ p = "cancelled" => cancelReq[job[w]]

(* How it goes on with it. *)
GoesOn(w) ==
  /\ UNCHANGED <<verdict, cancelReq, lines, job>>
  /\ \/ UNCHANGED phase
     \/ phase[job[w]] = "checking" /\ phase' = [phase EXCEPT ![job[w]] = "proving"]
  /\ \A u \in Workers : pc'[u] = "cancelKill" => pc[u] = "cancelKill" \/ cancelReq[job[u]]

LEMMA WorkerDoes ==
  ASSUME RInv, NEW w \in Workers, WorkerStep(w)
  PROVE  \/ Dequeue(w)
         \/ \E p \in TerminalPhases, v \in Verdicts \ {"none"} : Ending(w, p, v)
         \/ GoesOn(w)
<1>1. ASSUME pc[w] # "get" PROVE job[w] \in Jobs /\ cancelReq[job[w]] \in BOOLEAN
  BY <1>1, NoJobAssumption DEF RInv, IInv, TypeOK, TaskInv
<1>2. CASE BuildDone(w)
  <2>1. CASE EndJob(w, "failed", "invalid") \/ EndJob(w, "failed", "error")
    BY <1>1, <1>2, <2>1 DEF BuildDone, Ending, TerminalPhases, Verdicts
  <2>2. CASE cancelReq[job[w]] /\ EndJob(w, "cancelled", "error")
    BY <1>1, <1>2, <2>2 DEF BuildDone, Ending, TerminalPhases, Verdicts
  <2>3. CASE Goto(w, "spawning") /\ UNCHANGED <<phase, verdict, ended>>
    BY <1>2, <2>3 DEF BuildDone, Goto, GoesOn, RInv, IInv, TypeOK
  <2> QED
    BY <1>2, <2>1, <2>2, <2>3 DEF BuildDone
<1>3. CASE Spawn(w)
  <2>1. job[w] \in Jobs /\ phase[job[w]] = "checking"
    BY <1>3, NoProverYet DEF Spawn, RInv
  <2>2. verdict' = verdict
    BY <1>3, <2>1 DEF Spawn, SetPhase, RInv, IInv, TypeOK
  <2> QED
    BY <1>3, <2>1, <2>2 DEF Spawn, Goto, SetPhase, GoesOn, RInv, IInv, TypeOK
<1>4. CASE SpawnFails(w) \/ FinishRaises(w)
  BY <1>1, <1>4 DEF SpawnFails, FinishRaises, Ending, TerminalPhases, Verdicts
<1>5. CASE PollCancel(w) \/ PollDeadline(w) \/ GraceOver(w)
  BY <1>5 DEF PollCancel, PollDeadline, GraceOver, Goto, records, tasks, GoesOn, RInv, IInv, TypeOK
<1>6. CASE CancelDone(w)
  BY <1>1, <1>6 DEF CancelDone, Ending, TerminalPhases, Verdicts, RInv, RecordInv
<1>7. CASE Finish(w)
  <2>1. PICK timedOut, rcZero, sv \in BOOLEAN :
          LET o == Outcome(job[w], timedOut, rcZero, sv) IN EndJob(w, o[1], o[2])
    BY <1>7 DEF Finish
  <2>2. job[w] \in Jobs /\ cancelReq[job[w]] \in BOOLEAN /\ UNCHANGED <<cancelReq, lines>>
    BY <1>1, <1>7 DEF Finish
  <2>3. CASE cancelReq[job[w]]
    BY <2>1, <2>2, <2>3 DEF Outcome, Ending, TerminalPhases, Verdicts
  <2>4. CASE ~cancelReq[job[w]]
    <3>1. \E p \in {"timeout", "succeeded", "failed"}, v \in {"proved", "unproved"} : EndJob(w, p, v)
      BY <2>1, <2>4 DEF Outcome
    <3> QED
      BY <2>2, <2>4, <3>1 DEF Ending, TerminalPhases, Verdicts
  <2> QED
    BY <2>2, <2>3, <2>4
<1> QED
  BY <1>2, <1>3, <1>4, <1>5, <1>6, <1>7 DEF WorkerStep

(* The janitor drops ended records only. *)
LEMMA PruneDoes ==
  ASSUME IInv, Janitor
  PROVE  \E gone \in SUBSET Jobs :
           /\ \A j \in gone : phase[j] \in TerminalPhases
           /\ phase' = [j \in Jobs |-> IF j \in gone THEN "none" ELSE phase[j]]
           /\ verdict' = [j \in Jobs |-> IF j \in gone THEN "none" ELSE verdict[j]]
           /\ cancelReq' = [j \in Jobs |-> cancelReq[j] /\ j \notin gone]
           /\ UNCHANGED <<lines, tasks>>
<1>1. PICK aged \in 0..Len(ended) : Prune(aged)
  BY DEF Janitor
<1>2. PICK dropped \in 1..Len(ended) :
        /\ phase' = [j \in Jobs |-> IF j \in {ended[i] : i \in 1..dropped} THEN "none" ELSE phase[j]]
        /\ verdict' = [j \in Jobs |-> IF j \in {ended[i] : i \in 1..dropped} THEN "none" ELSE verdict[j]]
        /\ cancelReq' = [j \in Jobs |-> cancelReq[j] /\ j \notin {ended[i] : i \in 1..dropped}]
        /\ UNCHANGED <<lines, tasks>>
  BY <1>1, PruneDrops
<1> DEFINE gone == {ended[i] : i \in 1..dropped}
<1>3. gone \in SUBSET Jobs /\ \A j \in gone : phase[j] \in TerminalPhases
  BY DEF IInv, TypeOK, EndedInv
<1> QED
  BY <1>2, <1>3

(* A step of a handler, of a prover or nothing at all *)
Quiet == UNCHANGED <<phase, verdict, cancelReq, lines, job>> /\ UNCHANGED pc

LEMMA OtherwiseDoes ==
  ASSUME IInv, [Next]_vars
  PROVE  \/ \E w \in Workers : WorkerStep(w)
         \/ \E j \in Jobs : Submit(j) \/ SubmitRefused(j) \/ Cancel(j)
         \/ Janitor
         \/ Quiet
<1>1. CASE UNCHANGED vars
  BY <1>1 DEF vars, records, tasks, Quiet
<1>2. ASSUME NEW j \in Jobs, ProverStep(j) PROVE Quiet
  BY <1>2 DEF ProverStep, LeaderExits, KidsExit, ProverVerifies, ProverWrites, records, tasks, Quiet
<1>3. ASSUME NEW j \in Jobs, HttpKillReturns(j) \/ HttpGraceOver(j) PROVE Quiet
  BY <1>3 DEF HttpKillReturns, HttpGraceOver, records, tasks, Quiet
<1> QED
  BY <1>1, <1>2, <1>3 DEF Next, HttpStep

-----------------------------------------------------------------------------
(* _pending keeps being the startable part of the queue, in its order. *)
LEMMA LineStep == RInv /\ [Next]_vars => LineInv'
<1> SUFFICES ASSUME RInv, [Next]_vars PROVE LineInv'
  OBVIOUS
<1>1. ASSUME UNCHANGED lines, \A j \in Jobs : phase'[j] = "queued" <=> phase[j] = "queued"
      PROVE  LineInv'
  BY <1>1 DEF RInv, LineInv, lines
<1>2. ASSUME NEW w \in Workers, WorkerStep(w) PROVE LineInv'
  <2>1. CASE Dequeue(w)
    <3>1. PICK j \in Jobs :
            /\ fifo # <<>> /\ j = Head(fifo)
            /\ fifo' = Tail(fifo) /\ pending' = Without(pending, j)
            /\ \A i \in Jobs : phase'[i] = "queued" <=> phase[i] = "queued" /\ i # j
      <4>1. PICK j \in Jobs :
              /\ fifo # <<>> /\ j = Head(fifo)
              /\ fifo' = Tail(fifo) /\ pending' = Without(pending, j)
              /\ \/ phase[j] # "queued" /\ UNCHANGED <<phase, verdict, tasks>>
                 \/ phase[j] = "queued" /\ SetPhase(j, "checking", "none")
                 \/ phase[j] = "queued" /\ SetPhase(j, "failed", "error")
        BY <2>1, DequeueDoes DEF RInv
      <4>2. \A i \in Jobs : phase'[i] = "queued" <=> phase[i] = "queued" /\ i # j
        BY <4>1 DEF SetPhase, RInv, IInv, TypeOK
      <4> QED
        BY <4>1, <4>2
    <3>2. /\ pending \in Seq(Jobs) /\ Once(pending) /\ InOrder(pending, fifo)
          /\ \A i \in Jobs : i \in ToSet(pending) <=> phase[i] = "queued"
      BY DEF RInv, IInv, TypeOK, LineInv
    <3>3. /\ Once(pending') /\ ToSet(pending') = ToSet(pending) \ {j}
          /\ InOrder(pending', fifo)
      BY <3>1, <3>2, WithoutKeeps
    <3>4. \A i \in DOMAIN fifo' : i \in Nat /\ i + 1 \in DOMAIN fifo /\ fifo'[i] = fifo[i + 1]
      BY <3>1 DEF RInv, IInv, TypeOK
    <3>5. InOrder(pending', fifo')
      <4> SUFFICES ASSUME NEW a \in DOMAIN pending', NEW b \in DOMAIN pending',
                          NEW i \in DOMAIN fifo', NEW k \in DOMAIN fifo',
                          a < b, fifo'[i] = pending'[a], fifo'[k] = pending'[b]
                   PROVE  i < k
        BY DEF InOrder
      <4>1. i + 1 < k + 1
        BY <3>3, <3>4 DEF InOrder
      <4> QED
        BY <3>4, <4>1
    <3> QED
      BY <3>1, <3>2, <3>3, <3>5 DEF LineInv
  <2>2. ASSUME NEW p \in TerminalPhases, NEW v \in Verdicts \ {"none"}, Ending(w, p, v)
        PROVE  LineInv'
    <3>1. job[w] \in Jobs /\ UNCHANGED lines /\ phase' = [phase EXCEPT ![job[w]] = p]
      BY <2>2 DEF Ending, EndJob, SetPhase
    <3>2. phase[job[w]] # "queued"
      BY <3>1, NoJobAssumption DEF RInv, IInv, TypeOK, TaskInv, Suspended, Attended
    <3>3. \A j \in Jobs : phase'[j] = "queued" <=> phase[j] = "queued"
      BY <3>1, <3>2 DEF RInv, IInv, TypeOK, TerminalPhases
    <3> QED
      BY <1>1, <3>1, <3>3
  <2>3. CASE GoesOn(w)
    <3>1. \A j \in Jobs : phase'[j] = "queued" <=> phase[j] = "queued"
      BY <2>3 DEF GoesOn, RInv, IInv, TypeOK
    <3> QED
      BY <1>1, <2>3, <3>1 DEF GoesOn
  <2> QED
    BY <1>2, <2>1, <2>2, <2>3, WorkerDoes
<1>3. ASSUME NEW j \in Jobs, Submit(j) PROVE LineInv'
  <2>1. /\ fifo \in Seq(Jobs) /\ pending \in Seq(Jobs)
        /\ fifo' = Append(fifo, j) /\ pending' = Append(pending, j)
        /\ phase' = [phase EXCEPT ![j] = "queued"]
        /\ j \notin ToSet(fifo) /\ j \notin ToSet(pending)
    BY <1>3 DEF Submit, Fresh, RInv, LineInv, IInv, TypeOK
  <2>2. /\ \A i \in DOMAIN fifo' : i \in Nat /\ (i \in DOMAIN fifo \/ i = Len(fifo) + 1)
        /\ \A i \in DOMAIN fifo : fifo'[i] = fifo[i] /\ fifo[i] # j /\ i < Len(fifo) + 1
        /\ fifo'[Len(fifo) + 1] = j /\ Len(fifo) \in Nat
    BY <2>1 DEF ToSet
  <2>3. /\ \A i \in DOMAIN pending' : i \in Nat /\ (i \in DOMAIN pending \/ i = Len(pending) + 1)
        /\ \A i \in DOMAIN pending : i \in DOMAIN pending' /\ pending'[i] = pending[i]
                                     /\ pending[i] # j /\ i < Len(pending) + 1
        /\ Len(pending) + 1 \in DOMAIN pending' /\ pending'[Len(pending) + 1] = j
        /\ Len(pending) \in Nat
    BY <2>1 DEF ToSet
  <2>4. Once(pending')
    BY <2>3 DEF RInv, LineInv, Once
  <2>5. ToSet(pending') = ToSet(pending) \cup {j}
    <3>1. \A x \in ToSet(pending) : x \in ToSet(pending')
      BY <2>3 DEF ToSet
    <3>2. j \in ToSet(pending')
      BY <2>3 DEF ToSet
    <3>3. \A x \in ToSet(pending') : x \in ToSet(pending) \cup {j}
      BY <2>3 DEF ToSet
    <3> QED
      BY <3>1, <3>2, <3>3
  <2>6. InOrder(pending', fifo')
    <3> SUFFICES ASSUME NEW a \in DOMAIN pending', NEW b \in DOMAIN pending',
                        NEW i \in DOMAIN fifo', NEW k \in DOMAIN fifo',
                        a < b, fifo'[i] = pending'[a], fifo'[k] = pending'[b]
                 PROVE  i < k
      BY DEF InOrder
    <3>1. a \in DOMAIN pending
      BY <2>3
    <3>2. i \in DOMAIN fifo
      BY <2>2, <2>3, <3>1
    <3>3. CASE b \in DOMAIN pending
      <4>1. k \in DOMAIN fifo
        BY <2>2, <2>3, <3>3
      <4> QED
        BY <2>2, <2>3, <3>1, <3>2, <3>3, <4>1 DEF RInv, LineInv, InOrder
    <3>4. CASE b = Len(pending) + 1
      <4>1. k = Len(fifo) + 1
        BY <2>2, <2>3, <3>4
      <4> QED
        BY <2>2, <3>2, <4>1
    <3> QED
      BY <2>3, <3>3, <3>4
  <2>7. \A i \in Jobs : i \in ToSet(pending') <=> phase'[i] = "queued"
    BY <2>1, <2>5 DEF RInv, LineInv, IInv, TypeOK
  <2> QED
    BY <2>4, <2>6, <2>7 DEF LineInv
<1>4. ASSUME NEW j \in Jobs, SubmitRefused(j) PROVE LineInv'
  <2>1. UNCHANGED lines /\ phase[j] = "none" /\ phase' = [phase EXCEPT ![j] = "failed"]
    BY <1>4 DEF SubmitRefused, Fresh, SetPhase
  <2>2. \A i \in Jobs : phase'[i] = "queued" <=> phase[i] = "queued"
    BY <2>1 DEF RInv, IInv, TypeOK
  <2> QED
    BY <1>1, <2>1, <2>2
<1>5. ASSUME NEW j \in Jobs, Cancel(j) PROVE LineInv'
  <2>1. CASE UNCHANGED <<phase, pending>>
    BY <1>1, <1>5, <2>1 DEF Cancel, lines
  <2>2. CASE pending' = Without(pending, j) /\ SetPhase(j, "cancelled", "error")
    <3>1. /\ pending \in Seq(Jobs) /\ Once(pending) /\ InOrder(pending, fifo)
          /\ \A i \in Jobs : i \in ToSet(pending) <=> phase[i] = "queued"
      BY DEF RInv, IInv, TypeOK, LineInv
    <3>2. /\ Once(pending') /\ ToSet(pending') = ToSet(pending) \ {j} /\ InOrder(pending', fifo)
      BY <2>2, <3>1, WithoutKeeps
    <3>3. fifo' = fifo /\ \A i \in Jobs : phase'[i] = "queued" <=> phase[i] = "queued" /\ i # j
      BY <1>5, <2>2 DEF Cancel, SetPhase, RInv, IInv, TypeOK
    <3> QED
      BY <3>1, <3>2, <3>3 DEF LineInv
  <2> QED
    BY <1>5, <2>1, <2>2 DEF Cancel
<1>6. CASE Janitor
  <2>1. PICK gone \in SUBSET Jobs :
          /\ \A j \in gone : phase[j] \in TerminalPhases
          /\ phase' = [j \in Jobs |-> IF j \in gone THEN "none" ELSE phase[j]]
          /\ UNCHANGED lines
    BY <1>6, PruneDoes DEF RInv
  <2>2. \A j \in Jobs : phase'[j] = "queued" <=> phase[j] = "queued"
    BY <2>1 DEF TerminalPhases
  <2> QED
    BY <1>1, <2>1, <2>2
<1>7. CASE Quiet
  BY <1>1, <1>7 DEF Quiet
<1> QED
  BY <1>2, <1>3, <1>4, <1>5, <1>6, <1>7, OtherwiseDoes DEF RInv

-----------------------------------------------------------------------------
(* A record has a verdict once it has ended, and not before. *)
LEMMA RecordStep == RInv /\ [Next]_vars => RecordInv'
<1> SUFFICES ASSUME RInv, [Next]_vars PROVE RecordInv'
  OBVIOUS
<1> DEFINE Told == /\ \A j \in Jobs : phase[j] \notin TerminalPhases => verdict[j] = "none"
                   /\ \A j \in Jobs : phase[j] \in {"succeeded", "failed"} => verdict[j] # "none"
<1>1. ASSUME NEW j \in Jobs, NEW p \in TerminalPhases, NEW v \in Verdicts \ {"none"}, SetPhase(j, p, v)
      PROVE  Told'
  BY <1>1 DEF SetPhase, RInv, RecordInv, IInv, TypeOK, TerminalPhases
<1>2. ASSUME \A w \in Workers : pc'[w] = "cancelKill" =>
                                  /\ job'[w] = job[w] /\ job[w] \in Jobs
                                  /\ pc[w] = "cancelKill" \/ cancelReq[job[w]]
                                  /\ cancelReq[job[w]] => cancelReq'[job[w]]
      PROVE  \A w \in Workers : pc'[w] = "cancelKill" => cancelReq'[job'[w]]
  BY <1>2 DEF RInv, RecordInv
<1>3. \A w \in Workers : pc[w] = "cancelKill" => job[w] \in Jobs /\ phase[job[w]] = "proving"
  BY NoJobAssumption DEF RInv, IInv, TypeOK, TaskInv, Attended
<1>4. ASSUME NEW w \in Workers, WorkerStep(w) PROVE RecordInv'
  <2>1. CASE Dequeue(w)
    <3>1. PICK j \in Jobs :
            /\ job[w] = NoJob /\ UNCHANGED cancelReq
            /\ \/ phase[j] # "queued" /\ UNCHANGED <<phase, verdict, tasks>>
               \/ /\ phase[j] = "queued" /\ SetPhase(j, "checking", "none")
                  /\ pc' = [pc EXCEPT ![w] = "building"] /\ job' = [job EXCEPT ![w] = j]
               \/ phase[j] = "queued" /\ SetPhase(j, "failed", "error") /\ UNCHANGED tasks
      BY <2>1, DequeueDoes DEF RInv
    <3>2. Told'
      <4>1. CASE UNCHANGED <<phase, verdict>>
        BY <4>1 DEF RInv, RecordInv
      <4>2. CASE phase[j] = "queued" /\ SetPhase(j, "checking", "none")
        <5>1. verdict' = verdict /\ phase' = [phase EXCEPT ![j] = "checking"]
          BY <4>2 DEF SetPhase, RInv, IInv, TypeOK
        <5> QED
          BY <4>2, <5>1 DEF RInv, RecordInv, IInv, TypeOK, TerminalPhases
      <4>3. CASE SetPhase(j, "failed", "error")
        BY <1>1, <4>3 DEF TerminalPhases, Verdicts
      <4> QED
        BY <3>1, <4>1, <4>2, <4>3
    <3>3. \A u \in Workers : pc'[u] = "cancelKill" => pc[u] = "cancelKill" /\ job'[u] = job[u]
      BY <3>1 DEF tasks, RInv, IInv, TypeOK
    <3> QED
      BY <1>2, <1>3, <3>1, <3>2, <3>3 DEF RecordInv
  <2>2. ASSUME NEW p \in TerminalPhases, NEW v \in Verdicts \ {"none"}, Ending(w, p, v)
        PROVE  RecordInv'
    <3>1. /\ job[w] \in Jobs /\ SetPhase(job[w], p, v) /\ UNCHANGED cancelReq
          /\ pc' = [pc EXCEPT ![w] = "get"] /\ job' = [job EXCEPT ![w] = NoJob]
      BY <2>2 DEF Ending, EndJob
    <3>2. Told'
      BY <1>1, <3>1
    <3>3. \A u \in Workers : pc'[u] = "cancelKill" => pc[u] = "cancelKill" /\ job'[u] = job[u]
      BY <3>1 DEF RInv, IInv, TypeOK
    <3> QED
      BY <1>2, <1>3, <3>1, <3>2, <3>3 DEF RecordInv
  <2>3. CASE GoesOn(w)
    <3>1. Told'
      BY <2>3 DEF GoesOn, RInv, RecordInv, IInv, TypeOK, TerminalPhases
    <3>2. \A u \in Workers : pc'[u] = "cancelKill" => cancelReq'[job'[u]]
      BY <2>3 DEF GoesOn, RInv, RecordInv
    <3> QED
      BY <3>1, <3>2 DEF RecordInv
  <2> QED
    BY <1>4, <2>1, <2>2, <2>3, WorkerDoes
<1>5. ASSUME NEW j \in Jobs, Submit(j) \/ SubmitRefused(j) \/ Cancel(j) PROVE RecordInv'
  <2>1. Told'
    <3>1. CASE UNCHANGED <<phase, verdict>>
      BY <3>1 DEF RInv, RecordInv
    <3>2. CASE Submit(j)
      BY <3>2 DEF Submit, Fresh, RInv, RecordInv, IInv, TypeOK, TerminalPhases
    <3>3. CASE SetPhase(j, "failed", "error") \/ SetPhase(j, "cancelled", "error")
      BY <1>1, <3>3 DEF TerminalPhases, Verdicts
    <3> QED
      BY <1>5, <3>1, <3>2, <3>3 DEF SubmitRefused, Cancel
  <2>2. UNCHANGED tasks /\ \A i \in Jobs : cancelReq[i] => cancelReq'[i]
    BY <1>5 DEF Submit, SubmitRefused, Cancel, RInv, IInv, TypeOK
  <2> QED
    BY <1>2, <1>3, <2>1, <2>2 DEF RecordInv, tasks
<1>6. CASE Janitor
  <2>1. PICK gone \in SUBSET Jobs :
          /\ \A j \in gone : phase[j] \in TerminalPhases
          /\ phase' = [j \in Jobs |-> IF j \in gone THEN "none" ELSE phase[j]]
          /\ verdict' = [j \in Jobs |-> IF j \in gone THEN "none" ELSE verdict[j]]
          /\ cancelReq' = [j \in Jobs |-> cancelReq[j] /\ j \notin gone]
          /\ UNCHANGED tasks
    BY <1>6, PruneDoes DEF RInv
  <2>2. Told'
    BY <2>1 DEF RInv, RecordInv, TerminalPhases
  <2>3. \A w \in Workers : pc[w] = "cancelKill" => job[w] \in Jobs \ gone
    BY <1>3, <2>1 DEF TerminalPhases
  <2>4. \A w \in Workers : pc[w] = "cancelKill" => (cancelReq[job[w]] => cancelReq'[job[w]])
    BY <2>1, <2>3
  <2> QED
    BY <1>2, <2>1, <2>2, <2>3, <2>4 DEF RecordInv, tasks
<1>7. CASE Quiet
  BY <1>7 DEF Quiet, RInv, RecordInv
<1> QED
  BY <1>4, <1>5, <1>6, <1>7, OtherwiseDoes DEF RInv

(* What the refinement rests on holds in every reachable state. *)
THEOREM RefinementInvariance == Spec => []RInv
<1>1. Init => OwnedInv /\ LineInv /\ RecordInv
  BY DEF Init, OwnedInv, Running, LineInv, RecordInv, Once, InOrder, ToSet, TerminalPhases
<1>2. RInv /\ [Next]_vars => RInv'
  BY StepInv, OwnedStep, LineStep, RecordStep DEF RInv
<1>3. Init => RInv
  BY <1>1, InitInv DEF RInv
<1> QED BY <1>2, <1>3, PTL DEF Spec

(* The first n jobs of _pending stand in n slots of the asyncio.Queue. *)
LEMMA SlotsOfFirst ==
  ASSUME RInv, NEW n \in 0..Len(pending)
  PROVE  Cardinality({i \in Waiting : \E b \in 1..n : pending[b] = fifo[i]}) = n
<1> DEFINE W == {i \in Waiting : \E b \in 1..n : pending[b] = fifo[i]}
           slot == [b \in 1..n |-> CHOOSE i \in Waiting : fifo[i] = pending[b]]
<1>1. /\ pending \in Seq(Jobs) /\ fifo \in Seq(Jobs) /\ Once(pending)
      /\ \A i, k \in DOMAIN fifo : fifo[i] = fifo[k] => i = k
  BY DEF RInv, IInv, TypeOK, LineInv, FifoInv
<1>2. ASSUME NEW b \in 1..n
      PROVE  slot[b] \in Waiting /\ fifo[slot[b]] = pending[b]
  <2>1. b \in DOMAIN pending /\ pending[b] \in Jobs /\ pending[b] \in ToSet(pending)
    BY <1>1 DEF ToSet
  <2>2. \E i \in Waiting : fifo[i] = pending[b]
    BY <2>1 DEF RInv, LineInv, OwnedInv, Waiting
  <2> QED BY <2>2
<1>3. slot \in [1..n -> W] /\ \A a, b \in 1..n : slot[a] = slot[b] => a = b
  BY <1>1, <1>2 DEF Once
<1>4. ASSUME NEW i \in W PROVE \E b \in 1..n : slot[b] = i
  <2>1. PICK b \in 1..n : pending[b] = fifo[i]
    OBVIOUS
  <2>2. i \in DOMAIN fifo /\ slot[b] \in DOMAIN fifo
    BY <1>2 DEF Waiting
  <2> QED BY <1>1, <1>2, <2>1, <2>2
<1>5. ExistsBijection(1..n, W)
  <2> HIDE DEF slot, W
  <2> QED
    BY <1>3, <1>4 DEF ExistsBijection, Bijection, Injection, Surjection, IsInjective
<1>6. IsFiniteSet(1..n) /\ Cardinality(1..n) = n
  BY <1>1, FS_Interval
<1> QED
  BY <1>5, <1>6, FS_Bijection

(***************************************************************************)
(* position() and depth of queue.py count the jobs that will be started,   *)
(* in the order of their start, for any number of jobs and workers.        *)
(***************************************************************************)
THEOREM PositionsAlwaysRight == Spec => []PendingMatchesQueue
<1>1. RInv => PendingMatchesQueue
  <2> SUFFICES ASSUME RInv PROVE PendingMatchesQueue
    OBVIOUS
  <2>1. pending \in Seq(Jobs) /\ fifo \in Seq(Jobs) /\ Once(pending) /\ InOrder(pending, fifo)
    BY DEF RInv, IInv, TypeOK, LineInv
  <2>2. ASSUME NEW i \in Waiting PROVE \E b \in DOMAIN pending : pending[b] = fifo[i]
    <3>1. fifo[i] \in ToSet(pending)
      BY <2>1 DEF RInv, LineInv, Waiting
    <3> QED BY <3>1 DEF ToSet
  <2>3. Len(pending) = Cardinality(Waiting)
    <3>1. Waiting = {i \in Waiting : \E b \in 1..Len(pending) : pending[b] = fifo[i]}
      BY <2>1, <2>2
    <3>2. Len(pending) \in 0..Len(pending)
      BY <2>1
    <3>3. Cardinality({i \in Waiting : \E b \in 1..Len(pending) : pending[b] = fifo[i]})
            = Len(pending)
      BY <3>2, SlotsOfFirst
    <3> QED BY <3>1, <3>3
  <2>4. ASSUME NEW i \in Waiting
        PROVE  pending[Cardinality({k \in Waiting : k < i}) + 1] = fifo[i]
    <3>1. PICK a \in DOMAIN pending : pending[a] = fifo[i]
      BY <2>2
    <3>2. a \in 1..Len(pending) /\ a - 1 \in 0..Len(pending) /\ i \in DOMAIN fifo
      BY <2>1 DEF Waiting
    <3>3. ASSUME NEW k \in Waiting
          PROVE  k < i <=> \E b \in 1..a - 1 : pending[b] = fifo[k]
      <4>1. PICK b \in DOMAIN pending : pending[b] = fifo[k]
        BY <2>2
      <4>2. k \in DOMAIN fifo /\ k \in Nat /\ i \in Nat /\ b \in Nat /\ DOMAIN pending = 1..Len(pending)
        BY <2>1, <3>2 DEF Waiting
      <4>3. a < b => i < k
        BY <2>1, <3>1, <3>2, <4>1, <4>2 DEF InOrder
      <4>4. b < a => k < i
        BY <2>1, <3>1, <3>2, <4>1, <4>2 DEF InOrder
      <4>5. a = b => k = i
        BY <3>1, <3>2, <4>1, <4>2 DEF RInv, IInv, FifoInv
      <4>6. \A c \in 1..a - 1 : pending[c] = fifo[k] => c = b
        BY <2>1, <3>2, <4>1, <4>2 DEF Once
      <4> QED BY <3>2, <4>1, <4>2, <4>3, <4>4, <4>5, <4>6
    <3>4. {k \in Waiting : k < i} = {k \in Waiting : \E b \in 1..a - 1 : pending[b] = fifo[k]}
      BY <3>3
    <3>5. Cardinality({k \in Waiting : k < i}) = a - 1
      BY <3>2, <3>4, SlotsOfFirst
    <3> QED BY <3>1, <3>2, <3>5
  <2> QED BY <2>3, <2>4 DEF PendingMatchesQueue
<1> QED BY <1>1, RefinementInvariance, PTL

-----------------------------------------------------------------------------
(* The service's view of the scheduler: Service's substitutions, by name *)
RunningJobs == {j \in Jobs : Held(j)}
AskedJobs   == {j \in Jobs : cancelReq[j]}
Answer == [j \in Jobs |-> IF phase[j] \in {"timeout", "cancelled"} THEN phase[j] ELSE verdict[j]]

LEMMA AnswerIs ==
  ASSUME RInv, NEW j \in Jobs
  PROVE  /\ Answer[j] = IF phase[j] \in {"timeout", "cancelled"} THEN phase[j] ELSE verdict[j]
         /\ Answer[j] = "none" <=> phase[j] \notin TerminalPhases
         /\ Answer[j] \in Service!Outcomes \cup {"none"}
BY DEF Answer, RInv, RecordInv, IInv, TypeOK, TerminalPhases, Verdicts, Service!Outcomes

(* Ending a job's record changes what its user is told, and nobody else. *)
LEMMA AnswerEnds ==
  ASSUME RInv, NEW j \in Jobs, NEW p \in TerminalPhases, NEW v \in Verdicts \ {"none"},
         SetPhase(j, p, v)
  PROVE  Answer' = [Answer EXCEPT ![j] = IF p \in {"timeout", "cancelled"} THEN p ELSE v]
<1>1. /\ \A i \in Jobs : phase'[i] = IF i = j THEN p ELSE phase[i]
      /\ \A i \in Jobs : verdict'[i] = IF i = j THEN v ELSE verdict[i]
  BY DEF SetPhase, RInv, IInv, TypeOK
<1> QED
  BY <1>1 DEF Answer

LEMMA AnswerStays ==
  ASSUME RInv, NEW j \in Jobs, phase[j] \notin TerminalPhases, verdict' = verdict,
         NEW p, p \notin {"timeout", "cancelled"}, phase' = [phase EXCEPT ![j] = p]
  PROVE  Answer' = Answer
<1>1. \A i \in Jobs : phase'[i] = IF i = j THEN p ELSE phase[i]
  BY DEF RInv, IInv, TypeOK
<1>2. \A i \in Jobs : (IF phase'[i] \in {"timeout", "cancelled"} THEN phase'[i] ELSE verdict'[i])
                        = (IF phase[i] \in {"timeout", "cancelled"} THEN phase[i] ELSE verdict[i])
  BY <1>1 DEF TerminalPhases
<1> QED
  BY <1>2 DEF Answer

(* A worker that waits in get() leaves room for a job to run. *)
LEMMA RoomToRun ==
  ASSUME IInv, NEW w \in Workers, job[w] = NoJob
  PROVE  Cardinality(RunningJobs) < Cardinality(Workers)
<1> DEFINE W == Workers \ {w}
           owner == [j \in RunningJobs |-> CHOOSE u \in Workers : job[u] = j]
<1>1. \A j \in RunningJobs : owner[j] \in W /\ job[owner[j]] = j
  BY NoJobAssumption DEF RunningJobs, Held, Holds
<1>2. owner \in [RunningJobs -> W] /\ \A i, j \in RunningJobs : owner[i] = owner[j] => i = j
  BY <1>1
<1>3. owner \in Injection(RunningJobs, W)
  BY <1>2 DEF Injection, IsInjective
<1>4. /\ IsFiniteSet(W) /\ Cardinality(W) = Cardinality(Workers) - 1
      /\ Cardinality(Workers) \in Nat
  BY WorkersAssumption, FS_RemoveElement, FS_CardinalityType
<1>5. Cardinality(RunningJobs) <= Cardinality(W) /\ Cardinality(RunningJobs) \in Nat
  <2> HIDE DEF owner, W
  <2> QED
    BY <1>3, <1>4, FS_Injection, FS_CardinalityType
<1> HIDE DEF W
<1> QED
  BY <1>4, <1>5

-----------------------------------------------------------------------------
(* The scheduler's steps are steps of the service. *)
LEMMA DequeueStarts ==
  ASSUME RInv, NEW w \in Workers, Dequeue(w)
  PROVE  Service!Start \/ UNCHANGED <<pending, RunningJobs, Answer, AskedJobs>>
<1>1. PICK j \in Jobs :
        /\ fifo # <<>> /\ j = Head(fifo) /\ job[w] = NoJob
        /\ fifo' = Tail(fifo) /\ pending' = Without(pending, j) /\ UNCHANGED cancelReq
        /\ \/ phase[j] # "queued" /\ UNCHANGED <<phase, verdict, tasks>>
           \/ /\ phase[j] = "queued" /\ SetPhase(j, "checking", "none")
              /\ pc' = [pc EXCEPT ![w] = "building"] /\ job' = [job EXCEPT ![w] = j]
           \/ phase[j] = "queued" /\ SetPhase(j, "failed", "error") /\ UNCHANGED tasks
  BY DequeueDoes DEF RInv
<1>2. pending \in Seq(Jobs) /\ fifo \in Seq(Jobs) /\ Once(pending)
  BY DEF RInv, IInv, TypeOK, LineInv
<1>3. CASE phase[j] # "queued"
  <2>1. pending' = pending
    BY <1>1, <1>2, <1>3, WithoutIs DEF RInv, LineInv
  <2> QED
    BY <1>1, <1>3, <2>1 DEF RunningJobs, AskedJobs, Answer, tasks, Held, Holds
<1>4. CASE phase[j] = "queued"
  <2>1. pending # <<>> /\ Head(pending) = j
    <3>1. j \in ToSet(pending) /\ j = fifo[1] /\ 1 \in DOMAIN fifo
      BY <1>1, <1>2, <1>4 DEF RInv, LineInv
    <3>2. PICK a \in DOMAIN pending : pending[a] = j
      BY <3>1 DEF ToSet
    <3>3. DOMAIN pending = 1..Len(pending) /\ 1 \in DOMAIN pending /\ DOMAIN fifo = 1..Len(fifo)
      BY <1>2, <3>2
    <3>4. a = 1
      <4> SUFFICES ASSUME a # 1 PROVE FALSE
        OBVIOUS
      <4>1. pending[1] \in Jobs /\ pending[1] \in ToSet(pending)
        BY <1>2, <3>3 DEF ToSet
      <4>2. PICK i \in DOMAIN fifo : fifo[i] = pending[1]
        BY <4>1 DEF RInv, LineInv, OwnedInv
      <4>3. 1 < a
        BY <3>2, <3>3
      <4>4. i < 1
        BY <3>1, <3>2, <3>3, <4>2, <4>3 DEF RInv, LineInv, InOrder
      <4> QED
        BY <3>3, <4>2, <4>4
    <3> QED
      BY <1>2, <3>2, <3>3, <3>4
  <2>2. pending' = Tail(pending)
    <3>1. 1 \in DOMAIN pending /\ pending[1] = j /\ Len(pending) \in Nat
      BY <1>2, <2>1
    <3>2. pending' = SubSeq(pending, 1, 0) \o SubSeq(pending, 2, Len(pending))
      <4>1. pending' = RemoveAt(pending, 1)
        BY <1>1, <1>2, <3>1, WithoutIs
      <4>2. RemoveAt(pending, 1) = SubSeq(pending, 1, 1 - 1) \o SubSeq(pending, 1 + 1, Len(pending))
        BY DEF RemoveAt
      <4>3. 1 - 1 = 0 /\ 1 + 1 = 2
        OBVIOUS
      <4> QED
        BY <4>1, <4>2, <4>3
    <3>3. SubSeq(pending, 1, 0) = <<>> /\ SubSeq(pending, 2, Len(pending)) = Tail(pending)
      BY <1>2, <2>1, <3>1, SubSeqEmpty, TailIsSubSeq
    <3> QED
      BY <1>2, <2>1, <3>2, <3>3, ConcatEmptySeq, HeadTailProperties
  <2>3. Service!Cardinality(RunningJobs) < Cardinality(Workers)
    <3>1. Cardinality(RunningJobs) < Cardinality(Workers)
      BY <1>1, RoomToRun DEF RInv
    <3>2. Service!Cardinality(RunningJobs) = Cardinality(RunningJobs)
      BY DEF Service!Cardinality, Cardinality
    <3> QED
      BY <3>1, <3>2
  <2>4. AskedJobs' = AskedJobs
    BY <1>1 DEF AskedJobs
  <2>5. CASE SetPhase(j, "checking", "none") /\ job' = [job EXCEPT ![w] = j]
    <3>1. verdict' = verdict /\ phase' = [phase EXCEPT ![j] = "checking"]
      BY <2>5 DEF SetPhase, RInv, IInv, TypeOK
    <3>2. Answer' = Answer
      BY <1>4, <3>1, AnswerStays DEF TerminalPhases
    <3>3. RunningJobs' = RunningJobs \cup {j}
      BY <1>1, <2>5, NoJobAssumption DEF RunningJobs, Held, Holds, RInv, IInv, TypeOK
    <3> QED
      BY <2>1, <2>2, <2>3, <2>4, <3>2, <3>3 DEF Service!Start, RunningJobs, Answer, AskedJobs
  <2>6. CASE SetPhase(j, "failed", "error") /\ UNCHANGED tasks
    <3>1. Answer' = [Answer EXCEPT ![j] = "error"]
      BY <2>6, AnswerEnds DEF TerminalPhases, Verdicts
    <3>2. RunningJobs' = RunningJobs
      BY <2>6 DEF RunningJobs, Held, Holds, tasks
    <3> QED
      BY <2>1, <2>2, <2>3, <2>4, <3>1, <3>2
         DEF Service!Start, Service!Ends, RunningJobs, Answer, AskedJobs
  <2> QED
    BY <1>1, <1>4, <2>5, <2>6
<1> QED
  BY <1>3, <1>4

LEMMA EndingCompletes ==
  ASSUME RInv, NEW w \in Workers, NEW p \in TerminalPhases, NEW v \in Verdicts \ {"none"},
         Ending(w, p, v)
  PROVE  Service!Complete(job[w])
<1> DEFINE j == job[w]
           o == IF p \in {"timeout", "cancelled"} THEN p ELSE v
<1>1. /\ j \in Jobs /\ SetPhase(j, p, v) /\ job' = [job EXCEPT ![w] = NoJob]
      /\ UNCHANGED <<cancelReq, pending>>
      /\ cancelReq[j] => p = "cancelled" \/ (p = "failed" /\ v \in {"invalid", "error"})
      /\ p = "cancelled" => cancelReq[j]
  BY DEF Ending, EndJob, lines
<1>2. Answer' = [Answer EXCEPT ![j] = o]
  BY <1>1, AnswerEnds
<1>3. /\ j \in RunningJobs /\ RunningJobs' = RunningJobs \ {j}
      /\ UNCHANGED AskedJobs
  <2>1. \A u \in Workers : job'[u] = IF u = w THEN NoJob ELSE job[u]
    BY <1>1 DEF RInv, IInv, TypeOK
  <2>2. \A u \in Workers : job[u] = j => u = w
    BY <1>1, NoJobAssumption DEF RInv, IInv, TaskInv
  <2>3. \A i \in Jobs : Held(i)' <=> Held(i) /\ i # j
    BY <2>1, <2>2, NoJobAssumption DEF Held, Holds
  <2>4. Held(j)
    BY DEF Held, Holds
  <2> QED
    BY <1>1, <2>3, <2>4 DEF RunningJobs, AskedJobs
<1>4. /\ o \in Service!Outcomes
      /\ j \in AskedJobs => o \notin {"proved", "unproved", "timeout"}
      /\ o = "cancelled" => j \in AskedJobs
  BY <1>1 DEF AskedJobs, Service!Outcomes, TerminalPhases, Verdicts
<1> HIDE DEF j, o
<1>5. Service!Complete(j)
  BY <1>1, <1>2, <1>3, <1>4
     DEF Service!Complete, Service!Ends, RunningJobs, AskedJobs, Answer
<1> QED
  BY <1>5 DEF j

LEMMA GoingOnStutters ==
  ASSUME RInv, NEW w \in Workers, GoesOn(w)
  PROVE  UNCHANGED <<pending, RunningJobs, Answer, AskedJobs>>
<1>1. UNCHANGED <<verdict, cancelReq, pending, job>>
  BY DEF GoesOn, lines
<1>2. Answer' = Answer
  <2>1. CASE UNCHANGED phase
    BY <1>1, <2>1 DEF Answer
  <2>2. CASE phase[job[w]] = "checking" /\ phase' = [phase EXCEPT ![job[w]] = "proving"]
    <3>1. CASE job[w] \in Jobs
      <4>1. PICK j \in Jobs : j = job[w]
        BY <3>1
      <4>2. /\ phase[j] \notin TerminalPhases /\ verdict' = verdict
            /\ phase' = [phase EXCEPT ![j] = "proving"]
        BY <1>1, <2>2, <4>1 DEF TerminalPhases
      <4> QED
        BY <4>2, AnswerStays
    <3>2. CASE job[w] \notin Jobs
      BY <1>1, <2>2, <3>2 DEF Answer, RInv, IInv, TypeOK
    <3> QED
      BY <3>1, <3>2
  <2> QED
    BY <2>1, <2>2 DEF GoesOn
<1> QED
  BY <1>1, <1>2 DEF RunningJobs, AskedJobs, Held, Holds

(* An id that nothing knows is free for a new job. *)
LEMMA FreshIsUnknown ==
  ASSUME RInv, NEW j \in Jobs, Fresh(j)
  PROVE  j \in Service!Unknown
<1>1. phase[j] = "none"
  BY DEF Fresh
<1>2. Answer[j] = "none"
  BY <1>1, AnswerIs DEF TerminalPhases
<1>3. j \notin RunningJobs
  BY <1>1, NoJobAssumption
     DEF RunningJobs, Held, Holds, RInv, IInv, TypeOK, TaskInv, Suspended, Attended
<1>4. j \notin Service!ToSet(pending)
  <2>1. j \notin ToSet(pending)
    BY <1>1 DEF RInv, LineInv
  <2> QED
    BY <2>1 DEF Service!ToSet, ToSet
<1> QED
  BY <1>2, <1>3, <1>4 DEF Service!Unknown, Service!Waiting, Answer, RunningJobs

LEMMA HttpSimulates ==
  ASSUME RInv, NEW j \in Jobs, Submit(j) \/ SubmitRefused(j) \/ Cancel(j)
  PROVE  Service!Accept(j) \/ Service!Refuse(j) \/ Service!Stop(j)
<1>1. CASE Submit(j)
  <2>1. /\ j \in Service!Unknown /\ pending' = Append(pending, j) /\ phase[j] = "none"
        /\ phase' = [phase EXCEPT ![j] = "queued"] /\ UNCHANGED <<verdict, cancelReq, job>>
    BY <1>1, FreshIsUnknown DEF Submit, Fresh, tasks
  <2>2. Answer' = Answer
    BY <2>1, AnswerStays DEF TerminalPhases
  <2>3. UNCHANGED <<RunningJobs, AskedJobs>>
    BY <2>1 DEF RunningJobs, AskedJobs, Held, Holds
  <2> QED
    BY <2>1, <2>2, <2>3 DEF Service!Accept, RunningJobs, AskedJobs, Answer
<1>2. CASE SubmitRefused(j)
  <2>1. /\ j \in Service!Unknown /\ SetPhase(j, "failed", "error")
        /\ UNCHANGED <<pending, cancelReq, job>>
    BY <1>2, FreshIsUnknown DEF SubmitRefused, tasks, lines
  <2>2. Answer' = [Answer EXCEPT ![j] = "error"]
    BY <2>1, AnswerEnds DEF TerminalPhases, Verdicts
  <2>3. UNCHANGED <<RunningJobs, AskedJobs>>
    BY <2>1 DEF RunningJobs, AskedJobs, Held, Holds
  <2> QED
    BY <2>1, <2>2, <2>3 DEF Service!Refuse, Service!Ends, RunningJobs, AskedJobs, Answer
<1>3. CASE Cancel(j)
  <2>1. UNCHANGED RunningJobs /\ AskedJobs' = AskedJobs \cup {j}
    BY <1>3 DEF Cancel, tasks, RunningJobs, AskedJobs, Held, Holds, RInv, IInv, TypeOK
  <2>2. CASE Held(j) /\ UNCHANGED <<phase, verdict, pending>>
    BY <2>1, <2>2 DEF Service!Stop, RunningJobs, AskedJobs, Answer
  <2>3. CASE j \in ToSet(pending) /\ pending' = Without(pending, j) /\ SetPhase(j, "cancelled", "error")
    <3>1. PICK i \in DOMAIN pending : pending[i] = j
      BY <2>3 DEF ToSet
    <3>2. pending' = RemoveAt(pending, i)
      BY <2>3, <3>1, WithoutIs DEF RInv, IInv, TypeOK, LineInv
    <3>3. pending' = Service!RemoveAt(pending, i)
      BY <3>2 DEF RemoveAt, Service!RemoveAt
    <3>4. Answer' = [Answer EXCEPT ![j] = "cancelled"]
      BY <2>3, AnswerEnds DEF TerminalPhases, Verdicts
    <3> QED
      BY <2>1, <3>1, <3>3, <3>4 DEF Service!Stop, Service!Ends, RunningJobs, AskedJobs, Answer
  <2> QED
    BY <1>3, <2>2, <2>3 DEF Cancel
<1> QED
  BY <1>1, <1>2, <1>3

LEMMA JanitorForgets ==
  ASSUME RInv, Janitor
  PROVE  \E S \in SUBSET Jobs : Service!Forget(S)
<1>1. PICK gone \in SUBSET Jobs :
        /\ \A j \in gone : phase[j] \in TerminalPhases
        /\ phase' = [j \in Jobs |-> IF j \in gone THEN "none" ELSE phase[j]]
        /\ verdict' = [j \in Jobs |-> IF j \in gone THEN "none" ELSE verdict[j]]
        /\ cancelReq' = [j \in Jobs |-> cancelReq[j] /\ j \notin gone]
        /\ UNCHANGED <<lines, tasks>>
  BY PruneDoes DEF RInv
<1>2. UNCHANGED pending /\ UNCHANGED RunningJobs
  BY <1>1 DEF lines, tasks, RunningJobs, Held, Holds
<1>3. \A j \in gone : Answer[j] # "none"
  BY <1>1, AnswerIs
<1>4. AskedJobs' = AskedJobs \ gone
  BY <1>1 DEF AskedJobs
<1>5. Answer' = [j \in Jobs |-> IF j \in gone THEN "none" ELSE Answer[j]]
  BY <1>1 DEF Answer
<1>6. Service!Forget(gone)
  BY <1>2, <1>3, <1>4, <1>5 DEF Service!Forget, RunningJobs, AskedJobs, Answer
<1> QED
  BY <1>6

(***************************************************************************)
(* The scheduler (queue.py, store.py, runner.py and the two handlers of    *)
(* app.py) implements the service it promises: accepted jobs start in      *)
(* order, no more run than there are workers, each has one outcome that    *)
(* does not change while it is remembered, and one that was asked to stop  *)
(* neither succeeds nor times out, for any number of jobs and workers.     *)
(***************************************************************************)
THEOREM AlwaysImplements == Spec => ImplementsService
<1>1. Init => Service!Init
  BY NoJobAssumption DEF Init, Service!Init, Held, Holds
<1>2. RInv /\ [Next]_vars => [Service!Next]_(Service!vars)
  <2> SUFFICES ASSUME RInv, [Next]_vars
               PROVE  Service!Next \/ UNCHANGED <<pending, RunningJobs, Answer, AskedJobs>>
    BY DEF Service!vars, RunningJobs, Answer, AskedJobs
  <2>1. ASSUME NEW w \in Workers, WorkerStep(w)
        PROVE  Service!Next \/ UNCHANGED <<pending, RunningJobs, Answer, AskedJobs>>
    <3>1. CASE Dequeue(w)
      BY <3>1, DequeueStarts DEF Service!Next
    <3>2. CASE \E p \in TerminalPhases, v \in Verdicts \ {"none"} : Ending(w, p, v)
      BY <3>2, EndingCompletes DEF Service!Next, Ending
    <3>3. CASE GoesOn(w)
      BY <3>3, GoingOnStutters
    <3> QED
      BY <2>1, <3>1, <3>2, <3>3, WorkerDoes
  <2>2. ASSUME NEW j \in Jobs, Submit(j) \/ SubmitRefused(j) \/ Cancel(j)
        PROVE  Service!Next
    BY <2>2, HttpSimulates DEF Service!Next
  <2>3. CASE Janitor
    BY <2>3, JanitorForgets DEF Service!Next
  <2>4. CASE Quiet
    BY <2>4 DEF Quiet, lines, RunningJobs, Answer, AskedJobs, Held, Holds
  <2> QED
    BY <2>1, <2>2, <2>3, <2>4, OtherwiseDoes DEF RInv
<1> QED BY RefinementInvariance, <1>1, <1>2, PTL DEF Spec, ImplementsService, Service!Spec
-----------------------------------------------------------------------------
(***************************************************************************)
(* The end of the server (JobShutdown).  That a prover is attended until   *)
(* it has ended is inductive with the types alone: a worker lets go of its *)
(* job only when the prover it watches is down, and the steps that make it *)
(* go down are the ones that may end the watching.  Once every worker has  *)
(* ended there is nobody left to attend a prover, so there is none.        *)
(***************************************************************************)
Places == Suspended \cup {"endKill", "end"}

Types ==
  /\ pc \in [Workers -> Places]
  /\ job \in [Workers -> Jobs \cup {NoJob}]
  /\ leader \in [Jobs -> {"none", "alive", "exited"}]
  /\ fifo \in Seq(Jobs)

StopInv == ShutTypeOK /\ Types /\ StillAttended /\ NoneOutlives

(* Who attends the prover of j. *)
Watches(w, j) == Holds(w, j) /\ pc[w] \in Attended \cup {"endKill"}

(***************************************************************************)
(* A step keeps every prover attended if each worker that stops watching   *)
(* a job leaves no prover of it, and only a watching worker starts one.    *)
(***************************************************************************)
LEMMA KeepsWatch ==
  ASSUME StillAttended,
         \A j \in Jobs : leader'[j] = "alive" =>
            leader[j] = "alive" \/ \E w \in Workers : Watches(w, j)',
         \A j \in Jobs, w \in Workers :
            leader'[j] = "alive" /\ Watches(w, j) => Watches(w, j)'
  PROVE  StillAttended'
BY DEF StillAttended, Watches

-----------------------------------------------------------------------------
(* What the steps of a worker and of a handler do to places and leaders. *)

LEMMA GotoTypes ==
  ASSUME Types, NEW w \in Workers, NEW p \in Places, Goto(w, p)
  PROVE  /\ pc' \in [Workers -> Places] /\ job' = job /\ pc'[w] = p
         /\ \A v \in Workers \ {w} : pc'[v] = pc[v]
BY DEF Types, Goto

LEMMA LetsGoTypes ==
  ASSUME Types, NEW w \in Workers, NEW p \in {"get", "end"},
         pc' = [pc EXCEPT ![w] = p], job' = [job EXCEPT ![w] = NoJob]
  PROVE  /\ pc' \in [Workers -> Places] /\ job' \in [Workers -> Jobs \cup {NoJob}]
         /\ pc'[w] = p /\ job'[w] = NoJob
         /\ \A v \in Workers \ {w} : pc'[v] = pc[v] /\ job'[v] = job[v]
BY DEF Types, Places, Suspended

LEMMA PhaseTypes ==
  ASSUME ShutTypeOK, NEW j, NEW p \in ActivePhases \cup TerminalPhases, NEW v, SetPhase(j, p, v)
  PROVE  phase' \in [Jobs -> ActivePhases \cup TerminalPhases \cup {"none"}]
BY DEF ShutTypeOK, SetPhase

LEMMA KillTypes ==
  ASSUME Types, NEW j, KillGroup(j)
  PROVE  /\ leader' \in [Jobs -> {"none", "alive", "exited"}]
         /\ \A i \in Jobs : leader'[i] = "alive" => leader[i] = "alive" /\ i # j
BY DEF Types, KillGroup

(* Letting go of a job whose prover is down. *)
LEMMA LetsGo ==
  ASSUME Types, StillAttended, NEW w \in Workers, NEW p \in {"get", "end"},
         pc' = [pc EXCEPT ![w] = p], job' = [job EXCEPT ![w] = NoJob],
         \A i \in Jobs : leader'[i] = "alive" => leader[i] = "alive",
         pc[w] \in Attended \cup {"endKill"} /\ job[w] \in Jobs => leader'[job[w]] # "alive"
  PROVE  StillAttended'
<1>1. \A v \in Workers \ {w} : pc'[v] = pc[v] /\ job'[v] = job[v]
  BY LetsGoTypes
<1>2. \A j \in Jobs, v \in Workers : leader'[j] = "alive" /\ Watches(v, j) => Watches(v, j)'
  BY <1>1 DEF Watches, Holds
<1> QED
  BY <1>2, KeepsWatch

(* Moving on while still watching, or before there is a prover. *)
LEMMA MovesOn ==
  ASSUME Types, StillAttended, NEW w \in Workers, NEW p \in Places, Goto(w, p),
         leader' = leader,
         pc[w] \in Attended \cup {"endKill"} => p \in Attended \cup {"endKill"}
  PROVE  StillAttended'
<1>1. \A j \in Jobs, v \in Workers : Watches(v, j) => Watches(v, j)'
  BY GotoTypes DEF Watches, Holds
<1> QED
  BY <1>1, KeepsWatch

(* A step that changes no task and starts no prover. *)
LEMMA TasksStay ==
  ASSUME StillAttended, UNCHANGED tasks,
         \A i \in Jobs : leader'[i] = "alive" => leader[i] = "alive"
  PROVE  StillAttended'
<1>1. \A j \in Jobs, v \in Workers : Watches(v, j) => Watches(v, j)'
  BY DEF tasks, Watches, Holds
<1> QED
  BY <1>1, KeepsWatch

-----------------------------------------------------------------------------
(* A worker's step of JobQueue, before or during the shutdown. *)
LEMMA WorkerStop ==
  ASSUME ShutTypeOK, Types, StillAttended, NEW w \in Workers, WorkerStep(w),
         UNCHANGED shutVars
  PROVE  ShutTypeOK' /\ Types' /\ StillAttended'
<1> USE DEF shutVars
<1>1. CASE Dequeue(w)
  <2>1. pc[w] = "get" /\ Head(fifo) \in Jobs /\ fifo' \in Seq(Jobs) /\ UNCHANGED processes
    BY <1>1 DEF Dequeue, Types
  <2>2. CASE UNCHANGED tasks
    <3>1. phase' = phase \/ SetPhase(Head(fifo), "cancelled", "error")
            \/ SetPhase(Head(fifo), "failed", "error")
      BY <1>1, <2>2, <2>1 DEF Dequeue, tasks, Types
    <3>2. phase' \in [Jobs -> ActivePhases \cup TerminalPhases \cup {"none"}]
      BY <3>1, PhaseTypes DEF TerminalPhases, ShutTypeOK
    <3> QED
      BY <2>1, <2>2, <3>2, TasksStay DEF ShutTypeOK, Types, tasks, processes
  <2>3. CASE /\ SetPhase(Head(fifo), "checking", "none")
             /\ pc' = [pc EXCEPT ![w] = "building"]
             /\ job' = [job EXCEPT ![w] = Head(fifo)]
    <3>1. phase' \in [Jobs -> ActivePhases \cup TerminalPhases \cup {"none"}]
      BY <2>3, PhaseTypes DEF ActivePhases
    <3>2. pc' \in [Workers -> Suspended \cup {"endKill", "end"}]
            /\ job' \in [Workers -> Jobs \cup {NoJob}]
      BY <2>1, <2>3 DEF Types, Places, Suspended
    <3>3. \A j \in Jobs, v \in Workers : Watches(v, j) => Watches(v, j)'
      BY <2>1, <2>3 DEF Types, Watches, Holds, Attended
    <3>4. StillAttended'
      BY <2>1, <3>3, KeepsWatch DEF processes
    <3> QED
      BY <2>1, <3>1, <3>2, <3>4 DEF ShutTypeOK, Types, Places, processes
  <2> QED
    BY <1>1, <2>2, <2>3 DEF Dequeue
<1>2. ASSUME NEW p \in TerminalPhases, NEW v, EndJob(w, p, v), UNCHANGED <<cancelReq, lines, processes, killers>>,
             pc[w] \in Attended /\ job[w] \in Jobs => leader[job[w]] # "alive",
             pc[w] # "endKill"
      PROVE  ShutTypeOK' /\ Types' /\ StillAttended'
  <2>1. phase' \in [Jobs -> ActivePhases \cup TerminalPhases \cup {"none"}]
    BY <1>2, PhaseTypes DEF EndJob
  <2>2. pc' = [pc EXCEPT ![w] = "get"] /\ job' = [job EXCEPT ![w] = NoJob]
    BY <1>2 DEF EndJob
  <2>3. pc' \in [Workers -> Places] /\ job' \in [Workers -> Jobs \cup {NoJob}]
    BY <2>2, LetsGoTypes
  <2>4. leader' = leader /\ fifo' = fifo
    BY <1>2 DEF processes, lines
  <2>5. StillAttended'
    BY <1>2, <2>2, <2>4, LetsGo
  <2> QED
    BY <2>1, <2>3, <2>4, <2>5 DEF ShutTypeOK, Types, Places
<1>3. ASSUME NEW p \in {"spawning", "cancelKill", "timeoutKill"}, Goto(w, p), leader' = leader, fifo' = fifo,
             phase' = phase, pc[w] \in Attended => p \in Attended, pc[w] # "endKill"
      PROVE  ShutTypeOK' /\ Types' /\ StillAttended'
  <2>1. p \in Places
    BY DEF Places, Suspended
  <2>2. pc' \in [Workers -> Places] /\ job' = job
    BY <1>3, <2>1, GotoTypes
  <2>3. StillAttended'
    BY <1>3, <2>1, MovesOn
  <2> QED
    BY <1>3, <2>2, <2>3 DEF ShutTypeOK, Types, Places
<1>4. CASE BuildDone(w)
  <2>1. pc[w] = "building" /\ UNCHANGED <<cancelReq, lines, processes, killers>>
    BY <1>4 DEF BuildDone
  <2>2. CASE \E p \in TerminalPhases : \E v \in {"invalid", "error"} : EndJob(w, p, v)
    BY <2>1, <2>2, <1>2 DEF Attended
  <2>3. CASE Goto(w, "spawning") /\ UNCHANGED <<phase, verdict, ended>>
    BY <2>1, <2>3, <1>3 DEF Attended, processes, lines
  <2> QED
    BY <1>4, <2>2, <2>3 DEF BuildDone, TerminalPhases
<1>5. CASE Spawn(w)
  <2>1. "watching" \in Places /\ Goto(w, "watching") /\ pc[w] = "spawning"
    BY <1>5 DEF Spawn, Places, Suspended
  <2>2. phase' \in [Jobs -> ActivePhases \cup TerminalPhases \cup {"none"}]
    BY <1>5, PhaseTypes DEF Spawn, ActivePhases
  <2>3. leader' = [leader EXCEPT ![job[w]] = "alive"] /\ fifo' = fifo
    BY <1>5 DEF Spawn, lines
  <2>4. leader' \in [Jobs -> {"none", "alive", "exited"}]
    BY <2>3 DEF Types
  <2>5. \A j \in Jobs : leader'[j] = "alive" => leader[j] = "alive" \/ j = job[w]
    BY <2>3 DEF Types
  <2>6. Watches(w, job[w])'
    BY <2>1, GotoTypes DEF Watches, Holds, Attended
  <2>7. \A j \in Jobs, v \in Workers : Watches(v, j) => Watches(v, j)'
    BY <2>1, GotoTypes DEF Watches, Holds, Attended
  <2>8. job' = job /\ pc' \in [Workers -> Places]
    BY <2>1, GotoTypes
  <2>9. StillAttended'
    BY <2>5, <2>6, <2>7, <2>8, KeepsWatch
  <2> QED
    BY <2>2, <2>3, <2>4, <2>8, <2>9 DEF ShutTypeOK, Types, Places
<1>6. CASE SpawnFails(w)
  BY <1>6, <1>2 DEF SpawnFails, Attended, TerminalPhases
<1>7. CASE PollCancel(w) \/ PollDeadline(w)
  BY <1>7, <1>3 DEF PollCancel, PollDeadline, Attended, records, lines, processes
<1>8. CASE GraceOver(w)
  <2>1. KillGroup(job[w]) /\ UNCHANGED <<records, lines, tasks, killers>>
    BY <1>8 DEF GraceOver
  <2>2. StillAttended'
    BY <2>1, KillTypes, TasksStay
  <2> QED
    BY <2>1, <2>2, KillTypes DEF ShutTypeOK, Types, records, lines, tasks
<1>9. CASE CancelDone(w)
  BY <1>9, <1>2 DEF CancelDone, TerminalPhases
<1>10. CASE Finish(w)
  <2>1. PICK timedOut, rcZero, sv \in BOOLEAN :
          EndJob(w, Outcome(job[w], timedOut, rcZero, sv)[1], Outcome(job[w], timedOut, rcZero, sv)[2])
    BY <1>10 DEF Finish
  <2>2. Outcome(job[w], timedOut, rcZero, sv)[1] \in TerminalPhases
    <3>1. CASE cancelReq[job[w]]
      BY <3>1 DEF Outcome, TerminalPhases
    <3>2. CASE ~cancelReq[job[w]] /\ timedOut
      BY <3>2 DEF Outcome, TerminalPhases
    <3>3. CASE ~cancelReq[job[w]] /\ ~timedOut
      BY <3>3 DEF Outcome, TerminalPhases
    <3> QED BY <3>1, <3>2, <3>3
  <2>3. /\ leader[job[w]] = "exited" /\ pc[w] # "endKill"
        /\ UNCHANGED <<cancelReq, lines, processes, killers>>
    BY <1>10 DEF Finish
  <2> QED
    BY <2>1, <2>2, <2>3, <1>2
<1>11. CASE FinishRaises(w)
  BY <1>11, <1>2 DEF FinishRaises, TerminalPhases
<1> QED
  BY <1>1, <1>4, <1>5, <1>6, <1>7, <1>8, <1>9, <1>10, <1>11 DEF WorkerStep

(* The steps of requests, provers and the janitor. *)
LEMMA OtherInv ==
  ASSUME ShutTypeOK, Types, StillAttended, UNCHANGED shutVars,
         (\E j \in Jobs : HttpStep(j) \/ ProverStep(j)) \/ Janitor
  PROVE  ShutTypeOK' /\ Types' /\ StillAttended'
<1> USE DEF shutVars
<1> SUFFICES /\ phase' \in [Jobs -> ActivePhases \cup TerminalPhases \cup {"none"}]
             /\ UNCHANGED tasks
             /\ leader' \in [Jobs -> {"none", "alive", "exited"}]
             /\ \A i \in Jobs : leader'[i] = "alive" => leader[i] = "alive"
             /\ fifo' \in Seq(Jobs)
  BY TasksStay DEF ShutTypeOK, Types, tasks
<1>1. ASSUME NEW j \in Jobs, Submit(j) \/ SubmitRefused(j)
      PROVE  /\ phase' \in [Jobs -> ActivePhases \cup TerminalPhases \cup {"none"}]
             /\ UNCHANGED tasks /\ leader' = leader /\ fifo' \in Seq(Jobs)
  <2>1. phase' \in [Jobs -> ActivePhases \cup TerminalPhases \cup {"none"}]
    BY <1>1, PhaseTypes DEF Submit, SubmitRefused, ShutTypeOK, ActivePhases, TerminalPhases
  <2>2. UNCHANGED tasks /\ leader' = leader /\ fifo' \in Seq(Jobs)
    <3>1. CASE Submit(j)
      BY <3>1, AppendProperties DEF Submit, Types, tasks, processes
    <3>2. CASE SubmitRefused(j)
      BY <3>2 DEF SubmitRefused, Types, tasks, processes, lines
    <3> QED BY <1>1, <3>1, <3>2
  <2> QED BY <2>1, <2>2
<1>2. ASSUME NEW j \in Jobs, Cancel(j)
      PROVE  /\ phase' \in [Jobs -> ActivePhases \cup TerminalPhases \cup {"none"}]
             /\ UNCHANGED tasks /\ leader' = leader /\ fifo' \in Seq(Jobs)
  <2>1. phase' = phase \/ SetPhase(j, "cancelled", "error")
    BY <1>2 DEF Cancel
  <2> QED BY <1>2, <2>1, PhaseTypes DEF Cancel, ShutTypeOK, TerminalPhases, Types, tasks, processes
<1>3. ASSUME NEW j \in Jobs, HttpKillReturns(j) \/ HttpGraceOver(j)
      PROVE  /\ phase' = phase /\ UNCHANGED tasks /\ fifo' = fifo
             /\ leader' \in [Jobs -> {"none", "alive", "exited"}]
             /\ \A i \in Jobs : leader'[i] = "alive" => leader[i] = "alive"
  BY <1>3, KillTypes DEF HttpKillReturns, HttpGraceOver, records, lines, tasks, processes, Types
<1>4. ASSUME NEW j \in Jobs, ProverStep(j)
      PROVE  /\ phase' = phase /\ UNCHANGED tasks /\ fifo' = fifo
             /\ leader' \in [Jobs -> {"none", "alive", "exited"}]
             /\ \A i \in Jobs : leader'[i] = "alive" => leader[i] = "alive"
  BY <1>4 DEF ProverStep, LeaderExits, KidsExit, ProverVerifies, ProverWrites, records, lines,
     tasks, processes, Types
<1>5. ASSUME Janitor
      PROVE  /\ phase' \in [Jobs -> ActivePhases \cup TerminalPhases \cup {"none"}]
             /\ UNCHANGED tasks /\ fifo' = fifo
             /\ leader' \in [Jobs -> {"none", "alive", "exited"}]
             /\ \A i \in Jobs : leader'[i] = "alive" => leader[i] = "alive"
  BY <1>5 DEF Janitor, Prune, ShutTypeOK, Types, lines, tasks
<1> QED
  BY <1>1, <1>2, <1>3, <1>4, <1>5 DEF HttpStep, ShutTypeOK, Types

-----------------------------------------------------------------------------
(* The steps of shutdown() and of the workers it cancels. *)
LEMMA ShutInv ==
  ASSUME ShutTypeOK, Types, StillAttended, ShutStep \/ \E w \in Workers : WorkerEnds(w)
  PROVE  ShutTypeOK' /\ Types' /\ StillAttended'
<1>1. CASE Begins \/ KillReturns \/ CancelTasks \/ Gathered
  <2>1. UNCHANGED vars
    BY <1>1 DEF Begins, KillReturns, CancelTasks, Gathered
  <2>2. todo' \in SUBSET Jobs /\ cur' \in Jobs \cup {NoJob}
          /\ down' \in {"up", "killing", "grace", "gather", "done"}
    BY <1>1 DEF Begins, KillReturns, CancelTasks, Gathered, ShutTypeOK
  <2>3. StillAttended'
    BY <2>1, TasksStay DEF vars, processes
  <2> QED
    BY <2>1, <2>2, <2>3 DEF vars, records, lines, tasks, processes, ShutTypeOK, Types
<1>2. ASSUME NEW j \in Jobs, KillNext(j) PROVE ShutTypeOK' /\ Types' /\ StillAttended'
  <2>1. phase' \in [Jobs -> ActivePhases \cup TerminalPhases \cup {"none"}]
    BY <1>2, PhaseTypes DEF KillNext, TerminalPhases
  <2>2. UNCHANGED <<lines, tasks, processes>>
    BY <1>2 DEF KillNext
  <2>3. todo' \in SUBSET Jobs /\ cur' \in Jobs \cup {NoJob}
          /\ down' \in {"up", "killing", "grace", "gather", "done"}
    BY <1>2 DEF KillNext, ShutTypeOK
  <2>4. StillAttended'
    BY <2>2, TasksStay DEF processes
  <2> QED
    BY <2>1, <2>2, <2>3, <2>4 DEF lines, tasks, processes, ShutTypeOK, Types
<1>3. CASE KillEscalates
  <2>1. KillGroup(cur) /\ UNCHANGED <<records, lines, tasks>>
    BY <1>3 DEF KillEscalates
  <2>2. todo' = todo /\ cur' = NoJob /\ down' = "killing"
    BY <1>3 DEF KillEscalates
  <2>3. StillAttended'
    BY <2>1, KillTypes, TasksStay
  <2> QED
    BY <2>1, <2>2, <2>3, KillTypes DEF records, lines, tasks, ShutTypeOK, Types
<1>4. ASSUME NEW w \in Workers, End(w), fifo' = fifo, UNCHANGED shutVars,
             phase' \in [Jobs -> ActivePhases \cup TerminalPhases \cup {"none"}],
             leader' \in [Jobs -> {"none", "alive", "exited"}],
             \A i \in Jobs : leader'[i] = "alive" => leader[i] = "alive",
             pc[w] \in Attended \cup {"endKill"} /\ job[w] \in Jobs => leader'[job[w]] # "alive"
      PROVE  ShutTypeOK' /\ Types' /\ StillAttended'
  <2>1. pc' = [pc EXCEPT ![w] = "end"] /\ job' = [job EXCEPT ![w] = NoJob]
    BY <1>4 DEF End
  <2>2. pc' \in [Workers -> Places] /\ job' \in [Workers -> Jobs \cup {NoJob}]
    BY <2>1, LetsGoTypes
  <2>3. StillAttended'
    BY <1>4, <2>1, LetsGo
  <2> QED
    BY <1>4, <2>2, <2>3 DEF ShutTypeOK, Types, Places, shutVars
<1>5. ASSUME NEW w \in Workers, IdleEnds(w) PROVE ShutTypeOK' /\ Types' /\ StillAttended'
  BY <1>5, <1>4 DEF IdleEnds, records, lines, processes, Attended, ShutTypeOK, Types
<1>6. ASSUME NEW w \in Workers, RunnerEnds(w) \/ RunnerKilled(w)
      PROVE  ShutTypeOK' /\ Types' /\ StillAttended'
  <2>1. phase' \in [Jobs -> ActivePhases \cup TerminalPhases \cup {"none"}]
    BY <1>6, PhaseTypes DEF RunnerEnds, RunnerKilled, TerminalPhases
  <2>2. /\ End(w) /\ fifo' = fifo /\ UNCHANGED shutVars /\ leader' = leader
        /\ pc[w] \in Attended \cup {"endKill"} => leader[job[w]] # "alive"
    BY <1>6 DEF RunnerEnds, RunnerKilled, lines, processes, Suspended, Attended
  <2> QED
    BY <2>1, <2>2, <1>4 DEF Types
<1>7. ASSUME NEW w \in Workers, RunnerKills(w) PROVE ShutTypeOK' /\ Types' /\ StillAttended'
  <2>1. "endKill" \in Places /\ Goto(w, "endKill") /\ UNCHANGED <<records, lines, processes, shutVars>>
    BY <1>7 DEF RunnerKills, Places
  <2>2. StillAttended'
    BY <2>1, MovesOn DEF processes
  <2> QED
    BY <2>1, <2>2, GotoTypes DEF ShutTypeOK, Types, Places, records, lines, processes, shutVars
<1>8. ASSUME NEW w \in Workers, RunnerEscalates(w) PROVE ShutTypeOK' /\ Types' /\ StillAttended'
  <2>1. phase' \in [Jobs -> ActivePhases \cup TerminalPhases \cup {"none"}]
    BY <1>8, PhaseTypes DEF RunnerEscalates, TerminalPhases
  <2>2. KillGroup(job[w]) /\ End(w) /\ fifo' = fifo /\ UNCHANGED shutVars
    BY <1>8 DEF RunnerEscalates, lines
  <2> QED
    BY <2>1, <2>2, KillTypes, <1>4
<1> QED
  BY <1>1, <1>2, <1>3, <1>5, <1>6, <1>7, <1>8 DEF ShutStep, ShutGoesOn, WorkerEnds

(***************************************************************************)
(* Once gathered there is no worker to attend a prover, hence none; and    *)
(* no worker goes on to start one.                                         *)
(***************************************************************************)
LEMMA GatheredInv ==
  ASSUME StopInv, [ShutNext]_allVars PROVE NoneOutlives'
<1>1. CASE down = "done"
  <2>1. \A j \in Jobs : leader'[j] = "alive" => leader[j] = "alive"
    <3>1. ASSUME NEW j \in Jobs, ProverStep(j)
          PROVE  \A i \in Jobs : leader'[i] = "alive" => leader[i] = "alive"
      BY <3>1 DEF ProverStep, LeaderExits, KidsExit, ProverVerifies, ProverWrites, StopInv, Types
    <3>2. ASSUME NEW w \in Workers, WorkerEnds(w)
          PROVE  \A i \in Jobs : leader'[i] = "alive" => leader[i] = "alive"
      BY <1>1, <3>2, KillTypes DEF WorkerEnds, IdleEnds, RunnerEnds, RunnerKills, RunnerKilled,
         RunnerEscalates, processes, StopInv
    <3>3. CASE UNCHANGED allVars
      BY <3>3 DEF allVars, vars, processes
    <3> QED
      BY <1>1, <3>1, <3>2, <3>3 DEF ShutNext, ShutStep, ShutGoesOn, Begins, KillNext, KillReturns,
         KillEscalates, CancelTasks, Gathered
  <2> QED
    BY <1>1, <2>1 DEF StopInv, NoneOutlives
<1>2. CASE down # "done" /\ down' = "done"
  <2>1. Gathered
    BY <1>2 DEF ShutNext, ShutStep, ShutGoesOn, Begins, KillNext, KillReturns, KillEscalates,
       CancelTasks, WorkerEnds, IdleEnds, RunnerEnds, RunnerKills, RunnerKilled, RunnerEscalates,
       shutVars, allVars
  <2> QED
    BY <2>1 DEF Gathered, StopInv, StillAttended, NoneOutlives, Attended, vars, processes
<1> QED
  BY <1>1, <1>2 DEF NoneOutlives

(* The inductive invariant holds in every reachable state. *)
THEOREM ShutInvariance == ShutSpec => []StopInv
<1>1. ShutInit => StopInv
  BY DEF ShutInit, Init, StopInv, ShutTypeOK, Types, Places, Suspended, StillAttended, NoneOutlives
<1>2. StopInv /\ [ShutNext]_allVars => StopInv'
  <2> SUFFICES ASSUME StopInv, [ShutNext]_allVars PROVE StopInv'
    OBVIOUS
  <2>1. ShutTypeOK /\ Types /\ StillAttended
    BY DEF StopInv
  <2>2. ShutTypeOK' /\ Types' /\ StillAttended'
    <3>1. CASE UNCHANGED allVars
      <4>1. StillAttended'
        BY <2>1, <3>1, TasksStay DEF allVars, vars, processes
      <4> QED
        BY <2>1, <3>1, <4>1 DEF allVars, vars, records, lines, tasks, processes, shutVars, ShutTypeOK, Types
    <3> QED
      BY <2>1, <3>1, WorkerStop, OtherInv, ShutInv DEF ShutNext, Next
  <2> QED
    BY <2>2, GatheredInv DEF StopInv
<1> QED BY <1>1, <1>2, PTL DEF ShutSpec

(***************************************************************************)
(* Until it has ended every prover has a worker, cancelled or not, that    *)
(* watches it or kills it (run()'s except clause, runner.py).              *)
(***************************************************************************)
THEOREM AlwaysAttended == ShutSpec => []StillAttended
<1>1. StopInv => StillAttended
  BY DEF StopInv
<1> QED BY ShutInvariance, <1>1, PTL

(* When shutdown() returns no prover is left (queue.py, shutdown). *)
THEOREM NoProverLeft == ShutSpec => []NoneOutlives
<1>1. StopInv => NoneOutlives
  BY DEF StopInv
<1> QED BY ShutInvariance, <1>1, PTL
=============================================================================
