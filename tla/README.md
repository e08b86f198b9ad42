# MathProver: a verification project in TLA+

MathProver is a web service that proves Lean statements with a language model.
A browser submits a statement, the server normalizes and compiles it, queues a
job, and runs a prover process that edits the proof until Lean accepts it and
SafeVerify confirms that nothing was tampered with. This directory models the
server's own logic, checks it with TLC on small instances, and proves its main
properties with TLAPS for instances of every size. Paths below are relative to
the repository; line numbers are those of the modelled commit.

## 1. Inventory

The server is one asyncio process. Code between two awaits that really suspend
runs alone; what can interleave is handlers and tasks at their awaits, the
prover and checker processes outside, and time.

| component | state | operations | talks to |
|---|---|---|---|
| HTTP handlers, `server/app.py` | none of their own | submit, cancel, poll, check, formalize, limits; the janitor every 300 s; start and stop | all below |
| Job queue, `server/jobs/queue.py` | `_queue` (asyncio.Queue), `_pending` (deque), `_running`, worker tasks | `submit`, `cancel`, `_worker`, `position`, `depth`, `full`, `shutdown` | store, runner |
| Job store, `server/jobs/store.py` | records: phase, verdict, `cancel_requested`, revision, times | `create`, `set_phase`, `prune`, lookups | written by queue, runner, status log, handlers |
| Job runner, `server/jobs/runner.py` | `proc`, `pgid`, deadline, `timed_out` | `run`, `_spawn_and_watch`, `kill`, `_finish`, `_read_result` | prover process group, result files, status log |
| Status log, `server/jobs/statuslog.py` | offset and fragment per file | `poll`, `apply` | reads what prover workers append, writes the record |
| Reference build, `server/lean/olean.py` | cached environment | `build_reference` (bounded by 300 s), `lean_env` | `lean`, `lake` |
| Checker pool, `server/lean/checkers.py` | `_free`, `_all`, per checker process, pipes, `ready` | `_warm`, `acquire`, `compile`, `_recycle`, `stop` | `checker_worker.py` over pipes |
| Normalizer, `server/lean/normalize.py` | none | `hard_rejections`, `strip_preamble`, `rewrite_unit`, `prepare` | a checker, twice |
| Formalizer, `server/llm/formalizer.py` | none | one draft, one repair | model, a checker |
| Rate limiter, `server/ratelimit.py` | a log of times per key, a log for the day | `peek`, `check`, `check_global_daily`, `sweep` | handlers, janitor |
| Client address, `server/clientip.py` | none | `client_ip`, `bucket` | handlers |
| Provers, `prover_subagent.py`, `whole_proof_subagent.py` | sketch, budget, chat history; parent: result queue | parent starts workers and takes the first success; a worker asks, edits, compiles, verifies | model, Lean, `verify.py`, `prover_events.py` |
| Web client, `web/app.js` | job shown, revision, timer | poll, cancel, open job | HTTP |

What is hard in it, and what makes each part correct:

* **Queue, store, runner.** Cancel, prover exit, deadline, build and pruning come
  in any order, and one job appears in three structures (`_queue`, `_pending`,
  `_running`) that are not changed together. Correct: no job lost or run twice;
  a cancel wins; "proved" means verified; an outcome is final; every job ends
  even with a prover that hangs; no process without an attendant.
* **Checker pool.** Requests and answers are paired by position in a pipe only,
  and a checker is handed on after failures and timeouts. Correct: one user per
  checker; a request gets its own answer; no answer left over for the next request;
  waiters are served.
* **Rate limiter.** Logs are trimmed by three operations at different times, and
  times are rounded. Correct: the limit in every window; honest `Retry-After`
  and remaining counts; the daily cap.
* **Admission** (`create_job`). Checks, an await of many seconds, then effects.
  Correct: per-client and global bounds on what is active; what was charged.
* **Shutdown.** Kills running jobs while workers go on. Correct: no prover
  left, and it ends.
* **Status log.** Reads files while they are being written by several
  processes. Correct: each event applied once and those of a thread in order, whatever
  the cuts between polls; nothing of the prover's is left unread at the end.
* **Provers.** Workers race; the parent terminates the losers; a wall-clock
  timer ends a worker abruptly. Correct: a success is reported only for a
  verified sketch; nothing changes once the parent has ended; the parent ends; budgets bind;
  an edit stays in its block, and a block is closed only when it is done.
* **Normalizer, client address.** Pure. Correct: marker pairs are balanced; every
  span of the text is kept exactly once; a forwarded address is believed only
  from a trusted peer.
* **Web client.** Polls, cancels and job changes overlap. Correct: the page
  converges to the server's state of the job it shows.

`PROJECT.json` lists the hazards one by one, at their lines, with the properties
that cover them; a hazard without a property says why.

## 2. How the modules fit together

| module | models | uses |
|---|---|---|
| `JobQueue` | queue, store, runner, submit and cancel handlers | |
| `JobService` | abstract: what users are promised of the queue | instantiated by `JobQueue` |
| `JobShutdown` | the end of the server | extends `JobQueue` |
| `Admission` | `create_job` from the request to the queue, `clientip.py` | abstracts `JobQueue` to counts, `RateLimiter` to a refusal |
| `RateLimiter` | the limiter and what handlers charge | |
| `CheckerPool` | the pool, its pipes, `checker_worker.py` | |
| `ProverRace` | both prover scripts: parent, workers, clock, verification, and the record and verdict the server makes of it | the inside of the prover that `JobQueue` sees as `leader` and `proof` |
| `StatusLog` | events from `emit()` to `apply()` through files | justifies the one order of events in `ProverRace` |
| `Normalize` | `prepare()` on a submission | |
| `Sketch` | blocks, edits, retirement in a session | extends `Normalize` |
| `WebPoll` | the job page and the handler it polls | |
| `*Proofs` | theorems about the module of that name (`JobQueueProofs` also about `JobShutdown`, and that `JobQueue` implements `JobService`) | extend it and TLAPS |
| `MC*` | instances for TLC | extend it |

## 3. The modules

### JobQueue

One module for queue, store, runner and the two job handlers, because they
share every variable. Each worker task is suspended at one place, `pc[w]`; an
action is the code from one suspension to the next.

| variable | code |
|---|---|
| `phase`, `verdict`, `cancelReq` | the `Job` record (`"none"`: the store has no record) |
| `ended` | terminal records in order of `ended_at`, the order in which `prune` drops |
| `fifo`, `pending` | `JobQueue._queue`, `JobQueue._pending` |
| `pc`, `job` | the worker tasks and `_running` |
| `leader`, `kids` | the prover process as the loop knows it, and whether other members of its group live |
| `proof` | what the prover achieved: nothing, a verified sketch, a written result file |
| `killers` | cancel handlers suspended in the grace wait of `kill()` |

`Submit`, `Cancel` and `HttpKillReturns` are the handlers; `Dequeue`, `BuildDone`,
`Spawn`, `SpawnFails`, `PollCancel`, `PollDeadline`, `GraceOver`, `CancelDone`, `Finish`,
`FinishRaises` the worker's segments; `LeaderExits`, `KidsExit`, `ProverVerifies`,
`ProverWrites` the process outside; `Janitor` the pruning. The service runs on for
ever, so an id stands for a new job once nothing in the server knows it. The status
log's part is that a verified proof may be seen without a result file (`Outcome`).

`JobService` says what users rely on: accepted jobs start in the order they were
accepted, at most `Capacity` at a time, end once, and are forgotten only after.
`Service` maps `line` to `_pending`, `running` to the jobs held by workers.

### JobShutdown

Extends `JobQueue` by the end of the server. Requests and the janitor stop when
`shutdown()` begins; the worker tasks go on while it kills the runners it has
listed, one after the other, and are cancelled after that; `run()`'s except clause
then kills what a cancelled worker was watching. `down`, `todo` and `cur` are where
`shutdown()` is, the rest of its list, and the runner whose grace it waits for.
Records that `shutdown()` marks failed may be overwritten by their runners; nobody
can read them any more, so no property is about that.

### Admission

`create_job` reads three things (jobs of the key, `full()`, the limiter's `peek`),
then waits for a checker for many seconds, then charges and submits without reading
them again. `preparing`, `queued`, `running` count the jobs of a key at each stage, `qsize`
is the asyncio.Queue (cancelled ids included); `filed`, `overlapped` and `lost` are histories:
whose requests came under which key, where two submissions were prepared at once,
and whether an accepted one found the queue full. Requests range over headers as a
client can make them arrive: none, junk, its own or another's address, straight or
through the proxy, with `X-Real-IP` or with up to `MaxForged` entries of its own in
`X-Forwarded-For`. Address arithmetic is
the `ipaddress` library's; `Net` gives each address its /56.

### RateLimiter

Each operation is one step. `hits` and `day` are the code's deques; `granted` and
`started` are histories of everything let through, which the code does not keep
and against which the logs are judged; `retryAt` remembers what a refused client
was told. Time counts ticks, `Tps` to a second, because `retry_after_s` is rounded to
seconds. The wall clock is taken not to step back.

### CheckerPool

Per checker: the pool's task on it (`task`), `ready`, process and both pipe
directions; per request: where it is, what it holds, how often it asked and
which answer it saw last. Answers carry a ticket the code does not look at; it
only serves to state `AnswersOwn`. `LongAnswers` and `StartsFail` switch two environment
behaviours on: answers beyond the 64 KiB that `readline` takes, and processes that do
not start. `AnswersOwn` and `RotationInStep` speak of the pipes, and of the time before such an
answer: then `readline` raises and may leave the rest of the line, and the checker
goes back into rotation out of step. Nor is it so that, as `checkers.py:174` has it, a crashed
checker must not go back: `drain()` to a dead process raises `ConnectionResetError`, which is no
`CheckerError` (`AskBroken`). Such a checker has no answer for anybody; it refuses requests until one
finds it reaped (`AskDead`) and has it recycled. `RotationInStep` holds with it in rotation. Both are
weaknesses of the code and listed as a hazard.
Python details modelled because results depend on them: which exceptions count as a
broken checker, that the pool's test of `ready_count` comes before the wait.

### ProverRace

`script` chooses `prover_subagent.py` ("blocks") or `whole_proof_subagent.py` ("whole"). Per
worker: `pc` (boot, session, compile, feedback, verify, write, dump, report, flush, gone), tokens and
iterations used, sketches drafted, open blocks, its result code, result file and
report; for the parent `ppc`, the number of reports taken, its exit code and, after a success, the
processes its loop has still to look at (`left`). A sketch
is its author and a number; `verified` collects those SafeVerify accepted. `shown` is
the record the server makes of the events (`StatusTailer.apply`), `verdict` what
`JobRunner._finish` makes of exit code, record and result files. A worker's clock
(`Expires`) may end it between any two actions, and so between the opening of its
result file and the writing (`Torn`). The queue of `multiprocessing` has a feeder thread, so
putting a report (`Reports`), its arrival (`Flushes`) and the exit are three actions. The loop that stops
the losers is modelled turn by turn (`Terminates`, `PassesDead`, `ParentEnds`): the others go on writing files,
reporting and running out of time meanwhile. `QuietAfterEnd` says what this is for: what `_finish` reads after the
parent's exit does not change any more. A worker its clock took before it reported is `Lost`, and the parent may
wait for it for ever (finding 2); `RunEndsUnlessLost` says that nothing else keeps the parent from its end.

### StatusLog

A file is a sequence of cells, three to a line: up to the first byte of a multi-byte
character, the rest, the newline. That is the least in which a poll can end inside a
character, inside a line or between lines. A worker has two threads that emit, without a lock: its own work and the
Timer of `_arm_wall_clock`, which emits `worker_timeout` beside it and then exits the process (`Expires`), perhaps in
the middle of the other's append. `writing` is what a thread's append under way has still
to write; a writer may die, or run out of disk, after any cell. Both threads increment `_seq`, so the numbers in the
lines of one process may repeat or come out of order; nothing reads them, and `InOrderOnce` is about
the order in which each thread emitted. `offset` and `partial` are the
tailer's; `applied` is what reached `apply()`. With the start method "fork" the workers have
the leader's resolved path and share its file, although the design is a file per
process; with "spawn" each resolves its own. The tailer swallows an `OSError` and passes the file over: until the
leader's exit another poll follows, but the last poll has none after it. What it passes over (`unread`) is lost, and
`_finish` decides without it; `DrainCovers` is about the other files.

### Normalize and Sketch

A submission is a sequence of commands, each a record of what decides the outcome: kind,
form of proof, where a `sorry` is, comments before and after. A text is a sequence
of lines, of which we keep command, part, `sorry` and marker. `prepare()` is then a
function (`Accepts`, `NormalizedLean`). A session is made of `Replace`, one replacement by block number (-1 is the
last block, as in Python; a number below minus the number of blocks raises, `ReplaceRaises`), and `Compile`: the
compile and the retirement of finished blocks from the top. A compile gives a list of errors in any order, anywhere in
the text, some without a position, which `feedback_to_error_positions` drops. One index `j` walks down this list for
all blocks (`Skip`, `Indices`) and `Done` looks only at the error where it stops. `overlooked` collects the blocks closed with
a `sorry`, or with an error placed in them that no error listed before it hides. An error below the block, listed
first, does hide it (`Hidden`), and `RetiredIsDone` excepts that.

Markers are found anywhere in a line, and neither a comment behind code nor the model's code is searched for them:
`strip_preamble` takes out lines that are a marker and nothing else, and `replace_block_by_id` inserts what it is given. So
`Submissions` and `Codes` have markers, and the history `foreign` says that one has come into the text. From then on
the pairs may be wrong: an edit can run over the next theorem's statement, blocks can be added, and a session can have no
block to work on. `OutsideKept` says what holds all the same (nothing above the first open block changes) and what holds
until then (no statement changes); `OpenBlocksShrink` and the last conjunct of `TypeOK` hold until then. TLC
finds each of the three violated without that condition, and `RetiredIsDone` without its exception.

### WebPoll

`known`, `rev`, `ended` are the server's records; `page`, `jobId`, `revision`, `timer` the page's `state`;
`chain` the chains of asynchronous calls, each waiting for its timer, for a reply, or for the
reply to a cancel. `timer` is the one timer `stopPolling()` can clear. `crossed` is a history:
a reply for another job was rendered on this page.

## 4. Runs

| run | instance | shows |
|---|---|---|
| `job_queue` | 3 jobs, 2 workers, queue of 2, 1 record kept | `TypeOK`, `PendingMatchesQueue`, `OneOwner`, `CancelWins`, `ProvedIsVerified`, `ProverIsAttended`, `OutcomeIsFinal`, `StoreBounded`, and `ImplementsService`, the refinement |
| `job_shutdown` | 2 jobs, 1 worker | `NoneOutlives`, `StillAttended`, `ShutdownEnds`, `EveryJobEnds` |
| `admission` | 3 clients, 2 keys, a proxy, queue of 4 | `KeyIsTheClients`, `ChecksHoldLater` |
| `rate_limiter` | 3 keys with limits 2, 1, 0; window of 2 ticks, day of 4, 5 ticks | `SlidingWindow`, `DailyCap`, `RetryHonoured` |
| `checker_pool` | 2 checkers, 3 requests, 2 compiles each, long answers and failing starts | `TypeOK`, `OnePlace`, `AnswersOwn`, `RotationInStep`, `WaiterServed` |
| `prover_race` | 2 workers, both scripts, 2 sketches each, 2 blocks | `ResultFilesVerified`, `NoSuccessMissed`, `QuietAfterEnd`, `ProvedIsShown`, `BlocksAddUp`, `RunEndsUnlessLost` |
| `status_log` | leader and 1 worker with its timer, 2 events a thread, 3 in all, fork and spawn | `TypeOK`, `ChunksDoNotMatter`, `DamageIsACut`, `InOrderOnce`, `DrainCovers` |
| `sketch` | 17 forms of command alone, before and after a theorem, and a triple; code with and without markers; 2 errors; 10 lines | `TypeOK`, `RetiredIsDone`, `OutsideKept`, `OpenBlocksShrink` |
| `web_poll` | 2 jobs, 2 chains, 1 failed request | `StillPolled`, `EndIsShown` |
| `kill_reaps_group` | 1 job | **violated**: finding 1 |
| `parent_blocks` | 2 workers | **violated**: finding 2 |
| `sorries_editable` | a theorem with a doc comment and one without | **violated**: finding 3 |

Why these bounds. Three jobs, two workers and a queue of two is the smallest
instance in which all workers are busy while the queue is full, a cancelled id
sits in front of a live one, and a pruned id is used again; a fourth job adds
only permutations. For shutdown and liveness one worker and two jobs have a job that
waits behind a prover that hangs and one that is started after `shutdown()` listed
the runners. Admission has a key of two addresses and one of one, two of which can fill the
queue together. Three requests on two checkers make one wait while
another's checker is being restarted; two compiles let a late answer meet a
later question. Five ticks hold more than two windows and a full day, so logs
are trimmed, refilled and trimmed again. Two workers race in every order; the second feedback exceeds the
token limit, and of two blocks one can retire before the other. Three events of three
threads give every overlap of two lines in one file with a third before or after them, and polls may end after any cell.
The 17 forms of command are those of `tests/test_normalize.py`, and
theirs with comments, two of them with a marker. Two errors are what it takes for one to hide the other, on one line
or two and left or right of the markers' columns; 10 lines are room for two theorems with a marker too many. Two jobs and two chains are a late reply for another job and the
chain a cancel adds; `StillPolled` was also checked with three chains.

`Jobs`, `MaxForged`, `MaxAsks`, `MaxNow`, `MaxPreparing`, `MaxSketches`, `MaxEvents`, `MaxTotal`, `MaxErrors`, `MaxLines`, `Shapes`, `Chains`, `MaxRev` and `MaxFails`
bound the models; `MaxQueue`, `MaxKept`, `MaxTokens`, `MaxIters`, limits and windows are the code's
settings. Deadlock is checked in `job_queue`; the other systems end, or stop when
their bounds are used up, as their configurations say. Symmetry is used in
`job_queue` alone, which has no liveness property.

Findings (details and quotations in `PROJECT.json`):

1. `kill()` waits for the leader only. If the leader dies of SIGTERM, SIGKILL is never
   sent, and a member of the group that ignores SIGTERM survives the job,
   contrary to the docstring and to what `tests/test_integration.py:189` reports.
2. A worker whose wall clock runs out leaves by `os._exit`, past the `finally` clause that
   reports; its parent counts reports and waits for ever when no other worker
   succeeds, until the server's own deadline kills the run.
3. A doc comment hides a theorem from `rewrite_unit`: beside a plain theorem the
   submission is accepted, but the hidden theorem's `sorry` is in no block and the job can only fail.

Further behaviours the models have; those that `PROJECT.json` lists as hazards are there at their line:

* a result file cut inside a UTF-8 character raises out of `_read_result` and the job
  fails although a sibling's good file is there (`FinishRaises` of `JobQueue`);
* when the last checker fails to restart, requests that already wait are never
  answered; `WaiterServed` promises service only while a checker is left;
* an answer above 64 KiB puts a checker back out of step, and one that died may be put back (see `CheckerPool`);
* overlapping submissions pass the checks together (`overlapped` in `Admission`);
* a session of "blocks" tests its token limit before a session only, so it can exceed
  it by a session's worth; only `whole` keeps it to one feedback (`WithinTokens`);
* forked workers share one status file (`StatusLog`), and with several workers the
  page may mix block counts, and show a draft of one worker as the proof
  of another if the result file could not be written (`ProvedIsShown`);
* a marker in a comment behind code is not removed by `strip_preamble`, although
  `normalize.py:183` says that such markers are never trusted, and one in the model's code is inserted
  (the schema only asks the model not to): either mispairs the blocks (`foreign` in `Sketch`);
* an error listed before another and below a block hides the other from the test whether the block is done (`Hidden`),
  and an error without a position is dropped (`NoPlace`);
* an `OSError` in the tailer's last poll loses the rest of a file for good (`unread` in `StatusLog`);
* a worker that gets unusable answers repeats its loop without a new request, until its iterations or its clock end it
  (`Unusable` in `ProverRace`);
* a late reply for another job, rendered on the open page, sets `revision` too high
  and every later poll is answered 304 (`crossed` in `WebPoll`); the second chain a
  cancel starts may go on polling after the end was shown.

## 5. Fairness

Safety runs assume none. `JobQueue!Fairness` is what the event loop gives: a ready
task runs, a timer that is due fires (`POLL_INTERVAL`, the deadline, the kill
grace), process creation returns, the build ends within its own 300 s. One await
has no bound in the code, `lake env printenv` in `lean_env`; it is assumed to end and
listed as a hazard. The prover, its children, users and the janitor promise nothing: a
prover that never exits and ignores SIGTERM is among the behaviours checked.
`CheckerPool!Fairness`: loop and timers likewise (`checker_timeout_s`, the 8 s and 10 s
of `stop()`), and a request that holds a checker goes on; no checker needs to
answer. `JobShutdown!ShutFairness`: the turns of `shutdown()`, the cancelled workers
and their grace timers. `ProverRace!FairSpec`: the wall clock, which the server always
sets, runs out; the parent and the server take steps they can take. Workers promise nothing, since the model, Lean
and SafeVerify may hang; that the parent hears of every worker or of its loss (`RunEndsUnlessLost`) takes the clock.
`WebPoll!Fairness`: timers fire, requests are answered or fail, callbacks run; users and the
server's jobs promise nothing.

## 6. Proofs

`JobQueueProofs` proves, for any finite set of jobs, any workers and any bounds,
`TypeOK`, `CancelWins`, `ProvedIsVerified`, `ProverIsAttended`, `OutcomeIsFinal` and
`OneOwner`. None of them is inductive. That a worker may end its job rests on no
other worker holding it; that rests on the queue having each id once and no id
that is running; that on submission using an id nothing knows. The inductive
invariant `IInv` joins `FifoInv` (ids queued once, none running), `EndedInv` (the list
of ended records is exact enough for `prune`), `TaskInv` (a busy worker has a job of
its own, in the phase its place tells) and `CancelInv` (a cancelled job is neither
waiting nor successful) with the properties. `OwnedInv`, the other direction (an
active job has an owner), is proved on top of it for `OneOwner`. `StoreBounded` needs
`EndedAll` too: every ended record is listed, so what `prune` keeps is all there is.

The second part of `JobQueueProofs` proves the refinement `ImplementsService` step by step. The abstract line
is `_pending`, but jobs are started from the asyncio.Queue, which also holds cancelled ids.
`LineInv` says that `_pending` has each queued job once and in the order of the asyncio.Queue: the
id a worker takes is cancelled (a stutter of the service) or the head of the line. From it
follows `PendingMatchesQueue`, and with a counting argument (`SlotsOfFirst`: so many places of
the asyncio.Queue hold jobs not cancelled) `PositionsAlwaysRight`: the place of a job in `_pending`
is its place among those the workers will start.
That a worker which takes a job leaves at most `Capacity` jobs running is a counting
argument (`RoomToRun`): owners are distinct, and the worker was not one of them.
`RecordInv` makes the abstract outcome a function of the record that never changes again.

Its last part proves `StillAttended` and `NoneOutlives` of `JobShutdown` for any jobs and workers.
`StillAttended` is inductive with the types: a worker that stops watching a job leaves
no prover of it behind (`KeepsWatch`), cancelled workers included. Once the workers are
gathered none watches, so no prover lives.

`CheckerPoolProofs` proves `OnePlace`, `AnswersOwn` and `RotationInStep` for any checkers, requests and
bounds, in two layers. `AtInv`, `PlaceInv` and `ReadyInv` say where each checker is: a
checker that no task works on is either free, once, or held, by one request. On top of it
`PipeInv`: as long as no answer was too long, a checker that no request reads has empty pipes, and
one that is read has the question, its answer, or neither. An answer that is read is then the
reader's own.

`RateLimiterProofs` proves `TypeOK`, `SlidingWindow`, `DailyCap`, `RetryHonoured` and
`HitsAreTheWindow` for every set of keys, limits (0 included), windows and clock
resolution. The argument: a log is a suffix of the history and what precedes it
has expired (`LogOf`); trimming keeps that (`LogTrimmed`); and when a log has fewer
than `limit` entries, the `limit`-th grant before now is not in it, so it has
expired (`LogGrows`). `FirstLiveExists` shows that the trimming loop is well
defined, by well-foundedness of the natural numbers. `RoundedUp` is the rounding to
whole seconds. `Promise` carries what a refused client was told.

`ProverRaceProofs` proves every safety property of `ProverRace` for any finite set of
workers and any limits. `RcInv` (a report exists only once a worker has its result) and
`CountInv` (the parent's counter is the number of reports it took) give `ParentInv`: when the
counter has reached the number of workers, each of them reported a failure, and that the
loop which terminates the losers has only processes behind it that are gone. So when the parent has ended every worker
is gone or in its last step, and `NothingAfterEnd` proves `QuietAfterEnd`.
`VerifyInv` follows a sketch from SafeVerify to the result file, `VerdictInv` from there to the
verdict; `TokenInv` and `DraftInv` bound the counters.

`WebPollProofs` proves `StillPolled` for any jobs, chains and revisions. It is inductive with the
types and `AskedInv` (a request under way is for a job): whoever ends a chain on the
page of an open job has told its end or has started another chain.

`AdmissionProofs` proves `ChecksHoldLater` for all keys and limits: `PlaceOfKey` and `PlaceInQueue` say
that a submission that was let in keeps the place it found as long as it is the
only one under way. `AlwaysUnderOwnKey` proves `KeyIsTheClients`: whatever entries a client
writes into its headers, the proxy's own entry is the last one (`LastEntryWins`), so the request
is filed under the client's key (`CallerIsClient`).

`StatusLogProofs` proves `TypeOK`, `ChunksDoNotMatter`, `DamageIsACut`, `InOrderOnce` and `DrainCovers`
for any processes, any number of events and both start methods. The writers' half
(`LinesInv`) is that one append to a file is under way at a time (`WriterInv`), that a thread writes to the one file of
its process and never mixes its line with another (`FileInv`), in order (`OrderInv`), and that an append under way
continues the end of the file (`AppendInv`). The reader's half (`TextInv`): `partial` is the text since the
last newline read (`PartialInv`), a damaged character is one a poll ended in (`CutInv`), and what was
applied are whole lines before that (`AppliedInv`). What a chunk parses to (`ParsedIs`) is an induction over
the length of the text, possible because `Parsed` is a recursive function and the naturals are well
founded. `DrainInv` follows the final drain of `runner.py:176`, after the leader's exit, to the verdict: a file is read
to where it was at that exit, or passed over for an `OSError`.

`SketchProofs` proves `TypeOK`, `RetiredIsDone`, `OutsideKept` and `OpenBlocksShrink` for submissions of any
length, code with any markers, and any number of errors of any size in any order. What each of the four leaves open is in its
statement (section 3): three of them say what holds until a marker is foreign.

`list_evolve_blocks` pairs the k-th start marker with the k-th end marker and does not look at what lies between.
Whatever the text, the blocks it gives begin one below the other (`AnyBlocks`), and the first lies below the header
(`HeaderAbove`). That is enough for what holds with any marker: a replacement and the retirement leave alone what is above the first
block (`ReplaceKeeps`, `RetireIs`), and the walk down the errors has passed only such as end before a block above
or at the one it is at (`IndicesAre`), so `NoneOverlooked`. It has the arithmetic of positions too: the header
is one import line, so errors are counted one line above where the blocks are, and the error that is missed for this reason ends
left of the marker's column in a block's first line.

As long as no marker is foreign, the pairs are what they should be. `Tidy(t, B)` says so: in the text `t` the pairs are the
blocks `B`, one after the other, with tactics and comments inside and the statements outside. `prepare()` makes such a
text (`Prepared`, from one command, `RewrittenIs` and `PieceTidy`, to all, `FlattenTidy`); a replacement by number only
moves what is below it (`SpliceMoved`, `ReplaceFollows`); blanking the markers of the first blocks leaves the others as
they were (`RetiredTidy`). `InOrder` has exactly one value (`ListsUnique`), which is why the pairs of a tidy text are
known. What these functions compute for a text of any length is shown by induction over it (`Induct`, from the
least element of a set of naturals), for which `Sketch` writes them as recursive functions.

Assumptions are those declared in the modules (finitely many job ids and
workers, at least one worker, a positive queue bound, natural limits, positive windows).

Only model-checked: liveness (`EveryJobEnds`, `ShutdownEnds`, `WaiterServed`, `RunEndsUnlessLost`,
`EndIsShown`), which rests on fairness. Every safety property of a passing run is a theorem.

## 7. Not modelled

`PROJECT.json` has every part with its status.

* The text of prompts and the quality of the model's answers (a proof either
  appears or does not), Lean and SafeVerify themselves (a sketch passes or does not),
  `compile_lean_file`'s `lake` commands: external.
* `EVOLVE-VALUE` markers: the server removes them and never writes them.
* The formalizer: one draft and one repair in sequence, without a state of its own; its use of a checker is a
  request of `CheckerPool`.
* Regular expressions of the normalizer, its ban list and its sizes: commands are taken by class.
* `pool.stop()` at shutdown, signals to a checker's process group.
* JSON views, HTML rendering, the review screen, configuration, validation of requests, deployment
  files, directory clean-up: formatting or I/O, no state of the program that two actors share.
