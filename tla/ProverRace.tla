------------------------------ MODULE ProverRace ------------------------------
(***************************************************************************)
(* One run of a prover script: run_until_first_success starts the workers  *)
(* and takes their reports; each worker talks to the model, compiles and   *)
(* has its sketch verified.  prover_subagent.py ("blocks") edits EVOLVE    *)
(* blocks, whole_proof_subagent.py ("whole") rewrites the file.  The job's *)
(* record is what StatusTailer.apply makes of the events so far (all       *)
(* processes of a run share one file, see StatusLog, so there is one order *)
(* of them); the verdict is JobRunner._finish's.                           *)
(*                                                                         *)
(* A worker's wall clock (PROVER_WALL_SECONDS, always set by the server)   *)
(* may run out at any time.  A sketch is its author and a number.          *)
(***************************************************************************)
EXTENDS Integers, FiniteSets

CONSTANTS Workers,      \* --num_procs of them
          Scripts,      \* the scripts to run
          MaxTokens,    \* --token_limit, a feedback being one token
          MaxIters,     \* PROVER_MAX_ITERS, 0 for none
          MaxSketches,  \* sketches a worker may get from the model (bound)
          Blocks,       \* EVOLVE blocks of the statement
          NoSketch, Torn

ASSUME WorkersAssumption == IsFiniteSet(Workers) /\ Workers # {}
ASSUME ScriptsAssumption == Scripts \subseteq {"blocks", "whole"}
ASSUME BoundsAssumption == MaxTokens \in Nat /\ MaxIters \in Nat /\ MaxSketches \in Nat
ASSUME BlocksAssumption == Blocks \in Nat \ {0}

Sketches == Workers \X (1..MaxSketches)

ASSUME NoSketchAssumption == NoSketch # Torn /\ {NoSketch, Torn} \cap Sketches = {}

VARIABLES
  script,    \* which script runs
  pc,        \* where each worker is
  resp,      \* last_response: a usable tool call, another answer, or None
  tokens,    \* tokens_used, no further than one over the limit and one more
  iters,     \* the iterations of the whole-proof loop, counted against MaxIters
  drafts,    \* the number of the worker's current sketch, 0 for the statement
  open,      \* the blocks left in it
  rc,        \* what main() came to: "none", "ok" or "fail"
  rfile,     \* result_w<pid>.json
  report,    \* the worker's message: "none", "queued", "taken"
  ppc,       \* the parent: "waiting", "stopping" the others, "ended"
  returned,  \* num_returned_procs
  left,      \* the processes its terminating loop has not come to
  code,      \* return_code
  shown,     \* the job's record, as apply() leaves it
  verdict,   \* _finish(): verdict and proof
  verified   \* history: the sketches SafeVerify accepted

session == <<resp, tokens, iters, drafts, open>>
worker  == <<pc, session, rc, rfile, report>>
parent  == <<ppc, returned, left, code>>
vars    == <<script, worker, parent, shown, verdict, verified>>

Live  == {"boot", "opening", "recv", "compile", "verify", "write", "dump",
          "ask", "retry", "report", "flush"}
MostTokens == MaxTokens + 2

Records ==
  [phase : {"proving", "verifying"}, total : 0..Blocks, closed : Nat,
   lean : Sketches \cup {NoSketch}, safeverify : {"none", "ok", "fail"},
   result : Sketches \cup {NoSketch}]

TypeOK ==
  /\ script \in Scripts
  /\ pc \in [Workers -> Live \cup {"gone"}]
  /\ resp \in [Workers -> {"edit", "other", "none"}]
  /\ tokens \in [Workers -> 0..MostTokens] /\ iters \in [Workers -> 0..MaxIters + 1]
  /\ drafts \in [Workers -> 0..MaxSketches] /\ open \in [Workers -> 0..Blocks]
  /\ rc \in [Workers -> {"none", "ok", "fail"}]
  /\ rfile \in [Workers -> Sketches \cup {NoSketch, Torn}]
  /\ report \in [Workers -> {"none", "queued", "taken"}]
  /\ ppc \in {"waiting", "stopping", "ended"}
  /\ returned \in 0..Cardinality(Workers) /\ code \in {"none", "ok", "fail"}
  /\ left \in SUBSET Workers
  /\ shown \in Records
  /\ verdict \in [verdict : {"none", "proved", "unproved"}, lean : Sketches \cup {NoSketch}]
  /\ verified \in SUBSET Sketches

Init ==   \* all processes started, before the first get()
  /\ script \in Scripts
  /\ pc = [w \in Workers |-> "boot"]
  /\ resp = [w \in Workers |-> "none"]
  /\ tokens = [w \in Workers |-> 0] /\ iters = [w \in Workers |-> 0]
  /\ drafts = [w \in Workers |-> 0] /\ open = [w \in Workers |-> Blocks]
  /\ rc = [w \in Workers |-> "none"]
  /\ rfile = [w \in Workers |-> NoSketch]
  /\ report = [w \in Workers |-> "none"]
  /\ ppc = "waiting" /\ returned = 0 /\ left = {} /\ code = "none"
  /\ shown = [phase |-> "proving", closed |-> 0, lean |-> NoSketch, safeverify |-> "none",
              result |-> NoSketch, total |-> IF script = "blocks" THEN Blocks ELSE 0]
  /\ verdict = [verdict |-> "none", lean |-> NoSketch]
  /\ verified = {}

Sketch(w) == <<w, drafts[w]>>

Goto(w, l) == pc' = [pc EXCEPT ![w] = l]

-----------------------------------------------------------------------------
(* What apply() makes of an event *)

SketchShown(w) == [shown EXCEPT !.lean = <<w, drafts[w] + 1>>]

BlocksShown(s, count) ==   \* "blocks": the highest count seen is the total
  LET total == IF count > s.total THEN count ELSE s.total
  IN [s EXCEPT !.total = total, !.closed = total - count]

ClosedShown(s, k) == [s EXCEPT !.closed = @ + k]   \* k times "block_closed"

VerifyShown == [shown EXCEPT !.phase = IF @ = "proving" THEN "verifying" ELSE @]

ResultShown(ok) ==
  [shown EXCEPT !.safeverify = IF ok THEN "ok" ELSE "fail",
                !.phase = IF @ = "verifying" /\ ~ok THEN "proving" ELSE @]

FoundShown == [shown EXCEPT !.result = shown.lean]   \* "proof_found"

-----------------------------------------------------------------------------
(* A worker *)

(* main() returns rc, or raises and worker_function's except clause does. *)
Ends(w, result) == rc' = [rc EXCEPT ![w] = result] /\ Goto(w, "report")

Raises(w) ==   \* the server, the first request, Lean, SafeVerify's files, the network
  /\ pc[w] \in {"boot", "opening", "compile", "verify", "ask", "retry"}
  /\ Ends(w, "fail")
  /\ UNCHANGED <<script, session, rfile, report, parent, shown, verdict, verified>>

Boot(w) ==
  /\ pc[w] = "boot"
  /\ Goto(w, "opening")
  /\ UNCHANGED <<script, session, rc, rfile, report, parent, shown, verdict, verified>>

Answers == {"edit", "other"}

Opened(w) ==   \* LlmSketcher(): the first request, its errors uncaught
  /\ pc[w] = "opening"
  /\ resp' \in {[resp EXCEPT ![w] = a] : a \in Answers}
  /\ Goto(w, "recv")
  /\ UNCHANGED <<script, tokens, iters, drafts, open, rc, rfile, report, parent, shown, verdict, verified>>

Charged(w) == [tokens EXCEPT ![w] = IF @ < MostTokens THEN @ + 1 ELSE @]

WithinBudget(w) == tokens[w] <= MaxTokens

(* The whole-proof loop's two ways out.  (blocks: its session loop tests   *)
(* neither; the tests around the session come too late, see SessionOver.)  *)
NextIter(w) == IF script = "whole" /\ MaxIters > 0
               THEN [iters EXCEPT ![w] = @ + 1] ELSE iters
GoesOn(w) == script = "whole" => WithinBudget(w) /\ (MaxIters > 0 => iters[w] < MaxIters)

GivesUp(w) ==
  /\ pc[w] = "recv" /\ ~GoesOn(w)
  /\ iters' = IF WithinBudget(w) THEN NextIter(w) ELSE iters
  /\ Ends(w, "fail")
  /\ UNCHANGED <<script, resp, tokens, drafts, open, rfile, report, parent, shown, verdict, verified>>

Receive(w) ==
  /\ pc[w] = "recv" /\ GoesOn(w) /\ resp[w] = "edit" /\ drafts[w] < MaxSketches
  /\ iters' = NextIter(w)
  /\ Goto(w, "compile")
  /\ UNCHANGED <<script, resp, tokens, drafts, open, rc, rfile, report, parent, shown, verdict, verified>>

(***************************************************************************)
(* No usable tool call.  "whole" sleeps and looks at the same answer       *)
(* again; "blocks" asks for edits, unless there is no answer at all:       *)
(* is_search_replace() looks into it before it tests it for None.          *)
(***************************************************************************)
Unusable(w) ==
  /\ pc[w] = "recv" /\ GoesOn(w) /\ resp[w] # "edit"
  /\ iters' = NextIter(w)
  /\ \/ script = "whole" /\ UNCHANGED <<pc, rc>>
     \/ script = "blocks" /\ resp[w] = "other" /\ Goto(w, "ask") /\ UNCHANGED rc
     \/ script = "blocks" /\ resp[w] = "none" /\ Ends(w, "fail")
  /\ UNCHANGED <<script, resp, tokens, drafts, open, rfile, report, parent, shown, verdict, verified>>

CompiledBlocksCounted(w) ==   \* mutant: "blocks" counts what the retirement left
  /\ pc[w] = "compile" /\ script = "blocks"
  /\ \E k \in 0..open[w] :
       /\ open' = [open EXCEPT ![w] = @ - k]
       /\ IF k = open[w] THEN Goto(w, "verify") /\ UNCHANGED tokens
                         ELSE Goto(w, "ask") /\ tokens' = Charged(w)
       /\ shown' = ClosedShown(BlocksShown(SketchShown(w), open[w] - k), k)
  /\ drafts' = [drafts EXCEPT ![w] = @ + 1]
  /\ UNCHANGED <<script, resp, iters, rc, rfile, report, parent, verdict, verified>>

(***************************************************************************)
(* The edit applied and compiled.  "blocks" retires blocks from the top    *)
(* down to the first that is not done; with none left the session is over  *)
(* (blocks_exhausted) and the sketch goes to SafeVerify.                   *)
(***************************************************************************)
CompiledBlocks(w) ==
  /\ pc[w] = "compile" /\ script = "blocks"
  /\ \E k \in 0..open[w] :
       /\ open' = [open EXCEPT ![w] = @ - k]
       /\ IF k = open[w]
          THEN /\ Goto(w, "verify") /\ UNCHANGED tokens
               /\ shown' = [ClosedShown(BlocksShown(SketchShown(w), open[w]), k)
                             EXCEPT !.phase = VerifyShown.phase]
          ELSE /\ Goto(w, "ask") /\ tokens' = Charged(w)
               /\ shown' = ClosedShown(BlocksShown(SketchShown(w), open[w]), k)
  /\ drafts' = [drafts EXCEPT ![w] = @ + 1]
  /\ UNCHANGED <<script, resp, iters, rc, rfile, report, parent, verdict, verified>>

(* "whole": a sketch without errors and sorries goes to SafeVerify. *)
CompiledWhole(w) ==
  /\ pc[w] = "compile" /\ script = "whole"
  /\ \/ Goto(w, "verify") /\ UNCHANGED tokens
        /\ shown' = [SketchShown(w) EXCEPT !.phase = VerifyShown.phase]
     \/ Goto(w, "ask") /\ tokens' = Charged(w) /\ shown' = SketchShown(w)
  /\ drafts' = [drafts EXCEPT ![w] = @ + 1]
  /\ UNCHANGED <<script, resp, iters, open, rc, rfile, report, parent, verdict, verified>>

(* send(): an API error other than 400 leaves None in last_response. *)
Answered(w) ==
  /\ pc[w] \in {"ask", "retry"}
  /\ resp' \in {[resp EXCEPT ![w] = a] : a \in Answers \cup {"none"}}
  /\ Goto(w, "recv")
  /\ UNCHANGED <<script, tokens, iters, drafts, open, rc, rfile, report, parent, shown, verdict, verified>>

Rejected(w) ==   \* a 400: half the history is dropped and the request made again
  /\ pc[w] = "ask"
  /\ Goto(w, "retry")
  /\ UNCHANGED <<script, session, rc, rfile, report, parent, shown, verdict, verified>>

Verified(w) ==
  /\ pc[w] = "verify"
  /\ verified' = verified \cup {Sketch(w)}
  /\ shown' = ResultShown(TRUE)
  /\ Goto(w, "write")
  /\ UNCHANGED <<script, session, rc, rfile, report, parent, verdict>>

NotVerifiedWrites(w) ==   \* mutant: the outcome of verify_integrity is ignored
  /\ pc[w] = "verify"
  /\ shown' = ResultShown(FALSE)
  /\ Goto(w, "write")
  /\ UNCHANGED <<script, session, rc, rfile, report, parent, verdict, verified>>

(***************************************************************************)
(* SafeVerify refuses the sketch, times out, or it does not compile.       *)
(* "whole" goes on.  "blocks" leaves prover_subagent's loop as well:       *)
(* blocks_exhausted stays set, whatever the budget.                        *)
(***************************************************************************)
NotVerified(w) ==
  /\ pc[w] = "verify"
  /\ shown' = ResultShown(FALSE)
  /\ tokens' = Charged(w)
  /\ IF script = "whole" THEN Goto(w, "ask") /\ UNCHANGED rc ELSE Ends(w, "fail")
  /\ UNCHANGED <<script, resp, iters, drafts, open, rfile, report, parent, verdict, verified>>

(* write_result(): open, dump; an OSError of either is swallowed. *)
OpensResult(w) ==
  /\ pc[w] = "write"
  /\ rfile' = [rfile EXCEPT ![w] = Torn]
  /\ Goto(w, "dump")
  /\ UNCHANGED <<script, session, rc, report, parent, shown, verdict, verified>>

WritesResult(w) ==
  /\ pc[w] = "dump"
  /\ rfile' = [rfile EXCEPT ![w] = Sketch(w)]
  /\ shown' = FoundShown
  /\ Ends(w, "ok")
  /\ UNCHANGED <<script, session, report, parent, verdict, verified>>

WriteFails(w) ==
  /\ pc[w] \in {"write", "dump"}
  /\ shown' = FoundShown
  /\ Ends(w, "ok")
  /\ UNCHANGED <<script, session, rfile, report, parent, verdict, verified>>

(* result_queue.put(): a feeder thread does the writing. *)
Reports(w) ==
  /\ pc[w] = "report"
  /\ Goto(w, "flush")
  /\ UNCHANGED <<script, session, rc, rfile, report, parent, shown, verdict, verified>>

Flushes(w) ==
  /\ pc[w] = "flush" /\ report[w] = "none"
  /\ report' = [report EXCEPT ![w] = "queued"]
  /\ UNCHANGED <<script, pc, session, rc, rfile, parent, shown, verdict, verified>>

Exits(w) ==
  /\ pc[w] = "flush" /\ report[w] # "none"
  /\ Goto(w, "gone")
  /\ UNCHANGED <<script, session, rc, rfile, report, parent, shown, verdict, verified>>

Expires(w) ==   \* os._exit(2), wherever the main thread is
  /\ pc[w] \in Live
  /\ Goto(w, "gone")
  /\ UNCHANGED <<script, session, rc, rfile, report, parent, shown, verdict, verified>>

-----------------------------------------------------------------------------
(* The parent, and the runner once it has exited *)

TakesLeavingOthers(w) ==   \* mutant: the others are left running
  /\ ppc = "waiting" /\ report[w] = "queued"
  /\ report' = [report EXCEPT ![w] = "taken"]
  /\ code' = rc[w] /\ returned' = returned + 1
  /\ ppc' = IF rc[w] = "ok" \/ returned' = Cardinality(Workers) THEN "ended" ELSE "waiting"
  /\ UNCHANGED <<script, pc, session, rc, rfile, left, shown, verdict, verified>>

TakesFirstOnly(w) ==   \* mutant: the first report decides
  /\ ppc = "waiting" /\ report[w] = "queued"
  /\ report' = [report EXCEPT ![w] = "taken"]
  /\ code' = rc[w] /\ returned' = returned + 1
  /\ ppc' = IF rc[w] = "ok" THEN "stopping" ELSE "ended"
  /\ left' = IF rc[w] = "ok" THEN Workers ELSE left
  /\ UNCHANGED <<script, pc, session, rc, rfile, shown, verdict, verified>>

TakesMiscounting(w) ==   \* mutant: only a success is counted
  /\ ppc = "waiting" /\ report[w] = "queued"
  /\ report' = [report EXCEPT ![w] = "taken"]
  /\ code' = rc[w] /\ returned' = returned + (IF rc[w] = "ok" THEN 1 ELSE 0)
  /\ ppc' = IF rc[w] = "ok" THEN "stopping"
            ELSE IF returned' = Cardinality(Workers) THEN "ended" ELSE "waiting"
  /\ left' = IF rc[w] = "ok" THEN Workers ELSE left
  /\ UNCHANGED <<script, pc, session, rc, rfile, shown, verdict, verified>>

(* One get() and the loop's test.  (The order of the queue makes no        *)
(* difference: a success ends the loop, failures are only counted.)        *)
Takes(w) ==
  /\ ppc = "waiting" /\ report[w] = "queued"
  /\ report' = [report EXCEPT ![w] = "taken"]
  /\ code' = rc[w] /\ returned' = returned + 1
  /\ ppc' = IF rc[w] = "ok" THEN "stopping"
            ELSE IF returned' = Cardinality(Workers) THEN "ended" ELSE "waiting"
  /\ left' = IF rc[w] = "ok" THEN Workers ELSE left
  /\ UNCHANGED <<script, pc, session, rc, rfile, shown, verdict, verified>>

(***************************************************************************)
(* After a success the parent goes through its processes, the workers at   *)
(* work meanwhile: terminate() and join() of one that is alive when its    *)
(* turn comes, nothing for one that is not.  (Any order for the list's.)   *)
(***************************************************************************)
Terminates(w) ==
  /\ ppc = "stopping" /\ w \in left /\ pc[w] \in Live
  /\ Goto(w, "gone")
  /\ left' = left \ {w}
  /\ UNCHANGED <<script, session, rc, rfile, report, ppc, returned, code, shown, verdict, verified>>

PassesDead(w) ==
  /\ ppc = "stopping" /\ w \in left /\ pc[w] \notin Live
  /\ left' = left \ {w}
  /\ UNCHANGED <<script, worker, ppc, returned, code, shown, verdict, verified>>

ParentEnds ==
  /\ ppc = "stopping" /\ left = {}
  /\ ppc' = "ended"
  /\ UNCHANGED <<script, worker, returned, left, code, shown, verdict, verified>>

Results == {w \in Workers : rfile[w] \in Sketches}

FinishByExit ==   \* mutant: the exit status decides
  /\ ppc = "ended" /\ verdict.verdict = "none"
  /\ verdict' = IF code = "ok" THEN [verdict |-> "proved", lean |-> shown.result]
                               ELSE [verdict |-> "unproved", lean |-> NoSketch]
  /\ UNCHANGED <<script, worker, parent, shown, verified>>

(***************************************************************************)
(* _finish() after the script's exit: a result file that parses decides;   *)
(* without one, exit status 0 and a successful last verification do, and   *)
(* the proof is the sketch shown when proof_found was read.                *)
(***************************************************************************)
Finish ==
  /\ ppc = "ended" /\ verdict.verdict = "none"
  /\ \/ \E w \in Results : verdict' = [verdict |-> "proved", lean |-> rfile[w]]
     \/ /\ Results = {} /\ code = "ok" /\ shown.safeverify = "ok"
        /\ verdict' = [verdict |-> "proved", lean |-> shown.result]
     \/ /\ Results = {} /\ ~(code = "ok" /\ shown.safeverify = "ok")
        /\ verdict' = [verdict |-> "unproved", lean |-> NoSketch]
  /\ UNCHANGED <<script, worker, parent, shown, verified>>

-----------------------------------------------------------------------------
WorkerStep(w) ==
  \/ Raises(w) \/ Boot(w) \/ Opened(w) \/ GivesUp(w) \/ Receive(w) \/ Unusable(w)
  \/ CompiledBlocks(w) \/ CompiledWhole(w) \/ Answered(w) \/ Rejected(w)
  \/ Verified(w) \/ NotVerified(w) \/ OpensResult(w) \/ WritesResult(w) \/ WriteFails(w)
  \/ Reports(w) \/ Flushes(w) \/ Exits(w)

ParentStep == ParentEnds \/ \E w \in Workers : Takes(w) \/ Terminates(w) \/ PassesDead(w)

Next ==
  \/ \E w \in Workers : WorkerStep(w) \/ Expires(w)
  \/ ParentStep
  \/ Finish

Spec == Init /\ [][Next]_vars

(* The wall clock runs out on a worker that is still there; processes that *)
(* can go on do.                                                           *)
FairSpec ==
  /\ Spec
  /\ \A w \in Workers : WF_vars(Expires(w))
  /\ WF_vars(ParentStep) /\ WF_vars(Finish)

-----------------------------------------------------------------------------
(* Properties *)

(***************************************************************************)
(* A result file that parses holds a sketch SafeVerify has accepted, also  *)
(* if its writer ran out of time or was terminated on the way: what is     *)
(* half written does not parse.  _finish() trusts it over everything else. *)
(***************************************************************************)
ResultFilesVerified == \A w \in Results : rfile[w] \in verified

(***************************************************************************)
(* "Block and wait": if the run fails, every worker reported a failure.    *)
(* No success is lost because failures came in first.                      *)
(***************************************************************************)
NoSuccessMissed == ppc = "ended" /\ code # "ok" => \A w \in Workers : rc[w] = "fail"

(***************************************************************************)
(* Once the parent has exited nothing writes a result file, an event or a  *)
(* verification any more, whether it was stopped by a success or by every  *)
(* worker's failure: _finish() reads what will stay.  (The terminating     *)
(* loop comes to every process, whatever the others do meanwhile, and a    *)
(* worker reports a failure only after its last write.)                    *)
(***************************************************************************)
QuietAfterEnd == [][ppc = "ended" => UNCHANGED <<rfile, shown, verified>>]_vars

(***************************************************************************)
(* A job is "proved" only if SafeVerify accepted a sketch in this run; and *)
(* the proof the user is given is such a sketch, unless the result file    *)
(* could not be written, when it is what the page showed last, which may   *)
(* be another worker's draft.                                              *)
(***************************************************************************)
ProvedIsShown ==
  verdict.verdict = "proved" =>
    /\ verified # {}
    /\ verdict.lean \in verified \/ Results = {}

(***************************************************************************)
(* While one worker has sent all the block counts, they add up: what is    *)
(* closed and what that worker has left make up the total.  (Counts of     *)
(* several workers are about different sketches, and are mixed.)           *)
(***************************************************************************)
BlocksAddUp ==
  script = "blocks" =>
    \A w \in Workers : (\A v \in Workers \ {w} : drafts[v] = 0)
                           => shown.total = shown.closed + open[w]

(***************************************************************************)
(* "--token_limit: Maximum number of tokens allowed" (prover_subagent.py   *)
(* :797), which is tested before a session or an iteration: one feedback   *)
(* may come on top.                                                        *)
(***************************************************************************)
TokenLimit == \A w \in Workers : tokens[w] <= MaxTokens + 1

(* The whole-proof loop keeps to it. *)
WholeProofTokenLimit == script = "whole" => TokenLimit

(* Its clock took the worker before its report was in the queue. *)
Lost(w) == pc[w] = "gone" /\ report[w] = "none"

(***************************************************************************)
(* Unless it waits for the report of a worker that is lost, the parent     *)
(* comes to its end: every other failure is counted, and the loop that     *)
(* terminates the losers does not get stuck on them.                       *)
(***************************************************************************)
RunEndsUnlessLost ==
  <>[](ppc = "ended" \/ (ppc = "waiting" /\ \E w \in Workers : Lost(w)))

(***************************************************************************)
(* "Always report.  Without this the parent blocks forever on queue.get()" *)
(* (prover_subagent.py:734): the parent ends.                              *)
(***************************************************************************)
RunEnds == <>(ppc = "ended")
=============================================================================
