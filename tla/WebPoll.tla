------------------------------- MODULE WebPoll -------------------------------
(***************************************************************************)
(* The job page of the web client (web/app.js) and the handler it polls    *)
(* (get_job in server/app.py).  A chain of polls asks, waits for the       *)
(* reply, and sets a timer for the next poll.  The page remembers the last *)
(* timer only, so it can stop one chain at most, and a chain reads which   *)
(* job is open, and since which revision to ask, when its timer fires: its *)
(* reply may come when another job is open.                                *)
(***************************************************************************)
EXTENDS Integers

CONSTANTS Jobs,
          Chains,     \* chains of polls that exist at once (bound)
          None,
          MaxRev,     \* revisions of a job before its last one (bound)
          MaxFails    \* requests that fail (bound)

ASSUME NoneAssumption == None \notin Jobs \cup Chains
ASSUME BoundAssumption == MaxRev \in Nat \ {0} /\ MaxFails \in Nat

VARIABLES
  known,      \* the server's: a job is "no", "yes", or "gone" from its store
  rev, ended, \* its revision, and whether its phase is terminal
  seeds,      \* submissions whose reply is under way
  page, jobId, revision, timer,   \* state.jobId, .revision, .timer (its chain)
  shown,      \* what was rendered last, and the job "expired" was said of
  chain,      \* each chain: where it is, its job, `since`, the reply under way
  fails,
  crossed     \* history: a reply of another job rendered since the page opened

server == <<known, rev, ended>>
client == <<page, jobId, revision, timer, shown, crossed>>
vars == <<server, seeds, client, chain, fails>>

NoReply == [kind |-> "none", rev |-> 0, ended |-> FALSE]
Free == [at |-> "free", job |-> None, since |-> 0, reply |-> NoReply]
Waiting == [Free EXCEPT !.at = "timer"]
Asking(j, since) == [Free EXCEPT !.at = "asked", !.job = j, !.since = since]
Answered(j, reply) == [Free EXCEPT !.at = "answered", !.job = j, !.reply = reply]

Replies == [kind : {"none", "same", "full", "unknown", "failed"},
            rev : 0..MaxRev + 1, ended : BOOLEAN]

TypeOK ==
  /\ known \in [Jobs -> {"no", "yes", "gone"}]
  /\ rev \in [Jobs -> 0..MaxRev + 1] /\ ended \in [Jobs -> BOOLEAN]
  /\ seeds \subseteq Jobs /\ fails \in 0..MaxFails
  /\ page \in {"home", "job"} /\ jobId \in Jobs \cup {None}
  /\ revision \in 0..MaxRev + 1 /\ crossed \in BOOLEAN
  /\ shown \in [job : Jobs \cup {None}, ended : BOOLEAN, expired : Jobs \cup {None}]
  /\ chain \in [Chains -> [at : {"free", "timer", "asked", "answered", "posting"},
                           job : Jobs \cup {None}, since : 0..MaxRev + 1, reply : Replies]]
  /\ timer = None \/ (timer \in Chains /\ chain[timer].at = "timer")

Init ==
  /\ known = [j \in Jobs |-> "no"] /\ rev = [j \in Jobs |-> 0]
  /\ ended = [j \in Jobs |-> FALSE] /\ seeds = {}
  /\ page = "home" /\ jobId = None /\ revision = 0 /\ timer = None
  /\ shown = [job |-> None, ended |-> FALSE, expired |-> None] /\ crossed = FALSE
  /\ chain = [k \in Chains |-> Free] /\ fails = 0

-----------------------------------------------------------------------------
(* The server *)

Creates(j) ==   \* POST /api/jobs; the reply is what openJob is given as its seed
  /\ known[j] = "no"
  /\ known' = [known EXCEPT ![j] = "yes"] /\ rev' = [rev EXCEPT ![j] = 1]
  /\ seeds' = seeds \cup {j}
  /\ UNCHANGED <<ended, client, chain, fails>>

Touches(j) ==   \* touch() and set_phase()
  /\ known[j] = "yes" /\ ~ended[j] /\ rev[j] <= MaxRev
  /\ \E final \in BOOLEAN :
       /\ final \/ rev[j] < MaxRev
       /\ ended' = [ended EXCEPT ![j] = final]
  /\ rev' = [rev EXCEPT ![j] = @ + 1]
  /\ UNCHANGED <<known, seeds, client, chain, fails>>

Forgets(j) ==   \* prune(), or a restart
  /\ known[j] = "yes"
  /\ known' = [known EXCEPT ![j] = "gone"]
  /\ UNCHANGED <<rev, ended, seeds, client, chain, fails>>

GetJob(j, since) ==
  IF known[j] # "yes" THEN [NoReply EXCEPT !.kind = "unknown"]
  ELSE IF since # 0 /\ rev[j] <= since THEN [NoReply EXCEPT !.kind = "same"]
  ELSE [kind |-> "full", rev |-> rev[j], ended |-> ended[j]]

Serves(k) ==
  /\ chain[k].at = "asked"
  /\ chain' = [chain EXCEPT ![k] = Answered(chain[k].job, GetJob(chain[k].job, chain[k].since))]
  /\ UNCHANGED <<server, seeds, client, fails>>

Fails(k) ==   \* no network, a refusal of the limiter, a proxy's error
  /\ chain[k].at = "asked" /\ fails < MaxFails
  /\ chain' = [chain EXCEPT ![k] = Answered(chain[k].job, [NoReply EXCEPT !.kind = "failed"])]
  /\ fails' = fails + 1
  /\ UNCHANGED <<server, seeds, client>>

-----------------------------------------------------------------------------
(* stopPolling() and openJob(), with a seed or from the list or the link *)

Stopped == IF timer = None THEN chain ELSE [chain EXCEPT ![timer] = Free]

HasFree(c) == \E k \in Chains : c[k].at = "free"
FreeOf(c) == CHOOSE k \in Chains : c[k].at = "free"

OpenJobAt(j, since, seeded) ==
  /\ timer' = None /\ jobId' = j /\ revision' = since /\ page' = "job" /\ crossed' = FALSE
  /\ shown' = IF seeded THEN [job |-> j, ended |-> FALSE, expired |-> None] ELSE shown
  /\ HasFree(Stopped) /\ chain' = [Stopped EXCEPT ![FreeOf(Stopped)] = Asking(j, since)]

OpenJobOnly(j, seeded) == OpenJobAt(j, revision, seeded)   \* mutant: no new revision

OpenJob(j, seeded) == OpenJobAt(j, 0, seeded)

SolveReturns(j) ==
  /\ j \in seeds /\ seeds' = seeds \ {j}
  /\ OpenJob(j, TRUE)
  /\ UNCHANGED <<server, fails>>

Selects(j) ==
  /\ known[j] # "no"
  /\ OpenJob(j, FALSE)
  /\ UNCHANGED <<server, seeds, fails>>

Leaves ==   \* "Back" and the brand keep the job, "New" does not
  /\ page = "job"
  /\ page' = "home" /\ timer' = None /\ chain' = Stopped
  /\ jobId' \in {jobId, None}
  /\ UNCHANGED <<server, seeds, revision, shown, crossed, fails>>

-----------------------------------------------------------------------------
(* poll(), from the timer to the request, and from the reply to the timer *)

Polls(k) ==
  /\ chain[k].at = "timer"
  /\ chain' = [chain EXCEPT ![k] = IF jobId = None THEN Free ELSE Asking(jobId, revision)]
  /\ timer' = IF timer = k THEN None ELSE timer
  /\ UNCHANGED <<server, seeds, page, jobId, revision, shown, crossed, fails>>

ScheduleNext(k) == chain' = [chain EXCEPT ![k] = Waiting] /\ timer' = k
Stops(k) == chain' = [chain EXCEPT ![k] = Free] /\ UNCHANGED timer

RetriesNever(k) ==   \* mutant: an error ends the chain
  /\ chain[k].reply.kind \in {"same", "failed"}
  /\ IF chain[k].reply.kind = "same" THEN ScheduleNext(k) ELSE Stops(k)
  /\ UNCHANGED <<revision, shown, crossed>>

Retries(k) ==   \* 304, or an error: nothing is rendered
  /\ chain[k].reply.kind \in {"same", "failed"}
  /\ ScheduleNext(k)
  /\ UNCHANGED <<revision, shown, crossed>>

Renders(k) ==   \* whatever job is open by now
  /\ chain[k].reply.kind = "full"
  /\ revision' = chain[k].reply.rev
  /\ shown' = [job |-> chain[k].job, ended |-> chain[k].reply.ended, expired |-> None]
  /\ crossed' = (crossed \/ chain[k].job # jobId)
  /\ IF chain[k].reply.ended THEN Stops(k) ELSE ScheduleNext(k)

Expires(k) ==   \* job_unknown
  /\ chain[k].reply.kind = "unknown"
  /\ shown' = [shown EXCEPT !.expired = chain[k].job]
  /\ crossed' = (crossed \/ chain[k].job # jobId)
  /\ Stops(k) /\ UNCHANGED revision

Replied(k) ==
  /\ chain[k].at = "answered"
  /\ Retries(k) \/ Renders(k) \/ Expires(k)
  /\ UNCHANGED <<server, seeds, page, jobId, fails>>

-----------------------------------------------------------------------------
(* doCancel(): its button shows until a terminal phase does *)

Cancels ==
  /\ page = "job" /\ ~shown.ended /\ \A k \in Chains : chain[k].at # "posting"
  /\ HasFree(chain)
  /\ chain' = [chain EXCEPT ![FreeOf(chain)] = [Free EXCEPT !.at = "posting", !.job = jobId]]
  /\ UNCHANGED <<server, seeds, client, fails>>

(* A poll in 300 ms that stopPolling() knows nothing of, unless it fails. *)
CancelReturns(k) ==
  /\ chain[k].at = "posting"
  /\ \/ known[chain[k].job] = "yes" /\ chain' = [chain EXCEPT ![k] = Waiting]
        /\ UNCHANGED fails
     \/ known[chain[k].job] # "yes" /\ chain' = [chain EXCEPT ![k] = Free] /\ UNCHANGED fails
     \/ fails < MaxFails /\ fails' = fails + 1 /\ chain' = [chain EXCEPT ![k] = Free]
  /\ UNCHANGED <<server, seeds, client>>

-----------------------------------------------------------------------------
ChainStep(k) == Polls(k) \/ Serves(k) \/ Replied(k) \/ CancelReturns(k)

Next ==
  \/ \E j \in Jobs : Creates(j) \/ Touches(j) \/ Forgets(j) \/ SolveReturns(j) \/ Selects(j)
  \/ \E k \in Chains : ChainStep(k) \/ Fails(k)
  \/ Leaves \/ Cancels

Spec == Init /\ [][Next]_vars

(* Timers fire, the server answers and the browser runs its callbacks. *)
Fairness == \A k \in Chains : WF_vars(ChainStep(k))

FairSpec == Spec /\ Fairness

-----------------------------------------------------------------------------
(* Properties *)

IsPolling(k) == chain[k].at \in {"timer", "asked", "answered"}

Told(j) == (shown.job = j /\ shown.ended) \/ shown.expired = j

Open(j) == page = "job" /\ jobId = j /\ ~crossed

(***************************************************************************)
(* An open page is polled for until it has said how its job ended, or that *)
(* it is no longer known: no order of opening, leaving, cancelling and     *)
(* late replies, and no failed request, leaves it without a chain.  (Once  *)
(* a reply for another job was rendered the page may be left with that.)   *)
(***************************************************************************)
StillPolled == \A j \in Jobs : Open(j) => Told(j) \/ \E k \in Chains : IsPolling(k)

(***************************************************************************)
(* Who keeps the page of a job open sees its end: no `since` stands above  *)
(* the job's revision and turns every reply into a 304.                    *)
(***************************************************************************)
EndIsShown ==
  \A j \in Jobs : (Open(j) /\ (ended[j] \/ known[j] = "gone")) ~> (Told(j) \/ ~Open(j))
=============================================================================
