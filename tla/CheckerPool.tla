------------------------------ MODULE CheckerPool ------------------------------
(***************************************************************************)
(* The pool of Lean checkers (server/lean/checkers.py): long-lived         *)
(* processes (checker_worker.py) that answer compile requests in order,    *)
(* one line each, over a pipe, and that the pool lends to one HTTP request *)
(* at a time.  A checker that fails or times out is stopped and restarted  *)
(* in the background.  pool.stop() at shutdown is not in this module.      *)
(*                                                                         *)
(* An answer carries the ticket <<r, n>> of the n-th compile of request r. *)
(* The pool never looks at it: it trusts that the pipe is in step.         *)
(***************************************************************************)
EXTENDS Naturals, FiniteSets, Sequences, SequencesExt

CONSTANTS Checkers,      \* the pool's slots, settings.checker_pool_size of them
          Requests,      \* HTTP requests that need a checker, each made once
          MaxAsks,       \* compiles per request (bound)
          LongAnswers,   \* whether an answer may exceed StreamReader's limit
          StartsFail,    \* whether a checker may fail to start
          None

ASSUME MaxAsksAssumption == MaxAsks \in Nat \ {0}
ASSUME SwitchAssumption == LongAnswers \in BOOLEAN /\ StartsFail \in BOOLEAN
ASSUME NoneAssumption == None \notin Checkers

VARIABLES
  task,    \* who works on a checker: the pool's own tasks, or nobody ("idle")
  all,     \* CheckerPool._all
  ready,   \* Checker.ready
  proc,    \* its process: "died" until the loop has reaped it
  free,    \* CheckerPool._free
  inbox,   \* tickets written to the process and not answered yet
  outbox,  \* lines in the pipe back, each a ticket and how it reads
  at,      \* where a request is
  held,    \* the checker it holds
  asks,    \* how many compiles it has asked for
  got,     \* the ticket of the last answer it was given
  overlong \* history: an answer exceeded the reader's limit

pool     == <<task, all, ready, free>>
pipes    == <<proc, inbox, outbox>>
requests == <<at, held, asks, got>>
vars     == <<pool, pipes, requests, overlong>>

Tickets == Requests \X (1..MaxAsks)
Lines   == Tickets \X {"whole", "long", "tail"}
NoTicket == <<None, 0>>

TypeOK ==
  /\ task \in [Checkers -> {"warming", "idle", "toStop", "stopping", "starting", "gone"}]
  /\ all \in SUBSET Checkers
  /\ ready \in [Checkers -> BOOLEAN]
  /\ proc \in [Checkers -> {"none", "up", "died", "reaped"}]
  /\ free \in Seq(Checkers)
  /\ inbox \in [Checkers -> Seq(Tickets)]
  /\ outbox \in [Checkers -> Seq(Lines)]
  /\ at \in [Requests -> {"new", "waiting", "using", "reading", "done"}]
  /\ held \in [Requests -> Checkers \cup {None}]
  /\ asks \in [Requests -> 0..MaxAsks]
  /\ got \in [Requests -> Tickets \cup {NoTicket}]
  /\ overlong \in BOOLEAN

Init ==
  /\ task = [c \in Checkers |-> "warming"]
  /\ all = {}
  /\ ready = [c \in Checkers |-> FALSE]
  /\ proc = [c \in Checkers |-> "up"]
  /\ free = <<>>
  /\ inbox = [c \in Checkers |-> <<>>]
  /\ outbox = [c \in Checkers |-> <<>>]
  /\ at = [r \in Requests |-> "new"]
  /\ held = [r \in Requests |-> None]
  /\ asks = [r \in Requests |-> 0]
  /\ got = [r \in Requests |-> NoTicket]
  /\ overlong = FALSE

-----------------------------------------------------------------------------
(* Warm-up: every checker starts on its own; one that fails is given up. *)

WarmOk(c) ==
  /\ task[c] = "warming" /\ proc[c] = "up"
  /\ task' = [task EXCEPT ![c] = "idle"]
  /\ ready' = [ready EXCEPT ![c] = TRUE]
  /\ all' = all \cup {c}
  /\ free' = Append(free, c)
  /\ UNCHANGED <<pipes, requests, overlong>>

WarmFails(c) ==
  /\ task[c] = "warming"
  /\ StartsFail
  /\ task' = [task EXCEPT ![c] = "gone"]
  /\ proc' = [proc EXCEPT ![c] = "reaped"]
  /\ UNCHANGED <<all, ready, free, inbox, outbox, requests, overlong>>

-----------------------------------------------------------------------------
(* acquire() *)

Take(r) ==
  /\ held' = [held EXCEPT ![r] = Head(free)]
  /\ at' = [at EXCEPT ![r] = "using"]
  /\ free' = Tail(free)
  /\ UNCHANGED <<task, all, ready, pipes, asks, got, overlong>>

Refuse(r) ==   \* CheckerWarming
  /\ at[r] = "new" /\ \A c \in all : ~ready[c]
  /\ at' = [at EXCEPT ![r] = "done"]
  /\ UNCHANGED <<pool, pipes, held, asks, got, overlong>>

Acquire(r) ==
  /\ at[r] = "new" /\ \E c \in all : ready[c]
  /\ \/ free # <<>> /\ Take(r)
     \/ /\ free = <<>>
        /\ at' = [at EXCEPT ![r] = "waiting"]
        /\ UNCHANGED <<pool, pipes, held, asks, got, overlong>>

(* _free.get() resumes.  A woken waiter may find that another was faster. *)
StopWaiting(r) == at[r] = "waiting" /\ free # <<>> /\ Take(r)

Leave(r) ==
  /\ at' = [at EXCEPT ![r] = "done"]
  /\ held' = [held EXCEPT ![r] = None]
  /\ UNCHANGED <<asks, got, overlong>>

PutBackCleared(r) ==   \* mutant: the variable is cleared before the put
  /\ Leave(r)
  /\ free' = Append(free, held'[r])
  /\ UNCHANGED <<task, all, ready>>

(* The two ends of the finally clause *)
PutBack(r) ==
  /\ Leave(r)
  /\ free' = Append(free, held[r])
  /\ UNCHANGED <<task, all, ready>>

RecycleAndPutBack(r) ==   \* mutant: the put is not in the else branch
  /\ Leave(r)
  /\ task' = [task EXCEPT ![held[r]] = "toStop"]
  /\ free' = Append(free, held[r])
  /\ UNCHANGED <<all, ready>>

Recycle(r) ==
  /\ Leave(r)
  /\ task' = [task EXCEPT ![held[r]] = "toStop"]
  /\ UNCHANGED <<all, ready, free>>

-----------------------------------------------------------------------------
(* Checker.compile() on a held checker *)

Ask(r) ==
  /\ at[r] = "using" /\ asks[r] < MaxAsks /\ proc[held[r]] # "reaped"
  /\ at' = [at EXCEPT ![r] = "reading"]
  /\ asks' = [asks EXCEPT ![r] = @ + 1]
  /\ inbox' = [inbox EXCEPT ![held[r]] =
                 IF proc[held[r]] = "up" THEN Append(@, <<r, asks[r] + 1>>) ELSE @]
  /\ UNCHANGED <<pool, proc, outbox, held, got, overlong>>

AskDead(r) ==   \* "checker is not running"
  /\ at[r] = "using" /\ proc[held[r]] = "reaped"
  /\ Recycle(r)
  /\ UNCHANGED pipes

AskBroken(r) ==   \* drain() raises ConnectionResetError, no CheckerError
  /\ at[r] = "using" /\ proc[held[r]] = "died"
  /\ PutBack(r)
  /\ UNCHANGED pipes

(***************************************************************************)
(* readline() returns the first line in the pipe.  Beyond its limit it     *)
(* raises ValueError, having dropped either the whole line or only the     *)
(* part that had arrived; the rest is then read as a line of its own, and  *)
(* json.loads raises on it.  Neither is a CheckerError.                    *)
(***************************************************************************)
Read(r) ==
  /\ at[r] = "reading" /\ outbox[held[r]] # <<>>
  /\ LET c == held[r]
         line == Head(outbox[c])
     IN \/ /\ line[2] = "whole"                    \* ok: true
           /\ outbox' = [outbox EXCEPT ![c] = Tail(@)]
           /\ got' = [got EXCEPT ![r] = line[1]]
           /\ at' = [at EXCEPT ![r] = "using"]
           /\ UNCHANGED <<pool, held, asks, overlong>>
        \/ /\ line[2] = "whole"                    \* ok: false
           /\ outbox' = [outbox EXCEPT ![c] = Tail(@)]
           /\ Recycle(r)
        \/ /\ line[2] \in {"long", "tail"}         \* nothing of it is left
           /\ outbox' = [outbox EXCEPT ![c] = Tail(@)]
           /\ PutBack(r)
        \/ /\ line[2] = "long"                     \* its tail is left
           /\ outbox' = [outbox EXCEPT ![c] = <<<<line[1], "tail">>>> \o Tail(@)]
           /\ PutBack(r)
  /\ UNCHANGED <<proc, inbox>>

ReadEof(r) ==   \* "checker closed its output"
  /\ at[r] = "reading" /\ outbox[held[r]] = <<>> /\ proc[held[r]] \in {"died", "reaped"}
  /\ Recycle(r)
  /\ UNCHANGED pipes

TimeoutPutBack(r) ==   \* mutant: acquire() does not catch TimeoutError
  /\ at[r] = "reading"
  /\ PutBack(r)
  /\ UNCHANGED pipes

Timeout(r) ==
  /\ at[r] = "reading"
  /\ Recycle(r)
  /\ UNCHANGED pipes

(* The request's own code ends, in whatever way, between two compiles. *)
Done(r) ==
  /\ at[r] = "using"
  /\ PutBack(r)
  /\ UNCHANGED pipes

-----------------------------------------------------------------------------
(* _recycle() *)

StopBegins(c) ==
  /\ task[c] = "toStop"
  /\ task' = [task EXCEPT ![c] = "stopping"]
  /\ ready' = [ready EXCEPT ![c] = FALSE]
  /\ UNCHANGED <<all, free, pipes, requests, overlong>>

StopReturns(c) ==   \* and start() creates a new process, with new pipes
  /\ task[c] = "stopping"
  /\ task' = [task EXCEPT ![c] = "starting"]
  /\ proc' = [proc EXCEPT ![c] = "up"]
  /\ inbox' = [inbox EXCEPT ![c] = <<>>]
  /\ outbox' = [outbox EXCEPT ![c] = <<>>]
  /\ UNCHANGED <<all, ready, free, requests, overlong>>

RestartNoPut(c) ==   \* mutant: the restarted checker is not put back
  /\ task[c] = "starting" /\ proc[c] = "up"
  /\ task' = [task EXCEPT ![c] = "idle"]
  /\ ready' = [ready EXCEPT ![c] = TRUE]
  /\ UNCHANGED <<all, free, pipes, requests, overlong>>

RestartOk(c) ==
  /\ task[c] = "starting" /\ proc[c] = "up"
  /\ task' = [task EXCEPT ![c] = "idle"]
  /\ ready' = [ready EXCEPT ![c] = TRUE]
  /\ free' = Append(free, c)
  /\ UNCHANGED <<all, pipes, requests, overlong>>

RestartFails(c) ==
  /\ task[c] = "starting"
  /\ StartsFail
  /\ task' = [task EXCEPT ![c] = "gone"]
  /\ all' = all \ {c}
  /\ UNCHANGED <<ready, free, pipes, requests, overlong>>

-----------------------------------------------------------------------------
(* The checker process: answers in order, or dies, or does neither. *)

Answer(c) ==
  /\ proc[c] = "up" /\ inbox[c] # <<>>
  /\ \E kind \in IF LongAnswers THEN {"whole", "long"} ELSE {"whole"} :
       /\ outbox' = [outbox EXCEPT ![c] = Append(@, <<Head(inbox[c]), kind>>)]
       /\ overlong' = (overlong \/ kind = "long")
  /\ inbox' = [inbox EXCEPT ![c] = Tail(@)]
  /\ UNCHANGED <<pool, proc, requests>>

Dies(c) ==
  /\ proc[c] = "up" /\ task[c] = "idle"
  /\ proc' = [proc EXCEPT ![c] = "died"]
  /\ inbox' = [inbox EXCEPT ![c] = <<>>]
  /\ UNCHANGED <<pool, outbox, requests, overlong>>

Reaped(c) ==
  /\ proc[c] = "died"
  /\ proc' = [proc EXCEPT ![c] = "reaped"]
  /\ UNCHANGED <<pool, inbox, outbox, requests, overlong>>

-----------------------------------------------------------------------------
RequestStep(r) ==
  \/ Refuse(r) \/ Acquire(r) \/ StopWaiting(r) \/ Ask(r) \/ AskDead(r) \/ AskBroken(r)
  \/ Read(r) \/ ReadEof(r) \/ Timeout(r) \/ Done(r)

PoolStep(c) ==
  \/ WarmOk(c) \/ WarmFails(c) \/ StopBegins(c) \/ StopReturns(c)
  \/ RestartOk(c) \/ RestartFails(c)

ProcessStep(c) == Answer(c) \/ Dies(c) \/ Reaped(c)

Next ==
  \/ \E r \in Requests : RequestStep(r)
  \/ \E c \in Checkers : PoolStep(c) \/ ProcessStep(c)

Spec == Init /\ [][Next]_vars

(***************************************************************************)
(* The loop runs ready tasks, stop() and start() are bounded by timeouts,  *)
(* a read by its own, and a request gives its checker back or asks again.  *)
(* No checker needs to answer.                                             *)
(***************************************************************************)
Fairness ==
  /\ \A c \in Checkers : WF_vars(PoolStep(c))
  /\ \A r \in Requests :
       /\ WF_vars(StopWaiting(r)) /\ WF_vars(Timeout(r))
       /\ WF_vars(Done(r) \/ Ask(r) \/ AskDead(r) \/ AskBroken(r))

FairSpec == Spec /\ Fairness

-----------------------------------------------------------------------------
(* Properties *)

(***************************************************************************)
(* A checker is in one place: free once, held by one request, with a task  *)
(* of the pool, or given up.  No two requests talk to the same process     *)
(* ("the pool serializes access", checkers.py:48), and none leaks from the *)
(* rotation, whichever way a request ends.  A free one counts as ready: no *)
(* request is told "still importing Mathlib" while one is free (acquire).  *)
(***************************************************************************)
FreeIsReady == \A c \in ToSet(free) : c \in all /\ ready[c]

OnePlace ==
  /\ \A c \in Checkers :
       Cardinality({i \in DOMAIN free : free[i] = c}) + Cardinality({r \in Requests : held[r] = c})
         + (IF task[c] = "idle" THEN 0 ELSE 1) = 1
  /\ FreeIsReady

(***************************************************************************)
(* What a request goes on with is the answer to its own last question,     *)
(* although questions and answers are paired by position alone: as long as *)
(* no answer has exceeded the reader's limit.                              *)
(***************************************************************************)
AnswersOwn ==
  ~overlong =>
    \A r \in Requests :
      at[r] = "using" => got[r] = IF asks[r] = 0 THEN NoTicket ELSE <<r, asks[r]>>

(***************************************************************************)
(* A checker in rotation owes no answer and has none left over, which the  *)
(* next request would take for its own: whoever leaves with an answer to   *)
(* come has it recycled.  Only until an answer was too long, whose rest    *)
(* stays in the pipe of a checker that is put back.  And only the pipes:   *)
(* that "a wedged or crashed checker must not go back into rotation"       *)
(* (checkers.py:174) is not so.  AskBroken puts a dead one back, which     *)
(* refuses requests until one finds it reaped and has it recycled.         *)
(***************************************************************************)
RotationInStep == ~overlong => \A c \in ToSet(free) : inbox[c] = <<>> /\ outbox[c] = <<>>

(***************************************************************************)
(* A request that waits for a checker gets one, though checkers hang, die, *)
(* fail or are given up one by one, as long as there is one left.          *)
(***************************************************************************)
WaiterServed == \A r \in Requests : at[r] = "waiting" ~> at[r] # "waiting" \/ all = {}
=============================================================================
