---------------------------- MODULE WebPollProofs ----------------------------
(***************************************************************************)
(* Proofs about WebPoll for any jobs, any number of chains and of failed   *)
(* requests: types, and that an open page is polled for.  The second is    *)
(* inductive with the first: a chain that stops has told the page the end  *)
(* of its own job, and if another job is open by then, the page counts as  *)
(* crossed; the one chain that stopPolling() takes away is replaced by a   *)
(* new one, or the page is left.                                           *)
(***************************************************************************)
EXTENDS WebPoll, TLAPS

Chain == [at : {"free", "timer", "asked", "answered", "posting"},
          job : Jobs \cup {None}, since : 0..MaxRev + 1, reply : Replies]

(* A request is for a job: poll() asks for none without one. *)
AskedInv == \A k \in Chains : chain[k].at = "asked" => chain[k].job \in Jobs

IInv == TypeOK /\ AskedInv /\ StillPolled

USE NoneAssumption, BoundAssumption

(* The replies a chain may get, and the records it may be. *)
LEMMA NoReplyType ==
  ASSUME NEW what \in {"none", "same", "unknown", "failed"}
  PROVE  [NoReply EXCEPT !.kind = what] \in Replies /\ NoReply \in Replies
<1>1. NoReply \in Replies
  BY DEF NoReply, Replies
<1>2. \A r \in Replies : [r EXCEPT !.kind = what] \in Replies
  BY DEF Replies
<1> QED
  BY <1>1, <1>2

LEMMA IdleTypes ==
  /\ NoReply \in Replies /\ 0 \in 0..MaxRev + 1
  /\ Free \in Chain /\ Waiting \in Chain /\ Free.at = "free" /\ Waiting.at = "timer"
<1>1. NoReply \in Replies
  BY NoReplyType
<1>2. Free \in Chain /\ Free.at = "free"
  BY <1>1 DEF Free, Chain
<1>3. \A c \in Chain : [c EXCEPT !.at = "timer"] \in Chain /\ [c EXCEPT !.at = "timer"].at = "timer"
  BY DEF Chain
<1> QED
  BY <1>1, <1>2, <1>3 DEF Waiting

LEMMA AskingType ==
  ASSUME NEW j \in Jobs \cup {None}, NEW since \in 0..MaxRev + 1
  PROVE  /\ Asking(j, since) \in Chain
         /\ Asking(j, since).at = "asked" /\ Asking(j, since).job = j
<1>1. ASSUME NEW c \in Chain
      PROVE  /\ [c EXCEPT !.at = "asked", !.job = j, !.since = since] \in Chain
             /\ [c EXCEPT !.at = "asked", !.job = j, !.since = since].at = "asked"
             /\ [c EXCEPT !.at = "asked", !.job = j, !.since = since].job = j
  BY DEF Chain
<1> QED
  BY <1>1, IdleTypes DEF Asking

LEMMA AnsweredType ==
  ASSUME NEW j \in Jobs \cup {None}, NEW reply \in Replies
  PROVE  Answered(j, reply) \in Chain /\ Answered(j, reply).at = "answered"
<1>1. ASSUME NEW c \in Chain
      PROVE  /\ [c EXCEPT !.at = "answered", !.job = j, !.reply = reply] \in Chain
             /\ [c EXCEPT !.at = "answered", !.job = j, !.reply = reply].at = "answered"
  BY DEF Chain
<1> QED
  BY <1>1, IdleTypes DEF Answered

LEMMA PostingType ==
  ASSUME NEW j \in Jobs \cup {None}
  PROVE  /\ [Free EXCEPT !.at = "posting", !.job = j] \in Chain
         /\ [Free EXCEPT !.at = "posting", !.job = j].at = "posting"
<1>1. ASSUME NEW c \in Chain
      PROVE  /\ [c EXCEPT !.at = "posting", !.job = j] \in Chain
             /\ [c EXCEPT !.at = "posting", !.job = j].at = "posting"
  BY DEF Chain
<1> QED
  BY <1>1, IdleTypes

LEMMA ReplyTypes ==
  ASSUME TypeOK, NEW j \in Jobs, NEW since \in 0..MaxRev + 1
  PROVE  GetJob(j, since) \in Replies
<1>1. [NoReply EXCEPT !.kind = "unknown"] \in Replies /\ [NoReply EXCEPT !.kind = "same"] \in Replies
  BY NoReplyType
<1>2. [kind |-> "full", rev |-> rev[j], ended |-> ended[j]] \in Replies
  BY DEF TypeOK, Replies
<1> QED
  BY <1>1, <1>2 DEF GetJob

(* A chain that is free can be had when there is one. *)
LEMMA FreeOfIsFree ==
  ASSUME NEW c, HasFree(c)
  PROVE  FreeOf(c) \in Chains /\ c[FreeOf(c)].at = "free"
BY DEF HasFree, FreeOf

(* stopPolling() frees the chain whose timer the page knows. *)
LEMMA StoppedTypes ==
  ASSUME TypeOK
  PROVE  /\ Stopped \in [Chains -> Chain]
         /\ \A k \in Chains : Stopped[k] = chain[k] \/ Stopped[k].at = "free"
<1>1. Free \in Chain /\ Free.at = "free"
  BY IdleTypes
<1>2. chain \in [Chains -> Chain]
  BY DEF TypeOK, Chain
<1> HIDE DEF Free
<1> QED
  BY <1>1, <1>2 DEF Stopped, TypeOK

-----------------------------------------------------------------------------
LEMMA InitInv == Init => IInv
<1>1. Free \in Chain /\ Free.at = "free"
  BY IdleTypes
<1>2. Init => chain \in [Chains -> Chain] /\ AskedInv
  BY <1>1 DEF Init, AskedInv
<1>3. Init => shown \in [job : Jobs \cup {None}, ended : BOOLEAN, expired : Jobs \cup {None}]
  BY DEF Init
<1>4. Init => TypeOK
  <2> SUFFICES ASSUME Init PROVE TypeOK
    OBVIOUS
  <2>1. /\ known \in [Jobs -> {"no", "yes", "gone"}] /\ ended \in [Jobs -> BOOLEAN]
        /\ rev \in [Jobs -> 0..MaxRev + 1] /\ seeds \subseteq Jobs /\ fails \in 0..MaxFails
    BY DEF Init
  <2>2. /\ page \in {"home", "job"} /\ jobId \in Jobs \cup {None} /\ timer = None
        /\ revision \in 0..MaxRev + 1
    BY DEF Init
  <2>3. crossed \in BOOLEAN
    BY DEF Init
  <2> QED BY <1>2, <1>3, <2>1, <2>2, <2>3 DEF TypeOK, Chain
<1> QED
  BY <1>2, <1>4 DEF Init, IInv, StillPolled, Open

(* The server's steps leave the page and its chains alone. *)
LEMMA ServerInv ==
  ASSUME IInv, NEW j \in Jobs, Creates(j) \/ Touches(j) \/ Forgets(j)
  PROVE  IInv'
<1>1. client' = client /\ chain' = chain /\ fails' = fails
  BY DEF Creates, Touches, Forgets
<1>2. StillPolled'
  BY <1>1 DEF IInv, StillPolled, Open, Told, IsPolling, client
<1>3. AskedInv'
  BY <1>1 DEF IInv, AskedInv
<1>4. TypeOK'
  <2>1. CASE Creates(j)
    BY <1>1, <2>1 DEF IInv, TypeOK, Creates, client
  <2>2. CASE Touches(j)
    BY <1>1, <2>2 DEF IInv, TypeOK, Touches, client
  <2>3. CASE Forgets(j)
    BY <1>1, <2>3 DEF IInv, TypeOK, Forgets, client
  <2> QED BY <2>1, <2>2, <2>3
<1> QED BY <1>2, <1>3, <1>4 DEF IInv

(* Opening a page starts a chain for it. *)
LEMMA OpenInv ==
  ASSUME IInv, NEW j \in Jobs, NEW seeded \in BOOLEAN, OpenJob(j, seeded),
         UNCHANGED <<server, fails>>, seeds' \subseteq Jobs
  PROVE  IInv'
<1> DEFINE k == FreeOf(Stopped)
<1>1. k \in Chains /\ Stopped \in [Chains -> Chain] /\ Asking(j, 0) \in Chain
        /\ Asking(j, 0).at = "asked"
  BY FreeOfIsFree, StoppedTypes, AskingType, IdleTypes DEF OpenJob, OpenJobAt, IInv
<1>2. chain' = [Stopped EXCEPT ![k] = Asking(j, 0)] /\ timer' = None /\ jobId' = j
        /\ revision' = 0 /\ page' = "job" /\ crossed' = FALSE
  BY DEF OpenJob, OpenJobAt
<1>3. chain' \in [Chains -> Chain] /\ chain'[k].at = "asked"
  BY <1>1, <1>2
<1>4. shown' \in [job : Jobs \cup {None}, ended : BOOLEAN, expired : Jobs \cup {None}]
  BY DEF OpenJob, OpenJobAt, IInv, TypeOK
<1>5. TypeOK'
  BY <1>2, <1>3, <1>4, IdleTypes DEF IInv, TypeOK, Chain, server
<1>6. StillPolled'
  BY <1>1, <1>3 DEF StillPolled, IsPolling
<1>7. AskedInv'
  <2>1. \A i \in Chains : i # k => chain'[i] = Stopped[i]
    BY <1>1, <1>2
  <2>2. \A i \in Chains : Stopped[i].at = "asked" => Stopped[i].job \in Jobs
    BY StoppedTypes DEF IInv, AskedInv
  <2>3. chain'[k].job = j
    BY <1>1, <1>2, AskingType, IdleTypes
  <2> QED BY <2>1, <2>2, <2>3 DEF AskedInv
<1> QED BY <1>5, <1>6, <1>7 DEF IInv

LEMMA LeavesInv == ASSUME IInv, Leaves PROVE IInv'
<1>1. Stopped \in [Chains -> Chain]
  BY StoppedTypes DEF IInv
<1>2. TypeOK'
  BY <1>1 DEF Leaves, IInv, TypeOK, Chain, server
<1>3. StillPolled'
  BY DEF Leaves, StillPolled, Open
<1>4. AskedInv'
  BY StoppedTypes DEF Leaves, IInv, AskedInv
<1> QED BY <1>2, <1>3, <1>4 DEF IInv

-----------------------------------------------------------------------------
(* From the timer to the request, which is for the job that is open. *)
LEMMA PollsInv == ASSUME IInv, NEW k \in Chains, Polls(k) PROVE IInv'
<1> DEFINE new == IF jobId = None THEN Free ELSE Asking(jobId, revision)
<1>1. /\ new \in Chain
      /\ IF jobId = None THEN new.at = "free" ELSE new.at = "asked" /\ new.job = jobId
  BY IdleTypes, AskingType DEF IInv, TypeOK
<1>2. chain' = [chain EXCEPT ![k] = new] /\ chain \in [Chains -> Chain]
  BY DEF Polls, IInv, TypeOK, Chain
<1> HIDE DEF new
<1>3. chain' \in [Chains -> Chain] /\ chain'[k] = new
        /\ \A i \in Chains \ {k} : chain'[i] = chain[i]
  BY <1>1, <1>2
<1>4. TypeOK'
  BY <1>3 DEF Polls, IInv, TypeOK, Chain, server
<1>5. StillPolled'
  BY <1>1, <1>3 DEF Polls, IInv, TypeOK, StillPolled, Open, Told, IsPolling
<1>6. AskedInv'
  BY <1>1, <1>3 DEF IInv, TypeOK, AskedInv
<1> QED BY <1>4, <1>5, <1>6 DEF IInv

(* A step that changes one chain, and the page not at all. *)
LEMMA ChainInv ==
  ASSUME IInv, NEW k \in Chains, NEW new \in Chain,
         chain' = [chain EXCEPT ![k] = new],
         chain[k].at # "timer", new.at # "asked",
         chain[k].at \in {"asked", "answered"} => new.at \in {"timer", "asked", "answered"},
         UNCHANGED <<server, seeds, client>>, fails' \in 0..MaxFails
  PROVE  IInv'
<1>1. chain \in [Chains -> Chain]
  BY DEF IInv, TypeOK, Chain
<1>2. chain' \in [Chains -> Chain] /\ chain'[k] = new
        /\ \A i \in Chains \ {k} : chain'[i] = chain[i]
  BY <1>1
<1>3. TypeOK'
  BY <1>2 DEF IInv, TypeOK, Chain, server, client
<1>4. \A i \in Chains : IsPolling(i) => IsPolling(i)'
  BY <1>2 DEF IsPolling
<1>5. StillPolled'
  BY <1>4 DEF IInv, StillPolled, Open, Told, client
<1>6. AskedInv'
  BY <1>2 DEF IInv, AskedInv
<1> QED BY <1>3, <1>5, <1>6 DEF IInv

LEMMA RequestInv == ASSUME IInv, NEW k \in Chains, Serves(k) \/ Fails(k) PROVE IInv'
<1>1. chain[k] \in Chain /\ chain[k].at = "asked"
  BY DEF Serves, Fails, IInv, TypeOK, Chain
<1>2. PICK reply \in Replies :
        chain' = [chain EXCEPT ![k] = Answered(chain[k].job, reply)]
  <2>1. CASE Fails(k)
    <3>1. [NoReply EXCEPT !.kind = "failed"] \in Replies
      BY NoReplyType
    <3> QED BY <2>1, <3>1 DEF Fails
  <2>2. CASE Serves(k)
    <3>1. GetJob(chain[k].job, chain[k].since) \in Replies
      BY <1>1, ReplyTypes DEF IInv, AskedInv, Chain
    <3> QED BY <2>2, <3>1 DEF Serves
  <2> QED BY <2>1, <2>2
<1> DEFINE new == Answered(chain[k].job, reply)
<1>3. new \in Chain /\ new.at = "answered"
  BY <1>1, AnsweredType DEF Chain
<1>4. UNCHANGED <<server, seeds, client>> /\ fails' \in 0..MaxFails
  BY DEF Serves, Fails, IInv, TypeOK
<1> HIDE DEF new
<1> QED BY <1>1, <1>2, <1>3, <1>4, ChainInv DEF new

(***************************************************************************)
(* A reply: rendered on whatever page is open, it tells that page the end  *)
(* of its job, or the page counts as crossed, or the chain goes on.        *)
(***************************************************************************)
LEMMA RepliedInv == ASSUME IInv, NEW k \in Chains, Replied(k) PROVE IInv'
<1>1. /\ chain \in [Chains -> Chain] /\ chain[k] \in Chain /\ chain[k].at = "answered"
      /\ Free \in Chain /\ Waiting \in Chain /\ Free.at = "free" /\ Waiting.at = "timer"
  BY IdleTypes DEF Replied, IInv, TypeOK, Chain
<1>2. UNCHANGED <<server, seeds, page, jobId, fails>>
  BY DEF Replied
<1>3. /\ revision' \in 0..MaxRev + 1 /\ crossed' \in BOOLEAN
        /\ shown' \in [job : Jobs \cup {None}, ended : BOOLEAN, expired : Jobs \cup {None}]
  <2>1. chain[k].job \in Jobs \cup {None} /\ chain[k].reply.rev \in 0..MaxRev + 1
          /\ chain[k].reply.ended \in BOOLEAN
    BY <1>1 DEF Chain, Replies
  <2>2. CASE Retries(k)
    BY <2>2 DEF Retries, IInv, TypeOK
  <2>3. CASE Renders(k)
    BY <2>1, <2>3 DEF Renders, IInv, TypeOK
  <2>4. CASE Expires(k)
    <3>1. \A s \in [job : Jobs \cup {None}, ended : BOOLEAN, expired : Jobs \cup {None}],
             j \in Jobs \cup {None} :
            [s EXCEPT !.expired = j] \in [job : Jobs \cup {None}, ended : BOOLEAN, expired : Jobs \cup {None}]
      OBVIOUS
    <3>2. shown' = [shown EXCEPT !.expired = chain[k].job] /\ revision' = revision
            /\ crossed' = (crossed \/ chain[k].job # jobId)
      BY <2>4 DEF Expires
    <3> QED BY <2>1, <3>1, <3>2 DEF IInv, TypeOK
  <2> QED BY <2>2, <2>3, <2>4 DEF Replied
<1>4. CASE ScheduleNext(k)
  <2>1. /\ chain' \in [Chains -> Chain] /\ chain'[k].at = "timer" /\ timer' = k
        /\ \A i \in Chains \ {k} : chain'[i] = chain[i]
    BY <1>1, <1>4 DEF ScheduleNext
  <2>2. /\ revision' \in 0..MaxRev + 1 /\ crossed' \in BOOLEAN
        /\ shown' \in [job : Jobs \cup {None}, ended : BOOLEAN, expired : Jobs \cup {None}]
    BY <1>3
  <2>3. TypeOK'
    BY <1>2, <2>1, <2>2 DEF IInv, TypeOK, Chain, server
  <2>4. StillPolled'
    BY <2>1 DEF StillPolled, IsPolling
  <2>5. AskedInv'
    BY <2>1 DEF IInv, AskedInv
  <2> QED BY <2>3, <2>4, <2>5 DEF IInv
<1>5. CASE Stops(k)
  <2>1. /\ chain' \in [Chains -> Chain] /\ chain'[k].at = "free" /\ timer' = timer
        /\ \A i \in Chains \ {k} : chain'[i] = chain[i]
    BY <1>1, <1>5 DEF Stops
  <2>2. Expires(k) \/ (Renders(k) /\ chain[k].reply.ended)
    <3>1. chain'[k] = Free /\ Free # Waiting
      BY <1>1, <1>5 DEF Stops
    <3>2. ~ScheduleNext(k)
      BY <1>1, <3>1 DEF ScheduleNext
    <3> QED BY <3>2 DEF Replied, Retries, Renders
  <2>3. /\ revision' \in 0..MaxRev + 1 /\ crossed' \in BOOLEAN
        /\ shown' \in [job : Jobs \cup {None}, ended : BOOLEAN, expired : Jobs \cup {None}]
    BY <1>3
  <2>4. TypeOK'
    BY <1>1, <1>2, <2>1, <2>3 DEF IInv, TypeOK, Chain, server
  <2>5. crossed' \/ (\A j \in Jobs : Open(j)' => Told(j)')
    <3>1. CASE Renders(k) /\ chain[k].reply.ended
      BY <1>2, <3>1 DEF Renders, Open, Told
    <3>2. CASE Expires(k)
      <4>1. shown'.expired = chain[k].job
        BY <3>2 DEF Expires, IInv, TypeOK
      <4> QED BY <1>2, <3>2, <4>1 DEF Expires, Open, Told
    <3> QED BY <2>2, <3>1, <3>2
  <2>6. StillPolled'
    BY <2>5 DEF StillPolled, Open
  <2>7. AskedInv'
    BY <2>1 DEF IInv, AskedInv
  <2> QED BY <2>4, <2>6, <2>7 DEF IInv
<1> QED BY <1>4, <1>5 DEF Replied, Retries, Renders, Expires

LEMMA CancelInv ==
  ASSUME IInv, Cancels \/ \E k \in Chains : CancelReturns(k)
  PROVE  IInv'
<1>1. Free \in Chain /\ Waiting \in Chain /\ Free.at = "free" /\ Waiting.at = "timer"
  BY IdleTypes
<1>2. CASE Cancels
  <2> DEFINE k == FreeOf(chain)
             new == [Free EXCEPT !.at = "posting", !.job = jobId]
  <2>1. k \in Chains /\ chain[k].at = "free"
    BY <1>2, FreeOfIsFree DEF Cancels
  <2>2. new \in Chain /\ new.at = "posting"
    BY PostingType DEF IInv, TypeOK
  <2>3. chain' = [chain EXCEPT ![k] = new] /\ UNCHANGED <<server, seeds, client, fails>>
    BY <1>2 DEF Cancels
  <2>4. fails' \in 0..MaxFails
    BY <2>3 DEF IInv, TypeOK
  <2> HIDE DEF k, new
  <2> QED BY <2>1, <2>2, <2>3, <2>4, ChainInv
<1>3. ASSUME NEW k \in Chains, CancelReturns(k) PROVE IInv'
  <2>1. PICK new \in {Free, Waiting} : chain' = [chain EXCEPT ![k] = new]
    BY <1>3 DEF CancelReturns
  <2>2. chain[k].at = "posting" /\ UNCHANGED <<server, seeds, client>> /\ fails' \in 0..MaxFails
    BY <1>3 DEF CancelReturns, IInv, TypeOK
  <2>3. new \in Chain /\ new.at # "asked"
    BY <1>1
  <2> QED BY <2>1, <2>2, <2>3, ChainInv
<1> QED BY <1>2, <1>3

-----------------------------------------------------------------------------
(* The inductive invariant holds in every reachable state. *)
THEOREM Invariance == Spec => []IInv
<1>1. IInv /\ [Next]_vars => IInv'
  <2> SUFFICES ASSUME IInv, [Next]_vars PROVE IInv'
    OBVIOUS
  <2>1. CASE \E j \in Jobs : Creates(j) \/ Touches(j) \/ Forgets(j)
    BY <2>1, ServerInv
  <2>2. ASSUME NEW j \in Jobs, SolveReturns(j) \/ Selects(j) PROVE IInv'
    <3>1. UNCHANGED <<server, fails>> /\ seeds' \subseteq Jobs
            /\ (OpenJob(j, TRUE) \/ OpenJob(j, FALSE))
      BY <2>2 DEF SolveReturns, Selects, IInv, TypeOK
    <3> QED BY <3>1, OpenInv
  <2>3. ASSUME NEW k \in Chains, ChainStep(k) \/ Fails(k) PROVE IInv'
    BY <2>3, PollsInv, RequestInv, RepliedInv, CancelInv DEF ChainStep
  <2>4. CASE Leaves \/ Cancels
    BY <2>4, LeavesInv, CancelInv
  <2>5. CASE UNCHANGED vars
    BY <2>5 DEF vars, server, client, IInv, TypeOK, AskedInv, StillPolled, Open, Told, IsPolling
  <2> QED BY <2>1, <2>2, <2>3, <2>4, <2>5 DEF Next
<1> QED BY InitInv, <1>1, PTL DEF Spec

(* The page's and the server's state stay well typed. *)
THEOREM TypeCorrect == Spec => []TypeOK
<1>1. IInv => TypeOK
  BY DEF IInv
<1> QED BY Invariance, <1>1, PTL

(***************************************************************************)
(* An open job page (app.js, openJob, poll, stopPolling, doCancel) has a   *)
(* chain of polls until it has shown how its job ended, for any number of  *)
(* jobs, chains and failed requests.                                       *)
(***************************************************************************)
THEOREM AlwaysPolled == Spec => []StillPolled
<1>1. IInv => StillPolled
  BY DEF IInv
<1> QED BY Invariance, <1>1, PTL
=============================================================================
