-------------------------- MODULE CheckerPoolProofs --------------------------
(***************************************************************************)
(* Proofs about CheckerPool for any checkers, requests and bounds: each    *)
(* checker is in one place, and as long as no answer is too long, the pipe *)
(* of a checker holds at most the one answer that the one request that     *)
(* reads it is waiting for.  Questions and answers then stay paired.       *)
(***************************************************************************)
EXTENDS CheckerPool, TLAPS, FiniteSetTheorems, SequenceTheorems

Once(s) == \A i, k \in DOMAIN s : s[i] = s[k] => i = k

HeldBySome(c) == \E r \in Requests : held[r] = c

(* Where a request is says whether it holds a checker. *)
AtInv ==
  \A r \in Requests :
    /\ held[r] # None <=> at[r] \in {"using", "reading"}
    /\ at[r] \in {"new", "waiting"} => asks[r] = 0 /\ got[r] = NoTicket

(* A checker that no task of the pool works on is free or held, not both. *)
PlaceInv ==
  /\ Once(free)
  /\ \A r, s \in Requests : held[r] = held[s] /\ held[r] # None => r = s
  /\ \A c \in Checkers : task[c] = "idle" <=> c \in ToSet(free) \/ HeldBySome(c)
  /\ \A r \in Requests : held[r] \notin ToSet(free)

(* _all keeps what was started and not given up. *)
ReadyInv ==
  \A c \in Checkers :
    /\ task[c] \notin {"warming", "gone"} => c \in all
    /\ task[c] = "idle" => ready[c]

(* A question and its answer are in one of the pipes at most. *)
InStep(c) == inbox[c] = <<>> /\ outbox[c] = <<>>

Expecting(r) ==
  LET t == <<r, asks[r]>>
      c == held[r]
  IN \/ InStep(c)
     \/ inbox[c] = <<t>> /\ outbox[c] = <<>>
     \/ inbox[c] = <<>> /\ outbox[c] = <<<<t, "whole">>>>

Reading(c) == \E r \in Requests : held[r] = c /\ at[r] = "reading"

PipeInv ==
  ~overlong =>
    /\ \A c \in Checkers :
         task[c] \notin {"toStop", "stopping", "gone"} /\ ~Reading(c) => InStep(c)
    /\ \A r \in Requests : at[r] = "reading" => Expecting(r)

Places == TypeOK /\ AtInv /\ PlaceInv /\ ReadyInv

USE MaxAsksAssumption, SwitchAssumption, NoneAssumption

-----------------------------------------------------------------------------
(* Sequences without repetitions, as _free is one. *)

LEMMA AppendOnce ==
  ASSUME NEW S, NEW s \in Seq(S), NEW x \in S
  PROVE  /\ Append(s, x) \in Seq(S)
         /\ ToSet(Append(s, x)) = ToSet(s) \cup {x}
         /\ Once(s) /\ x \notin ToSet(s) => Once(Append(s, x))
<1> DEFINE t == Append(s, x)
<1>1. /\ t \in Seq(S) /\ Len(t) = Len(s) + 1 /\ Len(s) \in Nat
      /\ \A i \in 1..Len(s) : t[i] = s[i]
      /\ t[Len(s) + 1] = x
      /\ DOMAIN t = 1..Len(t) /\ DOMAIN s = 1..Len(s)
  BY AppendProperties, LenProperties
<1> HIDE DEF t
<1>2. ToSet(t) = ToSet(s) \cup {x}
  BY <1>1 DEF ToSet
<1>3. Once(s) /\ x \notin ToSet(s) => Once(t)
  BY <1>1 DEF ToSet, Once
<1> QED
  BY <1>1, <1>2, <1>3 DEF t

LEMMA TailOnce ==
  ASSUME NEW S, NEW s \in Seq(S), s # <<>>, Once(s)
  PROVE  /\ Head(s) \in S /\ Head(s) \in ToSet(s)
         /\ Tail(s) \in Seq(S) /\ Once(Tail(s))
         /\ ToSet(Tail(s)) = ToSet(s) \ {Head(s)}
<1> DEFINE t == Tail(s)
<1>1. /\ t \in Seq(S) /\ Len(t) = Len(s) - 1 /\ Len(s) \in Nat \ {0}
      /\ \A i \in 1..Len(t) : t[i] = s[i + 1]
      /\ DOMAIN t = 1..Len(t) /\ DOMAIN s = 1..Len(s) /\ Head(s) = s[1] /\ Head(s) \in S
  BY HeadTailProperties, LenProperties, EmptySeq
<1> HIDE DEF t
<1>2. Once(t)
  <2> SUFFICES ASSUME NEW i \in 1..Len(t), NEW k \in 1..Len(t), t[i] = t[k] PROVE i = k
    BY <1>1 DEF Once
  <2>1. i + 1 \in 1..Len(s) /\ k + 1 \in 1..Len(s) /\ s[i + 1] = s[k + 1]
    BY <1>1
  <2>2. i + 1 = k + 1
    BY <1>1, <2>1 DEF Once
  <2> QED
    BY <1>1, <2>2
<1>3. ToSet(t) = ToSet(s) \ {s[1]}
  <2>1. ASSUME NEW x \in ToSet(t) PROVE x \in ToSet(s) \ {s[1]}
    BY <1>1, <2>1 DEF ToSet, Once
  <2>2. ASSUME NEW x \in ToSet(s) \ {s[1]} PROVE x \in ToSet(t)
    <3>1. PICK i \in 1..Len(s) : x = s[i]
      BY <1>1, <2>2 DEF ToSet
    <3>2. i # 1 /\ i - 1 \in 1..Len(t) /\ (i - 1) + 1 = i
      BY <1>1, <2>2, <3>1
    <3> QED
      BY <1>1, <3>1, <3>2 DEF ToSet
  <2> QED
    BY <2>1, <2>2
<1>4. Head(s) \in ToSet(s)
  BY <1>1 DEF ToSet
<1> QED
  BY <1>1, <1>2, <1>3, <1>4 DEF t

-----------------------------------------------------------------------------
(* Steps that move no checker: a request's place, and pipes. *)
LEMMA Unmoved ==
  ASSUME Places, UNCHANGED <<pool, held>>
  PROVE  PlaceInv' /\ ReadyInv'
BY DEF Places, PlaceInv, ReadyInv, pool, HeldBySome

LEMMA HolderHolds ==
  ASSUME Places, NEW r \in Requests, at[r] \in {"using", "reading"}
  PROVE  held[r] \in Checkers /\ task[held[r]] = "idle" /\ held[r] \notin ToSet(free)
BY DEF Places, TypeOK, AtInv, PlaceInv, HeldBySome

LEMMA TakeInv ==
  ASSUME Places, NEW r \in Requests, at[r] \in {"new", "waiting"}, free # <<>>, Take(r)
  PROVE  Places'
<1> DEFINE c == Head(free)
<1>1. /\ c \in Checkers /\ c \in ToSet(free) /\ free' \in Seq(Checkers) /\ Once(free')
      /\ ToSet(free') = ToSet(free) \ {c}
  BY TailOnce DEF Take, Places, TypeOK, PlaceInv
<1>2. /\ held' = [held EXCEPT ![r] = c] /\ at' = [at EXCEPT ![r] = "using"]
      /\ UNCHANGED <<task, all, ready, pipes, asks, got, overlong>>
  BY DEF Take
<1> HIDE DEF c
<1>3. TypeOK'
  BY <1>1, <1>2 DEF Places, TypeOK, pipes
<1>4. held[r] = None
  BY DEF Places, AtInv
<1>5. AtInv'
  BY <1>1, <1>2 DEF Places, TypeOK, AtInv
<1>6. PlaceInv'
  <2>1. \A s \in Requests : held'[s] = IF s = r THEN c ELSE held[s]
    BY <1>2 DEF Places, TypeOK
  <2>2. \A s \in Requests : held[s] # c
    BY <1>1 DEF Places, PlaceInv
  <2>3. \A d \in Checkers : HeldBySome(d)' <=> HeldBySome(d) \/ d = c
    BY <1>1, <1>4, <2>1, <2>2 DEF HeldBySome
  <2>4. \A d \in Checkers : task'[d] = "idle" <=> d \in ToSet(free') \/ HeldBySome(d)'
    BY <1>1, <1>2, <2>3 DEF Places, PlaceInv
  <2> QED
    BY <1>1, <2>1, <2>2, <2>4 DEF Places, PlaceInv
<1>7. ReadyInv'
  BY <1>2 DEF Places, ReadyInv
<1> QED
  BY <1>3, <1>5, <1>6, <1>7 DEF Places

(* What the two ends of acquire()'s finally clause have in common. *)
LEMMA LeaveInv ==
  ASSUME Places, NEW r \in Requests, at[r] \in {"using", "reading"}, Leave(r)
  PROVE  /\ at' \in [Requests -> {"new", "waiting", "using", "reading", "done"}]
         /\ held' \in [Requests -> Checkers \cup {None}]
         /\ AtInv'
         /\ \A s \in Requests : held'[s] = IF s = r THEN None ELSE held[s]
         /\ \A d \in Checkers : HeldBySome(d)' <=> HeldBySome(d) /\ d # held[r]
<1>1. /\ at' \in [Requests -> {"new", "waiting", "using", "reading", "done"}]
      /\ held' \in [Requests -> Checkers \cup {None}]
      /\ \A s \in Requests : held'[s] = IF s = r THEN None ELSE held[s]
      /\ \A s \in Requests : at'[s] = IF s = r THEN "done" ELSE at[s]
      /\ UNCHANGED <<asks, got>>
  BY DEF Leave, Places, TypeOK
<1>2. AtInv'
  BY <1>1 DEF Places, AtInv
<1>3. \A d \in Checkers : HeldBySome(d)' <=> HeldBySome(d) /\ d # held[r]
  BY <1>1 DEF HeldBySome, Places, PlaceInv
<1> QED
  BY <1>1, <1>2, <1>3

LEMMA PutBackInv ==
  ASSUME Places, NEW r \in Requests, at[r] \in {"using", "reading"}, PutBack(r)
  PROVE  /\ AtInv' /\ PlaceInv' /\ ReadyInv'
         /\ at' \in [Requests -> {"new", "waiting", "using", "reading", "done"}]
         /\ held' \in [Requests -> Checkers \cup {None}]
         /\ free' \in Seq(Checkers) /\ UNCHANGED <<task, all, ready, asks, got, overlong>>
<1> DEFINE c == held[r]
<1>1. c \in Checkers /\ task[c] = "idle" /\ c \notin ToSet(free)
  BY HolderHolds
<1>2. Leave(r) /\ free' = Append(free, c) /\ UNCHANGED <<task, all, ready, asks, got, overlong>>
  BY DEF PutBack, Leave
<1>3. free' \in Seq(Checkers) /\ Once(free') /\ ToSet(free') = ToSet(free) \cup {c}
  BY <1>1, <1>2, AppendOnce DEF Places, TypeOK, PlaceInv
<1>4. /\ \A s \in Requests : held'[s] = IF s = r THEN None ELSE held[s]
      /\ \A d \in Checkers : HeldBySome(d)' <=> HeldBySome(d) /\ d # c
  BY <1>2, LeaveInv
<1>5. PlaceInv'
  <2>1. HeldBySome(c)
    BY DEF HeldBySome
  <2>2. \A d \in Checkers : task'[d] = "idle" <=> d \in ToSet(free') \/ HeldBySome(d)'
    BY <1>1, <1>2, <1>3, <1>4, <2>1 DEF Places, PlaceInv
  <2>3. None \notin ToSet(free')
    BY <1>1, <1>3, LenProperties DEF Places, TypeOK, ToSet
  <2>4. \A s \in Requests : held'[s] \notin ToSet(free')
    BY <1>3, <1>4, <2>3 DEF Places, PlaceInv
  <2> HIDE DEF c
  <2> QED
    BY <1>3, <1>4, <2>2, <2>4 DEF Places, PlaceInv
<1>6. ReadyInv'
  BY <1>2 DEF Places, ReadyInv
<1> QED
  BY <1>2, <1>3, <1>5, <1>6, LeaveInv

LEMMA RecycleInv ==
  ASSUME Places, NEW r \in Requests, at[r] \in {"using", "reading"}, Recycle(r)
  PROVE  /\ AtInv' /\ PlaceInv' /\ ReadyInv'
         /\ at' \in [Requests -> {"new", "waiting", "using", "reading", "done"}]
         /\ held' \in [Requests -> Checkers \cup {None}]
         /\ task' \in [Checkers -> {"warming", "idle", "toStop", "stopping", "starting", "gone"}]
         /\ \A d \in Checkers : task'[d] = IF d = held[r] THEN "toStop" ELSE task[d]
         /\ UNCHANGED <<all, ready, free, asks, got, overlong>>
<1> DEFINE c == held[r]
<1>1. c \in Checkers /\ task[c] = "idle" /\ c \notin ToSet(free)
  BY HolderHolds
<1>2. Leave(r) /\ task' = [task EXCEPT ![c] = "toStop"] /\ UNCHANGED <<all, ready, free, asks, got, overlong>>
  BY DEF Recycle, Leave
<1>3. /\ task' \in [Checkers -> {"warming", "idle", "toStop", "stopping", "starting", "gone"}]
      /\ \A d \in Checkers : task'[d] = IF d = c THEN "toStop" ELSE task[d]
  BY <1>1, <1>2 DEF Places, TypeOK
<1>4. /\ \A s \in Requests : held'[s] = IF s = r THEN None ELSE held[s]
      /\ \A d \in Checkers : HeldBySome(d)' <=> HeldBySome(d) /\ d # c
  BY <1>2, LeaveInv
<1>5. PlaceInv'
  <2>1. None \notin ToSet(free)
    BY LenProperties DEF Places, TypeOK, ToSet
  <2>2. \A d \in Checkers : task'[d] = "idle" <=> d \in ToSet(free') \/ HeldBySome(d)'
    BY <1>1, <1>2, <1>3, <1>4 DEF Places, PlaceInv
  <2>3. \A s \in Requests : held'[s] \notin ToSet(free')
    BY <1>2, <1>4, <2>1 DEF Places, PlaceInv
  <2> HIDE DEF c
  <2> QED
    BY <1>2, <1>4, <2>2, <2>3 DEF Places, PlaceInv
<1>6. ReadyInv'
  BY <1>1, <1>2, <1>3 DEF Places, ReadyInv
<1> QED
  BY <1>2, <1>3, <1>5, <1>6, LeaveInv

-----------------------------------------------------------------------------
(* Steps that put a checker into the rotation or take one out of it. *)
LEMMA ReturnsInv ==
  ASSUME Places, NEW c \in Checkers, task[c] \in {"warming", "starting"},
         task' = [task EXCEPT ![c] = "idle"], ready' = [ready EXCEPT ![c] = TRUE],
         free' = Append(free, c), all' = all \cup {c}, held' = held
  PROVE  /\ PlaceInv' /\ ReadyInv' /\ free' \in Seq(Checkers)
<1>1. c \notin ToSet(free) /\ ~HeldBySome(c)
  BY DEF Places, PlaceInv
<1>2. free' \in Seq(Checkers) /\ Once(free') /\ ToSet(free') = ToSet(free) \cup {c}
  BY <1>1, AppendOnce DEF Places, TypeOK, PlaceInv
<1>3. \A d \in Checkers : task'[d] = IF d = c THEN "idle" ELSE task[d]
  BY DEF Places, TypeOK
<1>4. PlaceInv'
  BY <1>1, <1>2, <1>3 DEF Places, PlaceInv, HeldBySome
<1>5. ReadyInv'
  BY <1>3 DEF Places, TypeOK, ReadyInv
<1> QED
  BY <1>2, <1>4, <1>5

LEMMA WorksOnInv ==
  ASSUME Places, NEW c \in Checkers, task[c] # "idle",
         NEW t \in {"stopping", "starting", "gone"}, task' = [task EXCEPT ![c] = t],
         free' = free, held' = held,
         \A d \in Checkers \ {c} : ready'[d] = ready[d] /\ (d \in all => d \in all'),
         t # "gone" => task[c] # "warming" /\ task[c] # "gone" /\ all' = all
  PROVE  PlaceInv' /\ ReadyInv'
<1>1. \A d \in Checkers : task'[d] = IF d = c THEN t ELSE task[d]
  BY DEF Places, TypeOK
<1> QED
  BY <1>1 DEF Places, PlaceInv, ReadyInv, HeldBySome

(* What a request does. *)
LEMMA RequestInv == ASSUME Places, NEW r \in Requests, RequestStep(r) PROVE Places'
<1>1. CASE Refuse(r) \/ (Acquire(r) /\ free = <<>>)
  <2>1. /\ UNCHANGED <<pool, pipes, held, asks, got, overlong>>
        /\ at[r] = "new" /\ at' \in {[at EXCEPT ![r] = "done"], [at EXCEPT ![r] = "waiting"]}
    BY <1>1 DEF Refuse, Acquire
  <2>2. PlaceInv' /\ ReadyInv'
    BY <2>1, Unmoved
  <2>3. TypeOK'
    BY <2>1 DEF Places, TypeOK, pool, pipes
  <2>4. AtInv'
    BY <2>1 DEF Places, TypeOK, AtInv
  <2> QED
    BY <2>2, <2>3, <2>4 DEF Places
<1>2. CASE (Acquire(r) /\ free # <<>>) \/ StopWaiting(r)
  <2>1. at[r] \in {"new", "waiting"} /\ free # <<>> /\ Take(r)
    BY <1>2 DEF Acquire, StopWaiting
  <2> QED
    BY <2>1, TakeInv
<1>3. CASE Ask(r)
  <2>1. PlaceInv' /\ ReadyInv'
    BY <1>3, Unmoved DEF Ask
  <2>2. asks[r] + 1 \in 0..MaxAsks /\ <<r, asks[r] + 1>> \in Tickets /\ held[r] \in Checkers
    BY <1>3, HolderHolds DEF Ask, Places, TypeOK, Tickets
  <2>3. inbox' \in [Checkers -> Seq(Tickets)]
    <3>1. Append(inbox[held[r]], <<r, asks[r] + 1>>) \in Seq(Tickets)
      BY <2>2, AppendProperties DEF Places, TypeOK
    <3> QED
      BY <1>3, <2>2, <3>1 DEF Ask, Places, TypeOK
  <2>4. TypeOK'
    BY <1>3, <2>2, <2>3 DEF Ask, Places, TypeOK, pool
  <2>5. AtInv'
    BY <1>3 DEF Ask, Places, TypeOK, AtInv
  <2> QED
    BY <2>1, <2>4, <2>5 DEF Places
<1>4. CASE AskBroken(r) \/ Done(r)
  <2>1. at[r] = "using" /\ PutBack(r) /\ UNCHANGED pipes
    BY <1>4 DEF AskBroken, Done
  <2>2. TypeOK'
    BY <2>1, PutBackInv DEF Places, TypeOK, pipes
  <2> QED
    BY <2>1, <2>2, PutBackInv DEF Places
<1>5. CASE AskDead(r) \/ ReadEof(r) \/ Timeout(r)
  <2>1. at[r] \in {"using", "reading"} /\ Recycle(r) /\ UNCHANGED pipes
    BY <1>5 DEF AskDead, ReadEof, Timeout
  <2>2. TypeOK'
    BY <2>1, RecycleInv DEF Places, TypeOK, pipes
  <2> QED
    BY <2>1, <2>2, RecycleInv DEF Places
<1>6. CASE Read(r)
  <2> DEFINE c == held[r]
             line == Head(outbox[c])
  <2>1. at[r] = "reading" /\ c \in Checkers /\ UNCHANGED <<proc, inbox>>
    BY <1>6, HolderHolds DEF Read
  <2>2. /\ line \in Lines /\ Tail(outbox[c]) \in Seq(Lines)
        /\ <<<<line[1], "tail">>>> \o Tail(outbox[c]) \in Seq(Lines)
    <3>1. outbox[c] \in Seq(Lines) /\ outbox[c] # <<>>
      BY <1>6, <2>1 DEF Read, Places, TypeOK
    <3>2. line \in Lines /\ Tail(outbox[c]) \in Seq(Lines)
      BY <3>1, HeadTailProperties
    <3> HIDE DEF line
    <3>3. <<line[1], "tail">> \in Lines
      BY <3>2 DEF Lines
    <3>4. <<<<line[1], "tail">>>> \in Seq(Lines)
      BY <3>3
    <3> QED
      BY <3>2, <3>4, ConcatProperties
  <2>3. outbox' \in [Checkers -> Seq(Lines)]
    <3>1. \/ outbox' = [outbox EXCEPT ![c] = Tail(@)]
          \/ outbox' = [outbox EXCEPT ![c] = <<<<line[1], "tail">>>> \o Tail(@)]
      BY <1>6 DEF Read
    <3> HIDE DEF line
    <3> QED
      BY <2>1, <2>2, <3>1 DEF Places, TypeOK
  <2>4. CASE PutBack(r)
    <3>1. TypeOK'
      BY <2>1, <2>3, <2>4, PutBackInv DEF Places, TypeOK
    <3> QED
      BY <2>1, <2>4, <3>1, PutBackInv DEF Places
  <2>5. CASE Recycle(r)
    <3>1. TypeOK'
      BY <2>1, <2>3, <2>5, RecycleInv DEF Places, TypeOK
    <3> QED
      BY <2>1, <2>5, <3>1, RecycleInv DEF Places
  <2>6. CASE /\ got' = [got EXCEPT ![r] = line[1]] /\ at' = [at EXCEPT ![r] = "using"]
             /\ UNCHANGED <<pool, held, asks, overlong>>
    <3>1. PlaceInv' /\ ReadyInv'
      BY <2>6, Unmoved
    <3>2. line[1] \in Tickets
      BY <2>2 DEF Lines
    <3> HIDE DEF line
    <3>3. TypeOK'
      BY <2>1, <2>3, <2>6, <3>2 DEF Places, TypeOK, pool
    <3>4. AtInv'
      BY <2>1, <2>6, <3>2 DEF Places, TypeOK, AtInv
    <3> QED
      BY <3>1, <3>3, <3>4 DEF Places
  <2> QED
    BY <1>6, <2>4, <2>5, <2>6 DEF Read
<1> QED
  BY <1>1, <1>2, <1>3, <1>4, <1>5, <1>6 DEF RequestStep

(* What the pool's tasks and the processes do. *)
LEMMA PoolInv ==
  ASSUME Places, NEW c \in Checkers, PoolStep(c) \/ ProcessStep(c)
  PROVE  Places'
<1>1. AtInv'
  <2>1. UNCHANGED requests
    BY DEF PoolStep, WarmOk, WarmFails, StopBegins, StopReturns, RestartOk, RestartFails,
       ProcessStep, Answer, Dies, Reaped
  <2> QED
    BY <2>1 DEF Places, AtInv, requests
<1>2. CASE WarmOk(c) \/ RestartOk(c)
  <2>1. /\ task[c] \in {"warming", "starting"} /\ task' = [task EXCEPT ![c] = "idle"]
        /\ ready' = [ready EXCEPT ![c] = TRUE] /\ free' = Append(free, c)
        /\ all' = all \cup {c} /\ UNCHANGED <<pipes, requests, overlong>>
    BY <1>2 DEF WarmOk, RestartOk, Places, ReadyInv
  <2>2. PlaceInv' /\ ReadyInv' /\ free' \in Seq(Checkers)
    BY <2>1, ReturnsInv DEF requests
  <2>3. TypeOK'
    BY <2>1, <2>2 DEF Places, TypeOK, pipes, requests
  <2> QED
    BY <1>1, <2>2, <2>3 DEF Places
<1>3. CASE WarmFails(c) \/ StopBegins(c) \/ StopReturns(c) \/ RestartFails(c)
  <2>1. /\ task[c] # "idle" /\ free' = free /\ held' = held
        /\ \A d \in Checkers \ {c} : ready'[d] = ready[d] /\ (d \in all => d \in all')
        /\ \E t \in {"stopping", "starting", "gone"} :
             /\ task' = [task EXCEPT ![c] = t]
             /\ t # "gone" => task[c] # "warming" /\ task[c] # "gone" /\ all' = all
    BY <1>3 DEF WarmFails, StopBegins, StopReturns, RestartFails, requests, Places, TypeOK
  <2>2. PlaceInv' /\ ReadyInv'
    BY <2>1, WorksOnInv
  <2>3. TypeOK'
    <3>1. CASE WarmFails(c)
      BY <3>1 DEF WarmFails, requests, Places, TypeOK
    <3>2. CASE StopBegins(c)
      BY <3>2 DEF StopBegins, requests, pipes, Places, TypeOK
    <3>3. CASE StopReturns(c)
      <4>1. inbox' \in [Checkers -> Seq(Tickets)] /\ outbox' \in [Checkers -> Seq(Lines)]
        <5>1. <<>> \in Seq(Tickets) /\ <<>> \in Seq(Lines)
          BY EmptySeq
        <5> QED
          BY <3>3, <5>1 DEF StopReturns, Places, TypeOK
      <4> QED
        BY <3>3, <4>1 DEF StopReturns, requests, Places, TypeOK
    <3>4. CASE RestartFails(c)
      BY <3>4 DEF RestartFails, requests, pipes, Places, TypeOK
    <3> QED
      BY <1>3, <3>1, <3>2, <3>3, <3>4
  <2> QED
    BY <1>1, <2>2, <2>3 DEF Places
<1>4. CASE ProcessStep(c)
  <2>1. UNCHANGED <<pool, requests>>
    BY <1>4 DEF ProcessStep, Answer, Dies, Reaped
  <2>2. PlaceInv' /\ ReadyInv'
    BY <2>1, Unmoved DEF requests
  <2>3. TypeOK'
    <3>1. CASE Answer(c)
      <4>1. PICK kind \in {"whole", "long"} :
              /\ outbox' = [outbox EXCEPT ![c] = Append(@, <<Head(inbox[c]), kind>>)]
              /\ overlong' = (overlong \/ kind = "long")
        BY <3>1 DEF Answer
      <4>2. Head(inbox[c]) \in Tickets /\ Tail(inbox[c]) \in Seq(Tickets)
        BY <3>1, HeadTailProperties DEF Answer, Places, TypeOK
      <4>3. Append(outbox[c], <<Head(inbox[c]), kind>>) \in Seq(Lines)
        <5>1. <<Head(inbox[c]), kind>> \in Lines
          BY <4>2 DEF Lines
        <5> QED
          BY <5>1, AppendProperties DEF Places, TypeOK
      <4>4. outbox' \in [Checkers -> Seq(Lines)] /\ inbox' \in [Checkers -> Seq(Tickets)]
        BY <3>1, <4>1, <4>2, <4>3 DEF Answer, Places, TypeOK
      <4>5. overlong' \in BOOLEAN
        BY <4>1 DEF Places, TypeOK
      <4> QED
        BY <3>1, <4>4, <4>5, <2>1 DEF Answer, Places, TypeOK, pool, requests
    <3>2. CASE Dies(c)
      <4>1. inbox' \in [Checkers -> Seq(Tickets)]
        <5>1. <<>> \in Seq(Tickets)
          BY EmptySeq
        <5> QED
          BY <3>2, <5>1 DEF Dies, Places, TypeOK
      <4> QED
        BY <3>2, <4>1 DEF Dies, Places, TypeOK, pool, requests
    <3>3. CASE Reaped(c)
      BY <3>3 DEF Reaped, Places, TypeOK, pool, requests
    <3> QED
      BY <1>4, <3>1, <3>2, <3>3 DEF ProcessStep
  <2> QED
    BY <1>1, <2>2, <2>3 DEF Places
<1> QED
  BY <1>2, <1>3, <1>4 DEF PoolStep

-----------------------------------------------------------------------------
LEMMA InitPlaces == Init => Places
<1>1. Init => TypeOK
  <2> SUFFICES ASSUME Init PROVE TypeOK
    OBVIOUS
  <2>1. <<>> \in Seq(Checkers) /\ <<>> \in Seq(Tickets) /\ <<>> \in Seq(Lines)
    BY EmptySeq
  <2>2. /\ free \in Seq(Checkers) /\ inbox \in [Checkers -> Seq(Tickets)]
        /\ outbox \in [Checkers -> Seq(Lines)]
    BY <2>1 DEF Init
  <2>3. ready \in [Checkers -> BOOLEAN] /\ overlong \in BOOLEAN
    BY DEF Init
  <2>4. asks \in [Requests -> 0..MaxAsks]
    BY DEF Init
  <2> QED
    BY <2>2, <2>3, <2>4 DEF Init, TypeOK
<1>2. Init => Once(free) /\ ToSet(free) = {}
  BY DEF Init, Once, ToSet
<1>3. Init => PlaceInv
  BY <1>2 DEF Init, PlaceInv, HeldBySome
<1>4. Init => AtInv /\ ReadyInv
  BY DEF Init, AtInv, ReadyInv
<1> QED
  BY <1>1, <1>3, <1>4 DEF Places

(* Every checker keeps its one place. *)
THEOREM PlacesInvariance == Spec => []Places
<1>1. Places /\ [Next]_vars => Places'
  <2>1. Places /\ UNCHANGED vars => Places'
    BY Unmoved DEF vars, pool, pipes, requests, Places, TypeOK, AtInv
  <2> QED
    BY <2>1, RequestInv, PoolInv DEF Next
<1> QED BY InitPlaces, <1>1, PTL DEF Spec

(* The pool's and the requests' state stay well typed. *)
THEOREM TypeCorrect == Spec => []TypeOK
<1>1. Places => TypeOK
  BY DEF Places
<1> QED BY PlacesInvariance, <1>1, PTL

(***************************************************************************)
(* A checker is free once, held by one request, with a task of the pool,   *)
(* or given up, whichever way requests end (acquire and _recycle,          *)
(* checkers.py), for any number of checkers and requests.                  *)
(***************************************************************************)
THEOREM AlwaysOnePlace == Spec => []OnePlace
<1>1. Places => OnePlace
  <2> SUFFICES ASSUME Places PROVE OnePlace
    OBVIOUS
  <2>1. FreeIsReady
    <3>1. \A c \in ToSet(free) : c \in Checkers
      BY LenProperties DEF Places, TypeOK, ToSet
    <3> QED
      BY <3>1 DEF Places, PlaceInv, ReadyInv, FreeIsReady
  <2>2. ASSUME NEW c \in Checkers
        PROVE  Cardinality({i \in DOMAIN free : free[i] = c}) + Cardinality({r \in Requests : held[r] = c})
                 + (IF task[c] = "idle" THEN 0 ELSE 1) = 1
    <3> DEFINE slots == {i \in DOMAIN free : free[i] = c}
               users == {r \in Requests : held[r] = c}
    <3>1. c \in ToSet(free) => \E i : slots = {i}
      BY DEF ToSet, Places, PlaceInv, Once
    <3>2. c \notin ToSet(free) => slots = {}
      BY DEF ToSet
    <3>3. HeldBySome(c) => \E r : users = {r}
      BY DEF HeldBySome, Places, PlaceInv
    <3>4. ~HeldBySome(c) => users = {}
      BY DEF HeldBySome
    <3>5. Cardinality(slots) = IF c \in ToSet(free) THEN 1 ELSE 0
      BY <3>1, <3>2, FS_Singleton, FS_EmptySet
    <3>6. Cardinality(users) = IF HeldBySome(c) THEN 1 ELSE 0
      BY <3>3, <3>4, FS_Singleton, FS_EmptySet
    <3>7. /\ task[c] = "idle" <=> c \in ToSet(free) \/ HeldBySome(c)
          /\ ~(c \in ToSet(free) /\ HeldBySome(c))
      BY DEF Places, PlaceInv, HeldBySome
    <3> HIDE DEF slots, users
    <3>8. Cardinality(slots) + Cardinality(users) + (IF task[c] = "idle" THEN 0 ELSE 1) = 1
      BY <3>5, <3>6, <3>7
    <3> QED
      BY <3>8 DEF slots, users
  <2> QED
    BY <2>1, <2>2 DEF OnePlace
<1> QED BY PlacesInvariance, <1>1, PTL

-----------------------------------------------------------------------------
(* The pipes: a step of one request, on the checker c it holds or takes. *)
LEMMA OneRequest ==
  ASSUME Places, PipeInv, AnswersOwn, ~overlong, NEW r \in Requests, NEW c \in Checkers,
         \A s \in Requests \ {r} :
           at'[s] = at[s] /\ held'[s] = held[s] /\ asks'[s] = asks[s] /\ got'[s] = got[s] /\ held[s] # c,
         held[r] \in {c, None}, held'[r] \in {c, None},
         \A d \in Checkers \ {c} : inbox'[d] = inbox[d] /\ outbox'[d] = outbox[d] /\ task'[d] = task[d],
         task'[c] = "toStop" \/ (at'[r] = "reading" /\ held'[r] = c) \/ InStep(c)',
         at'[r] = "reading" => Expecting(r)',
         at'[r] = "using" => got'[r] = IF asks'[r] = 0 THEN NoTicket ELSE <<r, asks'[r]>>
  PROVE  PipeInv' /\ AnswersOwn'
<1>1. \A d \in Checkers \ {c} : Reading(d)' <=> Reading(d)
  BY DEF Reading
<1>2. at'[r] = "reading" /\ held'[r] = c => Reading(c)'
  BY DEF Reading
<1>3. ASSUME NEW d \in Checkers, task'[d] \notin {"toStop", "stopping", "gone"}, ~Reading(d)'
      PROVE  InStep(d)'
  <2>1. CASE d = c
    BY <1>2, <1>3, <2>1
  <2>2. CASE d # c
    BY <1>1, <1>3, <2>2 DEF PipeInv, InStep
  <2> QED BY <2>1, <2>2
<1>4. ASSUME NEW s \in Requests, at'[s] = "reading" PROVE Expecting(s)'
  <2>1. CASE s = r
    BY <1>4, <2>1
  <2>2. CASE s # r
    <3>1. at[s] = "reading" /\ held[s] \in Checkers \ {c} /\ held'[s] = held[s] /\ asks'[s] = asks[s]
      BY <1>4, <2>2, HolderHolds
    <3>2. Expecting(s)
      BY <3>1 DEF PipeInv
    <3> QED
      BY <3>1, <3>2 DEF Expecting, InStep
  <2> QED BY <2>1, <2>2
<1>5. AnswersOwn'
  BY DEF AnswersOwn
<1> QED
  BY <1>3, <1>4, <1>5 DEF PipeInv

(* The checker of a request that is not reading, and a free one. *)
LEMMA QuietInStep ==
  ASSUME Places, PipeInv, ~overlong, NEW c \in Checkers, task[c] \notin {"toStop", "stopping", "gone"},
         \A r \in Requests : held[r] = c => at[r] # "reading"
  PROVE  InStep(c)
BY DEF PipeInv, Reading

LEMMA SoleHolder ==
  ASSUME Places, NEW r \in Requests, at[r] \in {"using", "reading"}
  PROVE  \A s \in Requests \ {r} : held[s] # held[r]
BY HolderHolds DEF Places, PlaceInv

LEMMA TakePipes ==
  ASSUME Places, PipeInv, AnswersOwn, ~overlong, NEW r \in Requests,
         at[r] \in {"new", "waiting"}, free # <<>>, Take(r)
  PROVE  PipeInv' /\ AnswersOwn'
<1>1. PICK c \in Checkers : c = Head(free) /\ c \in ToSet(free)
  BY TailOnce DEF Places, TypeOK, PlaceInv
<1>2. held' = [held EXCEPT ![r] = c] /\ at' = [at EXCEPT ![r] = "using"] /\ UNCHANGED <<task, pipes, asks, got>>
  BY <1>1 DEF Take
<1>3. task[c] = "idle" /\ \A s \in Requests : held[s] # c
  BY <1>1 DEF Places, PlaceInv
<1>4. InStep(c)
  BY <1>1, <1>3, QuietInStep
<1>5. held[r] = None /\ asks[r] = 0 /\ got[r] = NoTicket
  BY DEF Places, AtInv
<1>6. held'[r] = c /\ at'[r] = "using" /\ \A s \in Requests \ {r} : at'[s] = at[s] /\ held'[s] = held[s]
  BY <1>2 DEF Places, TypeOK
<1>7. InStep(c)' /\ UNCHANGED <<inbox, outbox, task, asks, got>>
  BY <1>2, <1>4 DEF pipes, InStep
<1> QED
  BY <1>1, <1>3, <1>5, <1>6, <1>7, OneRequest

LEMMA LeavePipes ==
  ASSUME Places, PipeInv, AnswersOwn, ~overlong, NEW r \in Requests, at[r] \in {"using", "reading"},
         Leave(r), NEW c, c = held[r],
         \A d \in Checkers \ {c} : inbox'[d] = inbox[d] /\ outbox'[d] = outbox[d] /\ task'[d] = task[d],
         task'[c] = "toStop" \/ InStep(c)'
  PROVE  PipeInv' /\ AnswersOwn'
<1>1. c \in Checkers /\ \A s \in Requests \ {r} : held[s] # c
  BY HolderHolds, SoleHolder
<1>2. /\ at'[r] = "done" /\ held'[r] = None
      /\ \A s \in Requests \ {r} : at'[s] = at[s] /\ held'[s] = held[s]
      /\ UNCHANGED <<asks, got>>
  BY DEF Leave, Places, TypeOK
<1> QED
  BY <1>1, <1>2, OneRequest

LEMMA RequestPipes ==
  ASSUME Places, PipeInv, AnswersOwn, ~overlong, NEW r \in Requests, RequestStep(r)
  PROVE  PipeInv' /\ AnswersOwn'
<1>1. CASE Refuse(r) \/ (Acquire(r) /\ free = <<>>)
  <2>1. /\ UNCHANGED <<inbox, outbox, task, held, asks, got>> /\ at[r] = "new"
        /\ at' \in {[at EXCEPT ![r] = "done"], [at EXCEPT ![r] = "waiting"]}
    BY <1>1 DEF Refuse, Acquire, pool, pipes
  <2>2. \A s \in Requests :
          (at'[s] = "reading" <=> at[s] = "reading") /\ (at'[s] = "using" <=> at[s] = "using")
    BY <2>1 DEF Places, TypeOK
  <2>3. \A d \in Checkers : Reading(d)' <=> Reading(d)
    BY <2>1, <2>2 DEF Reading
  <2>4. \A d \in Checkers : InStep(d)' <=> InStep(d)
    BY <2>1 DEF InStep
  <2>5. \A s \in Requests : Expecting(s)' <=> Expecting(s)
    BY <2>1 DEF Expecting, InStep
  <2>6. AnswersOwn'
    BY <2>1, <2>2 DEF AnswersOwn
  <2> QED
    BY <2>1, <2>2, <2>3, <2>4, <2>5, <2>6 DEF PipeInv
<1>2. CASE (Acquire(r) /\ free # <<>>) \/ StopWaiting(r)
  <2>1. at[r] \in {"new", "waiting"} /\ free # <<>> /\ Take(r)
    BY <1>2 DEF Acquire, StopWaiting
  <2> QED
    BY <2>1, TakePipes
<1>3. ASSUME at[r] \in {"using", "reading"}
      PROVE  \E c \in Checkers : c = held[r] /\ task[c] = "idle" /\ \A s \in Requests \ {r} : held[s] # c
  BY <1>3, HolderHolds, SoleHolder
<1>4. ASSUME at[r] = "using" PROVE \A c \in Checkers : c = held[r] => InStep(c)
  BY <1>3, <1>4, QuietInStep
<1>5. CASE Ask(r)
  <2>1. PICK c \in Checkers : c = held[r] /\ task[c] = "idle" /\ \A s \in Requests \ {r} : held[s] # c
    BY <1>3, <1>5 DEF Ask
  <2>2. inbox[c] = <<>> /\ outbox[c] = <<>>
    BY <1>4, <1>5, <2>1 DEF Ask, InStep
  <2> DEFINE t == <<r, asks[r] + 1>>
  <2>3. /\ UNCHANGED <<task, outbox, held, got>>
        /\ inbox' = [inbox EXCEPT ![c] = IF proc[c] = "up" THEN Append(inbox[c], t) ELSE inbox[c]]
    BY <1>5, <2>1 DEF Ask, pool
  <2>4. at' = [at EXCEPT ![r] = "reading"] /\ asks' = [asks EXCEPT ![r] = asks[r] + 1]
    BY <1>5 DEF Ask
  <2>5. Append(inbox[c], t) = <<t>>
    BY <2>2
  <2>6. /\ inbox'[c] = <<>> \/ inbox'[c] = <<t>>
        /\ \A d \in Checkers \ {c} : inbox'[d] = inbox[d]
    BY <2>2, <2>3, <2>5 DEF Places, TypeOK
  <2>7. /\ at'[r] = "reading" /\ <<r, asks'[r]>> = t
        /\ \A s \in Requests \ {r} : at'[s] = at[s] /\ asks'[s] = asks[s]
    BY <2>4 DEF Places, TypeOK
  <2>8. Expecting(r)'
    BY <2>1, <2>2, <2>3, <2>6, <2>7 DEF Expecting, InStep
  <2> HIDE DEF t
  <2>9. held'[r] = c
    BY <2>1, <2>3
  <2> QED
    BY <2>1, <2>3, <2>6, <2>7, <2>8, <2>9, OneRequest
<1>6. CASE AskBroken(r) \/ Done(r)
  <2>1. at[r] = "using" /\ Leave(r) /\ UNCHANGED <<inbox, outbox, task>>
    BY <1>6 DEF AskBroken, Done, PutBack, pipes
  <2>2. PICK c \in Checkers : c = held[r]
    BY <1>3, <2>1
  <2>3. InStep(c)'
    BY <1>4, <2>1, <2>2 DEF InStep
  <2> QED
    BY <2>1, <2>2, <2>3, LeavePipes
<1>7. CASE AskDead(r) \/ ReadEof(r) \/ Timeout(r)
  <2>1. at[r] \in {"using", "reading"} /\ Recycle(r) /\ UNCHANGED <<inbox, outbox>>
    BY <1>7 DEF AskDead, ReadEof, Timeout, pipes
  <2>2. PICK c \in Checkers : c = held[r]
    BY <1>3, <2>1
  <2>3. Leave(r) /\ task'[c] = "toStop" /\ \A d \in Checkers \ {c} : task'[d] = task[d]
    BY <2>1, <2>2, RecycleInv DEF Recycle
  <2> QED
    BY <2>1, <2>2, <2>3, LeavePipes
<1>8. CASE Read(r)
  <2>1. PICK c \in Checkers : c = held[r] /\ \A s \in Requests \ {r} : held[s] # c
    BY <1>3, <1>8 DEF Read
  <2> DEFINE t == <<r, asks[r]>>
  <2>2. at[r] = "reading" /\ inbox[c] = <<>> /\ outbox[c] = <<<<t, "whole">>>>
    BY <1>8, <2>1 DEF Read, PipeInv, Expecting, InStep
  <2>3. Head(outbox[c]) = <<t, "whole">> /\ Tail(outbox[c]) = <<>>
    BY <2>2
  <2>4. /\ outbox' = [outbox EXCEPT ![c] = Tail(outbox[c])] /\ inbox' = inbox
        /\ \/ Recycle(r)
           \/ /\ got' = [got EXCEPT ![r] = t] /\ at' = [at EXCEPT ![r] = "using"]
              /\ UNCHANGED <<task, held, asks>>
    BY <1>8, <2>1, <2>3 DEF Read, pool
  <2>5. /\ outbox'[c] = <<>> /\ inbox'[c] = <<>>
        /\ \A d \in Checkers \ {c} : outbox'[d] = outbox[d] /\ inbox'[d] = inbox[d]
    BY <2>2, <2>3, <2>4 DEF Places, TypeOK
  <2>6. CASE Recycle(r)
    <3>1. Leave(r) /\ task'[c] = "toStop" /\ \A d \in Checkers \ {c} : task'[d] = task[d]
      BY <2>1, <2>2, <2>6, RecycleInv DEF Recycle
    <3> HIDE DEF t
    <3> QED
      BY <2>1, <2>2, <2>5, <3>1, LeavePipes
  <2>7. CASE /\ got' = [got EXCEPT ![r] = t] /\ at' = [at EXCEPT ![r] = "using"]
             /\ UNCHANGED <<task, held, asks>>
    <3>1. /\ at'[r] = "using" /\ got'[r] = t /\ held'[r] = c
          /\ \A s \in Requests \ {r} : at'[s] = at[s] /\ got'[s] = got[s]
      BY <2>1, <2>7 DEF Places, TypeOK
    <3>2. asks[r] # 0
      <4>1. c \in Checkers /\ outbox[c] # <<>>
        BY <1>8, <2>1 DEF Read
      <4>2. outbox[c] \in Seq(Lines)
        BY <4>1 DEF Places, TypeOK
      <4>3. Head(outbox[c]) \in Lines
        BY <4>1, <4>2, HeadTailProperties
      <4>4. <<t, "whole">> \in Lines
        BY <2>3, <4>3
      <4> QED
        BY <4>4 DEF Lines, Tickets
    <3>3. at'[r] = "using" => got'[r] = IF asks'[r] = 0 THEN NoTicket ELSE <<r, asks'[r]>>
      BY <2>7, <3>1, <3>2
    <3>4. InStep(c)'
      BY <2>5 DEF InStep
    <3> HIDE DEF t
    <3> QED
      BY <2>1, <2>5, <2>7, <3>1, <3>3, <3>4, OneRequest
  <2> QED
    BY <2>4, <2>6, <2>7
<1> QED
  BY <1>1, <1>2, <1>5, <1>6, <1>7, <1>8 DEF RequestStep

(***************************************************************************)
(* A step of the pool or of c's process, which leaves the requests alone:  *)
(* the tasks of the other checkers and their pipes are as they were.       *)
(***************************************************************************)
LEMMA OneChecker ==
  ASSUME Places, PipeInv, AnswersOwn, ~overlong, NEW c \in Checkers,
         UNCHANGED requests,
         \A d \in Checkers \ {c} : inbox'[d] = inbox[d] /\ outbox'[d] = outbox[d] /\ task'[d] = task[d],
         task'[c] \notin {"toStop", "stopping", "gone"} /\ ~Reading(c) => InStep(c)',
         \A r \in Requests : at[r] = "reading" /\ held[r] = c => Expecting(r)'
  PROVE  PipeInv' /\ AnswersOwn'
<1>1. UNCHANGED <<at, held, asks, got>>
  BY DEF requests
<1>2. \A d \in Checkers : Reading(d)' <=> Reading(d)
  BY <1>1 DEF Reading
<1>3. ASSUME NEW d \in Checkers, task'[d] \notin {"toStop", "stopping", "gone"}, ~Reading(d)'
      PROVE  InStep(d)'
  <2>1. CASE d = c
    BY <1>2, <1>3, <2>1
  <2>2. CASE d # c
    BY <1>2, <1>3, <2>2 DEF PipeInv, InStep
  <2> QED BY <2>1, <2>2
<1>4. ASSUME NEW s \in Requests, at'[s] = "reading" PROVE Expecting(s)'
  <2>1. CASE held[s] = c
    BY <1>1, <1>4, <2>1
  <2>2. CASE held[s] # c
    <3>1. held[s] \in Checkers \ {c} /\ Expecting(s)
      BY <1>1, <1>4, <2>2, HolderHolds DEF PipeInv
    <3> QED
      BY <1>1, <3>1 DEF Expecting, InStep
  <2> QED BY <2>1, <2>2
<1>5. AnswersOwn'
  BY <1>1 DEF AnswersOwn
<1> QED
  BY <1>3, <1>4, <1>5 DEF PipeInv

LEMMA PoolPipes ==
  ASSUME Places, PipeInv, AnswersOwn, ~overlong, NEW c \in Checkers, PoolStep(c)
  PROVE  PipeInv' /\ AnswersOwn'
<1>1. /\ task[c] # "idle" /\ UNCHANGED requests
      /\ \A d \in Checkers \ {c} : inbox'[d] = inbox[d] /\ outbox'[d] = outbox[d] /\ task'[d] = task[d]
  BY DEF PoolStep, WarmOk, WarmFails, StopBegins, StopReturns, RestartOk, RestartFails, pipes,
     Places, TypeOK
<1>2. \A r \in Requests : held[r] # c
  BY <1>1 DEF Places, PlaceInv, HeldBySome
<1>3. task'[c] \in {"stopping", "gone"} \/ InStep(c)'
  <2>1. CASE WarmOk(c) \/ RestartOk(c)
    <3>1. InStep(c)
      BY <1>2, <2>1, QuietInStep DEF WarmOk, RestartOk
    <3> QED
      BY <2>1, <3>1 DEF WarmOk, RestartOk, pipes, InStep
  <2>2. CASE StopReturns(c)
    BY <2>2 DEF StopReturns, Places, TypeOK, InStep
  <2>3. CASE WarmFails(c) \/ StopBegins(c) \/ RestartFails(c)
    BY <2>3 DEF WarmFails, StopBegins, RestartFails, Places, TypeOK
  <2> QED
    BY <2>1, <2>2, <2>3 DEF PoolStep
<1> QED
  BY <1>1, <1>2, <1>3, OneChecker

(* Only a checker that is being read has been asked, or is past use. *)
LEMMA ProcessPipes ==
  ASSUME Places, PipeInv, AnswersOwn, ~overlong', NEW c \in Checkers, ProcessStep(c)
  PROVE  PipeInv' /\ AnswersOwn'
<1>1. /\ ~overlong /\ UNCHANGED <<task, requests>>
      /\ \A d \in Checkers \ {c} : inbox'[d] = inbox[d] /\ outbox'[d] = outbox[d]
  BY DEF ProcessStep, Answer, Dies, Reaped, pool, Places, TypeOK
<1>2. UNCHANGED <<at, held, asks, got>>
  BY <1>1 DEF requests
<1>3. CASE Answer(c)
  <2>1. /\ inbox[c] # <<>> /\ inbox'[c] = Tail(inbox[c])
        /\ outbox'[c] = Append(outbox[c], <<Head(inbox[c]), "whole">>)
    <3>1. PICK kind \in {"whole", "long"} :
            /\ outbox' = [outbox EXCEPT ![c] = Append(@, <<Head(inbox[c]), kind>>)]
            /\ overlong' = (overlong \/ kind = "long")
      BY <1>3 DEF Answer
    <3>2. kind = "whole"
      BY <3>1
    <3> QED
      BY <1>3, <3>1, <3>2 DEF Answer, Places, TypeOK
  <2>2. task[c] \notin {"toStop", "stopping", "gone"} => Reading(c)
    BY <1>1, <2>1 DEF PipeInv, InStep
  <2>3. ASSUME NEW r \in Requests, at[r] = "reading", held[r] = c PROVE Expecting(r)'
    <3> DEFINE t == <<r, asks[r]>>
    <3>1. inbox[c] = <<t>> /\ outbox[c] = <<>>
      BY <1>1, <2>1, <2>3 DEF PipeInv, Expecting, InStep
    <3>2. inbox'[c] = <<>> /\ outbox'[c] = <<<<t, "whole">>>>
      BY <2>1, <3>1
    <3> QED
      BY <1>2, <2>3, <3>2 DEF Expecting
  <2> QED
    BY <1>1, <2>2, <2>3, OneChecker
<1>4. CASE Dies(c) \/ Reaped(c)
  <2>1. /\ inbox'[c] = <<>> \/ inbox'[c] = inbox[c]
        /\ outbox'[c] = outbox[c]
    BY <1>4 DEF Dies, Reaped, Places, TypeOK
  <2>2. InStep(c) => InStep(c)'
    BY <2>1 DEF InStep
  <2>3. task[c] \notin {"toStop", "stopping", "gone"} /\ ~Reading(c) => InStep(c)'
    BY <1>1, <2>2 DEF PipeInv
  <2>4. ASSUME NEW r \in Requests, at[r] = "reading", held[r] = c PROVE Expecting(r)'
    BY <1>1, <1>2, <2>1, <2>4 DEF PipeInv, Expecting, InStep
  <2> QED
    BY <1>1, <2>3, <2>4, OneChecker
<1> QED
  BY <1>3, <1>4 DEF ProcessStep

-----------------------------------------------------------------------------
(* The pipes hold what the requests that read them wait for, nothing else. *)
THEOREM PipesInvariance == Spec => [](PipeInv /\ AnswersOwn)
<1>1. Init => PipeInv /\ AnswersOwn
  BY DEF Init, PipeInv, AnswersOwn, InStep
<1>2. Places /\ PipeInv /\ AnswersOwn /\ [Next]_vars => (PipeInv /\ AnswersOwn)'
  <2> SUFFICES ASSUME Places, PipeInv, AnswersOwn, [Next]_vars PROVE (PipeInv /\ AnswersOwn)'
    OBVIOUS
  <2>1. CASE overlong'
    BY <2>1 DEF PipeInv, AnswersOwn
  <2>2. CASE ~overlong' /\ UNCHANGED vars
    <3>1. UNCHANGED <<task, inbox, outbox, at, held, asks, got, overlong>>
      BY <2>2 DEF vars, pool, pipes, requests
    <3> QED
      BY <3>1 DEF PipeInv, AnswersOwn, InStep, Expecting, Reading
  <2>3. ASSUME NEW r \in Requests, RequestStep(r), ~overlong' PROVE (PipeInv /\ AnswersOwn)'
    <3>1. overlong' = overlong
      BY <2>3 DEF RequestStep, Refuse, Acquire, StopWaiting, Take, Ask, AskDead, AskBroken, Read,
         ReadEof, Timeout, Done, PutBack, Recycle, Leave
    <3> QED
      BY <2>3, <3>1, RequestPipes
  <2>4. ASSUME NEW c \in Checkers, PoolStep(c), ~overlong' PROVE (PipeInv /\ AnswersOwn)'
    <3>1. overlong' = overlong
      BY <2>4 DEF PoolStep, WarmOk, WarmFails, StopBegins, StopReturns, RestartOk, RestartFails
    <3> QED
      BY <2>4, <3>1, PoolPipes
  <2> QED
    BY <2>1, <2>2, <2>3, <2>4, ProcessPipes DEF Next
<1> QED BY PlacesInvariance, <1>1, <1>2, PTL DEF Spec

(***************************************************************************)
(* What a request goes on with is the answer to its own last question,     *)
(* for any number of checkers, requests and compiles, although             *)
(* Checker.compile() pairs questions and answers by their position in the  *)
(* pipe alone: as long as no answer exceeds the reader's limit.            *)
(***************************************************************************)
THEOREM AlwaysAnswersOwn == Spec => []AnswersOwn
<1> QED BY PipesInvariance, PTL

(***************************************************************************)
(* A checker that goes back into rotation owes no answer and has none left *)
(* over (acquire()'s finally clause), as long as no answer was too long.   *)
(***************************************************************************)
THEOREM AlwaysInStep == Spec => []RotationInStep
<1>1. Places /\ PipeInv => RotationInStep
  <2> SUFFICES ASSUME Places, PipeInv, ~overlong, NEW c \in ToSet(free) PROVE InStep(c)
    BY DEF RotationInStep, InStep
  <2>1. c \in Checkers
    BY LenProperties DEF Places, TypeOK, ToSet
  <2>2. task[c] = "idle" /\ \A r \in Requests : held[r] # c
    BY <2>1 DEF Places, PlaceInv
  <2> QED
    BY <2>1, <2>2, QuietInStep
<1> QED BY PlacesInvariance, PipesInvariance, <1>1, PTL
=============================================================================
