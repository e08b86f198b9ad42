------------------------------- MODULE Admission -------------------------------
(***************************************************************************)
(* create_job (server/app.py) from the request to the queue: the client's  *)
(* key (clientip.py), the checks on its jobs and on the queue, the await   *)
(* of the checker, and then the charges and the queue, with the checks not *)
(* made again.  Of the limiter it keeps that it refuses at any time        *)
(* (RateLimiter says when), of the jobs how many of each key wait and run  *)
(* (JobQueue has the rest).                                                *)
(***************************************************************************)
EXTENDS Integers, Sequences, FiniteSetsExt

CONSTANTS Clients,      \* addresses that send requests
          Proxies,      \* TRUSTED_PROXIES, as addresses
          Junk,         \* what is in a header and no address
          Keys,         \* buckets
          Net,          \* bucket(): the key of an address, several in one /56
          PerIpRunning, PerIpQueued, MaxQueue, MaxConcurrent,
          MaxPreparing, \* requests of a key that wait for the checker (bound)
          MaxForged     \* entries of the header a client sends (bound)

Addresses == Clients \cup Proxies

ASSUME AddressAssumption ==
  /\ Clients \cap Proxies = {} /\ Junk \notin Addresses
  /\ Net \in [Addresses -> Keys]
ASSUME CapacityAssumption ==
  /\ PerIpRunning \in Nat \ {0} /\ PerIpQueued \in Nat
  /\ MaxQueue \in Nat \ {0} /\ MaxConcurrent \in Nat \ {0}
  /\ MaxPreparing \in Nat /\ MaxForged \in Nat

VARIABLES
  preparing,   \* of each key: the submissions in `await _prepare`
  queued,      \* the jobs in phase "queued"
  running,     \* the jobs that are neither queued nor at an end
  qsize,       \* the ids in the asyncio queue, those of cancelled jobs too
  filed,       \* history: the clients whose requests counted under each key
  overlapped,  \* history: two submissions of one key, or of any, prepared at once
  lost         \* history: a charged submission found the queue full

jobs == <<queued, running, qsize>>
vars == <<preparing, jobs, filed, overlapped, lost>>

TypeOK ==
  /\ preparing \in [Keys -> 0..MaxPreparing]
  /\ queued \in [Keys -> 0..MaxQueue] /\ running \in [Keys -> 0..MaxConcurrent]
  /\ qsize \in 0..MaxQueue /\ lost \in BOOLEAN
  /\ filed \in [Keys -> SUBSET Clients]
  /\ overlapped \in [keys : SUBSET Keys, any : BOOLEAN]
  /\ MapThenSumSet(LAMBDA k : queued[k], Keys) <= qsize

Init ==
  /\ preparing = [k \in Keys |-> 0]
  /\ queued = [k \in Keys |-> 0] /\ running = [k \in Keys |-> 0]
  /\ qsize = 0 /\ lost = FALSE /\ filed = [k \in Keys |-> {}]
  /\ overlapped = [keys |-> {}, any |-> FALSE]

-----------------------------------------------------------------------------
(* client_ip() and caller() *)

Parsed(chain) == {k \in DOMAIN chain : chain[k] # Junk}

ForwardedLeft(chain, peer) ==   \* mutant: the leftmost address
  IF Parsed(chain) = {} THEN peer ELSE chain[Min(Parsed(chain))]

(* The rightmost address that is not a proxy's; if all are, the first. *)
Forwarded(chain, peer) ==
  LET addrs == Parsed(chain)
      others == {k \in addrs : chain[k] \notin Proxies}
  IN IF others # {} THEN chain[Max(others)]
     ELSE IF addrs # {} THEN chain[Min(addrs)] ELSE peer

ClientIp(r, trustXRealIp) ==
  IF r.peer \notin Proxies THEN r.peer
  ELSE IF trustXRealIp /\ r.real # Junk THEN r.real
  ELSE Forwarded(r.chain, r.peer)

Caller(r, trustXRealIp) == Net[ClientIp(r, trustXRealIp)]

(***************************************************************************)
(* A request: straight from the client with any headers, or through the    *)
(* proxy (external), which appends the address it sees to the header it    *)
(* was given.  TRUST_X_REAL_IP is for a proxy that sets the other header.  *)
(***************************************************************************)
Headers == UNION {[1..n -> Addresses \cup {Junk}] : n \in 0..MaxForged}

RequestsOf(c, trustXRealIp) ==
  [peer : {c}, real : Addresses \cup {Junk}, chain : Headers]
    \cup [peer : Proxies, real : IF trustXRealIp THEN {c} ELSE Addresses \cup {Junk},
          chain : {Append(h, c) : h \in Headers}]

CallerKeys ==
  [c \in Clients |-> UNION {{Caller(r, t) : r \in RequestsOf(c, t)} : t \in BOOLEAN}]

-----------------------------------------------------------------------------
(* create_job, up to the await *)

Full == qsize >= MaxQueue

MayTryRunningOnly(k) ==   \* mutant: the waiting jobs are not counted
  ~(running[k] >= PerIpRunning)

MayTry(k) ==
  ~(running[k] >= PerIpRunning \/ queued[k] + running[k] >= PerIpRunning + PerIpQueued)

Arrives(c) ==
  \E k \in CallerKeys[c] :
    /\ MayTry(k) /\ ~Full /\ preparing[k] < MaxPreparing
    /\ preparing' = [preparing EXCEPT ![k] = @ + 1]
    /\ filed' = [filed EXCEPT ![k] = @ \cup {c}]
    /\ overlapped' =
         [keys |-> overlapped.keys \cup (IF preparing[k] > 0 THEN {k} ELSE {}),
          any |-> overlapped.any \/ \E j \in Keys : preparing[j] > 0]
    /\ UNCHANGED <<jobs, lost>>

(* A rejection, a compile error, no checker; or the limiter refuses. *)
TurnedAway(k) ==
  /\ preparing[k] > 0
  /\ preparing' = [preparing EXCEPT ![k] = @ - 1]
  /\ UNCHANGED <<jobs, filed, overlapped, lost>>

(* After it, and once charged: the store and the queue.  The record of a   *)
(* job that finds the queue full is failed.                                *)
Submits(k) ==
  /\ preparing[k] > 0
  /\ preparing' = [preparing EXCEPT ![k] = @ - 1]
  /\ IF Full
     THEN lost' = TRUE /\ UNCHANGED <<queued, qsize>>
     ELSE queued' = [queued EXCEPT ![k] = @ + 1] /\ qsize' = qsize + 1 /\ UNCHANGED lost
  /\ UNCHANGED <<running, filed, overlapped>>

-----------------------------------------------------------------------------
(* What JobQueue does with the jobs *)

RunningJobs == MapThenSumSet(LAMBDA k : running[k], Keys)

Starts(k) ==
  /\ queued[k] > 0 /\ RunningJobs < MaxConcurrent
  /\ queued' = [queued EXCEPT ![k] = @ - 1] /\ qsize' = qsize - 1
  /\ running' = [running EXCEPT ![k] = @ + 1]
  /\ UNCHANGED <<preparing, filed, overlapped, lost>>

Ends(k) ==
  /\ running[k] > 0
  /\ running' = [running EXCEPT ![k] = @ - 1]
  /\ UNCHANGED <<preparing, queued, qsize, filed, overlapped, lost>>

CancelQueued(k) ==   \* its id stays in the queue
  /\ queued[k] > 0
  /\ queued' = [queued EXCEPT ![k] = @ - 1]
  /\ UNCHANGED <<preparing, running, qsize, filed, overlapped, lost>>

SkipsCancelled ==   \* a free worker takes it and drops it
  /\ MapThenSumSet(LAMBDA k : queued[k], Keys) < qsize /\ RunningJobs < MaxConcurrent
  /\ qsize' = qsize - 1
  /\ UNCHANGED <<preparing, queued, running, filed, overlapped, lost>>

Next ==
  \/ \E c \in Clients : Arrives(c)
  \/ \E k \in Keys : TurnedAway(k) \/ Submits(k) \/ Starts(k) \/ Ends(k) \/ CancelQueued(k)
  \/ SkipsCancelled

Spec == Init /\ [][Next]_vars

-----------------------------------------------------------------------------
(* Properties *)

(***************************************************************************)
(* Whatever headers a client sends, straight or through the proxy, its     *)
(* requests count under its own key, so that it can neither get rid of its *)
(* own history nor use up another's.                                       *)
(***************************************************************************)
KeyIsTheClients == \A k \in Keys : \A c \in filed[k] : Net[c] = k

(***************************************************************************)
(* The checks before the await hold after it as long as no two submissions *)
(* prepare at once: a key has no more jobs than it may have, and no one    *)
(* pays for a job that finds the queue full.                               *)
(***************************************************************************)
ChecksHoldLater ==
  /\ \A k \in Keys \ overlapped.keys : queued[k] + running[k] <= PerIpRunning + PerIpQueued
  /\ overlapped.any \/ ~lost
=============================================================================
