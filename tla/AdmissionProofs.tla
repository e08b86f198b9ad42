---------------------------- MODULE AdmissionProofs ----------------------------
(***************************************************************************)
(* For all bounds, the checks of create_job hold after the await of the    *)
(* checker as long as no other submission was prepared meanwhile.  The     *)
(* inductive invariant says what a submission that was let in still has: a *)
(* place under its key's limit, and one in the queue.  Which key a request *)
(* has does not matter for it; that it is the client's own is the second   *)
(* theorem.                                                                *)
(***************************************************************************)
EXTENDS Admission, TLAPS, SequenceTheorems

Limit == PerIpRunning + PerIpQueued

Counts ==
  /\ preparing \in [Keys -> Nat]
  /\ queued \in [Keys -> Nat] /\ running \in [Keys -> Nat]
  /\ qsize \in Int

(* A key whose submissions never overlapped keeps the place it checked. *)
PlaceOfKey ==
  \A k \in Keys \ overlapped.keys :
    /\ preparing[k] <= 1
    /\ queued[k] + running[k] <= Limit
    /\ preparing[k] = 1 => queued[k] + running[k] < Limit

(* If none overlapped at all, the one under way keeps its place in the queue. *)
PlaceInQueue ==
  overlapped.any
    \/ /\ ~lost
       /\ \A i, j \in Keys : preparing[i] > 0 /\ preparing[j] > 0 => i = j
       /\ \A i \in Keys : preparing[i] <= 1 /\ (preparing[i] > 0 => qsize < MaxQueue)

History == overlapped = [keys |-> overlapped.keys, any |-> overlapped.any]

IInv == Counts /\ History /\ PlaceOfKey /\ PlaceInQueue

-----------------------------------------------------------------------------
LEMMA InitInv == Init => IInv
BY CapacityAssumption DEF Init, IInv, Counts, History, PlaceOfKey, PlaceInQueue, Limit

(* The arrival of a submission: it finds a place, or it overlaps another. *)
LEMMA ArrivesInv == ASSUME IInv, NEW c \in Clients, Arrives(c) PROVE IInv'
<1> USE CapacityAssumption
<1>1. PICK k \in CallerKeys[c] :
        /\ MayTry(k) /\ ~Full /\ preparing[k] < MaxPreparing
        /\ preparing' = [preparing EXCEPT ![k] = @ + 1]
        /\ overlapped' =
             [keys |-> overlapped.keys \cup (IF preparing[k] > 0 THEN {k} ELSE {}),
              any |-> overlapped.any \/ \E j \in Keys : preparing[j] > 0]
        /\ UNCHANGED <<jobs, lost>>
  BY DEF Arrives
<1>2. overlapped.keys \subseteq overlapped'.keys /\ (overlapped.any => overlapped'.any)
  BY <1>1
<1>3. CASE k \notin Keys
  <2>1. preparing' = preparing
    BY <1>1, <1>3 DEF IInv, Counts
  <2>2. History'
    BY <1>1 DEF History
  <2> QED BY <1>1, <1>2, <2>1, <2>2 DEF IInv, Counts, PlaceOfKey, PlaceInQueue, jobs
<1>4. CASE k \in Keys
  <2>1. Counts' /\ History'
    BY <1>1, <1>4 DEF IInv, Counts, History, jobs
  <2>2. preparing[k] > 0 => k \in overlapped'.keys /\ overlapped'.any
    BY <1>1, <1>4
  <2>3. PlaceOfKey'
    <3> SUFFICES ASSUME NEW j \in Keys, j \notin overlapped'.keys
                 PROVE  /\ preparing'[j] <= 1
                        /\ queued[j] + running[j] <= Limit
                        /\ preparing'[j] = 1 => queued[j] + running[j] < Limit
      BY <1>1 DEF PlaceOfKey, jobs
    <3>1. j \notin overlapped.keys
      BY <1>2
    <3>2. CASE j = k
      <4>1. preparing[k] = 0 /\ preparing'[k] = 1
        BY <1>1, <1>4, <2>2, <3>2 DEF IInv, Counts
      <4>2. queued[k] + running[k] < Limit
        BY <1>1, <1>4 DEF MayTry, IInv, Counts, Limit
      <4> QED BY <3>2, <4>1, <4>2 DEF IInv, Counts, Limit
    <3>3. CASE j # k
      BY <1>1, <3>1, <3>3 DEF IInv, Counts, PlaceOfKey
    <3> QED BY <3>2, <3>3
  <2>4. PlaceInQueue'
    <3>1. CASE \E j \in Keys : preparing[j] > 0
      BY <1>1, <3>1 DEF PlaceInQueue
    <3>2. CASE overlapped.any
      BY <1>2, <3>2 DEF PlaceInQueue
    <3>3. CASE ~overlapped.any /\ \A j \in Keys : preparing[j] = 0
      <4>1. ~lost /\ qsize < MaxQueue /\ \A j \in Keys : preparing'[j] = IF j = k THEN 1 ELSE 0
        BY <1>1, <1>4, <3>3 DEF IInv, Counts, PlaceInQueue, Full
      <4> QED BY <1>1, <4>1 DEF PlaceInQueue, jobs
    <3> QED BY <3>1, <3>2, <3>3 DEF IInv, Counts
  <2> QED BY <2>1, <2>3, <2>4 DEF IInv
<1> QED BY <1>3, <1>4

(* The end of a preparation, with a job in the queue or without. *)
LEMMA PreparedInv ==
  ASSUME IInv, NEW k \in Keys, TurnedAway(k) \/ Submits(k) PROVE IInv'
<1> USE CapacityAssumption
<1>1. preparing[k] > 0 /\ preparing' = [preparing EXCEPT ![k] = @ - 1]
      /\ overlapped' = overlapped /\ running' = running
  BY DEF TurnedAway, Submits, jobs
<1>2. CASE TurnedAway(k)
  BY <1>1, <1>2 DEF TurnedAway, jobs, IInv, Counts, History, PlaceOfKey, PlaceInQueue
<1>3. CASE Submits(k)
  <2>1. Counts' /\ History'
    BY <1>1, <1>3 DEF Submits, IInv, Counts, History
  <2>2. PlaceOfKey'
    <3>1. ASSUME NEW j \in Keys \ overlapped.keys, j = k
          PROVE  preparing'[j] = 0 /\ queued'[j] + running'[j] <= Limit
      <4>1. preparing[j] = 1 /\ queued[j] + running[j] < Limit
        BY <1>1, <3>1 DEF IInv, Counts, PlaceOfKey
      <4> QED BY <1>1, <1>3, <3>1, <4>1 DEF Submits, IInv, Counts, Limit
    <3>2. ASSUME NEW j \in Keys \ overlapped.keys, j # k
          PROVE  preparing'[j] = preparing[j] /\ queued'[j] = queued[j]
      BY <1>1, <1>3, <3>2 DEF Submits, IInv, Counts
    <3> QED BY <1>1, <3>1, <3>2 DEF IInv, Counts, PlaceOfKey
  <2>3. PlaceInQueue'
    <3>1. CASE overlapped.any
      BY <1>1, <3>1 DEF PlaceInQueue
    <3>2. CASE ~overlapped.any
      <4>1. ~lost /\ qsize < MaxQueue /\ \A j \in Keys : preparing'[j] = 0
        BY <1>1, <3>2 DEF IInv, Counts, PlaceInQueue
      <4> QED BY <1>1, <1>3, <4>1 DEF Submits, Full, IInv, Counts, PlaceInQueue
    <3> QED BY <3>1, <3>2
  <2> QED BY <2>1, <2>2, <2>3 DEF IInv
<1> QED BY <1>2, <1>3

(* What the queue does with the jobs only makes room. *)
LEMMA JobsInv ==
  ASSUME IInv,
         \/ SkipsCancelled
         \/ \E k \in Keys : Starts(k) \/ Ends(k) \/ CancelQueued(k)
  PROVE  IInv'
<1> USE CapacityAssumption
<1>1. CASE SkipsCancelled
  BY <1>1 DEF SkipsCancelled, IInv, Counts, History, PlaceOfKey, PlaceInQueue
<1>2. ASSUME NEW k \in Keys, Starts(k) PROVE IInv'
  BY <1>2 DEF Starts, IInv, Counts, History, PlaceOfKey, PlaceInQueue, Limit
<1>3. ASSUME NEW k \in Keys, Ends(k) PROVE IInv'
  BY <1>3 DEF Ends, IInv, Counts, History, PlaceOfKey, PlaceInQueue, Limit
<1>4. ASSUME NEW k \in Keys, CancelQueued(k) PROVE IInv'
  BY <1>4 DEF CancelQueued, IInv, Counts, History, PlaceOfKey, PlaceInQueue, Limit
<1> QED BY <1>1, <1>2, <1>3, <1>4

LEMMA StepInv == IInv /\ [Next]_vars => IInv'
<1> SUFFICES ASSUME IInv, [Next]_vars PROVE IInv'
  OBVIOUS
<1>1. CASE UNCHANGED vars
  BY <1>1 DEF vars, jobs, IInv, Counts, History, PlaceOfKey, PlaceInQueue
<1>2. ASSUME NEW c \in Clients, Arrives(c) PROVE IInv'
  BY <1>2, ArrivesInv
<1>3. ASSUME NEW k \in Keys, TurnedAway(k) \/ Submits(k) PROVE IInv'
  BY <1>3, PreparedInv
<1>4. CASE SkipsCancelled \/ \E k \in Keys : Starts(k) \/ Ends(k) \/ CancelQueued(k)
  BY <1>4, JobsInv
<1> QED BY <1>1, <1>2, <1>3, <1>4 DEF Next

(***************************************************************************)
(* create_job's checks of a key's jobs and of the queue's room, made       *)
(* before the await, still hold when the job is filed, for any number of   *)
(* keys and any bounds, unless two submissions were prepared at once.      *)
(***************************************************************************)
THEOREM ChecksHold == Spec => []ChecksHoldLater
<1>1. IInv => ChecksHoldLater
  BY DEF IInv, PlaceOfKey, PlaceInQueue, ChecksHoldLater, Limit
<1> QED BY <1>1, InitInv, StepInv, PTL DEF Spec

-----------------------------------------------------------------------------
(* The last entry of the header is the proxy's, and it wins. *)
LEMMA LastEntryWins ==
  ASSUME NEW chain \in Seq(Addresses \cup {Junk}), NEW peer, NEW c \in Clients
  PROVE  Forwarded(Append(chain, c), peer) = c
<1> DEFINE full == Append(chain, c)
           n == Len(full)
           others == {k \in Parsed(full) : full[k] \notin Proxies}
<1>1. n \in Nat \ {0} /\ DOMAIN full = 1..n /\ full[n] = c
  BY AppendProperties DEF Addresses
<1>2. n \in others /\ \A k \in others : n >= k
  BY <1>1, AddressAssumption DEF Parsed, Addresses
<1>3. Max(others) = n
  BY <1>1, <1>2 DEF Max, Parsed
<1> QED BY <1>1, <1>2, <1>3 DEF Forwarded

(* Direct requests count by their peer, the proxy's by what it appended. *)
LEMMA CallerIsClient ==
  ASSUME NEW c \in Clients, NEW t \in BOOLEAN, NEW r \in RequestsOf(c, t)
  PROVE  Caller(r, t) = Net[c]
<1>1. CASE r.peer = c
  BY <1>1, AddressAssumption DEF Caller, ClientIp
<1>2. CASE r.peer \in Proxies
  <2>1. r.real \in (IF t THEN {c} ELSE Addresses \cup {Junk})
        /\ \E h \in Headers : r.chain = Append(h, c)
    BY <1>2, AddressAssumption DEF RequestsOf
  <2>2. PICK h \in Headers : r.chain = Append(h, c)
    BY <2>1
  <2>3. h \in Seq(Addresses \cup {Junk})
    BY CapacityAssumption, IsASeq DEF Headers
  <2>4. Forwarded(r.chain, r.peer) = c
    BY <2>2, <2>3, LastEntryWins
  <2>5. t => r.real = c
    BY <2>1
  <2>6. c # Junk
    BY AddressAssumption DEF Addresses
  <2> QED BY <1>2, <2>4, <2>5, <2>6 DEF Caller, ClientIp
<1> QED BY <1>1, <1>2 DEF RequestsOf

(***************************************************************************)
(* For any clients, proxies, buckets and headers of any length, with either *)
(* setting of TRUST_X_REAL_IP, a submission counts under the key of the    *)
(* address it came from (client_ip and caller).                            *)
(***************************************************************************)
THEOREM AlwaysUnderOwnKey == Spec => []KeyIsTheClients
<1> DEFINE Filed == filed \in [Keys -> SUBSET Clients] /\ KeyIsTheClients
<1>1. Init => Filed
  BY DEF Init, KeyIsTheClients
<1>2. ASSUME Filed, NEW c \in Clients, Arrives(c) PROVE Filed'
  <2>1. PICK k \in CallerKeys[c] : filed' = [filed EXCEPT ![k] = @ \cup {c}]
    BY <1>2 DEF Arrives
  <2>2. PICK t \in BOOLEAN : \E r \in RequestsOf(c, t) : k = Caller(r, t)
    BY <2>1 DEF CallerKeys
  <2>3. k = Net[c]
    BY <2>2, CallerIsClient
  <2> QED BY <1>2, <2>1, <2>3 DEF KeyIsTheClients
<1>3. ASSUME Filed, [Next]_vars, ~\E c \in Clients : Arrives(c) PROVE Filed'
  <2>1. UNCHANGED filed
    BY <1>3 DEF Next, TurnedAway, Submits, Starts, Ends, CancelQueued, SkipsCancelled, vars
  <2> QED BY <1>3, <2>1 DEF KeyIsTheClients
<1>4. Filed /\ [Next]_vars => Filed'
  BY <1>2, <1>3
<1> QED BY <1>1, <1>4, PTL DEF Spec
=============================================================================
