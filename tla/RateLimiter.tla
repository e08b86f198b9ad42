------------------------------ MODULE RateLimiter ------------------------------
(***************************************************************************)
(* The sliding-window limiter (server/ratelimit.py) and the way create_job *)
(* charges it (server/app.py:235-238).  Every operation runs without an    *)
(* await, so each is one step.  The code's clock is a float of seconds;    *)
(* here it counts ticks, Tps of them a second, because retry_after_s is    *)
(* rounded to whole seconds.  The clock does not step back.                *)
(***************************************************************************)
EXTENDS Integers, FiniteSets, Sequences

CONSTANTS Keys,       \* (IP bucket, request class) pairs
          Limit,      \* _limit_for(klass) of each key
          Window,     \* settings.rate_window_s
          DayCap,     \* settings.max_jobs_per_day, 0 for no cap
          DayWindow,  \* 86400
          Tps,        \* ticks per second
          MaxNow      \* the end of time (bound)

ASSUME LimitAssumption == Limit \in [Keys -> Nat]
ASSUME WindowAssumption == Window \in Nat \ {0} /\ DayWindow \in Nat \ {0}
ASSUME DayCapAssumption == DayCap \in Nat
ASSUME TpsAssumption == Tps \in Nat \ {0}
ASSUME MaxNowAssumption == MaxNow \in Nat

VARIABLES
  now,       \* time.time()
  hits,      \* RateLimiter._hits, empty for a key that has no entry
  day,       \* RateLimiter._day
  granted,   \* history: when requests of each key were let through
  started,   \* history: when jobs passed the daily cap
  retryAt    \* history: when a refused key was told to come back, 0 if none

vars == <<now, hits, day, granted, started, retryAt>>

Times == 0..MaxNow
RateWindow == Window * Tps
DayTicks == DayWindow * Tps

TypeOK ==
  /\ now \in Times
  /\ hits \in [Keys -> Seq(Times)] /\ day \in Seq(Times)
  /\ granted \in [Keys -> Seq(Times)] /\ started \in Seq(Times)
  /\ retryAt \in [Keys -> Nat]

Init ==
  /\ now = 0
  /\ hits = [k \in Keys |-> <<>>] /\ day = <<>>
  /\ granted = [k \in Keys |-> <<>>] /\ started = <<>>
  /\ retryAt = [k \in Keys |-> 0]

-----------------------------------------------------------------------------
(* while s and s[0] <= now - window: s.popleft() *)
FirstLive(s, window) ==
  CHOOSE i \in 1..Len(s) + 1 :
    /\ \A k \in 1..i - 1 : s[k] + window <= now
    /\ i <= Len(s) => s[i] + window > now

Live(s, window) == SubSeq(s, FirstLive(s, window), Len(s))

HasRoomUpTo(s, limit) == Len(s) <= limit   \* mutant: off by one

HasRoom(s, limit) == Len(s) < limit

RetryRoundedDown(s) == (RateWindow - (now - s[1])) \div Tps   \* mutant: no + 1

(* int(window - (now - oldest)) + 1, in seconds *)
RetryAfter(s) == (RateWindow - (now - s[1])) \div Tps + 1

Tick ==
  /\ now < MaxNow
  /\ now' = now + 1
  /\ UNCHANGED <<hits, day, granted, started, retryAt>>

(* peek(), which drops what has expired and reports *)
Peek(k) ==
  /\ hits' = [hits EXCEPT ![k] = Live(@, RateWindow)]
  /\ UNCHANGED <<now, day, granted, started, retryAt>>

(* check(): peek, then take a slot if there is one *)
Grant(k) ==
  /\ HasRoom(Live(hits[k], RateWindow), Limit[k])
  /\ hits' = [hits EXCEPT ![k] = Append(Live(@, RateWindow), now)]
  /\ granted' = [granted EXCEPT ![k] = Append(@, now)]
  /\ retryAt' = [retryAt EXCEPT ![k] = 0]

Refuse(k) ==
  LET live == Live(hits[k], RateWindow)
  IN /\ ~HasRoom(live, Limit[k])
     /\ live # <<>>
     /\ hits' = [hits EXCEPT ![k] = live]
     /\ retryAt' = [retryAt EXCEPT ![k] = now + RetryAfter(live) * Tps]
     /\ UNCHANGED granted

(* A limit of 0: hits[0] raises IndexError. *)
Raise(k) ==
  LET live == Live(hits[k], RateWindow)
  IN /\ ~HasRoom(live, Limit[k])
     /\ live = <<>>
     /\ hits' = [hits EXCEPT ![k] = live]
     /\ UNCHANGED <<granted, retryAt>>

Check(k) == (Grant(k) \/ Refuse(k) \/ Raise(k)) /\ UNCHANGED <<now, day, started>>

(* check_global_daily() *)
DailyOk == DayCap = 0 \/ HasRoom(Live(day, DayTicks), DayCap)

ChargeDayFirstOnly ==   \* mutant: the day's log is trimmed with the hourly window
  IF DayCap = 0 THEN UNCHANGED <<day, started>>
  ELSE /\ day' = Append(Live(day, RateWindow), now)
       /\ started' = Append(started, now)

ChargeDay ==
  IF DayCap = 0 THEN UNCHANGED <<day, started>>
  ELSE /\ day' = Append(Live(day, DayTicks), now)
       /\ started' = Append(started, now)

(***************************************************************************)
(* create_job's charges: the key's slot first, then the day's.  A job that *)
(* the daily cap turns away has paid its slot.                             *)
(***************************************************************************)
ChargeJob(k) ==
  /\ \/ (Refuse(k) \/ Raise(k)) /\ UNCHANGED <<day, started>>
     \/ Grant(k) /\ DailyOk /\ ChargeDay
     \/ Grant(k) /\ ~DailyOk /\ day' = Live(day, DayTicks) /\ UNCHANGED started
  /\ UNCHANGED now

(* sweep(): an entry without live hits is deleted, which reads as empty *)
Sweep ==
  /\ hits' = [k \in Keys |-> Live(hits[k], RateWindow)]
  /\ UNCHANGED <<now, day, granted, started, retryAt>>

Next ==
  \/ Tick \/ Sweep
  \/ \E k \in Keys : Peek(k) \/ Check(k) \/ ChargeJob(k)

Spec == Init /\ [][Next]_vars

-----------------------------------------------------------------------------
(* Properties *)

(***************************************************************************)
(* No key is let through more than Limit times in any window, wherever it  *)
(* starts and whatever peeks and sweeps trimmed in between: the Limit-th   *)
(* request after one is at least a window later.                           *)
(***************************************************************************)
SlidingWindow ==
  \A k \in Keys : \A i \in DOMAIN granted[k] :
    i + Limit[k] \in DOMAIN granted[k] => granted[k][i + Limit[k]] >= granted[k][i] + RateWindow

(***************************************************************************)
(* The same of the service-wide cap, over any day and not the calendar's.  *)
(***************************************************************************)
DailyCap ==
  DayCap > 0 => \A i \in DOMAIN started :
    i + DayCap \in DOMAIN started => started[i + DayCap] >= started[i] + DayTicks

(***************************************************************************)
(* Retry-After is honest: a refused client that waits the whole seconds it *)
(* was told, and whose key was not let through meanwhile, is not refused   *)
(* again.                                                                  *)
(***************************************************************************)
RetryHonoured ==
  \A k \in Keys : retryAt[k] > 0 /\ now >= retryAt[k]
                    => HasRoom(Live(hits[k], RateWindow), Limit[k])

(***************************************************************************)
(* The remaining count a client reads is exact: the trimmed log is the     *)
(* part of all grants that the current window holds.                       *)
(***************************************************************************)
HitsAreTheWindow ==
  \A k \in Keys : Live(hits[k], RateWindow) = Live(granted[k], RateWindow)
=============================================================================
