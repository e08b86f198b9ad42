--------------------------- MODULE RateLimiterProofs ---------------------------
(***************************************************************************)
(* The properties of RateLimiter for every set of keys, limit, window, cap *)
(* and resolution of the clock.  A trimmed log is a suffix of the history  *)
(* of grants and everything before it has expired: that, and the length of *)
(* the log, is what makes counting the log as good as counting the past.   *)
(***************************************************************************)
EXTENDS RateLimiter, TLAPS, WellFoundedInduction, SequenceTheorems

(* log is what is left of the history past: a suffix, the rest expired. *)
LogOf(log, past, window) ==
  /\ Len(log) <= Len(past)
  /\ \A i \in 1..Len(log) : log[i] = past[i + Len(past) - Len(log)]
  /\ \A i \in 1..Len(past) - Len(log) : past[i] + window <= now

Spaced(past, limit, window) ==
  \A i \in DOMAIN past : i + limit \in DOMAIN past => past[i + limit] >= past[i] + window

(* What a refusal of key k promised still holds: a slot is free already, or *)
(* will be when the promised time comes.                                    *)
Promise(k) ==
  retryAt[k] > 0 =>
    /\ Limit[k] > 0
    /\ Len(hits[k]) < Limit[k] \/ hits[k][1] + RateWindow <= retryAt[k]

KeyInv(k) ==
  /\ LogOf(hits[k], granted[k], RateWindow)
  /\ Len(hits[k]) <= Limit[k]
  /\ Spaced(granted[k], Limit[k], RateWindow)
  /\ Promise(k)

DayInv == DayCap > 0 => LogOf(day, started, DayTicks) /\ Spaced(started, DayCap, DayTicks)

IInv == TypeOK /\ (\A k \in Keys : KeyInv(k)) /\ DayInv

-----------------------------------------------------------------------------
(* The while loop that trims a log stops, at one place only: FirstLive is   *)
(* well defined (ratelimit.py:40, 66, 79).                                  *)
IsFirstLive(s, window, i) ==
  /\ i \in 1..Len(s) + 1
  /\ \A k \in 1..i - 1 : s[k] + window <= now
  /\ i <= Len(s) => s[i] + window > now

(* The loop stops at the first entry that is live, or at the end. *)
LEMMA FirstLiveExists ==
  ASSUME NEW s \in Seq(Nat), NEW window \in Nat, now \in Nat
  PROVE  IsFirstLive(s, window, FirstLive(s, window))
<1> DEFINE Stops == {i \in 1..Len(s) + 1 : i <= Len(s) => s[i] + window > now}
<1>0. Len(s) \in Nat /\ \A i \in 1..Len(s) : s[i] \in Nat
  OBVIOUS
<1>1. Len(s) + 1 \in Stops /\ Stops \subseteq Nat
  BY <1>0
<1> DEFINE Below == {ss \in Nat \X Nat : ss[1] < ss[2]}
<1>2. IsWellFoundedOn(Below, Nat)
  BY NatLessThanWellFounded DEF OpToRel
<1>3. PICK i \in Stops : \A j \in Stops : ~(<<j, i>> \in Below)
  <2> HIDE DEF Stops, Below
  <2> QED BY <1>1, <1>2, WFMin
<1>4. \A j \in Stops : ~(j < i)
  BY <1>1, <1>3
<1>5. ASSUME NEW k \in 1..i - 1 PROVE s[k] + window <= now
  <2>1. k \in 1..Len(s) /\ k < i /\ s[k] \in Nat
    BY <1>0, <1>5
  <2>2. k \notin Stops
    BY <1>4, <2>1
  <2> QED BY <1>0, <2>1, <2>2
<1>6. IsFirstLive(s, window, i)
  BY <1>5 DEF IsFirstLive
<1> QED BY <1>6 DEF IsFirstLive, FirstLive

(* There is no second such place. *)
LEMMA FirstLiveUnique ==
  ASSUME NEW s \in Seq(Nat), NEW window \in Nat, now \in Nat,
         NEW i, IsFirstLive(s, window, i)
  PROVE  FirstLive(s, window) = i
<1> DEFINE j == FirstLive(s, window)
<1>1. IsFirstLive(s, window, j)
  BY FirstLiveExists
<1>2. Len(s) \in Nat /\ \A k \in 1..Len(s) : s[k] \in Nat
  OBVIOUS
<1> HIDE DEF j
<1>3. i \in Nat /\ j \in Nat /\ 1 <= i /\ 1 <= j /\ i <= Len(s) + 1 /\ j <= Len(s) + 1
  BY <1>1, <1>2 DEF IsFirstLive
<1>4. ~(i < j)
  <2> SUFFICES ASSUME i < j PROVE FALSE
    OBVIOUS
  <2>1. i \in 1..j - 1 /\ i \in 1..Len(s)
    BY <1>2, <1>3
  <2> QED BY <1>1, <1>2, <2>1 DEF IsFirstLive
<1>5. ~(j < i)
  <2> SUFFICES ASSUME j < i PROVE FALSE
    OBVIOUS
  <2>1. j \in 1..i - 1 /\ j \in 1..Len(s)
    BY <1>2, <1>3
  <2> QED BY <1>1, <1>2, <2>1 DEF IsFirstLive
<1>6. i = j
  BY <1>3, <1>4, <1>5
<1> QED BY <1>6 DEF j

(* What trimming does to a log: a prefix goes, all of it expired, and what  *)
(* is then first is live.                                                   *)
LEMMA LiveFacts ==
  ASSUME NEW s \in Seq(Nat), NEW window \in Nat, now \in Nat
  PROVE  /\ Live(s, window) \in Seq(Nat)
         /\ Len(Live(s, window)) <= Len(s)
         /\ \A i \in 1..Len(Live(s, window)) :
              Live(s, window)[i] = s[i + Len(s) - Len(Live(s, window))]
         /\ \A i \in 1..Len(s) - Len(Live(s, window)) : s[i] + window <= now
         /\ Len(Live(s, window)) > 0 => Live(s, window)[1] + window > now
<1> DEFINE f == FirstLive(s, window)
<1>1. IsFirstLive(s, window, f)
  BY FirstLiveExists
<1>2. Len(s) \in Nat /\ \A k \in 1..Len(s) : s[k] \in Nat
  OBVIOUS
<1>3. Live(s, window) = SubSeq(s, f, Len(s))
  BY DEF Live
<1> HIDE DEF f
<1>4. f \in 1..Len(s) + 1
  BY <1>1 DEF IsFirstLive
<1>5. SubSeq(s, f, Len(s)) \in Seq(Nat) /\ Len(SubSeq(s, f, Len(s))) = Len(s) - f + 1
  BY <1>2, <1>4
<1>6. \A i \in 1..Len(s) - f + 1 : SubSeq(s, f, Len(s))[i] = s[i + f - 1]
  BY <1>2, <1>4
<1>7. \A i \in 1..Len(s) - f + 1 : Live(s, window)[i] = s[i + Len(s) - (Len(s) - f + 1)]
  BY <1>2, <1>3, <1>4, <1>6
<1>8. \A i \in 1..Len(s) - (Len(s) - f + 1) : s[i] + window <= now
  BY <1>1, <1>2, <1>4 DEF IsFirstLive
<1>9. Len(s) - f + 1 > 0 => Live(s, window)[1] + window > now
  <2> SUFFICES ASSUME Len(s) - f + 1 > 0 PROVE Live(s, window)[1] + window > now
    OBVIOUS
  <2>1. f <= Len(s) /\ 1 \in 1..Len(s) - f + 1
    BY <1>2, <1>4
  <2>2. Live(s, window)[1] = s[f]
    BY <1>2, <1>3, <1>4, <1>6, <2>1
  <2> QED BY <1>1, <2>1, <2>2 DEF IsFirstLive
<1> QED BY <1>2, <1>3, <1>4, <1>5, <1>7, <1>8, <1>9

(* Trimming leaves a log a log of the same history. *)
LEMMA LogTrimmed ==
  ASSUME NEW s \in Seq(Nat), NEW g \in Seq(Nat), NEW window \in Nat, now \in Nat,
         LogOf(s, g, window)
  PROVE  LogOf(Live(s, window), g, window)
<1> DEFINE l == Live(s, window)
<1>1. /\ Len(s) \in Nat /\ Len(g) \in Nat /\ Len(l) \in Nat /\ Len(l) <= Len(s)
      /\ \A i \in 1..Len(l) : l[i] = s[i + Len(s) - Len(l)]
      /\ \A i \in 1..Len(s) - Len(l) : s[i] + window <= now
  BY LiveFacts
<1>2. /\ Len(s) <= Len(g)
      /\ \A i \in 1..Len(s) : s[i] = g[i + Len(g) - Len(s)]
      /\ \A i \in 1..Len(g) - Len(s) : g[i] + window <= now
  BY DEF LogOf
<1> HIDE DEF l
<1>3. ASSUME NEW i \in 1..Len(l) PROVE l[i] = g[i + Len(g) - Len(l)]
  <2>1. i + Len(s) - Len(l) \in 1..Len(s)
    BY <1>1
  <2>2. (i + Len(s) - Len(l)) + Len(g) - Len(s) = i + Len(g) - Len(l)
    BY <1>1
  <2> QED BY <1>1, <1>2, <2>1, <2>2
<1>4. ASSUME NEW i \in 1..Len(g) - Len(l) PROVE g[i] + window <= now
  <2>1. CASE i \in 1..Len(g) - Len(s)
    BY <1>2, <2>1
  <2>2. CASE i \notin 1..Len(g) - Len(s)
    <3> DEFINE k == i - (Len(g) - Len(s))
    <3>1. k \in 1..Len(s) - Len(l) /\ k \in 1..Len(s) /\ k + Len(g) - Len(s) = i
      BY <1>1, <1>2, <2>2
    <3> HIDE DEF k
    <3>2. s[k] = g[i] /\ s[k] + window <= now
      BY <1>1, <1>2, <3>1
    <3> QED BY <3>2
  <2> QED BY <2>1, <2>2
<1>5. LogOf(l, g, window)
  BY <1>1, <1>2, <1>3, <1>4 DEF LogOf
<1> QED BY <1>5 DEF l

(* A grant while the log has fewer than limit entries keeps both the log    *)
(* and the spacing of the history: the limit-th grant before this one is    *)
(* not in the log, so it has expired.                                       *)
LEMMA LogGrows ==
  ASSUME NEW s \in Seq(Nat), NEW g \in Seq(Nat), NEW window \in Nat, now \in Nat,
         NEW limit \in Nat, Len(s) < limit,
         LogOf(s, g, window), Spaced(g, limit, window)
  PROVE  LogOf(Append(s, now), Append(g, now), window) /\ Spaced(Append(g, now), limit, window)
<1> DEFINE t == Append(s, now)
           h == Append(g, now)
<1>1. /\ Len(s) \in Nat /\ Len(g) \in Nat
      /\ Len(t) = Len(s) + 1 /\ Len(h) = Len(g) + 1 /\ DOMAIN h = 1..Len(g) + 1
      /\ \A i \in 1..Len(s) : t[i] = s[i]
      /\ \A i \in 1..Len(g) : h[i] = g[i]
      /\ t[Len(s) + 1] = now /\ h[Len(g) + 1] = now
  OBVIOUS
<1>2. /\ Len(s) <= Len(g)
      /\ \A i \in 1..Len(s) : s[i] = g[i + Len(g) - Len(s)]
      /\ \A i \in 1..Len(g) - Len(s) : g[i] + window <= now
  BY DEF LogOf
<1> HIDE DEF t, h
<1>3. ASSUME NEW i \in 1..Len(t) PROVE t[i] = h[i + Len(h) - Len(t)]
  <2>1. CASE i = Len(s) + 1
    BY <1>1, <2>1
  <2>2. CASE i # Len(s) + 1
    <3>1. i \in 1..Len(s) /\ i + Len(g) - Len(s) \in 1..Len(g)
      BY <1>1, <1>2, <2>2
    <3>2. i + Len(h) - Len(t) = i + Len(g) - Len(s)
      BY <1>1
    <3> QED BY <1>1, <1>2, <3>1, <3>2
  <2> QED BY <2>1, <2>2
<1>4. ASSUME NEW i \in 1..Len(h) - Len(t) PROVE h[i] + window <= now
  <2>1. i \in 1..Len(g) - Len(s) /\ i \in 1..Len(g)
    BY <1>1, <1>2
  <2> QED BY <1>1, <1>2, <2>1
<1>5. LogOf(t, h, window)
  BY <1>1, <1>2, <1>3, <1>4 DEF LogOf
<1>6. ASSUME NEW i \in DOMAIN h, i + limit \in DOMAIN h PROVE h[i + limit] >= h[i] + window
  <2>1. CASE i + limit = Len(g) + 1
    <3>1. i \in 1..Len(g) - Len(s) /\ i \in 1..Len(g)
      BY <1>1, <1>2, <2>1
    <3>2. h[i] = g[i] /\ g[i] + window <= now
      BY <1>1, <1>2, <3>1
    <3>3. g[i] \in Nat
      BY <3>1
    <3> QED BY <1>1, <2>1, <3>2, <3>3
  <2>2. CASE i + limit # Len(g) + 1
    <3>1. i \in 1..Len(g) /\ i + limit \in 1..Len(g)
      BY <1>1, <1>6, <2>2
    <3>2. i \in DOMAIN g /\ i + limit \in DOMAIN g
      BY <3>1
    <3>3. g[i + limit] >= g[i] + window
      BY <3>2 DEF Spaced
    <3> QED BY <1>1, <3>1, <3>3
  <2> QED BY <2>1, <2>2
<1> QED BY <1>5, <1>6 DEF Spaced, t, h

-----------------------------------------------------------------------------
(* Times are natural numbers, and so are those of a log. *)
LEMMA LogOfTimes ==
  ASSUME NEW s \in Seq(Times)
  PROVE  s \in Seq(Nat)
<1>1. Times \subseteq Nat
  BY MaxNowAssumption DEF Times
<1> QED BY <1>1, SeqMonotonic

(* Trimming keeps the type of a log. *)
LEMMA LiveType ==
  ASSUME NEW s \in Seq(Times), NEW window \in Nat, now \in Nat
  PROVE  s \in Seq(Nat) /\ Live(s, window) \in Seq(Times)
<1>2. s \in Seq(Nat)
  BY LogOfTimes
<1>3. FirstLive(s, window) \in 1..Len(s) + 1
  BY <1>2, FirstLiveExists DEF IsFirstLive
<1>4. SubSeq(s, FirstLive(s, window), Len(s)) \in Seq(Times)
  BY <1>3
<1> QED BY <1>2, <1>4 DEF Live

(* The windows are positive, whatever the resolution of the clock. *)
LEMMA Windows == RateWindow \in Nat /\ DayTicks \in Nat
  BY WindowAssumption, TpsAssumption DEF RateWindow, DayTicks

(* Rounding up to whole seconds waits long enough (ratelimit.py:47). *)
LEMMA RoundedUp ==
  ASSUME NEW x \in Nat, NEW t \in Nat \ {0}
  PROVE  (x \div t + 1) * t \in Nat /\ x <= (x \div t + 1) * t
<1>1. x \div t \in Nat
  OBVIOUS
<1>2. x = (x \div t) * t + (x % t) /\ x % t \in 0..t - 1
  OBVIOUS
<1>3. (x \div t + 1) * t = (x \div t) * t + t /\ (x \div t) * t \in Nat
  BY <1>1
<1> QED BY <1>2, <1>3

(* What peek() leaves of a key's log is as good as the log. *)
LEMMA KeyTrimmed ==
  ASSUME TypeOK, NEW k \in Keys, KeyInv(k)
  PROVE  LET l == Live(hits[k], RateWindow)
         IN /\ l \in Seq(Times)
            /\ LogOf(l, granted[k], RateWindow)
            /\ Len(l) <= Limit[k]
            /\ retryAt[k] > 0 =>
                 Limit[k] > 0 /\ (Len(l) < Limit[k] \/ l[1] + RateWindow <= retryAt[k])
<1> DEFINE s == hits[k]
           l == Live(s, RateWindow)
<1>1. s \in Seq(Times) /\ granted[k] \in Seq(Times) /\ now \in Nat /\ Limit[k] \in Nat
  BY MaxNowAssumption, LimitAssumption DEF TypeOK, Times
<1>2. RateWindow \in Nat
  BY Windows
<1>3. s \in Seq(Nat) /\ granted[k] \in Seq(Nat) /\ l \in Seq(Times)
  BY <1>1, <1>2, LiveType, LogOfTimes
<1>4. /\ Len(l) <= Len(s)
      /\ \A i \in 1..Len(l) : l[i] = s[i + Len(s) - Len(l)]
  BY <1>1, <1>2, <1>3, LiveFacts
<1>5. LogOf(l, granted[k], RateWindow)
  BY <1>1, <1>2, <1>3, LogTrimmed DEF KeyInv
<1>6. Len(s) \in Nat /\ Len(l) \in Nat
  BY <1>3
<1>7. Len(s) <= Limit[k]
  BY DEF KeyInv
<1> HIDE DEF l
<1>8. ASSUME retryAt[k] > 0
      PROVE  Limit[k] > 0 /\ (Len(l) < Limit[k] \/ l[1] + RateWindow <= retryAt[k])
  <2>1. Limit[k] > 0 /\ (Len(s) < Limit[k] \/ s[1] + RateWindow <= retryAt[k])
    BY <1>8 DEF KeyInv, Promise
  <2>2. CASE Len(l) < Limit[k]
    BY <2>1, <2>2
  <2>3. CASE ~(Len(l) < Limit[k])
    <3>1. Len(l) = Len(s) /\ 1 \in 1..Len(l) /\ 1 + Len(s) - Len(l) = 1
      BY <1>1, <1>4, <1>6, <1>7, <2>1, <2>3
    <3>2. l[1] = s[1]
      BY <1>4, <3>1
    <3> QED BY <1>1, <1>6, <2>1, <2>3, <3>1, <3>2
  <2> QED BY <2>2, <2>3
<1>9. Len(l) <= Limit[k]
  BY <1>1, <1>4, <1>6, <1>7
<1> QED BY <1>3, <1>5, <1>8, <1>9 DEF l

(* check() keeps a key's invariant, whether it grants, refuses or raises. *)
LEMMA CheckInv ==
  ASSUME TypeOK, NEW k \in Keys, KeyInv(k), now' = now,
         Grant(k) \/ Refuse(k) \/ Raise(k)
  PROVE  KeyInv(k)' /\ hits'[k] \in Seq(Times) /\ granted'[k] \in Seq(Times) /\ retryAt'[k] \in Nat
<1> DEFINE l == Live(hits[k], RateWindow)
           g == granted[k]
<1>1. /\ l \in Seq(Times)
      /\ LogOf(l, g, RateWindow)
      /\ Len(l) <= Limit[k]
      /\ retryAt[k] > 0 =>
           Limit[k] > 0 /\ (Len(l) < Limit[k] \/ l[1] + RateWindow <= retryAt[k])
  BY KeyTrimmed
<1>2. /\ hits[k] \in Seq(Nat) /\ g \in Seq(Times) /\ now \in Times /\ Times \subseteq Nat
      /\ Limit[k] \in Nat /\ retryAt[k] \in Nat /\ Len(l) \in Nat
  BY <1>1, MaxNowAssumption, LimitAssumption DEF TypeOK, Times
<1>3. RateWindow \in Nat
  BY Windows
<1>4. l \in Seq(Nat) /\ g \in Seq(Nat) /\ now \in Nat
  BY <1>1, <1>2, LogOfTimes
<1>5. Spaced(g, Limit[k], RateWindow)
  BY DEF KeyInv
<1>9. RateWindow' = RateWindow
  BY DEF RateWindow
<1>6. CASE Grant(k)
  <2>1. Len(l) < Limit[k]
    BY <1>6 DEF Grant, HasRoom
  <2>2. hits'[k] = Append(l, now) /\ granted'[k] = Append(g, now) /\ retryAt'[k] = 0
    BY <1>6 DEF Grant, TypeOK
  <2> HIDE DEF l, g
  <2>3. /\ LogOf(Append(l, now), Append(g, now), RateWindow)
        /\ Spaced(Append(g, now), Limit[k], RateWindow)
    BY <1>1, <1>2, <1>3, <1>4, <1>5, <2>1, LogGrows
  <2>4. Len(Append(l, now)) <= Limit[k]
    BY <1>1, <1>2, <2>1
  <2>5. Append(l, now) \in Seq(Times) /\ Append(g, now) \in Seq(Times)
    BY <1>1, <1>2
  <2>6. LogOf(hits[k], granted[k], RateWindow)' /\ Spaced(granted[k], Limit[k], RateWindow)'
    BY <2>2, <2>3, <1>9 DEF LogOf, Spaced
  <2>7. Promise(k)'
    BY <2>2 DEF Promise
  <2> QED BY <2>2, <2>4, <2>5, <2>6, <2>7 DEF KeyInv
<1>7. CASE Refuse(k)
  <2>1. /\ ~(Len(l) < Limit[k]) /\ l # <<>>
        /\ hits'[k] = l /\ granted'[k] = g
        /\ retryAt'[k] = now + ((RateWindow - (now - l[1])) \div Tps + 1) * Tps
    BY <1>7 DEF Refuse, HasRoom, RetryAfter, TypeOK
  <2>2. Len(l) > 0 => l[1] + RateWindow > now
    BY <1>2, <1>3, <1>4, LiveFacts
  <2> HIDE DEF l, g
  <2>3. Len(l) > 0 /\ l[1] \in Nat
    BY <1>4, <2>1
  <2> DEFINE x == RateWindow - (now - l[1])
  <2>4. x \in Nat /\ now + x = l[1] + RateWindow
    BY <1>3, <1>4, <2>2, <2>3
  <2>5. retryAt'[k] = now + (x \div Tps + 1) * Tps
    BY <2>1
  <2> HIDE DEF x
  <2>6. (x \div Tps + 1) * Tps \in Nat /\ x <= (x \div Tps + 1) * Tps
    BY <2>4, RoundedUp, TpsAssumption
  <2> DEFINE y == (x \div Tps + 1) * Tps
  <2>7. y \in Nat /\ x <= y /\ retryAt'[k] = now + y
    BY <2>5, <2>6
  <2> HIDE DEF y
  <2>8. retryAt'[k] \in Nat /\ l[1] + RateWindow <= retryAt'[k]
    BY <1>4, <2>4, <2>7
  <2>9. Limit[k] > 0
    BY <1>1, <1>2, <2>3
  <2> QED BY <1>1, <1>2, <1>5, <2>1, <2>8, <2>9, <1>9 DEF KeyInv, LogOf, Spaced, Promise
<1>8. CASE Raise(k)
  <2>1. hits'[k] = l /\ granted'[k] = g /\ retryAt' = retryAt
    BY <1>8 DEF Raise, TypeOK
  <2> HIDE DEF l, g
  <2> QED BY <1>1, <1>2, <1>5, <2>1, <1>9 DEF KeyInv, LogOf, Spaced, Promise
<1> QED BY <1>6, <1>7, <1>8

(* A key that a step leaves alone keeps its invariant. *)
LEMMA KeyKept ==
  ASSUME NEW k \in Keys, KeyInv(k), now' = now,
         hits'[k] = hits[k], granted'[k] = granted[k], retryAt'[k] = retryAt[k]
  PROVE  KeyInv(k)'
<1>1. RateWindow' = RateWindow
  BY DEF RateWindow
<1> QED BY <1>1 DEF KeyInv, LogOf, Spaced, Promise

(* So does a key whose log is trimmed. *)
LEMMA KeySwept ==
  ASSUME TypeOK, NEW k \in Keys, KeyInv(k), now' = now,
         hits'[k] = Live(hits[k], RateWindow), granted'[k] = granted[k], retryAt'[k] = retryAt[k]
  PROVE  KeyInv(k)'
<1>1. RateWindow' = RateWindow
  BY DEF RateWindow
<1> DEFINE l == Live(hits[k], RateWindow)
<1>2. /\ LogOf(l, granted[k], RateWindow)
      /\ Len(l) <= Limit[k]
      /\ retryAt[k] > 0 =>
           Limit[k] > 0 /\ (Len(l) < Limit[k] \/ l[1] + RateWindow <= retryAt[k])
  BY KeyTrimmed
<1>3. hits'[k] = l
  OBVIOUS
<1> HIDE DEF l
<1> QED BY <1>1, <1>2, <1>3 DEF KeyInv, LogOf, Spaced, Promise

(* Time passing only expires more. *)
LEMMA TickInv ==
  ASSUME TypeOK, \A k \in Keys : KeyInv(k), DayInv, Tick
  PROVE  TypeOK' /\ (\A k \in Keys : KeyInv(k)') /\ DayInv'
<1>1. now \in Nat /\ now' = now + 1 /\ UNCHANGED <<hits, day, granted, started, retryAt>>
  BY MaxNowAssumption DEF Tick, TypeOK, Times
<1>2. TypeOK'
  BY MaxNowAssumption DEF Tick, TypeOK, Times
<1>3. RateWindow' = RateWindow /\ DayTicks' = DayTicks
  BY DEF RateWindow, DayTicks
<1>4. ASSUME NEW s \in Seq(Nat), NEW g \in Seq(Nat), NEW window \in Nat, LogOf(s, g, window)
      PROVE  \A i \in 1..Len(g) - Len(s) : g[i] + window <= now + 1
  <2> SUFFICES ASSUME NEW i \in 1..Len(g) - Len(s) PROVE g[i] + window <= now + 1
    OBVIOUS
  <2>1. Len(s) \in Nat /\ Len(g) \in Nat
    OBVIOUS
  <2>2. i \in 1..Len(g) /\ g[i] + window <= now
    BY <1>4, <2>1 DEF LogOf
  <2>3. g[i] \in Nat
    BY <2>2
  <2> QED BY <1>1, <2>2, <2>3
<1>5. ASSUME NEW k \in Keys PROVE KeyInv(k)'
  <2>1. hits[k] \in Seq(Nat) /\ granted[k] \in Seq(Nat) /\ RateWindow \in Nat
    BY LogOfTimes, Windows DEF TypeOK
  <2>2. LogOf(hits[k], granted[k], RateWindow)
    BY DEF KeyInv
  <2>3. \A i \in 1..Len(granted[k]) - Len(hits[k]) : granted[k][i] + RateWindow <= now + 1
    BY <1>4, <2>1, <2>2
  <2>4. LogOf(hits[k], granted[k], RateWindow)'
    BY <1>1, <1>3, <2>2, <2>3 DEF LogOf
  <2> QED BY <1>1, <1>3, <2>4 DEF KeyInv, Spaced, Promise
<1>6. ASSUME DayCap > 0 PROVE (LogOf(day, started, DayTicks) /\ Spaced(started, DayCap, DayTicks))'
  <2>1. day \in Seq(Nat) /\ started \in Seq(Nat) /\ DayTicks \in Nat
    BY LogOfTimes, Windows DEF TypeOK
  <2>2. LogOf(day, started, DayTicks) /\ Spaced(started, DayCap, DayTicks)
    BY <1>6 DEF DayInv
  <2>3. \A i \in 1..Len(started) - Len(day) : started[i] + DayTicks <= now + 1
    BY <1>4, <2>1, <2>2
  <2> QED BY <1>1, <1>3, <2>2, <2>3 DEF LogOf, Spaced
<1> QED BY <1>2, <1>5, <1>6 DEF DayInv

(* check_global_daily() keeps the daily cap, and so does a job refused. *)
LEMMA DayStep ==
  ASSUME TypeOK, DayInv, now' = now,
         \/ UNCHANGED <<day, started>>
         \/ DailyOk /\ ChargeDay
         \/ ~DailyOk /\ day' = Live(day, DayTicks) /\ UNCHANGED started
  PROVE  day' \in Seq(Times) /\ started' \in Seq(Times) /\ DayInv'
<1> DEFINE l == Live(day, DayTicks)
<1>1. DayTicks \in Nat /\ DayTicks' = DayTicks /\ now \in Nat /\ now \in Times
  BY Windows, MaxNowAssumption DEF DayTicks, TypeOK, Times
<1>2. /\ day \in Seq(Times) /\ started \in Seq(Times) /\ l \in Seq(Times)
      /\ day \in Seq(Nat) /\ started \in Seq(Nat) /\ l \in Seq(Nat)
  BY <1>1, LogOfTimes, LiveType DEF TypeOK
<1>3. CASE UNCHANGED <<day, started>>
  BY <1>1, <1>2, <1>3 DEF DayInv, LogOf, Spaced
<1>4. CASE DayCap = 0 /\ DailyOk /\ ChargeDay
  BY <1>2, <1>4 DEF ChargeDay, DayInv
<1>5. DayCap # 0 => DayCap > 0
  BY DayCapAssumption
<1>6. DayCap # 0 => LogOf(l, started, DayTicks) /\ Spaced(started, DayCap, DayTicks)
  BY <1>1, <1>2, <1>5, LogTrimmed DEF DayInv
<1>7. CASE DayCap # 0 /\ DailyOk /\ ChargeDay
  <2>1. Len(l) < DayCap /\ day' = Append(l, now) /\ started' = Append(started, now)
    BY <1>7 DEF DailyOk, HasRoom, ChargeDay
  <2> HIDE DEF l
  <2>2. /\ LogOf(Append(l, now), Append(started, now), DayTicks)
        /\ Spaced(Append(started, now), DayCap, DayTicks)
    BY <1>1, <1>2, <1>6, <1>7, <2>1, LogGrows, DayCapAssumption
  <2>3. Append(l, now) \in Seq(Times) /\ Append(started, now) \in Seq(Times)
    BY <1>1, <1>2
  <2> QED BY <1>1, <2>1, <2>2, <2>3 DEF DayInv, LogOf, Spaced
<1>8. CASE ~DailyOk /\ day' = Live(day, DayTicks) /\ UNCHANGED started
  <2>1. DayCap # 0 /\ day' = l /\ started' = started
    BY <1>8 DEF DailyOk
  <2> HIDE DEF l
  <2> QED BY <1>1, <1>2, <1>6, <2>1 DEF DayInv, LogOf, Spaced
<1> QED BY <1>3, <1>4, <1>7, <1>8

(* The log invariant holds at the start. *)
LEMMA InitInv == Init => IInv
<1> SUFFICES ASSUME Init PROVE IInv
  OBVIOUS
<1>1. TypeOK
  BY MaxNowAssumption DEF Init, TypeOK, Times
<1>2. ASSUME NEW k \in Keys PROVE KeyInv(k)
  <2>1. hits[k] = <<>> /\ granted[k] = <<>> /\ retryAt[k] = 0 /\ Limit[k] \in Nat
    BY LimitAssumption DEF Init
  <2> QED BY <2>1 DEF KeyInv, LogOf, Spaced, Promise
<1>3. DayInv
  BY DEF Init, DayInv, LogOf, Spaced
<1> QED BY <1>1, <1>2, <1>3 DEF IInv

(* Every step of a client, of time and of the janitor keeps it. *)
LEMMA StepInv == IInv /\ [Next]_vars => IInv'
<1> SUFFICES ASSUME TypeOK, \A k \in Keys : KeyInv(k), DayInv, [Next]_vars
             PROVE  TypeOK' /\ (\A k \in Keys : KeyInv(k)') /\ DayInv'
  BY DEF IInv
<1>1. CASE Tick
  BY <1>1, TickInv
<1>2. CASE Sweep
  <2>1. /\ now' = now /\ UNCHANGED <<day, granted, started, retryAt>>
        /\ \A k \in Keys : hits'[k] = Live(hits[k], RateWindow)
        /\ hits' = [k \in Keys |-> Live(hits[k], RateWindow)]
    BY <1>2 DEF Sweep
  <2>2. \A k \in Keys : KeyInv(k)'
    BY <2>1, KeySwept
  <2>3. \A k \in Keys : Live(hits[k], RateWindow) \in Seq(Times)
    BY KeyTrimmed
  <2>4. TypeOK'
    BY <2>1, <2>3 DEF TypeOK
  <2>5. DayInv'
    BY <2>1, DayStep
  <2> QED BY <2>2, <2>4, <2>5
<1>3. ASSUME NEW k \in Keys, Peek(k)
      PROVE  TypeOK' /\ (\A j \in Keys : KeyInv(j)') /\ DayInv'
  <2>1. /\ now' = now /\ UNCHANGED <<day, granted, started, retryAt>>
        /\ hits' = [hits EXCEPT ![k] = Live(@, RateWindow)]
        /\ hits'[k] = Live(hits[k], RateWindow)
        /\ \A j \in Keys \ {k} : hits'[j] = hits[j]
    BY <1>3 DEF Peek, TypeOK
  <2>2. KeyInv(k)'
    BY <2>1, KeySwept
  <2>3. \A j \in Keys \ {k} : KeyInv(j)'
    BY <2>1, KeyKept
  <2>4. Live(hits[k], RateWindow) \in Seq(Times)
    BY KeyTrimmed
  <2>5. TypeOK'
    BY <2>1, <2>4 DEF TypeOK
  <2>6. DayInv'
    BY <2>1, DayStep
  <2> QED BY <2>2, <2>3, <2>5, <2>6
<1>4. ASSUME NEW k \in Keys, now' = now, Grant(k) \/ Refuse(k) \/ Raise(k)
      PROVE  /\ \A j \in Keys : KeyInv(j)'
             /\ hits' \in [Keys -> Seq(Times)] /\ granted' \in [Keys -> Seq(Times)]
             /\ retryAt' \in [Keys -> Nat]
  <2>1. /\ KeyInv(k)'
        /\ hits'[k] \in Seq(Times) /\ granted'[k] \in Seq(Times) /\ retryAt'[k] \in Nat
    BY <1>4, CheckInv
  <2>2. /\ hits' = [hits EXCEPT ![k] = hits'[k]]
        /\ granted' = [granted EXCEPT ![k] = granted'[k]]
        /\ retryAt' = [retryAt EXCEPT ![k] = retryAt'[k]]
    BY <1>4 DEF Grant, Refuse, Raise, TypeOK
  <2>3. /\ hits' \in [Keys -> Seq(Times)] /\ granted' \in [Keys -> Seq(Times)]
        /\ retryAt' \in [Keys -> Nat]
    BY <2>1, <2>2 DEF TypeOK
  <2>4. \A j \in Keys \ {k} :
          hits'[j] = hits[j] /\ granted'[j] = granted[j] /\ retryAt'[j] = retryAt[j]
    BY <2>2 DEF TypeOK
  <2>5. \A j \in Keys \ {k} : KeyInv(j)'
    BY <1>4, <2>4, KeyKept
  <2> QED BY <2>1, <2>3, <2>5
<1>5. ASSUME NEW k \in Keys, Check(k)
      PROVE  TypeOK' /\ (\A j \in Keys : KeyInv(j)') /\ DayInv'
  <2>1. now' = now /\ UNCHANGED <<day, started>> /\ (Grant(k) \/ Refuse(k) \/ Raise(k))
    BY <1>5 DEF Check
  <2>2. DayInv'
    BY <2>1, DayStep
  <2> QED BY <1>4, <2>1, <2>2 DEF TypeOK
<1>6. ASSUME NEW k \in Keys, ChargeJob(k)
      PROVE  TypeOK' /\ (\A j \in Keys : KeyInv(j)') /\ DayInv'
  <2>1. /\ now' = now /\ (Grant(k) \/ Refuse(k) \/ Raise(k))
        /\ \/ UNCHANGED <<day, started>>
           \/ DailyOk /\ ChargeDay
           \/ ~DailyOk /\ day' = Live(day, DayTicks) /\ UNCHANGED started
    BY <1>6 DEF ChargeJob
  <2>2. day' \in Seq(Times) /\ started' \in Seq(Times) /\ DayInv'
    BY <2>1, DayStep
  <2> QED BY <1>4, <2>1, <2>2 DEF TypeOK
<1>7. CASE UNCHANGED vars
  <2>1. UNCHANGED <<now, hits, day, granted, started, retryAt>>
    BY <1>7 DEF vars
  <2> QED BY <2>1, KeyKept, DayStep DEF TypeOK
<1> QED BY <1>1, <1>2, <1>3, <1>5, <1>6, <1>7 DEF Next

(* The invariant of every reachable state. *)
THEOREM Invariance == Spec => []IInv
  BY InitInv, StepInv, PTL DEF Spec

(* The limiter's state stays well typed, times never negative. *)
THEOREM TypeCorrect == Spec => []TypeOK
<1>1. IInv => TypeOK
  BY DEF IInv
<1> QED BY <1>1, Invariance, PTL

(* No client ever gets more than its limit in any window (check, peek and  *)
(* sweep, ratelimit.py:33-57 and 73-85).                                   *)
THEOREM SlidingWindowAlways == Spec => []SlidingWindow
<1>1. IInv => SlidingWindow
  BY DEF IInv, KeyInv, Spaced, SlidingWindow
<1> QED BY <1>1, Invariance, PTL

(* The service never starts more than its cap of jobs in any day           *)
(* (check_global_daily, ratelimit.py:59-71).                               *)
THEOREM DailyCapAlways == Spec => []DailyCap
<1>1. IInv => DailyCap
  BY DEF IInv, DayInv, Spaced, DailyCap
<1> QED BY <1>1, Invariance, PTL

(* Retry-After is honest for every window and resolution of the clock      *)
(* (ratelimit.py:46-48).                                                   *)
THEOREM RetryAlwaysHonoured == Spec => []RetryHonoured
<1>1. IInv => RetryHonoured
  <2> SUFFICES ASSUME IInv, NEW k \in Keys, retryAt[k] > 0, now >= retryAt[k]
               PROVE  Len(Live(hits[k], RateWindow)) < Limit[k]
    BY DEF RetryHonoured, HasRoom
  <2>1. TypeOK /\ KeyInv(k)
    BY DEF IInv
  <2> DEFINE l == Live(hits[k], RateWindow)
  <2>2. /\ l \in Seq(Times) /\ Len(l) <= Limit[k]
        /\ Limit[k] > 0 /\ (Len(l) < Limit[k] \/ l[1] + RateWindow <= retryAt[k])
    BY <2>1, KeyTrimmed
  <2>3. hits[k] \in Seq(Nat) /\ now \in Nat /\ RateWindow \in Nat
    BY <2>1, LogOfTimes, Windows, MaxNowAssumption DEF TypeOK, Times
  <2>4. Len(l) > 0 => l[1] + RateWindow > now
    BY <2>3, LiveFacts
  <2>5. Len(l) \in Nat /\ Limit[k] \in Nat /\ retryAt[k] \in Nat /\ l \in Seq(Nat)
    BY <2>1, <2>2, LogOfTimes, LimitAssumption DEF TypeOK
  <2> HIDE DEF l
  <2>6. Len(l) > 0 => l[1] \in Nat
    BY <2>5
  <2> QED BY <2>2, <2>3, <2>4, <2>5, <2>6 DEF l
<1> QED BY <1>1, Invariance, PTL

(* A suffix, element by element. *)
LEMMA Suffix ==
  ASSUME NEW s \in Seq(Nat), NEW f \in 1..Len(s) + 1
  PROVE  /\ SubSeq(s, f, Len(s)) \in Seq(Nat)
         /\ Len(SubSeq(s, f, Len(s))) = Len(s) - f + 1
         /\ \A i \in 1..Len(s) - f + 1 : SubSeq(s, f, Len(s))[i] = s[i + f - 1]
<1>1. Len(s) \in Nat
  OBVIOUS
<1> QED BY <1>1

(* Trimming a log or the whole history gives the same. *)
LEMMA LogIsEnough ==
  ASSUME NEW s \in Seq(Nat), NEW g \in Seq(Nat), NEW window \in Nat, now \in Nat,
         LogOf(s, g, window)
  PROVE  Live(s, window) = Live(g, window)
<1> DEFINE f == FirstLive(s, window)
           d == Len(g) - Len(s)
<1>1. IsFirstLive(s, window, f)
  BY FirstLiveExists
<1>2. /\ Len(s) \in Nat /\ Len(g) \in Nat /\ d \in Nat /\ Len(g) = Len(s) + d
      /\ \A i \in 1..Len(s) : s[i] = g[i + d]
      /\ \A i \in 1..d : g[i] + window <= now
  BY DEF LogOf
<1> HIDE DEF f, d
<1>3. f \in 1..Len(s) + 1
  BY <1>1 DEF IsFirstLive
<1>4. f + d \in 1..Len(g) + 1
  BY <1>2, <1>3
<1>5. ASSUME NEW k \in 1..f + d - 1 PROVE g[k] + window <= now
  <2>1. CASE k <= d
    BY <1>2, <2>1
  <2>2. CASE ~(k <= d)
    <3>1. k - d \in 1..f - 1 /\ k - d \in 1..Len(s) /\ (k - d) + d = k
      BY <1>2, <1>3, <2>2
    <3>2. s[k - d] = g[k] /\ s[k - d] + window <= now
      BY <1>1, <1>2, <3>1 DEF IsFirstLive
    <3> QED BY <3>2
  <2> QED BY <2>1, <2>2
<1>6. ASSUME f + d <= Len(g) PROVE g[f + d] + window > now
  <2>1. f <= Len(s) /\ f \in 1..Len(s)
    BY <1>2, <1>3, <1>6
  <2> QED BY <1>1, <1>2, <2>1 DEF IsFirstLive
<1>7. FirstLive(g, window) = f + d
  <2> DEFINE e == f + d
  <2>1. e \in 1..Len(g) + 1 /\ (e <= Len(g) => g[e] + window > now)
    BY <1>4, <1>6
  <2>2. \A k \in 1..e - 1 : g[k] + window <= now
    <3> SUFFICES ASSUME NEW k \in 1..e - 1 PROVE g[k] + window <= now
      OBVIOUS
    <3>1. k \in 1..f + d - 1
      BY <1>2, <1>3
    <3> QED BY <1>5, <3>1
  <2> HIDE DEF e
  <2>3. IsFirstLive(g, window, e)
    BY <2>1, <2>2 DEF IsFirstLive
  <2>4. FirstLive(g, window) = e
    BY <2>3, FirstLiveUnique
  <2> QED BY <2>4 DEF e
<1>8. /\ SubSeq(s, f, Len(s)) \in Seq(Nat) /\ Len(SubSeq(s, f, Len(s))) = Len(s) - f + 1
      /\ \A i \in 1..Len(s) - f + 1 : SubSeq(s, f, Len(s))[i] = s[i + f - 1]
  BY <1>3, Suffix
<1>9. /\ SubSeq(g, f + d, Len(g)) \in Seq(Nat) /\ Len(SubSeq(g, f + d, Len(g))) = Len(s) - f + 1
      /\ \A i \in 1..Len(s) - f + 1 : SubSeq(g, f + d, Len(g))[i] = g[i + (f + d) - 1]
  <2> DEFINE e == f + d
  <2>1. e \in 1..Len(g) + 1
    BY <1>4
  <2>2. Len(g) - e + 1 = Len(s) - f + 1
    BY <1>2, <1>3
  <2> HIDE DEF e
  <2>3. /\ SubSeq(g, e, Len(g)) \in Seq(Nat) /\ Len(SubSeq(g, e, Len(g))) = Len(g) - e + 1
        /\ \A i \in 1..Len(g) - e + 1 : SubSeq(g, e, Len(g))[i] = g[i + e - 1]
    BY <2>1, Suffix
  <2>4. /\ SubSeq(g, e, Len(g)) \in Seq(Nat) /\ Len(SubSeq(g, e, Len(g))) = Len(s) - f + 1
        /\ \A i \in 1..Len(s) - f + 1 : SubSeq(g, e, Len(g))[i] = g[i + e - 1]
    BY <2>2, <2>3
  <2> QED BY <2>4 DEF e
<1>10. ASSUME NEW i \in 1..Len(s) - f + 1 PROVE s[i + f - 1] = g[i + (f + d) - 1]
  <2>1. i + f - 1 \in 1..Len(s) /\ (i + f - 1) + d = i + (f + d) - 1
    BY <1>2, <1>3
  <2> QED BY <1>2, <2>1
<1>11. SubSeq(s, f, Len(s)) = SubSeq(g, f + d, Len(g))
  BY <1>8, <1>9, <1>10, SeqEqual
<1> QED BY <1>7, <1>11 DEF Live, f

(* Whatever was trimmed and when, the log counts exactly the grants of the *)
(* current window: the remaining number a client reads is right            *)
(* (peek, ratelimit.py:43-44).                                             *)
THEOREM HitsAlwaysTheWindow == Spec => []HitsAreTheWindow
<1>1. IInv => HitsAreTheWindow
  <2> SUFFICES ASSUME IInv, NEW k \in Keys
               PROVE  Live(hits[k], RateWindow) = Live(granted[k], RateWindow)
    BY DEF HitsAreTheWindow
  <2>1. /\ hits[k] \in Seq(Nat) /\ granted[k] \in Seq(Nat)
        /\ now \in Nat /\ RateWindow \in Nat
    BY LogOfTimes, Windows, MaxNowAssumption DEF IInv, TypeOK, Times
  <2>2. LogOf(hits[k], granted[k], RateWindow)
    BY DEF IInv, KeyInv
  <2> QED BY <2>1, <2>2, LogIsEnough
<1> QED BY <1>1, Invariance, PTL
=============================================================================
