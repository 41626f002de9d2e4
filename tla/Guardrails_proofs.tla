------------------------- MODULE Guardrails_proofs -------------------------
(***************************************************************************)
(* The signer's rate limiter lets through what it should and no more, for  *)
(* every number of keys, size of the table, limit and sequence of calls.   *)
(* With enforcement a subject is known only for what was vouched for and    *)
(* passes no more often than the limit, and the tables of tracker and      *)
(* limiter stay within theirs, for every set of brokers, hosts, commands   *)
(* and requests.                                                           *)
(***************************************************************************)
EXTENDS Guardrails, FiniteSetTheorems, TLAPS

\* More ticks, more credit.
LEMMA Monotone ==
    ASSUME NEW a \in Nat, NEW b \in Nat, NEW c \in Nat, a <= b
    PROVE  c * a <= c * b
<1>1. PICK d \in Nat : b = a + d
  <2>1. b - a \in Nat /\ b = a + (b - a)
    OBVIOUS
  <2> QED
    BY <2>1
<1>2. c * b = c * a + c * d
  BY <1>1
<1>3. c * d \in Nat /\ c * a \in Nat
  OBVIOUS
<1> QED
  BY <1>2, <1>3

-----------------------------------------------------------------------------
(* The invariant.                                                          *)

\* No bucket comes from the future or holds more than a minute's budget.
BucketsInv ==
    \A k \in DOMAIN buckets : /\ buckets[k].last <= now
                              /\ buckets[k].tokens <= MaxLimit * Minute

\* What was let through and what is still in the bucket were paid for.  A key without a
\* bucket could be given a full one.
Covered(b) ==
    IF window.since <= b.last
    THEN window.count * Minute + b.tokens <= MaxLimit * (Minute + (b.last - window.since))
    ELSE window.count = 0
WindowInv ==
    window # NoWindow =>
        /\ window.since <= now
        /\ window.key \in DOMAIN buckets => Covered(buckets[window.key])
        /\ window.key \notin DOMAIN buckets =>
              window.count * Minute <= MaxLimit * (now - window.since)

LInv == LimiterTypeOK /\ BucketsInv /\ WindowInv

\* A limit is a number up to MaxLimit.
LEMMA LimitType ==
    ASSUME NEW perMin \in Limits
    PROVE  perMin \in Nat /\ perMin <= MaxLimit
BY RateLimiterAssumption

\* Allow's arithmetic: a refill is no more than the time since the last call is worth,
\* and no more than a full bucket.
LEMMA RefilledBound ==
    ASSUME NEW perMin \in Limits, NEW b \in Buckets, now \in Nat, b.last <= now
    PROVE  /\ Refilled(b, perMin) \in Nat
           /\ Refilled(b, perMin) <= MaxLimit * Minute
           /\ Refilled(b, perMin) <= b.tokens + MaxLimit * (now - b.last)
<1>1. /\ perMin \in Nat /\ MaxLimit \in Nat /\ Minute \in Nat /\ perMin <= MaxLimit
      /\ b.tokens \in Nat /\ b.last \in Nat
  BY LimitType, RateLimiterAssumption DEF Buckets
<1>2. now - b.last \in Nat
  BY <1>1
<1>3. Minute * perMin <= Minute * MaxLimit /\ (now - b.last) * perMin <= (now - b.last) * MaxLimit
  BY <1>1, <1>2, Monotone
<1>4. perMin * Minute \in Nat /\ (now - b.last) * perMin \in Nat /\ MaxLimit * (now - b.last) \in Nat
  BY <1>1, <1>2
<1>5. perMin * Minute <= MaxLimit * Minute /\ (now - b.last) * perMin <= MaxLimit * (now - b.last)
  BY <1>1, <1>2, <1>3
<1> DEFINE full == perMin * Minute
           earned == (now - b.last) * perMin
           cap == MaxLimit * Minute
           span == MaxLimit * (now - b.last)
<1>6. /\ full \in Nat /\ earned \in Nat /\ cap \in Nat /\ span \in Nat
      /\ full <= cap /\ earned <= span
  BY <1>1, <1>4, <1>5
<1>7. Refilled(b, perMin) = IF b.tokens + earned > full THEN full ELSE b.tokens + earned
  BY DEF Refilled
<1> HIDE DEF full, earned, cap, span
<1>8. /\ Refilled(b, perMin) \in Nat
      /\ Refilled(b, perMin) <= cap
      /\ Refilled(b, perMin) <= b.tokens + span
  BY <1>1, <1>6, <1>7
<1> QED
  BY <1>8 DEF cap, span

\* The bucket a call works on.
LEMMA BucketOfType ==
    ASSUME LimiterTypeOK, BucketsInv, NEW key \in Keys, NEW perMin \in Limits
    PROVE  BucketOf(key, perMin) \in Buckets /\ BucketOf(key, perMin).last <= now
<1>1. perMin * Minute \in Nat /\ now \in Nat
  BY LimitType, RateLimiterAssumption DEF LimiterTypeOK
<1> QED
  BY <1>1 DEF BucketOf, LimiterTypeOK, BucketsInv, Buckets

-----------------------------------------------------------------------------
(* The steps.                                                              *)

\* A tick of the clock only makes room.
LEMMA TickStep == LInv /\ Tick => LInv'
<1> SUFFICES ASSUME LInv, Tick PROVE LInv'
  OBVIOUS
<1>1. now \in Nat /\ now' = now + 1 /\ UNCHANGED <<buckets, window>> /\ now' \in 0..MaxTime
  BY RateLimiterAssumption DEF LInv, LimiterTypeOK, Tick
<1>2. LimiterTypeOK'
  BY <1>1 DEF LInv, LimiterTypeOK
<1>3. BucketsInv'
  BY <1>1 DEF LInv, LimiterTypeOK, BucketsInv, Buckets
<1>4. WindowInv'
  <2> SUFFICES ASSUME window # NoWindow PROVE WindowInv'
    BY <1>1 DEF WindowInv
  <2>1. window.since \in Nat /\ window.count \in Nat /\ window.since <= now /\ MaxLimit \in Nat
    BY RateLimiterAssumption DEF LInv, LimiterTypeOK, WindowInv
  <2>2. MaxLimit * (now - window.since) <= MaxLimit * (now' - window.since)
    BY <1>1, <2>1, Monotone
  <2>3. window.key \in DOMAIN buckets => Covered(buckets[window.key])'
    BY <1>1 DEF LInv, WindowInv, Covered
  <2>4. MaxLimit * (now - window.since) \in Nat /\ MaxLimit * (now' - window.since) \in Nat
        /\ window.count * Minute \in Nat
    BY <1>1, <2>1, RateLimiterAssumption
  <2>5. window.key \notin DOMAIN buckets =>
           window.count * Minute <= MaxLimit * (now' - window.since)
    BY <2>2, <2>4 DEF LInv, WindowInv
  <2> QED
    BY <1>1, <2>1, <2>3, <2>5 DEF WindowInv
<1> QED
  BY <1>2, <1>3, <1>4 DEF LInv

\* Whoever begins to count begins at nothing.
LEMMA ObserveStep == ASSUME LInv, NEW key \in Keys, Observe(key) PROVE LInv'
<1>1. /\ UNCHANGED <<now, buckets>> /\ now \in Nat
      /\ window' = [key |-> key, since |-> now, count |-> 0]
  BY RateLimiterAssumption DEF Observe, LInv, LimiterTypeOK
<1>2. LimiterTypeOK' /\ BucketsInv'
  BY <1>1 DEF LInv, LimiterTypeOK, BucketsInv
<1>3. window'.since = now /\ window'.count = 0 /\ window'.key = key
  BY <1>1
<1>4. MaxLimit * (now - now) = 0 /\ 0 * Minute = 0 /\ MaxLimit \in Nat /\ Minute \in Nat
  BY <1>1, RateLimiterAssumption
<1>5. ASSUME key \in DOMAIN buckets PROVE Covered(buckets[key])'
  <2>1. buckets[key].last \in Nat /\ buckets[key].tokens \in Nat
        /\ buckets[key].last <= now /\ buckets[key].tokens <= MaxLimit * Minute
    BY <1>5 DEF LInv, LimiterTypeOK, BucketsInv, Buckets
  <2>2. CASE buckets[key].last < now
    BY <1>1, <1>3, <2>1, <2>2 DEF Covered
  <2>3. CASE buckets[key].last = now
    <3>1. Minute + (now - now) = Minute
      BY <1>1, <1>4
    <3>2. 0 * Minute + buckets[key].tokens = buckets[key].tokens
      BY <1>4, <2>1
    <3>3. /\ window'.count * Minute + buckets'[window'.key].tokens = buckets[key].tokens
          /\ Minute + (buckets'[window'.key].last - window'.since) = Minute
      BY <1>1, <1>3, <2>3, <3>1, <3>2
    <3>4. window'.count * Minute + buckets'[window'.key].tokens
             <= MaxLimit * (Minute + (buckets'[window'.key].last - window'.since))
      BY <2>1, <3>3
    <3> QED
      BY <1>1, <1>3, <3>4 DEF Covered
  <2> QED
    BY <1>1, <2>1, <2>2, <2>3
<1>6. WindowInv'
  <2>1. window'.key \in DOMAIN buckets' => Covered(buckets[window.key])'
    BY <1>1, <1>3, <1>5
  <2>2. window'.count * Minute <= MaxLimit * (now' - window'.since)
    BY <1>1, <1>3, <1>4
  <2> QED
    BY <1>1, <1>3, <2>1, <2>2 DEF WindowInv
<1> QED
  BY <1>2, <1>6 DEF LInv

\* The types of what a window counts.
LEMMA WindowType ==
    ASSUME LInv, window # NoWindow
    PROVE  /\ window.key \in Keys /\ window.since \in Nat /\ window.count \in Nat
           /\ window.since <= now /\ now \in Nat
           /\ MaxLimit \in Nat /\ Minute \in Nat
           /\ window.count * Minute \in Nat
           /\ MaxLimit * (now - window.since) \in Nat
<1>1. /\ window.key \in Keys /\ window.since \in Nat /\ window.count \in Nat
      /\ window.since <= now /\ now \in Nat /\ MaxLimit \in Nat /\ Minute \in Nat
  BY RateLimiterAssumption DEF LInv, LimiterTypeOK, WindowInv
<1>2. now - window.since \in Nat
  BY <1>1
<1> QED
  BY <1>1, <1>2

\* The next request of the observed key finds no more in its bucket than has been earned.
LEMMA PaidSoFar ==
    ASSUME LInv, window # NoWindow, NEW perMin \in Limits
    PROVE  window.count * Minute + Refilled(BucketOf(window.key, perMin), perMin)
              <= MaxLimit * (Minute + (now - window.since))
<1> DEFINE b == BucketOf(window.key, perMin)
           t == Refilled(b, perMin)
           paid == window.count * Minute
           cap == MaxLimit * Minute
           span == MaxLimit * (now - window.since)
<1>1. b \in Buckets /\ b.last <= now
  BY WindowType, BucketOfType DEF LInv
<1>2. t \in Nat /\ t <= cap /\ t <= b.tokens + MaxLimit * (now - b.last)
  BY <1>1, WindowType, RefilledBound
<1>3. paid \in Nat /\ cap \in Nat /\ span \in Nat /\ b.tokens \in Nat /\ b.last \in Nat
  BY <1>1, WindowType DEF Buckets
<1>4. MaxLimit * (Minute + (now - window.since)) = cap + span
  BY WindowType
<1>5. CASE window.key \notin DOMAIN buckets
  <2>1. paid <= span
    BY <1>5 DEF LInv, WindowInv
  <2> HIDE DEF t, paid, cap, span
  <2>2. paid + t <= cap + span
    BY <1>2, <1>3, <2>1
  <2> QED
    BY <1>4, <2>2 DEF t, paid, cap, span, b
<1>6. CASE window.key \in DOMAIN buckets /\ b.last < window.since
  <2>1. Covered(b) /\ ~(window.since <= b.last)
    BY <1>3, <1>6, WindowType DEF LInv, WindowInv, BucketOf
  <2>2. window.count = 0
    BY <2>1 DEF Covered
  <2>3. paid = 0
    BY <2>2, WindowType
  <2> HIDE DEF t, paid, cap, span
  <2>4. paid + t <= cap + span
    BY <1>2, <1>3, <2>3
  <2> QED
    BY <1>4, <2>4 DEF t, paid, cap, span, b
<1>7. CASE window.key \in DOMAIN buckets /\ window.since <= b.last
  <2> DEFINE before == MaxLimit * (Minute + (b.last - window.since))
             after == MaxLimit * (now - b.last)
  <2>1. Covered(b)
    BY <1>7 DEF LInv, WindowInv, BucketOf
  <2>2. paid + b.tokens <= before
    BY <1>7, <2>1 DEF Covered
  <2>3. before + after = MaxLimit * (Minute + (now - window.since))
    BY <1>3, WindowType
  <2>4. before \in Int /\ after \in Int
    BY <1>3, WindowType
  <2>5. t <= b.tokens + after
    BY <1>2
  <2> HIDE DEF t, paid, before, after
  <2>6. paid + t <= before + after
    BY <1>2, <1>3, <2>2, <2>4, <2>5
  <2> QED
    BY <2>3, <2>6 DEF t, paid, b
<1> QED
  BY <1>3, <1>5, <1>6, <1>7, WindowType

\* prune drops only what could be given back in full.
LEMMA PrunedIsPaid ==
    ASSUME LInv, window # NoWindow, window.key \in DOMAIN buckets,
           ~(now - buckets[window.key].last <= Minute)
    PROVE  window.count * Minute <= MaxLimit * (now - window.since)
<1> DEFINE b == buckets[window.key]
           paid == window.count * Minute
           span == MaxLimit * (now - window.since)
<1>1. b.last \in Nat /\ b.tokens \in Nat /\ b.last <= now /\ Covered(b)
  BY DEF LInv, LimiterTypeOK, BucketsInv, WindowInv, Buckets
<1>2. paid \in Nat /\ span \in Nat
  BY WindowType
<1>3. CASE b.last < window.since
  <2>1. window.count = 0
    BY <1>1, <1>3, WindowType DEF Covered
  <2>2. paid = 0
    BY <2>1, WindowType
  <2> QED
    BY <1>2, <2>2
<1>4. CASE window.since <= b.last
  <2> DEFINE before == MaxLimit * (Minute + (b.last - window.since))
  <2>1. paid + b.tokens <= before
    BY <1>1, <1>4 DEF Covered
  <2>2. Minute + (b.last - window.since) \in Nat /\ now - window.since \in Nat
        /\ Minute + (b.last - window.since) <= now - window.since
    BY <1>1, <1>4, WindowType
  <2>3. before <= span
    BY <2>2, WindowType, Monotone
  <2>4. before \in Nat
    BY <2>2, WindowType
  <2> HIDE DEF paid, before, span, b
  <2>5. paid <= span
    BY <1>1, <1>2, <2>1, <2>3, <2>4
  <2> QED
    BY <2>5 DEF paid, span
<1> QED
  BY <1>1, <1>3, <1>4, WindowType

\* What a call leaves of the table: the key's new bucket, and old ones as they were.
LEMMA AllowFacts ==
    ASSUME LInv, NEW key \in Keys, NEW perMin \in Limits, NEW ok \in BOOLEAN,
           perMin > 0, NEW evicted \in Evictable(key)
    PROVE  /\ StillThere(key, evicted) \subseteq DOMAIN buckets
           /\ key \notin evicted
           /\ \A k \in DOMAIN buckets \ (StillThere(key, evicted) \cup evicted) :
                 ~(now - buckets[k].last <= Minute)
           /\ \A k \in evicted : k \in DOMAIN buckets
<1>1. prune \subseteq DOMAIN buckets
  BY DEF prune
<1>2. \A k \in evicted : k \in prune /\ key \notin DOMAIN buckets
  BY DEF Evictable, Oldest
<1>3. key \notin evicted /\ \A k \in evicted : k \in DOMAIN buckets
  BY <1>1, <1>2
<1>4. StillThere(key, evicted) \subseteq DOMAIN buckets
  BY <1>1 DEF StillThere
<1>5. ASSUME NEW k \in DOMAIN buckets, k \notin StillThere(key, evicted), k \notin evicted
      PROVE  ~(now - buckets[k].last <= Minute)
  <2>1. k \notin prune
    BY <1>5 DEF StillThere
  <2> QED
    BY <1>5, <2>1 DEF prune
<1> QED
  BY <1>3, <1>4, <1>5

\* A call of Allow keeps the invariant.
LEMMA AllowStep ==
    ASSUME LInv, NEW key \in Keys, NEW perMin \in Limits, NEW ok \in BOOLEAN,
           Allow(key, perMin, ok), now' = now
    PROVE  LInv'
<1>1. CASE UNCHANGED <<buckets, window>>
  BY <1>1 DEF LInv, LimiterTypeOK, BucketsInv, WindowInv, Covered
<1>2. CASE perMin > 0
  <2> DEFINE t == Refilled(BucketOf(key, perMin), perMin)
  <2>1. PICK evicted \in Evictable(key) :
          /\ ok = (t >= Minute)
          /\ buckets' = [k \in StillThere(key, evicted) \cup {key} |->
                           IF k = key THEN [tokens |-> IF ok THEN t - Minute ELSE t, last |-> now]
                           ELSE buckets[k]]
          /\ window' = CASE window = NoWindow -> NoWindow
                         [] window # NoWindow /\ window.key \in evicted -> NoWindow
                         [] window # NoWindow /\ window.key = key /\ ok ->
                               [window EXCEPT !.count = window.count + 1]
                         [] OTHER -> window
    BY <1>2 DEF Allow
  <2> DEFINE rest == StillThere(key, evicted)
             left == IF ok THEN t - Minute ELSE t
  <2>2. /\ now \in Nat /\ Minute \in Nat /\ t \in Nat /\ t <= MaxLimit * Minute
        /\ MaxLimit * Minute \in Nat /\ ok = (t >= Minute)
    BY <2>1, BucketOfType, RefilledBound, RateLimiterAssumption DEF LInv, LimiterTypeOK
  <2>3. left \in Nat /\ left <= MaxLimit * Minute
    <3> DEFINE cap == MaxLimit * Minute
    <3>1. t \in Nat /\ t <= cap /\ cap \in Nat
      BY <2>2
    <3> HIDE DEF t, cap
    <3>2. left \in Nat /\ left <= cap
      <4>1. CASE ok
        <5>1. t >= Minute
          BY <2>2, <4>1
        <5> QED
          BY <2>2, <3>1, <4>1, <5>1
      <4>2. CASE ~ok
        BY <3>1, <4>2
      <4> QED
        BY <4>1, <4>2
    <3> QED
      BY <3>2 DEF cap
  <2>4. /\ rest \subseteq DOMAIN buckets
        /\ key \notin evicted
        /\ \A k \in DOMAIN buckets \ (rest \cup evicted) : ~(now - buckets[k].last <= Minute)
    BY <1>2, AllowFacts
  <2>5. /\ DOMAIN buckets' = rest \cup {key}
        /\ buckets'[key] = [tokens |-> left, last |-> now]
        /\ \A k \in rest : k # key => buckets'[k] = buckets[k]
    BY <2>1
  <2> HIDE DEF t, rest, left
  <2>6. /\ DOMAIN buckets' \subseteq Keys
        /\ buckets' \in [DOMAIN buckets' -> Buckets]
    <3>1. \A k \in DOMAIN buckets' : buckets'[k] \in Buckets
      BY <2>2, <2>3, <2>4, <2>5 DEF LInv, LimiterTypeOK, Buckets
    <3>2. buckets' = [k \in DOMAIN buckets' |-> buckets'[k]]
      BY <2>1, <2>5 DEF rest
    <3> QED
      BY <2>4, <2>5, <3>1, <3>2 DEF LInv, LimiterTypeOK
  <2>7. window' \in [key: Keys, since: Nat, count: Nat] \cup {NoWindow}
    BY <2>1 DEF LInv, LimiterTypeOK
  <2>8. LimiterTypeOK'
    BY <2>6, <2>7 DEF LInv, LimiterTypeOK
  <2>9. BucketsInv'
    BY <2>2, <2>3, <2>4, <2>5 DEF LInv, BucketsInv
  <2>10. WindowInv'
    <3>1. CASE window' = NoWindow
      BY <3>1 DEF WindowInv
    <3>2. CASE window' # NoWindow /\ window.key = key
      <4>1. window # NoWindow /\ window'.key = key /\ window'.since = window.since
            /\ window'.count = IF ok THEN window.count + 1 ELSE window.count
        BY <2>1, <2>4, <3>2 DEF LInv, LimiterTypeOK
      <4> DEFINE paid == window.count * Minute
                 due == MaxLimit * (Minute + (now - window.since))
      <4>2. paid + t <= due
        BY <3>2, <4>1, PaidSoFar DEF t
      <4>3. paid \in Nat /\ due \in Int /\ (window.count + 1) * Minute = paid + Minute
        BY <4>1, WindowType
      <4>4. window'.count * Minute + left = paid + t
        <5>1. CASE ok
          BY <2>2, <4>1, <4>3, <5>1 DEF left
        <5>2. CASE ~ok
          BY <4>1, <5>2 DEF left
        <5> QED
          BY <5>1, <5>2
      <4>5. window'.count * Minute + left <= due
        BY <4>2, <4>4
      <4>6. window.since <= now
        BY <4>1, WindowType
      <4>7. Covered(buckets[window.key])'
        BY <2>5, <4>1, <4>5, <4>6 DEF Covered
      <4> QED
        BY <2>5, <4>1, <4>6, <4>7 DEF WindowInv
    <3>3. CASE window' # NoWindow /\ window.key # key
      <4>1. window' = window /\ window # NoWindow /\ window.key \notin evicted
        BY <2>1, <3>3
      <4>2. CASE window.key \in rest
        BY <2>4, <2>5, <3>3, <4>1, <4>2 DEF LInv, WindowInv, Covered
      <4>3. CASE window.key \notin rest
        <5>1. window'.key \notin DOMAIN buckets'
          BY <2>5, <3>3, <4>1, <4>3
        <5>2. window.count * Minute <= MaxLimit * (now - window.since)
          <6>1. CASE window.key \in DOMAIN buckets
            BY <2>4, <4>1, <4>3, <6>1, PrunedIsPaid
          <6>2. CASE window.key \notin DOMAIN buckets
            BY <4>1, <6>2 DEF LInv, WindowInv
          <6> QED
            BY <6>1, <6>2
        <5> QED
          BY <4>1, <5>1, <5>2, WindowType DEF WindowInv
      <4> QED
        BY <4>2, <4>3
    <3> QED
      BY <3>1, <3>2, <3>3
  <2> QED
    BY <2>8, <2>9, <2>10 DEF LInv
<1> QED
  BY <1>1, <1>2 DEF Allow

\* The invariant holds of the empty table.
LEMMA InitLInv == LimiterInit => LInv
BY RateLimiterAssumption DEF LimiterInit, LInv, LimiterTypeOK, BucketsInv, WindowInv

\* Every step keeps the invariant.
LEMMA NextLInv == LInv /\ [LimiterNext]_limiterVars => LInv'
<1> SUFFICES ASSUME LInv, [LimiterNext]_limiterVars PROVE LInv'
  OBVIOUS
<1>1. CASE Tick
  BY <1>1, TickStep
<1>2. ASSUME NEW key \in Keys, Observe(key) PROVE LInv'
  BY <1>2, ObserveStep
<1>3. ASSUME NEW key \in Keys, NEW perMin \in Limits, NEW ok \in BOOLEAN,
             Allow(key, perMin, ok), UNCHANGED now
      PROVE  LInv'
  BY <1>3, AllowStep
<1>4. CASE UNCHANGED limiterVars
  BY <1>4 DEF limiterVars, LInv, LimiterTypeOK, BucketsInv, WindowInv, Covered
<1> QED
  BY <1>1, <1>2, <1>3, <1>4 DEF LimiterNext

\* The invariant gives the bound.
LEMMA LInvRate == LInv => RateHolds
<1> SUFFICES ASSUME LInv, window # NoWindow
             PROVE  window.count * Minute <= MaxLimit * (Minute + (now - window.since))
  BY DEF RateHolds
<1> DEFINE paid == window.count * Minute
           due == MaxLimit * (Minute + (now - window.since))
           span == MaxLimit * (now - window.since)
<1>1. /\ Minute + (now - window.since) \in Nat /\ now - window.since \in Nat
      /\ now - window.since <= Minute + (now - window.since)
  BY WindowType
<1>2. span <= due /\ span \in Nat /\ due \in Nat /\ paid \in Nat
  BY <1>1, WindowType, Monotone
<1>3. CASE window.key \notin DOMAIN buckets
  <2>1. paid <= span
    BY <1>3 DEF LInv, WindowInv
  <2> HIDE DEF paid, span, due
  <2>2. paid <= due
    BY <1>2, <2>1
  <2> QED
    BY <2>2 DEF paid, due
<1>4. CASE window.key \in DOMAIN buckets
  <2> DEFINE b == buckets[window.key]
             before == MaxLimit * (Minute + (b.last - window.since))
  <2>1. b.last \in Nat /\ b.tokens \in Nat /\ b.last <= now /\ Covered(b)
    BY <1>4 DEF LInv, LimiterTypeOK, BucketsInv, WindowInv, Buckets
  <2>2. CASE b.last < window.since
    <3>1. window.count = 0
      BY <2>1, <2>2, WindowType DEF Covered
    <3>2. paid = 0
      BY <3>1, WindowType
    <3> QED
      BY <1>2, <3>2
  <2>3. CASE window.since <= b.last
    <3>1. paid + b.tokens <= before
      BY <2>1, <2>3 DEF Covered
    <3>2. /\ Minute + (b.last - window.since) \in Nat
          /\ Minute + (b.last - window.since) <= Minute + (now - window.since)
      BY <2>1, <2>3, WindowType
    <3>3. before <= due /\ before \in Nat
      BY <1>1, <3>2, WindowType, Monotone
    <3> HIDE DEF paid, before, due, b
    <3>4. paid <= due
      BY <1>2, <2>1, <3>1, <3>3
    <3> QED
      BY <3>4 DEF paid, due
  <2> QED
    BY <2>1, <2>2, <2>3, WindowType
<1> QED
  BY <1>3, <1>4

\* Allow never lets more through for a key than a minute's budget and the limit's share of
\* the time, from whatever moment one counts: pruning gives nothing away, and only a key
\* that evictOldest dropped starts again.
THEOREM LimiterHoldsTheRate == LimiterSpec => []RateHolds
<1>1. LimiterSpec => []LInv
  BY InitLInv, NextLInv, PTL DEF LimiterSpec
<1> QED
  BY <1>1, LInvRate, PTL

-----------------------------------------------------------------------------
(* The guardrails.                                                         *)

-----------------------------------------------------------------------------
(* The invariant.                                                          *)

ShapeInv ==
    /\ DOMAIN past = DOMAIN subjects
    /\ DOMAIN subjects \subseteq Subjects
    /\ reqs \in [Reqs -> Asked \cup {NoReq}]
    /\ mode \in Modes

\* What is about to be learned was vouched for.
AnsweredInv ==
    \A r \in Reqs : reqs[r] # NoReq /\ reqs[r].pc = "answered" =>
        WhoAndWhat(reqs[r].req) \in vouched

\* What record st holds of s is its first request and what was vouched for.
VouchedFor(st, p, s, V) ==
    /\ \A h \in st.hosts : h = p.host \/ \E v \in V : v[1] = s /\ v[2] = h
    /\ \A c \in st.cmds : c = p.cmd \/ \E v \in V : v[1] = s /\ v[3] = c

GInv == ShapeInv /\ AnsweredInv /\ KnownIsVouchedFor

-----------------------------------------------------------------------------
(* The tracker's operations.                                               *)

\* learnLocked adds the host and the program, each only where there is room.
LEMMA LearnLockedFacts ==
    ASSUME NEW st, NEW host, NEW fp
    PROVE  /\ \A h \in learnLocked(st, host, fp).hosts :
                 \/ h \in st.hosts
                 \/ h = host /\ Cardinality(st.hosts) < maxDistinct
           /\ \A c \in learnLocked(st, host, fp).cmds :
                 \/ c \in st.cmds
                 \/ c = fp /\ fp # "" /\ Cardinality(st.cmds) < maxDistinct
BY DEF learnLocked, WithRoom

\* Whatever evictLocked leaves was there before.
LEMMA RemainingSubset ==
    ASSUME NEW s, NEW D \in Remaining(s)
    PROVE  D \subseteq DOMAIN subjects /\ (s \in DOMAIN subjects => s \in D)
BY DEF Remaining, evictLocked

\* The subject of a request is a subject.
LEMMA SubjectType ==
    ASSUME NEW q \in WireRequest
    PROVE  SubjectOf(q) \in Subjects
BY DEF WireRequest, SubjectOf, guardrailSubject, Subjects

\* Check's record: it learns nothing that is new and flagged.
LEMMA CheckFacts ==
    ASSUME ShapeInv, KnownIsVouchedFor, mode' = mode, vouched' = vouched,
           NEW s \in Subjects, NEW host, NEW fp, NEW novel \in BOOLEAN, NEW exceeded \in BOOLEAN,
           Check(s, host, fp, novel, exceeded)
    PROVE  /\ DOMAIN past' = DOMAIN subjects' /\ DOMAIN subjects' \subseteq Subjects
           /\ KnownIsVouchedFor'
<1> DEFINE seen == s \in DOMAIN subjects
           old == IF seen THEN subjects[s] ELSE FreshSubject
           st == [events |-> Events(old), hosts |-> old.hosts, cmds |-> old.cmds, lastSeen |-> now]
           learned == IF Learns(novel \/ exceeded) THEN learnLocked(st, host, fp) ELSE st
           p == IF seen THEN past[s] ELSE [host |-> host, cmd |-> fp, passed |-> {}]
           q == [host |-> p.host, cmd |-> p.cmd,
                 passed |-> IF exceeded THEN Recent(p.passed) ELSE Stamped(p.passed)]
<1>1. PICK D \in Remaining(s) :
        /\ novel = (seen /\ Novel(st, host, fp))
        /\ subjects' = Put(subjects, D, s, learned)
        /\ past' = Put(past, D, s, q)
  BY DEF Check
<1>2. D \subseteq DOMAIN subjects
  BY RemainingSubset
<1>3. /\ DOMAIN subjects' = D \cup {s} /\ DOMAIN past' = D \cup {s}
      /\ subjects'[s] = learned /\ past'[s] = q
      /\ \A x \in D : x # s => subjects'[x] = subjects[x] /\ past'[x] = past[x]
  BY <1>1 DEF Put
<1>5. st.hosts = old.hosts /\ st.cmds = old.cmds
  OBVIOUS
<1>6. q.host = p.host /\ q.cmd = p.cmd
  OBVIOUS
<1> HIDE DEF st, q
<1>8. ASSUME mode = "enforce" PROVE VouchedFor(learned, q, s, vouched)
  <2>1. CASE seen
    <3>1. VouchedFor(st, q, s, vouched)
      BY <1>5, <1>6, <1>8, <2>1 DEF KnownIsVouchedFor, VouchedFor
    <3>2. CASE novel \/ exceeded
      <4>1. learned = st
        BY <1>8, <3>2 DEF Learns
      <4> QED
        BY <3>1, <4>1
    <3>3. CASE ~novel /\ ~exceeded
      <4>1. ~Novel(st, host, fp)
        BY <1>1, <2>1, <3>3
      <4>2. learned = learnLocked(st, host, fp)
        BY <3>3 DEF Learns
      <4> HIDE DEF learned
      <4>3. /\ \A h \in learned.hosts :
                   h \in st.hosts \/ (h = host /\ Cardinality(st.hosts) < maxDistinct)
            /\ \A c \in learned.cmds :
                   c \in st.cmds \/ (c = fp /\ fp # "" /\ Cardinality(st.cmds) < maxDistinct)
        <5>1. LET l == learnLocked(st, host, fp)
              IN /\ \A h \in l.hosts :
                       h \in st.hosts \/ (h = host /\ Cardinality(st.hosts) < maxDistinct)
                 /\ \A c \in l.cmds :
                       c \in st.cmds \/ (c = fp /\ fp # "" /\ Cardinality(st.cmds) < maxDistinct)
          BY LearnLockedFacts
        <5> QED
          BY <4>2, <5>1
      <4>4. learned.hosts \subseteq st.hosts /\ learned.cmds \subseteq st.cmds
        BY <4>1, <4>3 DEF Novel
      <4> QED
        BY <3>1, <4>4 DEF VouchedFor
    <3> QED
      BY <3>2, <3>3
  <2>2. CASE ~seen
    <3>1. old.hosts = {} /\ old.cmds = {} /\ q.host = host /\ q.cmd = fp
      BY <1>6, <2>2 DEF FreshSubject
    <3>2. learned = st \/ learned = learnLocked(st, host, fp)
      OBVIOUS
    <3>3. st.hosts = {} /\ st.cmds = {}
      BY <1>5, <3>1
    <3> HIDE DEF learned
    <3>4. learned.hosts \subseteq {host} /\ learned.cmds \subseteq {fp}
      <4>1. LET l == learnLocked(st, host, fp)
            IN (\A h \in l.hosts : h \in st.hosts \/ h = host)
               /\ (\A c \in l.cmds : c \in st.cmds \/ c = fp)
        BY LearnLockedFacts
      <4> QED
        BY <3>2, <3>3, <4>1
    <3> QED
      BY <3>1, <3>4 DEF VouchedFor
  <2> QED
    BY <2>1, <2>2
<1> HIDE DEF learned
<1>9. KnownIsVouchedFor'
  <2> SUFFICES ASSUME mode = "enforce", NEW x \in DOMAIN subjects'
               PROVE  VouchedFor(subjects'[x], past'[x], x, vouched)
    BY DEF KnownIsVouchedFor, VouchedFor
  <2>1. CASE x = s
    BY <1>3, <1>8, <2>1
  <2>2. CASE x # s
    BY <1>2, <1>3, <2>2 DEF KnownIsVouchedFor, VouchedFor
  <2> QED
    BY <2>1, <2>2
<1> QED
  BY <1>2, <1>3, <1>9 DEF ShapeInv

\* Learn adds to a record only what was vouched for.
LEMMA LearnFacts ==
    ASSUME ShapeInv, KnownIsVouchedFor, mode' = mode, vouched' = vouched,
           NEW s \in Subjects, NEW host, NEW fp, <<s, host, fp>> \in vouched,
           Learn(s, host, fp)
    PROVE  /\ DOMAIN past' = DOMAIN subjects' /\ DOMAIN subjects' \subseteq Subjects
           /\ KnownIsVouchedFor'
<1> DEFINE seen == s \in DOMAIN subjects
           old == IF seen THEN subjects[s] ELSE FreshSubject
           st == [events |-> old.events, hosts |-> old.hosts, cmds |-> old.cmds, lastSeen |-> now]
           learned == learnLocked(st, host, fp)
           p == IF seen THEN past[s] ELSE [host |-> NoReq, cmd |-> NoReq, passed |-> {}]
<1>1. PICK D \in Remaining(s) : /\ subjects' = Put(subjects, D, s, learned)
                                /\ past' = Put(past, D, s, p)
  BY DEF Learn
<1>2. D \subseteq DOMAIN subjects
  BY RemainingSubset
<1>3. /\ DOMAIN subjects' = D \cup {s} /\ DOMAIN past' = D \cup {s}
      /\ subjects'[s] = learned /\ past'[s] = p
      /\ \A x \in D : x # s => subjects'[x] = subjects[x] /\ past'[x] = past[x]
  BY <1>1 DEF Put
<1>5. st.hosts = old.hosts /\ st.cmds = old.cmds
  OBVIOUS
<1> HIDE DEF st
<1>7. ASSUME mode = "enforce" PROVE VouchedFor(learned, p, s, vouched)
  <2>1. /\ \A h \in old.hosts : h = p.host \/ \E v \in vouched : v[1] = s /\ v[2] = h
        /\ \A c \in old.cmds : c = p.cmd \/ \E v \in vouched : v[1] = s /\ v[3] = c
    BY <1>7 DEF KnownIsVouchedFor, FreshSubject
  <2>2. (\A h \in learned.hosts : h \in st.hosts \/ h = host)
        /\ (\A c \in learned.cmds : c \in st.cmds \/ c = fp)
    BY LearnLockedFacts
  <2>3. (\E v \in vouched : v[1] = s /\ v[2] = host) /\ (\E v \in vouched : v[1] = s /\ v[3] = fp)
    OBVIOUS
  <2> HIDE DEF learned, old, p
  <2> QED
    BY <1>5, <2>1, <2>2, <2>3 DEF VouchedFor
<1> HIDE DEF learned, p
<1>8. KnownIsVouchedFor'
  <2> SUFFICES ASSUME mode = "enforce", NEW x \in DOMAIN subjects'
               PROVE  VouchedFor(subjects'[x], past'[x], x, vouched)
    BY DEF KnownIsVouchedFor, VouchedFor
  <2>1. CASE x = s
    BY <1>3, <1>7, <2>1
  <2>2. CASE x # s
    BY <1>2, <1>3, <2>2 DEF KnownIsVouchedFor, VouchedFor
  <2> QED
    BY <2>1, <2>2
<1> QED
  BY <1>2, <1>3, <1>8 DEF ShapeInv

-----------------------------------------------------------------------------
(* Requests.                                                               *)

\* The ways a request moves on keep its record a record.
LEMMA RequestMoves ==
    ASSUME ShapeInv, NEW r \in Reqs
    PROVE  /\ \A q \in WireRequest, pc \in {"forward", "screen"} : Begin(r, q, pc) =>
                 reqs' \in [Reqs -> Asked \cup {NoReq}] /\ reqs'[r].pc = pc
           /\ End(r) => reqs' \in [Reqs -> Asked \cup {NoReq}] /\ reqs'[r] = NoReq
           /\ \A pc \in {"approved", "answered"} : reqs[r] # NoReq /\ Move(r, pc) =>
                 reqs' \in [Reqs -> Asked \cup {NoReq}] /\ reqs'[r].pc = pc
                 /\ reqs'[r].req = reqs[r].req
           /\ \A rule \in {"policy", "behavior"} : reqs[r] # NoReq /\ requireApproval(r, rule) =>
                 reqs' \in [Reqs -> Asked \cup {NoReq}] /\ reqs'[r].pc = "pending"
<1>1. reqs[r] # NoReq => reqs[r] \in Asked
  BY DEF ShapeInv
<1>2. \A q \in WireRequest, pc \in {"forward", "screen"} : Begin(r, q, pc) =>
                 reqs' \in [Reqs -> Asked \cup {NoReq}] /\ reqs'[r].pc = pc
  BY DEF ShapeInv, Begin, Asked
<1>3. End(r) => reqs' \in [Reqs -> Asked \cup {NoReq}] /\ reqs'[r] = NoReq
  BY DEF ShapeInv, End
<1>4. ASSUME NEW pc \in {"approved", "answered"}, reqs[r] # NoReq, Move(r, pc)
      PROVE  reqs' \in [Reqs -> Asked \cup {NoReq}] /\ reqs'[r].pc = pc
             /\ reqs'[r].req = reqs[r].req
  BY <1>1, <1>4 DEF ShapeInv, Move, Asked
<1>5. ASSUME NEW rule \in {"policy", "behavior"}, reqs[r] # NoReq, requireApproval(r, rule)
      PROVE  reqs' \in [Reqs -> Asked \cup {NoReq}] /\ reqs'[r].pc = "pending"
  BY <1>1, <1>5 DEF ShapeInv, requireApproval, Asked, WireRequest
<1> QED
  BY <1>2, <1>3, <1>4, <1>5

\* A request other than the one that moves keeps what is said of it.
LEMMA AnsweredKept ==
    ASSUME ShapeInv, AnsweredInv, vouched \subseteq vouched', NEW r \in Reqs,
           \A x \in Reqs : x # r => reqs'[x] = reqs[x],
           reqs'[r] = NoReq \/ reqs'[r] = reqs[r] \/ reqs'[r].pc # "answered"
    PROVE  AnsweredInv'
<1> SUFFICES ASSUME NEW x \in Reqs, reqs'[x] # NoReq, reqs'[x].pc = "answered"
             PROVE  WhoAndWhat(reqs'[x].req) \in vouched'
  BY DEF AnsweredInv, WhoAndWhat, SubjectOf
<1>1. reqs'[x] = reqs[x]
  OBVIOUS
<1> QED
  BY <1>1 DEF AnsweredInv

\* The ways a request moves touch no other request.
LEMMA OthersStay ==
    ASSUME ShapeInv, NEW r \in Reqs
    PROVE  /\ \A q, pc : Begin(r, q, pc) => \A x \in Reqs : x # r => reqs'[x] = reqs[x]
           /\ End(r) => \A x \in Reqs : x # r => reqs'[x] = reqs[x]
           /\ \A pc : Move(r, pc) => \A x \in Reqs : x # r => reqs'[x] = reqs[x]
           /\ \A rule : requireApproval(r, rule) => \A x \in Reqs : x # r => reqs'[x] = reqs[x]
BY DEF ShapeInv, Begin, End, Move, requireApproval

\* handleSign keeps the invariant.
LEMMA StepHandleSign ==
    ASSUME GInv, NEW r \in Reqs, handleSign(r)
    PROVE  GInv'
<1> USE DEF GInv
<1>0. mode' = mode /\ vouched' = vouched /\ reqs[r] = NoReq
  BY DEF handleSign
<1>1. ASSUME NEW q \in WireRequest, NEW pc \in {"forward", "screen"}, Begin(r, q, pc)
      PROVE  reqs' \in [Reqs -> Asked \cup {NoReq}] /\ AnsweredInv'
  <2>1. reqs' \in [Reqs -> Asked \cup {NoReq}] /\ reqs'[r].pc = pc
    BY <1>1, RequestMoves
  <2>2. \A x \in Reqs : x # r => reqs'[x] = reqs[x]
    BY <1>1, OthersStay
  <2> QED
    BY <1>0, <2>1, <2>2, AnsweredKept
<1>2. UNCHANGED reqs => reqs' \in [Reqs -> Asked \cup {NoReq}] /\ AnsweredInv'
  BY <1>0, AnsweredKept DEF ShapeInv
<1>3. PICK q \in Asks :
        \/ Begin(r, q, "forward") /\ UNCHANGED <<subjects, past>>
        \/ \E novel, exceeded \in BOOLEAN :
             /\ Check(SubjectOf(q), q.host, firstToken(q.command), novel, exceeded)
             /\ CASE mode = "observe" -> Begin(r, q, "forward")
                  [] mode = "enforce" /\ exceeded -> UNCHANGED reqs
                  [] mode = "enforce" /\ ~exceeded ->
                        Begin(r, q, IF novel THEN "screen" ELSE "forward")
             /\ mode \in {"observe", "enforce"}
  BY GuardrailsAssumption DEF handleSign, ShapeInv
<1>4. q \in WireRequest
  BY GuardrailsAssumption
<1>5. CASE Begin(r, q, "forward") /\ UNCHANGED <<subjects, past>>
  BY <1>0, <1>1, <1>4, <1>5 DEF ShapeInv, KnownIsVouchedFor
<1>6. ASSUME NEW novel \in BOOLEAN, NEW exceeded \in BOOLEAN,
             Check(SubjectOf(q), q.host, firstToken(q.command), novel, exceeded),
             mode \in {"observe", "enforce"},
             CASE mode = "observe" -> Begin(r, q, "forward")
               [] mode = "enforce" /\ exceeded -> UNCHANGED reqs
               [] mode = "enforce" /\ ~exceeded ->
                     Begin(r, q, IF novel THEN "screen" ELSE "forward")
      PROVE  GInv'
  <2>1. Begin(r, q, "forward") \/ Begin(r, q, "screen") \/ UNCHANGED reqs
    BY <1>6
  <2>2. reqs' \in [Reqs -> Asked \cup {NoReq}] /\ AnsweredInv'
    BY <1>1, <1>2, <1>4, <2>1
  <2>3. SubjectOf(q) \in Subjects
    BY <1>4, SubjectType
  <2>4. DOMAIN past' = DOMAIN subjects' /\ DOMAIN subjects' \subseteq Subjects
        /\ KnownIsVouchedFor'
    BY <1>0, <1>6, <2>3, CheckFacts
  <2> QED
    BY <1>0, <2>2, <2>4 DEF ShapeInv
<1> QED
  BY <1>3, <1>5, <1>6

\* What only moves a request on keeps the invariant.
LEMMA StepMoves ==
    ASSUME GInv, NEW r \in Reqs, UNCHANGED <<mode, subjects, past>>, vouched \subseteq vouched',
           reqs' \in [Reqs -> Asked \cup {NoReq}], AnsweredInv'
    PROVE  GInv'
BY DEF GInv, ShapeInv, KnownIsVouchedFor

\* The calls of the signer and the decisions keep the invariant.
LEMMA StepDecisions ==
    ASSUME GInv, NEW r \in Reqs, screen(r) \/ forward(r) \/ decide(r)
    PROVE  GInv'
<1> USE DEF GInv
<1>1. UNCHANGED <<mode, subjects, past, vouched>> /\ reqs[r] # NoReq
  BY DEF screen, forward, decide
<1>2. End(r) \/ requireApproval(r, "behavior") \/ requireApproval(r, "policy")
      \/ Move(r, "approved")
  BY DEF screen, forward, decide, BadKey
<1>3. \A x \in Reqs : x # r => reqs'[x] = reqs[x]
  BY <1>2, OthersStay
<1>4. reqs' \in [Reqs -> Asked \cup {NoReq}] /\ (reqs'[r] = NoReq \/ reqs'[r].pc # "answered")
  BY <1>1, <1>2, RequestMoves
<1>5. AnsweredInv'
  BY <1>1, <1>3, <1>4, AnsweredKept
<1> QED
  BY <1>1, <1>4, <1>5, StepMoves

\* handleResult: what is answered is vouched for in the same step.
LEMMA StepHandleResult ==
    ASSUME GInv, NEW r \in Reqs, handleResult(r)
    PROVE  GInv'
<1> USE DEF GInv
<1>1. UNCHANGED <<mode, subjects, past>> /\ reqs[r] # NoReq
  BY DEF handleResult
<1>2. CASE UNCHANGED <<reqs, vouched>>
  BY <1>1, <1>2 DEF ShapeInv, AnsweredInv, KnownIsVouchedFor, WhoAndWhat
<1>3. CASE Move(r, "answered") /\ vouched' = vouched \cup {WhoAndWhat(reqs[r].req)}
  <2>1. \A x \in Reqs : x # r => reqs'[x] = reqs[x]
    BY <1>3, OthersStay
  <2>2. reqs' \in [Reqs -> Asked \cup {NoReq}] /\ reqs'[r].req = reqs[r].req
    BY <1>1, <1>3, RequestMoves
  <2>3. ASSUME NEW x \in Reqs, reqs'[x] # NoReq, reqs'[x].pc = "answered"
        PROVE  WhoAndWhat(reqs'[x].req) \in vouched'
    <3>1. CASE x = r
      BY <1>3, <2>2, <3>1
    <3>2. CASE x # r
      BY <1>3, <2>1, <2>3, <3>2 DEF AnsweredInv
    <3> QED
      BY <3>1, <3>2
  <2>4. AnsweredInv'
    BY <2>3 DEF AnsweredInv, WhoAndWhat
  <2> QED
    BY <1>1, <1>3, <2>2, <2>4, StepMoves
<1> QED
  BY <1>2, <1>3 DEF handleResult

\* learnBehaviorApproval: what is learned was answered.
LEMMA StepLearn ==
    ASSUME GInv, NEW r \in Reqs, learnBehaviorApproval(r)
    PROVE  GInv'
<1> USE DEF GInv
<1>1. mode' = mode /\ vouched' = vouched /\ reqs[r] # NoReq /\ reqs[r].pc = "answered" /\ End(r)
  BY DEF learnBehaviorApproval
<1>2. reqs' \in [Reqs -> Asked \cup {NoReq}] /\ reqs'[r] = NoReq
  BY <1>1, RequestMoves
<1>3. \A x \in Reqs : x # r => reqs'[x] = reqs[x]
  BY <1>1, OthersStay
<1>4. AnsweredInv'
  BY <1>1, <1>2, <1>3, AnsweredKept
<1>5. CASE UNCHANGED <<subjects, past>>
  BY <1>1, <1>2, <1>4, <1>5, StepMoves
<1>6. CASE Learn(SubjectOf(reqs[r].req), reqs[r].req.host, firstToken(reqs[r].req.command))
  <2>1. reqs[r].req \in WireRequest
    BY <1>1 DEF ShapeInv, Asked
  <2>2. SubjectOf(reqs[r].req) \in Subjects
    BY <2>1, SubjectType
  <2>3. <<SubjectOf(reqs[r].req), reqs[r].req.host, firstToken(reqs[r].req.command)>> \in vouched
    BY <1>1 DEF AnsweredInv, WhoAndWhat
  <2>4. DOMAIN past' = DOMAIN subjects' /\ DOMAIN subjects' \subseteq Subjects
        /\ KnownIsVouchedFor'
    BY <1>1, <1>6, <2>2, <2>3, LearnFacts
  <2> QED
    BY <1>1, <1>2, <1>4, <2>4 DEF ShapeInv
<1> QED
  BY <1>5, <1>6 DEF learnBehaviorApproval

\* Every step keeps the invariant.
LEMMA GInvKept ==
    ASSUME GInv, [Next]_vars
    PROVE  GInv'
<1>1. ASSUME NEW r \in Reqs, handleSign(r) \/ screen(r) \/ forward(r) \/ decide(r)
                              \/ handleResult(r) \/ learnBehaviorApproval(r)
      PROVE  GInv'
  BY <1>1, StepHandleSign, StepDecisions, StepHandleResult, StepLearn
<1>2. CASE Restart
  BY <1>2 DEF Restart, GInv, ShapeInv, AnsweredInv, KnownIsVouchedFor
<1>3. CASE UNCHANGED guardVars
  BY <1>3 DEF guardVars, GInv, ShapeInv, AnsweredInv, KnownIsVouchedFor, WhoAndWhat
<1>4. (\E key \in Keys : DirectSign(key)) \/ ReloadRate \/ Clock \/ UNCHANGED vars
        => UNCHANGED guardVars
  BY DEF DirectSign, ReloadRate, Clock, vars, guardVars
<1> QED
  BY <1>1, <1>2, <1>3, <1>4 DEF Next

\* With enforcement a subject is known for its first request and for what a human approved
\* and the signer then answered, whatever else its brokers ask for.
THEOREM OnlyVouchedIsKnown == Spec => []KnownIsVouchedFor
<1>1. Init => GInv
  BY DEF Init, GInv, ShapeInv, AnsweredInv, KnownIsVouchedFor
<1>2. GInv /\ [Next]_vars => GInv'
  BY GInvKept
<1>3. GInv => KnownIsVouchedFor
  BY DEF GInv
<1> QED
  BY <1>1, <1>2, <1>3, PTL DEF Spec

-----------------------------------------------------------------------------
(* The tables.                                                             *)

\* A finite set of at most n elements.
Within(S, n) == IsFiniteSet(S) /\ Cardinality(S) <= n

TablesInv ==
    /\ Within(DOMAIN buckets, maxRateLimitKeys)
    /\ Within(DOMAIN subjects, maxSubjects)
    /\ \A s \in DOMAIN subjects : /\ Within(subjects[s].hosts, maxDistinct)
                                  /\ Within(subjects[s].cmds, maxDistinct)

\* One element more, where there is room.
LEMMA RoomForOne ==
    ASSUME NEW S, IsFiniteSet(S), NEW x, NEW n \in Nat, Cardinality(S) < n
    PROVE  Within(S \cup {x}, n)
<1>1. /\ IsFiniteSet(S \cup {x}) /\ Cardinality(S) \in Nat
      /\ Cardinality(S \cup {x}) = IF x \in S THEN Cardinality(S) ELSE Cardinality(S) + 1
  BY FS_AddElement, FS_CardinalityType
<1> QED
  BY <1>1 DEF Within

\* A part of a set is no larger, and smaller where an element was taken out.
LEMMA LessIsSmaller ==
    ASSUME NEW S, IsFiniteSet(S), NEW T \in SUBSET S
    PROVE  /\ IsFiniteSet(T) /\ Cardinality(T) \in Nat /\ Cardinality(S) \in Nat
           /\ Cardinality(T) <= Cardinality(S)
           /\ \A x \in T : IsFiniteSet(T \ {x}) /\ Cardinality(T \ {x}) < Cardinality(S)
<1>1. IsFiniteSet(T) /\ Cardinality(T) <= Cardinality(S)
  BY FS_Subset
<1>2. Cardinality(T) \in Nat /\ Cardinality(S) \in Nat
  BY <1>1, FS_CardinalityType
<1>3. ASSUME NEW x \in T
      PROVE  IsFiniteSet(T \ {x}) /\ Cardinality(T \ {x}) = Cardinality(T) - 1
  BY <1>1, FS_RemoveElement
<1> QED
  BY <1>1, <1>2, <1>3

\* prune and evictOldest make room for a new key.
LEMMA AllowWithin ==
    ASSUME Within(DOMAIN buckets, maxRateLimitKeys), NEW key, NEW perMin, NEW ok \in BOOLEAN,
           Allow(key, perMin, ok)
    PROVE  Within(DOMAIN buckets', maxRateLimitKeys)
<1>1. CASE UNCHANGED buckets
  BY <1>1
<1>2. ASSUME NEW evicted \in Evictable(key),
             DOMAIN buckets' = StillThere(key, evicted) \cup {key}
      PROVE  Within(DOMAIN buckets', maxRateLimitKeys)
  <2> DEFINE D == DOMAIN buckets
             rest == StillThere(key, evicted)
  <2>0. IsFiniteSet(D) /\ Cardinality(D) <= maxRateLimitKeys /\ maxRateLimitKeys \in Nat
    BY RateLimiterAssumption DEF Within
  <2>1. CASE key \in D
    <3>1. rest \cup {key} = D
      BY <2>1 DEF StillThere
    <3> QED
      BY <1>2, <3>1
  <2>2. CASE key \notin D
    <3>1. prune \in SUBSET D
      BY DEF prune
    <3>2. IsFiniteSet(rest) /\ Cardinality(rest) < maxRateLimitKeys
      <4>1. Cardinality(D) \in Nat /\ Cardinality(prune) \in Nat /\ IsFiniteSet(prune)
        BY <2>0, <3>1, LessIsSmaller
      <4>2. CASE ~AtBound(D)
        BY <2>0, <4>1, <4>2 DEF StillThere, AtBound
      <4>3. CASE AtBound(D) /\ ~AtBound(prune)
        <5>1. rest = prune
          BY <2>2, <4>3 DEF StillThere, Evictable
        <5> QED
          BY <2>0, <4>1, <4>3, <5>1 DEF AtBound
      <4>4. CASE AtBound(D) /\ AtBound(prune)
        <5>1. PICK k \in prune : rest = prune \ {k}
          BY <2>2, <4>4 DEF StillThere, Evictable, Oldest
        <5>2. IsFiniteSet(prune \ {k}) /\ Cardinality(prune \ {k}) < Cardinality(D)
          BY <2>0, <3>1, LessIsSmaller
        <5>3. Cardinality(prune \ {k}) \in Nat
          BY <5>2, FS_CardinalityType
        <5> HIDE DEF D
        <5> QED
          BY <2>0, <4>1, <5>1, <5>2, <5>3
      <4> QED
        BY <4>2, <4>3, <4>4
    <3> QED
      BY <1>2, <2>0, <3>2, RoomForOne
  <2> QED
    BY <2>1, <2>2
<1> QED
  BY <1>1, <1>2 DEF Allow

\* evictLocked makes room for a new subject.
LEMMA RemainingWithin ==
    ASSUME Within(DOMAIN subjects, maxSubjects), NEW s, NEW D \in Remaining(s)
    PROVE  Within(D \cup {s}, maxSubjects)
<1>0. /\ IsFiniteSet(DOMAIN subjects) /\ Cardinality(DOMAIN subjects) <= maxSubjects
      /\ maxSubjects \in Nat
  BY GuardrailsAssumption DEF Within
<1> DEFINE live == {x \in DOMAIN subjects : subjects[x].lastSeen >= now - subjectTTL}
<1>1. CASE s \in DOMAIN subjects
  <2>1. D \cup {s} = DOMAIN subjects
    BY <1>1 DEF Remaining
  <2> QED
    BY <2>1
<1>2. CASE s \notin DOMAIN subjects
  <2>1. live \in SUBSET DOMAIN subjects
    OBVIOUS
  <2>2. \/ D = DOMAIN subjects /\ Cardinality(DOMAIN subjects) < maxSubjects
        \/ D = live /\ Cardinality(live) < maxSubjects
        \/ \E x \in live : D = live \ {x}
    BY <1>2 DEF Remaining, evictLocked
  <2> HIDE DEF live
  <2>3. /\ IsFiniteSet(live)
        /\ \A x \in live : /\ IsFiniteSet(live \ {x})
                           /\ Cardinality(live \ {x}) < Cardinality(DOMAIN subjects)
    BY <1>0, <2>1, LessIsSmaller
  <2>4. IsFiniteSet(D)
    BY <1>0, <2>2, <2>3
  <2>5. Cardinality(D) \in Nat /\ Cardinality(DOMAIN subjects) \in Nat
    BY <1>0, <2>4, FS_CardinalityType
  <2>6. Cardinality(D) < maxSubjects
    BY <1>0, <2>2, <2>3, <2>5
  <2> QED
    BY <1>0, <2>4, <2>6, RoomForOne
<1> QED
  BY <1>1, <1>2

\* learnLocked keeps both sets of a record within their limit.
LEMMA LearnLockedWithin ==
    ASSUME NEW st, NEW host, NEW fp,
           Within(st.hosts, maxDistinct), Within(st.cmds, maxDistinct)
    PROVE  /\ Within(learnLocked(st, host, fp).hosts, maxDistinct)
           /\ Within(learnLocked(st, host, fp).cmds, maxDistinct)
<1>1. ASSUME NEW S, Within(S, maxDistinct), NEW x
      PROVE  Within(WithRoom(S, {x}), maxDistinct) /\ Within(WithRoom(S, {x} \ {""}), maxDistinct)
  <2>1. CASE ~(Cardinality(S) < maxDistinct)
    BY <1>1, <2>1 DEF WithRoom
  <2>2. CASE Cardinality(S) < maxDistinct
    <3>1. Within(S \cup {x}, maxDistinct)
      BY <1>1, <2>2, RoomForOne, GuardrailsAssumption DEF Within
    <3>2. S \cup ({x} \ {""}) = S \cup {x} \/ S \cup ({x} \ {""}) = S
      OBVIOUS
    <3> QED
      BY <1>1, <2>2, <3>1, <3>2 DEF WithRoom
  <2> QED
    BY <2>1, <2>2
<1>2. /\ learnLocked(st, host, fp).hosts = WithRoom(st.hosts, {host})
      /\ learnLocked(st, host, fp).cmds = WithRoom(st.cmds, {fp} \ {""})
  BY DEF learnLocked
<1> QED
  BY <1>1, <1>2

\* Check and Learn put one record of limited size back into a table with room for it.
LEMMA TrackerWithin ==
    ASSUME TablesInv, NEW s, NEW st, NEW D \in Remaining(s),
           Within(st.hosts, maxDistinct), Within(st.cmds, maxDistinct),
           subjects' = Put(subjects, D, s, st)
    PROVE  /\ Within(DOMAIN subjects', maxSubjects)
           /\ \A x \in DOMAIN subjects' : /\ Within(subjects'[x].hosts, maxDistinct)
                                          /\ Within(subjects'[x].cmds, maxDistinct)
<1>1. /\ DOMAIN subjects' = D \cup {s} /\ subjects'[s] = st
      /\ \A x \in D : x # s => subjects'[x] = subjects[x]
  BY DEF Put
<1>2. D \subseteq DOMAIN subjects /\ Within(D \cup {s}, maxSubjects)
  BY RemainingSubset, RemainingWithin DEF TablesInv
<1> QED
  BY <1>1, <1>2 DEF TablesInv

\* An unknown subject has learned nothing.
LEMMA NothingIsLittle ==
    ASSUME NEW n \in Nat
    PROVE  Within({}, n)
BY FS_EmptySet DEF Within

\* Check keeps the tracker's tables within their limits.
LEMMA CheckWithin ==
    ASSUME TablesInv, NEW s, NEW host, NEW fp, NEW novel, NEW exceeded,
           Check(s, host, fp, novel, exceeded)
    PROVE  /\ Within(DOMAIN subjects', maxSubjects)
           /\ \A x \in DOMAIN subjects' : /\ Within(subjects'[x].hosts, maxDistinct)
                                          /\ Within(subjects'[x].cmds, maxDistinct)
<1> DEFINE old == IF s \in DOMAIN subjects THEN subjects[s] ELSE FreshSubject
           st == [events |-> Events(old), hosts |-> old.hosts, cmds |-> old.cmds, lastSeen |-> now]
           learned == IF Learns(novel \/ exceeded) THEN learnLocked(st, host, fp) ELSE st
<1>1. PICK D \in Remaining(s) : subjects' = Put(subjects, D, s, learned)
  BY DEF Check
<1>2. Within(old.hosts, maxDistinct) /\ Within(old.cmds, maxDistinct)
  BY NothingIsLittle, GuardrailsAssumption DEF TablesInv, FreshSubject
<1>3. Within(st.hosts, maxDistinct) /\ Within(st.cmds, maxDistinct)
  BY <1>2
<1> HIDE DEF st
<1>4. Within(learnLocked(st, host, fp).hosts, maxDistinct)
      /\ Within(learnLocked(st, host, fp).cmds, maxDistinct)
  BY <1>3, LearnLockedWithin
<1>5. Within(learned.hosts, maxDistinct) /\ Within(learned.cmds, maxDistinct)
  BY <1>3, <1>4
<1> HIDE DEF learned
<1> QED
  BY <1>1, <1>5, TrackerWithin

\* So does Learn.
LEMMA LearnWithin ==
    ASSUME TablesInv, NEW s, NEW host, NEW fp, Learn(s, host, fp)
    PROVE  /\ Within(DOMAIN subjects', maxSubjects)
           /\ \A x \in DOMAIN subjects' : /\ Within(subjects'[x].hosts, maxDistinct)
                                          /\ Within(subjects'[x].cmds, maxDistinct)
<1> DEFINE old == IF s \in DOMAIN subjects THEN subjects[s] ELSE FreshSubject
           st == [events |-> old.events, hosts |-> old.hosts, cmds |-> old.cmds, lastSeen |-> now]
<1>1. PICK D \in Remaining(s) : subjects' = Put(subjects, D, s, learnLocked(st, host, fp))
  BY DEF Learn
<1>2. Within(old.hosts, maxDistinct) /\ Within(old.cmds, maxDistinct)
  BY NothingIsLittle, GuardrailsAssumption DEF TablesInv, FreshSubject
<1>3. Within(st.hosts, maxDistinct) /\ Within(st.cmds, maxDistinct)
  BY <1>2
<1> HIDE DEF st
<1>4. Within(learnLocked(st, host, fp).hosts, maxDistinct)
      /\ Within(learnLocked(st, host, fp).cmds, maxDistinct)
  BY <1>3, LearnLockedWithin
<1> QED
  BY <1>1, <1>4, TrackerWithin

\* Neither the tracker's table of subjects, nor what it remembers of one, nor the limiter's
\* table of buckets outgrows its limit.
THEOREM TablesStayBounded == Spec => []TablesBounded
<1>1. Init => TablesInv
  <2>1. Init => DOMAIN buckets = {} /\ DOMAIN subjects = {}
    BY DEF Init, LimiterInit
  <2> QED
    BY <2>1, NothingIsLittle, RateLimiterAssumption, GuardrailsAssumption DEF TablesInv
<1>2. TablesInv /\ [Next]_vars => TablesInv'
  <2> SUFFICES ASSUME TablesInv, [Next]_vars PROVE TablesInv'
    OBVIOUS
  <2> DEFINE Tracker == /\ Within(DOMAIN subjects', maxSubjects)
                        /\ \A x \in DOMAIN subjects' :
                              /\ Within(subjects'[x].hosts, maxDistinct)
                              /\ Within(subjects'[x].cmds, maxDistinct)
             Limiter == Within(DOMAIN buckets', maxRateLimitKeys)
  <2>1. UNCHANGED subjects => Tracker
    BY DEF TablesInv
  <2>2. UNCHANGED buckets => Limiter
    BY DEF TablesInv
  <2>3. ASSUME NEW key, NEW perMin, NEW ok \in BOOLEAN, Allow(key, perMin, ok) PROVE Limiter
    BY <2>3, AllowWithin DEF TablesInv
  <2>4. ASSUME NEW r \in Reqs, handleSign(r) PROVE Tracker /\ Limiter
    <3>1. UNCHANGED buckets
      BY <2>4 DEF handleSign
    <3>2. UNCHANGED subjects
          \/ \E q \in Asks, novel, exceeded \in BOOLEAN :
                Check(SubjectOf(q), q.host, firstToken(q.command), novel, exceeded)
      BY <2>4 DEF handleSign
    <3> QED
      BY <2>1, <2>2, <3>1, <3>2, CheckWithin
  <2>5. ASSUME NEW r \in Reqs, screen(r) \/ forward(r) \/ handleResult(r)
        PROVE  Tracker /\ Limiter
    <3>1. UNCHANGED subjects
      BY <2>5 DEF screen, forward, handleResult
    <3>2. UNCHANGED buckets \/ \E ok \in BOOLEAN : Allow(ControlPlane, signRateMin, ok)
      BY <2>5 DEF screen, forward, handleResult, AskSigner, BadKey
    <3> QED
      BY <2>1, <2>2, <2>3, <3>1, <3>2
  <2>6. ASSUME NEW r \in Reqs, decide(r) PROVE Tracker /\ Limiter
    BY <2>1, <2>2, <2>6 DEF decide
  <2>7. ASSUME NEW r \in Reqs, learnBehaviorApproval(r) PROVE Tracker /\ Limiter
    <3>1. UNCHANGED buckets
      BY <2>7 DEF learnBehaviorApproval
    <3>2. UNCHANGED subjects
          \/ Learn(SubjectOf(reqs[r].req), reqs[r].req.host, firstToken(reqs[r].req.command))
      BY <2>7 DEF learnBehaviorApproval
    <3> QED
      BY <2>1, <2>2, <3>1, <3>2, LearnWithin
  <2>8. CASE Restart
    <3>1. DOMAIN subjects' = {} /\ UNCHANGED buckets
      BY <2>8 DEF Restart
    <3>2. Tracker
      BY <3>1, NothingIsLittle, GuardrailsAssumption
    <3> QED
      BY <2>2, <3>1, <3>2 DEF TablesInv
  <2>9. ASSUME NEW key \in Keys, DirectSign(key) PROVE Tracker /\ Limiter
    <3>1. UNCHANGED subjects
      BY <2>9 DEF DirectSign, guardVars
    <3>2. \E ok \in BOOLEAN : Allow(key, signRateMin, ok)
      BY <2>9 DEF DirectSign
    <3> QED
      BY <2>1, <2>3, <3>1, <3>2
  <2>10. CASE ReloadRate \/ Clock \/ UNCHANGED vars
    <3>1. UNCHANGED <<subjects, buckets>>
      BY <2>10 DEF ReloadRate, Clock, Tick, vars, guardVars
    <3> QED
      BY <2>1, <2>2, <3>1 DEF TablesInv
  <2> HIDE DEF Tracker, Limiter
  <2>11. Tracker /\ Limiter => TablesInv'
    BY DEF Tracker, Limiter, TablesInv
  <2> QED
    BY <2>4, <2>5, <2>6, <2>7, <2>8, <2>9, <2>10, <2>11 DEF Next
<1>3. TablesInv => TablesBounded
  BY DEF TablesInv, TablesBounded, BucketsBounded, Within
<1> QED
  BY <1>1, <1>2, <1>3, PTL DEF Spec

-----------------------------------------------------------------------------
(* The sliding window.                                                     *)

\* A window is a finite set of timestamps.
IsWindow(E) == IsFiniteSet(E) /\ \A e \in E : e.at \in Nat

\* What passed and has not left the window is among the events that the tracker counts,
\* and never was more than the limit.
PassedInv(st, p) ==
    /\ IsWindow(st.events) /\ IsWindow(p.passed)
    /\ RateLimitPerMin > 0 =>
          /\ Cardinality(p.passed) <= RateLimitPerMin
          /\ Recent(p.passed) \subseteq st.events

RateInv ==
    /\ now \in Nat
    /\ DOMAIN past = DOMAIN subjects
    /\ \A s \in DOMAIN subjects : PassedInv(subjects[s], past[s])

\* What is left of a window, and the window with one more timestamp, are windows.
LEMMA StampedIsWindow ==
    ASSUME now \in Nat, NEW E, IsWindow(E)
    PROVE  /\ IsWindow(Recent(E)) /\ Cardinality(Recent(E)) <= Cardinality(E)
           /\ IsWindow(Stamped(E))
<1>1. Recent(E) \in SUBSET E
  BY DEF Recent
<1>2. IsFiniteSet(Recent(E)) /\ Cardinality(Recent(E)) <= Cardinality(E)
  BY <1>1, LessIsSmaller DEF IsWindow
<1>3. IsFiniteSet(Stamped(E))
  BY <1>2, FS_AddElement DEF Stamped
<1>. QED  BY <1>1, <1>2, <1>3 DEF IsWindow, Stamped

\* Check: a request that passes is counted together with all that passed in the last
\* minute, and those are at most the limit; a blocked one only adds to the count.
LEMMA CheckCounts ==
    ASSUME now \in Nat, NEW st, NEW p, PassedInv(st, p),
           NEW st2, NEW p2, NEW exceeded \in BOOLEAN,
           st2.events = Events(st),
           exceeded = (RateLimitPerMin > 0 /\ Cardinality(Events(st)) > RateLimitPerMin),
           p2.passed = IF exceeded THEN Recent(p.passed) ELSE Stamped(p.passed)
    PROVE  PassedInv(st2, p2)
<1>1. IsWindow(st.events) /\ IsWindow(p.passed)
  BY DEF PassedInv
<1>2. IsWindow(st2.events) /\ IsWindow(p2.passed)
  BY <1>1, StampedIsWindow DEF Events
<1>3. ASSUME RateLimitPerMin > 0
      PROVE  Cardinality(p2.passed) <= RateLimitPerMin /\ Recent(p2.passed) \subseteq st2.events
  <2>1. st2.events = Stamped(st.events)
    BY <1>3 DEF Events
  <2>2. Recent(p.passed) \subseteq Recent(st.events)
    BY <1>3 DEF PassedInv, Recent
  <2>3. CASE exceeded
    <3>1. p2.passed = Recent(p.passed) /\ Cardinality(p.passed) <= RateLimitPerMin
      BY <1>3, <2>3 DEF PassedInv
    <3>2. Cardinality(p2.passed) <= Cardinality(p.passed)
      BY <1>1, <3>1, StampedIsWindow
    <3>3. Cardinality(p2.passed) \in Nat /\ Cardinality(p.passed) \in Nat
      BY <1>1, <1>2, FS_CardinalityType DEF IsWindow
    <3>4. Recent(p2.passed) \subseteq st2.events
      BY <2>1, <2>2, <3>1 DEF Recent, Stamped
    <3>. QED  BY <3>1, <3>2, <3>3, <3>4, GuardrailsAssumption
  <2>4. CASE ~exceeded
    <3>1. p2.passed = Stamped(p.passed)
      BY <2>4
    <3>2. p2.passed \in SUBSET st2.events
      <4>1. Stamped(p.passed) \subseteq Stamped(st.events)
        BY <2>2 DEF Stamped
      <4>. QED  BY <2>1, <3>1, <4>1
    <3>3. Cardinality(st2.events) \in Nat /\ Cardinality(st2.events) <= RateLimitPerMin
      <4>1. Cardinality(st2.events) \in Nat
        BY <1>2, FS_CardinalityType DEF IsWindow
      <4>2. ~(Cardinality(st2.events) > RateLimitPerMin)
        BY <1>3, <2>4, Zenon
      <4>. QED  BY <4>1, <4>2, GuardrailsAssumption
    <3>4. Cardinality(p2.passed) \in Nat /\ Cardinality(p2.passed) <= Cardinality(st2.events)
      BY <1>2, <3>2, LessIsSmaller DEF IsWindow
    <3>5. Recent(p2.passed) \subseteq st2.events
      BY <3>2 DEF Recent
    <3>. QED  BY <3>3, <3>4, <3>5, GuardrailsAssumption
  <2>. QED  BY <2>3, <2>4
<1>. QED  BY <1>2, <1>3 DEF PassedInv

\* A subject that is not known has passed nothing.
LEMMA NothingPassed ==
    ASSUME NEW p, p.passed = {}
    PROVE  PassedInv(FreshSubject, p)
<1>1. FreshSubject.events = {}
  BY DEF FreshSubject
<1>2. IsWindow({}) /\ Cardinality({}) = 0 /\ Recent({}) = {}
  BY FS_EmptySet DEF IsWindow, Recent
<1>. QED  BY <1>1, <1>2, GuardrailsAssumption DEF PassedInv

\* Learning does not touch the windows.
LEMMA LearnLockedCounts ==
    \A st, host, fp : learnLocked(st, host, fp).events = st.events
  BY DEF learnLocked

\* Check and Learn keep the count of every subject that stays in the table.
LEMMA TrackerCounts ==
    ASSUME RateInv, now' = now, NEW s, NEW st, NEW p, NEW D \in Remaining(s),
           PassedInv(st, p),
           subjects' = Put(subjects, D, s, st), past' = Put(past, D, s, p)
    PROVE  RateInv'
<1>1. /\ DOMAIN subjects' = D \cup {s} /\ DOMAIN past' = D \cup {s}
      /\ subjects'[s] = st /\ past'[s] = p
      /\ \A x \in D : x # s => subjects'[x] = subjects[x] /\ past'[x] = past[x]
  BY DEF Put
<1>2. D \subseteq DOMAIN subjects
  BY RemainingSubset
<1>3. \A x \in D \cup {s} : PassedInv(subjects'[x], past'[x])
  BY <1>1, <1>2 DEF RateInv
<1>4. \A x \in DOMAIN subjects' : PassedInv(subjects[x], past[x])'
  BY <1>1, <1>3 DEF PassedInv, Recent
<1>. QED  BY <1>1, <1>4 DEF RateInv

\* Check.
LEMMA CheckKeepsRate ==
    ASSUME RateInv, now' = now, NEW s, NEW host, NEW fp, NEW novel \in BOOLEAN,
           NEW exceeded \in BOOLEAN, Check(s, host, fp, novel, exceeded)
    PROVE  RateInv'
<1>. DEFINE seen == s \in DOMAIN subjects
            old == IF seen THEN subjects[s] ELSE FreshSubject
            st == [events |-> Events(old), hosts |-> old.hosts, cmds |-> old.cmds, lastSeen |-> now]
            learned == IF Learns(novel \/ exceeded) THEN learnLocked(st, host, fp) ELSE st
            p == IF seen THEN past[s] ELSE [host |-> host, cmd |-> fp, passed |-> {}]
            q == [host |-> p.host, cmd |-> p.cmd,
                  passed |-> IF exceeded THEN Recent(p.passed) ELSE Stamped(p.passed)]
<1>1. PICK D \in Remaining(s) :
        /\ exceeded = (RateLimitPerMin > 0 /\ Cardinality(st.events) > RateLimitPerMin)
        /\ subjects' = Put(subjects, D, s, learned)
        /\ past' = Put(past, D, s, q)
  BY DEF Check
<1>2. PassedInv(old, p)
  <2>1. CASE seen
    BY <2>1 DEF RateInv
  <2>2. CASE ~seen
    <3>1. old = FreshSubject /\ p.passed = {}
      BY <2>2
    <3>. HIDE DEF old, p
    <3>. QED  BY <3>1, NothingPassed
  <2>. QED  BY <2>1, <2>2
<1>3. st.events = Events(old)
  OBVIOUS
<1>4. q.passed = IF exceeded THEN Recent(p.passed) ELSE Stamped(p.passed)
  OBVIOUS
<1>. HIDE DEF st, q, old, p
<1>5. learned.events = Events(old)
  BY <1>3, LearnLockedCounts
<1>. HIDE DEF learned
<1>6. PassedInv(learned, q)
  BY <1>1, <1>2, <1>3, <1>4, <1>5, CheckCounts DEF RateInv
<1>. QED  BY <1>1, <1>6, TrackerCounts

\* Learn.
LEMMA LearnKeepsRate ==
    ASSUME RateInv, now' = now, NEW s, NEW host, NEW fp, Learn(s, host, fp)
    PROVE  RateInv'
<1>. DEFINE seen == s \in DOMAIN subjects
            old == IF seen THEN subjects[s] ELSE FreshSubject
            st == [events |-> old.events, hosts |-> old.hosts, cmds |-> old.cmds, lastSeen |-> now]
            learned == learnLocked(st, host, fp)
            p == IF seen THEN past[s] ELSE [host |-> NoReq, cmd |-> NoReq, passed |-> {}]
<1>1. PICK D \in Remaining(s) : /\ subjects' = Put(subjects, D, s, learned)
                                /\ past' = Put(past, D, s, p)
  BY DEF Learn
<1>2. PassedInv(old, p)
  <2>1. CASE seen
    BY <2>1 DEF RateInv
  <2>2. CASE ~seen
    <3>1. old = FreshSubject /\ p.passed = {}
      BY <2>2
    <3>. HIDE DEF old, p
    <3>. QED  BY <3>1, NothingPassed
  <2>. QED  BY <2>1, <2>2
<1>3. learned.events = old.events
  BY LearnLockedCounts
<1>. HIDE DEF learned, old, p
<1>4. PassedInv(learned, p)
  BY <1>2, <1>3 DEF PassedInv
<1>. QED  BY <1>1, <1>4, TrackerCounts

\* With enforcement, in no minute more requests of a subject get past the guardrails than
\* the limit, for every limit, number of subjects and order of requests, while the
\* tracker remembers the subject: no matter what is blocked, learned or evicted meanwhile.
THEOREM RateIsKept == Spec => []RatePerMinuteHolds
<1>1. Init => RateInv
  BY DEF Init, LimiterInit, RateInv
<1>2. RateInv /\ [Next]_vars => RateInv'
  <2>. SUFFICES ASSUME RateInv, [Next]_vars PROVE RateInv'
    OBVIOUS
  <2>1. ASSUME UNCHANGED <<subjects, past, now>> PROVE RateInv'
    BY <2>1 DEF RateInv, PassedInv, Recent
  <2>2. ASSUME NEW r \in Reqs, handleSign(r) PROVE RateInv'
    <3>1. now' = now
      BY <2>2 DEF handleSign
    <3>2. UNCHANGED <<subjects, past>>
          \/ \E q \in Asks, novel, exceeded \in BOOLEAN :
                Check(SubjectOf(q), q.host, firstToken(q.command), novel, exceeded)
      BY <2>2 DEF handleSign
    <3>. QED  BY <2>1, <3>1, <3>2, CheckKeepsRate
  <2>3. ASSUME NEW r \in Reqs, learnBehaviorApproval(r) PROVE RateInv'
    <3>1. now' = now
      BY <2>3 DEF learnBehaviorApproval
    <3>2. UNCHANGED <<subjects, past>>
          \/ Learn(SubjectOf(reqs[r].req), reqs[r].req.host, firstToken(reqs[r].req.command))
      BY <2>3 DEF learnBehaviorApproval
    <3>. QED  BY <2>1, <3>1, <3>2, LearnKeepsRate
  <2>4. CASE Restart
    <3>1. DOMAIN subjects' = {} /\ DOMAIN past' = {} /\ now' = now
      BY <2>4 DEF Restart
    <3>. QED  BY <3>1 DEF RateInv
  <2>5. CASE Clock
    <3>1. now' = now + 1 /\ UNCHANGED <<subjects, past>> /\ now \in Nat
      BY <2>5 DEF Clock, Tick, guardVars, RateInv
    <3>2. ASSUME NEW E, IsWindow(E) PROVE Recent(E)' \subseteq Recent(E)
      <4>1. \A e \in E : e.at \in Nat
        BY <3>2 DEF IsWindow
      <4>2. ASSUME NEW t \in Nat, t > (now + 1) - Minute PROVE t > now - Minute
        BY <3>1, <4>2, RateLimiterAssumption
      <4>. QED  BY <3>1, <4>1, <4>2 DEF Recent
    <3>3. \A s \in DOMAIN subjects : PassedInv(subjects[s], past[s])'
      <4>. SUFFICES ASSUME NEW s \in DOMAIN subjects PROVE PassedInv(subjects[s], past[s])'
        OBVIOUS
      <4>1. PICK E, P : E = subjects[s].events /\ P = past[s].passed
        OBVIOUS
      <4>2. /\ IsWindow(E) /\ IsWindow(P)
            /\ RateLimitPerMin > 0 => /\ Cardinality(P) <= RateLimitPerMin
                                      /\ Recent(P) \subseteq E
        BY <4>1 DEF RateInv, PassedInv
      <4>3. Recent(P)' \subseteq Recent(P)
        BY <3>2, <4>2
      <4>4. E = (subjects[s].events)' /\ P = (past[s].passed)'
        BY <3>1, <4>1
      <4>. QED  BY <4>2, <4>3, <4>4 DEF PassedInv, Recent
    <3>. QED  BY <3>1, <3>3 DEF RateInv
  <2>6. ASSUME NEW r \in Reqs, screen(r) \/ forward(r) \/ decide(r) \/ handleResult(r)
        PROVE  RateInv'
    BY <2>1, <2>6 DEF screen, forward, decide, handleResult
  <2>7. CASE (\E key \in Keys : DirectSign(key)) \/ ReloadRate \/ UNCHANGED vars
    BY <2>1, <2>7 DEF DirectSign, ReloadRate, guardVars, vars
  <2>. QED  BY <2>2, <2>3, <2>4, <2>5, <2>6, <2>7 DEF Next
<1>3. RateInv => RatePerMinuteHolds
  <2>. SUFFICES ASSUME RateInv, RateLimitPerMin > 0, NEW s \in DOMAIN subjects
       PROVE  Cardinality(Recent(past[s].passed)) <= RateLimitPerMin
    BY DEF RatePerMinuteHolds
  <2>1. /\ IsWindow(past[s].passed) /\ Cardinality(past[s].passed) <= RateLimitPerMin
        /\ now \in Nat
    BY DEF RateInv, PassedInv
  <2>2. /\ Cardinality(Recent(past[s].passed)) <= Cardinality(past[s].passed)
        /\ Cardinality(Recent(past[s].passed)) \in Nat /\ Cardinality(past[s].passed) \in Nat
    BY <2>1, StampedIsWindow, FS_CardinalityType DEF IsWindow
  <2>. QED  BY <2>1, <2>2, GuardrailsAssumption
<1>. QED  BY <1>1, <1>2, <1>3, PTL DEF Spec
=============================================================================
