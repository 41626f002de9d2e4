----------------------------- MODULE RateLimiter -----------------------------
(***************************************************************************)
(* The signer's token buckets (internal/signer/ratelimit.go), one for each *)
(* authenticated client name, in a table of limited size.  A token is      *)
(* counted as Minute units of credit, so that a refill of perMin/60 tokens *)
(* a second is perMin units a tick and the arithmetic stays whole.         *)
(***************************************************************************)
EXTENDS Integers, FiniteSets

CONSTANTS
    Keys,               \* client names
    maxRateLimitKeys,
    Minute,             \* a minute, in ticks of the clock
    Limits,             \* the values sign_rate_limit_per_min takes
    MaxLimit,           \* the largest of them
    MaxTime,            \* bound: the clock
    NoWindow

ASSUME RateLimiterAssumption ==
    /\ IsFiniteSet(Keys)
    /\ maxRateLimitKeys \in Nat \ {0}
    /\ Minute \in Nat \ {0}
    /\ MaxLimit \in Nat
    /\ Limits \subseteq 0..MaxLimit
    /\ MaxTime \in Nat
    /\ NoWindow \notin [key: Keys, since: Nat, count: Nat]

VARIABLES
    now,
    buckets,
    window      \* history: the requests let through for one key since some moment

limiterVars == <<now, buckets, window>>

Buckets == [tokens: Nat, last: Nat]

LimiterTypeOK ==
    /\ now \in 0..MaxTime
    /\ DOMAIN buckets \subseteq Keys
    /\ buckets \in [DOMAIN buckets -> Buckets]
    /\ window \in [key: Keys, since: Nat, count: Nat] \cup {NoWindow}

LimiterInit ==
    /\ now = 0
    /\ buckets = [k \in {} |-> [tokens |-> 0, last |-> 0]]
    /\ window = NoWindow

Tick ==
    /\ now < MaxTime
    /\ now' = now + 1
    /\ UNCHANGED <<buckets, window>>

-----------------------------------------------------------------------------
(* Room for a new key.                                                     *)

AtBound(D) == Cardinality(D) >= maxRateLimitKeys

\* What prune leaves.
prune == {k \in DOMAIN buckets : now - buckets[k].last <= Minute}

\* What evictOldest may pick: the order in which a Go map is walked decides between equals.
Oldest(D) == {k \in D : \A x \in D : buckets[k].last <= buckets[x].last}

\* The keys that may be evicted to make room for key; none, where there is room.
Evictable(key) ==
    IF key \notin DOMAIN buckets /\ AtBound(DOMAIN buckets) /\ AtBound(prune)
    THEN {{k} : k \in Oldest(prune)}
    ELSE {{}}

\* The keys that stay in the table.
StillThere(key, evicted) ==
    IF key \notin DOMAIN buckets /\ AtBound(DOMAIN buckets) THEN prune \ evicted
    ELSE DOMAIN buckets

-----------------------------------------------------------------------------
(* Allow.                                                                  *)

\* What a bucket holds now.
Refilled(b, perMin) ==
    LET full == perMin * Minute
        t == b.tokens + (now - b.last) * perMin
    IN IF t > full THEN full ELSE t

\* A new bucket is full.
BucketOf(key, perMin) ==
    IF key \in DOMAIN buckets THEN buckets[key]
    ELSE [tokens |-> perMin * Minute, last |-> now]

\* One call; the limit comes with it, ok is its answer.
Allow(key, perMin, ok) ==
    \/ perMin = 0 /\ ok /\ UNCHANGED <<buckets, window>>
    \/ /\ perMin > 0
       /\ \E evicted \in Evictable(key) :
            LET t == Refilled(BucketOf(key, perMin), perMin)
                rest == StillThere(key, evicted)
            IN /\ ok = (t >= Minute)
               /\ buckets' = [k \in rest \cup {key} |->
                                 IF k = key
                                 THEN [tokens |-> IF ok THEN t - Minute ELSE t, last |-> now]
                                 ELSE buckets[k]]
               /\ window' = CASE window = NoWindow -> NoWindow
                              [] window # NoWindow /\ window.key \in evicted -> NoWindow
                              [] window # NoWindow /\ window.key = key /\ ok ->
                                    [window EXCEPT !.count = window.count + 1]
                              [] OTHER -> window

\* Somebody begins to count the requests let through for a key.
Observe(key) ==
    /\ window = NoWindow
    /\ window' = [key |-> key, since |-> now, count |-> 0]
    /\ UNCHANGED <<now, buckets>>

LimiterNext ==
    \/ Tick
    \/ \E key \in Keys : Observe(key)
    \/ \E key \in Keys, perMin \in Limits, ok \in BOOLEAN :
          Allow(key, perMin, ok) /\ UNCHANGED now

LimiterSpec == LimiterInit /\ [][LimiterNext]_limiterVars

-----------------------------------------------------------------------------
(* Properties.                                                             *)

\* From whatever moment one counts, a key gets through at most a minute's budget and the
\* limit's share of the time since, whatever is pruned and however the limit changes below
\* MaxLimit; only a key that evictOldest dropped starts again.
RateHolds ==
    window # NoWindow =>
        window.count * Minute <= MaxLimit * (Minute + (now - window.since))

\* The table of buckets never outgrows its limit.
BucketsBounded == Cardinality(DOMAIN buckets) <= maxRateLimitKeys
=============================================================================
