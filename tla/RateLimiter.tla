---------------------------- MODULE RateLimiter ----------------------------
(***************************************************************************)
(* The token buckets of the HTTP API (internal/adapters/httpapi,           *)
(* ratelimit.go): refilled when they are used, evicted when they are idle, *)
(* forgotten all at once when there are too many.  An instant is a second, *)
(* and a token is counted in fractions, so that a rate may be any number   *)
(* of tokens per minute.                                                   *)
(***************************************************************************)
EXTENDS Integers, FiniteSets

CONSTANTS
    Keys,          \* callers, per endpoint class
    Unit,          \* fractions of a token that make one
    Cap,           \* Policy.Burst, in fractions
    Rate,          \* Policy.PerMinute, in fractions per instant
    MaxTracked,    \* maxEntries
    SweepInterval, \* bucketSweepInterval
    IdleTTL,       \* bucketIdleTTL
    MaxLag,        \* bound of the model: instants between reading the clock and the lock
    None,
    MaxNow         \* bound of the model: the last instant

\* A bucket that is evicted for idleness would be full by then: of the default policies
\* the slowest fills in half a minute, a contracted rate fills its burst in a minute, and
\* an idle bucket is kept for ten.
ASSUME RateLimiterAssumption ==
    /\ {Unit, Cap, Rate, SweepInterval} \subseteq Nat \ {0}
    /\ {MaxTracked, IdleTTL, MaxLag, MaxNow} \subseteq Nat
    /\ Unit <= Cap
    /\ Cap <= Rate * IdleTTL
    /\ IsFiniteSet(Keys)
    /\ None \notin Int /\ None \notin [tokens : Int, seen : Int]

VARIABLES
    now,
    bucket,     \* tokens and lastSeen of every tracked caller, None of the others
    lastSweep,
    \* history: who has asked since the map was last replaced, and the instant a refused
    \* caller was told to come back
    asked, promise

vars == <<now, bucket, lastSweep, asked, promise>>

Instants == 0..MaxNow
Bucket == [tokens : 0..Cap, seen : Instants]

TypeOK ==
    /\ now \in Instants
    /\ bucket \in [Keys -> Bucket \union {None}]
    /\ lastSweep \in Int /\ lastSweep <= now
    /\ asked \subseteq Keys
    /\ promise \in [Keys -> Nat \union {None}]

Init ==
    /\ now = 0
    /\ bucket = [k \in Keys |-> None]
    /\ lastSweep = -SweepInterval
    /\ asked = {}
    /\ promise = [k \in Keys |-> None]

Least(a, b) == IF a <= b THEN a ELSE b

Tracked(buckets) == {k \in Keys : buckets[k] # None}

\* Mutation: a bucket that is idle is evicted although it may not be full yet.
SweepIdleSoon(buckets, at) ==
    [k \in Keys |-> IF buckets[k] = None THEN None
                    ELSE IF at - buckets[k].seen > 0 THEN None ELSE buckets[k]]

\* Idle buckets are evicted.
SweepIdle(buckets, at) ==
    [k \in Keys |-> IF buckets[k] = None THEN None
                    ELSE IF at - buckets[k].seen > IdleTTL THEN None ELSE buckets[k]]

SweepDue(at) ==
    \/ Cardinality(Tracked(bucket)) > MaxTracked
    \/ at - lastSweep >= SweepInterval

\* Still too many callers: the map is replaced, and everyone has a full bucket again.
Replaces(at) == SweepDue(at) /\ Cardinality(Tracked(SweepIdle(bucket, at))) > MaxTracked

Swept(at) ==
    IF Replaces(at) THEN [k \in Keys |-> None]
    ELSE IF SweepDue(at) THEN SweepIdle(bucket, at) ELSE bucket

\* What a bucket holds at an instant; one that lies before its last use adds nothing.
Refilled(b, at) ==
    IF b = None THEN Cap ELSE IF at <= b.seen THEN b.tokens
    ELSE Least(Cap, b.tokens + (at - b.seen) * Rate)

Ceiling(a, b) == (a + b - 1) \div b

\* Mutation: the wait is rounded down.
RetryAfterRoundedDown(tokens) ==
    IF (Unit - tokens) \div Rate < 1 THEN 1 ELSE (Unit - tokens) \div Rate

\* Retry-After: instants until a whole token is there, one at least.
RetryAfter(tokens) ==
    IF Ceiling(Unit - tokens, Rate) < 1 THEN 1 ELSE Ceiling(Unit - tokens, Rate)

\* A request is stamped before it takes the lock, so requests may be served in another
\* order than they were stamped, and lastSeen and lastSweep may move back.
Allow(k, at) ==
    LET tokens == Refilled(Swept(at)[k], at)
        grant == tokens >= Unit
    IN  /\ bucket' = [Swept(at) EXCEPT ![k] =
               [tokens |-> IF grant THEN tokens - Unit ELSE tokens, seen |-> at]]
        /\ lastSweep' = IF SweepDue(at) THEN at ELSE lastSweep
        /\ asked' = IF Replaces(at) THEN {k} ELSE asked \union {k}
        /\ promise' = [promise EXCEPT ![k] =
               IF grant THEN None ELSE now + RetryAfter(tokens)]
        /\ UNCHANGED now

\* Bound of the model: the clock stops at MaxNow, and so do the requests it could admit.
Tick ==
    /\ now < MaxNow
    /\ now' = now + 1
    /\ UNCHANGED <<bucket, lastSweep, asked, promise>>

Stamps == {at \in Instants : now - MaxLag <= at /\ at <= now}

Next == Tick \/ \E k \in Keys, at \in Stamps : Allow(k, at)

Spec == Init /\ [][Next]_vars

-----------------------------------------------------------------------------
(***************************************************************************)
(* Properties.                                                             *)
(***************************************************************************)

Level == [k \in Keys |-> Refilled(bucket[k], now)]

Buckets == INSTANCE TokenBucket WITH level <- Level, Slack <- MaxLag * Rate

\* Lazy refills, evictions and sweeps are not seen: the limiter allows what buckets that
\* fill steadily and are never evicted would allow, but for what flows in during the lag
\* of a request, and except that a flood of callers may refill them all (ratelimit.go: "That deliberately fails open for one interval").
ImplementsBuckets == Buckets!Spec

\* A caller that was refused, and that asks for nothing until the Retry-After it was told
\* has passed, then finds a whole token.
RetryAfterIsEnough ==
    \A k \in Keys : promise[k] # None /\ promise[k] <= now => Level[k] >= Unit
=============================================================================
