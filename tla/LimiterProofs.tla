--------------------------- MODULE LimiterProofs ---------------------------
(***************************************************************************)
(* Proofs about RateLimiter, for any callers, capacity, rate, bound on the *)
(* map and delay between the clock and the lock: lazy refills, evictions   *)
(* and the replacement of the whole map keep the promise of a bucket that  *)
(* fills steadily, and Retry-After is enough.                              *)
(***************************************************************************)
EXTENDS RateLimiter, FiniteSetTheorems, TLAPS

Tracks == [tokens : 0 .. Cap, seen : Nat]

Typed ==
    /\ now \in Nat
    /\ bucket \in [Keys -> Tracks \union {None}]
    /\ \A k \in Keys : bucket[k] # None => bucket[k].seen <= now
    /\ asked \subseteq Keys
    /\ Tracked(bucket) \subseteq asked
    /\ promise \in [Keys -> Nat \union {None}]

-----------------------------------------------------------------------------
(***************************************************************************)
(* Arithmetic.                                                             *)
(***************************************************************************)

LEMMA Constants ==
    /\ Unit \in Nat /\ Unit > 0 /\ Cap \in Nat /\ Cap > 0 /\ Rate \in Nat /\ Rate > 0
    /\ IdleTTL \in Nat /\ MaxLag \in Nat /\ MaxNow \in Nat /\ MaxTracked \in Nat
    /\ Unit <= Cap /\ Cap <= Rate * IdleTTL
BY RateLimiterAssumption

\* What flows in during a time.
Flow(n) == n * Rate

LEMMA FlowIs ==
    ASSUME NEW n \in Int
    PROVE  /\ Flow(n) \in Int
           /\ n >= 0 => Flow(n) >= 0
           /\ n = 0 => Flow(n) = 0
           /\ n = 1 => Flow(n) = Rate
<1>1. Rate \in Int /\ Rate > 0
    BY Constants
<1> QED
    BY <1>1 DEF Flow

LEMMA FlowsOn ==
    ASSUME NEW a \in Int, NEW b \in Int, NEW c \in Int
    PROVE  /\ c = a + b => Flow(c) = Flow(a) + Flow(b)
           /\ a <= b => Flow(a) <= Flow(b)
<1>1. Rate \in Int /\ Rate > 0
    BY Constants
<1> QED
    BY <1>1 DEF Flow

\* A quotient that is rounded up is enough.
LEMMA CeilingIsEnough ==
    ASSUME NEW a \in Int
    PROVE  Ceiling(a, Rate) \in Int /\ Ceiling(a, Rate) * Rate >= a
<1>1. Rate \in Int /\ Rate > 0
    BY Constants
<1> DEFINE x == a + Rate - 1
<1> DEFINE q == x \div Rate
<1>2. q \in Int /\ x = Rate * q + (x % Rate) /\ 0 <= x % Rate /\ x % Rate < Rate
    BY <1>1
<1> QED
    BY <1>1, <1>2 DEF Ceiling

-----------------------------------------------------------------------------
(***************************************************************************)
(* What a bucket holds.                                                    *)
(***************************************************************************)

LEMMA RefilledIs ==
    ASSUME NEW b \in Tracks \union {None}, NEW t \in Int
    PROVE  /\ Refilled(b, t) \in 0 .. Cap
           /\ b = None => Refilled(b, t) = Cap
           /\ b # None => /\ b \in Tracks /\ b.tokens \in 0 .. Cap /\ b.seen \in Nat
                          /\ t <= b.seen => Refilled(b, t) = b.tokens
                          /\ b.seen <= t =>
                               Refilled(b, t) = Least(Cap, b.tokens + Flow(t - b.seen))
<1>1. Cap \in Nat
    BY Constants
<1>2. CASE b = None
    BY <1>1, <1>2 DEF Refilled
<1>3. CASE b # None
    <2>1. b \in Tracks /\ b.tokens \in 0 .. Cap /\ b.seen \in Nat
        BY <1>3 DEF Tracks
    <2>2. PICK d \in Int : d = t - b.seen
        BY <2>1
    <2>3. Flow(d) \in Int /\ (d >= 0 => Flow(d) >= 0) /\ (d = 0 => Flow(d) = 0)
        BY FlowIs
    <2>4. Refilled(b, t) = IF t <= b.seen THEN b.tokens ELSE Least(Cap, b.tokens + Flow(d))
        BY <1>3, <2>2 DEF Refilled, Flow
    <2>5. CASE t <= b.seen
        <3>1. Refilled(b, t) = b.tokens /\ (b.seen <= t => d = 0)
            BY <2>1, <2>2, <2>4, <2>5
        <3>2. d = 0 => Least(Cap, b.tokens + Flow(d)) = b.tokens
            BY <1>1, <2>1, <2>3 DEF Least
        <3> QED
            BY <1>3, <2>1, <2>2, <3>1, <3>2
    <2>6. CASE ~(t <= b.seen)
        <3>1. Refilled(b, t) = Least(Cap, b.tokens + Flow(d)) /\ d >= 0
            BY <2>1, <2>2, <2>4, <2>6
        <3>2. Least(Cap, b.tokens + Flow(d)) \in 0 .. Cap
            BY <1>1, <2>1, <2>3, <3>1 DEF Least
        <3> QED
            BY <1>3, <2>1, <2>2, <2>6, <3>1, <3>2
    <2> QED
        BY <2>5, <2>6
<1> QED
    BY <1>2, <1>3

\* Time adds what flows in, and takes nothing away.
LEMMA RefilledLater ==
    ASSUME NEW b \in Tracks \union {None}, NEW s \in Int, NEW t \in Int, s <= t,
           NEW d \in Int, d = t - s
    PROVE  /\ Refilled(b, s) <= Refilled(b, t)
           /\ Refilled(b, t) <= Refilled(b, s) + Flow(d)
<1>1. /\ Refilled(b, s) \in 0 .. Cap /\ Refilled(b, t) \in 0 .. Cap /\ Cap \in Nat
      /\ Flow(d) \in Int /\ Flow(d) >= 0
    BY RefilledIs, Constants, FlowIs
<1>2. CASE b = None
    <2>1. Refilled(b, s) = Cap /\ Refilled(b, t) = Cap
        BY <1>2 DEF Refilled
    <2> QED
        BY <1>1, <2>1
<1>3. CASE b # None
    <2>1. b.tokens \in 0 .. Cap /\ b.seen \in Nat
        BY <1>3, RefilledIs
    <2>2. PICK x \in Int, y \in Int : x = s - b.seen /\ y = t - b.seen
        BY <2>1
    <2>3. /\ Flow(x) \in Int /\ Flow(y) \in Int
          /\ (x >= 0 => Flow(x) >= 0) /\ (y >= 0 => Flow(y) >= 0)
          /\ Flow(y) = Flow(x) + Flow(d)
          /\ (y <= d => Flow(y) <= Flow(d))
        <3>1. y = x + d
            BY <2>1, <2>2
        <3> QED
            BY <3>1, FlowIs, FlowsOn
    <2>4. CASE t <= b.seen
        BY <1>1, <1>3, <2>1, <2>4, RefilledIs
    <2>5. CASE s <= b.seen /\ b.seen <= t
        <3>1. Refilled(b, s) = b.tokens /\ Refilled(b, t) = Least(Cap, b.tokens + Flow(y))
            BY <1>3, <2>2, <2>5, RefilledIs
        <3>2. y >= 0 /\ y <= d
            BY <2>1, <2>2, <2>5
        <3> QED
            BY <1>1, <2>1, <2>3, <3>1, <3>2 DEF Least
    <2>6. CASE b.seen <= s
        <3>1. b.seen <= t /\ x >= 0
            BY <2>1, <2>2, <2>6
        <3>2. /\ Refilled(b, s) = Least(Cap, b.tokens + Flow(x))
              /\ Refilled(b, t) = Least(Cap, b.tokens + Flow(y))
            BY <1>3, <2>2, <2>6, <3>1, RefilledIs
        <3> QED
            BY <1>1, <2>1, <2>3, <3>1, <3>2 DEF Least
    <2> QED
        BY <2>1, <2>4, <2>5, <2>6
<1> QED
    BY <1>2, <1>3

\* One instant is one more Rate.
LEMMA RefilledNext ==
    ASSUME NEW b \in Tracks \union {None}, NEW t \in Int, b # None => b.seen <= t
    PROVE  Refilled(b, t + 1) = Least(Cap, Refilled(b, t) + Rate)
<1>1. Cap \in Nat /\ Rate \in Nat /\ Rate > 0
    BY Constants
<1>2. CASE b = None
    BY <1>1, <1>2, RefilledIs DEF Least
<1>3. CASE b # None
    <2>1. b.tokens \in 0 .. Cap /\ b.seen \in Nat /\ b.seen <= t /\ b.seen <= t + 1
        BY <1>3, RefilledIs
    <2>2. PICK x \in Int, y \in Int : x = t - b.seen /\ y = (t + 1) - b.seen
        BY <2>1
    <2>3. Flow(x) \in Int /\ Flow(y) = Flow(x) + Rate
        <3>1. y = x + 1 /\ 1 \in Int
            BY <2>1, <2>2
        <3> QED
            BY <3>1, FlowIs, FlowsOn
    <2>4. /\ Refilled(b, t) = Least(Cap, b.tokens + Flow(x))
          /\ Refilled(b, t + 1) = Least(Cap, b.tokens + Flow(y))
        BY <1>3, <2>1, <2>2, RefilledIs
    <2> QED
        BY <1>1, <2>1, <2>3, <2>4 DEF Least
<1> QED
    BY <1>2, <1>3

-----------------------------------------------------------------------------
(***************************************************************************)
(* Sweeps.                                                                 *)
(***************************************************************************)

LEMMA TracksAreRecords == None \notin Tracks
BY RateLimiterAssumption DEF Tracks

\* Eviction takes nothing but full buckets: by the time a bucket is idle it is full.
LEMMA SweptIs ==
    ASSUME Typed, NEW at \in Int, at <= now, NEW k \in Keys
    PROVE  /\ Swept(at)[k] \in Tracks \union {None}
           /\ Swept(at)[k] # None => Swept(at)[k].seen <= now
           /\ ~Replaces(at) => Refilled(Swept(at)[k], now) = Refilled(bucket[k], now)
           /\ Replaces(at) => Swept(at)[k] = None
           /\ Swept(at)[k] # None => ~Replaces(at) /\ Swept(at)[k] = bucket[k]
<1>1. bucket[k] \in Tracks \union {None} /\ now \in Int
      /\ (bucket[k] # None => bucket[k].seen <= now)
    BY DEF Typed
<1>2. Swept(at)[k] \in {bucket[k], None} /\ (Replaces(at) => Swept(at)[k] = None)
    BY DEF Swept, SweepIdle
<1>3. ASSUME ~Replaces(at), Swept(at)[k] # bucket[k]
      PROVE  Refilled(Swept(at)[k], now) = Refilled(bucket[k], now)
    <2>1. /\ Swept(at)[k] = None /\ bucket[k] # None
          /\ at - bucket[k].seen > IdleTTL
        BY <1>3 DEF Swept, SweepIdle
    <2>2. bucket[k].tokens \in 0 .. Cap /\ bucket[k].seen \in Nat /\ bucket[k].seen <= now
        BY <1>1, <2>1, RefilledIs
    <2>3. PICK d \in Int : d = now - bucket[k].seen
        BY <1>1, <2>2
    <2>4. IdleTTL \in Int /\ Cap \in Nat /\ IdleTTL <= d
        BY <1>1, <2>1, <2>2, <2>3, Constants
    <2>5. Flow(d) \in Int /\ Flow(IdleTTL) <= Flow(d) /\ Cap <= Flow(IdleTTL)
        BY <2>4, FlowIs, FlowsOn, Constants DEF Flow
    <2>6. Flow(IdleTTL) \in Int
        BY <2>4, FlowIs
    <2>7. Refilled(bucket[k], now) = Least(Cap, bucket[k].tokens + Flow(d))
        BY <1>1, <2>1, <2>2, <2>3, RefilledIs
    <2>8. Least(Cap, bucket[k].tokens + Flow(d)) = Cap
        BY <2>2, <2>4, <2>5, <2>6 DEF Least
    <2> QED
        BY <1>1, <2>1, <2>7, <2>8, RefilledIs
<1> QED
    BY <1>1, <1>2, <1>3

\* Whoever is tracked has asked, so the map is replaced only after many have.
LEMMA ReplacedForMany ==
    ASSUME Typed, NEW at \in Int, Replaces(at)
    PROVE  Cardinality(asked) > MaxTracked
<1>1. Tracked(SweepIdle(bucket, at)) \subseteq asked
    BY DEF Typed, Tracked, SweepIdle
<1>2. IsFiniteSet(asked) /\ Cardinality(asked) \in Nat
    BY RateLimiterAssumption, FS_Subset, FS_CardinalityType DEF Typed
<1>3. /\ Cardinality(Tracked(SweepIdle(bucket, at))) \in Nat
      /\ Cardinality(Tracked(SweepIdle(bucket, at))) <= Cardinality(asked)
    BY <1>1, <1>2, FS_Subset, FS_CardinalityType
<1> QED
    BY <1>2, <1>3, Constants DEF Replaces

-----------------------------------------------------------------------------
(***************************************************************************)
(* A request.                                                              *)
(***************************************************************************)

\* What Allow leaves in the bucket of the caller.
Left(k, at) ==
    LET tokens == Refilled(Swept(at)[k], at)
    IN  [tokens |-> IF tokens >= Unit THEN tokens - Unit ELSE tokens, seen |-> at]

LEMMA AllowIs ==
    ASSUME Typed, NEW k \in Keys, NEW at \in Stamps, Allow(k, at)
    PROVE  /\ at \in Nat /\ at <= now /\ now' = now
           /\ Left(k, at) \in Tracks /\ Left(k, at).seen = at
           /\ bucket' \in [Keys -> Tracks \union {None}]
           /\ bucket'[k] = Left(k, at)
           /\ \A j \in Keys \ {k} : bucket'[j] = Swept(at)[j]
           /\ asked' = IF Replaces(at) THEN {k} ELSE asked \union {k}
<1>1. at \in Nat /\ at <= now /\ now \in Nat
    BY DEF Stamps, Instants, Typed
<1>2. \A j \in Keys : Swept(at)[j] \in Tracks \union {None}
    BY <1>1, SweptIs
<1>3. Swept(at) = [j \in Keys |-> Swept(at)[j]]
    BY DEF Swept, SweepIdle, Typed
<1>4. Refilled(Swept(at)[k], at) \in 0 .. Cap
    BY <1>1, <1>2, RefilledIs
<1>5. Left(k, at) \in Tracks /\ Left(k, at).seen = at
    BY <1>1, <1>4, Constants DEF Left, Tracks
<1>6. bucket' = [Swept(at) EXCEPT ![k] = Left(k, at)]
    BY DEF Allow, Left
<1>7. /\ bucket' \in [Keys -> Tracks \union {None}]
      /\ bucket'[k] = Left(k, at)
      /\ \A j \in Keys \ {k} : bucket'[j] = Swept(at)[j]
    BY <1>2, <1>3, <1>5, <1>6
<1> QED
    BY <1>1, <1>5, <1>7 DEF Allow

LEMMA TypedInit == Init => Typed
BY RateLimiterAssumption DEF Init, Typed, Tracked

LEMMA TypedStep == Typed /\ [Next]_vars => Typed'
<1> SUFFICES ASSUME Typed, [Next]_vars PROVE Typed'
    OBVIOUS
<1>1. CASE Tick
    BY <1>1, RefilledIs DEF Tick, Typed
<1>2. ASSUME NEW k \in Keys, NEW at \in Stamps, Allow(k, at) PROVE Typed'
    <2>1. /\ at \in Nat /\ at <= now /\ now' = now
          /\ Left(k, at) \in Tracks /\ Left(k, at).seen = at
          /\ bucket' \in [Keys -> Tracks \union {None}]
          /\ bucket'[k] = Left(k, at)
          /\ \A j \in Keys \ {k} : bucket'[j] = Swept(at)[j]
          /\ asked' = IF Replaces(at) THEN {k} ELSE asked \union {k}
        BY <1>2, AllowIs
    <2>2. \A j \in Keys : bucket'[j] # None => bucket'[j].seen <= now'
        BY <2>1, SweptIs
    <2>3. Tracked(bucket)' \subseteq asked'
        <3> SUFFICES ASSUME NEW j \in Keys, bucket'[j] # None PROVE j \in asked'
            BY DEF Tracked
        <3>1. CASE j = k
            BY <2>1, <3>1
        <3>2. CASE j # k
            <4>1. ~Replaces(at) /\ Swept(at)[j] = bucket[j] /\ bucket[j] # None
                BY <2>1, <3>2, SweptIs
            <4> QED
                BY <2>1, <4>1 DEF Typed, Tracked
        <3> QED
            BY <3>1, <3>2
    <2>4. promise' \in [Keys -> Nat \union {None}]
        <3> DEFINE tokens == Refilled(Swept(at)[k], at)
        <3>1. tokens \in 0 .. Cap
            BY <2>1, SweptIs, RefilledIs
        <3>2. RetryAfter(tokens) \in Nat
            <4>1. Unit - tokens \in Int
                BY <3>1, Constants
            <4> HIDE DEF tokens
            <4>2. Ceiling(Unit - tokens, Rate) \in Int
                BY <4>1, CeilingIsEnough
            <4> QED
                BY <4>2 DEF RetryAfter
        <3>3. promise' = [promise EXCEPT ![k] =
                            IF tokens >= Unit THEN None ELSE now + RetryAfter(tokens)]
            BY <1>2 DEF Allow
        <3> HIDE DEF tokens
        <3> QED
            BY <3>2, <3>3 DEF Typed
    <2> QED
        BY <2>1, <2>2, <2>3, <2>4 DEF Typed
<1>3. CASE UNCHANGED vars
    BY <1>3 DEF vars, Typed, Tracked
<1> QED
    BY <1>1, <1>2, <1>3 DEF Next

-----------------------------------------------------------------------------
(***************************************************************************)
(* Retry-After.                                                            *)
(***************************************************************************)

\* A promise looks ahead, so it is kept for the instant it names.
Promised == \A k \in Keys : promise[k] # None => Refilled(bucket[k], promise[k]) >= Unit

LEMMA PromisedStep == Typed /\ Promised /\ [Next]_vars => Promised'
<1> SUFFICES ASSUME Typed, Promised, [Next]_vars PROVE Promised'
    OBVIOUS
<1>1. CASE Tick \/ UNCHANGED vars
    BY <1>1 DEF Tick, vars, Promised
<1>2. ASSUME NEW k \in Keys, NEW at \in Stamps, Allow(k, at) PROVE Promised'
    <2> DEFINE tokens == Refilled(Swept(at)[k], at)
    <2> DEFINE wait == RetryAfter(tokens)
    <2>1. /\ at \in Nat /\ at <= now /\ now' = now
          /\ Left(k, at) \in Tracks /\ Left(k, at).seen = at
          /\ bucket'[k] = Left(k, at)
          /\ \A j \in Keys \ {k} : bucket'[j] = Swept(at)[j]
        BY <1>2, AllowIs
    <2>2. promise' = [promise EXCEPT ![k] = IF tokens >= Unit THEN None ELSE now + wait]
        BY <1>2 DEF Allow
    <2>3. tokens \in 0 .. Cap
        BY <2>1, SweptIs, RefilledIs
    <2>4. Left(k, at).tokens = IF tokens >= Unit THEN tokens - Unit ELSE tokens
        BY DEF Left
    <2>5. ASSUME NEW j \in Keys \ {k}, promise'[j] # None
          PROVE  Refilled(bucket'[j], promise'[j]) >= Unit
        <3>1. promise'[j] = promise[j] /\ bucket'[j] \in {bucket[j], None} /\ promise[j] \in Nat
            BY <2>1, <2>2, <2>5, SweptIs DEF Typed
        <3>2. Refilled(None, promise[j]) >= Unit
            BY Constants DEF Refilled
        <3> QED
            BY <2>5, <3>1, <3>2 DEF Promised
    <2>6. ASSUME promise'[k] # None PROVE Refilled(bucket'[k], promise'[k]) >= Unit
        <3>1. tokens < Unit /\ promise'[k] = now + wait
            BY <2>2, <2>3, <2>6, Constants DEF Typed
        <3>2. PICK short \in Int : short = Unit - tokens
            BY <2>3, Constants
        <3> HIDE DEF tokens
        <3>3. Ceiling(short, Rate) \in Int /\ Flow(Ceiling(short, Rate)) >= short
            BY CeilingIsEnough DEF Flow
        <3>4. wait \in Nat /\ wait >= Ceiling(short, Rate)
            BY <3>2, <3>3 DEF RetryAfter
        <3> HIDE DEF wait
        <3>5. PICK d \in Int : d = (now + wait) - at
            BY <2>1, <3>4 DEF Typed
        <3>6. d >= Ceiling(short, Rate) /\ at <= now + wait /\ now + wait \in Int
            BY <2>1, <3>3, <3>4, <3>5 DEF Typed
        <3>7. Flow(d) \in Int /\ Flow(Ceiling(short, Rate)) \in Int
              /\ Flow(Ceiling(short, Rate)) <= Flow(d)
            BY <3>3, <3>6, FlowIs, FlowsOn
        <3>8. Left(k, at) # None
            BY <2>1, TracksAreRecords
        <3>9. Refilled(Left(k, at), now + wait) = Least(Cap, Left(k, at).tokens + Flow(d))
            BY <2>1, <3>5, <3>6, <3>8, RefilledIs
        <3>10. Left(k, at).tokens = tokens
            BY <2>3, <2>4, <3>1, Constants
        <3>11. Least(Cap, tokens + Flow(d)) >= Unit
            BY <2>3, <3>2, <3>3, <3>7, Constants DEF Least
        <3> QED
            BY <2>1, <3>1, <3>9, <3>10, <3>11
    <2> QED
        BY <2>5, <2>6 DEF Promised
<1> QED
    BY <1>1, <1>2 DEF Next

\* A caller that waits as long as it was told finds a whole token, whatever is swept in the
\* meantime and however late its request gets the lock (ratelimit.go: allow).
THEOREM RetryAfterSuffices == Spec => []RetryAfterIsEnough
<1>1. Init => Promised
    BY DEF Init, Promised
<1>2. Typed /\ Promised => RetryAfterIsEnough
    <2> SUFFICES ASSUME Typed, Promised, NEW k \in Keys, promise[k] # None, promise[k] <= now
                 PROVE  Level[k] >= Unit
        BY DEF RetryAfterIsEnough
    <2>1. promise[k] \in Int /\ now \in Int /\ bucket[k] \in Tracks \union {None}
        BY DEF Typed
    <2>2. PICK d \in Int : d = now - promise[k]
        BY <2>1
    <2>3. /\ Refilled(bucket[k], promise[k]) <= Refilled(bucket[k], now)
          /\ Refilled(bucket[k], promise[k]) \in 0 .. Cap /\ Refilled(bucket[k], now) \in 0 .. Cap
        BY <2>1, <2>2, RefilledLater, RefilledIs
    <2>4. Refilled(bucket[k], promise[k]) >= Unit
        BY DEF Promised
    <2> QED
        BY <2>3, <2>4, Constants DEF Level
<1> QED
    BY TypedInit, TypedStep, <1>1, PromisedStep, <1>2, PTL DEF Spec

-----------------------------------------------------------------------------
(***************************************************************************)
(* The refinement.                                                         *)
(***************************************************************************)

LEMMA LevelInit == Init => Buckets!Init
BY DEF Init, Buckets!Init, Buckets!Full, Level, Refilled

LEMMA LevelTick == Typed /\ Tick => Buckets!Fill
<1> SUFFICES ASSUME Typed, Tick PROVE Buckets!Fill
    OBVIOUS
<1>1. ASSUME NEW k \in Keys PROVE Level'[k] = Buckets!Least(Cap, Level[k] + Rate)
    <2>1. Refilled(bucket[k], now + 1) = Least(Cap, Refilled(bucket[k], now) + Rate)
        BY RefilledNext DEF Typed
    <2> QED
        BY <2>1 DEF Tick, Level, Least, Buckets!Least, Refilled
<1>2. Level' = [k \in Keys |-> Level'[k]]
    BY DEF Level
<1> QED
    BY <1>1, <1>2 DEF Tick, Buckets!Fill

\* The buckets a request finds, at the present instant: all full if the map was replaced.
Found(at) == IF Replaces(at) THEN Buckets!Full ELSE Level

\* The bucket was read at the request's stamp, which may lie back by MaxLag instants: what
\* flows in meanwhile is the slack.
LEMMA LevelServe ==
    ASSUME Typed, NEW k \in Keys, NEW at \in Stamps, Allow(k, at)
    PROVE  Buckets!Serve(k, Found(at))
<1> DEFINE b == Swept(at)[k]
<1> DEFINE tokens == Refilled(b, at)
<1> DEFINE level == Refilled(b, now)
<1> DEFINE after == Refilled(Left(k, at), now)
<1>1. /\ at \in Nat /\ at <= now /\ now' = now /\ now \in Nat
      /\ Left(k, at) \in Tracks /\ Left(k, at).seen = at
      /\ bucket'[k] = Left(k, at)
      /\ \A j \in Keys \ {k} : bucket'[j] = Swept(at)[j]
    BY AllowIs DEF Typed
<1>2. ASSUME NEW j \in Keys PROVE Found(at)[j] = Refilled(Swept(at)[j], now)
    BY <1>1, SweptIs DEF Found, Level, Buckets!Full, Refilled
<1>3. PICK d \in Int : d = now - at
    BY <1>1
<1>4. MaxLag \in Int /\ d >= 0 /\ d <= MaxLag
    BY <1>1, <1>3, Constants DEF Stamps
<1>5. /\ Flow(d) \in Int /\ Flow(d) >= 0 /\ Flow(MaxLag) \in Int /\ Flow(d) <= Flow(MaxLag)
      /\ (d = 0 => Flow(d) = 0)
    BY <1>3, <1>4, FlowIs, FlowsOn
<1>6. /\ tokens \in 0 .. Cap /\ level \in 0 .. Cap
      /\ tokens <= level /\ level <= tokens + Flow(d)
    <2>1. b \in Tracks \union {None} /\ now \in Int /\ at \in Int
        BY <1>1, SweptIs
    <2> HIDE DEF b
    <2> QED
        BY <1>1, <1>3, <2>1, RefilledIs, RefilledLater
<1>7. Left(k, at).tokens = IF tokens >= Unit THEN tokens - Unit ELSE tokens
    BY DEF Left
<1>8. after = Least(Cap, Left(k, at).tokens + Flow(d))
    BY <1>1, <1>3, RefilledIs, TracksAreRecords
<1>9. Level' = [Found(at) EXCEPT ![k] = after]
    <2>1. Level'[k] = after
        BY <1>1 DEF Level, Refilled
    <2>2. \A j \in Keys \ {k} : Level'[j] = Found(at)[j]
        BY <1>1, <1>2 DEF Level, Refilled
    <2>3. DOMAIN Level' = Keys /\ Found(at) = [j \in Keys |-> Found(at)[j]]
        BY DEF Level, Found, Buckets!Full
    <2>4. Level' = [j \in Keys |-> Level'[j]]
        BY DEF Level
    <2> QED
        BY <2>1, <2>2, <2>3, <2>4
<1>10. Found(at)[k] = level
    BY <1>2
<1>11. PICK extra \in Int : extra = tokens + Flow(d) - level
    BY <1>5, <1>6
<1> HIDE DEF tokens, level, after
<1>12. extra \in 0 .. MaxLag * Rate
    BY <1>5, <1>6, <1>11 DEF Flow
<1>13. CASE tokens >= Unit
    <2>1. level >= Unit /\ level - Unit + extra = tokens - Unit + Flow(d)
        BY <1>5, <1>6, <1>11, <1>13, Constants
    <2>2. after = Buckets!Least(Cap, level - Unit + extra)
        BY <1>7, <1>8, <1>13, <2>1 DEF Least, Buckets!Least
    <2> QED
        BY <1>9, <1>10, <1>12, <2>1, <2>2 DEF Buckets!Serve
<1>14. CASE ~(tokens >= Unit)
    <2>1. level < Unit + MaxLag * Rate /\ level + extra = tokens + Flow(d)
        BY <1>5, <1>6, <1>11, <1>14, Constants DEF Flow
    <2>2. after = Buckets!Least(Cap, level + extra)
        BY <1>7, <1>8, <1>14, <2>1 DEF Least, Buckets!Least
    <2> QED
        BY <1>9, <1>10, <1>12, <2>1, <2>2 DEF Buckets!Serve
<1> QED
    BY <1>13, <1>14

LEMMA LevelStep == Typed /\ [Next]_vars => [Buckets!Next]_(Buckets!vars)
<1> SUFFICES ASSUME Typed, [Next]_vars PROVE [Buckets!Next]_(Buckets!vars)
    OBVIOUS
<1>1. CASE Tick
    BY <1>1, LevelTick DEF Buckets!Next
<1>2. ASSUME NEW k \in Keys, NEW at \in Stamps, Allow(k, at) PROVE Buckets!Next
    <2>1. Buckets!Serve(k, Found(at)) /\ at \in Int
        BY <1>2, LevelServe, AllowIs
    <2>2. asked' = IF Replaces(at) THEN {k} ELSE asked \union {k}
        BY <1>2 DEF Allow
    <2>3. Replaces(at) => Cardinality(asked) > MaxTracked
        BY <2>1, ReplacedForMany
    <2>4. Buckets!Cardinality(asked) = Cardinality(asked)
        BY DEF Buckets!Cardinality, Cardinality
    <2>5. Buckets!Ask(k)
        BY <2>1, <2>2, <2>3, <2>4 DEF Found, Buckets!Ask
    <2> QED
        BY <2>5 DEF Buckets!Next
<1>3. CASE UNCHANGED vars
    BY <1>3 DEF vars, Buckets!vars, Level, Refilled
<1> QED
    BY <1>1, <1>2, <1>3 DEF Next

\* The limiter is a set of buckets that fill steadily (TokenBucket): when it refills, which
\* buckets it evicts and in which order requests get the lock makes no difference beyond
\* what flows in during MaxLag instants, and all are refilled at once only after more than
\* MaxTracked callers have asked (ratelimit.go).
THEOREM LimiterImplementsBuckets == Spec => ImplementsBuckets
<1> QED
    BY TypedInit, TypedStep, LevelInit, LevelStep, PTL DEF Spec, ImplementsBuckets, Buckets!Spec
=============================================================================
