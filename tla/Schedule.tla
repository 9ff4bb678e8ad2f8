------------------------------ MODULE Schedule ------------------------------
(***************************************************************************)
(* When a source is checked next (internal/domain/scheduling.go): the      *)
(* order of the rules of NextInterval, and the arithmetic they are         *)
(* computed with.                                                          *)
(*                                                                         *)
(* A duration is a number of quarters of an hour, rounded down.  The code  *)
(* has nanoseconds in an int64 and computes in float64; what conversion    *)
(* makes of a product beyond the largest duration is up to the machine, so *)
(* NextIntervals is the set of the intervals there may be.                 *)
(***************************************************************************)
EXTENDS Integers, SourceHealth

CONSTANTS
    MinInterval, MaxInterval, BaseInterval, RecentChangeInterval, PopularFloor,
    UnchangedFactor, FailureFactor,     \* factors, as [num, den]
    Jitter,             \* half of JitterFraction, as [num, den]
    EOLMultiplier,
    MaxSteps,           \* the bound of the exponent in scale
    LargestDuration     \* of an int64 of nanoseconds

ASSUME ScheduleAssumption ==
    /\ {MinInterval, MaxInterval, BaseInterval, RecentChangeInterval, PopularFloor} \subseteq Nat \ {0}
    /\ {EOLMultiplier, MaxSteps, LargestDuration} \subseteq Nat \ {0}
    /\ MinInterval <= MaxInterval /\ MaxInterval <= LargestDuration
    /\ Jitter.num \in Nat /\ Jitter.den \in Nat \ {0}

Least(a, b) == IF a <= b THEN a ELSE b
Greatest(a, b) == IF a >= b THEN a ELSE b

\* A product that no duration can hold.
Beyond == LargestDuration + 1

\* time.Duration of a float64 in the range, and of one that is not.
Converted(product) ==
    IF product \in 0..LargestDuration THEN {product} ELSE {-LargestDuration, LargestDuration}

\* base times factor to the power of steps, at least one and at most MaxSteps of them.
Scaled(base, factor, steps) ==
    LET product[n \in 0..MaxSteps] ==
            IF n = 0 THEN base
            ELSE LET before == product[n - 1]
                 IN  IF before = Beyond \/ (before * factor.num) \div factor.den > LargestDuration
                     THEN Beyond ELSE (before * factor.num) \div factor.den
    IN  Converted(product[Least(Greatest(steps, 1), MaxSteps)])

Multiplied(interval) ==
    CASE interval < 0 -> {-LargestDuration, LargestDuration}
      [] interval >= 0 /\ interval > LargestDuration \div EOLMultiplier -> Converted(Beyond)
      [] OTHER -> Converted(interval * EOLMultiplier)

Clamped(interval) == Least(Greatest(interval, MinInterval), MaxInterval)

\* The source's own frequency, if it has one.
Base(in) == IF in.configured > 0 THEN in.configured ELSE BaseInterval

\* The first rule that applies; "instructed", "rate_limited" and "locked" are final.
Failing(in) == in.health = "broken" \/ in.outcome \in {"unavailable", "parser_failed"}
Rule(in) ==
    IF in.retryAfter > 0 THEN "instructed"
    ELSE IF in.outcome = "rate_limited" THEN "rate_limited"
    ELSE IF Failing(in) THEN "failing"
    ELSE IF in.health = "authentication_required" THEN "locked"
    ELSE IF in.outcome = "changed" \/ in.recentlyChanged THEN "recent"
    ELSE IF in.unchanged > 0 THEN "quiet" ELSE "base"

Final(rule) == rule \in {"instructed", "rate_limited", "locked"}

RuleIntervals(in) ==
    LET rule == Rule(in)
    IN  CASE rule = "instructed" -> {in.retryAfter}
          [] rule \in {"rate_limited", "failing"} -> Scaled(Base(in), FailureFactor, in.failures)
          [] rule = "locked" -> {MaxInterval}
          [] rule = "recent" -> {RecentChangeInterval}
          [] rule = "quiet" -> Scaled(Base(in), UnchangedFactor, in.unchanged)
          [] rule = "base" -> {Base(in)}

Stretched(in, interval) == IF in.endOfLife THEN Multiplied(interval) ELSE {interval}

\* What was promised of the product only ever shortens the interval.
Promised(in, interval) ==
    LET critical == IF in.critical THEN Least(interval, Base(in)) ELSE interval
        popular == IF in.popular THEN Least(critical, PopularFloor) ELSE critical
    IN  IF in.freshness > 0 THEN Least(popular, in.freshness) ELSE popular

\* Mutation: end of life is applied last.
NextIntervalsStretchedLast(in) ==
    IF Final(Rule(in)) THEN {Clamped(i) : i \in RuleIntervals(in)}
    ELSE {Clamped(i) : i \in UNION {Stretched(in, Promised(in, j)) : j \in RuleIntervals(in)}}

NextIntervals(in) ==
    IF Final(Rule(in)) THEN {Clamped(i) : i \in RuleIntervals(in)}
    ELSE {Clamped(Promised(in, i)) : i \in UNION {Stretched(in, j) : j \in RuleIntervals(in)}}

\* How long after a check the next one is: NextAt, which is the interval and a share of it.
Jittered(interval) == interval + (interval * Jitter.num) \div Jitter.den
NextWaits(in) == {Jittered(i) : i \in NextIntervals(in)}
=============================================================================
