\* Three callers, two of which are tracked for certain; two tokens in a burst, one of
\* which takes two instants to flow in; a sweep every two instants.
SPECIFICATION Spec
CONSTANTS
    Keys = {a, b, c}
    Unit = 3
    Cap = 5
    Rate = 2
    MaxTracked = 2
    SweepInterval = 2
    IdleTTL = 3
    None = None
    MaxLag = 1
    MaxNow = 5
INVARIANTS
    RetryAfterIsEnough
PROPERTIES
    ImplementsBuckets
CHECK_DEADLOCK FALSE
