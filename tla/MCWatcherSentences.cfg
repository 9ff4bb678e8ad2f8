\* The smallest source, whose host may answer 429; nobody runs sources activate.  What the
\* documents say of it, each violated: check one line at a time.
SPECIFICATION FairSpec
CONSTANTS
    Contents = {x}
    None = None
    Handlers = {p}
    Operators = {}
    RegistryHealth = "active"
    Declarable = {"open"}
    Failures = {"rate_limited"}
    MaxAttempts = 2
    MaxTurns = 3
INVARIANT
    ChangesAreExtracted
PROPERTY
    RateLimitedRecovers
