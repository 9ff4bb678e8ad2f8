\* One handler of the workers and one operator at the command line; the page goes back
\* and forth between two contents; three checks, each with a job of two attempts.
SPECIFICATION FairSpec
CONSTANTS
    Contents = {x, y}
    None = None
    Handlers = {p}
    Operators = {op}
    RegistryHealth = "active"
    Declarable = {"open", "prohibited"}
    Failures = {"rate_limited"}
    MaxAttempts = 2
    MaxTurns = 3
INVARIANTS
    RecordedChangeIsQueued
PROPERTIES
    ChecksKeepComing
    TakedownDrains
