\* One job, one worker: the worker dies every time it holds the job.
SPECIFICATION FairSpec
CONSTANTS
    Jobs = {j1}
    Workers = {w1}
    Slots = {s1}
    NoJob = NoJob
    MaxAttempts = 2
    AttemptCap = 3
PROPERTIES
    KillerJobDeadLetters
