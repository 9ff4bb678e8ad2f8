\* One job and two workers of two slots, two attempts: enough for a lease to lapse under
\* a live worker, be taken by the other, or be taken by both at once, for the job to wait
\* in a batch while every slot is busy with it, and for reports to arrive in any order.
\* Jobs have only the slots in common; the theorems are about any number of them.
SPECIFICATION FairSpec
CONSTANTS
    Jobs = {j1}
    Workers = {w1, w2}
    Slots = {s1, s2}
    NoJob = NoJob
    MaxAttempts = 2
    AttemptCap = 4
INVARIANTS
    HoldersAreCounted
PROPERTIES
    ImplementsLedger
    EveryJobSettles
