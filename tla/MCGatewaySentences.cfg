\* For reading, not a run: what the documents say of the quota, the meter and the caches,
\* one INVARIANT at a time (QuotaIsExact, BilledPerKey, KeysGetTheirPlan), each violated.
SPECIFICATION Spec
CONSTANTS
    Conns = {c1, c2}
    k1 = k1
    k2 = k2
    Keys = {k1, k2}
    Chosen = {x}
    Buffer = 1
    Deployments <- SomeDeployments
    None = None
INVARIANTS
    QuotaIsExact
CHECK_DEADLOCK FALSE
