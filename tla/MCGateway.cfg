\* Two connections and a queue of one: three requests may be under way while one is
\* admitted, so with a quota of one the fifth is the one that must not be admitted.
SPECIFICATION Spec
CONSTANTS
    Conns = {c1, c2}
    k1 = k1
    k2 = k2
    Keys = {k1, k2}
    Chosen = {x}
    Buffer = 1
    Deployments <- SomeDeployments
    None = None
INVARIANTS
    QuotaHolds
    BilledOnce
    TiersKeptApart
PROPERTIES
    CloseReturns
CHECK_DEADLOCK FALSE
