\* Two calls at a time for one slot of one host that changes its mind, falters and
\* returns; a robots.txt is trusted for two instants, its failure remembered for one.
SPECIFICATION FairSpec
CONSTANTS
    Procs = {p, q}
    Impatient = {q}
    Policies <- HostPolicies
    Slots = 1
    MinHostInterval = 1
    RobotsTTL = 2
    NegativeTTL = 1
    MaxRedirects = 1
    Stalls = {"robots", "page"}
    None = None
    MaxTransit = 0
    MaxNow = 4
INVARIANTS
    RateHolds
PROPERTIES
    RobotsIsRecent
    FetchesEnd
CHECK_DEADLOCK FALSE
