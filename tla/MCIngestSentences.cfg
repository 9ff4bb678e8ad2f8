\* A source catches up while an item is open, and validations are delivered twice.  What the
\* documents say of it, each violated: check one line at a time.
SPECIFICATION Spec
CONSTANTS
    s1 = s1  s2 = s2
    c1 = c1  c2 = c2  c3 = c3  c4 = c4
    v1 = v1  v2 = v2  v3 = v3
    Cands = {c1, c2, c3}
    Sources = {s1, s2}
    SourceOf <- Reporters
    VersionOf <- CatchingUp
    DateOf <- Dated
    Authority <- Peers
    Match <- NamedAfterOneProduct
    Doubtful = {}
    Bogus = {}
    Implausible = {}
    Fickle = {}
    Procs = {p}
    None = None
    Mishaps = {c1, c2}
    Torn = FALSE
    MaxItems = 3
    MaxConflicts = 2
    MaxRows = 2
INVARIANTS
    ItemsAreDecidable
    FailedGateNeedsHuman
