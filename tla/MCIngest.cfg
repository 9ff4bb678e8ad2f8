\* One handler and a reviewer, each job delivered any number of times and dying nearly anywhere:
\* s2 outranks s1, which disagrees with it with c1, that needs a human anyway, and with c3,
\* of which the product is not known for certain; c4 is rejected.  The run ends when every
\* job is done.
SPECIFICATION Spec
CONSTANTS
    s1 = s1  s2 = s2
    c1 = c1  c2 = c2  c3 = c3  c4 = c4
    v1 = v1  v2 = v2  v3 = v3
    Cands = {c1, c2, c3, c4}
    Sources = {s1, s2}
    SourceOf <- Reporters
    VersionOf <- Disagreeing
    DateOf <- Dated
    Authority <- Ladder
    Match <- NamedLoosely
    Doubtful = {c1}
    Bogus = {c4}
    Implausible <- ALeap
    Fickle = {}
    Procs = {p}
    None = None
    Mishaps = {c1}
    Torn = FALSE
    MaxItems = 2
    MaxConflicts = 2
    MaxRows = 2
INVARIANTS
    ReleasesWereCleared
    QueueHasNoDoubles
CHECK_DEADLOCK FALSE
