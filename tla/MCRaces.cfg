\* Two handlers and a reviewer at once, also on the same job; a source that loses and
\* regains its standing, extractions that die half way.
SPECIFICATION FairSpec
CONSTANTS
    s1 = s1  s2 = s2
    c1 = c1  c2 = c2  c3 = c3  c4 = c4
    v1 = v1  v2 = v2  v3 = v3
    Cands = {c1, c2}
    Sources = {s1, s2}
    SourceOf <- Reporters
    VersionOf <- Disagreeing
    DateOf <- Dated
    Authority <- Peers
    Match <- NamedAfterOneProduct
    Doubtful = {}
    Bogus = {}
    Implausible = {}
    Fickle = {s2}
    Procs = {p, q}
    None = None
    Mishaps = {}
    Torn = TRUE
    MaxItems = 3
    MaxConflicts = 2
    MaxRows = 3
INVARIANTS
    PublishedIsFinal
    ConflictHasItem
PROPERTIES
    ImplementsCatalogue
    TakedownHolds
    EveryCandidateIsJudged
