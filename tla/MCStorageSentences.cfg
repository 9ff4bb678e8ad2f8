\* For reading, not a run: what docs/architecture says of stored artifacts (ArtifactsAreDurable),
\* violated when the power goes.
SPECIFICATION Spec
CONSTANTS
    o1 = o1  o2 = o2  w1 = w1  w2 = w2  h1 = h1  h2 = h2
    Operators = {o1, o2}
    Workers = {w1, w2}
    Carries <- CarriesOf
    FileSets <- SomeFiles
    Hashes = {h1}
    Mishaps = 2
    MaxRefs = 2
INVARIANTS
    ArtifactsAreDurable
CHECK_DEADLOCK FALSE
