\* Three syncs: one that stops anywhere, one of another checkout, and one after either.
SPECIFICATION Spec
CONSTANTS
    Omitted = Omitted
    Slugs = {"acme", "fam", "root", "leaf", "box", "os", "feed", "beta"}
    Checkouts <- SomeCheckouts
    MaxSyncs = 3
INVARIANTS
    RefusedOnlyForADangle
    OmissionNeverPermits
PROPERTIES
    SyncWritesWhatIsDeclared
CHECK_DEADLOCK FALSE
