\* Two units at once: publications, disputes, duplicates, syncs, imports of two channels.
SPECIFICATION Spec
CONSTANTS
    None = None
    u1 = u1  u2 = u2
    Units = {u1, u2}
    Rels = {1, 2, 3, 4, 5}
    Fact <- Facts
    Registered = {"p", "q"}
    Collected = {1, 2}
    Committed <- SomeFiles
    MaxWithdrawn = 1
    MaxBegun = 3
SYMMETRY UnitSymmetry
INVARIANTS
    PageIsCurrent
PROPERTIES
    FlagStays
    ImportIsWhole
    ExportLoadsBack
