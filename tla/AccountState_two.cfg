SPECIFICATION Spec
CONSTANTS
    a1 = a1
    a2 = a2
    Address = {a1, a2}
    Request = {r1, r2}
    Slice <- MCSlice
    Genesis = Genesis
SYMMETRY Symmetry
INVARIANTS
    TypeOK
    OldStateCleaned
    MissingOnlyInOverwrite
PROPERTIES
    ShownUntilRemoved
    StoreKept
