SPECIFICATION Spec
CONSTANTS
    Max = 4
    IterMax = 2
    Nil = Nil
INVARIANTS
    TypeOK
    LinksConsistent
    PairsFit
    DeletesOwnOnly
    ClosedAtExit
PROPERTIES
    Refinement
