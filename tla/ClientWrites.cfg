SPECIFICATION Spec
CONSTANTS
    None = None
    Jobs = {j1, j2}
    MaxWrites = 2
    Starts = {1}
    Elsewhere <- FirstMove
    MaxRevision = 2
INVARIANTS
    TypeOK
    UnknownIsKept
PROPERTIES
    OwnAnswersSeen
SYMMETRY Symmetry
