SPECIFICATION Spec
CONSTANTS
    None = None
    Latest = 2
    MaxTrouble = 2
    Todos <- TwoTodos
    BatchSize = 1
    MaxWriting = 1
    DualWrites = 1
    ReadsStamps = 2
INVARIANTS
    WorkerFirst
    ProvedBeforeServing
    AllOrNothing
    ReadsTrue
PROPERTIES
    SummaryTellsTruth
