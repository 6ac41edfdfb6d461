SPECIFICATION FairSpec
CONSTANTS
    e1 = e1  e2 = e2  x1 = x1  x2 = x2
    Events <- TwoEvents
    Exporters <- TwoExporters
    BatchLimit = 1
    PruneAfter = 1
    MaxClock = 3
INVARIANTS
    TypeOK
    NothingLost
    OnlyCommittedEvents
PROPERTIES
    EveryEventExported
