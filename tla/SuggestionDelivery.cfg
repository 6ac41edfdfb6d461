SPECIFICATION Spec
CONSTANTS
    o1 = o1  r1 = r1  r2 = r2  w1 = w1  w2 = w2  t1 = t1  t2 = t2
    p1 = p1  p2 = p2  q1 = q1  q2 = q2  s1 = s1  none = none  date = date
    None = None
    Owners <- OneOwner
    Titles <- TwoTitles
    Breakdowns <- OneBreakdown
    MaxRevision = 3
    UnsupportedIds <- Nobody
    Clarifications <- TwoClarify
    RequestIds <- OneRequest
    WorkflowIds <- OneWorkflow
    MaxSuggestions = 1
    ReservationTTL = 2
    ClaimTTL = 1
    Callers <- OneCaller
    Workers <- TwoWorkers
    Sweepers <- OneSweeper
    CloudModes <- BothModes
    SuggestPayloads <- RightPayload
    InitialPlans <- OfferedPlans
    BatchLimit = 1
    LastReservation = 1
    MaxClock = 3
SYMMETRY WorkerSymmetry
INVARIANTS
    OneProviderCall
    OutboxMatchesRows
PROPERTIES
    RowsOnlyMoveForward
