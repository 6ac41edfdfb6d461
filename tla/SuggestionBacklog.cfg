SPECIFICATION FairSpec
CONSTANTS
    o1 = o1  r1 = r1  r2 = r2  w1 = w1  w2 = w2  t1 = t1  t2 = t2
    p1 = p1  p2 = p2  q1 = q1  q2 = q2  s1 = s1  none = none  date = date
    None = None
    Owners <- OneOwner
    Titles <- TwoTitles
    Breakdowns <- OneBreakdown
    MaxRevision = 2
    UnsupportedIds <- Nobody
    Clarifications <- TwoClarify
    RequestIds <- OneRequest
    WorkflowIds <- TwoWorkflows
    MaxSuggestions = 2
    ReservationTTL = 1
    ClaimTTL = 1
    Callers <- OneCaller
    Workers <- OneWorker
    Sweepers <- OneSweeper
    CloudModes <- Cloud
    SuggestPayloads <- RightPayload
    InitialPlans <- OfferedPlans
    BatchLimit = 1
    LastReservation = 0
    MaxClock = 1
PROPERTIES
    QueuedSettles
