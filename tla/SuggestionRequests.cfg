SPECIFICATION Spec
CONSTANTS
    o1 = o1  r1 = r1  r2 = r2  w1 = w1  w2 = w2  t1 = t1  t2 = t2
    p1 = p1  p2 = p2  q1 = q1  q2 = q2  s1 = s1  none = none  date = date
    None = None
    Owners <- OneOwner
    Titles <- TwoTitles
    Breakdowns <- OneBreakdown
    MaxRevision = 3
    UnsupportedIds <- Nobody
    Clarifications <- TwoClarify
    RequestIds <- TwoRequests
    WorkflowIds <- OneWorkflow
    MaxSuggestions = 2
    ReservationTTL = 1
    ClaimTTL = 1
    Callers <- TwoCallers
    Workers <- OneWorker
    Sweepers <- Nobody
    CloudModes <- Cloud
    SuggestPayloads <- TwoPayloads
    InitialPlans <- OfferedPlans
    BatchLimit = 1
    LastReservation = 1
    MaxClock = 1
SYMMETRY CallerSymmetry
INVARIANTS
    TypeOK
    TableChecksHold
    OnlyLatestPends
PROPERTIES
    ResultFitsPlan
