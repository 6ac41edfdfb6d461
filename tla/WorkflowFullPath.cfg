SPECIFICATION Spec
CONSTANTS
    o1 = o1  o2 = o2  r1 = r1  r2 = r2  r3 = r3  r4 = r4
    w1 = w1  w2 = w2  w3 = w3  t1 = t1  t2 = t2  p1 = p1  p2 = p2
    None = None
    Owners <- OneOwner
    Titles <- TwoTitles
    Breakdowns <- OneBreakdown
    MaxRevision = 4
    RequestIds <- FourRequests
    WorkflowIds <- OneWorkflow
    UnsupportedIds <- Nobody
    Processes <- TwoProcesses
    Payloads <- AllPayloads
SYMMETRY RequestSymmetry
INVARIANTS
    TypeOK
    AnswerNotStale
    JournalReadable
    HistoryIsARun
