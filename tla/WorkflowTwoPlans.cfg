SPECIFICATION Spec
CONSTANTS
    o1 = o1  o2 = o2  r1 = r1  r2 = r2  r3 = r3  r4 = r4
    w1 = w1  w2 = w2  w3 = w3  t1 = t1  t2 = t2  p1 = p1  p2 = p2
    None = None
    Owners <- TwoOwners
    Titles <- OneTitle
    Breakdowns <- Nobody
    MaxRevision = 2
    RequestIds <- TwoRequests
    WorkflowIds <- ThreeWorkflows
    UnsupportedIds <- ThirdOnly
    Processes <- TwoProcesses
    Payloads <- ShortPathPayloads
SYMMETRY TwoRequestSymmetry
INVARIANTS
    TodosExactlyOnce
    EventsMatchRows
PROPERTIES
    ImplementsContract
