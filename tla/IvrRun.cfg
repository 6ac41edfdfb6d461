SPECIFICATION AnyFairSpec
CONSTANTS
    ours = ours  theirs = theirs  none = none
    None = none
    CodeLength = 1
    SyntheticId <- Id
    StageTimeout = 1
    CallTimeout = 2
    CleanupBudget = 1
    ResultGrace = 1
    MaxSegments = 2
    MaxEventIds = 9
    Calls <- BothCalls
    MaxBuffer = 1
    MaxClock = 5
    Texts <- Segments
    Times <- Moments
    Script <- WholeScript
    MaxEvents = 10
    MaxSurprises = 1
INVARIANTS
    TonesFollowSpeech
    NoCallAbandoned
PROPERTIES
    KeepsRunContract
CHECK_DEADLOCK FALSE
