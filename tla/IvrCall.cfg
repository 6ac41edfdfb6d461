SPECIFICATION FairSpec
CONSTANTS
    ours = ours  theirs = theirs  none = none
    None = none
    CodeLength = 1
    SyntheticId <- Id
    StageTimeout = 1
    CallTimeout = 2
    CleanupBudget = 1
    ResultGrace = 1
    MaxSegments = 2
    MaxEventIds = 40
    Calls <- BothCalls
    MaxBuffer = 1
    MaxClock = 7
    Scenarios = {"normal", "silent_stage", "unsupported_result"}
    Amount = 12130
    Challenge <- Three
    MaxAttempts = 2
    AnswerTime = 1
    GatherTime = 2
    SpeechTime = 2
    HangupTime = 1
    TalkTime = 3
    MaxFixtureIds = 40
    OurCall = ours
    Cuts <- TwoPlaces
    MaxTrouble = 1
INVARIANTS
    SuccessIsTrue
    InStep
PROPERTIES
    CallsEndOnce
    BothEndsLetGo
CHECK_DEADLOCK FALSE
