SPECIFICATION Spec
CONSTANTS
    StableFor = 2
    PollInterval = 1
    WaitLimit = 3
    CommandLimit = 3
    ResetLimit = 2
    OutsiderLimit = 1
INVARIANTS
    CompletionIsStable
    SessionsAreBound
    LeftoversAreReported
PROPERTIES
    ConsentIsExact
    OriginalSurvives
    ServicesStartOnWhole
CHECK_DEADLOCK FALSE
