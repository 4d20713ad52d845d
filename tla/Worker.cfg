SPECIFICATION FairSpec
CONSTANTS
    p1 = p1
    Others = {p1}
    Settings <- SomeSettings
    Limit = 4608
    Timeout = 9
INVARIANTS
    WorkerTypeOK
    AttemptsBounded
    AnsweredInTime
    ClosedWhenIdle
    EndsOnlyBySignal
PROPERTIES
    PausesGrow
    AckJustified
    Returns
    StopsOnSignal
CHECK_DEADLOCK FALSE
