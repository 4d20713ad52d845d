SPECIFICATION FairSpec
CONSTANTS
    r1 = r1
    r2 = r2
    Reqs = {r1, r2}
    Loop = Loop
    Retries = 2
    MaxConns = 2
    Environments <- SomeEnvironments
INVARIANTS
    TypeOK
    NoTransactionCut
    AcceptedIsAnswered
    StopsForAReason
    ServiceResolves
    SettingsFit
PROPERTIES
    StopsWhenAsked
CHECK_DEADLOCK FALSE
