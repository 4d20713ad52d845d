SPECIFICATION ProcessSpec
CONSTANTS
    r1 = r1
    r2 = r2
    Reqs = {r1}
    Loop = Loop
    Retries = 2
    MaxConns = 1
    Environments <- SomeEnvironments
INVARIANTS
    WorkerResolves
CHECK_DEADLOCK FALSE
