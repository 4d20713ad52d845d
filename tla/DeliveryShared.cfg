SPECIFICATION Spec
CONSTANTS
    Couriers = {1, 2}
    Transport <- CarAndFoot
    Hired = {"available"}
    http = http
    kafka = kafka
    kafka2 = kafka2
    releaser = releaser
    o1 = o1
    o2 = o2
    Orders = {o1, o2}
    NoOrder = NoOrder
    Procs = {http, kafka}
    NoProc = NoProc
    May <- SharedMay
    Serves <- SharedServes
    AdminStatuses = {"available", "busy", "paused"}
    MaxTime = 1
SYMMETRY OrderSymmetry
INVARIANTS
    TypeOK
    OneDeliveryPerOrder
    ChosenStaysAvailable
    DeadlocksAreKnown
PROPERTIES
    AssignTakesAvailable
