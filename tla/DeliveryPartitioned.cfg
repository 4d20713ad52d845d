SPECIFICATION Spec
CONSTANTS
    Couriers = {1, 2}
    Transport <- CarAndFoot
    Hired = {"available", "paused"}
    http = http
    kafka = kafka
    kafka2 = kafka2
    releaser = releaser
    o1 = o1
    o2 = o2
    Orders = {o1, o2}
    NoOrder = NoOrder
    Procs = {kafka, kafka2, releaser}
    NoProc = NoProc
    May <- PartitionMay
    Serves <- PartitionServes
    AdminStatuses = {}
    MaxTime = 2
INVARIANTS
    BusyHasDelivery
PROPERTIES
    ImplementsBoard
