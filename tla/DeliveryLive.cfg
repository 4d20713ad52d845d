SPECIFICATION FairSpec
CONSTANTS
    Couriers = {1}
    Transport <- AllCars
    Hired = {"available"}
    http = http
    kafka = kafka
    kafka2 = kafka2
    releaser = releaser
    o1 = o1
    o2 = o2
    Orders = {o1}
    NoOrder = NoOrder
    Procs = {http, kafka, releaser}
    NoProc = NoProc
    May <- SharedMay
    Serves <- SharedServes
    AdminStatuses = {}
    MaxTime = 2
PROPERTIES
    CallReturns
    ExpiredIsFreed
