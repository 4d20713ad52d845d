SPECIFICATION FairSpec
CONSTANTS
    o1 = o1
    o2 = o2
    c1 = c1
    c2 = c2
    Couriers = {c1}
    Orders = {o1}
    NoOrder = NoOrder
    MaxGarbage = 2
PROPERTIES
    EveryMessageAcknowledged
