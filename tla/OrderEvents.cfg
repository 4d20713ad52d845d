SPECIFICATION Spec
CONSTANTS
    o1 = o1
    o2 = o2
    c1 = c1
    c2 = c2
    Couriers = {c1, c2}
    Orders = {o1, o2}
    NoOrder = NoOrder
    MaxGarbage = 0
SYMMETRY OrderSymmetry
INVARIANTS
    TypeOK
    AcknowledgedIsSettled
    CanceledIsUnassigned
    BusyWithOpenOrder
