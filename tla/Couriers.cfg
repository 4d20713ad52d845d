SPECIFICATION Spec
CONSTANTS
    p1 = p1
    p2 = p2
    n1 = n1
    f1 = f1
    f2 = f2
    Procs = {p1, p2}
    Names = {n1}
    Phones = {f1, f2}
    Empty = Empty
    Malformed = Malformed
    Absent = Absent
    NoCall = NoCall
    PageSize = 1
    MaxId = 2
    Calls <- SomeCalls
SYMMETRY CourierSymmetry
INVARIANTS
    TypeOK
    TableIsSound
    AnswersTruthful
    WalkMissesNobody
PROPERTIES
    ImplementsDirectory
