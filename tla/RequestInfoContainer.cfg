CONSTANTS
    o1 = o1
    o2 = o2
    u1 = u1
    u2 = u2
    u3 = u3
    p1 = p1
    Nothing = Nothing
    Owner = {o1, o2}
    Entry = o1
    User = {u1, u2, u3}
    RequestUser = u1
    PostAction = {p1}
    Homes <- AllHomes
    Trackings <- AllTrackings
    Arrivals <- FewRecords

SPECIFICATION RequestSpec

INVARIANTS
    RequestsTypeOK
    OutcomeIsOrderFree
    FraudNetsToZero
    BookedAtMostOnce

CHECK_DEADLOCK FALSE

SYMMETRY MCSymmetry
