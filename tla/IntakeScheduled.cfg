CONSTANTS
    plain = plain
    s1 = s1
    s2 = s2
    bad = bad
    d1 = d1
    d2 = d2
    Request = {s1, s2}
    OutOfBounds = {}
    Scheduled = {s1, s2}
    WithEvent = {s1, s2}
    RunDate <- mcRunDate
    EventName <- mcEventName
    Delivery = {d1, d2}
    Paid = Paid
    MaxTime = 2
    MaxFailures = 1
SPECIFICATION Spec
INVARIANTS TypeOK InvoiceFindsJob LinkedIsPaid
SYMMETRY Symmetric
CHECK_DEADLOCK FALSE
