CONSTANTS
    plain = plain
    s1 = s1
    s2 = s2
    bad = bad
    d1 = d1
    d2 = d2
    Request = {s1}
    OutOfBounds = {}
    Scheduled = {s1}
    WithEvent = {s1}
    RunDate <- mcRunDate
    EventName <- mcEventName
    Delivery = {d1}
    Paid = Paid
    MaxTime = 2
    MaxFailures = 0
SPECIFICATION Spec
INVARIANT AnnouncementPublished
CHECK_DEADLOCK FALSE
