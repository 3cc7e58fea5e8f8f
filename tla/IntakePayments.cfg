CONSTANTS
    plain = plain
    s1 = s1
    s2 = s2
    bad = bad
    d1 = d1
    d2 = d2
    Request = {plain, bad}
    OutOfBounds = {bad}
    Scheduled = {}
    WithEvent = {}
    RunDate <- mcRunDate
    EventName <- mcEventName
    Delivery = {d1, d2}
    Paid = Paid
    MaxTime = 0
    MaxFailures = 2
SPECIFICATION FairSpec
INVARIANTS AnswersArePaid InvoiceFindsJob
PROPERTIES PaidIsAnswered
CHECK_DEADLOCK FALSE
