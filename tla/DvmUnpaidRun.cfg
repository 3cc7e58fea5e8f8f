CONSTANTS
    plain = plain
    s1 = s1
    d1 = d1
    t1 = t1
    t2 = t2
    yes = yes
    Request = {s1}
    OutOfBounds = {}
    Scheduled = {s1}
    WithEvent = {s1}
    RunDate <- mcRunDate
    EventName <- mcEventName
    Delivery = {d1}
    Paid = Paid
    Task = {t1, t2}
    Nobody = Nobody
    NoJob = NoJob
    Outcome = {yes}
    Expected = {yes}
    NoOutcome = NoOutcome
    MaxTime = 2
    MaxFailures = 0
    MaxFaults = 0
SPECIFICATION Spec
SYMMETRY Symmetric
INVARIANT RunsArePaid
CHECK_DEADLOCK FALSE
