CONSTANTS
    j1 = j1
    j2 = j2
    j3 = j3
    t1 = t1
    t2 = t2
    Job = {j1, j2, j3}
    Scheduled = {j1, j2}
    RunDate <- mcRunDate
    WithEvent = {j1}
    Task = {t1, t2}
    Nobody = Nobody
    NoJob = NoJob
    Outcome = {"yes", "no", "error"}
    Expected = {"yes", "no"}
    NoOutcome = NoOutcome
    MaxTime = 1
    MaxFaults = 0
SPECIFICATION Spec
INVARIANT RunOnce
SYMMETRY Symmetric
CHECK_DEADLOCK FALSE
