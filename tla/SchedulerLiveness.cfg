CONSTANTS
    j1 = j1
    j2 = j2
    j3 = j3
    t1 = t1
    t2 = t2
    Job = {j1, j2}
    Scheduled = {j1, j2}
    RunDate <- mcRunDate
    WithEvent = {j1}
    Task = {t1, t2}
    Nobody = Nobody
    NoJob = NoJob
    Outcome = {"yes"}
    Expected = {"yes"}
    NoOutcome = NoOutcome
    MaxTime = 1
    MaxFaults = 1
SPECIFICATION FairSpec
PROPERTIES DueJobStarts RunEnds
CHECK_DEADLOCK FALSE
