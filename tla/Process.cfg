CONSTANTS
    h1 = h1
    h2 = h2
    h3 = h3
    k1 = k1
    k2 = k2
    Handler = {h1, h2, h3}
    Kinds <- mcKinds
    Key = {k1, k2}
    NoKey = NoKey
    NoIndex = NoIndex
    Conns = 2
    Workers = 2
    Threads = 1
    MaxRestarts = 1
SPECIFICATION FairSpec
INVARIANTS TypeOK OneIdentity ServedIsPublished HeldIndexIsFree EventsFollowKey
PROPERTIES HandlersEnd RunsAnswered ShutdownEnds
CHECK_DEADLOCK FALSE
