SPECIFICATION FairSpec
CONSTANTS
    c1 = c1
    c2 = c2
    p1 = p1
    p2 = p2
    t1 = t1
    t2 = t2
    Client <- TwoClients
    Piano <- OnePiano
    Task <- TwoTasks
    Limit = 1
    MaxQueue = 2
    NoOne = NoOne
    NoPiano = NoPiano
    NoTask = NoTask
CHECK_DEADLOCK FALSE
INVARIANTS
    PlaybackConsistent
    LightTrue
PROPERTIES
    RecordingEnds
