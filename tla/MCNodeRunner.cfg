CONSTANTS
    b1 = b1
    b2 = b2
    Binds = {b1, b2}
    Proxies = {"off", "plain", "acme"}
    Tasks = {1, 2}
    Threads = {1, 2}
    NoTask = NoTask
    NoThread = NoThread
    NoConfig = NoConfig
    MaxJobs = 4
    MaxFaults = 1
SPECIFICATION FairSpec
INVARIANTS
    NoErrorMeansServing
    StoppedIsSilent
PROPERTIES
    EveryJobEnds
CHECK_DEADLOCK FALSE
