SPECIFICATION FairSpec
CONSTANTS
    j1 = j1
    j2 = j2
    s1 = s1
    s2 = s2
    c1 = c1
    NoServer = NoServer
    NoJob = NoJob
    Jobs = {j1, j2}
    Servers = {s1}
    Clients = {c1}
    MaxItems = 0
    MayFail = TRUE
PROPERTIES SupersededWorkerStops RunningIsResolved
CHECK_DEADLOCK FALSE
