SPECIFICATION ServersSpec
CONSTANTS
    j1 = j1
    j2 = j2
    s1 = s1
    s2 = s2
    c1 = c1
    NoServer = NoServer
    NoJob = NoJob
    Jobs = {j1, j2}
    Servers = {s1, s2}
    Clients = {c1}
    MaxItems = 1
    MayFail = TRUE
    Calls = {a1, a2}
    Unknown = Unknown
    Budget = 3
    MaxCost = 2
    Overruns = TRUE
    MaxMonth = 2
SYMMETRY Interchangeable
INVARIANTS RecordersAgree BudgetIsKept
 
CHECK_DEADLOCK FALSE
