SPECIFICATION ContentionSpec
CONSTANTS
    b1 = b1
    b2 = b2
    b3 = b3
    p1 = p1
    p2 = p2
    r1 = r1
    r2 = r2
    d1 = d1
    Sets = {b1, b2, b3}
    Earlier <- TwoEarlier
    Prunes = {p1, p2}
    Restores = {r1, r2}
    Targets = {d1}
    MinimumBackups = 1
    Retention = 1
    MaxChanges = 1
    CountsOf <- SomeCounts
    MaxTime = 4
    Nothing = Nothing
    t1 = t1
    t2 = t2
    t3 = t3
    Parts = {"prunes", "restores", "locks"}
    Transactions = {t1, t2, t3}
    Leads <- ThreeLeads
    CompanyOf <- SharedCompany
    ProjectOf <- SharedProject
    DestinationsOf <- SharedDestinations
    Kinds = {"import", "edit", "confirm", "draft", "claim", "sent", "sentAfterSend", "reply", "move"}
    NoProject = NoProject
    NoRequest = NoRequest
INVARIANTS SetsAreWhole RestoredAsDumped  ProjectStandsStill
PROPERTIES PruneIsSafe
CHECK_DEADLOCK FALSE
SYMMETRY Interchangeable
