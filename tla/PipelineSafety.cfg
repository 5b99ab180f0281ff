SPECIFICATION MCSpec
CONSTANTS
    operator = operator
    admin = admin
    k1 = k1
    k2 = k2
    m1 = m1
    r1 = r1
    t1 = t1
    lead = lead
    Nothing = Nothing
    Absent = Absent
    NoUser = NoUser
    NoTask = NoTask
    NoKey = NoKey
    Users = {admin}
    RoleOf <- OnlyAdmin
    Keys = {k1, k2}
    Mails = {m1}
    Replies = {r1}
    Tasks = {t1}
    MaxVersion = 5
    MaxIssued = 2
    Leads = {lead}
    LeadTasks = {1, 2}
    Limit = 1
    Filters = {"overdue"}
    Categories = {"not_interested", "need_info"}
    MaxTime = 2
    MaxChanges = 2
    Kinds = {"unsubscribe", "unknown", "interested"}
    PageLimit = 2
    MaxReplies = 3
    MaxTurns = 1
INVARIANTS HistoryTellsStage MovedOncePerKey MovedFromSeenStage ResultTellsStage ViewsAgree
PROPERTY NeverRewinds
SYMMETRY Interchangeable
