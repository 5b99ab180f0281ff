SPECIFICATION PartsSpec
CONSTANTS
    p1 = p1
    p2 = p2
    ann = ann
    bob = bob
    Users = {ann, bob}
    Admins = {ann, bob}
    Pages = {p1, p2}
    BrowserOf <- OneBrowser
    Sessions = {s1, s2}
    AbsoluteLife = 3
    IdleLife = 2
    TouchAfter = 1
    Changes <- SomeChanges
    MaxTime = 3
    Nobody = Nobody
    Tabs = {p1, p2}
    Nothing = Nobody
    Paths = {"/today", "/operations"}
    ReturnPaths = {"/", "/today"}
    Home = "/"
    Accounts = {"member", "guest", "foreigner"}
    Hosted = {"member", "guest"}
    Members = {"member", "foreigner"}
    MaxAttempts = 2
    TicketLife = 1
    KeysLife = 1
    MaxClock = 2
    MaxSecret = 2
    MaxKey = 1
INVARIANTS AdminRemains PageWritesAsShown
  
SYMMETRY Interchangeable
CHECK_DEADLOCK FALSE
