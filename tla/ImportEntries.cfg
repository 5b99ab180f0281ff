SPECIFICATION MCSpec
CONSTANTS
    b1 = b1
    s1 = s1
    x = x
    y = y
    acme = acme
    bolt = bolt
    e1 = e1
    e2 = e2
    e3 = e3
    e4 = e4
    e5 = e5
    p = p
    q = q
    r = r
    t = t
    a1 = a1
    a2 = a2
    a3 = a3
    Bulks = {}
    Singles = {s1, b1}
    Urls = {x, y}
    RequestUrls <- BothUrls
    NameOnPage <- SameCompany
    Names = {acme, bolt}
    Slots = {1, 2}
    Editors = {u1}
    Companies = {1, 2}
    HandNames = {}
    HandLeads = TRUE
    MaxEdits = 2
    Nobody = Nobody
    Entries = {e1, e2, e3, e4, e5}
    ProjectOf <- FiveEntries
    Plain = {e1, e3, e4, e5}
    DaysLeft <- Days
    Seasoned = {e1, e2, e4}
    Listing <- Listed
    Newest = e5
    Addresses <- ThreeAddresses
    ListedAt <- AtAddresses
    Imported = {p}
    Limits <- Rounds
    SearchRequests <- FiveRequests
    EndingSoonDays = 2
    MaxAttempts = 2
    MaxCandidates = 4
    LookupsAtOnce = 2
    MaxLooks = 3
    AddressesAtOnce = 2
    Pool = 3
    MaxPages = 5
    PagesAtOnce = 2
    MaxSearches <- Searches
PROPERTY EntriesStay
CHECK_DEADLOCK FALSE
