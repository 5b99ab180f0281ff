SPECIFICATION RecordsSpec
CONSTANTS
    l1 = l1
    p1 = p1
    c1 = c1
    a1 = a1
    a2 = a2
    m1 = m1
    m2 = m2
    q1 = q1
    q2 = q2
    Leads = {l1}
    ProjectOf <- OneLead
    Contents = {k1, k2}
    Users = {u1, u2}
    MaxVersion = 2
    Nothing = Nothing
    Companies = {c1}
    Addresses = {a1, a2}
    LeadAddress <- NotedAddress
    Mails = {m1, m2}
    Requests = {q1, q2}
    Creations <- NewContacts
    Edits <- ScreenEdits
    Texts = {"stop"}
    MaxContacts = 2
    MaxSendings = 2
    Absent = Absent
SYMMETRY Interchangeable
 
PROPERTIES NoEditIsLost ConfirmedIsCurrent DraftIsFromLatestConfirmed 
CHECK_DEADLOCK FALSE
