SPECIFICATION MCSpec
CONSTANTS
  l1 = l1
  l2 = l2
  c1 = c1
  c2 = c2
  s1 = s1
  s2 = s2
  u1 = u1
  u2 = u2
  Leads = {l1, l2}
  Companies = {c1, c2}
  Mails = {1, 2}
  CompanyOf <- MCCompanyOf
  LeadOf <- MCLeadOf
  OldMails = {1}
  Nothing = Nothing
  Fails = {"lists", "analysis"}
  MaxClicks = 3
  Sources = {s1, s2}
  Urls = {u1, u2}
  OldLeads = {u1}
  SearchFails = {"start", "lists", "poll", "cancel", "import"}
  MaxJobs = 2
  Controls = {"one", "both"}
  ListOf <- MCListOf
  ListFails = {"all", "page", "lead", "opportunity", "contacts"}
  OtherTabs = FALSE
  MaxListClicks = 2
  Filters = {"these", "those"}
  First = "these"
  ListPages = 2
  MaxActs = 4
  Sold = {l1}
  SoldOf <- MCSoldOf
  Jobs = {1, 2}
  Day = 2
  Offset = 1
  MaxTime = 1
  MaxReplies = 1
  MaxMoves = 2
  Requests = {1, 2}
  Readers = {"a", "b"}
  Links = {"u"}
  Labels = {"material", "other"}
  Material = "material"
  ClickWindow = 1
  OpenWindow = 1
  MaxHour = 2
  MaxRows = 3
  Exported = {1, 2, 3}
  Views = {"some", "all"}
  Matching <- MCMatching
  PageSize = 1
  Workers = {1, 2}
  MaxChanges = 2
INVARIANTS  NothingIsLeftHanging ListsAreOfLastRequest 
CHECK_DEADLOCK FALSE
