----------------------------- MODULE LeadsScreen -----------------------------
(***************************************************************************)
(* The page of the leads (dashboard/ui/leads-page.ts): a list that filters *)
(* and pages choose, and beside it the lead that is selected, with its     *)
(* opportunity, analysis, tasks and the contacts of its company.  As in    *)
(* Workspace, a function of the script is an operator on the state of the  *)
(* page, and the calls to the server are answered, or fail, in any order.  *)
(* What a panel shows is named by the lead, or company, it belongs to; a   *)
(* lead has one task and a company one contact.                            *)
(***************************************************************************)
EXTENDS Naturals

CONSTANTS
  Leads,
  CompanyOf,   \* the company of a lead
  Lists,       \* what the controls above the list may ask for
  ListOf,      \* the leads each of them shows
  Nothing,     \* null in the script
  Fails,       \* the kinds of call that may fail
  OtherTabs,   \* whether another tab selects leads
  MaxClicks    \* bound on what the user does

VARIABLES
  page,    \* the script's state, and its calls
  saved,   \* the lead in localStorage, shared by the tabs
  clicks   \* what the user has done so far, counted

vars == <<page, saved, clicks>>

Call(op, of) == [op |-> op, of |-> of, number |-> 0, carries |-> Nothing]
Asking(p, c) == [p EXCEPT !.calls = @ \cup {c}]
Has(p, c) == [p EXCEPT !.calls = @ \ {c}]

(***************************************************************************)
(* The functions of the script.                                            *)
(***************************************************************************)
Listed(p) == IF p.shown = Nothing THEN {} ELSE ListOf[p.shown]

SelectedLead(p) ==
  IF p.lead \in Listed(p) \cup {p.record} THEN p.lead ELSE Nothing

LoadContacts(p) ==
  LET l == SelectedLead(p) IN
  IF l = Nothing
  THEN [p EXCEPT !.contacts = Nothing, !.contactsOf = Nothing,
                 !.contact = Nothing, !.contactsLoading = FALSE]
  ELSE Asking([p EXCEPT !.contactsOf = CompanyOf[l], !.contactsLoading = TRUE],
              Call("contacts", CompanyOf[l]))

LoadTasks(p) ==
  LET q == [p EXCEPT !.tasks = Nothing] IN
  IF p.lead = Nothing THEN q ELSE Asking(q, Call("tasks", p.lead))

LoadGenerations(p) ==
  IF p.lead = Nothing THEN [p EXCEPT !.generations = Nothing]
  ELSE Asking(p, Call("generations", p.lead))

LoadAnalysis(p) ==
  IF p.lead = Nothing
  THEN [p EXCEPT !.analysis = Nothing, !.analysisLoading = FALSE]
  ELSE Asking([p EXCEPT !.analysisLoading = TRUE], Call("analysis", p.lead))

\* The opportunity and its history are asked for together; `then' is the lead
\* that is refreshed when they are here.
LoadOpportunity(p, then) ==
  LET n == p.oppNumber + 1
      q == [p EXCEPT !.oppNumber = n, !.opportunity = Nothing,
                     !.oppLoading = (p.lead # Nothing)]
  IN  IF p.lead = Nothing THEN q
      ELSE Asking(q, [Call("opportunity", p.lead) EXCEPT !.number = n,
                                                         !.carries = then])

RefreshSelectedLead(p, l) ==
  IF l = Nothing \/ l # p.lead THEN p ELSE Asking(p, Call("refresh", l))

\* The list is asked for by loadLeadPage, or by loadAll, with the lead.
LoadLists(p, op) ==
  LET n == p.number + 1 IN
  Asking([p EXCEPT !.number = n, !.timer = FALSE],
         [Call(op, p.asked) EXCEPT !.number = n])

ApplyList(p, list) ==
  LET q == [p EXCEPT !.shown = list, !.error = FALSE] IN
  IF p.lead \in Listed(q) THEN [q EXCEPT !.record = p.lead] ELSE q

\* The last steps of loadAll, unless the list was asked for anew.
LoadRest(p, number) ==
  IF number # p.number THEN p
  ELSE LoadOpportunity(LoadAnalysis(LoadTasks(LoadContacts(p))), Nothing)

\* restoreSelectedLead: a lead that is not in the list is asked for.
Restored(p, number) ==
  IF saved = Nothing THEN LoadRest(p, number)
  ELSE LET q == [p EXCEPT !.lead = saved] IN
       IF saved \in Listed(p)
       THEN LoadRest([q EXCEPT !.record = saved], number)
       ELSE Asking(q, [Call("lead", saved) EXCEPT !.number = number])

SelectLead(p, l) ==
  LET q == [p EXCEPT !.lead = l, !.record = l, !.generations = Nothing,
                     !.analysis = Nothing, !.analysisLoading = FALSE,
                     !.opportunity = Nothing]
  IN  LoadOpportunity(LoadAnalysis(LoadGenerations(LoadTasks(
        LoadContacts(q)))), Nothing)

Opened(list) ==
  [lead |-> Nothing, record |-> Nothing, asked |-> list, shown |-> Nothing,
   number |-> 0, timer |-> FALSE, error |-> FALSE,
   opportunity |-> Nothing, oppNumber |-> 0, oppLoading |-> FALSE,
   analysis |-> Nothing, analysisLoading |-> FALSE, generations |-> Nothing,
   tasks |-> Nothing, editing |-> Nothing,
   contacts |-> Nothing, contactsOf |-> Nothing, contactsLoading |-> FALSE,
   contact |-> Nothing, calls |-> {}]

Init ==
  /\ saved \in Leads \cup {Nothing}
  /\ \E list \in Lists : page = LoadLists(Opened(list), "all")
  /\ clicks = 0

(***************************************************************************)
(* What the user does, and the timer.                                      *)
(***************************************************************************)
Click ==
  /\ clicks < MaxClicks
  /\ clicks' = clicks + 1

ChooseLead(l) ==
  /\ Click
  /\ l \in Listed(page)
  /\ page' = SelectLead(page, l)
  /\ saved' = l

ChooseElsewhere(l) ==
  /\ OtherTabs
  /\ Click
  /\ l # saved
  /\ saved' = l
  /\ UNCHANGED page

\* A summary, a page, an order, a filter that is chosen: at once.
ChooseList(list) ==
  /\ Click
  /\ page' = LoadLists([page EXCEPT !.asked = list], "page")
  /\ UNCHANGED saved

\* A keyword is typed: the list waits for 300 ms without typing, and what was
\* asked for before is no longer wanted.
TypeKeyword(list) ==
  /\ Click
  /\ page' = [page EXCEPT !.asked = list, !.number = @ + 1, !.timer = TRUE]
  /\ UNCHANGED saved

TimerFires ==
  /\ page.timer
  /\ page' = LoadLists(page, "page")
  /\ UNCHANGED <<saved, clicks>>

Refresh ==
  /\ Click
  /\ page' = LoadLists(page, "all")
  /\ UNCHANGED saved

\* The form of the lead, of its company and its project is saved.
SaveLead ==
  /\ Click
  /\ SelectedLead(page) # Nothing
  /\ page' = Asking(page, Call("edit", page.lead))
  /\ UNCHANGED saved

\* The opportunity is changed, moved or reopened, with the version shown.
SaveOpportunity(op) ==
  /\ Click
  /\ op \in {"details", "move"}
  /\ page.lead # Nothing /\ page.opportunity # Nothing
  /\ page' = Asking(page, [Call(op, page.lead)
                             EXCEPT !.carries = page.opportunity])
  /\ UNCHANGED saved

KeepAnalysis ==
  /\ Click
  /\ page.lead # Nothing /\ ~page.analysisLoading
  /\ page' = Asking(page, Call("keep", page.lead))
  /\ UNCHANGED saved

EditTask ==
  /\ Click
  /\ page.tasks # Nothing
  /\ page' = [page EXCEPT !.editing = page.tasks]
  /\ UNCHANGED saved

\* The task that is edited, or a new one, is saved.
SaveTask ==
  /\ Click
  /\ page.lead # Nothing
  /\ page' = Asking(page, [Call("task", page.lead)
                             EXCEPT !.carries = page.editing])
  /\ UNCHANGED saved

MoveTask ==
  /\ Click
  /\ page.tasks # Nothing
  /\ page' = Asking(page, Call("status", page.tasks))
  /\ UNCHANGED saved

PickContact(k) ==
  /\ Click
  /\ SelectedLead(page) # Nothing
  /\ k \in {Nothing, page.contacts}
  /\ page' = [page EXCEPT !.contact = k]
  /\ UNCHANGED saved

\* The contact that is selected, or a new one, is saved; one that is selected
\* may be archived or unsubscribed.
SaveContact ==
  /\ Click
  /\ SelectedLead(page) # Nothing
  /\ page' = Asking(page, [Call("contact", page.lead)
                             EXCEPT !.carries = page.contact])
  /\ UNCHANGED saved

(***************************************************************************)
(* The answers.                                                            *)
(***************************************************************************)
ListShown(p, c) ==
  IF c.number # p.number THEN p
  ELSE IF c.op = "all" THEN Restored(ApplyList(p, c.of), c.number)
  ELSE ApplyList(p, c.of)

OpportunityShown(p, c) ==
  IF c.number # p.oppNumber \/ c.of # p.lead THEN p
  ELSE [p EXCEPT !.opportunity = c.of, !.oppLoading = FALSE]

ContactsShown(p, c) ==
  IF p.contactsOf # c.of THEN p
  ELSE [p EXCEPT !.contacts = c.of, !.contact = c.of, !.contactsLoading = FALSE]

Shown(p, c) ==
  CASE c.op \in {"all", "page"} -> ListShown(p, c)
    [] c.op = "lead" -> LoadRest([p EXCEPT !.record = c.of], c.number)
    [] c.op = "opportunity" ->
         RefreshSelectedLead(OpportunityShown(p, c), c.carries)
    [] c.op = "generations" -> [p EXCEPT !.generations = c.of]
    [] c.op = "analysis" ->
         IF p.lead # c.of THEN p
         ELSE [p EXCEPT !.analysis = c.of, !.analysisLoading = FALSE]
    [] c.op = "tasks" -> IF p.lead # c.of THEN p ELSE [p EXCEPT !.tasks = c.of]
    [] c.op = "contacts" -> ContactsShown(p, c)
    [] c.op = "refresh" ->
         IF p.lead # c.of THEN p ELSE [p EXCEPT !.record = c.of, !.tasks = c.of]
    [] c.op = "edit" -> LoadLists(p, "all")
    [] c.op = "details" -> LoadOpportunity(p, Nothing)
    [] c.op = "move" -> LoadOpportunity(p, c.of)
    [] c.op = "keep" -> LoadAnalysis(p)
    [] c.op = "task" ->
         RefreshSelectedLead([p EXCEPT !.editing = Nothing], c.of)
    [] c.op = "status" ->
         RefreshSelectedLead([p EXCEPT !.editing = Nothing], p.lead)
    [] c.op = "contact" ->
         LoadContacts([p EXCEPT !.contact = IF c.carries # Nothing THEN c.carries
                                            ELSE CompanyOf[c.of]])

Answer(c) ==
  /\ page' = Shown(Has(page, c), c)
  /\ UNCHANGED <<saved, clicks>>

\* The catch of each function.
Failed(p, c) ==
  CASE c.op = "all" \/ (c.op = "page" /\ c.number = p.number) ->
         [p EXCEPT !.error = TRUE]
    [] c.op = "lead" ->
         LoadRest([p EXCEPT !.lead = Nothing, !.record = Nothing], c.number)
    [] c.op = "opportunity" ->
         RefreshSelectedLead(
           IF c.number # p.oppNumber \/ c.of # p.lead THEN p
           ELSE [p EXCEPT !.oppLoading = FALSE], c.carries)
    [] c.op = "analysis" /\ p.lead = c.of ->
         [p EXCEPT !.analysis = Nothing, !.analysisLoading = FALSE]
    [] c.op = "contacts" /\ p.contactsOf = c.of ->
         [p EXCEPT !.contacts = Nothing, !.contactsLoading = FALSE]
    [] OTHER -> p

\* A lead that cannot be restored is forgotten in localStorage, too.
Fail(c) ==
  /\ c.op \in Fails
  /\ page' = Failed(Has(page, c), c)
  /\ saved' = IF c.op = "lead" THEN Nothing ELSE saved
  /\ UNCHANGED clicks

Next ==
  \/ \E l \in Leads : ChooseLead(l) \/ ChooseElsewhere(l)
  \/ \E list \in Lists : ChooseList(list) \/ TypeKeyword(list)
  \/ TimerFires \/ Refresh \/ SaveLead \/ KeepAnalysis
  \/ \E op \in {"details", "move"} : SaveOpportunity(op)
  \/ EditTask \/ SaveTask \/ MoveTask \/ SaveContact
  \/ \E k \in {Nothing, page.contacts} : PickContact(k)
  \/ \E c \in page.calls : Answer(c) \/ Fail(c)

Spec == Init /\ [][Next]_vars

-----------------------------------------------------------------------------
(***************************************************************************)
(* Properties.                                                             *)
(***************************************************************************)
Somewhere(S) == S \cup {Nothing}

TypeOK ==
  /\ page.lead \in Somewhere(Leads) /\ page.record \in Somewhere(Leads)
  /\ page.asked \in Lists /\ page.shown \in Somewhere(Lists)
  /\ page.opportunity \in Somewhere(Leads) /\ page.analysis \in Somewhere(Leads)
  /\ page.tasks \in Somewhere(Leads) /\ page.editing \in Somewhere(Leads)
  /\ saved \in Somewhere(Leads)

\* The list shown is the one the controls ask for, or it is on its way, or an
\* error is shown: fast typing, paging and refreshing end with the last list,
\* in whatever order the answers come (leadListRequestId).
ListIsOfControls ==
  \/ page.shown = page.asked \/ page.timer \/ page.error
  \/ \E c \in page.calls : c.op \in {"all", "page"} /\ c.number = page.number

\* The opportunity whose version is sent along with a change is that of the
\* selected lead, in whatever order opportunities are answered
\* (opportunityRequestId), as long as no other tab selects leads.
OpportunityIsOfLead ==
  OtherTabs \/ page.lead = Nothing \/ page.opportunity \in {Nothing, page.lead}

\* A task that is edited belongs to the lead that is selected.  Not so: another
\* lead may be selected in between, and what looks like a new task of that lead
\* is written over the old one (editingTaskId, leads-page.ts:870).
TaskIsOfLead == \A c \in page.calls : c.op = "task" => c.carries \in {Nothing, c.of}

\* A contact that is saved belongs to the company of the selected lead.  Not so:
\* until the contacts of a new company are there, or if they do not come, what
\* looks like a new contact is written over the old one (selectedContactId).
ContactIsOfCompany ==
  \A c \in page.calls : c.op = "contact" => c.carries \in {Nothing, CompanyOf[c.of]}

\* A lead the user selects stays selected until he selects another one.
ChoiceIsKept ==
  [][page.lead # Nothing /\ page.lead = saved => page'.lead # Nothing]_vars
=============================================================================
