------------------------------ MODULE Workspace ------------------------------
(***************************************************************************)
(* The mail workspace (dashboard/ui/dashboard-page.ts), the page on which  *)
(* a salesperson picks a lead, reads its analysis, its company's contacts  *)
(* and the views of its mail, and edits and moves that mail.  The page is  *)
(* one script: a handler runs to its first await without interruption, and *)
(* goes on with whatever the page shows when its call is answered.  Here a *)
(* function of the script is an operator from a state of the page (a       *)
(* record) to the next, a call to the server is a member of the page's     *)
(* calls, and the calls are answered, or fail, in any order.  Equal calls  *)
(* in flight count as one.  Another tab of the same browser may change the *)
(* lead that is kept in localStorage.                                      *)
(***************************************************************************)
EXTENDS Naturals

CONSTANTS
  Leads, Companies,
  Mails,      \* naturals: a mail that is created later is greater
  CompanyOf,  \* the company of a lead
  LeadOf,     \* the lead a mail is written for
  OldMails,   \* the mails that exist when the page is opened
  Nothing,    \* null in the script
  Fails,      \* the kinds of call that may fail
  MaxClicks   \* bound on what the user does

VARIABLES
  page,    \* the script's state, and its calls
  saved,   \* the lead in localStorage, shared by the tabs
  mails,   \* the mails on the server
  stored,  \* mail -> the mail whose text the server holds for it
  ticked,  \* mail -> the mail whose ticks its checklist holds
  clicks   \* what the user has done so far, counted

vars == <<page, saved, mails, stored, ticked, clicks>>

Call(op, of) ==
  [op |-> op, of |-> of, then |-> "none", carries |-> Nothing, mails |-> {}]
Asking(p, c) == [p EXCEPT !.calls = @ \cup {c}]
Has(p, c) == [p EXCEPT !.calls = @ \ {c}]

(***************************************************************************)
(* The functions of the script.                                            *)
(***************************************************************************)
\* The mails of the selected lead and of its company, and the newest of them.
SelectedLeadMails(p) ==
  {m \in p.mails : \/ LeadOf[m] = p.lead
                   \/ p.listed /\ p.lead # Nothing
                      /\ CompanyOf[LeadOf[m]] = CompanyOf[p.lead]}

EnsureSelectedMail(p) ==
  LET own == SelectedLeadMails(p) IN
  [p EXCEPT !.mail = IF @ \in own THEN @
                     ELSE IF own = {} THEN Nothing
                     ELSE CHOOSE m \in own : \A n \in own : n <= m]

\* The editor takes the text of mail m: always if forced, else if it holds
\* another mail.
Populate(p, m, force) ==
  IF ~force /\ p.baseline = m THEN p
  ELSE [p EXCEPT !.text = m, !.typed = "clean", !.baseline = m]

LoadEngagement(p, m) ==
  CASE m = Nothing ->
         [p EXCEPT !.engagement = Nothing, !.engagementLoading = Nothing]
    [] m # Nothing /\ m \in {p.engagement, p.engagementLoading} -> p
    [] OTHER -> Asking([p EXCEPT !.engagementLoading = m],
                       Call("engagement", m))

RenderMails(p) ==
  LET q == IF p.lead = Nothing THEN p ELSE EnsureSelectedMail(p)
      m == IF p.lead = Nothing THEN Nothing ELSE q.mail
  IN  LoadEngagement(Populate(q, m, FALSE), m)

ClearMailEditor(p) ==
  Populate([p EXCEPT !.mail = Nothing, !.checklist = Nothing], Nothing, TRUE)

LoadChecklist(p) ==
  IF p.mail = Nothing THEN [p EXCEPT !.checklist = Nothing]
  ELSE Asking(p, Call("checklist", p.mail))

SelectMail(p, m) ==
  IF m \notin p.mails THEN ClearMailEditor(p)
  ELSE LoadChecklist(RenderMails(
         Populate([p EXCEPT !.mail = m, !.checklist = Nothing], m, TRUE)))

LoadAnalysis(p) ==
  IF p.lead = Nothing
  THEN RenderMails([p EXCEPT !.analysis = Nothing, !.analysisLoading = FALSE])
  ELSE Asking(RenderMails([p EXCEPT !.analysisLoading = TRUE]),
              Call("analysis", p.lead))

LoadContacts(p) ==
  IF p.lead = Nothing \/ ~p.listed
  THEN [p EXCEPT !.contacts = Nothing, !.contactsOf = Nothing,
                 !.contactsLoading = FALSE]
  ELSE Asking([p EXCEPT !.contactsOf = CompanyOf[p.lead],
                        !.contactsLoading = TRUE],
              Call("contacts", CompanyOf[p.lead]))

\* What a handler does after the call it awaited.
Then(p, then) ==
  CASE then = "none" -> p
    [] then = "select" -> SelectMail(p, p.mail)
    [] then = "analysis" -> LoadAnalysis(p)

LoadGenerations(p, then) ==
  IF p.lead = Nothing THEN Then([p EXCEPT !.generations = Nothing], then)
  ELSE Asking(p, [Call("generations", p.lead) EXCEPT !.then = then])

LoadAll(p, then) ==
  Asking(p, [Call("lists", Nothing) EXCEPT !.then = then, !.mails = mails])

After(p, then) ==
  IF then = "generations" THEN LoadGenerations(p, "select") ELSE Then(p, then)

ListsLoaded(p, c) ==
  LET lists == [p EXCEPT !.listed = TRUE, !.mails = c.mails,
                         !.lead = IF saved # Nothing THEN saved ELSE @]
      drawn == LoadContacts(RenderMails(EnsureSelectedMail(lists)))
  IN  IF drawn.lead = Nothing THEN drawn
      ELSE LoadAnalysis(LoadGenerations(drawn, "none"))

SelectLead(p, l) ==
  LET q == EnsureSelectedMail(
             [p EXCEPT !.lead = l, !.generations = Nothing,
                       !.analysis = Nothing, !.analysisLoading = FALSE,
                       !.checklist = Nothing])
      r == RenderMails(q)
      s == IF q.mail = Nothing THEN RenderMails(ClearMailEditor(r))
                               ELSE SelectMail(r, q.mail)
  IN  LoadAnalysis(LoadGenerations(LoadContacts(RenderMails(s)), "none"))

Ready(p) == \* selectedLeadContactSafety
  /\ p.lead # Nothing /\ p.listed
  /\ ~p.contactsLoading
  /\ p.contactsOf = CompanyOf[p.lead]
  /\ p.contacts # Nothing

CanGenerateMail(p) ==
  Ready(p) /\ SelectedLeadMails(p) = {} /\ p.analysis # Nothing

HasUnsavedChanges(p) ==
  p.mail # Nothing /\ p.baseline = p.mail /\ p.typed # "clean"

Opened ==
  [lead |-> Nothing, mail |-> Nothing, listed |-> FALSE, mails |-> {},
   analysis |-> Nothing, analysisLoading |-> FALSE, generations |-> Nothing,
   contacts |-> Nothing, contactsOf |-> Nothing, contactsLoading |-> FALSE,
   checklist |-> Nothing, engagement |-> Nothing,
   engagementLoading |-> Nothing,
   baseline |-> Nothing, text |-> Nothing, typed |-> "clean", calls |-> {}]

Init ==
  /\ saved \in Leads \cup {Nothing}
  /\ mails = OldMails
  /\ page = LoadAll(Opened, "none")
  /\ stored = [m \in Mails |-> m]
  /\ ticked = [m \in Mails |-> m]
  /\ clicks = 0

(***************************************************************************)
(* What the user does.                                                     *)
(***************************************************************************)
server == <<mails, stored, ticked>>

Click ==
  /\ clicks < MaxClicks
  /\ clicks' = clicks + 1

\* A lead or a mail is picked; unsaved text has been given up in a dialog.
ChooseLead(l) ==
  /\ Click
  /\ page.listed
  /\ page' = SelectLead(page, l)
  /\ saved' = l
  /\ UNCHANGED server

ChooseMail(m) ==
  /\ Click
  /\ m \in SelectedLeadMails(page)
  /\ page' = SelectMail(page, m)
  /\ UNCHANGED <<server, saved>>

ChooseElsewhere(l) ==
  /\ Click
  /\ l # saved
  /\ saved' = l
  /\ UNCHANGED <<server, page>>

Type ==
  /\ Click
  /\ page.mail # Nothing
  /\ page.typed # "typed"
  /\ page' = [page EXCEPT !.typed = "typed"]
  /\ UNCHANGED <<server, saved>>

Refresh ==
  /\ Click
  /\ page' = LoadAll(page, "none")
  /\ UNCHANGED <<server, saved>>

Patch(p, text) ==
  IF p.mail = Nothing THEN p
  ELSE Asking(p, [Call("patch", p.mail) EXCEPT !.carries = text])

\* The text is saved; addresses of company material in it are first turned,
\* one call after the other, into links that count.
Save ==
  /\ Click
  /\ page.mail # Nothing
  /\ LET p == [page EXCEPT !.typed = IF @ = "clean" THEN @ ELSE "saving"] IN
     \/ page' = Patch(p, p.text)
     \/ page' = Asking(p, [Call("track", p.mail) EXCEPT !.carries = p.text])
  /\ UNCHANGED <<server, saved>>

\* A review, an approval, a rejection, a reply...; a polish; a tracking link.
Act(op) ==
  /\ Click
  /\ op \in {"move", "polish", "link"}
  /\ page.mail # Nothing
  /\ page' = Asking(page, Call(op, page.mail))
  /\ UNCHANGED <<server, saved>>

Tick ==
  /\ Click
  /\ page.mail # Nothing /\ page.checklist # Nothing
  /\ page' = Asking(page, [Call("ticks", page.mail)
                             EXCEPT !.carries = page.checklist])
  /\ UNCHANGED <<server, saved>>

Generate ==
  /\ Click
  /\ CanGenerateMail(page)
  /\ page' = Asking(page, [Call("generate", page.lead)
                             EXCEPT !.carries = page.analysis])
  /\ UNCHANGED <<server, saved>>

Analyze ==
  /\ Click
  /\ page.lead # Nothing
  /\ page' = Asking(page, Call("analyze", page.lead))
  /\ UNCHANGED <<server, saved>>

\* The analysis in the editor is saved or confirmed; the editor is shut
\* while an analysis is loaded.
KeepAnalysis ==
  /\ Click
  /\ page.lead # Nothing /\ ~page.analysisLoading /\ page.analysis # Nothing
  /\ page' = Asking(page, [Call("keep", page.lead)
                             EXCEPT !.carries = page.analysis])
  /\ UNCHANGED <<server, saved>>

\* A contact of the company is saved, archived or unsubscribed.
EditContact ==
  /\ Click
  /\ Ready(page)
  /\ page' = Asking(page, Call("contact", page.contacts))
  /\ UNCHANGED <<server, saved>>

(***************************************************************************)
(* The answers.                                                            *)
(***************************************************************************)
\* Mutant: an answer that comes too late resets nothing.
EngagementShownInTime(p, c) ==
  IF p.mail # c.of THEN p
  ELSE [p EXCEPT !.engagement = c.of, !.engagementLoading = Nothing]

EngagementShown(p, c) ==
  LET q == IF p.mail # c.of THEN p
           ELSE [p EXCEPT !.engagement = c.of]
  IN  [q EXCEPT !.engagementLoading = IF @ = c.of THEN Nothing ELSE @]

\* Mutant: no test of the lead after the await.
AnalysisShownToAny(p, c) ==
  RenderMails([p EXCEPT !.analysis = c.of, !.analysisLoading = FALSE])

AnalysisShown(p, c) ==
  IF p.lead # c.of THEN p
  ELSE RenderMails([p EXCEPT !.analysis = c.of, !.analysisLoading = FALSE])

ContactsShown(p, c) ==
  IF p.contactsOf # c.of THEN p
  ELSE [p EXCEPT !.contacts = c.of, !.contactsLoading = FALSE]

\* The captured text goes back into the editor and to the selected mail.
Tracked(p, c) ==
  LET q == [p EXCEPT !.text = c.carries,
                     !.typed = IF p.mail = c.of THEN "saving" ELSE "typed"]
  IN  Patch(q, c.carries)

\* The saved text becomes what the editor is compared with.
Patched(p, c) ==
  LoadAll([p EXCEPT !.baseline = p.mail,
                    !.typed = IF p.mail = c.of /\ @ # "typed"
                              THEN "clean" ELSE "typed"], "none")

\* The link is written into the text of the mail that is selected now.
Linked(p, c) ==
  LET q == [p EXCEPT !.engagement = Nothing,
                     !.typed = IF p.mail = Nothing THEN @ ELSE "typed"]
  IN  LoadEngagement(q, c.of)

\* What the page does with the answer to a call that only reads or that
\* writes nothing kept here.
Shown(p, c) ==
  CASE c.op = "lists" -> After(ListsLoaded(p, c), c.then)
    [] c.op = "engagement" -> EngagementShown(p, c)
    [] c.op = "checklist" -> RenderMails([p EXCEPT !.checklist = c.of])
    [] c.op = "generations" -> Then([p EXCEPT !.generations = c.of], c.then)
    [] c.op = "analysis" -> AnalysisShown(p, c)
    [] c.op = "contacts" -> ContactsShown(p, c)
    [] c.op = "track" -> Tracked(p, c)
    [] c.op = "link" -> Linked(p, c)
    [] c.op = "move" -> LoadAll(p, "select")
    [] c.op = "polish" ->
         LoadAll(Populate([p EXCEPT !.mail = c.of], c.of, TRUE), "generations")
    [] c.op = "analyze" -> LoadGenerations(p, "analysis")
    [] c.op = "keep" -> LoadAnalysis(p)
    [] c.op = "contact" -> LoadContacts(p)

Answer(c) ==
  /\ c.op \notin {"patch", "ticks", "generate"}
  /\ page' = Shown(Has(page, c), c)
  /\ UNCHANGED <<server, saved, clicks>>

AnswerPatch(c) ==
  /\ c.op = "patch"
  /\ stored' = [stored EXCEPT ![c.of] = c.carries]
  /\ page' = Patched(Has(page, c), c)
  /\ UNCHANGED <<mails, ticked, saved, clicks>>

AnswerTicks(c) ==
  /\ c.op = "ticks"
  /\ ticked' = [ticked EXCEPT ![c.of] = c.carries]
  /\ page' = RenderMails([Has(page, c) EXCEPT !.checklist = c.of])
  /\ UNCHANGED <<mails, stored, saved, clicks>>

\* The server refuses an analysis of another lead and a second mail.
AnswerGenerate(c) ==
  /\ c.op = "generate"
  /\ c.carries = c.of
  /\ \E m \in Mails \ mails :
       /\ LeadOf[m] = c.of
       /\ \A n \in mails : LeadOf[n] # c.of
       /\ mails' = mails \cup {m}
       /\ page' = Asking(
                    Populate([Has(page, c) EXCEPT !.mail = m], m, TRUE),
                    [Call("lists", Nothing)
                       EXCEPT !.then = "generations", !.mails = mails'])
  /\ UNCHANGED <<stored, ticked, saved, clicks>>

\* The catch of each function.
Failed(p, c) ==
  CASE c.op = "lists" -> After(p, c.then)
    [] c.op = "engagement" ->
         LET q == IF p.mail # c.of THEN p
                  ELSE [p EXCEPT !.engagement = Nothing]
         IN  [q EXCEPT !.engagementLoading = IF @ = c.of THEN Nothing ELSE @]
    [] c.op = "generations" -> Then(p, c.then)
    [] c.op = "analysis" ->
         IF p.lead # c.of THEN p
         ELSE RenderMails([p EXCEPT !.analysis = Nothing,
                                    !.analysisLoading = FALSE])
    [] c.op = "contacts" ->
         IF p.contactsOf # c.of THEN p
         ELSE [p EXCEPT !.contacts = Nothing, !.contactsLoading = FALSE]
    [] OTHER -> p

Fail(c) ==
  /\ c.op \in Fails \cup {"generate"}
  /\ page' = Failed(Has(page, c), c)
  /\ UNCHANGED <<server, saved, clicks>>

Outcome(c) ==
  Answer(c) \/ AnswerPatch(c) \/ AnswerTicks(c) \/ AnswerGenerate(c) \/ Fail(c)

UserActs ==
  \/ \E l \in Leads : ChooseLead(l) \/ ChooseElsewhere(l)
  \/ \E m \in Mails : ChooseMail(m)
  \/ Type \/ Refresh \/ Save \/ Tick
  \/ Generate \/ Analyze \/ KeepAnalysis \/ EditContact
  \/ \E op \in {"move", "polish", "link"} : Act(op)

Ops == {"lists", "engagement", "checklist", "generations", "analysis",
        "contacts", "track", "patch", "ticks", "link", "move", "polish",
        "generate", "analyze", "keep", "contact"}

Next == UserActs \/ \E c \in page.calls : Outcome(c)

Spec == Init /\ [][Next]_vars
-----------------------------------------------------------------------------
(***************************************************************************)
(* Properties.                                                             *)
(***************************************************************************)
Somewhere(S) == S \cup {Nothing}

TypeOK ==
  /\ page.calls \subseteq
       [op : Ops, of : Leads \cup Companies \cup Somewhere(Mails),
        then : {"none", "select", "generations", "analysis"},
        carries : Leads \cup Somewhere(Mails), mails : SUBSET Mails]
  /\ page.lead \in Somewhere(Leads) /\ page.analysis \in Somewhere(Leads)
  /\ page.mail \in Somewhere(Mails) /\ page.text \in Somewhere(Mails)
  /\ page.contacts \in Somewhere(Companies)
  /\ page.typed \in {"clean", "typed", "saving"}
  /\ saved \in Somewhere(Leads) /\ mails \subseteq Mails
  /\ stored \in [Mails -> Mails] /\ ticked \in [Mails -> Mails]

\* An analysis that can be edited, confirmed or written from is the selected
\* lead's, in whatever order the answers of several leads come, and though
\* another tab changes the lead under the page: until the answer for the new
\* lead is there, the page is loading (loadStructuredAnalysis).
AnalysisIsOfLead ==
  page.analysisLoading \/ page.analysis \in {Nothing, page.lead}

\* The contacts that unlock generation, review and approval are those of the
\* company of the selected lead (loadCompanyContacts,
\* selectedLeadContactSafety).
ContactsAreOfCompany ==
  Ready(page) => page.contacts = CompanyOf[page.lead]

\* What the page compares the editor with, to warn of unsaved changes, is the
\* selected mail, whichever handler changed the selection.
EditorIsOfMail == page.baseline = page.mail

\* What is shown as loading is being loaded: no order of choices, answers and
\* failures leaves a flag set that no answer will reset (it would shut the
\* analysis and the buttons of the mail for good).
LoadingIsAnswered ==
  /\ page.analysisLoading => Call("analysis", page.lead) \in page.calls
  /\ page.contactsLoading => Call("contacts", page.contactsOf) \in page.calls
  /\ page.engagementLoading = Nothing
     \/ Call("engagement", page.engagementLoading) \in page.calls

\* Text is stored for the mail it was written in.
SavedToItsMail == \A m \in Mails : stored[m] = m

\* Ticks are stored for the mail they were made for.
TickedForItsMail == \A m \in Mails : ticked[m] = m

\* Unsaved text goes away only when it is saved, or when the user picks a
\* lead or a mail and confirms.
UnsavedIsKept ==
  [][HasUnsavedChanges(page) /\ page'.typed = "clean"
       => \/ \E l \in Leads : ChooseLead(l)
          \/ \E m \in Mails : ChooseMail(m)
          \/ \E c \in page.calls : AnswerPatch(c)]_vars
=============================================================================
