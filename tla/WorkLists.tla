------------------------------ MODULE WorkLists ------------------------------
(***************************************************************************)
(* What there is to do, as three views of the leads show it: the work of   *)
(* today (LeadsService.listToday), the badge beside its link               *)
(* (NavigationSummaryService) and the list of leads with its filters       *)
(* (LeadsService.list), together with everything that changes what they    *)
(* show: edits of the lead with the dates they imply, tasks, the mail, its *)
(* replies, the end of the opportunity and the passing of days.            *)
(* Time is counted in half days.  A lead has at most one mail (createDraft)*)
(* and is never marked as deleted (no code does).                          *)
(***************************************************************************)
EXTENDS Integers, FiniteSets, FiniteSetsExt

CONSTANTS
  Leads,
  Tasks,      \* the tasks a lead may have, in the order of their creation
  Nothing,    \* null
  Absent,     \* undefined: a field the request does not have
  Limit,      \* leads on a page
  Filters,    \* the filters that are asked for, of NextActionFilters and MailFilters
  Categories, \* the replies that come: categories of classifyReplyText
  MaxTime,    \* bound on the time
  MaxChanges  \* bound on the changes

VARIABLES
  rows,     \* the row of each lead, with its tasks, its mail and their replies
  now,
  list,     \* a request for the list of leads
  changes   \* the changes so far, counted

vars == <<rows, now, list, changes>>

Far == MaxTime + 1       \* no date lies beyond this one
Day(t) == t \div 2
EndOfToday(t) == 2 * Day(t) + 1
DaysFrom(days) == Min({now + 2 * days, Far})

IsDate(date) == date \notin {Nothing, Absent}
By(date, t) == IsDate(date) /\ date <= t

(***************************************************************************)
(* The dates that an edit implies: applyLeadPolicy.                        *)
(***************************************************************************)
TerminalStatuses == {"rejected", "archived"}

DefaultNextActionAt(status, priority) ==
  IF status = "meeting_candidate" \/ priority = "high" THEN DaysFrom(1)
  ELSE IF status = "qualified" THEN DaysFrom(2)
  ELSE IF status = "discovered" THEN DaysFrom(3)
  ELSE Absent

DefaultNextFollowUpAt(status) ==
  CASE status = "contacted" -> DaysFrom(3)
    [] status = "no_response" -> DaysFrom(7)
    [] OTHER -> Absent

Either(given, default) == IF given # Absent THEN given ELSE default

LeadPolicy(dto) ==
  IF dto.status \in TerminalStatuses
  THEN [action |-> Nothing, follow |-> Nothing]
  ELSE [action |-> Either(dto.action, DefaultNextActionAt(dto.status, dto.priority)),
        follow |-> Either(dto.follow, DefaultNextFollowUpAt(dto.status))]

(***************************************************************************)
(* The work of today.                                                      *)
(***************************************************************************)
ActiveTasks(r) == {k \in Tasks : r.tasks[k].status \in {"todo", "doing"}}

\* By due date, tasks without one last, then by creation.
Before(r, k, other) ==
  LET due == r.tasks[k].due
      second == r.tasks[other].due
  IN  \/ due # Nothing /\ second = Nothing
      \/ due # Nothing /\ second # Nothing /\ due < second
      \/ due = second /\ k <= other

NextTask(r) ==
  CHOOSE k \in ActiveTasks(r) : \A other \in ActiveTasks(r) : Before(r, k, other)

NextTaskDue(r) ==
  IF ActiveTasks(r) = {} THEN Nothing ELSE r.tasks[NextTask(r)].due

Or(date, other) == IF date # Nothing THEN date ELSE other

DueCategory(date, t) ==
  IF ~By(date, EndOfToday(t)) THEN Nothing
  ELSE IF Day(date) < Day(t) THEN "overdue" ELSE "due_today"

ClassifyTodaySales(action, follow, mail, hasReply, t) ==
  LET due == DueCategory(Or(action, follow), t) IN
  IF due # Nothing THEN due
  ELSE IF hasReply THEN "reply_received"
  ELSE CASE mail = "failed" -> "send_failed"
         [] mail = "draft" -> "draft_review"
         [] mail = "approved" -> "approval_pending"
         [] mail = "queued" -> "send_queue"
         [] OTHER -> Nothing

\* Mutant: the query knows no dates but those of the lead.
IsCandidateByLead(r, t) ==
  \/ By(r.action, EndOfToday(t)) \/ By(r.follow, EndOfToday(t))
  \/ r.status = "replied"
  \/ r.mail \in {"draft", "approved", "queued", "failed"}

\* What the query of listToday asks the database for.
IsCandidate(r, t) ==
  \/ By(r.action, EndOfToday(t)) \/ By(r.follow, EndOfToday(t))
  \/ \E k \in ActiveTasks(r) : By(r.tasks[k].due, EndOfToday(t))
  \/ r.status = "replied"
  \/ r.mail \in {"draft", "approved", "queued", "failed"}

TodayCategory(r, t) ==
  ClassifyTodaySales(Or(NextTaskDue(r), r.action), r.follow, r.mail,
                     r.status = "replied" \/ r.replies > 0, t)

OnToday(r, t) == IsCandidate(r, t) /\ TodayCategory(r, t) # Nothing

\* The badge asks for all leads, and for a reply only the status of the lead.
InBadge(r, t) ==
  LET due == NextTaskDue(r) IN
  ClassifyTodaySales(Or(due, r.action), IF due # Nothing THEN Nothing ELSE r.follow,
                     r.mail, r.status = "replied", t) # Nothing

(***************************************************************************)
(* The list of leads: three statements in one transaction, of which the    *)
(* first one fixes what all of them see (RepeatableRead).                  *)
(***************************************************************************)
NextActionFilters == {"overdue", "scheduled", "none"}
MailFilters == {"draft", "in_review", "queued"}

Matches(r, filter, t) ==
  LET dates == {r.action, r.follow} \cup {r.tasks[k].due : k \in ActiveTasks(r)}
      scheduled == IsDate(r.action) \/ IsDate(r.follow) \/ ActiveTasks(r) # {}
  IN  CASE filter = "overdue" -> \E date \in dates : By(date, t)
        [] filter = "scheduled" -> scheduled
        [] filter = "none" -> ~scheduled
        [] filter \in MailFilters -> r.mail = filter

Matching(data, filter, t) == {l \in Leads : Matches(data[l], filter, t)}

NoList == [step |-> "idle", filter |-> Nothing, at |-> 0, data |-> Nothing,
           total |-> 0, ids |-> {}, items |-> {}]

\* Mutant: every statement sees what is committed when it begins.
SeenByStatement == rows

\* What a statement of the transaction sees.
Seen == list.data

AskList(filter) ==
  /\ list.step \in {"idle", "answered"}
  /\ list' = [NoList EXCEPT !.step = "stats", !.filter = filter, !.at = now]
  /\ UNCHANGED <<rows, now, changes>>

ListStats ==
  /\ list.step = "stats"
  /\ list' = [list EXCEPT !.step = "ids", !.data = rows,
                          !.total = Cardinality(Matching(rows, list.filter, list.at))]
  /\ UNCHANGED <<rows, now, changes>>

\* The first page, in an order that is no matter here.
ListPageIds ==
  /\ list.step = "ids"
  /\ LET found == Matching(Seen, list.filter, list.at) IN
     \E ids \in SUBSET found :
       /\ Cardinality(ids) = Min({Limit, Cardinality(found)})
       /\ list' = [list EXCEPT !.step = "rows", !.ids = ids]
  /\ UNCHANGED <<rows, now, changes>>

ListRows ==
  /\ list.step = "rows"
  /\ list' = [list EXCEPT !.step = "answered", !.data = Nothing,
                          !.items = {[lead |-> l, row |-> Seen[l]] : l \in list.ids}]
  /\ UNCHANGED <<rows, now, changes>>

(***************************************************************************)
(* What changes the leads.                                                 *)
(***************************************************************************)
Change(l, row) ==
  /\ changes < MaxChanges
  /\ changes' = changes + 1
  /\ rows' = [rows EXCEPT ![l] = row]
  /\ UNCHANGED <<now, list>>

\* An edit has a status, a priority, or dates, of which some may be null.
Edits ==
  [status : {Absent, "contacted", "rejected"}, priority : {Absent, "high"},
   action : {Absent, Nothing, now}, follow : {Absent, now}]

UpdateLead(l, dto) ==
  LET r == rows[l]
      patch == LeadPolicy(dto)
  IN  Change(l, [r EXCEPT !.status = Either(dto.status, @),
                          !.action = Either(patch.action, @),
                          !.follow = Either(patch.follow, @)])

CreateTask(l, k, due) ==
  /\ rows[l].tasks[k].status = Nothing
  /\ rows[l].status \notin TerminalStatuses
  /\ Change(l, [rows[l] EXCEPT !.tasks[k] = [status |-> "todo", due |-> due]])

\* The date or the status: active tasks are done, and ended ones taken up again.
UpdateTask(l, k, due, status) ==
  LET current == rows[l].tasks[k] IN
  /\ current.status # Nothing
  /\ Change(l, [rows[l] EXCEPT !.tasks[k] = [status |-> status, due |-> due]])

CreateDraft(l) ==
  /\ rows[l].mail = Nothing
  /\ Change(l, [rows[l] EXCEPT !.mail = "draft", !.status = "drafted"])

LeadStatusForEmailStatus ==
  [draft |-> "drafted", in_review |-> "reviewing", rejected |-> "rejected",
   approved |-> "approved", queued |-> "queued", sent |-> "contacted"]

\* The steps of the mail workflow (MailWorkflow): a review, an approval and a
\* cancellation come from every status.
MailStep(from, to) ==
  CASE to \in {"in_review", "approved", "cancelled"} -> from # to
    [] to = "rejected" -> from \in {"in_review", "approved"}
    [] to = "queued" -> from \in {"approved", "failed"}
    [] to = "sending" -> from = "queued"
    [] to = "failed" -> from = "sending"
    [] to = "sent" -> from \in {"approved", "queued", "sending"}

TransitionMail(l, to) ==
  /\ rows[l].mail # Nothing
  /\ MailStep(rows[l].mail, to)
  /\ Change(l, [rows[l] EXCEPT !.mail = to,
                  !.status = IF to \in DOMAIN LeadStatusForEmailStatus
                             THEN LeadStatusForEmailStatus[to] ELSE @])

\* What classifyReplyText decides for a category: status and next action.
ReplyStatus(category) ==
  CASE category = "unsubscribe" -> "rejected"
    [] category = "meeting_request" -> "meeting_candidate"
    [] category = "not_interested" -> "no_response"
    [] category = "auto_reply" -> "contacted"
    [] OTHER -> "replied"

ReplyNextActionAt(category) ==
  CASE category \in {"unsubscribe", "not_interested"} -> Nothing
    [] category = "need_info" -> DaysFrom(1)
    [] category = "auto_reply" -> DaysFrom(3)
    [] OTHER -> now

TerminalCategories == {"unsubscribe", "not_interested"}

\* A reply is recorded, to a mail of any status, with a task when it asks for an action.
RecordReply(l, category) ==
  LET r == rows[l]
      action == ReplyNextActionAt(category)
      replied == [r EXCEPT !.replies = 1, !.status = ReplyStatus(category),
                           !.action = action,
                           !.follow = IF category \in TerminalCategories THEN Nothing
                                      ELSE @]
  IN  /\ r.mail # Nothing
      /\ r.replies = 0   \* bound: one reply
      /\ IF action = Nothing THEN Change(l, replied)
         ELSE \E k \in Tasks :
                /\ r.tasks[k].status = Nothing
                /\ Change(l, [replied EXCEPT !.tasks[k] = [status |-> "todo",
                                                           due |-> action]])

\* The end of the opportunity clears the dates and cancels the tasks.
EndOpportunity(l) ==
  Change(l, [rows[l] EXCEPT !.action = Nothing, !.follow = Nothing,
               !.tasks = [k \in Tasks |->
                            IF k \in ActiveTasks(rows[l])
                            THEN [@[k] EXCEPT !.status = "cancelled"] ELSE @[k]]])

Tick ==
  /\ now < MaxTime
  /\ now' = now + 1
  /\ UNCHANGED <<rows, list, changes>>

(***************************************************************************)
(* The specification.                                                      *)
(***************************************************************************)
NewLead(status, mail) ==
  [status |-> status, action |-> Nothing, follow |-> Nothing, mail |-> mail,
   replies |-> 0, tasks |-> [k \in Tasks |-> [status |-> Nothing, due |-> Nothing]]]

\* A lead is new, or its mail is being sent.
Init ==
  /\ rows \in [Leads -> {NewLead("discovered", Nothing), NewLead("queued", "sending")}]
  /\ now = 0
  /\ list = NoList
  /\ changes = 0

Next ==
  \/ \E filter \in Filters : AskList(filter)
  \/ ListStats \/ ListPageIds \/ ListRows
  \/ \E l \in Leads :
       \/ \E dto \in Edits : UpdateLead(l, dto)
       \/ \E k \in Tasks :
            \/ \E due \in {Nothing, now, Far} : CreateTask(l, k, due)
            \/ \E due \in {rows[l].tasks[k].due, now}, status \in {"todo", "done"} :
                 UpdateTask(l, k, due, status)
       \/ CreateDraft(l)
       \/ \E to \in {"in_review", "rejected", "approved", "queued", "sending", "sent",
                    "failed", "cancelled"} : TransitionMail(l, to)
       \/ \E category \in Categories : RecordReply(l, category)
       \/ EndOpportunity(l)
  \/ Tick

Spec == Init /\ [][Next]_vars

-----------------------------------------------------------------------------
(***************************************************************************)
(* Properties.  The views are compared as of one moment.                   *)
(***************************************************************************)
NextDue(r) == Or(Or(NextTaskDue(r), r.action), r.follow)

\* A lead whose next date, of its next task, its next action or its follow-up, is
\* not after today is among the work of today: the query that fetches candidates
\* loses none of them.
DueIsOnToday ==
  \A l \in Leads : By(NextDue(rows[l]), EndOfToday(now)) =>
    OnToday(rows[l], now) /\ TodayCategory(rows[l], now) \in {"overdue", "due_today"}

\* Whatever the badge counts is found on the page it leads to.
BadgeIsOnToday == \A l \in Leads : InBadge(rows[l], now) => OnToday(rows[l], now)

\* What is overdue today is found with the filter of that name in the list of leads.
OverdueIsFound ==
  \A l \in Leads :
    OnToday(rows[l], now) /\ TodayCategory(rows[l], now) = "overdue" =>
      Matches(rows[l], "overdue", now)

\* The number of leads, the leads of the page and what is shown of each are of one
\* moment: a page is as full as the number says, and each lead on it matches the
\* filter as it is shown ("one PostgreSQL snapshot", leads.service.ts:43).
ListIsOfOneMoment ==
  list.step = "answered" =>
    /\ Cardinality(list.items) = Min({Limit, list.total})
    /\ \A item \in list.items : Matches(item.row, list.filter, list.at)

\* The views of the work that waits agree.
ViewsAgree == DueIsOnToday /\ BadgeIsOnToday /\ OverdueIsFound /\ ListIsOfOneMoment

\* Whatever is on the page of today is counted by the badge.  Not so: after a reply
\* the badge asks for the status of the lead, the page for replies to its mail
\* (navigation-summary.service.ts:47, leads.service.ts:120).
TodayIsInBadge == \A l \in Leads : OnToday(rows[l], now) => InBadge(rows[l], now)

\* Whatever has a category is a candidate.  Not so: a lead with a reply whose status
\* moved on is on the page only as long as one of its dates is past.
TodayIsComplete ==
  \A l \in Leads : TodayCategory(rows[l], now) # Nothing => OnToday(rows[l], now)

\* A rejected lead has no dates (applyLeadPolicy clears them).  Not so: they are
\* cleared by the edit that rejects it, and set again by one that names no status;
\* and the rejection of its mail rejects the lead and leaves them.
RejectedHasNoDates ==
  \A l \in Leads : rows[l].status \in TerminalStatuses =>
    rows[l].action = Nothing /\ rows[l].follow = Nothing
=============================================================================
