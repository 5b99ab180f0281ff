------------------------------ MODULE WorkPages ------------------------------
(***************************************************************************)
(* Four pages that each show one answer of the server: the two reports     *)
(* (dashboard/ui/sales-performance-page.ts, operations-page.ts), which     *)
(* number their requests and abort the one before, and the two lists       *)
(* (today-page.ts, replies-page.ts), which do neither.  A function of a    *)
(* script is an operator on the state of its page; what is shown is named  *)
(* by the filters, or the page of the list, that it was asked for with.    *)
(* Calls are answered, or fail, in any order.                              *)
(***************************************************************************)
EXTENDS Naturals

CONSTANTS
  Filters,    \* what the controls of a page may be set to
  First,      \* what they are set to when the page is opened
  Nothing,    \* null in the script
  MaxPages,   \* pages a list may have
  MaxClicks   \* bound on what the user does

VARIABLES
  view,   \* the script's state, its calls and what stands on the page
  acts    \* what the user has done so far, counted

vars == <<view, acts>>

Reports == {"performance", "operations"}
Lists == {"today", "replies"}

(***************************************************************************)
(* The reports.  `controller' is the number of the request that may still  *)
(* be aborted.  A browser without AbortController keeps null in its place. *)
(***************************************************************************)
Call(op, number, of) == [op |-> op, number |-> number, of |-> of]

\* Mutant: only the controllers are compared.
IsSomeRequest(v, number) == v.controller = IF v.aborts THEN number ELSE 0

IsCurrentRequest(v, number) ==
  /\ v.number = number
  /\ v.controller = IF v.aborts THEN number ELSE 0

\* An aborted request ends at once, and its catch finds it is not current.
Abort(v) ==
  IF v.controller = 0 THEN v
  ELSE [v EXCEPT !.calls = {c \in @ : c.number # v.controller},
                 !.got = {c \in @ : c.number # v.controller}]

Numbered(v) ==
  LET n == v.number + 1 IN
  [Abort(v) EXCEPT !.number = n, !.status = "loading", !.applied = v.filters,
                   !.controller = IF v.aborts THEN n ELSE 0]

LoadSalesPerformance(v) ==
  LET q == Numbered(v) IN
  [q EXCEPT !.calls = @ \cup {Call("report", q.number, v.filters)}]

LoadAssignees(v) ==
  [v EXCEPT !.calls = @ \cup {Call("assignees", 0, Nothing)}]

\* Promise.all of the report and the budget.
LoadOperations(v) ==
  LET q == Numbered(v) IN
  [q EXCEPT !.calls = @ \cup {Call("report", q.number, v.filters),
                              Call("budget", q.number, v.filters)}]

Load(v) ==
  IF v.kind = "performance" THEN LoadSalesPerformance(v) ELSE LoadOperations(v)

RenderSalesPerformance(v) ==
  [v EXCEPT !.panels = [@ EXCEPT !.period = v.report, !.counts = v.report]]

RenderSalesPerformanceError(v) == [v EXCEPT !.panels.counts = Nothing]

RenderAlerts(v) == [v EXCEPT !.panels.alerts = v.report]
RenderBudget(v) == [v EXCEPT !.panels.budget = v.budget]

RenderOperations(v) ==
  RenderBudget(RenderAlerts(
    [v EXCEPT !.panels = [@ EXCEPT !.period = v.report, !.counts = v.report]]))

RenderOperationsError(v) ==
  [v EXCEPT !.report = Nothing, !.budget = Nothing,
            !.panels = [panel \in DOMAIN @ |-> Nothing]]

SalesPerformanceAnswered(v, c) ==
  IF ~IsCurrentRequest(v, c.number) THEN v
  ELSE [RenderSalesPerformance([v EXCEPT !.report = c.of])
          EXCEPT !.status = "ok", !.controller = 0]

\* The first answer of the two waits for the second, by `got'.
OperationsAnswered(v, c) ==
  IF \E other \in v.calls : other.number = c.number
  THEN [v EXCEPT !.got = @ \cup {c}]
  ELSE LET q == [v EXCEPT !.got = {g \in @ : g.number # c.number}] IN
       IF ~IsCurrentRequest(v, c.number) THEN q
       ELSE [RenderOperations([q EXCEPT !.report = c.of, !.budget = c.of])
               EXCEPT !.status = "ok", !.controller = 0]

ReportFailed(v, c) ==
  LET rest == [v EXCEPT !.calls = {d \in @ : d.number # c.number},
                        !.got = {d \in @ : d.number # c.number}]
  IN  IF ~IsCurrentRequest(v, c.number) THEN rest
      ELSE [(IF v.kind = "performance" THEN RenderSalesPerformanceError(rest)
             ELSE RenderOperationsError(rest))
              EXCEPT !.status = "error", !.controller = 0]

\* The candidates replace the options, and with them what was chosen.
AssigneesAnswered(v) == [v EXCEPT !.owners = "shown"]
AssigneesFailed(v) == [v EXCEPT !.status = "error"]

(***************************************************************************)
(* The lists.  An answer has the page it was asked for and the number of   *)
(* pages there are; what it shows replaces what stands there.              *)
(***************************************************************************)
Asked(v) == [filters |-> v.filters, page |-> v.page]

LoadToday(v) ==
  [v EXCEPT !.status = "loading", !.calls = @ \cup {Call("list", 0, Asked(v))}]

LoadReplies(v) ==
  [v EXCEPT !.status = "loading", !.rows = Nothing,
            !.calls = @ \cup {Call("list", 0, Asked(v))}]

LoadList(v) == IF v.kind = "today" THEN LoadToday(v) ELSE LoadReplies(v)

UpdatePagination(v) ==
  [v EXCEPT !.label = v.page, !.previous = (v.page > 1), !.next = (v.page < v.pages)]

RenderToday(v, rows) == UpdatePagination([v EXCEPT !.rows = rows])
RenderReplies(v, rows) == UpdatePagination([v EXCEPT !.rows = rows])

ListAnswered(v, c, pages) ==
  LET q == [v EXCEPT !.pages = pages, !.page = c.of.page, !.status = "ok"] IN
  IF v.kind = "today" THEN RenderToday(q, c.of) ELSE RenderReplies(q, c.of)

\* The list of today keeps its items and its pages, that of the replies none.
TodayFailed(v) == [v EXCEPT !.rows = Nothing, !.status = "error"]
RepliesFailed(v) ==
  UpdatePagination([v EXCEPT !.rows = Nothing, !.pages = 1, !.status = "error"])

ListFailed(v) == IF v.kind = "today" THEN TodayFailed(v) ELSE RepliesFailed(v)

ChangePage(v, page) ==
  LET clamped == IF page < 1 THEN 1 ELSE IF page > v.pages THEN v.pages ELSE page
  IN  LoadList([v EXCEPT !.page = clamped])

(***************************************************************************)
(* The page, the user and the answers.                                     *)
(***************************************************************************)
Opened(kind, aborts) ==
  [kind |-> kind, aborts |-> aborts, filters |-> First, applied |-> First,
   number |-> 0, controller |-> 0, status |-> "loading",
   report |-> Nothing, budget |-> Nothing, owners |-> "loading",
   panels |-> [panel \in {"period", "counts", "alerts", "budget"} |-> Nothing],
   page |-> 1, pages |-> 1, rows |-> Nothing, label |-> 1,
   previous |-> FALSE, next |-> FALSE, calls |-> {}, got |-> {}]

Init ==
  /\ \E kind \in Reports \cup Lists, aborts \in BOOLEAN :
       view = IF kind = "performance"
              THEN LoadSalesPerformance(LoadAssignees(Opened(kind, aborts)))
              ELSE IF kind = "operations" THEN LoadOperations(Opened(kind, aborts))
              ELSE LoadList(Opened(kind, aborts))
  /\ acts = 0

Click == acts < MaxClicks /\ acts' = acts + 1

\* The controls of a report wait for the form to be sent.
SetFilters(f) ==
  /\ Click
  /\ view.kind \in Reports
  /\ f # view.filters
  /\ view' = [view EXCEPT !.filters = f]

ApplyFilters ==
  /\ Click
  /\ view.kind \in Reports
  /\ view' = Load(view)

\* Those of the replies act at once, and begin with the first page.
ChangeFilter(f) ==
  /\ Click
  /\ view.kind = "replies"
  /\ view' = LoadList([view EXCEPT !.filters = f, !.page = 1])

TurnPage(forward) ==
  /\ Click
  /\ view.kind \in Lists
  /\ IF forward THEN view.next ELSE view.previous
  /\ view' = ChangePage(view, IF forward THEN view.page + 1 ELSE view.page - 1)

Answer(c) ==
  /\ \E pages \in 1..MaxPages :
       view' = LET v == [view EXCEPT !.calls = @ \ {c}] IN
               CASE c.op = "assignees" -> AssigneesAnswered(v)
                 [] c.op = "list" -> ListAnswered(v, c, pages)
                 [] c.op # "assignees" /\ v.kind = "performance" ->
                      SalesPerformanceAnswered(v, c)
                 [] OTHER -> OperationsAnswered(v, c)
  /\ UNCHANGED acts

Fail(c) ==
  /\ view' = LET v == [view EXCEPT !.calls = @ \ {c}] IN
             CASE c.op = "assignees" -> AssigneesFailed(v)
               [] c.op = "list" -> ListFailed(v)
               [] OTHER -> ReportFailed(v, c)
  /\ UNCHANGED acts

Next ==
  \/ \E f \in Filters : SetFilters(f) \/ ChangeFilter(f)
  \/ ApplyFilters
  \/ \E forward \in BOOLEAN : TurnPage(forward)
  \/ \E c \in view.calls : Answer(c) \/ Fail(c)

Spec == Init /\ [][Next]_vars

-----------------------------------------------------------------------------
(***************************************************************************)
(* Properties.                                                             *)
(***************************************************************************)
OnItsWay(number) == \E c \in view.calls : c.op # "assignees" /\ c.number = number

\* A report that was applied is on its way, or is shown, or its panels say that
\* it could not be loaded: in whatever order the answers come, with and without
\* AbortController (isCurrentRequest, isCurrentSalesPerformanceRequest).
ReportIsOfFilters ==
  view.kind \in Reports =>
    OnItsWay(view.number) \/ view.panels.counts \in {view.applied, Nothing}

\* What stands beside the counts of the operations belongs to them: the period, the
\* alerts and the budget are of the same request (Promise.all in loadOperations).
PanelsAreOfOneReport ==
  view.kind = "operations" =>
    \A panel \in DOMAIN view.panels : view.panels[panel] = view.panels.counts

\* The rows of a list are those of the page whose number stands below them, and a
\* page beyond the last one can be left.
RowsAreOfTheirPage ==
  view.kind \in Lists =>
    /\ view.rows # Nothing => view.label = view.rows.page
    /\ view.label > view.pages => view.previous

\* The counts of the sales performance are those of the period above them.  Not so
\* when a report fails: the period of the one before keeps standing there
\* (renderError, sales-performance-page.ts:143).
PeriodIsOfCounts ==
  view.kind = "performance" => view.panels.period = view.panels.counts

\* When no list is on its way, the replies shown are those of the filters.  Not so:
\* the answer that comes last is shown, which need not be the one asked for last
\* (loadReplies, replies-page.ts:83).
RepliesAreOfFilters ==
  view.kind = "replies" /\ view.calls = {} /\ view.rows # Nothing =>
    view.rows.filters = view.filters
=============================================================================
