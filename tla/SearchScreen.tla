---------------------------- MODULE SearchScreen ----------------------------
(***************************************************************************)
(* The search page (dashboard/ui/dashboard-page.ts), on which projects of  *)
(* a source are searched by a job of the server that the page follows, and *)
(* the candidates it finds are imported.  As in Workspace, a function of   *)
(* the script is an operator on the state of the page, and the calls to    *)
(* the server are answered, or fail, in any order.  A job starts when its  *)
(* POST is answered.  A lead is named by the address of its project.       *)
(***************************************************************************)
EXTENDS Naturals, Sequences

CONSTANTS
  Sources,
  Urls,       \* addresses of projects
  OldLeads,   \* those that are leads when the page is opened
  Nothing,    \* null in the script
  Fails,      \* the kinds of call that may fail
  MaxJobs,    \* bound on the searches
  MaxClicks   \* bound on what the user does

VARIABLES
  page,      \* the script's state, and its calls
  saved,     \* the lead in localStorage, that another page selected
  leads,     \* the leads on the server
  jobs,      \* the search jobs, in the order of their starts
  stopping,  \* the jobs that the page asked the server to cancel
  clicks     \* what the user has done so far, counted

vars == <<page, saved, leads, jobs, stopping, clicks>>

Call(op) ==
  [op |-> op, of |-> Nothing, number |-> 0, leads |-> {}, then |-> Nothing]
Asking(p, c) == [p EXCEPT !.calls = @ \cup {c}]
Has(p, c) == [p EXCEPT !.calls = @ \ {c}]

(***************************************************************************)
(* The functions of the script.                                            *)
(***************************************************************************)
\* A cancellation nobody waits for: no answer of it changes the page.
StopJob(p) ==
  IF p.job = 0 THEN p
  ELSE [p EXCEPT !.job = 0, !.stopped = @ \cup {p.job}]

\* A lead that the page knows makes its candidates existing or imported.
SyncStatuses(p) ==
  [p EXCEPT !.status = [u \in Urls |->
     IF (\E i \in p.candidates : i.url = u) /\ u \in p.leads
     THEN CASE @[u] = "importing" -> "imported"
            [] @[u] = "none" -> "existing"
            [] OTHER -> @[u]
     ELSE @[u]]]

ImportState(p, u) ==
  IF p.status[u] \in {"importing", "imported", "failed"} THEN p.status[u]
  ELSE IF u \in p.leads THEN "existing" ELSE p.status[u]

Importable(p, u) == ImportState(p, u) \in {"none", "failed"}

Merged(candidates, items) ==
  {i \in candidates : ~\E k \in items : k.url = i.url /\ k.source = i.source}
    \cup items

\* Mutant: what a job says is shown whichever job the page follows.
ApplyAnyJob(p, j, status, found) ==
  LET items == {[url |-> u, source |-> jobs[j].source, job |-> j] : u \in found}
  IN  SyncStatuses([p EXCEPT !.candidates = Merged(@, items),
                             !.job = IF status # "running" THEN 0 ELSE @])

ApplySearchJob(p, j, status, found) ==
  LET items == {[url |-> u, source |-> jobs[j].source, job |-> j] : u \in found}
  IN  IF p.job # j THEN p
      ELSE SyncStatuses([p EXCEPT !.candidates = Merged(@, items),
                                  !.job = IF status # "running" THEN 0 ELSE @])

PollSearchJob(p) ==
  IF p.job = 0 THEN p ELSE Asking(p, [Call("poll") EXCEPT !.number = p.job])

ForgetSearch(p) ==
  [StopJob(p) EXCEPT !.sequence = @ + 1, !.timer = FALSE,
                     !.candidates = {}]

\* The source that is selected is not the one the page shows.
OnSourcePlatformChange(p) ==
  LET q == IF p.current \in {Nothing, p.source} THEN p
           ELSE [ForgetSearch(p) EXCEPT !.status = [u \in Urls |-> "none"]]
  IN  [q EXCEPT !.current = p.source]

\* The lists of leads and mails, and the sources, are loaded together.
LoadAll(p, then) ==
  LET n == p.generation + 1 IN
  [p EXCEPT !.generation = n,
            !.calls = @ \cup
              {[Call("lists") EXCEPT !.number = n, !.leads = leads,
                                     !.then = then],
               [Call("sources") EXCEPT !.number = n]}]

\* The lead that is analysed is the selected one; `for' is the import.
AnalyzeLead(p, for) ==
  IF p.lead = Nothing \/ for = Nothing THEN p
  ELSE Asking(p, [Call("analyze") EXCEPT !.of = p.lead, !.then = for])

ListsLoaded(p, c) ==
  OnSourcePlatformChange(SyncStatuses(
    [p EXCEPT !.leads = c.leads,
              !.lead = IF saved \in c.leads THEN saved ELSE @]))

SourcesLoaded(p, c, first) ==
  IF c.number # p.generation THEN p
  ELSE [p EXCEPT !.listed = TRUE,
                 !.source = IF @ # Nothing THEN @
                            ELSE IF p.current # Nothing THEN p.current
                            ELSE first]

Opened ==
  [lead |-> Nothing, leads |-> {}, listed |-> FALSE, source |-> Nothing,
   current |-> Nothing, generation |-> 0, sequence |-> 0, job |-> 0,
   timer |-> FALSE, error |-> FALSE, candidates |-> {},
   status |-> [u \in Urls |-> "none"], stopped |-> {}, calls |-> {}]

Init ==
  /\ leads = OldLeads
  /\ saved \in OldLeads \cup {Nothing}
  /\ page = LoadAll(Opened, Nothing)
  /\ jobs = <<>>
  /\ stopping = {}
  /\ clicks = 0

(***************************************************************************)
(* What the user does, and the timer.                                      *)
(***************************************************************************)
\* The page becomes p; what it stopped on the way is asked to stop.
Show(p) ==
  /\ page' = [p EXCEPT !.stopped = {}]
  /\ stopping' = stopping \cup p.stopped

Click ==
  /\ clicks < MaxClicks
  /\ clicks' = clicks + 1
  /\ UNCHANGED <<saved, leads, jobs>>

\* Mutant: the search that is running is not cancelled.
SearchBeside ==
  /\ Click
  /\ page.listed
  /\ LET p == [page EXCEPT !.job = 0, !.sequence = @ + 1, !.timer = FALSE,
                           !.candidates = {}, !.error = FALSE]
     IN  Show(Asking(p, [Call("start") EXCEPT !.of = p.source,
                                              !.number = p.sequence]))

Search ==
  /\ Click
  /\ page.listed
  /\ LET p == [ForgetSearch(page) EXCEPT !.error = FALSE]
     IN  Show(Asking(p, [Call("start") EXCEPT !.of = p.source,
                                              !.number = p.sequence]))

CancelSearch ==
  /\ Click
  /\ page.job # 0
  /\ Show(Asking([page EXCEPT !.error = FALSE, !.stopped = {page.job}],
                 [Call("cancel") EXCEPT !.number = page.job]))

ClearSearch ==
  /\ Click
  /\ Show([ForgetSearch(page) EXCEPT !.status = [u \in Urls |-> "none"],
                                     !.error = FALSE])

ChooseSource(s) ==
  /\ Click
  /\ page.listed
  /\ s # page.source
  /\ Show(OnSourcePlatformChange([page EXCEPT !.source = s]))

Refresh ==
  /\ Click
  /\ Show(LoadAll(page, Nothing))

\* An address that was typed in.
ImportUrl(u) ==
  /\ Click
  /\ page.listed
  /\ Show(Asking(page, [Call("import") EXCEPT !.of = u]))

ImportCandidate(i) ==
  /\ Click
  /\ Importable(page, i.url)
  /\ Show(Asking([page EXCEPT !.status[i.url] = "importing"],
                 [Call("import") EXCEPT !.of = i.url, !.number = 1]))

BulkImport ==
  LET visible == {u \in Urls : Importable(page, u)
                               /\ \E i \in page.candidates : i.url = u} IN
  /\ Click
  /\ visible # {}
  /\ Show(Asking([page EXCEPT !.status = [u \in Urls |->
                    IF u \in visible THEN "importing" ELSE @[u]]],
                 [Call("bulk") EXCEPT !.leads = visible]))

Poll ==
  /\ page.timer
  /\ Show(PollSearchJob([page EXCEPT !.timer = FALSE]))
  /\ UNCHANGED <<saved, leads, jobs, clicks>>

(***************************************************************************)
(* The server, and its answers.                                            *)
(***************************************************************************)
JobEnds(j) ==
  /\ jobs[j].status = "running"
  /\ jobs' = [jobs EXCEPT ![j].status = "ended"]
  /\ UNCHANGED <<page, saved, leads, stopping, clicks>>

StartAnswered(p, c, j) ==
  IF c.number # p.sequence THEN [p EXCEPT !.stopped = {j}]
  ELSE PollSearchJob([p EXCEPT !.job = j])

AnswerStart(c) ==
  LET j == Len(jobs) + 1 IN
  /\ c.op = "start"
  /\ Len(jobs) < MaxJobs
  /\ jobs' = Append(jobs, [source |-> c.of, search |-> c.number,
                           status |-> "running"])
  /\ Show(StartAnswered(Has(page, c), c, j))
  /\ UNCHANGED <<saved, leads, clicks>>

\* A poll may tell of a moment before the job ended.
PollAnswered(p, c, status, found) ==
  IF p.job # c.number THEN p
  ELSE [ApplySearchJob(p, c.number, status, found) EXCEPT
          !.timer = (status = "running"), !.error = FALSE]

AnswerPoll(c) ==
  /\ c.op = "poll"
  /\ \E status \in {"running", jobs[c.number].status}, found \in SUBSET Urls :
       Show(PollAnswered(Has(page, c), c, status, found))
  /\ UNCHANGED <<saved, leads, jobs, clicks>>

\* The job is cancelled, unless it has ended.
CancelAnswered(p, c, found) ==
  LET q == ApplySearchJob(p, c.number, "ended", found) IN
  IF q.job \in {0, c.number} THEN [q EXCEPT !.timer = FALSE] ELSE q

AnswerCancel(c) ==
  /\ c.op = "cancel"
  /\ jobs' = [jobs EXCEPT ![c.number].status = "ended"]
  /\ \E found \in SUBSET Urls : Show(CancelAnswered(Has(page, c), c, found))
  /\ UNCHANGED <<saved, leads, clicks>>

\* A cancellation nobody waits for reaches the server.
StopReaches(j) ==
  /\ jobs[j].status = "running"
  /\ jobs' = [jobs EXCEPT ![j].status = "ended"]
  /\ UNCHANGED <<page, saved, leads, stopping, clicks>>

\* The promise of both lists and sources waits for the sources.
AnswerLists(c) ==
  /\ c.op = "lists"
  /\ [Call("sources") EXCEPT !.number = c.number] \notin page.calls
  /\ Show(AnalyzeLead(ListsLoaded(Has(page, c), c), c.then))
  /\ UNCHANGED <<saved, leads, jobs, clicks>>

AnswerSources(c) ==
  /\ c.op = "sources"
  /\ \E first \in Sources : Show(SourcesLoaded(Has(page, c), c, first))
  /\ UNCHANGED <<saved, leads, jobs, clicks>>

AnswerAnalyze(c) ==
  /\ c.op = "analyze"
  /\ Show(Has(page, c))
  /\ UNCHANGED <<saved, leads, jobs, clicks>>

\* The import of an address; of a candidate (number 1) also marks it.
AnswerImport(c) ==
  /\ c.op = "import"
  /\ leads' = leads \cup {c.of}
  /\ LET p == [Has(page, c) EXCEPT
                 !.lead = c.of,
                 !.status[c.of] = IF c.number = 1 THEN "imported" ELSE @]
         n == p.generation + 1
     IN  Show([p EXCEPT !.generation = n,
                        !.calls = @ \cup
                          {[Call("lists") EXCEPT !.number = n, !.leads = leads',
                                                 !.then = c.of],
                           [Call("sources") EXCEPT !.number = n]}])
  /\ UNCHANGED <<saved, jobs, clicks>>

\* Some of the addresses are imported, and analysed by the server.
AnswerBulk(c) ==
  /\ c.op = "bulk"
  /\ \E done \in SUBSET c.leads :
       /\ leads' = leads \cup done
       /\ \E last \in IF done = {} THEN {page.lead} ELSE done :
            LET n == page.generation + 1 IN
            Show([Has(page, c) EXCEPT
                    !.lead = last,
                    !.status = [u \in Urls |->
                       IF u \in done THEN "imported"
                       ELSE IF u \in c.leads THEN "failed" ELSE @[u]],
                    !.generation = n,
                    !.calls = @ \cup
                      {[Call("lists") EXCEPT !.number = n, !.leads = leads'],
                       [Call("sources") EXCEPT !.number = n]}])
  /\ UNCHANGED <<saved, jobs, clicks>>

\* The catch of each function.
Failed(p, c) ==
  CASE c.op = "start" /\ c.number = p.sequence ->
         [p EXCEPT !.timer = FALSE, !.error = TRUE]
    [] c.op = "poll" /\ c.number = p.job ->
         [p EXCEPT !.timer = FALSE, !.error = TRUE]
    [] c.op = "cancel" /\ p.job = c.number ->
         [p EXCEPT !.timer = FALSE, !.error = TRUE]
    [] c.op = "cancel" /\ p.job = 0 -> [p EXCEPT !.timer = FALSE]
    [] c.op = "sources" /\ c.number = p.generation ->
         [p EXCEPT !.listed = FALSE, !.source = Nothing]
    [] c.op = "lists" -> AnalyzeLead(p, c.then)
    [] c.op = "import" /\ c.number = 1 -> [p EXCEPT !.status[c.of] = "failed"]
    [] c.op = "bulk" ->
         [p EXCEPT !.status = [u \in Urls |->
            IF u \in c.leads THEN "failed" ELSE @[u]]]
    [] OTHER -> p

Fail(c) ==
  /\ c.op \in Fails
  /\ c.op = "lists" => [Call("sources") EXCEPT !.number = c.number]
                          \notin page.calls
  /\ Show(Failed(Has(page, c), c))
  /\ UNCHANGED <<saved, leads, jobs, clicks>>

Outcome(c) ==
  \/ AnswerStart(c) \/ AnswerPoll(c) \/ AnswerCancel(c)
  \/ AnswerLists(c) \/ AnswerSources(c) \/ AnswerAnalyze(c)
  \/ AnswerImport(c) \/ AnswerBulk(c) \/ Fail(c)

Next ==
  \/ Search \/ CancelSearch \/ ClearSearch \/ Refresh \/ BulkImport \/ Poll
  \/ \E s \in Sources : ChooseSource(s)
  \/ \E u \in Urls : ImportUrl(u)
  \/ \E i \in page.candidates : ImportCandidate(i)
  \/ \E j \in DOMAIN jobs : JobEnds(j)
  \/ \E j \in stopping : StopReaches(j)
  \/ \E c \in page.calls : Outcome(c)

Spec == Init /\ [][Next]_vars

-----------------------------------------------------------------------------
(***************************************************************************)
(* Properties.                                                             *)
(***************************************************************************)
Statuses == {"none", "existing", "importing", "imported", "failed"}

TypeOK ==
  /\ page.job \in 0..Len(jobs)
  /\ page.source \in Sources \cup {Nothing}
  /\ page.current \in Sources \cup {Nothing}
  /\ page.lead \in Urls \cup {Nothing}
  /\ page.candidates \subseteq [url : Urls, source : Sources, job : DOMAIN jobs]
  /\ page.status \in [Urls -> Statuses]
  /\ page.stopped = {}
  /\ leads \subseteq Urls
  /\ jobs \in Seq([source : Sources, search : Nat, status : {"running", "ended"}])
  /\ stopping \subseteq DOMAIN jobs

\* Every candidate on the page was found by the job of the last search, and
\* none is left after a clearing or a change of the source, however late the
\* answers to polls and cancellations of older jobs come.
CandidatesOfLastSearch ==
  \A i \in page.candidates : jobs[i.job].search = page.sequence

\* A job that still runs is the one the page follows, or the page has asked
\* to cancel it: neither a new search, nor a clearing, nor a change of the
\* source, while the POST of a job is unanswered, leaves one running unseen.
NoJobIsForgotten ==
  \A j \in DOMAIN jobs :
    jobs[j].status = "running" => j = page.job \/ j \in stopping

\* A job the page has not given up will be heard of: its timer is set, or a
\* poll or a cancellation of it is unanswered, or the page shows an error.
JobIsFollowed ==
  page.job # 0 =>
    \/ page.timer \/ page.error
    \/ \E c \in page.calls : c.op \in {"poll", "cancel"} /\ c.number = page.job

\* The analysis that follows an import is of the lead that was imported.
AnalysesWhatWasImported ==
  \A c \in page.calls : c.op = "analyze" => c.of = c.then
=============================================================================
