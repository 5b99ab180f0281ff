---------------------------- MODULE SourceSearch ----------------------------
(***************************************************************************)
(* One worker of a candidate search and the crawl of its source            *)
(* (src/apps/api/src/projects, src/apps/api/src/scraper).  SearchJobs has  *)
(* the job rows, their servers and their leases; here is what the worker   *)
(* does meanwhile.                                                         *)
(*                                                                         *)
(* The worker goes through rounds of growing limits.  In each it lets the  *)
(* provider of the source search: CAMPFIRE scrolls one page and presses    *)
(* its button for more, and looks up the profile of each candidate when    *)
(* asked for an executor's projects; Makuake scrolls several addresses     *)
(* beside each other and then opens the candidates; GREEN FUNDING is       *)
(* fetched page by page, a few at once.  What was found so far is reported *)
(* after each step, and saved while the row of the job is running.  When   *)
(* it no longer runs the worker is aborted, at any point: the browser is   *)
(* closed under the crawl, whose calls then fail, those included whose     *)
(* failure the code ignores.                                               *)
(*                                                                         *)
(* Entries are listed links; two may be of one project, with and without a *)
(* query.  Only those of projects that are funded now are listed, and the  *)
(* conditions on amounts, supporters and keywords are taken as met.        *)
(***************************************************************************)
EXTENDS Integers, SequencesExt

CONSTANTS
    Entries,
    ProjectOf,      \* the project of each entry: normalizeSearchUrl of its link
    Plain,          \* the entries whose link has no query
    DaysLeft,       \* the days each entry has left, or 0 when it does not tell
    Seasoned,       \* the entries whose executor has as many projects as asked for
    Listing,        \* what CAMPFIRE and GREEN FUNDING list, in order
    Newest,         \* an entry that GREEN FUNDING comes to list first
    Addresses,      \* Makuake's addresses, in order
    ListedAt,       \* what each of them lists
    Imported,       \* the projects that were imported before
    Limits,         \* the limits of the rounds
    Requests,       \* what users ask for: source, soon, seasoned, desired
    EndingSoonDays, \* the days of "ending soon"
    MaxAttempts, MaxCandidates, LookupsAtOnce,  \* of CAMPFIRE
    MaxLooks, AddressesAtOnce, Pool,            \* of Makuake
    MaxPages, PagesAtOnce,                      \* of GREEN FUNDING
    MaxSearches     \* bound on the searches of each source, each like the first

VARIABLES
    request,    \* what is asked for
    row,        \* ProjectSearchJob: its status, items and completionReason
    job,        \* the worker: where it is, its rounds, its items, its diagnostics
    crawl,      \* the provider's search of the round
    browser,    \* the browser of the crawl
    aborted,    \* the worker's abort signal
    listing,    \* what GREEN FUNDING lists
    cache,      \* searchCache of CAMPFIRE
    searches    \* the searches that were started

vars == <<request, row, job, crawl, browser, aborted, listing, cache, searches>>

-----------------------------------------------------------------------------
(* Lists of entries.                                                       *)

\* normalizeUrlForUnique: GREEN FUNDING's drops the query, the others keep it.
Key(e) == IF request.source = "green" THEN ProjectOf[e] ELSE e

\* The values of pairs of a number and a value, from the lowest number on.
InOrder(ranked) ==
    LET order[pairs \in {ranked}] ==
          <<>> \o [k \in 1..Cardinality(pairs) |->
                     (CHOOSE a \in pairs : Cardinality({b \in pairs : b[1] <= a[1]}) = k)[2]]
    IN  order[ranked]

\* The elements of a list that are kept, in its order.
Kept(s, kept) == InOrder({<<i, s[i]>> : i \in {j \in DOMAIN s : s[j] \in kept}})

uniqueBy[s \in Seq(Entries)] ==
    InOrder({<<i, s[i]>> : i \in {j \in DOMAIN s : \A h \in 1..(j - 1) : Key(s[h]) # Key(s[j])}})

Fits(e) == request.soon => DaysLeft[e] \in 1..EndingSoonDays

Excluded(e) == ProjectOf[e] \in Imported /\ (request.source = "green" \/ e \in Plain)

FittingEntries == {e \in Entries : Fits(e)}

\* All lists together, one behind the other.
Joined(lists) ==
    LET places == UNION {{n} \X DOMAIN lists[n] : n \in DOMAIN lists}
    IN  InOrder({<<p[1] * Cardinality(places) + p[2], lists[p[1]][p[2]]>> : p \in places})

First(s, n) == SubSeq(s, 1, IF Len(s) < n THEN Len(s) ELSE n)

\* Those that end soon, by the days they have left; otherwise all, as they come.
sortEndingSoon[s \in Seq(Entries)] ==
    IF request.soon
    THEN InOrder({<<DaysLeft[s[i]] * Len(s) + i, s[i]>> : i \in {j \in DOMAIN s : s[j] \in FittingEntries}})
    ELSE s

Wanted[s \in Seq(Entries)] == Kept(s, {e \in FittingEntries : ~Excluded(e)})

\* The projects of the entries, each once, without these.
OtherProjects(s, these) ==
    LET other[t \in Seq(Entries)] ==
          InOrder({<<i, ProjectOf[t[i]]>> : i \in {j \in DOMAIN t :
                     /\ ProjectOf[t[j]] \notin these
                     /\ \A h \in 1..(j - 1) : ProjectOf[t[h]] # ProjectOf[t[j]]}})
    IN  other[s]

\* Mutant: the latest report takes the place of the list.
latestSearchItems(projects, s) == OtherProjects(s, Imported)

\* The list of projects the manager keeps: one that is there keeps its place.
mergeSearchItems(projects, s) == projects \o OtherProjects(s, Imported \cup ToSet(projects))

-----------------------------------------------------------------------------
(* States.                                                                 *)

NoDiagnostics == [matched |-> 0, excluded |-> 0, complete |-> FALSE]

NoPages == [a \in ToSet(Addresses) |->
              [pc |-> "waiting", items |-> <<>>, looks |-> 0, unchanged |-> 0, complete |-> FALSE]]

NoCrawl ==
    [stage |-> "none", phase |-> "first", attempt |-> 1, before |-> 0, unchanged |-> 0,
     shown |-> 0, found |-> <<>>, matched |-> <<>>, checked |-> {}, fit |-> {}, todo |-> <<>>,
     pages |-> NoPages, page |-> 1, fetched |-> [n \in {} |-> <<>>], more |-> TRUE,
     result |-> <<>>, diagnostics |-> NoDiagnostics]

NoWorker == [pc |-> "none", rounds |-> <<>>, items |-> <<>>, diagnostics |-> NoDiagnostics]

Init ==
    /\ request \in Requests
    /\ row = [status |-> "none", items |-> <<>>, reason |-> "idle"]
    /\ job = NoWorker
    /\ crawl = NoCrawl
    /\ browser = "none"
    /\ aborted = FALSE
    /\ listing = Listing
    /\ cache = {}
    /\ searches = 0

Limit == Head(job.rounds)

Worker(pc) == job' = [job EXCEPT !.pc = pc]

Stage(stage) == crawl' = [crawl EXCEPT !.stage = stage]

Crawling(stage) == job.pc = "crawling" /\ crawl.stage = stage

\* The crawl throws: its finally block closes the browser.
Throw == Stage("throwing") /\ UNCHANGED <<request, row, job, browser, aborted, listing, cache, searches>>

\* The variables a step of the crawl by itself leaves alone.
Outside == UNCHANGED <<request, row, job, browser, aborted, listing, cache, searches>>

-----------------------------------------------------------------------------
(* The owner, and the world.                                               *)

\* progressiveSearchLimits: the limits from the number that is asked for on.
progressiveSearchLimits == Kept(Limits, {n \in ToSet(Limits) : n >= request.desired})

Start ==
    /\ job.pc \in {"none", "over"}
    /\ searches < MaxSearches[request.source]
    /\ searches' = searches + 1
    /\ row' = [status |-> "running", items |-> <<>>, reason |-> "none"]
    /\ job' = [NoWorker EXCEPT !.pc = "round", !.rounds = progressiveSearchLimits]
    /\ crawl' = NoCrawl
    /\ browser' = "none"
    /\ aborted' = FALSE
    /\ UNCHANGED <<request, listing, cache>>

\* The job is cancelled, replaced or failed by another request.
Cancel ==
    /\ row.status = "running"
    /\ row' = [row EXCEPT !.status = "cancelled", !.reason = "cancelled"]
    /\ UNCHANGED <<request, job, crawl, browser, aborted, listing, cache, searches>>

\* The worker is told, by another request or by its monitor, whose query may also fail;
\* its listener begins to close the browser.
Abort ==
    /\ job.pc \notin {"none", "over"}
    /\ ~aborted
    /\ aborted' = TRUE
    /\ browser' = IF browser = "open" THEN "closing" ELSE browser
    /\ UNCHANGED <<request, row, job, crawl, listing, cache, searches>>

ListNewest ==
    /\ request.source = "green"
    /\ Newest \notin ToSet(listing)
    /\ listing' = <<Newest>> \o listing
    /\ UNCHANGED <<request, row, job, crawl, browser, aborted, cache, searches>>

\* An entry of the cache is five minutes old.
Expire ==
    /\ \E hit \in cache : cache' = cache \ {hit}
    /\ UNCHANGED <<request, row, job, crawl, browser, aborted, listing, searches>>

-----------------------------------------------------------------------------
(* Reporting what was found: addObservedItems and persistProgress.         *)

Merged(s) == First(mergeSearchItems(job.items, s), request.desired)

\* The items are merged into the worker's list, which is saved while the row runs.
\* Otherwise the worker aborts itself.  Nothing is written for no items.
AddObservedItems(s, then, otherwise) ==
    LET items == Merged(s) IN
    IF s = <<>> THEN then /\ UNCHANGED <<row, job, aborted, browser>>
    ELSE IF row.status = "running"
    THEN /\ row' = [row EXCEPT !.items = items]
         /\ job' = [job EXCEPT !.items = items]
         /\ then
         /\ UNCHANGED <<aborted, browser>>
    ELSE /\ aborted' = TRUE
         /\ browser' = IF browser = "open" THEN "closing" ELSE browser
         /\ otherwise
         /\ UNCHANGED <<row, job>>

\* What a crawl has to report.
Observed ==
    IF request.seasoned THEN First(sortEndingSoon[crawl.matched], Limit)
    ELSE First(Wanted[sortEndingSoon[crawl.found]], Limit)

\* Where each crawl goes on.
Full == Len(IF request.seasoned THEN crawl.matched ELSE crawl.found) >= Limit

AfterReport ==
    CASE request.source = "campfire" ->
           IF Full \/ (request.seasoned /\ Len(crawl.found) >= MaxCandidates) THEN "collected"
           ELSE [first |-> "scroll", scrolled |-> "click", clicked |-> "count"][crawl.phase]
      [] request.source = "makuake" -> "enrich"
      [] request.source = "green" ->
           IF Len(Observed) >= Limit \/ ~crawl.more \/ crawl.page > MaxPages
           THEN "collected" ELSE "fetch"

\* notifyObservedSearchItems; the database may fail.
Report ==
    /\ Crawling("report")
    /\ UNCHANGED <<request, listing, cache, searches>>
    /\ \/ aborted /\ Stage("throwing") /\ UNCHANGED <<row, job, aborted, browser>>
       \/ ~aborted /\ AddObservedItems(Observed, Stage(AfterReport), Stage("throwing"))
       \/ /\ ~aborted /\ Observed # <<>>
          /\ job' = [job EXCEPT !.items = Merged(Observed)]
          /\ Stage("throwing")
          /\ UNCHANGED <<row, aborted, browser>>

-----------------------------------------------------------------------------
(* CAMPFIRE.                                                               *)

\* What the cache holds for the request and the limit of the round.
Cached == {hit \in cache : hit.limit = Limit}

Open ==
    /\ Crawling("open")
    /\ request.source = "campfire"
    /\ UNCHANGED <<request, row, job, aborted, listing, cache, searches>>
    /\ \/ aborted /\ Stage("throwing") /\ UNCHANGED browser
       \/ /\ ~aborted
          /\ \E hit \in Cached :
               crawl' = [crawl EXCEPT !.stage = "cached", !.result = hit.items,
                                      !.diagnostics = hit.diagnostics]
          /\ UNCHANGED browser
       \/ ~aborted /\ Cached = {} /\ Stage("launched") /\ browser' = "open"
       \/ ~aborted /\ Cached = {} /\ Throw

ReportCached ==
    /\ Crawling("cached")
    /\ UNCHANGED <<request, listing, cache, searches>>
    /\ IF aborted THEN Stage("throwing") /\ UNCHANGED <<row, job, aborted, browser>>
       ELSE AddObservedItems(crawl.result, Stage("returning"), Stage("throwing"))

\* The page is opened; it shows some of what is listed.
OpenPage ==
    /\ Crawling("launched")
    /\ request.source = "campfire"
    /\ \/ Throw
       \/ ~aborted /\ Outside /\ \E n \in 1..Len(Listing) :
            crawl' = [crawl EXCEPT !.stage = "attempt", !.shown = n]

\* The head of the loop.  The signal is tested only when another attempt is made.
Attempt ==
    /\ Crawling("attempt")
    /\ Outside
    /\ IF \/ crawl.attempt > MaxAttempts \/ Full
          \/ request.seasoned /\ Len(crawl.found) >= MaxCandidates
       THEN Stage("collected")
       ELSE IF aborted THEN Stage("throwing")
       ELSE crawl' = [crawl EXCEPT !.stage = "look", !.phase = "first", !.before = Len(crawl.found)]

\* mergeSearchResults of what the page shows.
Look ==
    /\ Crawling("look")
    /\ \/ aborted /\ Throw
       \/ LET shown == SubSeq(Listing, 1, crawl.shown) IN
          /\ ~aborted
          /\ Outside
          /\ crawl' = [crawl EXCEPT
               !.stage = IF request.seasoned THEN "lookups" ELSE "report",
               !.fit = @ \cup {e \in ToSet(shown) : Fits(e)},
               !.found = uniqueBy[@ \o Wanted[shown]]]

Unchecked == Kept(crawl.found, Entries \ crawl.checked)

\* collectProfileMatchesFromCandidates, a batch of lookups beside each other.  A lookup
\* that fails tells nothing, and its candidate does not match.
Lookups ==
    /\ Crawling("lookups")
    /\ IF Unchecked = <<>> \/ Full THEN Stage("report") /\ Outside
       ELSE IF aborted THEN Throw
       ELSE LET batch == First(Unchecked, LookupsAtOnce) IN
            /\ Outside
            /\ \E told \in SUBSET (ToSet(batch) \cap Seasoned) :
                 crawl' = [crawl EXCEPT
                   !.checked = @ \cup ToSet(batch),
                   !.matched = First(@ \o Kept(batch, told), Limit)]

Scroll ==
    /\ Crawling("scroll")
    /\ \/ aborted /\ Throw
       \/ ~aborted /\ Outside /\ \E n \in crawl.shown..Len(Listing) :
            crawl' = [crawl EXCEPT !.stage = "look", !.phase = "scrolled", !.shown = n]

\* clickNextSearchResults: there is no button, or it cannot be pressed, be it because the
\* browser was closed; or it is, and the page may show more.
Click ==
    /\ Crawling("click")
    /\ Outside
    /\ \/ Stage("count")
       \/ ~aborted /\ \E n \in crawl.shown..Len(Listing) :
            crawl' = [crawl EXCEPT !.stage = "look", !.phase = "clicked", !.shown = n]

Count ==
    LET unchanged == IF Len(crawl.found) = crawl.before THEN crawl.unchanged + 1 ELSE 0
        over == crawl.phase # "clicked" /\ unchanged >= 2 IN
    /\ Crawling("count")
    /\ Outside
    /\ crawl' = [crawl EXCEPT
         !.stage = IF over THEN "collected" ELSE "attempt",
         !.unchanged = unchanged, !.attempt = @ + 1, !.diagnostics.complete = over]

\* A crawl that ends with less than it was asked for tells that it is complete.
CampfireResult ==
    [items |-> sortEndingSoon[First(IF request.seasoned THEN crawl.matched ELSE crawl.found, Limit)],
     diagnostics |->
       [matched |-> IF request.seasoned THEN Len(crawl.matched) ELSE Cardinality(crawl.fit),
        excluded |-> IF request.seasoned THEN 0 ELSE Cardinality({e \in crawl.fit : Excluded(e)}),
        complete |-> crawl.diagnostics.complete \/ ~Full]]

\* The result is kept in the cache, the signal is not tested.
CollectCampfire ==
    LET result == CampfireResult IN
    /\ Crawling("collected")
    /\ request.source = "campfire"
    /\ crawl' = [crawl EXCEPT !.stage = "returning", !.result = result.items,
                              !.diagnostics = result.diagnostics]
    /\ cache' = (cache \ Cached) \cup
         {[limit |-> Limit, items |-> result.items, diagnostics |-> result.diagnostics]}
    /\ UNCHANGED <<request, row, job, browser, aborted, listing, searches>>

-----------------------------------------------------------------------------
(* Makuake.                                                                *)

Launch ==
    /\ Crawling("open")
    /\ request.source = "makuake"
    /\ UNCHANGED <<request, row, job, aborted, listing, cache, searches>>
    /\ \/ aborted /\ Stage("throwing") /\ UNCHANGED browser
       \/ ~aborted /\ Stage("addresses") /\ browser' = "open"
       \/ ~aborted /\ Throw

\* runWithConcurrency: a worker takes the next address.  Opening it may fail.
TakeAddress(a) ==
    LET waiting == Kept(Addresses, {b \in ToSet(Addresses) : crawl.pages[b].pc = "waiting"})
        looking == {b \in ToSet(Addresses) : crawl.pages[b].pc = "looking"} IN
    /\ Crawling("addresses")
    /\ waiting # <<>> /\ a = Head(waiting)
    /\ Cardinality(looking) < AddressesAtOnce
    /\ \/ aborted /\ Throw
       \/ ~aborted /\ Outside /\ \E pc \in {"looking", "over"} :
            crawl' = [crawl EXCEPT !.pages[a].pc = pc]

\* One of the four looks of collectSearchResultsFromPage, and the scrolling after it.  A
\* failure of either ends the address with what it has shown, also when it fails because
\* the browser was closed.
LookAt(a) ==
    LET at == crawl.pages[a] IN
    /\ Crawling("addresses")
    /\ at.pc = "looking"
    /\ Outside
    /\ \/ crawl' = [crawl EXCEPT !.pages[a].pc = "over"]
       \/ /\ ~aborted
          /\ \E n \in Len(at.items)..Len(ListedAt[a]), scrolled \in BOOLEAN :
               LET items == uniqueBy[at.items \o SubSeq(ListedAt[a], 1, n)]
                   unchanged == IF Len(items) = Len(at.items) THEN at.unchanged + 1 ELSE 0
                   complete == unchanged >= 2 \/ (scrolled /\ at.looks + 1 = MaxLooks) IN
               crawl' = [crawl EXCEPT !.pages[a] =
                 [pc |-> IF complete \/ ~scrolled THEN "over" ELSE "looking", items |-> items,
                  looks |-> at.looks + 1, unchanged |-> unchanged, complete |-> complete]]

\* All addresses together, and as many candidates as the pool takes.
PoolCandidates ==
    LET found == uniqueBy[Joined([i \in DOMAIN Addresses |-> crawl.pages[Addresses[i]].items])]
        candidates == First(sortEndingSoon[found], Pool) IN
    /\ Crawling("addresses")
    /\ \A a \in ToSet(Addresses) : crawl.pages[a].pc = "over"
    /\ \/ aborted /\ Throw
       \/ /\ ~aborted
          /\ Outside
          /\ crawl' = [crawl EXCEPT
               !.stage = "enrich", !.todo = candidates, !.pages = NoPages,
               !.diagnostics.complete = /\ \A a \in ToSet(Addresses) : crawl.pages[a].complete
                                        /\ Len(candidates) < Pool]

\* A batch of candidates is opened; one that cannot be is kept as it is.
Enrich ==
    /\ Crawling("enrich")
    /\ IF crawl.todo = <<>> THEN Stage("collected") /\ Outside
       ELSE IF aborted THEN Throw
       ELSE /\ Outside
            /\ crawl' = [crawl EXCEPT
                 !.stage = "report",
                 !.found = @ \o First(crawl.todo, LookupsAtOnce),
                 !.todo = SubSeq(crawl.todo, Len(First(crawl.todo, LookupsAtOnce)) + 1, Len(crawl.todo))]

CollectMakuake ==
    /\ Crawling("collected")
    /\ request.source = "makuake"
    /\ Outside
    /\ crawl' = [crawl EXCEPT
         !.stage = "returning", !.result = Observed,
         !.diagnostics.matched = Len(crawl.found),
         !.diagnostics.excluded = Cardinality({e \in ToSet(crawl.found) : Excluded(e)})]

-----------------------------------------------------------------------------
(* GREEN FUNDING.  A page of the model lists one entry.                    *)

Fetch(n) ==
    /\ Crawling("fetch") \/ (Crawling("open") /\ request.source = "green")
    /\ n \in crawl.page..(crawl.page + PagesAtOnce - 1)
    /\ n <= MaxPages
    /\ n \notin DOMAIN crawl.fetched
    /\ \/ Throw
       \/ /\ ~aborted
          /\ Outside
          /\ crawl' = [crawl EXCEPT
               !.stage = "fetch",
               !.more = @ /\ n < Len(listing),
               !.fetched = [k \in DOMAIN @ \cup {n} |->
                  IF k # n THEN @[k] ELSE IF n <= Len(listing) THEN <<listing[n]>> ELSE <<>>]]

\* The pages of the batch together.  The counters count an entry that moved to another
\* page again; the list does not hold it twice.
Combine ==
    LET matches == Kept(uniqueBy[Joined(crawl.fetched)], FittingEntries) IN
    /\ Crawling("fetch")
    /\ \A n \in crawl.page..(crawl.page + PagesAtOnce - 1) :
            n <= MaxPages => n \in DOMAIN crawl.fetched
    /\ Outside
    /\ crawl' = [crawl EXCEPT
         !.stage = "report",
         !.page = @ + PagesAtOnce,
         !.fetched = [n \in {} |-> <<>>],
         !.found = uniqueBy[@ \o Wanted[matches]],
         !.diagnostics.matched = @ + Len(matches),
         !.diagnostics.excluded = @ + Cardinality({i \in DOMAIN matches : Excluded(matches[i])})]

CollectGreen ==
    /\ Crawling("collected")
    /\ request.source = "green"
    /\ Outside
    /\ crawl' = [crawl EXCEPT
         !.stage = "returning", !.result = Observed,
         !.diagnostics.complete = Len(Observed) < Limit /\ ~crawl.more]

-----------------------------------------------------------------------------
(* The worker: runSearchJob.                                               *)

\* The next round is announced, or the search has no round left.
BeginRound ==
    /\ job.pc = "round"
    /\ UNCHANGED <<request, row, browser, listing, cache, searches>>
    /\ \/ aborted /\ Worker("over") /\ UNCHANGED <<crawl, aborted>>
       \/ ~aborted /\ job.rounds = <<>> /\ Worker("finishing") /\ UNCHANGED <<crawl, aborted>>
       \/ ~aborted /\ job.rounds # <<>> /\ Worker("failing") /\ UNCHANGED <<crawl, aborted>>
       \/ /\ ~aborted /\ job.rounds # <<>> /\ row.status = "running"
          /\ Worker("crawling")
          /\ crawl' = [NoCrawl EXCEPT !.stage = "open"]
          /\ UNCHANGED aborted
       \/ /\ ~aborted /\ job.rounds # <<>> /\ row.status # "running"
          /\ Worker("over")
          /\ aborted' = TRUE
          /\ UNCHANGED crawl

\* Mutant: an error leaves the browser to the listener.
CloseAfterReturn ==
    /\ Crawling("returning") \/ Crawling("throwing")
    /\ browser' = IF browser # "none" /\ crawl.stage = "returning" THEN "closed" ELSE browser
    /\ Stage(IF crawl.stage = "returning" THEN "returned" ELSE "thrown")
    /\ UNCHANGED <<request, row, job, aborted, listing, cache, searches>>

\* The finally block of the provider waits until the browser is closed.
Close ==
    /\ Crawling("returning") \/ Crawling("throwing")
    /\ browser' = IF browser # "none" THEN "closed" ELSE browser
    /\ Stage(IF crawl.stage = "returning" THEN "returned" ELSE "thrown")
    /\ UNCHANGED <<request, row, job, aborted, listing, cache, searches>>

\* An error of the crawl ends the search, without a word when it was aborted.
Catch ==
    /\ Crawling("thrown")
    /\ Worker(IF aborted THEN "over" ELSE "failing")
    /\ UNCHANGED <<request, row, crawl, browser, aborted, listing, cache, searches>>

\* The result of a round is added, and the next begins unless there is enough.
EndRound ==
    LET items == Merged(sortEndingSoon[crawl.result])
        saved == row.status = "running" \/ crawl.result = <<>> IN
    /\ Crawling("returned")
    /\ browser' = "none"
    /\ UNCHANGED <<request, crawl, listing, cache, searches>>
    /\ \/ aborted /\ Worker("over") /\ UNCHANGED <<row, aborted>>
       \/ ~aborted /\ job' = [job EXCEPT !.pc = "failing", !.items = items] /\ UNCHANGED <<row, aborted>>
       \/ /\ ~aborted /\ saved
          /\ row' = IF crawl.result = <<>> THEN row ELSE [row EXCEPT !.items = items]
          /\ job' = [job EXCEPT
               !.pc = IF Len(items) >= request.desired THEN "finishing" ELSE "round",
               !.rounds = Tail(@), !.items = items, !.diagnostics = crawl.diagnostics]
          /\ UNCHANGED aborted
       \/ ~aborted /\ ~saved /\ aborted' = TRUE /\ Worker("over") /\ UNCHANGED row

decideProjectSearchCompletion ==
    LET shortage == request.desired - Len(job.items) IN
    IF shortage <= 0 THEN "desired_reached"
    ELSE IF job.diagnostics.excluded >= shortage /\ job.diagnostics.matched >= request.desired
    THEN "excluded_existing"
    ELSE IF ~job.diagnostics.complete THEN "failed"
    ELSE IF request.soon \/ request.seasoned THEN "condition_shortage" ELSE "source_exhausted"

\* The outcome is written, with the worker's items, if the row still runs.  When that
\* fails a failure is written instead, or nothing.
Finish ==
    LET reason == IF job.pc = "failing" THEN "failed" ELSE decideProjectSearchCompletion IN
    /\ job.pc \in {"finishing", "failing"}
    /\ UNCHANGED <<request, crawl, browser, aborted, listing, cache, searches>>
    /\ \/ /\ row' = IF row.status # "running" THEN row
                   ELSE [status |-> IF reason = "failed" THEN "failed" ELSE "completed",
                         items |-> job.items, reason |-> reason]
          /\ Worker("over")
       \/ /\ Worker(IF job.pc = "failing" \/ aborted THEN "over" ELSE "failing")
          /\ UNCHANGED row

-----------------------------------------------------------------------------
CampfireStep ==
    \/ Open \/ ReportCached \/ OpenPage \/ Attempt \/ Look \/ Lookups \/ Scroll \/ Click \/ Count
    \/ CollectCampfire

MakuakeStep ==
    \/ Launch \/ PoolCandidates \/ Enrich \/ CollectMakuake
    \/ \E a \in ToSet(Addresses) : TakeAddress(a) \/ LookAt(a)

GreenStep == Combine \/ CollectGreen \/ \E n \in 1..MaxPages : Fetch(n)

Work ==
    \/ CampfireStep \/ MakuakeStep \/ GreenStep
    \/ Report \/ BeginRound \/ Close \/ Catch \/ EndRound \/ Finish

Next == Start \/ Cancel \/ Abort \/ ListNewest \/ Expire \/ Work

\* Every call of the browser, of fetch and of the database ends, with an answer, an
\* error or its timeout.
Spec == Init /\ [][Next]_vars /\ WF_vars(Work)

-----------------------------------------------------------------------------
(* Properties.                                                             *)

FittingProjects(r) ==
    {ProjectOf[e] : e \in {x \in Entries :
        /\ r.soon => DaysLeft[x] \in 1..EndingSoonDays
        /\ r.seasoned => x \in Seasoned}} \ Imported

\* A search that was started has ended, and its browser is closed.
SearchIsOver == job.pc # "none" => job.pc = "over" /\ browser \in {"none", "closed"}

\* Not so: a source that is told to be exhausted has no other project that fits.
ExhaustedIsTrue ==
    row.reason = "source_exhausted" =>
      FittingProjects(request) \cap {ProjectOf[e] : e \in ToSet(Listing)} \subseteq ToSet(row.items)

\* Not so: what the cache tells to be complete was not cut short by an abort.
CacheIsOfWholeCrawls ==
    [][\A hit \in cache' \ cache : hit.diagnostics.complete => ~aborted]_vars
=============================================================================
