----------------------------- MODULE Candidates -----------------------------
(***************************************************************************)
(* The search for candidates and the import of projects.  What a user      *)
(* imports is what a search of before has listed; beyond that the two      *)
(* share nothing: each goes on beside a standing other, and what is looked *)
(* at is chosen at the start.                                              *)
(***************************************************************************)
EXTENDS ProjectImport, Integers, Sequences

CONSTANTS
    Entries, ProjectOf, Plain, DaysLeft, Seasoned, Listing, Newest, Addresses, ListedAt, Imported,
    Limits, SearchRequests, EndingSoonDays, MaxAttempts, MaxCandidates, LookupsAtOnce, MaxLooks,
    AddressesAtOnce, Pool, MaxPages, PagesAtOnce, MaxSearches    \* SourceSearch

ASSUME SearchRequestsAreRequests ==
    SearchRequests \subseteq [source : {"campfire", "makuake", "green"},
                              soon : BOOLEAN, seasoned : BOOLEAN, desired : Nat]

ASSUME ListingsAreOfEntries ==
    /\ Listing \in Seq(Entries) /\ Newest \in Entries /\ Seasoned \subseteq Entries
    /\ Addresses \in Seq(DOMAIN ListedAt)
    /\ ListedAt \in [DOMAIN ListedAt -> Seq(Entries)]

ASSUME LimitsAreNumbers ==
    /\ Limits \in Seq(Nat)
    /\ EndingSoonDays \in Nat /\ LookupsAtOnce \in Nat /\ Pool \in Nat /\ MaxPages \in Nat

VARIABLES
    part,   \* what is looked at
    request, row, job, crawl, browser, aborted, listing, cache, searches

searchVars == <<request, row, job, crawl, browser, aborted, listing, cache, searches>>

S == INSTANCE SourceSearch WITH Requests <- SearchRequests

Feed == INSTANCE CandidateFeed WITH
          Fitting <- [r \in SearchRequests |-> S!FittingProjects(r)],
          candidates <- row.items, reason <- row.reason

PartsInit == part \in {"import", "search"} /\ Init /\ S!Init

PartsNext ==
    \/ part = "import" /\ Next /\ UNCHANGED <<part, searchVars>>
    \/ part = "search" /\ S!Next /\ UNCHANGED <<part, vars>>

PartsFairness == Fairness /\ WF_searchVars(part = "search" /\ S!Work)

PartsSpec == PartsInit /\ [][PartsNext]_<<part, vars, searchVars>> /\ PartsFairness

-----------------------------------------------------------------------------
(* Properties.                                                             *)

\* The candidates the owner reads only grow, in a stable order, by fitting projects that
\* are new to the list and were not imported before; they stand still once the search
\* has ended, and a full list, and no other, is told as full, whatever the source and
\* whenever the search is cancelled, fails or is aborted.
FeedPromise == Feed!Spec

\* No request and no search is undone as if it had never begun.
BegunStaysBegun ==
    [][/\ \A r \in Requests : phase[r] # "new" => phase'[r] # "new"
       /\ job.pc # "none" => job'.pc # "none"]_<<vars, searchVars>>

\* What was begun ends: an import that began is recorded, each of its items done once,
\* since one that fails stops neither its pool nor the summary (the try inside each
\* worker); and a search that was started ends and its browser is closed.
BegunIsEnded == SummaryAddsUp /\ BegunStaysBegun /\ []<>(ImportsAreOver /\ S!SearchIsOver)
=============================================================================
