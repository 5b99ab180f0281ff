------------------------------ MODULE Screens ------------------------------
(***************************************************************************)
(* The pages of the dashboard and its two reports, each beside the others: *)
(* they meet only in the lead that localStorage keeps, which another tab   *)
(* may set.  What is looked at is chosen at the start.                     *)
(***************************************************************************)
EXTENDS Workspace, FiniteSets

CONSTANTS
  Sources, Urls, OldLeads, SearchFails, MaxJobs,                \* SearchScreen
  Controls, ListOf, ListFails, OtherTabs, MaxListClicks,        \* LeadsScreen
  Filters, First, ListPages, MaxActs,                           \* WorkPages
  Sold, SoldOf, Jobs, Day, Offset, MaxTime, MaxReplies, MaxMoves,  \* Reports
  Requests, Readers, Links, Labels, Material, ClickWindow, OpenWindow,
  MaxHour, MaxRows,                                             \* Tracking
  Exported, Views, Matching, PageSize, Workers, MaxChanges      \* LeadExport

ASSUME NothingIsNothing ==
  /\ Nothing \notin Leads \cup Companies \cup Mails
  /\ Nothing \notin Controls \cup Filters
  /\ Nothing \notin [page : Nat, filter : Views]
ASSUME MailsAreNumbers == Mails \subseteq Nat /\ IsFiniteSet(Mails) /\ OldMails \subseteq Mails
ASSUME LeadsHaveCompanies == CompanyOf \in [Leads -> Companies]
ASSUME MailsHaveLeads == LeadOf \in [Mails -> Leads]
ASSUME DaysAreLong == Day \in Nat \ {0} /\ Offset \in Nat
ASSUME JobsAreFew == IsFiniteSet(Jobs)
ASSUME WorkersAreNumbered == PageSize \in Nat \ {0} /\ \E n \in Workers : Workers = 1 .. n
ASSUME WindowsAreSpans == ClickWindow \in Nat /\ OpenWindow \in Nat

VARIABLES
  open,  \* the page that is looked at
  search, selected, leads, jobs, stopping, searchClicks,
  listing, chosen, listClicks,
  view, acts,
  now, mail, replies, stage, lostAt, moves, job, audits, report,
  hour, links, followed, opens, events, request,
  rows, filter, changed, exporting, askedFor, file

searchVars == <<search, selected, leads, jobs, stopping, searchClicks>>

listVars == <<listing, chosen, listClicks>>

viewVars == <<view, acts>>

reportVars == <<now, mail, replies, stage, lostAt, moves, job, audits, report>>

trackVars == <<hour, links, followed, opens, events, request>>

exportVars == <<rows, filter, changed, exporting, askedFor, file>>

S == INSTANCE SearchScreen WITH
       page <- search, saved <- selected, clicks <- searchClicks, Fails <- SearchFails

L == INSTANCE LeadsScreen WITH
       page <- listing, saved <- chosen, clicks <- listClicks, Lists <- Controls,
       Fails <- ListFails, MaxClicks <- MaxListClicks

W == INSTANCE WorkPages WITH MaxPages <- ListPages, MaxClicks <- MaxActs

R == INSTANCE Reports WITH Leads <- Sold, LeadOf <- SoldOf

T == INSTANCE Tracking WITH clicks <- followed, Urls <- Links, MaxTime <- MaxHour

E == INSTANCE LeadExport WITH
       list <- rows, asked <- askedFor, Leads <- Exported, Filters <- Views

ScreensInit ==
  /\ open \in {"workspace", "search", "leads", "pages", "performance",
              "operations", "engagement", "export"}
  /\ Init /\ S!Init /\ L!Init /\ W!Init /\ R!Init /\ T!Init /\ E!Init

otherVars == <<viewVars, reportVars, trackVars, exportVars>>

ScreensNext ==
  \/ open = "workspace" /\ Next /\ UNCHANGED <<open, searchVars, listVars, otherVars>>
  \/ open = "search" /\ S!Next /\ UNCHANGED <<open, vars, listVars, otherVars>>
  \/ open = "leads" /\ L!Next /\ UNCHANGED <<open, vars, searchVars, otherVars>>
  \/ /\ UNCHANGED <<open, vars, searchVars, listVars>>
     /\ \/ open = "pages" /\ W!Next /\ UNCHANGED <<reportVars, trackVars, exportVars>>
        \/ open = "performance" /\ R!SalesNext /\ UNCHANGED <<viewVars, trackVars, exportVars>>
        \/ open = "operations" /\ R!SearchNext /\ UNCHANGED <<viewVars, trackVars, exportVars>>
        \/ open = "engagement" /\ T!Next /\ UNCHANGED <<viewVars, reportVars, exportVars>>
        \/ open = "export" /\ E!Next /\ UNCHANGED <<viewVars, reportVars, trackVars>>

screensVars == <<open, vars, searchVars, listVars, otherVars>>

ScreensSpec == ScreensInit /\ [][ScreensNext]_screensVars

-----------------------------------------------------------------------------
(* Properties.                                                             *)

\* What unlocks the generation, the review and the approval of a mail, the analysis
\* and the contacts, is of the selected lead and its company, the text in the editor
\* of the selected mail, the opportunity a change is made of that of the selected
\* lead, in whatever order the answers come.
PanelsAreOfSelection ==
  AnalysisIsOfLead /\ ContactsAreOfCompany /\ EditorIsOfMail /\ L!OpportunityIsOfLead

\* Every candidate shown was found by the job of the last search (SearchScreen), and
\* the list of leads is what its controls ask for, or it is on its way, or an error
\* is shown (LeadsScreen).  A report is that of the filters applied last, with all
\* its panels, and the rows of a list are of the page named below them (WorkPages).
\* The file of an export has the leads of the list (LeadExport).
ListsAreOfLastRequest ==
  /\ S!CandidatesOfLastSearch /\ L!ListIsOfControls
  /\ W!ReportIsOfFilters /\ W!PanelsAreOfOneReport /\ W!RowsAreOfTheirPage
  /\ E!FileIsOfList

\* Nothing that was begun is left hanging: what says that it is being loaded is on its
\* way (Workspace), and a job that runs is followed, to its end or to an error, or it
\* was asked to stop (SearchScreen).
NothingIsLeftHanging == LoadingIsAnswered /\ S!NoJobIsForgotten /\ S!JobIsFollowed

\* What a report counts is what its definitions give for some moment between the
\* question and the answer (Reports); and a click on a link of a mail is counted once
\* for its reader and while, and told of with the count it had (Tracking).
ReportsAreOfTheirTime == R!ReportsAreOfTheirTime /\ T!CountedOnce /\ T!EventsAreOfClicks
=============================================================================
