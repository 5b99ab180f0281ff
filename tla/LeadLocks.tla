------------------------------ MODULE LeadLocks ------------------------------
(***************************************************************************)
(* The locks the API takes on what belongs to a lead (src/apps/api/src:    *)
(* leads, projects, mail, ai).                                             *)
(*                                                                         *)
(* Every change of a lead is one PostgreSQL transaction.  On its way it    *)
(* takes advisory locks and, with each UPDATE, the lock of a row; it keeps *)
(* them all until it commits.  A program is the sequence of locks one kind *)
(* of change takes, in the order of its statements; what it reads and      *)
(* writes is left out.  Rows that are only inserted, and rows nobody else  *)
(* waits for, are left out, too.                                           *)
(***************************************************************************)
EXTENDS Naturals, Sequences, FiniteSets, Functions

CONSTANTS
    Transactions,   \* transactions that run at the same time
    Leads,          \* leads, in the order of their ids
    CompanyOf,      \* the company of each lead
    ProjectOf,      \* the project of each lead, or NoProject
    DestinationsOf, \* the delivery destination keys of each lead, in the order they are found
    Kinds,          \* the kinds of changes
    NoProject, NoRequest

ASSUME TransactionsAreFinite == IsFiniteSet(Transactions)

ASSUME LeadsAreNumbered == Leads \subseteq Nat /\ IsFiniteSet(Leads)

ASSUME DestinationsAreNumbered == DestinationsOf \in [Leads -> Seq(Nat)]

ASSUME KindsAreKinds ==
    Kinds \subseteq {"import", "edit", "editProject", "confirm", "draft", "claim", "sent",
                     "sentAfterSend", "reply", "move", "close"}

Request == [kind : Kinds, lead : Leads]

ASSUME NoRequestIsNone == NoRequest \notin Request

VARIABLES
    request,    \* what each transaction changes
    taken       \* the number of locks of its program it has taken

lockVars == <<request, taken>>

-----------------------------------------------------------------------------
(* Programs.                                                               *)

HasProject(l) == ProjectOf[l] # NoProject

Lock(class, id) == <<class, id>>

\* Mutant: in the order the destination lists them.
FoundDestinations(l) == [i \in DOMAIN DestinationsOf[l] |-> Lock("destination", DestinationsOf[l][i])]

\* The members of a finite set of numbers, sorted.
Sorted(S) ==
    CHOOSE f \in [1 .. Cardinality(S) -> S] :
        Range(f) = S /\ \A i, j \in DOMAIN f : i < j => f[i] < f[j]

\* lockDeliveryDestination: the keys of the destination, sorted.
Destinations(l) ==
    LET keys == Sorted(Range(DestinationsOf[l])) IN
    [i \in DOMAIN keys |-> Lock("destination", keys[i])]

\* What is locked against an import.  Without a project the key of the company
\* names no organization, hence is another one.
ImportKeys(l) ==
    IF HasProject(l)
    THEN <<Lock("companyName", CompanyOf[l]), Lock("projectUrl", ProjectOf[l])>>
    ELSE <<Lock("companyNameOfNone", CompanyOf[l])>>

\* The analyses of all leads of the project, in the order of their ids.
ProjectAnalyses(l) ==
    LET ids == Sorted({k \in Leads : ProjectOf[k] = ProjectOf[l]}) IN
    [i \in DOMAIN ids |-> Lock("analysis", ids[i])]

Rows(l) == <<Lock("leadRow", l)>>

\* progressOpportunityInTransaction.
OpportunityOf(l) == <<Lock("opportunity", l), Lock("opportunityRow", l)>>

\* Mutant: the import leaves the analyses alone.
ImportUnlocked(l) ==
    ImportKeys(l) \o <<Lock("companyRow", CompanyOf[l]), Lock("projectRow", ProjectOf[l])>>
        \o Rows(l) \o <<Lock("opportunity", l)>>

Import(l) ==
    ImportKeys(l) \o ProjectAnalyses(l)
        \o <<Lock("companyRow", CompanyOf[l]), Lock("projectRow", ProjectOf[l])>>
        \o Rows(l) \o <<Lock("opportunity", l)>>

\* Edit of the company and the lead.
Edit(l) ==
    <<Lock("leadDetail", l)>> \o ImportKeys(l)
        \o <<Lock("companyRow", CompanyOf[l])>> \o Rows(l)

\* Edit of the project, too.
EditProject(l) ==
    <<Lock("leadDetail", l), Lock("analysis", l)>> \o ImportKeys(l)
        \o <<Lock("companyRow", CompanyOf[l]), Lock("projectRow", ProjectOf[l])>> \o Rows(l)

Draft(l) ==
    <<Lock("draft", l), Lock("analysis", l)>> \o Destinations(l) \o Rows(l)

\* The transitions of a mail, under the locks of its destination or without.
Claim(l) == Destinations(l) \o <<Lock("mailRow", l)>>

SentAfterSend(l) == <<Lock("mailRow", l)>> \o Rows(l) \o OpportunityOf(l)

Sent(l) == Destinations(l) \o SentAfterSend(l)

Reply(l) == <<Lock("reply", l)>> \o Rows(l) \o OpportunityOf(l)

EndOpportunity(l) == OpportunityOf(l) \o Rows(l)

Program(r) ==
    CASE r.kind = "import" -> Import(r.lead)
      [] r.kind = "edit" -> Edit(r.lead)
      [] r.kind = "editProject" -> EditProject(r.lead)
      [] r.kind = "confirm" -> <<Lock("analysis", r.lead)>>
      [] r.kind = "draft" -> Draft(r.lead)
      [] r.kind = "claim" -> Claim(r.lead)
      [] r.kind = "sent" -> Sent(r.lead)
      [] r.kind = "sentAfterSend" -> SentAfterSend(r.lead)
      [] r.kind = "reply" -> Reply(r.lead)
      [] r.kind = "move" -> OpportunityOf(r.lead)
      [] r.kind = "close" -> EndOpportunity(r.lead)

-----------------------------------------------------------------------------
(* Transactions.                                                           *)

Running(t) == request[t] # NoRequest

Holds(t) == IF Running(t) THEN {Program(request[t])[i] : i \in 1 .. taken[t]} ELSE {}

Waiting(t) == Running(t) /\ taken[t] < Len(Program(request[t]))

Wanted(t) == Program(request[t])[taken[t] + 1]

LocksTypeOK ==
    /\ request \in [Transactions -> Request \cup {NoRequest}]
    /\ taken \in [Transactions -> Nat]
    /\ \A t \in Transactions : Running(t) => taken[t] <= Len(Program(request[t]))

LocksInit ==
    /\ request = [t \in Transactions |-> NoRequest]
    /\ taken = [t \in Transactions |-> 0]

Begin(t, kind, l) ==
    /\ ~Running(t)
    /\ kind \in {"import", "editProject", "confirm", "draft"} => HasProject(l)
    /\ request' = [request EXCEPT ![t] = [kind |-> kind, lead |-> l]]
    /\ UNCHANGED taken

Take(t) ==
    /\ Waiting(t)
    /\ \A u \in Transactions \ {t} : Wanted(t) \notin Holds(u)
    /\ taken' = [taken EXCEPT ![t] = @ + 1]
    /\ UNCHANGED request

\* The transaction commits, or a test of it fails before it has all its locks.
End(t) ==
    /\ Running(t)
    /\ request' = [request EXCEPT ![t] = NoRequest]
    /\ taken' = [taken EXCEPT ![t] = 0]

LocksNext ==
    \E t \in Transactions :
        \/ \E kind \in Kinds, l \in Leads : Begin(t, kind, l)
        \/ Take(t)
        \/ End(t)

LocksSpec == LocksInit /\ [][LocksNext]_lockVars

-----------------------------------------------------------------------------
(* Safety.                                                                 *)

\* No transactions wait for each other in a circle, whatever leads, companies
\* and destinations they share.  Not so with "editProject", which takes the analysis
\* before the keys of an import, or with "close", which takes the opportunity before
\* the row of the lead.
NoDeadlock ==
    \A circle \in (SUBSET Transactions) \ {{}} :
        ~ \A t \in circle : Waiting(t) /\ \E u \in circle \ {t} : Wanted(t) \in Holds(u)

\* While an analysis is being confirmed, or read for a draft, nobody has changed
\* the project it is about and not committed yet.  Not so with "editProject", which
\* locks the analysis of one lead of the project.
ProjectStandsStill ==
    \A t, u \in Transactions :
        (t # u /\ Running(t) /\ request[t].kind \in {"confirm", "draft"}
           /\ Lock("analysis", request[t].lead) \in Holds(t))
        => Lock("projectRow", ProjectOf[request[t].lead]) \notin Holds(u)

-----------------------------------------------------------------------------
(* What the documentation says, and the code does not do.                  *)

\* The opportunity is locked before anything else.
OpportunityLockFirst ==
    \A t \in Transactions :
        (Waiting(t) /\ Wanted(t)[1] = "opportunity") => Holds(t) = {}

\* Whoever changes a company holds the lock of its name that imports take.
EditHoldsImportLock ==
    \A t \in Transactions :
        (Running(t) /\ Lock("companyRow", CompanyOf[request[t].lead]) \in Holds(t))
        => Lock("companyName", CompanyOf[request[t].lead]) \in Holds(t)
=============================================================================
