------------------------------ MODULE WorkViews ------------------------------
(***************************************************************************)
(* The opportunity of a lead beside the lists that show the work it makes: *)
(* WorkLists and ReplyInbox.  They share no state of these modules.  What  *)
(* is looked at is chosen at the start.                                    *)
(***************************************************************************)
EXTENDS OpportunityPipeline, Integers

CONSTANTS
    Leads, LeadTasks, Nothing, Absent, Limit, Filters, Categories, MaxTime, MaxChanges,  \* WorkLists
    Kinds, PageLimit, MaxReplies, MaxTurns                                               \* ReplyInbox

ASSUME NothingIsApart ==
    /\ Nothing \notin Int /\ Absent \notin Int /\ Absent # Nothing
    /\ Nothing \notin {"overdue", "due_today", "reply_received", "send_failed", "draft_review",
                       "approval_pending", "send_queue"}
ASSUME ListsAreFinite == IsFiniteSet(Leads) /\ LeadTasks \subseteq Nat
ASSUME LimitsAreNatural == Limit \in Nat /\ PageLimit \in Nat /\ MaxTime \in Nat

VARIABLES
    part,   \* what is looked at
    rows, now, list, changes, received, closed, turns, inbox

listVars == <<rows, now, list, changes>>
inboxVars == <<received, closed, turns, inbox>>

W == INSTANCE WorkLists WITH Tasks <- LeadTasks

I == INSTANCE ReplyInbox WITH replies <- received, Limit <- PageLimit

WorkInit ==
    /\ part \in {"pipeline", "lists", "inbox"}
    /\ Init /\ W!Init /\ I!Init

WorkNext ==
    \/ part = "pipeline" /\ Next /\ UNCHANGED <<part, listVars, inboxVars>>
    \/ part = "lists" /\ W!Next /\ UNCHANGED <<part, vars, inboxVars>>
    \/ part = "inbox" /\ I!Next /\ UNCHANGED <<part, vars, listVars>>

workVars == <<part, vars, listVars, inboxVars>>

WorkSpec == WorkInit /\ [][WorkNext]_workVars

-----------------------------------------------------------------------------
(* Properties.                                                             *)

\* The views of the work that waits agree: the page of today has whatever is due and
\* whatever the badge counts, the filter of the lead list finds what is overdue, and an
\* answer of that list is of one moment; a page of the reply inbox is in its order
\* whatever is recorded between its statements, and its conditions are those of its flags.
ViewsAgree == W!ViewsAgree /\ I!InboxIsInOrder /\ I!AttentionIsOfFlags
=============================================================================
