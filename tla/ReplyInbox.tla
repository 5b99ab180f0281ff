----------------------------- MODULE ReplyInbox -----------------------------
(***************************************************************************)
(* The inbox of replies (mail/infrastructure/prisma-reply-inbox.repository,*)
(* mail/domain/reply-inbox): which replies are asked for, in which order,  *)
(* and how each is shown.  An answer takes several statements outside of   *)
(* any transaction, while replies are recorded and contacts closed or      *)
(* opened again.  A reply is named by its number, in the order of its id.  *)
(***************************************************************************)
EXTENDS Integers, Sequences, SequencesExt

CONSTANTS
  Mails,       \* mails with replies; each has a contact and a company
  Kinds,       \* the categories of the replies that come
  Nothing,     \* no condition
  Limit,       \* replies on a page
  MaxReplies,  \* bound on the replies
  MaxTurns     \* bound on the closing and opening of contacts

VARIABLES
  replies,  \* the rows: mail, category, and when it was received
  closed,   \* mails whose contact is unsubscribed, or whose company is blocked
  turns,    \* how often a contact was closed or opened, counted
  inbox     \* a request for the list

vars == <<replies, closed, turns, inbox>>

(***************************************************************************)
(* How a reply is shown: buildReplyInboxViewModel.                         *)
(***************************************************************************)
PriorityRank(category) ==
  CASE category \in {"unsubscribe", "complaint"} -> 4
    [] category \in {"unknown", "meeting_request", "interested", "need_info"} -> 3
    [] category = "not_interested" -> 2
    [] OTHER -> 1

Flags(reply) ==
  [managerReviewRequired |-> reply.category \in {"unsubscribe", "complaint", "unknown"},
   stopFollowup |-> reply.category \in {"unsubscribe", "not_interested"}
                      \/ reply.mail \in closed]

ViewModel(i) ==
  [reply |-> i, rank |-> PriorityRank(replies[i].category), flags |-> Flags(replies[i])]

(***************************************************************************)
(* Which replies are asked for, and their order.                           *)
(***************************************************************************)
AttentionWhere(reply, attention) ==
  CASE attention = "all" -> TRUE
    [] attention = "manager_review" ->
         reply.category \in {"unsubscribe", "complaint", "unknown"}
    [] attention = "stop_followup" ->
         reply.category \in {"unsubscribe", "not_interested"} \/ reply.mail \in closed
    [] attention = "needs_action" ->
         reply.category \in {"interested", "need_info", "meeting_request",
                             "unsubscribe", "complaint", "unknown"}
           \/ reply.mail \in closed

Where(q) == {i \in DOMAIN replies : AttentionWhere(replies[i], q.attention)}

\* Which of two replies stands first.  By priority, the more urgent, then the
\* later one when descending; otherwise by time, and by id among equals.
IsBefore(q, i, j) ==
  LET rank(k) == IF q.sort = "priority" THEN PriorityRank(replies[k].category) ELSE 0
      First(x, y) == IF q.direction = "asc" THEN x < y ELSE x > y
  IN  \/ First(rank(i), rank(j))
      \/ rank(i) = rank(j) /\ First(replies[i].at, replies[j].at)
      \/ rank(i) = rank(j) /\ replies[i].at = replies[j].at /\ i < j

Ordered(q) ==
  CHOOSE s \in SetToSeqs(Where(q)) : \A k, n \in DOMAIN s : k < n => IsBefore(q, s[k], s[n])

PageOf(q, s) ==
  SubSeq(s, (q.page - 1) * Limit + 1, Min({q.page * Limit, Len(s)}))

\* Mutant: the rows in the order in which the database returns them.
RowsAsTheyCome(ids, found) == SetToSortSeq(found \cap Range(ids), <)

\* The rows that were found, in the order of the ids: the k-th is at the place that has
\* k of those that were found up to it.
OrderByIds(ids, found) ==
  LET places == {i \in DOMAIN ids : ids[i] \in found}
  IN  [k \in 1 .. Cardinality(places) |->
         ids[CHOOSE i \in places : Cardinality({j \in places : j <= i}) = k]]

(***************************************************************************)
(* A request: the count, then the ids and their rows, or the rows at once. *)
(***************************************************************************)
NoInbox == [step |-> "idle", query |-> Nothing, total |-> 0, ids |-> <<>>, items |-> <<>>]

Queries ==
  [attention : {"all", "manager_review", "stop_followup", "needs_action"},
   sort : {"priority", "receivedAt"}, direction : {"asc", "desc"}, page : {1, 2}]

Ask(q) ==
  /\ inbox.step \in {"idle", "answered"}
  /\ inbox' = [NoInbox EXCEPT !.step = "count", !.query = q]
  /\ UNCHANGED <<replies, closed, turns>>

Count ==
  /\ inbox.step = "count"
  /\ inbox' = [inbox EXCEPT !.step = IF inbox.query.sort = "priority" THEN "ids" ELSE "rows",
                            !.total = Cardinality(Where(inbox.query))]
  /\ UNCHANGED <<replies, closed, turns>>

FindPriorityOrderedIds ==
  /\ inbox.step = "ids"
  /\ LET ids == PageOf(inbox.query, Ordered(inbox.query)) IN
     inbox' = [inbox EXCEPT !.ids = ids,
                            !.step = IF ids = <<>> THEN "answered" ELSE "rows"]
  /\ UNCHANGED <<replies, closed, turns>>

FindRows ==
  /\ inbox.step = "rows"
  /\ LET found == IF inbox.query.sort = "priority"
                  THEN OrderByIds(inbox.ids, DOMAIN replies)
                  ELSE PageOf(inbox.query, Ordered(inbox.query))
     IN  inbox' = [inbox EXCEPT !.step = "answered",
                                !.items = [k \in DOMAIN found |-> ViewModel(found[k])]]
  /\ UNCHANGED <<replies, closed, turns>>

(***************************************************************************)
(* What changes the replies.                                               *)
(***************************************************************************)
\* Whoever unsubscribes closes the contact of the mail.
RecordReply(mail, category) ==
  /\ Len(replies) < MaxReplies
  /\ \E at \in 0..1 :
       replies' = Append(replies, [mail |-> mail, category |-> category, at |-> at])
  /\ closed' = IF category = "unsubscribe" THEN closed \cup {mail} ELSE closed
  /\ UNCHANGED <<turns, inbox>>

\* A contact is unsubscribed, or subscribed again, by hand (Contacts).
TurnContact(mail) ==
  /\ turns < MaxTurns
  /\ turns' = turns + 1
  /\ closed' = IF mail \in closed THEN closed \ {mail} ELSE closed \cup {mail}
  /\ UNCHANGED <<replies, inbox>>

Init ==
  /\ replies = <<>>
  /\ closed = {}
  /\ turns = 0
  /\ inbox = NoInbox

Next ==
  \/ \E q \in Queries : Ask(q)
  \/ Count \/ FindPriorityOrderedIds \/ FindRows
  \/ \E mail \in Mails :
       (\E category \in Kinds : RecordReply(mail, category)) \/ TurnContact(mail)

Spec == Init /\ [][Next]_vars

-----------------------------------------------------------------------------
(***************************************************************************)
(* Properties.                                                             *)
(***************************************************************************)
Answered == inbox.step = "answered"

\* A page holds no reply twice, no more than fit, and stands in the order that was
\* asked for, whatever is recorded between its statements.
InboxIsInOrder ==
  Answered =>
    /\ Len(inbox.items) <= Limit
    /\ \A k, n \in DOMAIN inbox.items :
         k < n => IsBefore(inbox.query, inbox.items[k].reply, inbox.items[n].reply)

\* What is asked for with a kind of attention is what bears its flag when it is
\* shown: the conditions of the query and the flags are written in two files.
AttentionIsOfFlags ==
  \A i \in DOMAIN replies :
    /\ AttentionWhere(replies[i], "manager_review") = Flags(replies[i]).managerReviewRequired
    /\ AttentionWhere(replies[i], "stop_followup") = Flags(replies[i]).stopFollowup
    /\ Flags(replies[i]).managerReviewRequired => AttentionWhere(replies[i], "needs_action")

\* A reply that needs a manager stands before those that do not, among those that
\* are asked for by priority.  Not so: one that is not understood ranks with those
\* that are interested (priorityRankForReplyCategory, reply-inbox.ts:121).
ManagerComesFirst ==
  Answered /\ inbox.query.sort = "priority" /\ inbox.query.direction = "desc" =>
    \A k, n \in DOMAIN inbox.items :
      inbox.items[n].flags.managerReviewRequired /\ ~inbox.items[k].flags.managerReviewRequired
        => n < k

\* A page that was asked for with a kind of attention bears its flag.  Not so: the
\* contact may be subscribed again between the ids and their rows.
AnswerBearsFlag ==
  Answered /\ inbox.query.attention = "stop_followup" =>
    \A k \in DOMAIN inbox.items : inbox.items[k].flags.stopFollowup

\* The number beside the page is that of the replies it is a page of.  Not so: a
\* reply may be recorded after the count (prisma-reply-inbox.repository.ts:61).
TotalIsOfPage == Answered /\ inbox.query.page = 1 => Len(inbox.items) <= inbox.total
=============================================================================
