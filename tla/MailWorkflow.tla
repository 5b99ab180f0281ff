---------------------------- MODULE MailWorkflow ----------------------------
(***************************************************************************)
(* The outreach mails of one organisation, from draft to delivery          *)
(* (src/apps/api/src/mail).                                                *)
(*                                                                         *)
(* The API server and the dispatch worker are separate processes over one  *)
(* PostgreSQL database.  A use case reads the mail and its checklist,      *)
(* tests them, and only then opens the transaction that writes the new     *)
(* status; the transaction tests again that the destination is free, but   *)
(* not that the status is still the one it was decided on.  The model      *)
(* keeps that gap: a process holds a decision in stage[p] between the two  *)
(* steps, and every other action of the system may happen in between.     *)
(* The transaction is one step, since it runs under the advisory lock of   *)
(* the mail's destination.                                                 *)
(*                                                                         *)
(* A mail belongs to one lead, and a lead has at most one mail, so the     *)
(* lead's status is kept per mail.  The contact and the company of a mail  *)
(* are folded into its destination: a destination is closed when its       *)
(* contact unsubscribed or was archived, or when its company is blocked.   *)
(***************************************************************************)
EXTENDS Naturals

CONSTANTS
    Mails,          \* mail ids, numbered in the order of OutreachEmail.createdAt
    Destinations,   \* normalised delivery destinations
    DestinationOf,  \* the destination key stored with each mail
    Requests,       \* concurrent API requests
    Workers,        \* mail dispatch workers (npm run start:worker)
    NoMail,
    SlowProvider    \* may a provider call outlast the 15 minutes of a stale claim?

ASSUME MailsAreNumbered == Mails \subseteq Nat
ASSUME EveryMailHasDestination == DestinationOf \in [Mails -> Destinations]
ASSUME NoMailIsNotAMail == NoMail \notin Mails
ASSUME SlowProviderIsBoolean == SlowProvider \in BOOLEAN
ASSUME WorkersAreNotRequests == Requests \cap Workers = {}

VARIABLES
    status,      \* OutreachEmail.status, or "absent" before the draft exists
    approver,    \* is OutreachEmail.approvedById set?
    checklist,   \* are there checklist items, all of them checked?
    sentAt,      \* is OutreachEmail.sentAt set?
    leadStatus,  \* SalesLead.status of the mail's lead
    closed,      \* the destinations nothing may be sent to
    approval,    \* history: was the content ever approved, and is it still that one?
    stage,       \* what each process is about to do
    arg          \* the mail it does it to

vars == <<status, approver, checklist, sentAt, leadStatus, closed, approval, stage, arg>>

mailVars == <<status, approver, checklist, sentAt, leadStatus, approval>>

Processes == Requests \cup Workers

-----------------------------------------------------------------------------
(* Types.                                                                  *)

EmailStatus == {"draft", "in_review", "rejected", "approved", "queued",
                "sending", "sent", "failed", "cancelled"}

\* The lead statuses a mail writes, and the one a lead has before its first mail.
LeadStatus == {"qualified", "drafted", "reviewing", "rejected", "approved",
               "queued", "contacted"}

\* Stages in which a decision has been taken and its transaction is still to run.
DecisionStages == {"approve", "reject", "rereview", "queue", "markSent", "retry", "polish"}

\* Stages in which the status was read and the checklist has not been read yet.
ReadingStages == {"queueReading", "sendReading"}

\* Stages of a sender that has claimed the mail: the claim is committed; the
\* destination was tested once more; the provider has the mail; it accepted or
\* refused it.
SenderStages == {"claimed", "checked", "calling", "accepted", "refused"}

Stages == {"idle", "claim"} \cup DecisionStages \cup ReadingStages \cup SenderStages

Approvals == {"never", "current", "outdated"}

TypeOK ==
    /\ status \in [Mails -> EmailStatus \cup {"absent"}]
    /\ approver \in [Mails -> BOOLEAN]
    /\ checklist \in [Mails -> BOOLEAN]
    /\ sentAt \in [Mails -> BOOLEAN]
    /\ leadStatus \in [Mails -> LeadStatus]
    /\ closed \subseteq Destinations
    /\ approval \in [Mails -> Approvals]
    /\ stage \in [Processes -> Stages]
    /\ arg \in [Processes -> Mails \cup {NoMail}]
    /\ \A p \in Processes : stage[p] # "idle" => arg[p] \in Mails

Init ==
    /\ status = [m \in Mails |-> "absent"]
    /\ approver = [m \in Mails |-> FALSE]
    /\ checklist = [m \in Mails |-> FALSE]
    /\ sentAt = [m \in Mails |-> FALSE]
    /\ leadStatus = [m \in Mails |-> "qualified"]
    /\ closed = {}
    /\ approval = [m \in Mails |-> "never"]
    /\ stage = [p \in Processes |-> "idle"]
    /\ arg = [p \in Processes |-> NoMail]

-----------------------------------------------------------------------------
(* Contact eligibility.                                                    *)

\* Mutant: a mail under review does not reserve its destination.
ReservedStatusesWithoutReview == {"draft", "approved", "queued", "sending", "sent"}

\* The statuses of a mail that reserve its destination.
ReservedStatuses == {"draft", "in_review", "approved", "queued", "sending", "sent"}

Exists(m) == status[m] # "absent"

Reserves(m) == status[m] \in ReservedStatuses \/ sentAt[m]

Rivals(m) == {k \in Mails \ {m} : DestinationOf[k] = DestinationOf[m]}

\* Mutant: the destination's closure is forgotten.
EligibleIgnoringUnsubscribe(m) == \A k \in Rivals(m) : ~Reserves(k)

\* A mail may move on when its destination is open and no other mail holds it.
Eligible(m) ==
    /\ DestinationOf[m] \notin closed
    /\ \A k \in Rivals(m) : ~Reserves(k)

-----------------------------------------------------------------------------
(* Transitions.                                                            *)

\* Mutant: the lead is not moved when a review is asked for.
LeadStatusAfterWithoutReview(m, to) ==
    CASE to = "draft"     -> "drafted"
      [] to = "rejected"  -> "rejected"
      [] to = "approved"  -> "approved"
      [] to = "queued"    -> "queued"
      [] to = "sent"      -> "contacted"
      [] OTHER            -> leadStatus[m]

\* The lead status a mail status writes through, or the one the lead has.
LeadStatusAfter(m, to) ==
    CASE to = "draft"     -> "drafted"
      [] to = "in_review" -> "reviewing"
      [] to = "rejected"  -> "rejected"
      [] to = "approved"  -> "approved"
      [] to = "queued"    -> "queued"
      [] to = "sent"      -> "contacted"
      [] OTHER            -> leadStatus[m]

\* The transaction behind every transition: the status must change, and the
\* lead follows.
Transition(m, to) ==
    /\ Exists(m)
    /\ status[m] # to
    /\ status' = [status EXCEPT ![m] = to]
    /\ leadStatus' = [leadStatus EXCEPT ![m] = LeadStatusAfter(m, to)]

Finish(p) ==
    /\ stage' = [stage EXCEPT ![p] = "idle"]
    /\ arg' = [arg EXCEPT ![p] = NoMail]

Start(p, s, m) ==
    /\ stage[p] = "idle"
    /\ stage' = [stage EXCEPT ![p] = s]
    /\ arg' = [arg EXCEPT ![p] = m]

-----------------------------------------------------------------------------
(* Operations of one transaction.                                          *)

\* POST /mails/draft: the lead has no mail yet and the destination is free.
CreateDraft(m) ==
    /\ status[m] = "absent"
    /\ \A k \in Mails : k < m => Exists(k)
    /\ Eligible(m)
    /\ status' = [status EXCEPT ![m] = "draft"]
    /\ leadStatus' = [leadStatus EXCEPT ![m] = LeadStatusAfter(m, "draft")]
    /\ UNCHANGED <<approver, checklist, sentAt, closed, approval, stage, arg>>

\* PATCH /mails/:id writes subject and body, whatever the status.
Edit(m) ==
    /\ Exists(m)
    /\ approval[m] = "current"
    /\ approval' = [approval EXCEPT ![m] = "outdated"]
    /\ UNCHANGED <<status, approver, checklist, sentAt, leadStatus, closed, stage, arg>>

UpdateChecklist(m, complete) ==
    /\ Exists(m)
    /\ checklist' = [checklist EXCEPT ![m] = complete]
    /\ UNCHANGED <<status, approver, sentAt, leadStatus, closed, approval, stage, arg>>

\* Asking for a review reads nothing first and accepts every status.
RequestReview(m) ==
    /\ Eligible(m)
    /\ Transition(m, "in_review")
    /\ UNCHANGED <<approver, checklist, sentAt, closed, approval, stage, arg>>

\* Cancelling accepts every status and leaves the lead alone.
Cancel(m) ==
    /\ Exists(m)
    /\ status' = [status EXCEPT ![m] = "cancelled"]
    /\ UNCHANGED <<approver, checklist, sentAt, leadStatus, closed, approval, stage, arg>>

\* A contact unsubscribes or is archived, or the company is blocked.
CloseDestination(d) ==
    /\ closed' = closed \cup {d}
    /\ UNCHANGED <<mailVars, stage, arg>>

\* An operator clears a contact's unsubscribed mark.
ReopenDestination(d) ==
    /\ closed' = closed \ {d}
    /\ UNCHANGED <<mailVars, stage, arg>>

-----------------------------------------------------------------------------
(* Operations that decide first and write later.                           *)

\* Mutant: mail under review may be queued.
DecidesQueueInReview(s, m) ==
    CASE s = "approve"      -> checklist[m]
      [] s = "reject"       -> status[m] \in {"in_review", "approved"}
      [] s = "rereview"     -> status[m] = "rejected"
      [] s = "queueReading" -> status[m] \in {"in_review", "approved"}
      [] s = "markSent"     -> status[m] \in {"approved", "queued", "sending"}
      [] s = "retry"        -> status[m] = "failed"
      [] s = "polish"       -> status[m] \in {"draft", "rejected"}
      [] s = "sendReading"  -> status[m] = "queued"

\* What each use case requires of the state it reads before its transaction.
Decides(s, m) ==
    CASE s = "approve"      -> checklist[m]
      [] s = "reject"       -> status[m] \in {"in_review", "approved"}
      [] s = "rereview"     -> status[m] = "rejected"
      [] s = "queueReading" -> status[m] = "approved"
      [] s = "markSent"     -> status[m] \in {"approved", "queued", "sending"}
      [] s = "retry"        -> status[m] = "failed"
      [] s = "polish"       -> status[m] \in {"draft", "rejected"}
      [] s = "sendReading"  -> status[m] = "queued"

Decide(p, s, m) ==
    /\ Exists(m)
    /\ Decides(s, m)
    /\ Start(p, s, m)
    /\ UNCHANGED <<mailVars, closed>>

\* The mail the worker picks: the oldest queued one that somebody approved.
Dispatchable(m) == status[m] = "queued" /\ approver[m]

Dispatch(w, m) ==
    /\ Dispatchable(m)
    /\ \A k \in Mails : k < m => ~Dispatchable(k)
    /\ Start(w, "sendReading", m)
    /\ UNCHANGED <<mailVars, closed>>

\* Mutant: the checklist test of the sender is inverted.
ReadChecklistInverted(p) ==
    /\ stage[p] \in ReadingStages
    /\ IF checklist[arg[p]] = (stage[p] = "queueReading")
       THEN /\ stage' = [stage EXCEPT ![p] = IF @ = "queueReading" THEN "queue" ELSE "claim"]
            /\ UNCHANGED arg
       ELSE Finish(p)
    /\ UNCHANGED <<mailVars, closed>>

\* Queueing and sending read the checklist after the status.
ReadChecklist(p) ==
    /\ stage[p] \in ReadingStages
    /\ IF checklist[arg[p]]
       THEN /\ stage' = [stage EXCEPT ![p] = IF @ = "queueReading" THEN "queue" ELSE "claim"]
            /\ UNCHANGED arg
       ELSE Finish(p)
    /\ UNCHANGED <<mailVars, closed>>

Approve(p) ==
    LET m == arg[p] IN
    /\ stage[p] = "approve"
    /\ Eligible(m)
    /\ Transition(m, "approved")
    /\ approver' = [approver EXCEPT ![m] = TRUE]
    /\ approval' = [approval EXCEPT ![m] = "current"]
    /\ Finish(p)
    /\ UNCHANGED <<checklist, sentAt, closed>>

\* A rejection does not look at the destination: it only takes the mail back.
Reject(p) ==
    LET m == arg[p] IN
    /\ stage[p] = "reject"
    /\ Transition(m, "rejected")
    /\ approver' = [approver EXCEPT ![m] = FALSE]
    /\ Finish(p)
    /\ UNCHANGED <<checklist, sentAt, closed, approval>>

ReReview(p) ==
    LET m == arg[p] IN
    /\ stage[p] = "rereview"
    /\ Eligible(m)
    /\ Transition(m, "in_review")
    /\ Finish(p)
    /\ UNCHANGED <<approver, checklist, sentAt, closed, approval>>

Queue(p) ==
    LET m == arg[p] IN
    /\ stage[p] = "queue"
    /\ Eligible(m)
    /\ Transition(m, "queued")
    /\ Finish(p)
    /\ UNCHANGED <<approver, checklist, sentAt, closed, approval>>

Retry(p) ==
    LET m == arg[p] IN
    /\ stage[p] = "retry"
    /\ Eligible(m)
    /\ Transition(m, "queued")
    /\ Finish(p)
    /\ UNCHANGED <<approver, checklist, sentAt, closed, approval>>

\* An operator records a delivery made by hand, or resolves a stuck one.
MarkSent(p) ==
    LET m == arg[p] IN
    /\ stage[p] = "markSent"
    /\ Eligible(m)
    /\ Transition(m, "sent")
    /\ sentAt' = [sentAt EXCEPT ![m] = TRUE]
    /\ Finish(p)
    /\ UNCHANGED <<approver, checklist, closed, approval>>

\* The text the AI provider wrote replaces the mail's, and the mail is a draft
\* again, whatever happened to it since the status was read.  Neither the lead
\* nor the destination is looked at.
Polish(p) ==
    LET m == arg[p] IN
    /\ stage[p] = "polish"
    /\ status' = [status EXCEPT ![m] = "draft"]
    /\ approval' = [approval EXCEPT ![m] = IF @ = "never" THEN @ ELSE "outdated"]
    /\ Finish(p)
    /\ UNCHANGED <<approver, checklist, sentAt, leadStatus, closed>>

\* A transaction that finds the destination taken, or the status already
\* reached, changes nothing; the polish transaction tests neither, but the AI
\* provider may fail before it.
TargetStatus(s) ==
    CASE s = "approve"  -> "approved"
      [] s = "reject"   -> "rejected"
      [] s = "rereview" -> "in_review"
      [] s = "queue"    -> "queued"
      [] s = "retry"    -> "queued"
      [] s = "markSent" -> "sent"

Refused(p) ==
    /\ stage[p] \in DecisionStages
    /\ \/ stage[p] = "polish"
       \/ /\ stage[p] # "polish"
          /\ status[arg[p]] = TargetStatus(stage[p])
       \/ /\ stage[p] \notin {"polish", "reject"}
          /\ ~Eligible(arg[p])
    /\ Finish(p)
    /\ UNCHANGED <<mailVars, closed>>

-----------------------------------------------------------------------------
(* Sending.                                                                *)

\* Mutant: the claim does not depend on the status.
ClaimUnconditionally(p) ==
    LET m == arg[p] IN
    /\ stage[p] = "claim"
    /\ Eligible(m)
    /\ status' = [status EXCEPT ![m] = "sending"]
    /\ stage' = [stage EXCEPT ![p] = "claimed"]
    /\ UNCHANGED <<approver, checklist, sentAt, leadStatus, closed, approval, arg>>

\* The claim is conditional on the status, in the transaction that tests the
\* destination.
Claim(p) ==
    LET m == arg[p] IN
    /\ stage[p] = "claim"
    /\ Eligible(m)
    /\ status[m] = "queued"
    /\ status' = [status EXCEPT ![m] = "sending"]
    /\ stage' = [stage EXCEPT ![p] = "claimed"]
    /\ UNCHANGED <<approver, checklist, sentAt, leadStatus, closed, approval, arg>>

ClaimLost(p) ==
    /\ stage[p] = "claim"
    /\ ~Eligible(arg[p]) \/ status[arg[p]] # "queued"
    /\ Finish(p)
    /\ UNCHANGED <<mailVars, closed>>

\* The destination is tested once more, outside any transaction.
CheckDelivery(p) ==
    /\ stage[p] = "claimed"
    /\ stage' = [stage EXCEPT ![p] = IF Eligible(arg[p]) THEN "checked" ELSE "refused"]
    /\ UNCHANGED <<mailVars, closed, arg>>

CallProvider(p) ==
    /\ stage[p] = "checked"
    /\ stage' = [stage EXCEPT ![p] = "calling"]
    /\ UNCHANGED <<mailVars, closed, arg>>

\* The call ends with a message id, or with an error that may hide a delivery.
ProviderAnswers(p) ==
    /\ stage[p] = "calling"
    /\ \E answer \in {"accepted", "refused"} : stage' = [stage EXCEPT ![p] = answer]
    /\ UNCHANGED <<mailVars, closed, arg>>

\* Writing the outcome tests only that the status changes.
MarkSentAfterSend(p) ==
    LET m == arg[p] IN
    /\ stage[p] = "accepted"
    /\ IF status[m] # "sent"
       THEN /\ Transition(m, "sent")
            /\ sentAt' = [sentAt EXCEPT ![m] = TRUE]
       ELSE UNCHANGED <<status, leadStatus, sentAt>>
    /\ Finish(p)
    /\ UNCHANGED <<approver, checklist, closed, approval>>

MarkFailedAfterSend(p) ==
    LET m == arg[p] IN
    /\ stage[p] = "refused"
    /\ IF status[m] # "failed"
       THEN Transition(m, "failed")
       ELSE UNCHANGED <<status, leadStatus>>
    /\ Finish(p)
    /\ UNCHANGED <<approver, checklist, sentAt, closed, approval>>

\* The process dies while it holds a claim.  A process that dies earlier has
\* written nothing: that is an operation nobody asked for.
Crash(p) ==
    /\ stage[p] \in SenderStages
    /\ Finish(p)
    /\ UNCHANGED <<mailVars, closed>>

\* Mutant: the recovery looks for queued mails.
StaleQueued(m) ==
    /\ status[m] = "queued"
    /\ approver[m]
    /\ \/ SlowProvider
       \/ \A p \in Processes : ~(stage[p] \in SenderStages /\ arg[p] = m)

\* A claim is stale when it is older than any call can be, or, with a slow
\* provider, at any time.
Stale(m) ==
    /\ status[m] = "sending"
    /\ approver[m]
    /\ \/ SlowProvider
       \/ \A p \in Processes : ~(stage[p] \in SenderStages /\ arg[p] = m)

\* A worker starts each round by giving stale claims up as failures of unknown
\* outcome.
RecoverStaleSending(w, m) ==
    /\ stage[w] = "idle"
    /\ Stale(m)
    /\ status' = [status EXCEPT ![m] = "failed"]
    /\ UNCHANGED <<approver, checklist, sentAt, leadStatus, closed, approval, stage, arg>>

-----------------------------------------------------------------------------
\* What a request can set out to do.
RequestStages == (DecisionStages \cup ReadingStages) \ {"queue"}

\* The steps a process takes on its own once it has started.
Proceed(p) ==
    \/ ReadChecklist(p)
    \/ Approve(p)
    \/ Reject(p)
    \/ ReReview(p)
    \/ Queue(p)
    \/ Retry(p)
    \/ MarkSent(p)
    \/ Polish(p)
    \/ Refused(p)
    \/ Claim(p)
    \/ ClaimLost(p)
    \/ CheckDelivery(p)
    \/ CallProvider(p)
    \/ ProviderAnswers(p)
    \/ MarkSentAfterSend(p)
    \/ MarkFailedAfterSend(p)

Next ==
    \/ \E m \in Mails :
          \/ CreateDraft(m)
          \/ Edit(m)
          \/ \E complete \in BOOLEAN : UpdateChecklist(m, complete)
          \/ RequestReview(m)
          \/ Cancel(m)
          \/ \E p \in Requests, s \in RequestStages : Decide(p, s, m)
          \/ \E w \in Workers : Dispatch(w, m) \/ RecoverStaleSending(w, m)
    \/ \E d \in Destinations : CloseDestination(d) \/ ReopenDestination(d)
    \/ \E p \in Processes : Proceed(p) \/ Crash(p)

Spec == Init /\ [][Next]_vars

\* A process that has started goes on unless it is killed, and a worker keeps
\* polling.  Recovery is strongly fair because every round of the worker starts
\* with it: a worker that is idle again and again recovers again and again.
Fairness ==
    /\ \A p \in Processes : WF_vars(Proceed(p))
    /\ \A w \in Workers : WF_vars(\E m \in Mails : Dispatch(w, m))
    /\ \A w \in Workers, m \in Mails : SF_vars(RecoverStaleSending(w, m))

FairSpec == Spec /\ Fairness

-----------------------------------------------------------------------------
(* Safety.                                                                 *)

\* A mail that is past the draft and not yet delivered or given up.
InProgress(m) == status[m] \in {"in_review", "approved", "queued", "sending"}

\* At most one mail per destination is under review, approved, queued or being
\* sent, whatever requests and workers interleave.
OneInProgressPerDestination ==
    \A m \in Mails : \A k \in Rivals(m) : ~(InProgress(m) /\ InProgress(k))

\* The provider is only ever given a mail that a person approved at some time:
\* no sequence of retries, polishes, cancellations and late writes gets an
\* unapproved mail out.
OnlyApprovedReachProvider ==
    \A p \in Processes : stage[p] \in SenderStages => approval[arg[p]] # "never"

\* While a mail waits in the workflow its lead shows the same step.
LeadShowsMailStep ==
    \A m \in Mails :
        /\ status[m] = "in_review" => leadStatus[m] = "reviewing"
        /\ status[m] = "approved" => leadStatus[m] = "approved"
        /\ status[m] \in {"queued", "sending"} => leadStatus[m] = "queued"
        /\ status[m] = "sent" => leadStatus[m] = "contacted"

-----------------------------------------------------------------------------
(* The dispatch promise.                                                   *)

Permit == INSTANCE DispatchPermit WITH
    Senders <- Processes,
    permit <- [m \in Mails |-> status[m] = "queued"],
    hold <- [p \in Processes |-> IF stage[p] \in {"claimed", "checked"} THEN arg[p] ELSE NoMail],
    inCall <- [p \in Processes |-> IF stage[p] = "calling" THEN arg[p] ELSE NoMail]

\* Each entry into the send queue pays for at most one claim, and each claim
\* for at most one call of the provider.
DispatchPromise == Permit!PermitSpec

-----------------------------------------------------------------------------
(* Liveness.                                                               *)

\* A claim whose mail has an approver does not stay open: its sender writes the
\* outcome, or a worker gives it up.
ClaimIsClosed ==
    \A m \in Mails : []<>~(status[m] = "sending" /\ approver[m])

\* The oldest dispatchable mail whose checklist is complete and whose
\* destination is free does not wait for ever.
ReadyHead(m) ==
    /\ Dispatchable(m)
    /\ checklist[m]
    /\ Eligible(m)
    /\ \A k \in Mails : k < m => ~Dispatchable(k)

ReadyHeadIsDispatched == \A m \in Mails : []<>~ReadyHead(m)

\* Once a destination is closed for good, calls about it cease: nothing that was
\* decided before it was closed keeps reaching the provider.
ClosedDestinationFallsSilent ==
    \A d \in Destinations :
        <>[](d \in closed)
            => <>[](\A p \in Processes : stage[p] = "calling" => DestinationOf[arg[p]] # d)

-----------------------------------------------------------------------------
(* What the documentation says, and the code does not do.                  *)

\* Only approved mail enters the queue (a failed one re-enters it by a retry).
QueueOnlyApproved ==
    [][\A m \in Mails :
          status[m] # "queued" /\ status'[m] = "queued"
             => status[m] \in {"approved", "failed"}]_vars

\* A mail that was recorded as sent is not handed to the provider again.
SentIsNotResent ==
    [][\A p \in Processes :
          stage[p] = "checked" /\ stage'[p] = "calling" => ~sentAt[arg[p]]]_vars

\* Two mails do not hold the same destination at the same time.
DestinationHeldOnce ==
    \A m \in Mails : \A k \in Rivals(m) : ~(Reserves(m) /\ Reserves(k))

\* The content a sender reads with its claim, and hands to the provider, is the
\* content that was approved.
SentAsApproved ==
    [][\A m \in Mails :
          status[m] # "sending" /\ status'[m] = "sending" => approval[m] = "current"]_vars

\* Polishing only touches drafts and rejected mails.
PolishOnlyDraftOrRejected ==
    [][\A p \in Processes :
          (stage[p] = "polish" /\ status[arg[p]] # "draft" /\ status'[arg[p]] = "draft")
             => status[arg[p]] = "rejected"]_vars

\* A claim does not stay open for ever.
SendingIsResolved == \A m \in Mails : status[m] = "sending" ~> status[m] # "sending"

\* The worker processes the queue: once operators leave mails, checklists and
\* destinations alone, a mail that is ready to go does not wait for ever.
Ready(m) == Dispatchable(m) /\ checklist[m] /\ Eligible(m)

Quiet ==
    /\ <>[](\A p \in Requests : stage[p] = "idle")
    /\ <>[][UNCHANGED <<checklist, closed>>]_vars

ReadyIsDispatched == Quiet => \A m \in Mails : []<>~Ready(m)
=============================================================================
