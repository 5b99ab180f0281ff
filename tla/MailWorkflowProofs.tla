------------------------- MODULE MailWorkflowProofs -------------------------
(***************************************************************************)
(* What holds of MailWorkflow for every number of mails, destinations,     *)
(* requests and workers.                                                   *)
(***************************************************************************)
EXTENDS MailWorkflow, TLAPS

-----------------------------------------------------------------------------
(* Types.                                                                  *)

\* A lead status written through a mail status is a lead status.
LEMMA LeadStatusAfterType ==
    ASSUME TypeOK, NEW m \in Mails, NEW to
    PROVE  LeadStatusAfter(m, to) \in LeadStatus
BY DEF TypeOK, LeadStatusAfter, LeadStatus

LEMMA TransitionType ==
    ASSUME TypeOK, NEW m \in Mails, NEW to \in EmailStatus, Transition(m, to)
    PROVE  /\ status' \in [Mails -> EmailStatus \cup {"absent"}]
           /\ leadStatus' \in [Mails -> LeadStatus]
BY LeadStatusAfterType DEF TypeOK, Transition

LEMMA FinishType ==
    ASSUME TypeOK, NEW p \in Processes, Finish(p)
    PROVE  /\ stage' \in [Processes -> Stages]
           /\ arg' \in [Processes -> Mails \cup {NoMail}]
           /\ \A q \in Processes : stage'[q] # "idle" => arg'[q] \in Mails
BY DEF TypeOK, Finish, Stages

LEMMA StartType ==
    ASSUME TypeOK, NEW p \in Processes, NEW s \in Stages, NEW m \in Mails, Start(p, s, m)
    PROVE  /\ stage' \in [Processes -> Stages]
           /\ arg' \in [Processes -> Mails \cup {NoMail}]
           /\ \A q \in Processes : stage'[q] # "idle" => arg'[q] \in Mails
BY DEF TypeOK, Start

\* A process that moves from one working stage to another keeps its mail.
LEMMA AdvanceType ==
    ASSUME TypeOK, NEW p \in Processes, NEW s \in Stages, stage[p] # "idle",
           stage' = [stage EXCEPT ![p] = s], UNCHANGED arg
    PROVE  /\ stage' \in [Processes -> Stages]
           /\ arg' \in [Processes -> Mails \cup {NoMail}]
           /\ \A q \in Processes : stage'[q] # "idle" => arg'[q] \in Mails
BY DEF TypeOK

\* A working process has a mail.
LEMMA ArgIsMail ==
    ASSUME TypeOK, NEW p \in Processes, stage[p] # "idle"
    PROVE  arg[p] \in Mails
BY DEF TypeOK

LEMMA StageSets ==
    /\ "idle" \notin DecisionStages \cup ReadingStages \cup SenderStages \cup {"claim"}
    /\ DecisionStages \subseteq Stages /\ ReadingStages \subseteq Stages
    /\ SenderStages \subseteq Stages /\ "claim" \in Stages /\ "idle" \in Stages
    /\ RequestStages \subseteq Stages
BY DEF DecisionStages, ReadingStages, SenderStages, Stages, RequestStages

\* Every status, lead status, stage and argument stays within its type.
THEOREM Typing == Spec => []TypeOK
<1>1. Init => TypeOK
  BY StageSets DEF Init, TypeOK, EmailStatus, LeadStatus, Approvals
<1>2. TypeOK /\ [Next]_vars => TypeOK'
  <2> SUFFICES ASSUME TypeOK, [Next]_vars PROVE TypeOK'
    OBVIOUS
  <2> USE DEF TypeOK
  <2>1. ASSUME NEW m \in Mails, CreateDraft(m) PROVE TypeOK'
    BY <2>1, LeadStatusAfterType DEF CreateDraft, EmailStatus
  <2>2. ASSUME NEW m \in Mails, Edit(m) PROVE TypeOK'
    BY <2>2 DEF Edit, Approvals
  <2>3. ASSUME NEW m \in Mails, NEW c \in BOOLEAN, UpdateChecklist(m, c) PROVE TypeOK'
    BY <2>3 DEF UpdateChecklist
  <2>4. ASSUME NEW m \in Mails, RequestReview(m) PROVE TypeOK'
    BY <2>4, TransitionType DEF RequestReview, EmailStatus
  <2>5. ASSUME NEW m \in Mails, Cancel(m) PROVE TypeOK'
    BY <2>5 DEF Cancel, EmailStatus
  <2>6. ASSUME NEW m \in Mails, NEW p \in Requests, NEW s \in RequestStages, Decide(p, s, m)
        PROVE  TypeOK'
    <3>1. p \in Processes /\ s \in Stages
      BY StageSets DEF Processes
    <3>2. Start(p, s, m) /\ UNCHANGED <<mailVars, closed>>
      BY <2>6 DEF Decide
    <3> QED
      BY <3>1, <3>2, StartType DEF mailVars
  <2>7. ASSUME NEW m \in Mails, NEW w \in Workers, Dispatch(w, m) PROVE TypeOK'
    <3>1. w \in Processes /\ "sendReading" \in Stages
      BY DEF Processes, Stages, ReadingStages
    <3>2. Start(w, "sendReading", m) /\ UNCHANGED <<mailVars, closed>>
      BY <2>7 DEF Dispatch
    <3> QED
      BY <3>1, <3>2, StartType DEF mailVars
  <2>8. ASSUME NEW m \in Mails, NEW w \in Workers, RecoverStaleSending(w, m) PROVE TypeOK'
    BY <2>8 DEF RecoverStaleSending, EmailStatus
  <2>9. ASSUME NEW d \in Destinations, CloseDestination(d) PROVE TypeOK'
    BY <2>9 DEF CloseDestination, mailVars
  <2>10. ASSUME NEW d \in Destinations, ReopenDestination(d) PROVE TypeOK'
    BY <2>10 DEF ReopenDestination, mailVars
  <2>11. ASSUME NEW p \in Processes, Proceed(p) PROVE TypeOK'
    <3>1. CASE ReadChecklist(p)
      <4>1. stage[p] # "idle"
        BY <3>1, StageSets DEF ReadChecklist
      <4>2. CASE Finish(p)
        BY <3>1, <4>2, FinishType DEF ReadChecklist, mailVars
      <4>3. CASE ~Finish(p)
        <5>1. PICK s \in {"queue", "claim"} : stage' = [stage EXCEPT ![p] = s]
          BY <3>1, <4>3 DEF ReadChecklist
        <5>2. s \in Stages
          BY DEF Stages, DecisionStages
        <5> QED
          BY <3>1, <4>1, <4>3, <5>1, <5>2, AdvanceType DEF ReadChecklist, mailVars
      <4> QED
        BY <4>2, <4>3
    <3>2. CASE Approve(p)
      BY <3>2, ArgIsMail, TransitionType, FinishType DEF Approve, EmailStatus, Approvals
    <3>3. CASE Reject(p)
      BY <3>3, ArgIsMail, TransitionType, FinishType DEF Reject, EmailStatus
    <3>4. CASE ReReview(p)
      BY <3>4, ArgIsMail, TransitionType, FinishType DEF ReReview, EmailStatus
    <3>5. CASE Queue(p)
      BY <3>5, ArgIsMail, TransitionType, FinishType DEF Queue, EmailStatus
    <3>6. CASE Retry(p)
      BY <3>6, ArgIsMail, TransitionType, FinishType DEF Retry, EmailStatus
    <3>7. CASE MarkSent(p)
      BY <3>7, ArgIsMail, TransitionType, FinishType DEF MarkSent, EmailStatus
    <3>8. CASE Polish(p)
      BY <3>8, ArgIsMail, FinishType DEF Polish, EmailStatus, Approvals
    <3>9. CASE Refused(p)
      BY <3>9, FinishType DEF Refused, mailVars
    <3>10. CASE Claim(p)
      <4>1. "claimed" \in Stages
        BY DEF Stages, SenderStages
      <4> QED
        BY <3>10, <4>1, ArgIsMail, AdvanceType DEF Claim, EmailStatus
    <3>11. CASE ClaimLost(p)
      BY <3>11, FinishType DEF ClaimLost, mailVars
    <3>12. CASE CheckDelivery(p)
      <4>1. PICK s \in {"checked", "refused"} : stage' = [stage EXCEPT ![p] = s]
        BY <3>12 DEF CheckDelivery
      <4>2. s \in Stages
        BY DEF Stages, SenderStages
      <4> QED
        BY <3>12, <4>1, <4>2, AdvanceType DEF CheckDelivery, mailVars
    <3>13. CASE CallProvider(p)
      <4>1. "calling" \in Stages
        BY DEF Stages, SenderStages
      <4> QED
        BY <3>13, <4>1, AdvanceType DEF CallProvider, mailVars
    <3>14. CASE ProviderAnswers(p)
      <4>1. PICK s \in {"accepted", "refused"} : stage' = [stage EXCEPT ![p] = s]
        BY <3>14 DEF ProviderAnswers
      <4>2. s \in Stages
        BY DEF Stages, SenderStages
      <4> QED
        BY <3>14, <4>1, <4>2, AdvanceType DEF ProviderAnswers, mailVars
    <3>15. CASE MarkSentAfterSend(p)
      BY <3>15, ArgIsMail, TransitionType, FinishType DEF MarkSentAfterSend, EmailStatus
    <3>16. CASE MarkFailedAfterSend(p)
      BY <3>16, ArgIsMail, TransitionType, FinishType DEF MarkFailedAfterSend, EmailStatus
    <3> QED
      BY <2>11, <3>1, <3>2, <3>3, <3>4, <3>5, <3>6, <3>7, <3>8, <3>9, <3>10, <3>11,
         <3>12, <3>13, <3>14, <3>15, <3>16 DEF Proceed
  <2>12. ASSUME NEW p \in Processes, Crash(p) PROVE TypeOK'
    BY <2>12, FinishType DEF Crash, mailVars
  <2>13. CASE UNCHANGED vars
    BY <2>13 DEF vars
  <2> QED
    BY <2>1, <2>2, <2>3, <2>4, <2>5, <2>6, <2>7, <2>8, <2>9, <2>10, <2>11, <2>12, <2>13
    DEF Next
<1> QED
  BY <1>1, <1>2, PTL DEF Spec

-----------------------------------------------------------------------------
(* One mail in progress per destination.                                   *)

\* A mail in progress reserves its destination, so a rival is not eligible.
LEMMA EligibleAlone ==
    ASSUME NEW m \in Mails, Eligible(m), NEW k \in Rivals(m)
    PROVE  ~InProgress(k)
BY DEF Eligible, Reserves, InProgress, ReservedStatuses, Rivals

LEMMA RivalsAreMutual ==
    ASSUME NEW m \in Mails, NEW k \in Rivals(m)
    PROVE  k \in Mails /\ k # m /\ m \in Rivals(k)
BY DEF Rivals

\* An eligible mail may take any status: the others on its destination are at rest.
LEMMA EligibleStep ==
    ASSUME TypeOK, OneInProgressPerDestination, NEW m \in Mails, Eligible(m), NEW to,
           status' = [status EXCEPT ![m] = to]
    PROVE  OneInProgressPerDestination'
<1> SUFFICES ASSUME NEW a \in Mails, NEW b \in Rivals(a), InProgress(a)', InProgress(b)'
             PROVE  FALSE
  BY DEF OneInProgressPerDestination, Rivals
<1>1. b \in Mails /\ b # a /\ a \in Rivals(b)
  BY RivalsAreMutual
<1>2. CASE a = m
  <2>1. ~InProgress(b) /\ status'[b] = status[b]
    BY <1>1, <1>2, EligibleAlone DEF TypeOK
  <2> QED
    BY <2>1 DEF InProgress
<1>3. CASE b = m
  <2>1. ~InProgress(a) /\ status'[a] = status[a]
    BY <1>1, <1>3, EligibleAlone DEF TypeOK
  <2> QED
    BY <2>1 DEF InProgress
<1>4. CASE a # m /\ b # m
  <2>1. status'[a] = status[a] /\ status'[b] = status[b]
    BY <1>1, <1>4 DEF TypeOK
  <2> QED
    BY <2>1 DEF InProgress, OneInProgressPerDestination
<1> QED
  BY <1>2, <1>3, <1>4

\* A mail that takes a status at rest disturbs nobody.
LEMMA RestStep ==
    ASSUME TypeOK, OneInProgressPerDestination, NEW m \in Mails, NEW to,
           to \notin {"in_review", "approved", "queued", "sending"},
           status' = [status EXCEPT ![m] = to]
    PROVE  OneInProgressPerDestination'
BY DEF OneInProgressPerDestination, InProgress, Rivals, TypeOK

LEMMA QuietStep ==
    ASSUME OneInProgressPerDestination, UNCHANGED status
    PROVE  OneInProgressPerDestination'
BY DEF OneInProgressPerDestination, InProgress, Rivals

\* At most one mail per destination is under review, approved, queued or being
\* sent, for every number of mails, requests and workers.
THEOREM OneInProgress == Spec => []OneInProgressPerDestination
<1>1. Init => OneInProgressPerDestination
  BY DEF Init, OneInProgressPerDestination, InProgress, Rivals
<1>2. TypeOK /\ OneInProgressPerDestination /\ [Next]_vars => OneInProgressPerDestination'
  <2> SUFFICES ASSUME TypeOK, OneInProgressPerDestination, [Next]_vars
               PROVE  OneInProgressPerDestination'
    OBVIOUS
  <2>1. ASSUME NEW m \in Mails, CreateDraft(m) PROVE OneInProgressPerDestination'
    BY <2>1, RestStep DEF CreateDraft
  <2>2. ASSUME NEW m \in Mails, Edit(m) PROVE OneInProgressPerDestination'
    BY <2>2, QuietStep DEF Edit
  <2>3. ASSUME NEW m \in Mails, NEW c \in BOOLEAN, UpdateChecklist(m, c)
        PROVE  OneInProgressPerDestination'
    BY <2>3, QuietStep DEF UpdateChecklist
  <2>4. ASSUME NEW m \in Mails, RequestReview(m) PROVE OneInProgressPerDestination'
    BY <2>4, EligibleStep DEF RequestReview, Transition
  <2>5. ASSUME NEW m \in Mails, Cancel(m) PROVE OneInProgressPerDestination'
    BY <2>5, RestStep DEF Cancel
  <2>6. ASSUME NEW m \in Mails, NEW p \in Requests, NEW s \in RequestStages, Decide(p, s, m)
        PROVE  OneInProgressPerDestination'
    BY <2>6, QuietStep DEF Decide, mailVars
  <2>7. ASSUME NEW m \in Mails, NEW w \in Workers, Dispatch(w, m)
        PROVE  OneInProgressPerDestination'
    BY <2>7, QuietStep DEF Dispatch, mailVars
  <2>8. ASSUME NEW m \in Mails, NEW w \in Workers, RecoverStaleSending(w, m)
        PROVE  OneInProgressPerDestination'
    BY <2>8, RestStep DEF RecoverStaleSending
  <2>9. ASSUME NEW d \in Destinations, CloseDestination(d) \/ ReopenDestination(d)
        PROVE  OneInProgressPerDestination'
    BY <2>9, QuietStep DEF CloseDestination, ReopenDestination, mailVars
  <2>10. ASSUME NEW p \in Processes, Proceed(p) PROVE OneInProgressPerDestination'
    <3>1. CASE ReadChecklist(p) \/ Refused(p) \/ ClaimLost(p) \/ CheckDelivery(p)
                 \/ CallProvider(p) \/ ProviderAnswers(p)
      BY <3>1, QuietStep
      DEF ReadChecklist, Refused, ClaimLost, CheckDelivery, CallProvider, ProviderAnswers, mailVars
    <3>2. CASE Approve(p)
      BY <3>2, ArgIsMail, EligibleStep DEF Approve, Transition
    <3>3. CASE Reject(p)
      BY <3>3, ArgIsMail, RestStep DEF Reject, Transition
    <3>4. CASE ReReview(p)
      BY <3>4, ArgIsMail, EligibleStep DEF ReReview, Transition
    <3>5. CASE Queue(p)
      BY <3>5, ArgIsMail, EligibleStep DEF Queue, Transition
    <3>6. CASE Retry(p)
      BY <3>6, ArgIsMail, EligibleStep DEF Retry, Transition
    <3>7. CASE MarkSent(p)
      BY <3>7, ArgIsMail, RestStep DEF MarkSent, Transition
    <3>8. CASE Polish(p)
      BY <3>8, ArgIsMail, RestStep DEF Polish
    <3>9. CASE Claim(p)
      BY <3>9, ArgIsMail, EligibleStep DEF Claim
    <3>10. CASE MarkSentAfterSend(p)
      BY <3>10, ArgIsMail, RestStep, QuietStep DEF MarkSentAfterSend, Transition
    <3>11. CASE MarkFailedAfterSend(p)
      BY <3>11, ArgIsMail, RestStep, QuietStep DEF MarkFailedAfterSend, Transition
    <3> QED
      BY <2>10, <3>1, <3>2, <3>3, <3>4, <3>5, <3>6, <3>7, <3>8, <3>9, <3>10, <3>11 DEF Proceed
  <2>11. ASSUME NEW p \in Processes, Crash(p) PROVE OneInProgressPerDestination'
    BY <2>11, QuietStep DEF Crash, mailVars
  <2>12. CASE UNCHANGED vars
    BY <2>12, QuietStep DEF vars
  <2> QED
    BY <2>1, <2>2, <2>3, <2>4, <2>5, <2>6, <2>7, <2>8, <2>9, <2>10, <2>11, <2>12 DEF Next
<1> QED
  BY <1>1, <1>2, Typing, PTL DEF Spec

-----------------------------------------------------------------------------
(* Only approved mail reaches the provider.                                *)

\* A mail never approved has not got past review, and no process is about to
\* take it further than that.
NotYetApproved(m) ==
    /\ status[m] \in {"absent", "draft", "in_review", "rejected", "cancelled"}
    /\ \A p \in Processes :
          arg[p] = m => stage[p] \in {"idle", "approve", "reject", "rereview", "polish"}

ApprovalInv == \A m \in Mails : approval[m] = "never" => NotYetApproved(m)

LEMMA ApprovalInvSuffices ==
    ASSUME TypeOK, ApprovalInv
    PROVE  OnlyApprovedReachProvider
BY ArgIsMail, StageSets DEF ApprovalInv, NotYetApproved, OnlyApprovedReachProvider, SenderStages

\* A mail may take a status at rest, or any status once it has been approved.
LEMMA ApprovalStatusStep ==
    ASSUME TypeOK, ApprovalInv, NEW m \in Mails, NEW to,
           status' = [status EXCEPT ![m] = to],
           \/ to \in {"draft", "in_review", "rejected", "cancelled"}
           \/ approval'[m] # "never",
           \A k \in Mails : approval'[k] = "never" => approval[k] = "never",
           \A p \in Processes : arg'[p] \in Mails =>
              \/ arg'[p] = arg[p] /\ stage'[p] = stage[p]
              \/ stage'[p] \in {"idle", "approve", "reject", "rereview", "polish"}
              \/ approval'[arg'[p]] # "never"
    PROVE  ApprovalInv'
BY DEF ApprovalInv, NotYetApproved, TypeOK

\* A process may move on with a mail that has been approved.
LEMMA ApprovalStageStep ==
    ASSUME TypeOK, ApprovalInv, UNCHANGED <<status, approval>>,
           \A p \in Processes : arg'[p] \in Mails =>
              \/ arg'[p] = arg[p] /\ stage'[p] = stage[p]
              \/ stage'[p] \in {"idle", "approve", "reject", "rereview", "polish"}
              \/ approval[arg'[p]] # "never"
    PROVE  ApprovalInv'
BY DEF ApprovalInv, NotYetApproved, TypeOK

\* The stages past the decision belong to approved mails.
LEMMA PastApproval ==
    ASSUME TypeOK, ApprovalInv, NEW p \in Processes,
           stage[p] \notin {"idle", "approve", "reject", "rereview", "polish"}
    PROVE  arg[p] \in Mails /\ approval[arg[p]] # "never"
BY ArgIsMail DEF ApprovalInv, NotYetApproved

LEMMA FinishHarmless ==
    ASSUME TypeOK, NEW p \in Processes, Finish(p), NEW q \in Processes
    PROVE  \/ arg'[q] = arg[q] /\ stage'[q] = stage[q]
           \/ stage'[q] = "idle"
BY DEF TypeOK, Finish

\* What is decided about a mail never approved leads no further than its review.
LEMMA DecidesOnApproved ==
    ASSUME TypeOK, ApprovalInv, NEW m \in Mails, NEW s \in RequestStages, Decides(s, m)
    PROVE  s \in {"approve", "reject", "rereview", "polish"} \/ approval[m] # "never"
BY DEF ApprovalInv, NotYetApproved, RequestStages, DecisionStages, ReadingStages, Decides

\* The provider is only ever given a mail that a person approved at some time.
THEOREM OnlyApproved == Spec => []OnlyApprovedReachProvider
<1>1. Init => ApprovalInv
  BY DEF Init, ApprovalInv, NotYetApproved
<1>2. TypeOK /\ ApprovalInv /\ [Next]_vars => ApprovalInv'
  <2> SUFFICES ASSUME TypeOK, ApprovalInv, [Next]_vars PROVE ApprovalInv'
    OBVIOUS
  <2>1. ASSUME NEW m \in Mails, CreateDraft(m) PROVE ApprovalInv'
    BY <2>1, ApprovalStatusStep DEF CreateDraft
  <2>2. ASSUME NEW m \in Mails, Edit(m) PROVE ApprovalInv'
    BY <2>2 DEF Edit, ApprovalInv, NotYetApproved, TypeOK
  <2>3. ASSUME NEW m \in Mails, NEW c \in BOOLEAN, UpdateChecklist(m, c) PROVE ApprovalInv'
    BY <2>3, ApprovalStageStep DEF UpdateChecklist
  <2>4. ASSUME NEW m \in Mails, RequestReview(m) PROVE ApprovalInv'
    BY <2>4, ApprovalStatusStep DEF RequestReview, Transition
  <2>5. ASSUME NEW m \in Mails, Cancel(m) PROVE ApprovalInv'
    BY <2>5, ApprovalStatusStep DEF Cancel
  <2>6. ASSUME NEW m \in Mails, NEW p \in Requests, NEW s \in RequestStages, Decide(p, s, m)
        PROVE  ApprovalInv'
    <3>1. \A q \in Processes : \/ arg'[q] = arg[q] /\ stage'[q] = stage[q]
                               \/ arg'[q] = m /\ stage'[q] = s
      BY <2>6 DEF Decide, Start, TypeOK, Processes
    <3>2. s \in {"approve", "reject", "rereview", "polish"} \/ approval[m] # "never"
      BY <2>6, DecidesOnApproved DEF Decide
    <3>3. UNCHANGED <<status, approval>>
      BY <2>6 DEF Decide, mailVars
    <3> QED
      BY <3>1, <3>2, <3>3, ApprovalStageStep
  <2>7. ASSUME NEW m \in Mails, NEW w \in Workers, Dispatch(w, m) PROVE ApprovalInv'
    <3>1. approval[m] # "never"
      BY <2>7 DEF Dispatch, Dispatchable, ApprovalInv, NotYetApproved
    <3> QED
      BY <2>7, <3>1, ApprovalStageStep DEF Dispatch, Start, mailVars, TypeOK, Processes
  <2>8. ASSUME NEW m \in Mails, NEW w \in Workers, RecoverStaleSending(w, m) PROVE ApprovalInv'
    <3>1. approval[m] # "never"
      BY <2>8 DEF RecoverStaleSending, Stale, ApprovalInv, NotYetApproved
    <3> QED
      BY <2>8, <3>1, ApprovalStatusStep DEF RecoverStaleSending
  <2>9. ASSUME NEW d \in Destinations, CloseDestination(d) \/ ReopenDestination(d)
        PROVE  ApprovalInv'
    BY <2>9, ApprovalStageStep DEF CloseDestination, ReopenDestination, mailVars
  <2>10. ASSUME NEW p \in Processes, Proceed(p) PROVE ApprovalInv'
    <3>1. CASE ReadChecklist(p) \/ ClaimLost(p) \/ CheckDelivery(p) \/ CallProvider(p)
                 \/ ProviderAnswers(p)
      <4>1. approval[arg[p]] # "never" /\ arg[p] \in Mails
        BY <3>1, PastApproval
        DEF ReadChecklist, ReadingStages, ClaimLost, CheckDelivery, CallProvider, ProviderAnswers
      <4>2. UNCHANGED <<status, approval>>
        BY <3>1
        DEF ReadChecklist, ClaimLost, CheckDelivery, CallProvider, ProviderAnswers, mailVars
      <4>3. \A q \in Processes : \/ arg'[q] = arg[q] /\ stage'[q] = stage[q]
                                 \/ stage'[q] = "idle"
                                 \/ q = p /\ arg'[q] = arg[q]
        BY <3>1, FinishHarmless
        DEF ReadChecklist, ClaimLost, CheckDelivery, CallProvider, ProviderAnswers, TypeOK
      <4> QED
        BY <4>1, <4>2, <4>3, ApprovalStageStep
    <3>2. CASE Refused(p)
      BY <3>2, FinishHarmless, ApprovalStageStep DEF Refused, mailVars
    <3>3. CASE Approve(p)
      <4>1. arg[p] \in Mails
        BY <3>3, ArgIsMail DEF Approve
      <4>2. approval'[arg[p]] # "never"
            /\ \A k \in Mails : approval'[k] = "never" => approval[k] = "never"
        BY <3>3, <4>1 DEF Approve, TypeOK
      <4>3. status' = [status EXCEPT ![arg[p]] = "approved"]
        BY <3>3 DEF Approve, Transition
      <4>4. \A q \in Processes : (arg'[q] = arg[q] /\ stage'[q] = stage[q]) \/ stage'[q] = "idle"
        BY <3>3, FinishHarmless DEF Approve
      <4> QED
        BY <4>1, <4>2, <4>3, <4>4, ApprovalStatusStep
    <3>4. CASE Reject(p) \/ ReReview(p)
      BY <3>4, ArgIsMail, FinishHarmless, ApprovalStatusStep DEF Reject, ReReview, Transition
    <3>5. CASE Queue(p) \/ Retry(p) \/ MarkSent(p)
      <4>1. arg[p] \in Mails /\ approval'[arg[p]] # "never" /\ UNCHANGED approval
        BY <3>5, PastApproval DEF Queue, Retry, MarkSent
      <4>2. PICK to : status' = [status EXCEPT ![arg[p]] = to]
        BY <3>5 DEF Queue, Retry, MarkSent, Transition
      <4>3. \A q \in Processes : (arg'[q] = arg[q] /\ stage'[q] = stage[q]) \/ stage'[q] = "idle"
        BY <3>5, FinishHarmless DEF Queue, Retry, MarkSent
      <4> QED
        BY <4>1, <4>2, <4>3, ApprovalStatusStep
    <3>6. CASE Polish(p)
      <4>1. arg[p] \in Mails
        BY <3>6, ArgIsMail DEF Polish
      <4>2. \A k \in Mails : approval'[k] = "never" => approval[k] = "never"
        BY <3>6, <4>1 DEF Polish, TypeOK
      <4> QED
        BY <3>6, <4>1, <4>2, FinishHarmless, ApprovalStatusStep DEF Polish
    <3>7. CASE Claim(p)
      <4>1. arg[p] \in Mails /\ approval'[arg[p]] # "never" /\ UNCHANGED <<approval, arg>>
        BY <3>7, PastApproval DEF Claim
      <4>2. \A q \in Processes : stage'[q] = stage[q] \/ q = p
        BY <3>7 DEF Claim, TypeOK
      <4> QED
        BY <3>7, <4>1, <4>2, ApprovalStatusStep DEF Claim
    <3>8. CASE MarkSentAfterSend(p) \/ MarkFailedAfterSend(p)
      <4>1. arg[p] \in Mails /\ approval'[arg[p]] # "never" /\ UNCHANGED approval
        BY <3>8, PastApproval DEF MarkSentAfterSend, MarkFailedAfterSend
      <4>2. \A q \in Processes : (arg'[q] = arg[q] /\ stage'[q] = stage[q]) \/ stage'[q] = "idle"
        BY <3>8, FinishHarmless DEF MarkSentAfterSend, MarkFailedAfterSend
      <4>3. UNCHANGED status \/ \E to : status' = [status EXCEPT ![arg[p]] = to]
        BY <3>8 DEF MarkSentAfterSend, MarkFailedAfterSend, Transition
      <4> QED
        BY <4>1, <4>2, <4>3, ApprovalStatusStep, ApprovalStageStep
    <3> QED
      BY <2>10, <3>1, <3>2, <3>3, <3>4, <3>5, <3>6, <3>7, <3>8 DEF Proceed
  <2>11. ASSUME NEW p \in Processes, Crash(p) PROVE ApprovalInv'
    BY <2>11, FinishHarmless, ApprovalStageStep DEF Crash, mailVars
  <2>12. CASE UNCHANGED vars
    BY <2>12, ApprovalStageStep DEF vars
  <2> QED
    BY <2>1, <2>2, <2>3, <2>4, <2>5, <2>6, <2>7, <2>8, <2>9, <2>10, <2>11, <2>12 DEF Next
<1> QED
  BY <1>1, <1>2, Typing, ApprovalInvSuffices, PTL DEF Spec

-----------------------------------------------------------------------------
(* The lead shows its mail's step.                                         *)

\* What LeadShowsMailStep asks of one mail, as a function of the mail's status.
LeadAgrees(mailStatus, lead) ==
    /\ mailStatus = "in_review" => lead = "reviewing"
    /\ mailStatus = "approved" => lead = "approved"
    /\ mailStatus \in {"queued", "sending"} => lead = "queued"
    /\ mailStatus = "sent" => lead = "contacted"

LEMMA LeadShowsByMail ==
    LeadShowsMailStep <=> \A m \in Mails : LeadAgrees(status[m], leadStatus[m])
BY DEF LeadShowsMailStep, LeadAgrees

\* A change of one mail keeps the others' leads.
LEMMA LeadStep ==
    ASSUME TypeOK, LeadShowsMailStep, NEW m \in Mails, NEW to, NEW lead,
           status' = [status EXCEPT ![m] = to],
           leadStatus' = [leadStatus EXCEPT ![m] = lead],
           LeadAgrees(to, lead)
    PROVE  LeadShowsMailStep'
BY DEF LeadShowsMailStep, LeadAgrees, TypeOK

LEMMA LeadKept ==
    ASSUME LeadShowsMailStep, UNCHANGED <<status, leadStatus>>
    PROVE  LeadShowsMailStep'
BY DEF LeadShowsMailStep

\* Every transition writes a lead status that agrees with the mail's.
LEMMA TransitionAgrees ==
    ASSUME TypeOK, LeadShowsMailStep, NEW m \in Mails,
           NEW to \in EmailStatus \ {"sending"}, Transition(m, to)
    PROVE  LeadShowsMailStep'
<1>1. LeadAgrees(to, LeadStatusAfter(m, to))
  BY DEF LeadAgrees, LeadStatusAfter, EmailStatus
<1> QED
  BY <1>1, LeadStep DEF Transition

\* While a mail waits in the workflow its lead shows the same step.
THEOREM LeadFollows == Spec => []LeadShowsMailStep
<1>1. Init => LeadShowsMailStep
  BY DEF Init, LeadShowsMailStep
<1>2. TypeOK /\ LeadShowsMailStep /\ [Next]_vars => LeadShowsMailStep'
  <2> SUFFICES ASSUME TypeOK, LeadShowsMailStep, [Next]_vars PROVE LeadShowsMailStep'
    OBVIOUS
  <2>1. ASSUME NEW m \in Mails, CreateDraft(m) PROVE LeadShowsMailStep'
    BY <2>1, LeadStep DEF CreateDraft, LeadAgrees
  <2>2. ASSUME NEW m \in Mails, RequestReview(m) PROVE LeadShowsMailStep'
    BY <2>2, TransitionAgrees DEF RequestReview, EmailStatus
  <2>3. ASSUME NEW m \in Mails, Cancel(m) PROVE LeadShowsMailStep'
    BY <2>3 DEF Cancel, LeadShowsMailStep, TypeOK
  <2>4. ASSUME NEW m \in Mails,
               \/ Edit(m)
               \/ \E c \in BOOLEAN : UpdateChecklist(m, c)
               \/ \E p \in Requests, s \in RequestStages : Decide(p, s, m)
               \/ \E w \in Workers : Dispatch(w, m)
        PROVE  LeadShowsMailStep'
    BY <2>4, LeadKept DEF Edit, UpdateChecklist, Decide, Dispatch, mailVars
  <2>5. ASSUME NEW m \in Mails, NEW w \in Workers, RecoverStaleSending(w, m)
        PROVE  LeadShowsMailStep'
    BY <2>5 DEF RecoverStaleSending, LeadShowsMailStep, TypeOK
  <2>6. ASSUME NEW d \in Destinations, CloseDestination(d) \/ ReopenDestination(d)
        PROVE  LeadShowsMailStep'
    BY <2>6, LeadKept DEF CloseDestination, ReopenDestination, mailVars
  <2>7. ASSUME NEW p \in Processes, Proceed(p) PROVE LeadShowsMailStep'
    <3>1. CASE ReadChecklist(p) \/ Refused(p) \/ ClaimLost(p) \/ CheckDelivery(p)
                 \/ CallProvider(p) \/ ProviderAnswers(p)
      BY <3>1, LeadKept
      DEF ReadChecklist, Refused, ClaimLost, CheckDelivery, CallProvider, ProviderAnswers, mailVars
    <3>2. CASE Approve(p) \/ Reject(p) \/ ReReview(p) \/ Queue(p) \/ Retry(p) \/ MarkSent(p)
      BY <3>2, ArgIsMail, TransitionAgrees
      DEF Approve, Reject, ReReview, Queue, Retry, MarkSent, EmailStatus
    <3>3. CASE Polish(p)
      BY <3>3, ArgIsMail DEF Polish, LeadShowsMailStep, TypeOK
    <3>4. CASE Claim(p)
      BY <3>4, ArgIsMail DEF Claim, LeadShowsMailStep, TypeOK
    <3>5. CASE MarkSentAfterSend(p) \/ MarkFailedAfterSend(p)
      BY <3>5, ArgIsMail, TransitionAgrees, LeadKept
      DEF MarkSentAfterSend, MarkFailedAfterSend, EmailStatus
    <3> QED
      BY <2>7, <3>1, <3>2, <3>3, <3>4, <3>5 DEF Proceed
  <2>8. ASSUME NEW p \in Processes, Crash(p) PROVE LeadShowsMailStep'
    BY <2>8, LeadKept DEF Crash, mailVars
  <2>9. CASE UNCHANGED vars
    BY <2>9, LeadKept DEF vars
  <2> QED
    BY <2>1, <2>2, <2>3, <2>4, <2>5, <2>6, <2>7, <2>8, <2>9 DEF Next
<1> QED
  BY <1>1, <1>2, Typing, PTL DEF Spec

-----------------------------------------------------------------------------
(* The dispatch promise.                                                   *)

\* The mail a process holds a permit for, and the mail it has in a call.
HeldBy(p) == IF stage[p] \in {"claimed", "checked"} THEN arg[p] ELSE NoMail
CalledBy(p) == IF stage[p] = "calling" THEN arg[p] ELSE NoMail

PermitView == [m \in Mails |-> status[m] = "queued"]
HoldView == [p \in Processes |-> HeldBy(p)]
CallView == [p \in Processes |-> CalledBy(p)]

\* No process starts or ends holding a permit or a call.
NoSenderMoves ==
    \A p \in Processes : HeldBy(p)' = HeldBy(p) /\ CalledBy(p)' = CalledBy(p)

\* A step that changes the status of one mail, and no sender's business, grants
\* the permit, withdraws it or is nothing to the promise.
LEMMA OneMailStep ==
    ASSUME TypeOK, NEW m \in Mails, NEW to, status' = [status EXCEPT ![m] = to], NoSenderMoves
    PROVE  [Permit!PermitNext]_(Permit!permitVars)
<1>1. UNCHANGED <<HoldView, CallView>>
  BY DEF NoSenderMoves, HoldView, CallView
<1>2. PermitView' = [PermitView EXCEPT ![m] = to = "queued"]
  BY DEF PermitView, TypeOK
<1>3. PermitView[m] = (status[m] = "queued")
  BY DEF PermitView
<1>4. CASE PermitView[m] /\ to # "queued"
  BY <1>1, <1>2, <1>4
  DEF Permit!PermitNext, Permit!Withdraw, PermitView, HoldView, CallView, HeldBy, CalledBy
<1>5. CASE ~PermitView[m] /\ to = "queued"
  BY <1>1, <1>2, <1>5
  DEF Permit!PermitNext, Permit!Grant, PermitView, HoldView, CallView, HeldBy, CalledBy
<1>6. CASE PermitView[m] <=> to = "queued"
  <2>1. UNCHANGED PermitView
    BY <1>2, <1>3, <1>6 DEF PermitView
  <2> QED
    BY <1>1, <2>1 DEF Permit!permitVars, PermitView, HoldView, CallView, HeldBy, CalledBy
<1> QED
  BY <1>3, <1>4, <1>5, <1>6

LEMMA NoMailStep ==
    ASSUME UNCHANGED status, NoSenderMoves
    PROVE  [Permit!PermitNext]_(Permit!permitVars)
BY DEF NoSenderMoves, Permit!permitVars, HeldBy, CalledBy

\* A process that ends its operation outside a claim and a call moves no sender.
LEMMA FinishMovesNoSender ==
    ASSUME TypeOK, NEW p \in Processes, Finish(p),
           stage[p] \notin {"claimed", "checked", "calling"}
    PROVE  NoSenderMoves
BY DEF TypeOK, Finish, NoSenderMoves, HeldBy, CalledBy

LEMMA StartMovesNoSender ==
    ASSUME TypeOK, NEW p \in Processes, NEW m, NEW s, Start(p, s, m),
           s \notin {"claimed", "checked", "calling"}
    PROVE  NoSenderMoves
BY DEF TypeOK, Start, NoSenderMoves, HeldBy, CalledBy

LEMMA StageKept ==
    ASSUME UNCHANGED <<stage, arg>>
    PROVE  NoSenderMoves
BY DEF NoSenderMoves, HeldBy, CalledBy

\* A process of the workflow that leaves a claim or a call gives it up or ends it.
LEMMA LeaveStep ==
    ASSUME TypeOK, NEW p \in Processes, UNCHANGED status, stage[p] # "idle",
           NEW s, s \notin {"claimed", "checked", "calling"},
           stage' = [stage EXCEPT ![p] = s],
           \A q \in Processes : q # p => arg'[q] = arg[q],
           arg' \in [Processes -> Mails \cup {NoMail}]
    PROVE  [Permit!PermitNext]_(Permit!permitVars)
<1>1. UNCHANGED PermitView
  BY DEF PermitView
<1>2. HeldBy(p)' = NoMail /\ CalledBy(p)' = NoMail
  BY DEF HeldBy, CalledBy, TypeOK
<1>3. \A q \in Processes : q # p => HeldBy(q)' = HeldBy(q) /\ CalledBy(q)' = CalledBy(q)
  BY DEF HeldBy, CalledBy, TypeOK
<1>4. arg[p] \in Mails /\ arg[p] # NoMail
  BY ArgIsMail, NoMailIsNotAMail
<1>5. CASE stage[p] \in {"claimed", "checked"}
  <2>1. HoldView[p] # NoMail
    BY <1>4, <1>5 DEF HoldView, HeldBy
  <2>2. HoldView' = [HoldView EXCEPT ![p] = NoMail]
    BY <1>2, <1>3 DEF HoldView
  <2>3. UNCHANGED CallView
    BY <1>2, <1>3, <1>5 DEF CallView, CalledBy
  <2> QED
    BY <1>1, <2>1, <2>2, <2>3
    DEF Permit!PermitNext, Permit!GiveUp, PermitView, HoldView, CallView, HeldBy, CalledBy
<1>6. CASE stage[p] = "calling"
  <2>1. CallView[p] # NoMail
    BY <1>4, <1>6 DEF CallView, CalledBy
  <2>2. CallView' = [CallView EXCEPT ![p] = NoMail]
    BY <1>2, <1>3 DEF CallView
  <2>3. UNCHANGED HoldView
    BY <1>2, <1>3, <1>6 DEF HoldView, HeldBy
  <2> QED
    BY <1>1, <2>1, <2>2, <2>3
    DEF Permit!PermitNext, Permit!EndCall, PermitView, HoldView, CallView, HeldBy, CalledBy
<1>7. CASE stage[p] \notin {"claimed", "checked", "calling"}
  <2>1. HeldBy(p) = NoMail /\ CalledBy(p) = NoMail
    BY <1>7 DEF HeldBy, CalledBy
  <2> QED
    BY <1>2, <1>3, <2>1, NoMailStep DEF NoSenderMoves
<1> QED
  BY <1>5, <1>6, <1>7

LEMMA ClaimTakes ==
    ASSUME TypeOK, NEW p \in Processes, Claim(p)
    PROVE  [Permit!PermitNext]_(Permit!permitVars)
<1>1. arg[p] \in Mails
  BY ArgIsMail DEF Claim
<1>2. PermitView[arg[p]] /\ PermitView' = [PermitView EXCEPT ![arg[p]] = FALSE]
  BY <1>1 DEF Claim, PermitView, TypeOK
<1>3. HoldView[p] = NoMail /\ CallView[p] = NoMail
  BY DEF Claim, HoldView, CallView, HeldBy, CalledBy
<1>4. HoldView' = [HoldView EXCEPT ![p] = arg[p]] /\ UNCHANGED CallView
  BY DEF Claim, HoldView, CallView, HeldBy, CalledBy, TypeOK
<1>5. \E s \in Processes, m \in Mails : Permit!Take(s, m)
  BY <1>1, <1>2, <1>3, <1>4
  DEF Permit!Take, PermitView, HoldView, CallView, HeldBy, CalledBy
<1> QED
  BY <1>5 DEF Permit!PermitNext

LEMMA CallSpendsHold ==
    ASSUME TypeOK, NEW p \in Processes, CallProvider(p)
    PROVE  [Permit!PermitNext]_(Permit!permitVars)
<1>1. arg[p] # NoMail
  BY ArgIsMail, NoMailIsNotAMail DEF CallProvider
<1>2. HoldView[p] = arg[p] /\ HoldView' = [HoldView EXCEPT ![p] = NoMail]
  BY DEF CallProvider, HoldView, HeldBy, TypeOK
<1>3. CallView' = [CallView EXCEPT ![p] = arg[p]]
  BY DEF CallProvider, CallView, CalledBy, TypeOK
<1>4. UNCHANGED PermitView
  BY DEF CallProvider, mailVars, PermitView
<1>5. Permit!CallProvider(p)
  BY <1>1, <1>2, <1>3, <1>4
  DEF Permit!CallProvider, PermitView, HoldView, CallView, HeldBy, CalledBy
<1> QED
  BY <1>5 DEF Permit!PermitNext

\* Each entry into the send queue pays for at most one claim, and each claim
\* for at most one call of the provider: the workflow implements DispatchPermit.
THEOREM Dispatching == Spec => DispatchPromise
<1>1. Init => Permit!PermitInit
  BY DEF Init, Permit!PermitInit
<1>2. TypeOK /\ [Next]_vars => [Permit!PermitNext]_(Permit!permitVars)
  <2> SUFFICES ASSUME TypeOK, [Next]_vars PROVE [Permit!PermitNext]_(Permit!permitVars)
    OBVIOUS
  <2>1. ASSUME NEW m \in Mails,
               CreateDraft(m) \/ RequestReview(m) \/ Cancel(m)
                 \/ \E w \in Workers : RecoverStaleSending(w, m)
        PROVE  [Permit!PermitNext]_(Permit!permitVars)
    <3>1. PICK to : status' = [status EXCEPT ![m] = to]
      BY <2>1 DEF CreateDraft, RequestReview, Cancel, RecoverStaleSending, Transition
    <3>2. NoSenderMoves
      BY <2>1, StageKept DEF CreateDraft, RequestReview, Cancel, RecoverStaleSending
    <3> QED
      BY <3>1, <3>2, OneMailStep
  <2>2. ASSUME NEW m \in Mails, Edit(m) \/ \E c \in BOOLEAN : UpdateChecklist(m, c)
        PROVE  [Permit!PermitNext]_(Permit!permitVars)
    BY <2>2, StageKept, NoMailStep DEF Edit, UpdateChecklist
  <2>3. ASSUME NEW m \in Mails, NEW p \in Requests, NEW s \in RequestStages, Decide(p, s, m)
        PROVE  [Permit!PermitNext]_(Permit!permitVars)
    <3>1. p \in Processes /\ s \notin {"claimed", "checked", "calling"}
      BY DEF Processes, RequestStages, DecisionStages, ReadingStages
    <3> QED
      BY <2>3, <3>1, StartMovesNoSender, NoMailStep DEF Decide, mailVars
  <2>4. ASSUME NEW m \in Mails, NEW w \in Workers, Dispatch(w, m)
        PROVE  [Permit!PermitNext]_(Permit!permitVars)
    BY <2>4, StartMovesNoSender, NoMailStep DEF Dispatch, Processes, mailVars
  <2>5. ASSUME NEW d \in Destinations, CloseDestination(d) \/ ReopenDestination(d)
        PROVE  [Permit!PermitNext]_(Permit!permitVars)
    BY <2>5, StageKept, NoMailStep DEF CloseDestination, ReopenDestination, mailVars
  <2>6. ASSUME NEW p \in Processes, Proceed(p)
        PROVE  [Permit!PermitNext]_(Permit!permitVars)
    <3>1. CASE ReadChecklist(p)
      <4>1. stage[p] \in {"queueReading", "sendReading"} /\ UNCHANGED status
        BY <3>1 DEF ReadChecklist, ReadingStages, mailVars
      <4>2. NoSenderMoves
        <5>1. CASE Finish(p)
          BY <4>1, <5>1, FinishMovesNoSender
        <5>2. CASE ~Finish(p)
          BY <3>1, <4>1, <5>2 DEF ReadChecklist, NoSenderMoves, HeldBy, CalledBy, TypeOK
        <5> QED
          BY <5>1, <5>2
      <4> QED
        BY <4>1, <4>2, NoMailStep
    <3>2. CASE Refused(p) \/ ClaimLost(p)
      BY <3>2, FinishMovesNoSender, NoMailStep
      DEF Refused, ClaimLost, DecisionStages, mailVars
    <3>3. CASE Approve(p) \/ Reject(p) \/ ReReview(p) \/ Queue(p) \/ Retry(p) \/ MarkSent(p)
                 \/ Polish(p)
      <4>1. NoSenderMoves /\ arg[p] \in Mails
        BY <3>3, FinishMovesNoSender, ArgIsMail
        DEF Approve, Reject, ReReview, Queue, Retry, MarkSent, Polish
      <4>2. \E to : status' = [status EXCEPT ![arg[p]] = to]
        BY <3>3 DEF Approve, Reject, ReReview, Queue, Retry, MarkSent, Polish, Transition
      <4> QED
        BY <4>1, <4>2, OneMailStep
    <3>4. CASE Claim(p)
      BY <3>4, ClaimTakes
    <3>5. CASE CheckDelivery(p)
      <4>1. CASE Eligible(arg[p])
        BY <3>5, <4>1, NoMailStep
        DEF CheckDelivery, NoSenderMoves, HeldBy, CalledBy, TypeOK, mailVars
      <4>2. CASE ~Eligible(arg[p])
        BY <3>5, <4>2, LeaveStep DEF CheckDelivery, TypeOK, mailVars
      <4> QED
        BY <4>1, <4>2
    <3>6. CASE CallProvider(p)
      BY <3>6, CallSpendsHold
    <3>7. CASE ProviderAnswers(p)
      BY <3>7, LeaveStep DEF ProviderAnswers, TypeOK, mailVars
    <3>8. CASE MarkSentAfterSend(p) \/ MarkFailedAfterSend(p)
      <4>1. NoSenderMoves /\ arg[p] \in Mails
        BY <3>8, FinishMovesNoSender, ArgIsMail DEF MarkSentAfterSend, MarkFailedAfterSend
      <4>2. UNCHANGED status \/ \E to : status' = [status EXCEPT ![arg[p]] = to]
        BY <3>8 DEF MarkSentAfterSend, MarkFailedAfterSend, Transition
      <4> QED
        BY <4>1, <4>2, OneMailStep, NoMailStep
    <3> QED
      BY <2>6, <3>1, <3>2, <3>3, <3>4, <3>5, <3>6, <3>7, <3>8 DEF Proceed
  <2>7. ASSUME NEW p \in Processes, Crash(p)
        PROVE  [Permit!PermitNext]_(Permit!permitVars)
    <3>1. stage[p] # "idle" /\ UNCHANGED status
      BY <2>7, StageSets DEF Crash, mailVars
    <3>2. stage' = [stage EXCEPT ![p] = "idle"] /\ arg' = [arg EXCEPT ![p] = NoMail]
      BY <2>7 DEF Crash, Finish
    <3>3. arg' \in [Processes -> Mails \cup {NoMail}]
          /\ \A q \in Processes : q # p => arg'[q] = arg[q]
      BY <3>2 DEF TypeOK
    <3> QED
      BY <3>1, <3>2, <3>3, LeaveStep
  <2>8. CASE UNCHANGED vars
    BY <2>8, StageKept, NoMailStep DEF vars
  <2> QED
    BY <2>1, <2>2, <2>3, <2>4, <2>5, <2>6, <2>7, <2>8 DEF Next
<1> QED
  BY <1>1, <1>2, Typing, PTL DEF Spec, DispatchPromise, Permit!PermitSpec
=============================================================================
