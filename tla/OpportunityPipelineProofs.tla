---------------------- MODULE OpportunityPipelineProofs ----------------------
(***************************************************************************)
(* What holds of OpportunityPipeline for every set of users, operation     *)
(* keys, mails, replies and tasks, and however long it runs; and then of   *)
(* the lists that show the work it makes (WorkLists, ReplyInbox).          *)
(***************************************************************************)
EXTENDS WorkViews, SequenceTheorems, FiniteSetTheorems, NaturalsInduction,
        WellFoundedInduction, TLAPS

-----------------------------------------------------------------------------
(* How a step moves the opportunity.                                       *)

StageStays ==
    /\ UNCHANGED <<stage, history, resultVars>>
    /\ version' \in {version, version + 1}

UserMoves == \E r \in issued : Transition(r) \/ Reopen(r)

SystemMovesTo(to, key) ==
    /\ ~KeyUsed(key)
    /\ Rank[to] > Rank[stage]
    /\ to \in SystemTransitions[stage]
    /\ stage' = to
    /\ version' = version + 1
    /\ history' = Append(history, Row(stage, to, key, NoKey))
    /\ UNCHANGED <<resultVars, screen, issued>>

SystemTargets == {"contacted", "replied", "meeting"}

SystemMoves == \E to \in SystemTargets, key \in Mails \cup Replies : SystemMovesTo(to, key)

LEMMA Progresses ==
    ASSUME NEW to \in SystemTargets, NEW key \in Mails \cup Replies, Progress(to, key),
           UNCHANGED <<resultVars, screen, issued>>
    PROVE  StageStays \/ SystemMoves
BY DEF Progress, StageStays, SystemMoves, SystemMovesTo

LEMMA Moves ==
    ASSUME [Next]_vars
    PROVE  StageStays \/ UserMoves \/ SystemMoves
<1>1. CASE UNCHANGED vars
  BY <1>1 DEF vars, StageStays, resultVars
<1>2. CASE \E r \in issued : Transition(r) \/ Reopen(r)
  BY <1>2 DEF UserMoves
<1>3. ASSUME NEW m \in Mails, MailSent(m) PROVE StageStays \/ SystemMoves
  <2>1. Progress("contacted", m) /\ UNCHANGED <<resultVars, screen, issued>>
    BY <1>3 DEF MailSent
  <2> QED
    BY <2>1, Progresses DEF SystemTargets
<1>4. ASSUME NEW r \in Replies, RecordReply(r) PROVE StageStays \/ SystemMoves
  <2>1. CASE \E to \in SystemTargets : AnswerPlanned(r, to)
    <3>1. PICK to \in SystemTargets : AnswerPlanned(r, to)
      BY <2>1
    <3>2. Progress(to, r) /\ UNCHANGED <<resultVars, screen, issued>>
      BY <3>1 DEF AnswerPlanned
    <3> QED
      BY <3>2, Progresses
  <2>2. CASE \E unsubscribed \in BOOLEAN : ReplyRefuses(r, unsubscribed)
    BY <2>2 DEF ReplyRefuses, StageStays
  <2> QED
    BY <1>4, <2>1, <2>2 DEF RecordReply, SystemTargets
<1>5. CASE \E ended \in BOOLEAN : UpdateLead(ended)
  BY <1>5 DEF UpdateLead, StageStays
<1>6. ASSUME NEW u \in Users,
             \/ Load(u)
             \/ \E key \in Keys, kind \in {"transition", "reopen"}, to \in Stages :
                   Issue(u, key, kind, to)
             \/ \E newOwner \in Users \cup {NoUser} : UpdateDetails(u, newOwner)
             \/ EditTask(u)
      PROVE  StageStays
  BY <1>6 DEF Load, Issue, UpdateDetails, EditTask, BeginCreateTask, BeginUpdateTask,
              CreateTask, UpdateTask, DropEdit, StageStays
<1> QED
  BY <1>1, <1>2, <1>3, <1>4, <1>5, <1>6 DEF Next
-----------------------------------------------------------------------------
(* Types.                                                                  *)

OpportunityTypes ==
    /\ stage \in Stages
    /\ version \in Nat
    /\ owner \in Users \cup {NoUser}
    /\ wonAmount \in BOOLEAN /\ lossReason \in BOOLEAN

ScreenTypes ==
    /\ screen \in [Users -> [version : Nat, stage : Stages]]
    /\ issued \subseteq Requests

HistoryTypes == history \in Seq(HistoryRows)

LeadTypes ==
    /\ replies \subseteq Replies
    /\ leadClosed \in BOOLEAN

TaskTypes == task \in [Tasks -> TaskStatus \cup {"absent"}]

EditTypes ==
    /\ edit \in [Users -> [step : {"idle", "creating", "updating"},
                           task : Tasks \cup {NoTask}, seen : TaskStatus]]
    /\ \A u \in Users : edit[u].step # "idle" => edit[u].task \in Tasks

LEMMA TypeParts ==
    TypeOK <=> /\ OpportunityTypes /\ ScreenTypes /\ HistoryTypes
               /\ LeadTypes /\ TaskTypes /\ EditTypes
BY DEF TypeOK, OpportunityTypes, ScreenTypes, HistoryTypes, LeadTypes, TaskTypes, EditTypes

LEMMA RowType ==
    ASSUME OpportunityTypes, NEW to \in Stages, NEW key \in Keys \cup Mails \cup Replies,
           NEW request \in Requests \cup {NoKey}
    PROVE  Row(stage, to, key, request) \in HistoryRows
BY DEF Row, HistoryRows, OpportunityTypes

LEMMA ProgressType ==
    ASSUME OpportunityTypes, HistoryTypes, NEW to \in SystemTargets,
           NEW key \in Mails \cup Replies, Progress(to, key), UNCHANGED <<owner, resultVars>>
    PROVE  OpportunityTypes' /\ HistoryTypes'
<1>1. to \in Stages
  BY DEF SystemTargets, Stages
<1>2. OpportunityTypes'
  BY <1>1 DEF Progress, OpportunityTypes, resultVars
<1>3. Row(stage, to, key, NoKey) \in HistoryRows
  BY <1>1, RowType
<1> QED
  BY <1>2, <1>3, AppendProperties DEF Progress, HistoryTypes

LEMMA PersistType ==
    ASSUME OpportunityTypes, HistoryTypes, TaskTypes, NEW r \in Requests, PersistTransition(r)
    PROVE  OpportunityTypes' /\ HistoryTypes' /\ TaskTypes'
<1>1. r.to \in Stages /\ r.key \in Keys
  BY DEF Requests
<1>2. wonAmount' \in BOOLEAN /\ lossReason' \in BOOLEAN
  <2>1. SetResult(r.to, r.kind = "reopen")
    BY DEF PersistTransition
  <2> QED
    BY <2>1 DEF SetResult, OpportunityTypes, resultVars
<1>3. OpportunityTypes'
  BY <1>1, <1>2 DEF PersistTransition, OpportunityTypes
<1>4. Row(stage, r.to, r.key, r) \in HistoryRows
  BY <1>1, RowType
<1>5. HistoryTypes'
  BY <1>4, AppendProperties DEF PersistTransition, HistoryTypes
<1>6. TaskTypes'
  BY DEF PersistTransition, CancelTasks, TaskTypes, TaskStatus
<1> QED
  BY <1>3, <1>5, <1>6

LEMMA EditType ==
    ASSUME TaskTypes, EditTypes, NEW u \in Users, EditTask(u)
    PROVE  TaskTypes' /\ EditTypes'
<1>1. ASSUME NEW t \in Tasks, BeginCreateTask(u, t) PROVE TaskTypes' /\ EditTypes'
  BY <1>1 DEF BeginCreateTask, TaskTypes, EditTypes, TaskStatus
<1>2. ASSUME NEW t \in Tasks, BeginUpdateTask(u, t) PROVE TaskTypes' /\ EditTypes'
  BY <1>2 DEF BeginUpdateTask, TaskTypes, EditTypes, TaskStatus
<1>3. CASE CreateTask(u)
  BY <1>3 DEF CreateTask, NoEdit, TaskTypes, EditTypes, TaskStatus
<1>4. ASSUME NEW to \in TaskStatus, UpdateTask(u, to) PROVE TaskTypes' /\ EditTypes'
  BY <1>4 DEF UpdateTask, NoEdit, TaskTypes, EditTypes, TaskStatus
<1>5. CASE DropEdit(u)
  BY <1>5 DEF DropEdit, NoEdit, TaskTypes, EditTypes, TaskStatus
<1> QED
  BY <1>1, <1>2, <1>3, <1>4, <1>5 DEF EditTask

LEMMA TypeStep == TypeOK /\ [Next]_vars => TypeOK'
<1> SUFFICES ASSUME TypeOK, [Next]_vars PROVE TypeOK'
  OBVIOUS
<1>a. /\ OpportunityTypes /\ ScreenTypes /\ HistoryTypes
      /\ LeadTypes /\ TaskTypes /\ EditTypes
  BY TypeParts
<1>b. (OpportunityTypes' /\ ScreenTypes' /\ HistoryTypes' /\ LeadTypes' /\ TaskTypes' /\ EditTypes')
        => TypeOK'
  BY DEF TypeOK, OpportunityTypes, ScreenTypes, HistoryTypes, LeadTypes, TaskTypes, EditTypes
<1> USE <1>a
<1>1. CASE UNCHANGED vars
  BY <1>1, <1>b DEF vars, resultVars, OpportunityTypes, ScreenTypes, HistoryTypes, LeadTypes,
                    TaskTypes, EditTypes
<1>2. ASSUME NEW u \in Users, Load(u) PROVE TypeOK'
  BY <1>2, <1>b DEF Load, resultVars, OpportunityTypes, ScreenTypes, HistoryTypes, LeadTypes,
                    TaskTypes, EditTypes
<1>3. ASSUME NEW u \in Users, NEW key \in Keys, NEW kind \in {"transition", "reopen"},
             NEW to \in Stages, Issue(u, key, kind, to)
      PROVE  TypeOK'
  <2>1. [by |-> u, key |-> key, kind |-> kind, to |-> to,
         version |-> screen[u].version, seen |-> screen[u].stage] \in Requests
    BY DEF ScreenTypes, Requests
  <2>2. ScreenTypes'
    BY <1>3, <2>1 DEF Issue, ScreenTypes
  <2> QED
    BY <1>3, <2>2, <1>b DEF Issue, resultVars, OpportunityTypes, HistoryTypes, LeadTypes,
                            TaskTypes, EditTypes
<1>4. ASSUME NEW u \in Users, NEW newOwner \in Users \cup {NoUser}, UpdateDetails(u, newOwner)
      PROVE  TypeOK'
  BY <1>4, <1>b DEF UpdateDetails, resultVars, OpportunityTypes, ScreenTypes, HistoryTypes,
                    LeadTypes, TaskTypes, EditTypes
<1>5. ASSUME NEW u \in Users, EditTask(u) PROVE TypeOK'
  <2>1. UNCHANGED <<stage, version, owner, wonAmount, lossReason, history, screen, issued,
                    replies, leadClosed>>
    BY <1>5 DEF EditTask, BeginCreateTask, BeginUpdateTask, CreateTask, UpdateTask, DropEdit,
                resultVars
  <2> QED
    BY <1>5, <2>1, <1>b, EditType DEF OpportunityTypes, ScreenTypes, HistoryTypes, LeadTypes
<1>6. ASSUME NEW r \in issued, Transition(r) \/ Reopen(r) PROVE TypeOK'
  <2>1. r \in Requests /\ PersistTransition(r)
    BY <1>6 DEF Transition, Reopen, ScreenTypes
  <2>2. ScreenTypes' /\ LeadTypes' /\ EditTypes'
    BY <2>1 DEF PersistTransition, ScreenTypes, LeadTypes, EditTypes
  <2> QED
    BY <2>1, <2>2, <1>b, PersistType
<1>7. ASSUME NEW m \in Mails, MailSent(m) PROVE TypeOK'
  <2>1. Progress("contacted", m) /\ UNCHANGED <<owner, resultVars>>
    BY <1>7 DEF MailSent
  <2>2. OpportunityTypes' /\ HistoryTypes'
    BY <2>1, ProgressType DEF SystemTargets
  <2> QED
    BY <1>7, <2>2, <1>b DEF MailSent, ScreenTypes, LeadTypes, TaskTypes, EditTypes
<1>8. ASSUME NEW r \in Replies, NEW to \in SystemTargets, AnswerPlanned(r, to) PROVE TypeOK'
  <2>1. Progress(to, r) /\ UNCHANGED <<owner, resultVars>>
    BY <1>8 DEF AnswerPlanned
  <2>2. OpportunityTypes' /\ HistoryTypes'
    BY <2>1, ProgressType
  <2>3. TaskTypes'
    BY <1>8 DEF AnswerPlanned, TaskTypes, TaskStatus
  <2>4. ScreenTypes' /\ LeadTypes' /\ EditTypes'
    BY <1>8 DEF AnswerPlanned, ScreenTypes, LeadTypes, EditTypes
  <2> QED
    BY <2>2, <2>3, <2>4, <1>b
<1>9. ASSUME NEW r \in Replies, NEW unsubscribed \in BOOLEAN, ReplyRefuses(r, unsubscribed)
      PROVE  TypeOK'
  BY <1>9, <1>b DEF ReplyRefuses, resultVars, OpportunityTypes, ScreenTypes, HistoryTypes,
                    LeadTypes, TaskTypes, EditTypes
<1>10. ASSUME NEW ended \in BOOLEAN, UpdateLead(ended) PROVE TypeOK'
  BY <1>10, <1>b DEF UpdateLead, resultVars, OpportunityTypes, ScreenTypes, HistoryTypes,
                     LeadTypes, TaskTypes, EditTypes
<1> QED
  BY <1>1, <1>2, <1>3, <1>4, <1>5, <1>6, <1>7, <1>8, <1>9, <1>10
  DEF Next, RecordReply, SystemTargets

\* Every variable of the opportunity, its requests and its tasks keeps its type.
THEOREM Typing == Spec => []TypeOK
<1>1. Init => TypeOK
  <2> SUFFICES ASSUME Init PROVE TypeOK
    OBVIOUS
  <2>1. OpportunityTypes /\ LeadTypes
    BY DEF Init, OpportunityTypes, LeadTypes, Stages
  <2>2. ScreenTypes
    BY DEF Init, ScreenTypes, Stages
  <2>3. HistoryTypes
    BY EmptySeq DEF Init, HistoryTypes
  <2>4. TaskTypes
    BY DEF Init, TaskTypes
  <2>5. EditTypes
    BY DEF Init, EditTypes, NoEdit, TaskStatus
  <2> QED
    BY <2>1, <2>2, <2>3, <2>4, <2>5, TypeParts
<1> QED
  BY <1>1, TypeStep, PTL DEF Spec

-----------------------------------------------------------------------------
(* What a change of the stage leaves in the history.                       *)

\* The change is recorded by one new row, under a key that is not used yet; the
\* row of a request is that of one that is issued and names the current version.
Recorded(row) ==
    /\ history' = Append(history, row)
    /\ row.from = stage /\ row.to = stage'
    /\ row.versionAfter = version + 1 /\ version' = version + 1
    /\ ~KeyUsed(row.key)
    /\ row.request # NoKey => row.request \in issued /\ row.request.version = version

LEMMA MoveIsRecorded ==
    ASSUME TypeOK, UserMoves \/ SystemMoves
    PROVE  \E row \in HistoryRows : Recorded(row)
<1>a. OpportunityTypes /\ ScreenTypes
  BY TypeParts
<1>1. CASE UserMoves
  <2>1. PICK r \in issued : Transition(r) \/ Reopen(r)
    BY <1>1 DEF UserMoves
  <2>2. r \in Requests /\ PersistTransition(r) /\ r.version = version /\ ~KeyUsed(r.key)
    BY <1>a, <2>1 DEF ScreenTypes, Transition, Reopen
  <2>3. r.to \in Stages /\ r.key \in Keys
    BY <2>2 DEF Requests
  <2>4. Row(stage, r.to, r.key, r) \in HistoryRows
    BY <1>a, <2>2, <2>3, RowType
  <2>5. Recorded(Row(stage, r.to, r.key, r))
    BY <2>1, <2>2 DEF PersistTransition, Recorded, Row
  <2> QED
    BY <2>4, <2>5
<1>2. CASE SystemMoves
  <2>1. PICK to \in SystemTargets, key \in Mails \cup Replies : SystemMovesTo(to, key)
    BY <1>2 DEF SystemMoves
  <2>2. Row(stage, to, key, NoKey) \in HistoryRows
    <3>1. to \in Stages
      BY DEF SystemTargets, Stages
    <3> QED
      BY <1>a, <3>1, RowType
  <2>3. Recorded(Row(stage, to, key, NoKey))
    BY <2>1 DEF SystemMovesTo, Recorded, Row
  <2> QED
    BY <2>2, <2>3
<1> QED
  BY <1>1, <1>2

LEMMA RowsOfHistory ==
    ASSUME HistoryTypes
    PROVE  \A i \in DOMAIN history : history[i] \in HistoryRows /\ history[i].versionAfter \in Nat
<1>1. \A i \in DOMAIN history : history[i] \in HistoryRows
  BY ElementOfSeq, LenProperties DEF HistoryTypes
<1>2. \A row \in HistoryRows : row.versionAfter \in Nat
  BY DEF HistoryRows
<1> QED
  BY <1>1, <1>2

LEMMA LongerHistory ==
    ASSUME HistoryTypes, NEW row \in HistoryRows, history' = Append(history, row)
    PROVE  /\ Len(history) \in Nat
           /\ DOMAIN history = 1 .. Len(history)
           /\ history = <<>> <=> Len(history) = 0
           /\ DOMAIN history' = 1 .. Len(history) + 1
           /\ Len(history') = Len(history) + 1
           /\ history' # <<>>
           /\ history'[Len(history) + 1] = row
           /\ \A i \in 1 .. Len(history) : history'[i] = history[i]
<1>1. /\ Len(history) \in Nat
      /\ DOMAIN history = 1 .. Len(history)
      /\ history = <<>> <=> Len(history) = 0
  BY EmptySeq, LenProperties DEF HistoryTypes
<1>2. /\ history' \in Seq(HistoryRows)
      /\ history' # <<>>
      /\ Len(history') = Len(history) + 1
      /\ \A i \in 1 .. Len(history) : history'[i] = history[i]
      /\ history'[Len(history) + 1] = row
  BY AppendProperties DEF HistoryTypes
<1>3. DOMAIN history' = 1 .. Len(history')
  BY <1>2, LenProperties
<1> QED
  BY <1>1, <1>2, <1>3

-----------------------------------------------------------------------------
(* The history.                                                            *)

LEMMA HistoryStep == TypeOK /\ HistoryTellsStage /\ [Next]_vars => HistoryTellsStage'
<1> SUFFICES ASSUME TypeOK, HistoryTellsStage, [Next]_vars PROVE HistoryTellsStage'
  OBVIOUS
<1>a. OpportunityTypes /\ HistoryTypes
  BY TypeParts
<1>1. CASE StageStays
  <2>1. \A i \in DOMAIN history : history[i].versionAfter \in Nat
    BY <1>a, RowsOfHistory
  <2>2. \A i \in DOMAIN history : history[i].versionAfter <= version'
    BY <1>1, <1>a, <2>1 DEF StageStays, HistoryTellsStage, OpportunityTypes
  <2> QED
    BY <1>1, <2>2 DEF StageStays, HistoryTellsStage
<1>2. CASE UserMoves \/ SystemMoves
  <2>1. PICK row \in HistoryRows : Recorded(row)
    BY <1>2, MoveIsRecorded
  <2> DEFINE n == Len(history)
  <2>2. /\ n \in Nat
        /\ DOMAIN history = 1 .. n
        /\ history = <<>> <=> n = 0
        /\ DOMAIN history' = 1 .. n + 1
        /\ Len(history') = n + 1
        /\ history' # <<>>
        /\ history'[n + 1] = row
        /\ \A i \in 1 .. n : history'[i] = history[i]
    BY <1>a, <2>1, LongerHistory DEF Recorded
  <2>3. \A i \in 1 .. n : history[i].versionAfter \in Nat
    BY <1>a, <2>2, RowsOfHistory
  <2>4. /\ row.from = stage /\ row.to = stage'
        /\ row.versionAfter = version + 1 /\ version' = version + 1
        /\ version \in Nat
    BY <1>a, <2>1 DEF Recorded, OpportunityTypes
  <2> HIDE DEF n
  <2>5. stage' = IF history' = <<>> THEN "uncontacted" ELSE history'[Len(history')].to
    BY <2>2, <2>4
  <2>6. ASSUME NEW i \in 1 .. n
        PROVE  /\ history'[i].from = IF i = 1 THEN "uncontacted" ELSE history'[i - 1].to
               /\ history'[i].versionAfter <= version'
               /\ i > 1 => history'[i - 1].versionAfter < history'[i].versionAfter
    <3>1. i > 1 => i - 1 \in 1 .. n
      BY <2>2
    <3>2. /\ history[i].from = IF i = 1 THEN "uncontacted" ELSE history[i - 1].to
          /\ history[i].versionAfter <= version
          /\ i > 1 => history[i - 1].versionAfter < history[i].versionAfter
      BY <2>2 DEF HistoryTellsStage
    <3> QED
      BY <2>2, <2>3, <2>4, <3>1, <3>2
  <2>7. /\ history'[n + 1].from
              = IF n + 1 = 1 THEN "uncontacted" ELSE history'[(n + 1) - 1].to
        /\ history'[n + 1].versionAfter <= version'
        /\ n + 1 > 1 => history'[(n + 1) - 1].versionAfter < history'[n + 1].versionAfter
    <3>1. n # 0 => n \in 1 .. n /\ (n + 1) - 1 = n
      BY <2>2
    <3>2. n # 0 => stage = history[n].to /\ history[n].versionAfter <= version
      BY <2>2, <3>1 DEF HistoryTellsStage, n
    <3>3. n = 0 => stage = "uncontacted"
      BY <2>2 DEF HistoryTellsStage
    <3> QED
      BY <2>2, <2>3, <2>4, <3>1, <3>2, <3>3
  <2>8. \A i \in 1 .. n + 1 : i \in 1 .. n \/ i = n + 1
    BY <2>2
  <2> QED
    BY <2>2, <2>5, <2>6, <2>7, <2>8 DEF HistoryTellsStage
<1> QED
  BY <1>1, <1>2, Moves

\* The history tells, change by change, how the opportunity came to its stage.
THEOREM History == Spec => []HistoryTellsStage
<1>1. Init => HistoryTellsStage
  BY DEF Init, HistoryTellsStage
<1> QED
  BY <1>1, HistoryStep, Typing, PTL DEF Spec

\* No mail, reply or operation of a user moves the opportunity twice.
THEOREM OncePerKey == Spec => []MovedOncePerKey
<1>1. Init => MovedOncePerKey
  BY DEF Init, MovedOncePerKey
<1>2. TypeOK /\ MovedOncePerKey /\ [Next]_vars => MovedOncePerKey'
  <2> SUFFICES ASSUME TypeOK, MovedOncePerKey, [Next]_vars PROVE MovedOncePerKey'
    OBVIOUS
  <2>1. CASE StageStays
    BY <2>1 DEF StageStays, MovedOncePerKey
  <2>2. CASE UserMoves \/ SystemMoves
    <3>1. PICK row \in HistoryRows : Recorded(row)
      BY <2>2, MoveIsRecorded
    <3> DEFINE n == Len(history)
    <3>2. /\ n \in Nat
          /\ DOMAIN history = 1 .. n
          /\ DOMAIN history' = 1 .. n + 1
          /\ history'[n + 1] = row
          /\ \A i \in 1 .. n : history'[i] = history[i]
      BY <3>1, LongerHistory, TypeParts DEF Recorded
    <3> HIDE DEF n
    <3>3. \A i \in 1 .. n : history'[i].key # row.key
      BY <3>1, <3>2 DEF Recorded, KeyUsed
    <3>4. \A i, j \in 1 .. n : history'[i].key = history'[j].key => i = j
      BY <3>2 DEF MovedOncePerKey
    <3>5. \A i \in 1 .. n + 1 : i \in 1 .. n \/ i = n + 1
      BY <3>2
    <3> QED
      BY <3>2, <3>3, <3>4, <3>5 DEF MovedOncePerKey
  <2> QED
    BY <2>1, <2>2, Moves
<1> QED
  BY <1>1, <1>2, Typing, PTL DEF Spec

-----------------------------------------------------------------------------
(* What users see.                                                         *)

\* Whoever has seen the current version has seen the current stage: no change of
\* the stage leaves the version alone.
SeenIsCurrent ==
    /\ \A u \in Users :
          /\ screen[u].version <= version
          /\ screen[u].version = version => screen[u].stage = stage
    /\ \A r \in issued :
          /\ r.version <= version
          /\ r.version = version => r.seen = stage

LEMMA SeenTypes ==
    ASSUME ScreenTypes
    PROVE  /\ \A u \in Users : screen[u].version \in Nat
           /\ \A r \in issued : r.version \in Nat
BY DEF ScreenTypes, Requests

LEMMA SeenBecomesOld ==
    ASSUME OpportunityTypes, ScreenTypes, SeenIsCurrent, UNCHANGED <<screen, issued>>,
           version' = version + 1 \/ UNCHANGED <<version, stage>>
    PROVE  SeenIsCurrent'
<1>1. version \in Nat
  BY DEF OpportunityTypes
<1>2. /\ \A u \in Users : screen[u].version \in Nat
      /\ \A r \in issued : r.version \in Nat
  BY SeenTypes
<1> QED
  BY <1>1, <1>2 DEF SeenIsCurrent

LEMMA SeenStep == TypeOK /\ SeenIsCurrent /\ [Next]_vars => SeenIsCurrent'
<1> SUFFICES ASSUME TypeOK, SeenIsCurrent, [Next]_vars PROVE SeenIsCurrent'
  OBVIOUS
<1>a. OpportunityTypes /\ ScreenTypes
  BY TypeParts
<1>b. (version' = version + 1 \/ UNCHANGED <<version, stage>>) /\ UNCHANGED <<screen, issued>>
        => SeenIsCurrent'
  BY <1>a, SeenBecomesOld
<1>1. CASE UNCHANGED vars
  BY <1>1, <1>b DEF vars
<1>2. ASSUME NEW u \in Users, Load(u) PROVE SeenIsCurrent'
  BY <1>2, <1>a DEF Load, SeenIsCurrent, ScreenTypes, OpportunityTypes
<1>3. ASSUME NEW u \in Users, NEW key \in Keys, NEW kind \in {"transition", "reopen"},
             NEW to \in Stages, Issue(u, key, kind, to)
      PROVE  SeenIsCurrent'
  BY <1>3 DEF Issue, SeenIsCurrent
<1>4. ASSUME NEW u \in Users,
             \/ \E newOwner \in Users \cup {NoUser} : UpdateDetails(u, newOwner)
             \/ EditTask(u)
      PROVE  SeenIsCurrent'
  BY <1>4, <1>b DEF UpdateDetails, EditTask, BeginCreateTask, BeginUpdateTask, CreateTask,
                    UpdateTask, DropEdit
<1>5. ASSUME NEW r \in issued, Transition(r) \/ Reopen(r) PROVE SeenIsCurrent'
  BY <1>5, <1>b DEF Transition, Reopen, PersistTransition
<1>6. ASSUME NEW m \in Mails, MailSent(m) PROVE SeenIsCurrent'
  BY <1>6, <1>b DEF MailSent, Progress
<1>7. ASSUME NEW r \in Replies, RecordReply(r) PROVE SeenIsCurrent'
  BY <1>7, <1>b DEF RecordReply, AnswerPlanned, ReplyRefuses, Progress
<1>8. ASSUME NEW ended \in BOOLEAN, UpdateLead(ended) PROVE SeenIsCurrent'
  BY <1>8, <1>b DEF UpdateLead
<1> QED
  BY <1>1, <1>2, <1>3, <1>4, <1>5, <1>6, <1>7, <1>8 DEF Next

LEMMA Seeing == Spec => []SeenIsCurrent
<1>1. Init => SeenIsCurrent
  BY DEF Init, SeenIsCurrent
<1> QED
  BY <1>1, SeenStep, Typing, PTL DEF Spec

\* The row of a user's request tells the stage its screen showed as the stage it
\* moved the opportunity away from.
THEOREM FromSeenStage == Spec => []MovedFromSeenStage
<1>1. Init => MovedFromSeenStage
  BY DEF Init, MovedFromSeenStage
<1>2. TypeOK /\ SeenIsCurrent /\ MovedFromSeenStage /\ [Next]_vars => MovedFromSeenStage'
  <2> SUFFICES ASSUME TypeOK, SeenIsCurrent, MovedFromSeenStage, [Next]_vars
               PROVE  MovedFromSeenStage'
    OBVIOUS
  <2>1. CASE StageStays
    BY <2>1 DEF StageStays, MovedFromSeenStage
  <2>2. CASE UserMoves \/ SystemMoves
    <3>1. PICK row \in HistoryRows : Recorded(row)
      BY <2>2, MoveIsRecorded
    <3> DEFINE n == Len(history)
    <3>2. /\ n \in Nat
          /\ DOMAIN history = 1 .. n
          /\ DOMAIN history' = 1 .. n + 1
          /\ history'[n + 1] = row
          /\ \A i \in 1 .. n : history'[i] = history[i]
      BY <3>1, LongerHistory, TypeParts DEF Recorded
    <3> HIDE DEF n
    <3>3. row.request # NoKey => row.from = row.request.seen
      BY <3>1 DEF Recorded, SeenIsCurrent
    <3>4. \A i \in 1 .. n + 1 : i \in 1 .. n \/ i = n + 1
      BY <3>2
    <3> QED
      BY <3>2, <3>3, <3>4 DEF MovedFromSeenStage
  <2> QED
    BY <2>1, <2>2, Moves
<1> QED
  BY <1>1, <1>2, Typing, Seeing, PTL DEF Spec

-----------------------------------------------------------------------------
(* The stage.                                                              *)

LEMMA UserMove ==
    ASSUME TypeOK, UserMoves
    PROVE  /\ stage' \in Stages
           /\ \/ stage \notin TerminalStages /\ stage' \in NormalTransitions[stage]
              \/ stage \in TerminalStages
           /\ SetResult(stage', stage \in TerminalStages)
<1>1. PICK r \in issued : Transition(r) \/ Reopen(r)
  BY DEF UserMoves
<1>2. r \in Requests
  BY TypeParts DEF ScreenTypes
<1>3. CASE Transition(r)
  BY <1>2, <1>3 DEF Transition, MayTransition, PersistTransition, Requests, SetResult
<1>4. CASE Reopen(r)
  BY <1>2, <1>4 DEF Reopen, MayReopen, PersistTransition, Requests, SetResult, TerminalStages
<1> QED
  BY <1>1, <1>3, <1>4

\* The result of the opportunity is set for its end, and cleared by its reopening.
THEOREM Results == Spec => []ResultTellsStage
<1>1. Init => ResultTellsStage
  BY DEF Init, ResultTellsStage
<1>2. TypeOK /\ ResultTellsStage /\ [Next]_vars => ResultTellsStage'
  <2> SUFFICES ASSUME TypeOK, ResultTellsStage, [Next]_vars PROVE ResultTellsStage'
    OBVIOUS
  <2>1. CASE StageStays
    BY <2>1 DEF StageStays, ResultTellsStage, resultVars
  <2>2. CASE UserMoves
    <3>1. SetResult(stage', stage \in TerminalStages)
      BY <2>2, UserMove
    <3> QED
      BY <3>1 DEF SetResult, ResultTellsStage, TerminalStages, resultVars
  <2>3. CASE SystemMoves
    <3>1. /\ stage \in Stages
          /\ stage' \in SystemTargets /\ stage' \in SystemTransitions[stage]
          /\ UNCHANGED resultVars
      BY <2>3, TypeParts DEF SystemMoves, SystemMovesTo, OpportunityTypes
    <3>2. stage # "won" /\ stage # "lost"
      BY <3>1 DEF SystemTransitions
    <3> QED
      BY <3>1, <3>2 DEF ResultTellsStage, SystemTargets, resultVars
  <2> QED
    BY <2>1, <2>2, <2>3, Moves
<1> QED
  BY <1>1, <1>2, Typing, PTL DEF Spec

LEMMA NormalTransitionsRise ==
    ASSUME NEW from \in Stages, NEW to \in NormalTransitions[from]
    PROVE  Rank[to] > Rank[from]
BY DEF NormalTransitions, Rank, Stages

\* The opportunity goes back by being reopened, and by nothing else.
THEOREM OnlyReopened == Spec => NeverRewinds
<1>1. TypeOK /\ [Next]_vars
        => [stage' # stage => Rank[stage'] > Rank[stage] \/ stage \in TerminalStages]_vars
  <2> SUFFICES ASSUME TypeOK, [Next]_vars, stage' # stage, stage \notin TerminalStages
               PROVE  Rank[stage'] > Rank[stage]
    OBVIOUS
  <2>1. stage \in Stages
    BY TypeParts DEF OpportunityTypes
  <2>2. ~StageStays
    BY DEF StageStays
  <2>3. CASE UserMoves
    BY <2>1, <2>3, UserMove, NormalTransitionsRise
  <2>4. CASE SystemMoves
    BY <2>4 DEF SystemMoves, SystemMovesTo
  <2> QED
    BY <2>2, <2>3, <2>4, Moves
<1> QED
  BY <1>1, Typing, PTL DEF Spec, NeverRewinds

-----------------------------------------------------------------------------
(* The lists of the work that waits: types.                                *)

Dates == Nat \cup {Nothing}
TaskStates == {Nothing, "todo", "doing", "done", "cancelled"}
LeadStatuses == {"discovered", "drafted", "reviewing", "approved", "queued", "contacted",
                 "replied", "meeting_candidate", "no_response", "rejected"}
MailStatuses == {"draft", "in_review", "rejected", "approved", "queued", "sending", "sent",
                 "failed", "cancelled"}
LeadRows ==
    [status : LeadStatuses, action : Dates, follow : Dates, mail : MailStatuses \cup {Nothing},
     replies : {0, 1}, tasks : [LeadTasks -> [status : TaskStates, due : Dates]]]
LeadData == [Leads -> LeadRows]

ListRequests ==
    [step : {"idle", "stats", "ids", "rows", "answered"}, filter : Filters \cup {Nothing}, at : Nat, data : LeadData \cup {Nothing},
     total : Nat, ids : SUBSET Leads, items : SUBSET [lead : Leads, row : LeadRows]]

RowsAreRows == rows \in LeadData /\ now \in Nat
ListIsRequest == list \in ListRequests

\* What the statements of a request have in common is what the first of them saw.
FoundOf(l) == W!Matching(l.data, l.filter, l.at)

ListFollows ==
    /\ list.step \in {"ids", "rows"} =>
          list.data \in LeadData /\ list.total = Cardinality(FoundOf(list))
    /\ list.step = "rows" =>
          list.ids \subseteq FoundOf(list) /\ Cardinality(list.ids) = W!Min({Limit, list.total})
    /\ list.step = "answered" =>
          /\ Cardinality(list.items) = W!Min({Limit, list.total})
          /\ \A item \in list.items : W!Matches(item.row, list.filter, list.at)

LEMMA LeastOf ==
    ASSUME NEW some, some \subseteq Nat, some # {}
    PROVE  \E x \in some : \A y \in some : x <= y
<1> DEFINE Below == {p \in Nat \X Nat : p[1] < p[2]}
<1>1. IsWellFoundedOn(Below, Nat)
  BY NatLessThanWellFounded DEF OpToRel
<1> HIDE DEF Below
<1>2. PICK x \in some : \A y \in some : ~ (<<y, x>> \in Below)
  BY <1>1, WFMin
<1>3. ASSUME NEW y \in some PROVE x <= y
  <2>1. x \in Nat /\ y \in Nat /\ ~ (<<y, x>> \in Below)
    BY <1>2
  <2>2. ~ (y < x)
    BY <2>1 DEF Below
  <2> QED
    BY <2>1, <2>2
<1> QED
  BY <1>3

LEMMA LesserOfTwo ==
    ASSUME NEW a, NEW b, a \in Int, b \in Int
    PROVE  W!Min({a, b}) \in {a, b} /\ W!Min({a, b}) <= a /\ W!Min({a, b}) <= b
<1>1. \E x \in {a, b} : \A y \in {a, b} : x =< y
  <2>1. a =< b \/ b =< a
    OBVIOUS
  <2> QED
    BY <2>1
<1> QED
  BY <1>1 DEF W!Min

LEMMA DaysAreDates ==
    ASSUME RowsAreRows, NEW days \in Nat
    PROVE  W!DaysFrom(days) \in Nat
<1>1. now + 2 * days \in Nat /\ W!Far \in Nat
  BY LimitsAreNatural DEF W!Far, RowsAreRows
<1>2. W!Min({now + 2 * days, W!Far}) \in {now + 2 * days, W!Far}
  BY <1>1, LesserOfTwo
<1> QED
  BY <1>1, <1>2 DEF W!DaysFrom

-----------------------------------------------------------------------------
(* The task that is due next.                                              *)

LEMMA NextTaskIsActive ==
    ASSUME NEW r \in LeadRows, W!ActiveTasks(r) # {}
    PROVE  W!NextTask(r) \in W!ActiveTasks(r)
<1> DEFINE active == W!ActiveTasks(r)
           dated == {k \in active : r.tasks[k].due # Nothing}
           dues == {r.tasks[k].due : k \in dated}
<1>1. active \subseteq LeadTasks /\ active \subseteq Nat
  BY ListsAreFinite DEF W!ActiveTasks
<1>2. \A k \in active : r.tasks[k].due \in Dates
  BY <1>1 DEF LeadRows
<1> HIDE DEF active
<1>3. \E k \in active : \A other \in active : W!Before(r, k, other)
  <2>1. CASE dated = {}
    <3>1. PICK k \in active : \A other \in active : k <= other
      BY <1>1, LeastOf DEF active
    <3>2. \A other \in active : r.tasks[k].due = Nothing /\ r.tasks[other].due = Nothing
      BY <2>1
    <3> QED
      BY <3>1, <3>2 DEF W!Before
  <2>2. CASE dated # {}
    <3>1. dues \subseteq Nat /\ dues # {}
      BY <1>2, <2>2 DEF Dates
    <3> HIDE DEF dues
    <3>2. PICK due \in dues : \A other \in dues : due <= other
      BY <3>1, LeastOf
    <3> DEFINE first == {k \in active : r.tasks[k].due = due}
    <3>3. first # {} /\ first \subseteq Nat
      BY <1>1 DEF dues
    <3>4. PICK k \in first : \A other \in first : k <= other
      BY <3>3, LeastOf
    <3>5. k \in active /\ r.tasks[k].due = due /\ due \in Nat /\ due # Nothing
      BY <3>1, <3>4, NothingIsApart
    <3>6. ASSUME NEW other \in active PROVE W!Before(r, k, other)
      <4>1. CASE r.tasks[other].due = Nothing
        BY <3>5, <4>1 DEF W!Before
      <4>2. CASE r.tasks[other].due # Nothing
        <5>1. r.tasks[other].due \in dues
          BY <4>2 DEF dues
        <5>2. due <= r.tasks[other].due /\ r.tasks[other].due \in Nat
          BY <3>1, <3>2, <5>1
        <5>3. CASE r.tasks[other].due = due
          BY <3>4, <3>5, <5>3 DEF W!Before
        <5>4. CASE r.tasks[other].due # due
          <6>1. due < r.tasks[other].due
            BY <3>5, <5>2, <5>4
          <6> QED
            BY <3>5, <4>2, <6>1 DEF W!Before
        <5> QED
          BY <5>3, <5>4
      <4> QED
        BY <4>1, <4>2
    <3> QED
      BY <3>5, <3>6
  <2> QED
    BY <2>1, <2>2
<1> QED
  BY <1>3 DEF W!NextTask, active

\* The date of the next task is the date of an active task, when there is one.
LEMMA NextTaskIsDue ==
    ASSUME NEW r \in LeadRows
    PROVE  /\ W!NextTaskDue(r) \in Dates
           /\ W!NextTaskDue(r) # Nothing =>
                \E k \in W!ActiveTasks(r) : r.tasks[k].due = W!NextTaskDue(r)
<1>1. CASE W!ActiveTasks(r) = {}
  BY <1>1 DEF W!NextTaskDue, Dates
<1>2. CASE W!ActiveTasks(r) # {}
  <2>1. W!NextTask(r) \in W!ActiveTasks(r)
    BY <1>2, NextTaskIsActive
  <2>2. W!NextTask(r) \in LeadTasks
    BY <2>1 DEF W!ActiveTasks
  <2>3. r.tasks[W!NextTask(r)].due \in Dates
    BY <2>2 DEF LeadRows
  <2> QED
    BY <1>2, <2>1, <2>3 DEF W!NextTaskDue
<1> QED
  BY <1>1, <1>2

-----------------------------------------------------------------------------
(* The views of one lead agree.                                            *)

LEMMA DueIsSeen ==
    ASSUME NEW r \in LeadRows, NEW t \in Nat, W!By(W!NextDue(r), W!EndOfToday(t))
    PROVE  W!OnToday(r, t) /\ W!TodayCategory(r, t) \in {"overdue", "due_today"}
<1> DEFINE due == W!NextTaskDue(r)
           next == W!NextDue(r)
<1>1. next = W!Or(W!Or(due, r.action), r.follow)
  BY DEF W!NextDue
<1>2. W!TodayCategory(r, t) \in {"overdue", "due_today"}
  <2>1. W!DueCategory(next, t) \in {"overdue", "due_today"} /\ W!DueCategory(next, t) # Nothing
    BY NothingIsApart DEF W!DueCategory
  <2>2. W!DueCategory(W!Or(W!Or(due, r.action), r.follow), t) = W!DueCategory(next, t)
    BY <1>1
  <2>3. W!TodayCategory(r, t) = W!DueCategory(next, t)
    BY <2>1, <2>2 DEF W!TodayCategory, W!ClassifyTodaySales
  <2> QED
    BY <2>1, <2>3
<1>3. W!IsCandidate(r, t)
  <2>1. CASE due # Nothing
    <3>1. PICK k \in W!ActiveTasks(r) : r.tasks[k].due = due
      BY <2>1, NextTaskIsDue
    <3>2. next = due
      BY <1>1, <2>1 DEF W!Or
    <3> QED
      BY <3>1, <3>2 DEF W!IsCandidate
  <2>2. CASE due = Nothing
    <3>1. next \in {r.action, r.follow}
      BY <1>1, <2>2 DEF W!Or
    <3> QED
      BY <3>1 DEF W!IsCandidate
  <2> QED
    BY <2>1, <2>2
<1> QED
  BY <1>2, <1>3, NothingIsApart DEF W!OnToday

LEMMA BadgeIsSeen ==
    ASSUME NEW r \in LeadRows, NEW t \in Nat, W!InBadge(r, t)
    PROVE  W!OnToday(r, t)
<1> DEFINE due == W!NextTaskDue(r)
<1>1. CASE W!By(W!NextDue(r), W!EndOfToday(t))
  BY <1>1, DueIsSeen
<1>2. CASE ~ W!By(W!NextDue(r), W!EndOfToday(t))
  <2>1. W!Or(W!Or(due, r.action), IF due # Nothing THEN Nothing ELSE r.follow) = W!NextDue(r)
    BY DEF W!NextDue, W!Or
  <2>2. /\ W!DueCategory(W!Or(W!Or(due, r.action), IF due # Nothing THEN Nothing ELSE r.follow), t)
             = Nothing
        /\ W!DueCategory(W!Or(W!Or(due, r.action), r.follow), t) = Nothing
    BY <1>2, <2>1 DEF W!DueCategory, W!NextDue
  <2>3. r.status = "replied" \/ r.mail \in {"draft", "approved", "queued", "failed"}
    BY <2>2 DEF W!InBadge, W!ClassifyTodaySales
  <2>4. W!IsCandidate(r, t)
    BY <2>3 DEF W!IsCandidate
  <2>5. W!TodayCategory(r, t) # Nothing
    BY <2>2, <2>3, NothingIsApart DEF W!TodayCategory, W!ClassifyTodaySales
  <2> QED
    BY <2>4, <2>5 DEF W!OnToday
<1> QED
  BY <1>1, <1>2

LEMMA OverdueIsSeen ==
    ASSUME NEW r \in LeadRows, NEW t \in Nat, W!TodayCategory(r, t) = "overdue"
    PROVE  W!Matches(r, "overdue", t)
<1> DEFINE due == W!NextTaskDue(r)
           next == W!Or(W!Or(due, r.action), r.follow)
<1>1. W!DueCategory(next, t) = "overdue"
  BY DEF W!TodayCategory, W!ClassifyTodaySales
<1>2. W!IsDate(next) /\ W!Day(next) < W!Day(t)
  BY <1>1, NothingIsApart DEF W!DueCategory, W!By
<1>3. due \in Dates /\ r.action \in Dates /\ r.follow \in Dates
  BY NextTaskIsDue DEF LeadRows
<1>4. next \in Nat
  BY <1>2, <1>3 DEF W!Or, W!IsDate, Dates
<1> HIDE DEF next
<1>5. W!By(next, t)
  BY <1>2, <1>4 DEF W!By, W!Day
<1>6. next \in {r.action, r.follow} \cup {r.tasks[k].due : k \in W!ActiveTasks(r)}
  <2>1. CASE due # Nothing
    BY <2>1, NextTaskIsDue DEF next, W!Or
  <2>2. CASE due = Nothing
    BY <2>2 DEF next, W!Or
  <2> QED
    BY <2>1, <2>2
<1>7. \E date \in {r.action, r.follow} \cup {r.tasks[k].due : k \in W!ActiveTasks(r)} :
        W!By(date, t)
  BY <1>5, <1>6
<1> QED
  BY <1>7 DEF W!Matches, W!MailFilters

LEMMA ViewsOfRows ==
    RowsAreRows => W!DueIsOnToday /\ W!BadgeIsOnToday /\ W!OverdueIsFound
<1> SUFFICES ASSUME RowsAreRows, NEW l \in Leads
             PROVE  /\ W!By(W!NextDue(rows[l]), W!EndOfToday(now)) =>
                         /\ W!OnToday(rows[l], now)
                         /\ W!TodayCategory(rows[l], now) \in {"overdue", "due_today"}
                    /\ W!InBadge(rows[l], now) => W!OnToday(rows[l], now)
                    /\ W!TodayCategory(rows[l], now) = "overdue" =>
                         W!Matches(rows[l], "overdue", now)
  BY DEF W!DueIsOnToday, W!BadgeIsOnToday, W!OverdueIsFound
<1>1. rows[l] \in LeadRows /\ now \in Nat
  BY DEF RowsAreRows, LeadData
<1> QED
  BY <1>1, DueIsSeen, BadgeIsSeen, OverdueIsSeen
-----------------------------------------------------------------------------
(* What changes the leads keeps their rows.                                *)

LEMMA Changes ==
    RowsAreRows /\ (\E l \in Leads, row \in LeadRows : W!Change(l, row))
        => RowsAreRows' /\ UNCHANGED <<now, list>>
BY DEF W!Change, RowsAreRows, LeadData

LEMMA PolicyGivesDates ==
    ASSUME RowsAreRows, NEW dto \in W!Edits
    PROVE  W!LeadPolicy(dto).action \in Dates \cup {Absent}
             /\ W!LeadPolicy(dto).follow \in Dates \cup {Absent}
<1>1. W!DaysFrom(1) \in Nat /\ W!DaysFrom(2) \in Nat /\ W!DaysFrom(3) \in Nat /\ W!DaysFrom(7) \in Nat
  BY DaysAreDates
<1>2. dto.action \in Dates \cup {Absent} /\ dto.follow \in Dates \cup {Absent}
  BY DEF W!Edits, RowsAreRows, Dates
<1>3. W!DefaultNextActionAt(dto.status, dto.priority) \in Dates \cup {Absent}
  BY <1>1 DEF W!DefaultNextActionAt, Dates
<1>4. W!DefaultNextFollowUpAt(dto.status) \in Dates \cup {Absent}
  BY <1>1 DEF W!DefaultNextFollowUpAt, Dates
<1> DEFINE action == W!Either(dto.action, W!DefaultNextActionAt(dto.status, dto.priority))
           follow == W!Either(dto.follow, W!DefaultNextFollowUpAt(dto.status))
<1>5. action \in Dates \cup {Absent} /\ follow \in Dates \cup {Absent}
  BY <1>2, <1>3, <1>4 DEF W!Either
<1> HIDE DEF action, follow
<1>6. W!LeadPolicy(dto) = IF dto.status \in W!TerminalStatuses
                          THEN [action |-> Nothing, follow |-> Nothing]
                          ELSE [action |-> action, follow |-> follow]
  BY DEF W!LeadPolicy, action, follow
<1> QED
  BY <1>5, <1>6 DEF Dates

LEMMA EditKeepsRows ==
    ASSUME RowsAreRows, NEW l \in Leads, NEW dto \in W!Edits, W!UpdateLead(l, dto)
    PROVE  \E row \in LeadRows : W!Change(l, row)
<1> DEFINE patch == W!LeadPolicy(dto)
           row == [rows[l] EXCEPT !.status = W!Either(dto.status, @),
                                  !.action = W!Either(patch.action, @),
                                  !.follow = W!Either(patch.follow, @)]
<1>1. rows[l] \in LeadRows
  BY DEF RowsAreRows, LeadData
<1>2. patch.action \in Dates \cup {Absent} /\ patch.follow \in Dates \cup {Absent}
  BY PolicyGivesDates
<1>3. dto.status \in {Absent, "contacted", "rejected"}
  BY DEF W!Edits
<1> HIDE DEF patch
<1>4. /\ W!Either(dto.status, rows[l].status) \in LeadStatuses
      /\ W!Either(patch.action, rows[l].action) \in Dates
      /\ W!Either(patch.follow, rows[l].follow) \in Dates
  BY <1>1, <1>2, <1>3 DEF W!Either, LeadRows, LeadStatuses
<1>5. row \in LeadRows
  BY <1>1, <1>4 DEF LeadRows
<1>6. W!Change(l, row)
  BY DEF W!UpdateLead, patch
<1> QED
  BY <1>5, <1>6

LEMMA TaskKeepsRow ==
    ASSUME NEW r \in LeadRows, NEW k \in LeadTasks, NEW status \in TaskStates, NEW due \in Dates
    PROVE  [r EXCEPT !.tasks[k] = [status |-> status, due |-> due]] \in LeadRows
BY DEF LeadRows

LEMMA CreatedTaskKeepsRows ==
    ASSUME RowsAreRows, NEW l \in Leads, NEW k \in LeadTasks, NEW due \in {Nothing, now, W!Far},
           W!CreateTask(l, k, due)
    PROVE  \E row \in LeadRows : W!Change(l, row)
<1>1. rows[l] \in LeadRows /\ due \in Dates
  BY LimitsAreNatural DEF RowsAreRows, LeadData, Dates, W!Far
<1>2. [rows[l] EXCEPT !.tasks[k] = [status |-> "todo", due |-> due]] \in LeadRows
  BY <1>1, TaskKeepsRow DEF TaskStates
<1> QED
  BY <1>2 DEF W!CreateTask

LEMMA UpdatedTaskKeepsRows ==
    ASSUME RowsAreRows, NEW l \in Leads, NEW k \in LeadTasks,
           NEW due \in {rows[l].tasks[k].due, now}, NEW status \in {"todo", "done"},
           W!UpdateTask(l, k, due, status)
    PROVE  \E row \in LeadRows : W!Change(l, row)
<1>1. rows[l] \in LeadRows /\ now \in Nat
  BY DEF RowsAreRows, LeadData
<1>2. due \in Dates
  BY <1>1 DEF LeadRows, Dates
<1>3. [rows[l] EXCEPT !.tasks[k] = [status |-> status, due |-> due]] \in LeadRows
  BY <1>1, <1>2, TaskKeepsRow DEF TaskStates
<1> QED
  BY <1>3 DEF W!UpdateTask

LEMMA MailKeepsRows ==
    ASSUME RowsAreRows, NEW l \in Leads,
           W!CreateDraft(l) \/ \E to \in MailStatuses : W!TransitionMail(l, to)
    PROVE  \E row \in LeadRows : W!Change(l, row)
<1>1. rows[l] \in LeadRows
  BY DEF RowsAreRows, LeadData
<1>2. CASE W!CreateDraft(l)
  <2>1. [rows[l] EXCEPT !.mail = "draft", !.status = "drafted"] \in LeadRows
    BY <1>1 DEF LeadRows, LeadStatuses, MailStatuses
  <2> QED
    BY <1>2, <2>1 DEF W!CreateDraft
<1>3. CASE \E to \in MailStatuses : W!TransitionMail(l, to)
  <2>1. PICK to \in MailStatuses : W!TransitionMail(l, to)
    BY <1>3
  <2> DEFINE status == IF to \in DOMAIN W!LeadStatusForEmailStatus
                       THEN W!LeadStatusForEmailStatus[to] ELSE rows[l].status
  <2>2. status \in LeadStatuses
    BY <1>1 DEF LeadRows, LeadStatuses, W!LeadStatusForEmailStatus
  <2>3. W!Change(l, [rows[l] EXCEPT !.mail = to, !.status = status])
    BY <1>1, <2>1 DEF W!TransitionMail, LeadRows
  <2> HIDE DEF status
  <2>4. [rows[l] EXCEPT !.mail = to, !.status = status] \in LeadRows
    BY <1>1, <2>2 DEF LeadRows
  <2> QED
    BY <2>3, <2>4
<1> QED
  BY <1>2, <1>3

LEMMA ReplyKeepsRows ==
    ASSUME RowsAreRows, NEW l \in Leads, NEW category, W!RecordReply(l, category)
    PROVE  \E row \in LeadRows : W!Change(l, row)
<1> DEFINE r == rows[l]
           status == W!ReplyStatus(category)
           action == W!ReplyNextActionAt(category)
           follow == IF category \in W!TerminalCategories THEN Nothing ELSE r.follow
           replied == [r EXCEPT !.replies = 1, !.status = status, !.action = action,
                                !.follow = follow]
<1>1. r \in LeadRows /\ now \in Nat
  BY DEF RowsAreRows, LeadData
<1>2. status \in LeadStatuses
  BY DEF W!ReplyStatus, LeadStatuses
<1>3. action \in Dates
  <2>1. W!DaysFrom(1) \in Nat /\ W!DaysFrom(3) \in Nat
    BY DaysAreDates
  <2> QED
    BY <1>1, <2>1 DEF W!ReplyNextActionAt, Dates
<1>4. follow \in Dates
  BY <1>1 DEF LeadRows, Dates
<1>5. IF action = Nothing THEN W!Change(l, replied)
      ELSE \E k \in LeadTasks :
             W!Change(l, [replied EXCEPT !.tasks[k] = [status |-> "todo", due |-> action]])
  BY <1>1 DEF W!RecordReply, LeadRows
<1> HIDE DEF r, status, action, follow
<1>6. replied \in LeadRows
  BY <1>1, <1>2, <1>3, <1>4 DEF LeadRows
<1> HIDE DEF replied
<1>7. \A k \in LeadTasks :
        [replied EXCEPT !.tasks[k] = [status |-> "todo", due |-> action]] \in LeadRows
  BY <1>3, <1>6, TaskKeepsRow DEF TaskStates
<1> QED
  BY <1>5, <1>6, <1>7

LEMMA EndKeepsRows ==
    ASSUME RowsAreRows, NEW l \in Leads, W!EndOpportunity(l)
    PROVE  \E row \in LeadRows : W!Change(l, row)
<1> DEFINE r == rows[l]
           tasks == [k \in LeadTasks |-> IF k \in W!ActiveTasks(r)
                                         THEN [r.tasks[k] EXCEPT !.status = "cancelled"]
                                         ELSE r.tasks[k]]
<1>1. r \in LeadRows
  BY DEF RowsAreRows, LeadData
<1>2. tasks \in [LeadTasks -> [status : TaskStates, due : Dates]]
  <2> SUFFICES ASSUME NEW k \in LeadTasks
               PROVE  /\ r.tasks[k] \in [status : TaskStates, due : Dates]
                      /\ [r.tasks[k] EXCEPT !.status = "cancelled"]
                           \in [status : TaskStates, due : Dates]
    OBVIOUS
  <2>1. r.tasks[k] \in [status : TaskStates, due : Dates]
    BY <1>1 DEF LeadRows
  <2> QED
    BY <2>1 DEF TaskStates
<1>3. W!Change(l, [r EXCEPT !.action = Nothing, !.follow = Nothing, !.tasks = tasks])
  BY <1>1 DEF W!EndOpportunity, LeadRows
<1> HIDE DEF r, tasks
<1>4. [r EXCEPT !.action = Nothing, !.follow = Nothing, !.tasks = tasks] \in LeadRows
  BY <1>1, <1>2 DEF LeadRows, Dates
<1> QED
  BY <1>3, <1>4

\* Every step of the lists asks for them, changes a lead, or lets time pass.
Asking == (\E filter \in Filters : W!AskList(filter)) \/ W!ListStats \/ W!ListPageIds \/ W!ListRows

LEMMA ListStep ==
    ASSUME RowsAreRows, W!Next
    PROVE  Asking \/ (\E l \in Leads, row \in LeadRows : W!Change(l, row)) \/ W!Tick
<1> SUFFICES ASSUME ~ Asking, ~ W!Tick
             PROVE  \E l \in Leads : \E row \in LeadRows : W!Change(l, row)
  OBVIOUS
<1>1. PICK l \in Leads :
        \/ \E dto \in W!Edits : W!UpdateLead(l, dto)
        \/ \E k \in LeadTasks :
             \/ \E due \in {Nothing, now, W!Far} : W!CreateTask(l, k, due)
             \/ \E due \in {rows[l].tasks[k].due, now}, status \in {"todo", "done"} :
                  W!UpdateTask(l, k, due, status)
        \/ W!CreateDraft(l)
        \/ \E to \in {"in_review", "rejected", "approved", "queued", "sending", "sent",
                      "failed", "cancelled"} : W!TransitionMail(l, to)
        \/ \E category \in Categories : W!RecordReply(l, category)
        \/ W!EndOpportunity(l)
  BY DEF W!Next, Asking
<1> SUFFICES \E row \in LeadRows : W!Change(l, row)
  OBVIOUS
<1>2. CASE \E dto \in W!Edits : W!UpdateLead(l, dto)
  BY <1>2, EditKeepsRows
<1>3. ASSUME NEW k \in LeadTasks, NEW due \in {Nothing, now, W!Far}, W!CreateTask(l, k, due)
      PROVE  \E row \in LeadRows : W!Change(l, row)
  BY <1>3, CreatedTaskKeepsRows
<1>4. ASSUME NEW k \in LeadTasks, NEW due \in {rows[l].tasks[k].due, now},
             NEW status \in {"todo", "done"}, W!UpdateTask(l, k, due, status)
      PROVE  \E row \in LeadRows : W!Change(l, row)
  BY <1>4, UpdatedTaskKeepsRows
<1>5. CASE W!CreateDraft(l)
  BY <1>5, MailKeepsRows
<1>6. CASE \E to \in {"in_review", "rejected", "approved", "queued", "sending", "sent",
                      "failed", "cancelled"} : W!TransitionMail(l, to)
  <2>1. \E to \in MailStatuses : W!TransitionMail(l, to)
    BY <1>6 DEF MailStatuses
  <2> QED
    BY <2>1, MailKeepsRows
<1>7. CASE \E category \in Categories : W!RecordReply(l, category)
  BY <1>7, ReplyKeepsRows
<1>8. CASE W!EndOpportunity(l)
  BY <1>8, EndKeepsRows
<1> QED
  BY <1>1, <1>2, <1>3, <1>4, <1>5, <1>6, <1>7, <1>8
-----------------------------------------------------------------------------
(* A list of leads is of the moment of its first statement.                *)

LEMMA FoundIsFinite ==
    ASSUME NEW l
    PROVE  /\ FoundOf(l) \subseteq Leads
           /\ IsFiniteSet(FoundOf(l)) /\ Cardinality(FoundOf(l)) \in Nat
<1>1. FoundOf(l) \subseteq Leads
  BY DEF FoundOf, W!Matching
<1>2. IsFiniteSet(FoundOf(l))
  BY <1>1, ListsAreFinite, FS_Subset
<1> QED
  BY <1>1, <1>2, FS_CardinalityType

LEMMA SameCardinality ==
    ASSUME NEW s
    PROVE  W!Cardinality(s) = Cardinality(s)
BY DEF W!Cardinality, Cardinality

LEMMA Asks ==
    RowsAreRows /\ ListIsRequest /\ ListFollows /\ Asking
        => RowsAreRows' /\ ListIsRequest' /\ ListFollows'
<1> SUFFICES ASSUME RowsAreRows, ListIsRequest, ListFollows, Asking
             PROVE  RowsAreRows' /\ ListIsRequest' /\ ListFollows'
  OBVIOUS
<1>1. UNCHANGED <<rows, now>>
  BY DEF Asking, W!AskList, W!ListStats, W!ListPageIds, W!ListRows
<1>2. RowsAreRows'
  BY <1>1 DEF RowsAreRows
<1>3. ASSUME NEW filter \in Filters, W!AskList(filter)
      PROVE  ListIsRequest' /\ ListFollows'
  <2>1. list' = [step |-> "stats", filter |-> filter, at |-> now, data |-> Nothing,
                 total |-> 0, ids |-> {}, items |-> {}]
    BY <1>3 DEF W!AskList, W!NoList
  <2> QED
    BY <2>1 DEF RowsAreRows, ListIsRequest, ListRequests, ListFollows
<1>4. CASE W!ListStats
  <2> DEFINE found == W!Matching(rows, list.filter, list.at)
  <2>1. list' = [list EXCEPT !.step = "ids", !.data = rows, !.total = Cardinality(found)]
    BY <1>4, SameCardinality DEF W!ListStats
  <2>2. found = FoundOf([list EXCEPT !.data = rows])
    BY DEF FoundOf, ListIsRequest, ListRequests
  <2>3. Cardinality(found) \in Nat
    BY <2>2, FoundIsFinite
  <2> HIDE DEF found
  <2>4. ListIsRequest'
    BY <2>1, <2>3 DEF ListIsRequest, ListRequests, RowsAreRows
  <2>5. list'.step = "ids" /\ list'.data = rows /\ list'.total = Cardinality(found)
        /\ list'.filter = list.filter /\ list'.at = list.at
    BY <2>1 DEF ListIsRequest, ListRequests
  <2>6. FoundOf(list') = found
    BY <2>5 DEF FoundOf, found
  <2> QED
    BY <1>2, <2>4, <2>5, <2>6 DEF ListFollows, RowsAreRows
<1>5. CASE W!ListPageIds
  <2> DEFINE found == FoundOf(list)
  <2>1. /\ list.step = "ids"
        /\ \E ids \in SUBSET found :
             /\ Cardinality(ids) = W!Min({Limit, Cardinality(found)})
             /\ list' = [list EXCEPT !.step = "rows", !.ids = ids]
    BY <1>5, SameCardinality DEF W!ListPageIds, W!Seen, FoundOf
  <2>2. PICK ids \in SUBSET found :
          /\ Cardinality(ids) = W!Min({Limit, Cardinality(found)})
          /\ list' = [list EXCEPT !.step = "rows", !.ids = ids]
    BY <2>1
  <2>3. found \subseteq Leads
    BY FoundIsFinite
  <2>4. /\ list'.step = "rows" /\ list'.ids = ids
        /\ list'.data = list.data /\ list'.filter = list.filter /\ list'.at = list.at
        /\ list'.total = list.total
    BY <2>2 DEF ListIsRequest, ListRequests
  <2>5. FoundOf(list') = found
    BY <2>4 DEF FoundOf
  <2> HIDE DEF found
  <2>6. ListIsRequest'
    BY <2>2, <2>3 DEF ListIsRequest, ListRequests
  <2>7. list.data \in LeadData /\ list.total = Cardinality(found)
    BY <2>1 DEF ListFollows, found
  <2> QED
    BY <1>2, <2>2, <2>4, <2>5, <2>6, <2>7 DEF ListFollows
<1>6. CASE W!ListRows
  <2> DEFINE items == {[lead |-> l, row |-> list.data[l]] : l \in list.ids}
             shown == [l \in list.ids |-> [lead |-> l, row |-> list.data[l]]]
  <2>1. list.step = "rows"
    BY <1>6 DEF W!ListRows
  <2>2. list' = [list EXCEPT !.step = "answered", !.data = Nothing, !.items = items]
    BY <1>6 DEF W!ListRows, W!Seen
  <2>3. /\ list.data \in LeadData /\ list.ids \subseteq FoundOf(list)
        /\ Cardinality(list.ids) = W!Min({Limit, list.total})
    BY <2>1 DEF ListFollows
  <2>4. list.ids \subseteq Leads /\ IsFiniteSet(list.ids)
    <3>1. list.ids \subseteq Leads
      BY DEF ListIsRequest, ListRequests
    <3> QED
      BY <3>1, ListsAreFinite, FS_Subset
  <2>5. items \subseteq [lead : Leads, row : LeadRows]
    BY <2>3, <2>4 DEF LeadData
  <2>6. Cardinality(items) = Cardinality(list.ids)
    <3>1. shown \in [list.ids -> items]
      OBVIOUS
    <3>2. \A item \in items : \E l \in list.ids : shown[l] = item
      OBVIOUS
    <3>3. \A l, m \in list.ids : shown[l] = shown[m] => l = m
      <4> SUFFICES ASSUME NEW l \in list.ids, NEW m \in list.ids, shown[l] = shown[m]
                   PROVE  l = m
        OBVIOUS
      <4>1. shown[l].lead = l /\ shown[m].lead = m
        OBVIOUS
      <4> HIDE DEF shown
      <4> QED
        BY <4>1
    <3> HIDE DEF shown, items
    <3>4. shown \in Bijection(list.ids, items)
      BY <3>1, <3>2, <3>3 DEF Bijection, Injection, Surjection, IsInjective
    <3> QED
      BY <3>4, <2>4, FS_Bijection DEF ExistsBijection
  <2>7. \A item \in items : W!Matches(item.row, list.filter, list.at)
    BY <2>3 DEF FoundOf, W!Matching
  <2> HIDE DEF items
  <2>8. ListIsRequest'
    BY <2>2, <2>5 DEF ListIsRequest, ListRequests
  <2>9. /\ list'.step = "answered" /\ list'.items = items
        /\ list'.filter = list.filter /\ list'.at = list.at /\ list'.total = list.total
    BY <2>2 DEF ListIsRequest, ListRequests
  <2> QED
    BY <1>2, <2>3, <2>6, <2>7, <2>8, <2>9 DEF ListFollows
<1> QED
  BY <1>2, <1>3, <1>4, <1>5, <1>6 DEF Asking

ListsHold == RowsAreRows /\ ListIsRequest /\ ListFollows

LEMMA ListsStart == W!Init => ListsHold
<1> SUFFICES ASSUME W!Init
             PROVE  ListsHold
  OBVIOUS
<1>1. \A mail \in {Nothing, "sending"}, status \in {"discovered", "queued"} :
        W!NewLead(status, mail) \in LeadRows
  BY DEF W!NewLead, LeadRows, LeadStatuses, MailStatuses, TaskStates, Dates
<1>2. RowsAreRows
  <2>1. rows \in [Leads -> {W!NewLead("discovered", Nothing), W!NewLead("queued", "sending")}]
        /\ now = 0
    BY DEF W!Init
  <2>2. W!NewLead("discovered", Nothing) \in LeadRows /\ W!NewLead("queued", "sending") \in LeadRows
    BY <1>1
  <2> QED
    BY <2>1, <2>2 DEF RowsAreRows, LeadData
<1>3. list = [step |-> "idle", filter |-> Nothing, at |-> 0, data |-> Nothing,
              total |-> 0, ids |-> {}, items |-> {}]
  BY DEF W!Init, W!NoList
<1>4. ListIsRequest
  BY <1>3 DEF ListIsRequest, ListRequests
<1> QED
  BY <1>2, <1>3, <1>4 DEF ListsHold, ListFollows

LEMMA ListsGoOn == ListsHold /\ (W!Next \/ UNCHANGED listVars) => ListsHold'
<1> SUFFICES ASSUME ListsHold, W!Next \/ UNCHANGED listVars
             PROVE  ListsHold'
  OBVIOUS
<1>1. CASE UNCHANGED listVars
  BY <1>1 DEF listVars, ListsHold, RowsAreRows, ListIsRequest, ListFollows
<1>2. CASE Asking
  BY <1>2, Asks DEF ListsHold
<1>3. CASE \E l \in Leads, row \in LeadRows : W!Change(l, row)
  <2>1. RowsAreRows' /\ UNCHANGED list
    BY <1>3, Changes DEF ListsHold
  <2> QED
    BY <2>1 DEF ListsHold, ListIsRequest, ListFollows
<1>4. CASE W!Tick
  BY <1>4 DEF W!Tick, ListsHold, RowsAreRows, ListIsRequest, ListFollows
<1> QED
  BY <1>1, <1>2, <1>3, <1>4, ListStep DEF ListsHold

LEMMA ListsAgree == ListsHold => W!ViewsAgree
<1> SUFFICES ASSUME ListsHold
             PROVE  W!ViewsAgree
  OBVIOUS
<1>1. W!DueIsOnToday /\ W!BadgeIsOnToday /\ W!OverdueIsFound
  BY ViewsOfRows DEF ListsHold
<1>2. W!ListIsOfOneMoment
  BY SameCardinality DEF ListsHold, ListFollows, W!ListIsOfOneMoment
<1> QED
  BY <1>1, <1>2 DEF W!ViewsAgree

-----------------------------------------------------------------------------
(* A finite set with a strict order can be put in that order.              *)

IsOrderOf(T, U) ==
    /\ \A x, y \in U : x # y => <<x, y>> \in T \/ <<y, x>> \in T
    /\ \A x, y, z \in U : <<x, y>> \in T /\ <<y, z>> \in T => <<x, z>> \in T

HasLast(T, some) == \E m \in some : \A x \in some : x # m => <<x, m>> \in T

LEMMA LastOfFew ==
    ASSUME NEW U, NEW T, IsFiniteSet(U), IsOrderOf(T, U),
           NEW some, some \subseteq U, some # {}
    PROVE  HasLast(T, some)
<1> DEFINE without == {S \in SUBSET U : S # {} /\ ~ HasLast(T, S)}
           sizes == {Cardinality(S) : S \in without}
<1> SUFFICES ASSUME without # {}
             PROVE  FALSE
  OBVIOUS
<1>1. \A S \in SUBSET U : IsFiniteSet(S) /\ Cardinality(S) \in Nat
  BY FS_Subset, FS_CardinalityType
<1>2. sizes \subseteq Nat /\ sizes # {}
  BY <1>1
<1> HIDE DEF sizes
<1>3. PICK least \in sizes : \A size \in sizes : least <= size
  BY <1>2, LeastOf
<1>4. PICK S \in without : Cardinality(S) = least
  BY <1>3 DEF sizes
<1>5. PICK x \in S : TRUE
  BY <1>4
<1> DEFINE rest == S \ {x}
<1>6. S \in SUBSET U /\ rest \in SUBSET U /\ ~ HasLast(T, S)
  BY <1>4
<1>7. Cardinality(rest) = Cardinality(S) - 1 /\ Cardinality(S) \in Nat
  BY <1>1, <1>5, <1>6, FS_RemoveElement
<1>8. rest # {}
  BY <1>5, <1>6 DEF HasLast
<1>9. HasLast(T, rest)
  <2>1. Cardinality(rest) \notin sizes
    BY <1>1, <1>3, <1>4, <1>6, <1>7
  <2> QED
    BY <1>6, <1>8, <2>1 DEF sizes
<1>10. PICK m \in rest : \A y \in rest : y # m => <<y, m>> \in T
  BY <1>9 DEF HasLast
<1>11. x \in U /\ m \in U /\ m # x
  BY <1>5, <1>6, <1>10
<1>12. CASE <<x, m>> \in T
  BY <1>6, <1>10, <1>12 DEF HasLast
<1>13. CASE <<m, x>> \in T
  <2>1. ASSUME NEW y \in S, y # x PROVE <<y, x>> \in T
    <3>1. y \in U /\ (y = m \/ <<y, m>> \in T)
      BY <1>6, <1>10, <2>1
    <3> QED
      BY <1>11, <1>13, <3>1 DEF IsOrderOf
  <2> QED
    BY <1>5, <1>6, <2>1 DEF HasLast
<1> QED
  BY <1>11, <1>12, <1>13 DEF IsOrderOf

InOrderOf(T, S, s) ==
    /\ s \in [1 .. Cardinality(S) -> S]
    /\ \A i, j \in 1 .. Cardinality(S) : i # j => s[i] # s[j]
    /\ \A i, j \in 1 .. Cardinality(S) : i < j => <<s[i], s[j]>> \in T

CanBeOrdered(T, S) == \E s : InOrderOf(T, S, s)

LEMMA FewAreOrdered ==
    ASSUME NEW U, NEW T, IsFiniteSet(U), IsOrderOf(T, U),
           NEW some, some \subseteq U
    PROVE  CanBeOrdered(T, some)
<1> DEFINE without == {S \in SUBSET U : ~ CanBeOrdered(T, S)}
           sizes == {Cardinality(S) : S \in without}
<1> SUFFICES ASSUME without # {}
             PROVE  FALSE
  OBVIOUS
<1>1. \A S \in SUBSET U : IsFiniteSet(S) /\ Cardinality(S) \in Nat
  BY FS_Subset, FS_CardinalityType
<1>2. sizes \subseteq Nat /\ sizes # {}
  BY <1>1
<1> HIDE DEF sizes
<1>3. PICK least \in sizes : \A size \in sizes : least <= size
  BY <1>2, LeastOf
<1>4. PICK S \in without : Cardinality(S) = least
  BY <1>3 DEF sizes
<1>5. S # {}
  <2>1. InOrderOf(T, {}, <<>>)
    BY FS_EmptySet DEF InOrderOf
  <2> QED
    BY <1>4, <2>1 DEF CanBeOrdered
<1>6. PICK m \in S : \A x \in S : x # m => <<x, m>> \in T
  <2>1. HasLast(T, S)
    BY <1>4, <1>5, LastOfFew
  <2> QED
    BY <2>1 DEF HasLast
<1> DEFINE rest == S \ {m}
           n == Cardinality(S)
<1>7. rest \in SUBSET U /\ S \in SUBSET U
  BY <1>4
<1>8. n \in Nat /\ n > 0 /\ Cardinality(rest) = n - 1
  BY <1>1, <1>6, <1>7, FS_RemoveElement, FS_EmptySet
<1>9. PICK e : InOrderOf(T, rest, e)
  <2>1. n - 1 \notin sizes
    BY <1>3, <1>4, <1>8
  <2> QED
    BY <1>7, <1>8, <2>1 DEF sizes, CanBeOrdered
<1> HIDE DEF n
<1>10. /\ e \in [1 .. n - 1 -> rest]
       /\ \A i, j \in 1 .. n - 1 : i # j => e[i] # e[j]
       /\ \A i, j \in 1 .. n - 1 : i < j => <<e[i], e[j]>> \in T
  BY <1>8, <1>9 DEF InOrderOf
<1> DEFINE s == [i \in 1 .. n |-> IF i = n THEN m ELSE e[i]]
<1>11. /\ s[n] = m
       /\ \A i \in 1 .. n : i # n => i \in 1 .. n - 1 /\ s[i] = e[i] /\ s[i] \in rest
       /\ s \in [1 .. n -> S]
  BY <1>6, <1>8, <1>10
<1> HIDE DEF s
<1>12. ASSUME NEW i \in 1 .. n, NEW j \in 1 .. n, i < j
       PROVE  s[i] # s[j] /\ <<s[i], s[j]>> \in T
  <2>1. i # n
    BY <1>8, <1>12
  <2>2. CASE j = n
    BY <1>6, <1>11, <2>1, <2>2
  <2>3. CASE j # n
    BY <1>8, <1>10, <1>11, <1>12, <2>1, <2>3
  <2> QED
    BY <2>2, <2>3
<1>13. \A i, j \in 1 .. n : i # j => s[i] # s[j]
  <2> SUFFICES ASSUME NEW i \in 1 .. n, NEW j \in 1 .. n, i # j
               PROVE  s[i] # s[j]
    OBVIOUS
  <2>1. i < j \/ j < i
    BY <1>8
  <2> QED
    BY <1>12, <2>1
<1>14. InOrderOf(T, S, s)
  BY <1>11, <1>12, <1>13 DEF InOrderOf, n
<1> QED
  BY <1>4, <1>14 DEF CanBeOrdered

-----------------------------------------------------------------------------
(* The inbox of replies: types and the order of its queries.               *)

Received == [mail : Mails, category : Kinds, at : Int]
Shown ==
    [reply : Nat, rank : 1 .. 4, flags : [managerReviewRequired : BOOLEAN, stopFollowup : BOOLEAN]]

InboxRequests ==
    [step : {"idle", "count", "ids", "rows", "answered"}, query : I!Queries \cup {Nothing},
     total : Nat, ids : Seq(Nat), items : Seq(Shown)]

RepliesAreReplies == received \in Seq(Received)
InboxIsRequest ==
    /\ inbox \in InboxRequests
    /\ inbox.step # "idle" => inbox.query \in I!Queries

InOrder(q, s) ==
    /\ \A k \in DOMAIN s : s[k] \in DOMAIN received
    /\ \A k, n \in DOMAIN s : k < n => I!IsBefore(q, s[k], s[n])

Numbers(items) == [k \in DOMAIN items |-> items[k].reply]

\* What is found for a page is in its order, and what is shown is what was found.
InboxFollows ==
    /\ inbox.step \in {"count", "ids"} => inbox.items = <<>>
    /\ inbox.step = "rows" /\ inbox.query.sort = "priority" =>
          InOrder(inbox.query, inbox.ids) /\ Len(inbox.ids) <= PageLimit
    /\ inbox.step = "answered" =>
          InOrder(inbox.query, Numbers(inbox.items)) /\ Len(inbox.items) <= PageLimit

LEMMA RanksAreNumbers == \A category : I!PriorityRank(category) \in 1 .. 4
BY DEF I!PriorityRank

\* What stands before what, of the replies to a query.
OrderOf(q) == {p \in (DOMAIN received) \X (DOMAIN received) : I!IsBefore(q, p[1], p[2])}

LEMMA OrderIsBefore ==
    ASSUME NEW q, NEW i \in DOMAIN received, NEW j \in DOMAIN received
    PROVE  <<i, j>> \in OrderOf(q) <=> I!IsBefore(q, i, j)
<1>1. <<i, j>> \in (DOMAIN received) \X (DOMAIN received)
  OBVIOUS
<1> QED
  BY <1>1 DEF OrderOf

LEMMA OrderIsStrict ==
    ASSUME RepliesAreReplies, NEW q \in I!Queries
    PROVE  IsOrderOf(OrderOf(q), DOMAIN received)
<1> DEFINE U == DOMAIN received
           rank(i) == IF q.sort = "priority" THEN I!PriorityRank(received[i].category) ELSE 0
           at(i) == received[i].at
           down == q.direction # "asc"
<1>1. \A i \in U : i \in Int /\ at(i) \in Int /\ rank(i) \in Int
  <2> SUFFICES ASSUME NEW i \in U
               PROVE  i \in Int /\ at(i) \in Int /\ rank(i) \in Int
    OBVIOUS
  <2>1. i \in Int /\ received[i] \in Received
    BY DEF RepliesAreReplies
  <2>2. I!PriorityRank(received[i].category) \in 1 .. 4
    BY RanksAreNumbers
  <2> QED
    BY <2>1, <2>2 DEF Received
<1>2. \A i, j \in U : I!IsBefore(q, i, j) <=>
        \/ IF down THEN rank(i) > rank(j) ELSE rank(i) < rank(j)
        \/ rank(i) = rank(j) /\ IF down THEN at(i) > at(j) ELSE at(i) < at(j)
        \/ rank(i) = rank(j) /\ at(i) = at(j) /\ i < j
  BY DEF I!IsBefore
<1>3. \A i, j \in U : <<i, j>> \in OrderOf(q) <=> I!IsBefore(q, i, j)
  BY OrderIsBefore
<1> HIDE DEF U, rank, at, down
<1>4. \A i, j \in U : i # j => <<i, j>> \in OrderOf(q) \/ <<j, i>> \in OrderOf(q)
  BY <1>1, <1>2, <1>3
<1>5. \A i, j, k \in U : <<i, j>> \in OrderOf(q) /\ <<j, k>> \in OrderOf(q) =>
        <<i, k>> \in OrderOf(q)
  BY <1>1, <1>2, <1>3
<1> QED
  BY <1>4, <1>5 DEF IsOrderOf, U

LEMMA SameCount ==
    ASSUME NEW s
    PROVE  I!Cardinality(s) = Cardinality(s)
BY DEF I!Cardinality, Cardinality

LEMMA WhereIsFinite ==
    ASSUME RepliesAreReplies, NEW q
    PROVE  /\ I!Where(q) \subseteq DOMAIN received
           /\ IsFiniteSet(I!Where(q)) /\ IsFiniteSet(DOMAIN received)
           /\ Cardinality(I!Where(q)) \in Nat
<1>1. Len(received) \in Nat /\ DOMAIN received = 1 .. Len(received)
  BY DEF RepliesAreReplies
<1>2. IsFiniteSet(DOMAIN received)
  BY <1>1, FS_Interval
<1>3. I!Where(q) \subseteq DOMAIN received
  BY DEF I!Where
<1> QED
  BY <1>2, <1>3, FS_Subset, FS_CardinalityType

\* What a query asks for is in the order of the query.
LEMMA OrderedIsInOrder ==
    ASSUME RepliesAreReplies, NEW q \in I!Queries
    PROVE  I!Ordered(q) \in Seq(Nat) /\ InOrder(q, I!Ordered(q))
<1> DEFINE S == I!Where(q)
           n == Cardinality(S)
           sorted(s) == \A k, m \in DOMAIN s : k < m => I!IsBefore(q, s[k], s[m])
<1>1. S \subseteq DOMAIN received /\ n \in Nat
  BY WhereIsFinite
<1>2. PICK e : InOrderOf(OrderOf(q), S, e)
  BY <1>1, WhereIsFinite, OrderIsStrict, FewAreOrdered DEF CanBeOrdered
<1>3. I!SetToSeqs(S) = {f \in [1 .. n -> S] : \A i, j \in 1 .. n : i # j => f[i] # f[j]}
  BY SameCount DEF I!SetToSeqs
<1> HIDE DEF S, n
<1>4. e \in I!SetToSeqs(S) /\ DOMAIN e = 1 .. n
  BY <1>2, <1>3 DEF InOrderOf, n
<1>5. sorted(e)
  <2> SUFFICES ASSUME NEW k \in 1 .. n, NEW m \in 1 .. n, k < m
               PROVE  I!IsBefore(q, e[k], e[m])
    BY <1>4
  <2>1. <<e[k], e[m]>> \in OrderOf(q)
    BY <1>2 DEF InOrderOf, n
  <2>2. e[k] \in DOMAIN received /\ e[m] \in DOMAIN received
    BY <1>1, <1>2 DEF InOrderOf, n
  <2> QED
    BY <2>1, <2>2, OrderIsBefore
<1>6. I!Ordered(q) \in I!SetToSeqs(S) /\ sorted(I!Ordered(q))
  BY <1>4, <1>5 DEF I!Ordered, S
<1>7. I!Ordered(q) \in [1 .. n -> S]
  BY <1>3, <1>6
<1>8. DOMAIN received \subseteq Nat
  BY DEF RepliesAreReplies
<1>9. I!Ordered(q) \in Seq(Nat)
  BY <1>1, <1>7, <1>8
<1> QED
  BY <1>1, <1>6, <1>7, <1>9 DEF InOrder

LEMMA LesserNumber ==
    ASSUME NEW a, NEW b, a \in Int, b \in Int
    PROVE  I!Min({a, b}) \in {a, b} /\ I!Min({a, b}) <= a /\ I!Min({a, b}) <= b
<1>1. \E x \in {a, b} : \A y \in {a, b} : x =< y
  <2>1. a =< b \/ b =< a
    OBVIOUS
  <2> QED
    BY <2>1
<1> QED
  BY <1>1 DEF I!Min

LEMMA PageIsInOrder ==
    ASSUME RepliesAreReplies, NEW q \in I!Queries, NEW s \in Seq(Nat), InOrder(q, s)
    PROVE  /\ I!PageOf(q, s) \in Seq(Nat)
           /\ InOrder(q, I!PageOf(q, s)) /\ Len(I!PageOf(q, s)) <= PageLimit
<1> DEFINE first == (q.page - 1) * PageLimit + 1
           end == q.page * PageLimit
           last == I!Min({end, Len(s)})
           page == I!PageOf(q, s)
<1>1. PageLimit \in Nat /\ q.page \in {1, 2} /\ Len(s) \in Nat /\ DOMAIN s = 1 .. Len(s)
  BY LimitsAreNatural DEF I!Queries
<1>2. first \in Nat /\ first >= 1 /\ end \in Nat /\ end = first + PageLimit - 1
  <2>1. CASE q.page = 1
    BY <1>1, <2>1
  <2>2. CASE q.page = 2
    BY <1>1, <2>2
  <2> QED
    BY <1>1, <2>1, <2>2
<1>3. page = SubSeq(s, first, last)
  BY DEF I!PageOf
<1> HIDE DEF first, end, page
<1>4. last \in Int /\ last <= end /\ last <= Len(s)
  <2>1. end \in Int /\ Len(s) \in Int
    BY <1>1, <1>2
  <2>2. last \in {end, Len(s)} /\ last <= end /\ last <= Len(s)
    BY <2>1, LesserNumber
  <2> QED
    BY <2>1, <2>2
<1> HIDE DEF last
<1>5. \A i \in first .. last : i \in DOMAIN s /\ s[i] \in Nat
  BY <1>1, <1>2, <1>4
<1>6. /\ page \in Seq(Nat)
      /\ Len(page) = IF first <= last THEN last - first + 1 ELSE 0
      /\ \A i \in 1 .. last - first + 1 : page[i] = s[first + i - 1]
  BY <1>2, <1>3, <1>4, <1>5, SubSeqProperties
<1>7. Len(page) <= PageLimit
  BY <1>1, <1>2, <1>4, <1>6
<1>8. DOMAIN page = 1 .. Len(page)
  BY <1>6
<1>9. \A i \in DOMAIN page : /\ first + i - 1 \in DOMAIN s
                             /\ page[i] = s[first + i - 1]
  <2> SUFFICES ASSUME NEW i \in DOMAIN page
               PROVE  first + i - 1 \in DOMAIN s /\ page[i] = s[first + i - 1]
    OBVIOUS
  <2>1. i \in 1 .. last - first + 1
    BY <1>2, <1>4, <1>6, <1>8
  <2>2. first + i - 1 \in 1 .. Len(s)
    BY <1>1, <1>2, <1>4, <2>1
  <2> QED
    BY <1>1, <1>6, <2>1, <2>2
<1>10. \A i, j \in DOMAIN page : i < j => first + i - 1 < first + j - 1
  BY <1>2, <1>6, <1>8
<1>11. InOrder(q, page)
  BY <1>9, <1>10 DEF InOrder
<1> QED
  BY <1>6, <1>7, <1>11 DEF page

LEMMA UpToNumber ==
    ASSUME NEW m, m \in Nat
    PROVE  Cardinality(1 .. m) = m
<1>1. m >= 1 => Cardinality(1 .. m) = m - 1 + 1
  BY FS_Interval
<1>2. m = 0 => 1 .. m = {}
  OBVIOUS
<1> QED
  BY <1>1, <1>2, FS_EmptySet

\* All that was found comes in the order of the ids.
LEMMA AllComeInOrder ==
    ASSUME NEW ids, ids \in Seq(Nat), NEW found, \A i \in DOMAIN ids : ids[i] \in found
    PROVE  I!OrderByIds(ids, found) = ids
<1> DEFINE places == {i \in DOMAIN ids : ids[i] \in found}
           upTo(i) == {j \in places : j <= i}
           place(k) == CHOOSE i \in places : I!Cardinality(upTo(i)) = k
<1>1. I!OrderByIds(ids, found) = [k \in 1 .. I!Cardinality(places) |-> ids[place(k)]]
  BY DEF I!OrderByIds
<1>2. PICK n \in Nat : DOMAIN ids = 1 .. n /\ ids \in [1 .. n -> Nat]
  BY LenProperties
<1>3. places = 1 .. n
  BY <1>2
<1>4. I!Cardinality(places) = n
  BY <1>3, UpToNumber, SameCount
<1> HIDE DEF places
<1>5. ASSUME NEW i \in 1 .. n PROVE I!Cardinality(upTo(i)) = i
  <2>1. upTo(i) = 1 .. i /\ i \in Nat
    BY <1>3
  <2> HIDE DEF upTo
  <2> QED
    BY <2>1, UpToNumber, SameCount
<1> HIDE DEF upTo
<1>6. ASSUME NEW k \in 1 .. n PROVE place(k) = k
  BY <1>3, <1>5
<1> HIDE DEF place
<1> QED
  BY <1>1, <1>2, <1>4, <1>6

-----------------------------------------------------------------------------
(* The steps of the inbox keep its pages in order.                         *)

InboxHolds == RepliesAreReplies /\ InboxIsRequest /\ InboxFollows

LEMMA InboxStarts == I!Init => InboxHolds
<1> SUFFICES ASSUME I!Init
             PROVE  InboxHolds
  OBVIOUS
<1>1. inbox = [step |-> "idle", query |-> Nothing, total |-> 0, ids |-> <<>>, items |-> <<>>]
      /\ received = <<>>
  BY DEF I!Init, I!NoInbox
<1>2. inbox \in InboxRequests
  BY <1>1 DEF InboxRequests
<1> QED
  BY <1>1, <1>2 DEF InboxHolds, RepliesAreReplies, InboxIsRequest, InboxFollows

\* Nothing of the order depends on the replies that come later.
LEMMA OrderIsKept ==
    ASSUME \A i \in DOMAIN received : i \in DOMAIN received' /\ received'[i] = received[i],
           NEW q, NEW s, InOrder(q, s)
    PROVE  InOrder(q, s)'
<1>1. ASSUME NEW i \in DOMAIN received, NEW j \in DOMAIN received, I!IsBefore(q, i, j)
      PROVE  (I!IsBefore(q, i, j))'
  <2>1. received'[i] = received[i] /\ received'[j] = received[j]
    OBVIOUS
  <2> QED
    BY <1>1, <2>1 DEF I!IsBefore
<1> QED
  BY <1>1 DEF InOrder

LEMMA InboxStays ==
    ASSUME InboxHolds, UNCHANGED inbox, RepliesAreReplies',
           \A i \in DOMAIN received : i \in DOMAIN received' /\ received'[i] = received[i]
    PROVE  InboxHolds'
<1>1. PICK q, ids, numbers :
        q = inbox.query /\ ids = inbox.ids /\ numbers = Numbers(inbox.items)
  OBVIOUS
<1>2. q = inbox'.query /\ ids = inbox'.ids /\ numbers = Numbers(inbox.items)'
  BY <1>1 DEF Numbers
<1>3. inbox.step = "rows" /\ inbox.query.sort = "priority" => InOrder(inbox.query, inbox.ids)'
  <2>1. InOrder(q, ids) => InOrder(q, ids)'
    BY OrderIsKept
  <2> QED
    BY <1>1, <1>2, <2>1 DEF InOrder, InboxHolds, InboxFollows
<1>4. inbox.step = "answered" => InOrder(inbox.query, Numbers(inbox.items))'
  <2>1. InOrder(q, numbers) => InOrder(q, numbers)'
    BY OrderIsKept
  <2> QED
    BY <1>1, <1>2, <2>1 DEF InOrder, InboxHolds, InboxFollows
<1>5. InboxIsRequest'
  BY DEF InboxHolds, InboxIsRequest
<1>6. InboxFollows'
  BY <1>3, <1>4 DEF InboxHolds, InboxFollows
<1> QED
  BY <1>5, <1>6 DEF InboxHolds

LEMMA RepliesGrow ==
    ASSUME InboxHolds, NEW mail \in Mails, NEW category \in Kinds, I!RecordReply(mail, category)
    PROVE  InboxHolds'
<1>1. PICK at \in 0 .. 1 :
        received' = Append(received, [mail |-> mail, category |-> category, at |-> at])
  BY DEF I!RecordReply
<1>2. received \in Seq(Received) /\ [mail |-> mail, category |-> category, at |-> at] \in Received
  BY DEF InboxHolds, RepliesAreReplies, Received
<1>3. /\ RepliesAreReplies'
      /\ \A i \in DOMAIN received : i \in DOMAIN received' /\ received'[i] = received[i]
  BY <1>1, <1>2, AppendProperties DEF RepliesAreReplies
<1>4. UNCHANGED inbox
  BY DEF I!RecordReply
<1> QED
  BY <1>3, <1>4, InboxStays

LEMMA AnswerSteps ==
    ASSUME InboxHolds,
           \/ \E q \in I!Queries : I!Ask(q)
           \/ I!Count \/ I!FindPriorityOrderedIds \/ I!FindRows
    PROVE  /\ RepliesAreReplies' /\ UNCHANGED received
           /\ \A q, s : InOrder(q, s) => InOrder(q, s)'
<1>1. received' = received
  BY DEF I!Ask, I!Count, I!FindPriorityOrderedIds, I!FindRows
<1>2. RepliesAreReplies'
  BY <1>1 DEF InboxHolds, RepliesAreReplies
<1>3. ASSUME NEW q, NEW s, InOrder(q, s) PROVE InOrder(q, s)'
  BY <1>1, <1>3, OrderIsKept
<1> QED
  BY <1>1, <1>2, <1>3

LEMMA Asked ==
    ASSUME InboxHolds, NEW q \in I!Queries, I!Ask(q)
    PROVE  InboxHolds'
<1>1. inbox' = [step |-> "count", query |-> q, total |-> 0, ids |-> <<>>, items |-> <<>>]
  BY DEF I!Ask, I!NoInbox
<1>2. inbox' \in InboxRequests
  BY <1>1 DEF InboxRequests
<1> QED
  BY <1>1, <1>2, AnswerSteps DEF InboxHolds, InboxIsRequest, InboxFollows

LEMMA Counted ==
    ASSUME InboxHolds, I!Count
    PROVE  InboxHolds'
<1> DEFINE step == IF inbox.query.sort = "priority" THEN "ids" ELSE "rows"
           total == Cardinality(I!Where(inbox.query))
<1>1. inbox \in InboxRequests /\ inbox.step = "count" /\ inbox.query \in I!Queries
  BY DEF I!Count, InboxHolds, InboxIsRequest
<1>2. inbox' = [inbox EXCEPT !.step = step, !.total = total]
  BY SameCount DEF I!Count
<1>3. total \in Nat
  BY WhereIsFinite DEF InboxHolds
<1> HIDE DEF total
<1>4. /\ inbox' \in InboxRequests /\ inbox'.step = step /\ inbox'.query = inbox.query
      /\ inbox'.items = inbox.items
  BY <1>1, <1>2, <1>3 DEF InboxRequests
<1> QED
  BY <1>1, <1>4, AnswerSteps DEF InboxHolds, InboxIsRequest, InboxFollows

LEMMA IdsFound ==
    ASSUME InboxHolds, I!FindPriorityOrderedIds
    PROVE  InboxHolds'
<1>1. inbox \in InboxRequests /\ inbox.step = "ids" /\ inbox.query \in I!Queries
      /\ inbox.items = <<>>
  BY DEF I!FindPriorityOrderedIds, InboxHolds, InboxIsRequest, InboxFollows
<1>2. PICK q, ids : q = inbox.query /\ ids = I!PageOf(q, I!Ordered(q))
  OBVIOUS
<1>3. inbox' = [inbox EXCEPT !.ids = ids, !.step = IF ids = <<>> THEN "answered" ELSE "rows"]
  BY <1>2 DEF I!FindPriorityOrderedIds
<1>4. ids \in Seq(Nat) /\ InOrder(q, ids) /\ Len(ids) <= PageLimit
  BY <1>1, <1>2, OrderedIsInOrder, PageIsInOrder DEF InboxHolds
<1>5. /\ inbox' \in InboxRequests /\ inbox'.query = q /\ inbox'.ids = ids
      /\ inbox'.step = IF ids = <<>> THEN "answered" ELSE "rows"
      /\ inbox'.items = <<>>
  BY <1>1, <1>2, <1>3, <1>4 DEF InboxRequests
<1>6. InOrder(q, ids)' /\ RepliesAreReplies'
  BY <1>4, AnswerSteps
<1>7. inbox'.step = "rows" => InOrder(inbox.query, inbox.ids)' /\ Len(inbox'.ids) <= PageLimit
  BY <1>4, <1>5, <1>6 DEF InOrder
<1>8. inbox'.step = "answered" =>
        InOrder(inbox.query, Numbers(inbox.items))' /\ Len(inbox'.items) <= PageLimit
  BY <1>5, LimitsAreNatural DEF InOrder, Numbers
<1>9. inbox'.query \in I!Queries /\ inbox'.step \notin {"count", "ids"}
  BY <1>1, <1>2, <1>5
<1>10. InboxFollows'
  BY <1>7, <1>8, <1>9 DEF InboxFollows
<1>11. InboxIsRequest'
  BY <1>5, <1>9 DEF InboxIsRequest
<1> QED
  BY <1>6, <1>10, <1>11 DEF InboxHolds

LEMMA RowsFound ==
    ASSUME InboxHolds, I!FindRows
    PROVE  InboxHolds'
<1>1. inbox \in InboxRequests /\ inbox.step = "rows" /\ inbox.query \in I!Queries
  BY DEF I!FindRows, InboxHolds, InboxIsRequest
<1>2. PICK q, ids : q = inbox.query /\ ids = inbox.ids
  OBVIOUS
<1>3. PICK found : found = IF q.sort = "priority" THEN I!OrderByIds(ids, DOMAIN received)
                           ELSE I!PageOf(q, I!Ordered(q))
  OBVIOUS
<1>4. found \in Seq(Nat) /\ InOrder(q, found) /\ Len(found) <= PageLimit
  <2>1. CASE q.sort = "priority"
    <3>1. ids \in Seq(Nat) /\ InOrder(q, ids) /\ Len(ids) <= PageLimit
      BY <1>1, <1>2, <2>1 DEF InboxHolds, InboxFollows, InboxRequests
    <3>2. I!OrderByIds(ids, DOMAIN received) = ids
      BY <3>1, AllComeInOrder DEF InOrder
    <3> QED
      BY <1>3, <2>1, <3>1, <3>2
  <2>2. CASE q.sort # "priority"
    BY <1>1, <1>2, <1>3, <2>2, OrderedIsInOrder, PageIsInOrder DEF InboxHolds
  <2> QED
    BY <2>1, <2>2
<1>5. PICK items : items = [k \in DOMAIN found |-> I!ViewModel(found[k])]
  OBVIOUS
<1>6. inbox' = [inbox EXCEPT !.step = "answered", !.items = items]
  BY <1>2, <1>3, <1>5 DEF I!FindRows
<1>7. \A k \in DOMAIN found : I!ViewModel(found[k]) \in Shown /\ I!ViewModel(found[k]).reply = found[k]
  <2> SUFFICES ASSUME NEW k \in DOMAIN found
               PROVE  I!ViewModel(found[k]) \in Shown /\ I!ViewModel(found[k]).reply = found[k]
    OBVIOUS
  <2>1. found[k] \in Nat
    BY <1>4
  <2>2. I!PriorityRank(received[found[k]].category) \in 1 .. 4
    BY RanksAreNumbers
  <2>3. I!Flags(received[found[k]]) \in [managerReviewRequired : BOOLEAN, stopFollowup : BOOLEAN]
    BY DEF I!Flags
  <2> QED
    BY <2>1, <2>2, <2>3 DEF I!ViewModel, Shown
<1>8. items \in Seq(Shown) /\ Len(items) = Len(found) /\ DOMAIN items = DOMAIN found
  BY <1>4, <1>5, <1>7
<1>9. Numbers(items) = found
  <2>1. found \in [DOMAIN found -> Nat]
    BY <1>4
  <2> QED
    BY <1>5, <1>7, <1>8, <2>1 DEF Numbers
<1>10. /\ inbox' \in InboxRequests /\ inbox'.query = q /\ inbox'.items = items
       /\ inbox'.step = "answered"
  BY <1>1, <1>2, <1>6, <1>8 DEF InboxRequests
<1>11. InOrder(q, found)' /\ RepliesAreReplies'
  BY <1>4, AnswerSteps
<1>12. InOrder(inbox.query, Numbers(inbox.items))' /\ Len(inbox'.items) <= PageLimit
  <2>1. Numbers(inbox.items)' = found
    BY <1>9, <1>10 DEF Numbers
  <2> QED
    BY <1>4, <1>8, <1>10, <1>11, <2>1 DEF InOrder
<1>13. InboxFollows'
  BY <1>10, <1>12 DEF InboxFollows
<1>14. InboxIsRequest'
  BY <1>1, <1>2, <1>10 DEF InboxIsRequest
<1> QED
  BY <1>11, <1>13, <1>14 DEF InboxHolds

LEMMA InboxGoesOn == InboxHolds /\ (I!Next \/ UNCHANGED inboxVars) => InboxHolds'
<1> SUFFICES ASSUME InboxHolds, I!Next \/ UNCHANGED inboxVars
             PROVE  InboxHolds'
  OBVIOUS
<1>1. CASE UNCHANGED <<received, inbox>>
  BY <1>1, InboxStays DEF InboxHolds, RepliesAreReplies
<1>2. CASE \E q \in I!Queries : I!Ask(q)
  BY <1>2, Asked
<1>3. CASE I!Count
  BY <1>3, Counted
<1>4. CASE I!FindPriorityOrderedIds
  BY <1>4, IdsFound
<1>5. CASE I!FindRows
  BY <1>5, RowsFound
<1>6. CASE \E mail \in Mails, category \in Kinds : I!RecordReply(mail, category)
  BY <1>6, RepliesGrow
<1>7. CASE \E mail \in Mails : I!TurnContact(mail)
  BY <1>1, <1>7 DEF I!TurnContact
<1>8. CASE UNCHANGED inboxVars
  BY <1>1, <1>8 DEF inboxVars
<1> QED
  BY <1>2, <1>3, <1>4, <1>5, <1>6, <1>7, <1>8 DEF I!Next

LEMMA InboxIsSound == InboxHolds => I!InboxIsInOrder /\ I!AttentionIsOfFlags
<1> SUFFICES ASSUME InboxHolds
             PROVE  I!InboxIsInOrder /\ I!AttentionIsOfFlags
  OBVIOUS
<1>1. I!InboxIsInOrder
  <2> SUFFICES ASSUME inbox.step = "answered"
               PROVE  /\ Len(inbox.items) <= PageLimit
                      /\ \A k, n \in DOMAIN inbox.items : k < n =>
                           I!IsBefore(inbox.query, inbox.items[k].reply, inbox.items[n].reply)
    BY DEF I!InboxIsInOrder, I!Answered
  <2>1. InOrder(inbox.query, Numbers(inbox.items)) /\ Len(inbox.items) <= PageLimit
    BY DEF InboxHolds, InboxFollows
  <2> QED
    BY <2>1 DEF InOrder, Numbers
<1>2. I!AttentionIsOfFlags
  <2> SUFFICES ASSUME NEW reply
               PROVE  /\ I!AttentionWhere(reply, "manager_review")
                           = I!Flags(reply).managerReviewRequired
                      /\ I!AttentionWhere(reply, "stop_followup") = I!Flags(reply).stopFollowup
                      /\ I!Flags(reply).managerReviewRequired
                           => I!AttentionWhere(reply, "needs_action")
    BY DEF I!AttentionIsOfFlags
  <2> QED
    BY DEF I!AttentionWhere, I!Flags
<1> QED
  BY <1>1, <1>2

-----------------------------------------------------------------------------
(* The views of the work that waits.                                       *)

\* Whatever is done and recorded while they are looked at, the page of today, its badge
\* and the filter of the lead list agree on what is due, a list of leads is of one
\* moment, and a page of the reply inbox is in its order (LeadsService.listToday,
\* NavigationSummaryService, LeadsService.list, PrismaReplyInboxRepository).
THEOREM ViewsTellTheSame == WorkSpec => []ViewsAgree
<1>1. WorkInit => ListsHold /\ InboxHolds
  BY ListsStart, InboxStarts DEF WorkInit
<1>2. ListsHold /\ InboxHolds /\ [WorkNext]_workVars => (ListsHold /\ InboxHolds)'
  <2> SUFFICES ASSUME ListsHold, InboxHolds, [WorkNext]_workVars
               PROVE  ListsHold' /\ InboxHolds'
    OBVIOUS
  <2>1. W!Next \/ UNCHANGED listVars
    BY DEF WorkNext, workVars
  <2>2. I!Next \/ UNCHANGED inboxVars
    BY DEF WorkNext, workVars
  <2> QED
    BY <2>1, <2>2, ListsGoOn, InboxGoesOn
<1>3. ListsHold /\ InboxHolds => ViewsAgree
  BY ListsAgree, InboxIsSound DEF ViewsAgree
<1> QED
  BY <1>1, <1>2, <1>3, PTL DEF WorkSpec
=============================================================================
