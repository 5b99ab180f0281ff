------------------------- MODULE OpportunityPipeline -------------------------
(***************************************************************************)
(* The opportunity of one sales lead, its history and its tasks            *)
(* (src/apps/api/src/leads).                                               *)
(*                                                                         *)
(* Users move the opportunity through the sales stages by requests that    *)
(* name the version they saw and an operation key; sent mails and recorded *)
(* replies move it forward by themselves.  Each of these changes is one    *)
(* transaction under the advisory lock of the opportunity, hence one       *)
(* action.  Requests about tasks take no lock: they read, decide and write *)
(* in separate steps.                                                      *)
(***************************************************************************)
EXTENDS Naturals, Sequences, FiniteSets

CONSTANTS
    Users,      \* users who change the lead, its opportunity and its tasks
    RoleOf,     \* the role of each user
    Keys,       \* operation keys users make up
    Mails,      \* mails of the lead
    Replies,    \* replies to them
    Tasks,      \* tasks of the lead
    NoUser, NoTask, NoKey,
    MaxVersion, \* bound on the version of the opportunity
    MaxIssued   \* bound on the requests users issue

ASSUME RolesAreRoles == RoleOf \in [Users -> {"operator", "manager", "admin"}]
ASSUME NothingIsNothing ==
    NoUser \notin Users /\ NoTask \notin Tasks /\ NoKey \notin Keys \cup Mails \cup Replies
ASSUME KeysAreDistinct ==
    Keys \cap Mails = {} /\ Keys \cap Replies = {} /\ Mails \cap Replies = {}
ASSUME BoundsAreNatural == MaxVersion \in Nat /\ MaxIssued \in Nat

VARIABLES
    stage,      \* Opportunity.stage
    version,    \* Opportunity.version
    owner,      \* Opportunity.ownerId
    wonAmount,  \* is Opportunity.wonAmount set?
    lossReason, \* is Opportunity.lossReason set?
    history,    \* the OpportunityStageHistory rows of the opportunity
    screen,     \* the version and the stage each user has loaded
    issued,     \* the requests users have issued, which may arrive again and again
    replies,    \* the replies that are recorded
    leadClosed, \* is SalesLead.status rejected or archived?
    task,       \* Task.status of each task
    edit        \* the task request of each user: what it read, or that it passed its tests

vars == <<stage, version, owner, wonAmount, lossReason, history, screen, issued, replies,
          leadClosed, task, edit>>

resultVars == <<wonAmount, lossReason>>

-----------------------------------------------------------------------------
(* Stages and their tables.                                                *)

Stages == {"uncontacted", "contacted", "replied", "meeting", "proposal",
           "won", "lost", "excluded"}

TerminalStages == {"won", "lost", "excluded"}

\* Mutant: a meeting that did not take place goes back.
BackwardTransitions ==
    [s \in Stages |->
        CASE s = "uncontacted" -> {"contacted", "excluded"}
          [] s = "contacted" -> {"replied", "meeting", "proposal", "lost", "excluded"}
          [] s = "replied" -> {"meeting", "proposal", "lost", "excluded"}
          [] s = "meeting" -> {"replied", "proposal", "won", "lost"}
          [] s = "proposal" -> {"won", "lost"}
          [] OTHER -> {}]

NormalTransitions ==
    [s \in Stages |->
        CASE s = "uncontacted" -> {"contacted", "excluded"}
          [] s = "contacted" -> {"replied", "meeting", "proposal", "lost", "excluded"}
          [] s = "replied" -> {"meeting", "proposal", "lost", "excluded"}
          [] s = "meeting" -> {"proposal", "won", "lost"}
          [] s = "proposal" -> {"won", "lost"}
          [] OTHER -> {}]

SystemTransitions ==
    [s \in Stages |->
        CASE s = "uncontacted" -> {"contacted", "replied", "meeting"}
          [] s = "contacted" -> {"replied", "meeting"}
          [] s = "replied" -> {"meeting"}
          [] OTHER -> {}]

Rank ==
    [s \in Stages |->
        CASE s = "uncontacted" -> 0
          [] s = "contacted" -> 1
          [] s = "replied" -> 2
          [] s = "meeting" -> 3
          [] s = "proposal" -> 4
          [] OTHER -> 5]

TaskStatus == {"todo", "doing", "done", "cancelled"}

ActiveTask == {"todo", "doing"}

AllowedTransitions ==
    [t \in TaskStatus |->
        IF t \in ActiveTask THEN TaskStatus ELSE {t, "todo"}]

-----------------------------------------------------------------------------
(* Types.                                                                  *)

Requests ==
    [by : Users, key : Keys, kind : {"transition", "reopen"}, to : Stages,
     version : Nat, seen : Stages]

HistoryRows ==
    [from : Stages, to : Stages, key : Keys \cup Mails \cup Replies,
     request : Requests \cup {NoKey}, versionAfter : Nat]

NoEdit == [step |-> "idle", task |-> NoTask, seen |-> "todo"]

TypeOK ==
    /\ stage \in Stages
    /\ version \in Nat
    /\ owner \in Users \cup {NoUser}
    /\ wonAmount \in BOOLEAN /\ lossReason \in BOOLEAN
    /\ history \in Seq(HistoryRows)
    /\ screen \in [Users -> [version : Nat, stage : Stages]]
    /\ issued \subseteq Requests
    /\ replies \subseteq Replies
    /\ leadClosed \in BOOLEAN
    /\ task \in [Tasks -> TaskStatus \cup {"absent"}]
    /\ edit \in [Users -> [step : {"idle", "creating", "updating"},
                           task : Tasks \cup {NoTask}, seen : TaskStatus]]
    /\ \A u \in Users : edit[u].step # "idle" => edit[u].task \in Tasks

\* A lead is created with its opportunity, whose bootstrap row is left out.
Init ==
    /\ stage = "uncontacted"
    /\ version = 1
    /\ owner = NoUser
    /\ wonAmount = FALSE /\ lossReason = FALSE
    /\ history = <<>>
    /\ screen = [u \in Users |-> [version |-> 1, stage |-> "uncontacted"]]
    /\ issued = {}
    /\ replies = {}
    /\ leadClosed = FALSE
    /\ task = [t \in Tasks |-> "absent"]
    /\ edit = [u \in Users |-> NoEdit]

-----------------------------------------------------------------------------
(* Requests about the opportunity.                                         *)

Load(u) ==
    /\ screen' = [screen EXCEPT ![u] = [version |-> version, stage |-> stage]]
    /\ UNCHANGED <<stage, version, owner, resultVars, history, issued, replies, leadClosed,
                   task, edit>>

\* What the screen offers for the stage it shows.
Offered(shown, kind) ==
    IF kind = "transition" THEN NormalTransitions[shown]
    ELSE IF shown \in TerminalStages THEN Stages \ TerminalStages ELSE {}

\* The user asks for a change of what the screen shows.  Nothing keeps a client
\* from using an operation key again.
Issue(u, key, kind, to) ==
    /\ Cardinality(issued) < MaxIssued
    /\ to \in Offered(screen[u].stage, kind)
    /\ issued' = issued \cup
          {[by |-> u, key |-> key, kind |-> kind, to |-> to,
            version |-> screen[u].version, seen |-> screen[u].stage]}
    /\ UNCHANGED <<stage, version, owner, resultVars, history, screen, replies, leadClosed,
                   task, edit>>

OwnerOrUnassigned(u) == owner \in {u, NoUser}

\* evaluateOpportunityTransition for the role of the user.
MayTransition(u, to) ==
    /\ stage \notin TerminalStages
    /\ RoleOf[u] = "operator" => OwnerOrUnassigned(u) /\ to # "won"
    /\ to \in NormalTransitions[stage]

\* evaluateOpportunityReopen.
MayReopen(u, to) ==
    /\ to \notin TerminalStages
    /\ \/ stage = "won" /\ RoleOf[u] = "admin"
       \/ stage \in {"lost", "excluded"} /\ RoleOf[u] \in {"manager", "admin"}

KeyUsed(key) == \E i \in DOMAIN history : history[i].key = key

Row(from, to, key, request) ==
    [from |-> from, to |-> to, key |-> key, request |-> request, versionAfter |-> version + 1]

\* Mutant: the result of the former end stays.
KeepResult(to, reopen) ==
    /\ wonAmount' = (to = "won" \/ wonAmount)
    /\ lossReason' = (to = "lost" \/ lossReason)

SetResult(to, reopen) ==
    CASE to = "won" -> wonAmount' = TRUE /\ lossReason' = FALSE
      [] to = "lost" -> wonAmount' = FALSE /\ lossReason' = TRUE
      [] to # "won" /\ to # "lost" /\ (reopen \/ to = "excluded") ->
            wonAmount' = FALSE /\ lossReason' = FALSE
      [] OTHER -> UNCHANGED resultVars

\* Closing the opportunity cancels what is still to be done for the lead.
CancelTasks ==
    task' = [t \in Tasks |-> IF task[t] \in ActiveTask THEN "cancelled" ELSE task[t]]

PersistTransition(r) ==
    /\ version < MaxVersion
    /\ stage' = r.to
    /\ version' = version + 1
    /\ SetResult(r.to, r.kind = "reopen")
    /\ history' = Append(history, Row(stage, r.to, r.key, r))
    /\ IF r.to \in TerminalStages THEN CancelTasks ELSE UNCHANGED task
    /\ UNCHANGED <<owner, screen, issued, replies, leadClosed, edit>>

\* Mutant: the version the user saw is not compared.
TransitionAnyVersion(r) ==
    /\ r.kind = "transition"
    /\ ~KeyUsed(r.key)
    /\ MayTransition(r.by, r.to)
    /\ PersistTransition(r)

\* The request of a user arrives, perhaps again.  One that is out of date, not
\* allowed, or whose key is used already changes nothing.
Transition(r) ==
    /\ r.kind = "transition"
    /\ ~KeyUsed(r.key)
    /\ r.version = version
    /\ MayTransition(r.by, r.to)
    /\ PersistTransition(r)

Reopen(r) ==
    /\ r.kind = "reopen"
    /\ ~KeyUsed(r.key)
    /\ r.version = version
    /\ MayReopen(r.by, r.to)
    /\ PersistTransition(r)

\* Changes of the details; only the owner is told apart from the others.
UpdateDetails(u, newOwner) ==
    /\ version < MaxVersion
    /\ screen[u].version = version
    /\ RoleOf[u] = "operator" => OwnerOrUnassigned(u)
    /\ owner' = newOwner
    /\ version' = version + 1
    /\ UNCHANGED <<stage, resultVars, history, screen, issued, replies, leadClosed, task, edit>>

-----------------------------------------------------------------------------
(* What mails and replies do to the opportunity.                           *)

\* Mutant: the key of the mail is not looked up.
ProgressAgain(to, key) ==
    IF Rank[to] > Rank[stage] /\ to \in SystemTransitions[stage]
    THEN /\ version < MaxVersion
         /\ stage' = to
         /\ version' = version + 1
         /\ history' = Append(history, Row(stage, to, key, NoKey))
    ELSE UNCHANGED <<stage, version, history>>

\* Mutant: the version counts the changes users make.
ProgressUnversioned(to, key) ==
    IF ~KeyUsed(key) /\ Rank[to] > Rank[stage] /\ to \in SystemTransitions[stage]
    THEN /\ stage' = to
         /\ history' = Append(history, Row(stage, to, key, NoKey))
         /\ UNCHANGED version
    ELSE UNCHANGED <<stage, version, history>>

\* progressOpportunityInTransaction: only forward, and once for each key.
Progress(to, key) ==
    IF ~KeyUsed(key) /\ Rank[to] > Rank[stage] /\ to \in SystemTransitions[stage]
    THEN /\ version < MaxVersion
         /\ stage' = to
         /\ version' = version + 1
         /\ history' = Append(history, Row(stage, to, key, NoKey))
    ELSE UNCHANGED <<stage, version, history>>

\* A mail may be sent, or recorded as sent, more than once.
MailSent(m) ==
    /\ Progress("contacted", m)
    /\ leadClosed' = FALSE
    /\ UNCHANGED <<owner, resultVars, screen, issued, replies, task, edit>>

\* A reply that asks for an answer adds a task.
AnswerPlanned(r, to) ==
    /\ r \notin replies
    /\ replies' = replies \cup {r}
    /\ Progress(to, r)
    /\ leadClosed' = FALSE
    /\ \E t \in Tasks : task[t] = "absent" /\ task' = [task EXCEPT ![t] = "todo"]
    /\ UNCHANGED <<owner, resultVars, screen, issued, edit>>

\* A refusal asks for nothing, and an unsubscription rejects the lead.
ReplyRefuses(r, unsubscribed) ==
    /\ r \notin replies
    /\ replies' = replies \cup {r}
    /\ leadClosed' = unsubscribed
    /\ UNCHANGED <<stage, version, owner, resultVars, history, screen, issued, task, edit>>

RecordReply(r) ==
    \/ \E to \in {"contacted", "replied", "meeting"} : AnswerPlanned(r, to)
    \/ \E unsubscribed \in BOOLEAN : ReplyRefuses(r, unsubscribed)

-----------------------------------------------------------------------------
(* The lead and its tasks.                                                 *)

UpdateLead(closed) ==
    /\ leadClosed' = closed
    /\ UNCHANGED <<stage, version, owner, resultVars, history, screen, issued, replies,
                   task, edit>>

\* Only the status of the lead is looked at, not the stage of its opportunity.
BeginCreateTask(u, t) ==
    /\ edit[u].step = "idle"
    /\ task[t] = "absent"
    /\ ~leadClosed
    /\ edit' = [edit EXCEPT ![u] = [step |-> "creating", task |-> t, seen |-> "todo"]]
    /\ UNCHANGED <<stage, version, owner, resultVars, history, screen, issued, replies,
                   leadClosed, task>>

CreateTask(u) ==
    LET t == edit[u].task IN
    /\ edit[u].step = "creating"
    /\ task[t] = "absent"
    /\ task' = [task EXCEPT ![t] = "todo"]
    /\ edit' = [edit EXCEPT ![u] = NoEdit]
    /\ UNCHANGED <<stage, version, owner, resultVars, history, screen, issued, replies,
                   leadClosed>>

BeginUpdateTask(u, t) ==
    /\ edit[u].step = "idle"
    /\ task[t] \in TaskStatus
    /\ edit' = [edit EXCEPT ![u] = [step |-> "updating", task |-> t, seen |-> task[t]]]
    /\ UNCHANGED <<stage, version, owner, resultVars, history, screen, issued, replies,
                   leadClosed, task>>

\* The transition is allowed from the status that was read.
UpdateTask(u, to) ==
    LET e == edit[u] IN
    /\ e.step = "updating"
    /\ to # e.seen /\ to \in AllowedTransitions[e.seen]
    /\ task' = [task EXCEPT ![e.task] = to]
    /\ edit' = [edit EXCEPT ![u] = NoEdit]
    /\ UNCHANGED <<stage, version, owner, resultVars, history, screen, issued, replies,
                   leadClosed>>

\* Any other end of a task request leaves the tasks as they are.
DropEdit(u) ==
    /\ edit[u].step # "idle"
    /\ edit' = [edit EXCEPT ![u] = NoEdit]
    /\ UNCHANGED <<stage, version, owner, resultVars, history, screen, issued, replies,
                   leadClosed, task>>

-----------------------------------------------------------------------------
EditTask(u) ==
    \/ \E t \in Tasks : BeginCreateTask(u, t) \/ BeginUpdateTask(u, t)
    \/ CreateTask(u)
    \/ \E to \in TaskStatus : UpdateTask(u, to)
    \/ DropEdit(u)

Next ==
    \/ \E u \in Users :
          \/ Load(u)
          \/ \E key \in Keys, kind \in {"transition", "reopen"}, to \in Stages :
                Issue(u, key, kind, to)
          \/ \E newOwner \in Users \cup {NoUser} : UpdateDetails(u, newOwner)
          \/ EditTask(u)
    \/ \E r \in issued : Transition(r) \/ Reopen(r)
    \/ \E m \in Mails : MailSent(m)
    \/ \E r \in Replies : RecordReply(r)
    \/ \E closed \in BOOLEAN : UpdateLead(closed)

Spec == Init /\ [][Next]_vars

-----------------------------------------------------------------------------
(* Safety.                                                                 *)

\* The history tells, change by change, how the opportunity came to its stage.
HistoryTellsStage ==
    /\ \A i \in DOMAIN history :
          /\ history[i].from = IF i = 1 THEN "uncontacted" ELSE history[i - 1].to
          /\ history[i].versionAfter <= version
          /\ i > 1 => history[i - 1].versionAfter < history[i].versionAfter
    /\ stage = IF history = <<>> THEN "uncontacted" ELSE history[Len(history)].to

\* A mail, a reply or an operation of a user moves the opportunity at most once,
\* however often it arrives and whatever was reopened in between.
MovedOncePerKey ==
    \A i, j \in DOMAIN history : history[i].key = history[j].key => i = j

\* A user only ever moves an opportunity away from the stage its screen showed,
\* although sent mails and replies move it, too.
MovedFromSeenStage ==
    \A i \in DOMAIN history :
        history[i].request # NoKey => history[i].from = history[i].request.seen

\* The opportunity has an amount won exactly when it is won, and a reason of its
\* loss exactly when it is lost, through any number of ends and reopenings.
ResultTellsStage ==
    /\ wonAmount = (stage = "won")
    /\ lossReason = (stage = "lost")

\* Only the reopening of an ended opportunity takes it back.
NeverRewinds ==
    [][stage' # stage => Rank[stage'] > Rank[stage] \/ stage \in TerminalStages]_vars

-----------------------------------------------------------------------------
(* What the documentation says, and the code does not do.                  *)

\* The status of a task changes along the documented transitions only.
TaskTransitionsDocumented ==
    [][\A t \in Tasks :
          task[t] \in TaskStatus => task'[t] \in AllowedTransitions[task[t]]]_vars

\* Only a manager or an admin changes the owner of an opportunity.
OperatorKeepsOwner ==
    [][owner' # owner => \E u \in Users : RoleOf[u] \in {"manager", "admin"}]_vars
=============================================================================
