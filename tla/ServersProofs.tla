---------------------------- MODULE ServersProofs ----------------------------
(***************************************************************************)
(* What holds of SearchJobs for every number of jobs, servers and clients, *)
(* and of AiBudget for every number of calls, budget and number of months. *)
(***************************************************************************)
EXTENDS SearchJobs, AiBudget, FiniteSetTheorems, WellFoundedInduction, TLAPS

-----------------------------------------------------------------------------
(* Types.                                                                  *)

\* The part of the type invariant about the steps of requests and workers.
WorkerTypes ==
    /\ pc \in [Jobs -> StartStages \cup WorkerStages \cup {"idle", "ended"}]
    /\ home \in [Jobs -> Servers \cup {NoServer}]
    /\ aborted \in [Jobs -> BOOLEAN]
    /\ outcome \in [Jobs -> {"completed", "failed"}]

ClientTypes ==
    /\ client \in [Clients -> {"idle", "failing", "cancelling", "recording"}]
    /\ target \in [Clients -> Jobs \cup {NoJob}]
    /\ heard \in [Clients -> Terminal \cup {"running"}]
    /\ \A c \in Clients : client[c] # "idle" => target[c] \in Jobs

LEMMA LeaveType ==
    ASSUME WorkerTypes, NEW j \in Jobs, Leave(j)
    PROVE  WorkerTypes'
BY DEF WorkerTypes, Leave, Move

LEMMA AskType ==
    ASSUME ClientTypes, NEW c \in Clients, NEW j \in Jobs,
           NEW stage \in {"failing", "cancelling"}, Ask(c, stage, j), UNCHANGED heard
    PROVE  ClientTypes'
BY DEF ClientTypes, Ask

LEMMA AnswerType ==
    ASSUME ClientTypes, NEW c \in Clients, Answer(c)
    PROVE  ClientTypes'
BY DEF ClientTypes, Answer, Terminal

\* A request that goes on to record what it read back keeps its job.
LEMMA HearType ==
    ASSUME ClientTypes, NEW c \in Clients, NEW told \in Terminal \cup {"running"},
           client[c] # "idle", client' = [client EXCEPT ![c] = "recording"],
           heard' = [heard EXCEPT ![c] = told], UNCHANGED target
    PROVE  ClientTypes'
BY DEF ClientTypes

LEMMA TypeStep == TypeOK /\ [Next]_vars => TypeOK'
<1> SUFFICES ASSUME TypeOK, [Next]_vars PROVE TypeOK'
  OBVIOUS
<1> DEFINE RowTypes == /\ row \in [Jobs -> RowStatus]
                       /\ age \in [Jobs -> {"leased", "visible", "expired"}]
                       /\ saved \in [Jobs -> Nat]
           AuditTypes == audited \in [Jobs -> SUBSET Terminal]
           SnapshotTypes == snapshot \in [Jobs -> [expired : SUBSET Jobs, running : SUBSET Jobs]]
<1>a. RowTypes /\ AuditTypes /\ SnapshotTypes /\ WorkerTypes /\ ClientTypes
  BY DEF TypeOK, WorkerTypes, ClientTypes
<1>b. (RowTypes' /\ AuditTypes' /\ SnapshotTypes' /\ WorkerTypes' /\ ClientTypes') => TypeOK'
  BY DEF TypeOK, WorkerTypes, ClientTypes
<1>c. (UNCHANGED workerVars => WorkerTypes' /\ SnapshotTypes')
      /\ (UNCHANGED clientVars => ClientTypes') /\ (UNCHANGED rowVars => RowTypes')
      /\ (UNCHANGED audited => AuditTypes') /\ (UNCHANGED snapshot => SnapshotTypes')
  BY <1>a DEF workerVars, clientVars, rowVars, WorkerTypes, ClientTypes
<1>d. NothingSeen \in [expired : SUBSET Jobs, running : SUBSET Jobs]
  BY DEF NothingSeen
<1> USE <1>a
<1>1. ASSUME NEW j \in Jobs, NEW s \in Servers, BeginSweep(j, s) PROVE TypeOK'
  <2>1. SnapshotTypes'
    <3> DEFINE expired == {k \in Jobs : Stored(k) /\ age[k] = "expired"}
    <3>1. snapshot' = [snapshot EXCEPT ![j] =
              [expired |-> expired, running |-> {k \in expired : row[k] = "running"}]]
      BY <1>1 DEF BeginSweep
    <3> QED
      BY <3>1
  <2>2. WorkerTypes'
    BY <1>1 DEF BeginSweep, Move, WorkerTypes, StartStages
  <2> QED
    BY <1>1, <1>b, <1>c, <2>1, <2>2 DEF BeginSweep
<1>2. ASSUME NEW j \in Jobs, Sweep(j) PROVE TypeOK'
  <2>1. RowTypes' /\ AuditTypes'
    BY <1>2 DEF Sweep, RowStatus, Terminal
  <2>2. WorkerTypes' /\ SnapshotTypes'
    BY <1>2, <1>d DEF Sweep, Move, WorkerTypes, StartStages
  <2> QED
    BY <1>2, <1>b, <1>c, <2>1, <2>2 DEF Sweep
<1>3. ASSUME NEW j \in Jobs, BeginReplace(j) PROVE TypeOK'
  <2>1. WorkerTypes'
    BY <1>3 DEF BeginReplace, Move, WorkerTypes, StartStages
  <2>2. SnapshotTypes'
    BY <1>3 DEF BeginReplace
  <2> QED
    BY <1>3, <1>b, <1>c, <2>1, <2>2 DEF BeginReplace
<1>4. ASSUME NEW j \in Jobs, Replace(j) PROVE TypeOK'
  <2>1. RowTypes'
    BY <1>4 DEF Replace, RowStatus, Terminal
  <2>2. AuditTypes'
    BY <1>4 DEF Replace, Terminal
  <2>3. WorkerTypes' /\ SnapshotTypes'
    BY <1>4, <1>d DEF Replace, Move, WorkerTypes, StartStages
  <2> QED
    BY <1>4, <1>b, <1>c, <2>1, <2>2, <2>3 DEF Replace
<1>5. ASSUME NEW j \in Jobs, Launch(j) PROVE TypeOK'
  BY <1>5, <1>b, <1>c DEF Launch, Move, WorkerTypes, WorkerStages
<1>6. ASSUME NEW j \in Jobs, Observe(j) PROVE TypeOK'
  <2>1. RowTypes'
    BY <1>6, <1>c DEF Observe, rowVars
  <2>2. WorkerTypes'
    BY <1>6 DEF Observe, WorkerTypes
  <2> QED
    BY <1>6, <1>b, <1>c, <2>1, <2>2 DEF Observe
<1>7. ASSUME NEW j \in Jobs, Decide(j) PROVE TypeOK'
  <2>1. WorkerTypes'
    <3>1. PICK result \in {"completed", "failed"}, stage \in WorkerStages :
             outcome' = [outcome EXCEPT ![j] = result] /\ pc' = [pc EXCEPT ![j] = stage]
      BY <1>7, Zenon DEF Decide, Move, WorkerStages
    <3> QED
      BY <1>7, <3>1 DEF Decide, WorkerTypes
  <2> QED
    BY <1>7, <1>b, <1>c, <2>1 DEF Decide
<1>8. ASSUME NEW j \in Jobs, Stop(j) PROVE TypeOK'
  BY <1>8, <1>b, <1>c, LeaveType DEF Stop
<1>9. ASSUME NEW j \in Jobs, Finish(j) PROVE TypeOK'
  <2>1. WorkerTypes'
    BY <1>9, LeaveType DEF Finish, Move, WorkerTypes, WorkerStages
  <2>2. outcome[j] \in RowStatus
    BY DEF WorkerTypes, RowStatus, Terminal
  <2>3. RowTypes'
    BY <1>9, <2>2 DEF Finish
  <2> QED
    BY <1>9, <1>b, <1>c, <2>1, <2>3 DEF Finish
<1>10. ASSUME NEW j \in Jobs, FinishFails(j) PROVE TypeOK'
  <2>1. WorkerTypes'
    BY <1>10, LeaveType, ZenonT(60) DEF FinishFails, Move, WorkerTypes, WorkerStages
  <2>2. outcome[j] \in RowStatus
    BY DEF WorkerTypes, RowStatus, Terminal
  <2>3. RowTypes'
    BY <1>10, <2>2 DEF FinishFails
  <2> QED
    BY <1>10, <1>b, <1>c, <2>1, <2>3 DEF FinishFails
<1>11. ASSUME NEW j \in Jobs, Record(j) PROVE TypeOK'
  <2>1. AuditTypes'
    BY <1>11 DEF Record, Terminal, WorkerTypes
  <2> QED
    BY <1>11, <1>b, <1>c, <2>1, LeaveType DEF Record
<1>12. ASSUME NEW j \in Jobs, StartFails(j) PROVE TypeOK'
  BY <1>12, <1>b, <1>c, <1>d, LeaveType DEF StartFails
<1>13. ASSUME NEW j \in Jobs, Monitor(j) \/ MonitorFails(j) PROVE TypeOK'
  BY <1>13, <1>b, <1>c DEF Monitor, MonitorFails, Abort, WorkerTypes
<1>14. ASSUME NEW j \in Jobs, Lapse(j) \/ Expire(j) PROVE TypeOK'
  BY <1>14, <1>b, <1>c DEF Lapse, Expire
<1>15. ASSUME NEW s \in Servers, Crash(s) PROVE TypeOK'
  BY <1>15, <1>b, <1>c, <1>d DEF Crash, WorkerTypes
<1>16. ASSUME NEW j \in Jobs, NEW c \in Clients, Get(c, j) \/ Cancel(c, j) PROVE TypeOK'
  BY <1>16, <1>b, <1>c, AskType DEF Get, Cancel
<1>17. ASSUME NEW c \in Clients, FailExpiredLease(c) PROVE TypeOK'
  <2>1. RowTypes' /\ target[c] \in Jobs
    BY <1>17 DEF FailExpiredLease, Visit, RowStatus, Terminal, ClientTypes
  <2>2. ClientTypes'
    <3>1. CASE Stored(target[c])
      <4>1. row'[target[c]] \in Terminal \cup {"running"}
        BY <1>17, <2>1, <3>1 DEF FailExpiredLease, Visit, Stored, RowStatus, Terminal
      <4> QED
        BY <1>17, <3>1, <4>1, HearType DEF FailExpiredLease, Visit
    <3> QED
      BY <1>17, <3>1, AnswerType DEF FailExpiredLease, Visit
  <2> QED
    BY <1>17, <1>b, <1>c, <2>1, <2>2 DEF FailExpiredLease, Visit
<1>18. ASSUME NEW c \in Clients, RequestCancel(c) PROVE TypeOK'
  <2>1. RowTypes' /\ target[c] \in Jobs
    BY <1>18 DEF RequestCancel, RowStatus, Terminal, ClientTypes
  <2>2. ClientTypes'
    BY <1>18, HearType, AnswerType DEF RequestCancel, Terminal
  <2>3. WorkerTypes' /\ SnapshotTypes'
    BY <1>18, <2>1 DEF RequestCancel, WorkerTypes
  <2> QED
    BY <1>18, <1>b, <1>c, <2>1, <2>2, <2>3 DEF RequestCancel
<1>19. ASSUME NEW c \in Clients, RecordHeard(c) PROVE TypeOK'
  <2>1. AuditTypes'
    BY <1>19 DEF RecordHeard, ClientTypes
  <2> QED
    BY <1>19, <1>b, <1>c, <2>1, AnswerType DEF RecordHeard
<1>20. ASSUME NEW c \in Clients, Drop(c) PROVE TypeOK'
  BY <1>20, <1>b, <1>c, AnswerType DEF Drop
<1>21. CASE UNCHANGED vars
  BY <1>21, <1>b, <1>c DEF vars, workerVars, clientVars, rowVars
<1> QED
  BY <1>1, <1>2, <1>3, <1>4, <1>5, <1>6, <1>7, <1>8, <1>9, <1>10, <1>11, <1>12, <1>13,
     <1>14, <1>15, <1>16, <1>17, <1>18, <1>19, <1>20, <1>21
  DEF Next, Starting, Working, Answering

\* Every variable stays within its type, and a request at work has a job.
THEOREM Typing == Spec => []TypeOK
<1>1. Init => TypeOK
  BY DEF Init, TypeOK, RowStatus, NothingSeen, Terminal
<1> QED
  BY <1>1, TypeStep, PTL DEF Spec
-----------------------------------------------------------------------------
(* How rows change.                                                        *)

\* The stages before the row of a job is stored.
EarlyStages == {"idle", "sweeping", "waiting", "replacing"}

NotYetStored == \A j \in Jobs : pc[j] \in EarlyStages => row[j] = "absent"

\* A row that is over changes no more until it is deleted, a stored row stays
\* stored or deleted, and a lapsed lease does not come back to life.
RowsAge ==
    \A j \in Jobs :
        /\ row[j] \in Terminal \cup {"deleted"} => row'[j] \in {row[j], "deleted"}
        /\ row[j] # "absent" => row'[j] # "absent"
        /\ (row[j] # "absent" /\ row'[j] = "running")
              => row[j] = "running" /\ (age[j] # "leased" => age'[j] # "leased")

\* Only a start request that commits stores its row.
RowsAppear ==
    \A j \in Jobs :
        pc'[j] \in EarlyStages
            => pc[j] \in EarlyStages /\ (row[j] = "absent" => row'[j] = "absent")

LEMMA StillStages == UNCHANGED <<row, age, pc>> => RowsAge /\ RowsAppear
BY DEF RowsAge, RowsAppear

\* No row changes, and one job moves to a stage.
LEMMA StageMoves ==
    ASSUME TypeOK, NEW j \in Jobs, NEW stage, pc' = [pc EXCEPT ![j] = stage],
           stage \in EarlyStages => pc[j] \in EarlyStages, UNCHANGED <<row, age>>
    PROVE  RowsAge /\ RowsAppear
BY DEF RowsAge, RowsAppear, TypeOK

\* A running row ends, and its job, if it moves, is past its start.
LEMMA RowEnds ==
    ASSUME TypeOK, NEW j \in Jobs, row[j] = "running", NEW end \in Terminal,
           row' = [row EXCEPT ![j] = end], age' = [age EXCEPT ![j] = "visible"],
           UNCHANGED pc \/ \E stage : stage \notin EarlyStages /\ pc' = [pc EXCEPT ![j] = stage]
    PROVE  RowsAge /\ RowsAppear
BY DEF RowsAge, RowsAppear, TypeOK, Terminal

LEMMA LeaveMoves ==
    ASSUME NEW j \in Jobs, Leave(j)
    PROVE  pc' = [pc EXCEPT ![j] = "ended"] /\ "ended" \notin EarlyStages
BY DEF Leave, Move, EarlyStages

LEMMA RowsStep ==
    ASSUME TypeOK, NotYetStored, [Next]_vars
    PROVE  RowsAge /\ RowsAppear
<1> DEFINE Goal == RowsAge /\ RowsAppear
<1> USE DEF rowVars, workerVars, clientVars
<1>1. ASSUME NEW j \in Jobs, NEW s \in Servers, BeginSweep(j, s) PROVE Goal
  BY <1>1, StageMoves DEF BeginSweep, Move, EarlyStages
<1>2. ASSUME NEW j \in Jobs, Sweep(j) PROVE Goal
  BY <1>2 DEF Sweep, Move, EarlyStages, Stored, RowsAge, RowsAppear, TypeOK
<1>3. ASSUME NEW j \in Jobs, BeginReplace(j) PROVE Goal
  BY <1>3, StageMoves DEF BeginReplace, Move, EarlyStages
<1>4. ASSUME NEW j \in Jobs, Replace(j) PROVE Goal
  BY <1>4 DEF Replace, Move, EarlyStages, RowsAge, RowsAppear, TypeOK, NotYetStored, Terminal
<1>5. ASSUME NEW j \in Jobs, Launch(j) PROVE Goal
  BY <1>5, StageMoves DEF Launch, Move, EarlyStages
<1>6. ASSUME NEW j \in Jobs, Observe(j) PROVE Goal
  BY <1>6, StillStages DEF Observe
<1>7. ASSUME NEW j \in Jobs, Decide(j) PROVE Goal
  BY <1>7, StageMoves DEF Decide, Move, EarlyStages
<1>8. ASSUME NEW j \in Jobs, Stop(j) \/ Record(j) \/ StartFails(j) PROVE Goal
  BY <1>8, StageMoves, LeaveMoves DEF Stop, Record, StartFails
<1>9. ASSUME NEW j \in Jobs, Finish(j) \/ FinishFails(j) PROVE Goal
  <2>1. outcome[j] \in Terminal
    BY DEF TypeOK, Terminal
  <2>2. \E stage : stage \notin EarlyStages /\ pc' = [pc EXCEPT ![j] = stage]
    BY <1>9, LeaveMoves DEF Finish, FinishFails, Move, EarlyStages
  <2>3. CASE UNCHANGED <<row, age>>
    BY <2>2, <2>3, StageMoves
  <2>4. CASE row[j] = "running" /\ row' = [row EXCEPT ![j] = outcome[j]]
             /\ age' = [age EXCEPT ![j] = "visible"]
    BY <2>1, <2>2, <2>4, RowEnds
  <2> QED
    BY <1>9, <2>3, <2>4 DEF Finish, FinishFails, Active
<1>10. ASSUME NEW j \in Jobs, Monitor(j) \/ MonitorFails(j) PROVE Goal
  BY <1>10, StillStages DEF Monitor, MonitorFails, Abort
<1>11. ASSUME NEW j \in Jobs, Lapse(j) \/ Expire(j) PROVE Goal
  BY <1>11 DEF Lapse, Expire, RowsAge, RowsAppear, TypeOK
<1>12. ASSUME NEW s \in Servers, Crash(s) PROVE Goal
  BY <1>12 DEF Crash, RowsAge, RowsAppear, TypeOK, EarlyStages
<1>13. ASSUME NEW j \in Jobs, NEW c \in Clients, Get(c, j) \/ Cancel(c, j) PROVE Goal
  BY <1>13, StillStages DEF Get, Cancel
<1>14. ASSUME NEW c \in Clients, FailExpiredLease(c) PROVE Goal
  <2>1. target[c] \in Jobs
    BY <1>14 DEF FailExpiredLease, Visit, TypeOK
  <2> QED
    BY <1>14, <2>1, StillStages, RowEnds DEF FailExpiredLease, Visit, Terminal
<1>15. ASSUME NEW c \in Clients, RequestCancel(c) PROVE Goal
  <2>1. target[c] \in Jobs
    BY <1>15 DEF RequestCancel, TypeOK
  <2> QED
    BY <1>15, <2>1, StillStages, RowEnds DEF RequestCancel, Terminal
<1>16. ASSUME NEW c \in Clients, RecordHeard(c) \/ Drop(c) PROVE Goal
  BY <1>16, StillStages DEF RecordHeard, Drop
<1>17. CASE UNCHANGED vars
  BY <1>17, StillStages DEF vars
<1> QED
  BY <1>1, <1>2, <1>3, <1>4, <1>5, <1>6, <1>7, <1>8, <1>9, <1>10, <1>11, <1>12, <1>13,
     <1>14, <1>15, <1>16, <1>17
  DEF Next, Starting, Working, Answering

\* A job has no row before its start request commits.
THEOREM RowsWait == Spec => []NotYetStored
<1>1. Init => NotYetStored
  BY DEF Init, NotYetStored
<1>2. TypeOK /\ NotYetStored /\ [Next]_vars => NotYetStored'
  BY RowsStep DEF NotYetStored, RowsAppear
<1> QED
  BY <1>1, <1>2, Typing, PTL DEF Spec
-----------------------------------------------------------------------------
(* What is about to be recorded is what the row tells.                     *)

\* A request that reads back a status reads one that ended the job, because
\* the lease it found lapsed stays lapsed.
RequestsAgree ==
    \A c \in Clients :
        /\ client[c] = "recording"
              => heard[c] \in Terminal /\ row[target[c]] \in {heard[c], "deleted"}
        /\ client[c] = "failing"
              => /\ row[target[c]] # "absent"
                 /\ row[target[c]] = "running" => age[target[c]] # "leased"

WorkersAgree ==
    \A j \in Jobs : pc[j] = "recording" => row[j] \in {outcome[j], "deleted"}

\* A worker begins to record with the write of its outcome.
RecordingBegins ==
    \A j \in Jobs :
        pc'[j] = "recording"
            => (pc[j] = "recording" /\ outcome'[j] = outcome[j]) \/ row'[j] = outcome'[j]

\* A request begins to record with the read of an end.
RequestsBegin ==
    \A c \in Clients :
        /\ client'[c] = "recording"
              => \/ client[c] = "recording" /\ target'[c] = target[c] /\ heard'[c] = heard[c]
                 \/ heard'[c] \in Terminal /\ row'[target'[c]] \in {heard'[c], "deleted"}
        /\ client'[c] = "failing"
              => \/ client[c] = "failing" /\ target'[c] = target[c]
                 \/ row'[target'[c]] = "running" /\ age'[target'[c]] # "leased"

LEMMA WorkersStay == UNCHANGED <<pc, outcome>> => RecordingBegins
BY DEF RecordingBegins

LEMMA WorkerMoves ==
    ASSUME TypeOK, NEW j \in Jobs, NEW stage, stage # "recording",
           pc' = [pc EXCEPT ![j] = stage],
           UNCHANGED outcome \/ \E end : outcome' = [outcome EXCEPT ![j] = end]
    PROVE  RecordingBegins
BY DEF RecordingBegins, TypeOK

LEMMA WorkerLeaves ==
    ASSUME TypeOK, NEW j \in Jobs, Leave(j)
    PROVE  RecordingBegins
BY WorkerMoves DEF Leave, Move

LEMMA RecordingStep ==
    ASSUME TypeOK, [Next]_vars
    PROVE  RecordingBegins
<1> USE DEF rowVars, workerVars, clientVars
<1>1. ASSUME NEW j \in Jobs, NEW s \in Servers, BeginSweep(j, s) PROVE RecordingBegins
  BY <1>1, WorkerMoves DEF BeginSweep, Move
<1>2. ASSUME NEW j \in Jobs, Sweep(j) \/ BeginReplace(j) \/ Replace(j) \/ Launch(j)
      PROVE RecordingBegins
  BY <1>2, WorkerMoves DEF Sweep, BeginReplace, Replace, Launch, Move
<1>3. ASSUME NEW j \in Jobs, Decide(j) PROVE RecordingBegins
  BY <1>3, WorkerMoves DEF Decide, Move
<1>4. ASSUME NEW j \in Jobs, Stop(j) \/ Record(j) \/ StartFails(j) PROVE RecordingBegins
  BY <1>4, WorkerLeaves DEF Stop, Record, StartFails
<1>5. ASSUME NEW j \in Jobs, Finish(j) PROVE RecordingBegins
  <2>1. CASE Active(j)
    BY <1>5, <2>1 DEF Finish, Move, RecordingBegins, TypeOK
  <2> QED
    BY <1>5, <2>1, WorkerLeaves DEF Finish
<1>6. ASSUME NEW j \in Jobs, FinishFails(j) PROVE RecordingBegins
  BY <1>6, WorkerMoves, WorkerLeaves DEF FinishFails, Move
<1>7. ASSUME NEW j \in Jobs,
             Observe(j) \/ Monitor(j) \/ MonitorFails(j) \/ Lapse(j) \/ Expire(j)
      PROVE RecordingBegins
  BY <1>7, WorkersStay DEF Observe, Monitor, MonitorFails, Abort, Lapse, Expire
<1>8. ASSUME NEW s \in Servers, Crash(s) PROVE RecordingBegins
  BY <1>8 DEF Crash, RecordingBegins, TypeOK
<1>9. ASSUME NEW j \in Jobs, NEW c \in Clients, Get(c, j) \/ Cancel(c, j)
      PROVE RecordingBegins
  BY <1>9, WorkersStay DEF Get, Cancel
<1>10. ASSUME NEW c \in Clients,
              FailExpiredLease(c) \/ RequestCancel(c) \/ RecordHeard(c) \/ Drop(c)
       PROVE RecordingBegins
  BY <1>10, WorkersStay DEF FailExpiredLease, Visit, RequestCancel, RecordHeard, Drop
<1>11. CASE UNCHANGED vars
  BY <1>11, WorkersStay DEF vars
<1> QED
  BY <1>1, <1>2, <1>3, <1>4, <1>5, <1>6, <1>7, <1>8, <1>9, <1>10, <1>11
  DEF Next, Starting, Working, Answering

LEMMA RequestsStay == UNCHANGED clientVars => RequestsBegin
BY DEF RequestsBegin, clientVars

LEMMA RequestAnswers ==
    ASSUME TypeOK, NEW c \in Clients, Answer(c)
    PROVE  RequestsBegin
BY DEF RequestsBegin, Answer, TypeOK

LEMMA RequestHears ==
    ASSUME TypeOK, NEW c \in Clients, NEW end \in Terminal,
           client' = [client EXCEPT ![c] = "recording"],
           heard' = [heard EXCEPT ![c] = end], UNCHANGED target, row'[target[c]] = end
    PROVE  RequestsBegin
BY DEF RequestsBegin, TypeOK

LEMMA RequestsStep ==
    ASSUME TypeOK, RequestsAgree, [Next]_vars
    PROVE  RequestsBegin
<1>1. CASE UNCHANGED clientVars
  BY <1>1, RequestsStay
<1>2. ASSUME NEW j \in Jobs, NEW c \in Clients, Get(c, j) \/ Cancel(c, j)
      PROVE RequestsBegin
  BY <1>2 DEF Get, Cancel, Ask, RequestsBegin, TypeOK, rowVars
<1>3. ASSUME NEW c \in Clients, FailExpiredLease(c) PROVE RequestsBegin
  <2>1. target[c] \in Jobs /\ client[c] = "failing"
    BY <1>3 DEF FailExpiredLease, Visit, TypeOK
  <2>2. CASE Stored(target[c])
    <3>1. row'[target[c]] \in Terminal
      BY <1>3, <2>1, <2>2
      DEF FailExpiredLease, Visit, Stored, TypeOK, RowStatus, Terminal, RequestsAgree
    <3> QED
      BY <1>3, <2>1, <2>2, <3>1, RequestHears DEF FailExpiredLease, Visit
  <2> QED
    BY <1>3, <2>2, RequestAnswers DEF FailExpiredLease, Visit
<1>4. ASSUME NEW c \in Clients, RequestCancel(c) PROVE RequestsBegin
  BY <1>4, RequestHears, RequestAnswers DEF RequestCancel, Terminal
<1>5. ASSUME NEW c \in Clients, RecordHeard(c) \/ Drop(c) PROVE RequestsBegin
  BY <1>5, RequestAnswers DEF RecordHeard, Drop
<1>6. ASSUME NEW j \in Jobs,
             \/ \E s \in Servers : BeginSweep(j, s)
             \/ Starting(j) \/ Working(j) \/ StartFails(j)
             \/ Monitor(j) \/ MonitorFails(j) \/ Lapse(j) \/ Expire(j)
      PROVE UNCHANGED clientVars
  BY <1>6
  DEF BeginSweep, Starting, Sweep, BeginReplace, Replace, Launch, Working, Observe, Decide,
      Stop, Finish, FinishFails, Record, StartFails, Monitor, MonitorFails, Abort, Lapse,
      Expire, clientVars
<1>8. ASSUME NEW s \in Servers, Crash(s) PROVE UNCHANGED clientVars
  BY <1>8 DEF Crash, clientVars
<1>7. CASE UNCHANGED vars
  BY <1>7, <1>1 DEF vars, clientVars
<1> QED
  BY <1>1, <1>2, <1>3, <1>4, <1>5, <1>6, <1>7, <1>8 DEF Next, Answering

\* A recorded end stays the end of the job: no step of another actor changes the
\* row between the write, or the read, of the end and its recording.
THEOREM Recording == Spec => []RecordersAgree
<1>1. Init => RequestsAgree /\ WorkersAgree
  BY DEF Init, RequestsAgree, WorkersAgree
<1>2. TypeOK /\ NotYetStored /\ RequestsAgree /\ WorkersAgree /\ [Next]_vars
        => RequestsAgree' /\ WorkersAgree'
  <2> SUFFICES ASSUME TypeOK, NotYetStored, RequestsAgree, WorkersAgree, [Next]_vars
               PROVE  RequestsAgree' /\ WorkersAgree'
    OBVIOUS
  <2>1. RowsAge /\ TypeOK'
    <3>1. TypeOK'
      BY TypeStep
    <3> QED
      BY <3>1, RowsStep
  <2>2. RequestsAgree'
    <3> SUFFICES ASSUME NEW c \in Clients
                 PROVE  /\ client'[c] = "recording"
                              => heard'[c] \in Terminal
                                 /\ row'[target'[c]] \in {heard'[c], "deleted"}
                        /\ client'[c] = "failing"
                              => /\ row'[target'[c]] # "absent"
                                 /\ row'[target'[c]] = "running" => age'[target'[c]] # "leased"
      BY DEF RequestsAgree
    <3>1. client[c] # "idle" => target[c] \in Jobs
      BY DEF TypeOK
    <3> QED
      BY <2>1, <3>1, RequestsStep DEF RequestsAgree, RequestsBegin, RowsAge
  <2>3. WorkersAgree'
    <3> SUFFICES ASSUME NEW j \in Jobs, pc'[j] = "recording"
                 PROVE  row'[j] \in {outcome'[j], "deleted"}
      BY DEF WorkersAgree
    <3>1. outcome[j] \in Terminal
      BY DEF TypeOK, Terminal
    <3> QED
      BY <2>1, <3>1, RecordingStep DEF WorkersAgree, RecordingBegins, RowsAge
  <2> QED
    BY <2>2, <2>3
<1>3. RequestsAgree /\ WorkersAgree => RecordersAgree
  BY DEF RequestsAgree, WorkersAgree, RecordersAgree
<1> QED
  BY <1>1, <1>2, <1>3, Typing, RowsWait, PTL DEF Spec

-----------------------------------------------------------------------------
(* SearchJobs implements SearchLifecycle.                                  *)

\* The owner sees one search end.
LEMMA EndStep ==
    ASSUME NEW j \in Jobs, row[j] = "running", NEW end \in Terminal,
           row' = [row EXCEPT ![j] = end], UNCHANGED saved
    PROVE  Lifecycle!LifecycleNext
BY DEF Lifecycle!LifecycleNext, Lifecycle!End, Terminal

LEMMA RowStill == UNCHANGED <<row, saved>> => [Lifecycle!LifecycleNext]_(Lifecycle!lifecycleVars)
BY DEF Lifecycle!lifecycleVars

\* Whatever the servers, the clients and the time do, the owner sees searches
\* start, show candidates, end and go as SearchLifecycle says.
THEOREM Refinement == Spec => LifecyclePromise
<1>1. Init => Lifecycle!LifecycleInit
  BY DEF Init, Lifecycle!LifecycleInit
<1>2. TypeOK /\ NotYetStored /\ [Next]_vars
        => [Lifecycle!LifecycleNext]_(Lifecycle!lifecycleVars)
  <2> SUFFICES ASSUME TypeOK, NotYetStored, [Next]_vars
               PROVE  [Lifecycle!LifecycleNext]_(Lifecycle!lifecycleVars)
    OBVIOUS
  <2> DEFINE Goal == [Lifecycle!LifecycleNext]_(Lifecycle!lifecycleVars)
  <2> USE DEF rowVars
  <2>1. ASSUME NEW j \in Jobs, Sweep(j) PROVE Goal
    <3> DEFINE gone == {k \in snapshot[j].expired : Stored(k) /\ age[k] = "expired"}
    <3>1. gone \in SUBSET Jobs
      BY DEF TypeOK
    <3>2. Lifecycle!Delete(gone)
      BY <2>1, <3>1 DEF Sweep, Stored, Lifecycle!Delete
    <3> QED
      BY <3>1, <3>2 DEF Lifecycle!LifecycleNext
  <2>2. ASSUME NEW j \in Jobs, Replace(j) PROVE Goal
    <3>1. row[j] = "absent"
      BY <2>2 DEF Replace, NotYetStored, EarlyStages
    <3>2. Lifecycle!Replace(j)
      BY <2>2, <3>1 DEF Replace, Lifecycle!Replace
    <3> QED
      BY <3>2 DEF Lifecycle!LifecycleNext
  <2>3. ASSUME NEW j \in Jobs, Observe(j) PROVE Goal
    BY <2>3, RowStill DEF Observe, Active, Lifecycle!Show, Lifecycle!LifecycleNext
  <2>4. ASSUME NEW j \in Jobs, Finish(j) \/ FinishFails(j) PROVE Goal
    <3>1. outcome[j] \in Terminal
      BY DEF TypeOK, Terminal
    <3> QED
      BY <2>4, <3>1, EndStep, RowStill DEF Finish, FinishFails, Active
  <2>5. ASSUME NEW c \in Clients, FailExpiredLease(c) \/ RequestCancel(c) PROVE Goal
    <3>1. target[c] \in Jobs
      BY <2>5 DEF FailExpiredLease, Visit, RequestCancel, TypeOK
    <3> QED
      BY <2>5, <3>1, EndStep, RowStill DEF FailExpiredLease, Visit, RequestCancel, Terminal
  <2>6. ASSUME NEW j \in Jobs,
               \/ \E s \in Servers : BeginSweep(j, s)
               \/ BeginReplace(j) \/ Launch(j) \/ Decide(j) \/ Stop(j) \/ Record(j)
               \/ StartFails(j) \/ Monitor(j) \/ MonitorFails(j) \/ Lapse(j) \/ Expire(j)
               \/ \E c \in Clients : Get(c, j) \/ Cancel(c, j)
        PROVE Goal
    BY <2>6, RowStill
    DEF BeginSweep, BeginReplace, Launch, Decide, Stop, Record, StartFails, Monitor,
        MonitorFails, Abort, Lapse, Expire, Get, Cancel
  <2>7. ASSUME NEW c \in Clients, RecordHeard(c) \/ Drop(c) PROVE Goal
    BY <2>7, RowStill DEF RecordHeard, Drop
  <2>8. ASSUME NEW s \in Servers, Crash(s) PROVE Goal
    BY <2>8, RowStill DEF Crash
  <2>9. CASE UNCHANGED vars
    BY <2>9, RowStill DEF vars
  <2> QED
    BY <2>1, <2>2, <2>3, <2>4, <2>5, <2>6, <2>7, <2>8, <2>9
    DEF Next, Starting, Working, Answering
<1> QED
  BY <1>1, <1>2, Typing, RowsWait, PTL
  DEF Spec, LifecyclePromise, Lifecycle!LifecycleSpec

-----------------------------------------------------------------------------
(* Sums over finite sets.                                                  *)

\* The sum of amounts over a finite set is a fold: a function on the subsets of the
\* set that takes one member after the other, as CHOOSE picks them.  That there is
\* such a function, and only one, is shown by a subset that is wrong and has no wrong
\* subset.
Picked(S) == CHOOSE x \in S : TRUE

SumStep(g, f, A) == [s \in SUBSET A |-> IF s = {} THEN 0 ELSE f[Picked(s)] + g[s \ {Picked(s)}]]

Sums(f, A) == CHOOSE g : g = SumStep(g, f, A)

LEMMA SumIsOfSums ==
    ASSUME NEW f, NEW A
    PROVE  SumFunctionOnSet(f, A) = Sums(f, A)[A]
BY DEF SumFunctionOnSet, FoldFunctionOnSet, MapThenFoldSet, Sums, SumStep, Picked

LEMMA PickedIsIn ==
    ASSUME NEW S, S # {}
    PROVE  Picked(S) \in S
BY DEF Picked

\* Of the finite subsets of a set that are wrong in some way one has no wrong subset.
LEMMA LeastIsThere ==
    ASSUME NEW S, IsFiniteSet(S), NEW Wrong \in SUBSET (SUBSET S), Wrong # {}
    PROVE  \E W \in Wrong : \A s \in SUBSET W : s # W => s \notin Wrong
<1>1. Wrong \subseteq FiniteSubsetsOf(S)
  BY FS_Subset DEF FiniteSubsetsOf
<1>2. IsWellFoundedOn(StrictSubsetOrdering(S), FiniteSubsetsOf(S))
  BY FS_StrictSubsetOrderingWellFounded
<1>3. PICK W \in Wrong : \A s \in Wrong : <<s, W>> \notin StrictSubsetOrdering(S)
  BY <1>1, <1>2, WFMin
<1>4. ASSUME NEW s \in SUBSET W, s # W PROVE s \notin Wrong
  BY <1>3, <1>4 DEF StrictSubsetOrdering
<1> QED
  BY <1>4

\* The equation of sums has one solution at most, whatever the set it is of.
LEMMA SumsAgree ==
    ASSUME NEW f, NEW A, NEW B \in SUBSET A, IsFiniteSet(B),
           NEW g, g = SumStep(g, f, A), NEW h, h = SumStep(h, f, B)
    PROVE  \A s \in SUBSET B : g[s] = h[s]
<1> DEFINE Wrong == {s \in SUBSET B : g[s] # h[s]}
<1> SUFFICES ASSUME Wrong # {} PROVE FALSE
  OBVIOUS
<1>1. PICK W \in Wrong : \A s \in SUBSET W : s # W => s \notin Wrong
  <2> Wrong \in SUBSET (SUBSET B)
    OBVIOUS
  <2> HIDE DEF Wrong
  <2> QED
    BY LeastIsThere
<1>2. \A s \in SUBSET B :
          /\ g[s] = IF s = {} THEN 0 ELSE f[Picked(s)] + g[s \ {Picked(s)}]
          /\ h[s] = IF s = {} THEN 0 ELSE f[Picked(s)] + h[s \ {Picked(s)}]
  BY DEF SumStep
<1>3. W # {}
  BY <1>2
<1>4. W \ {Picked(W)} \in SUBSET W /\ W \ {Picked(W)} # W
  BY <1>3, PickedIsIn
<1> QED
  BY <1>1, <1>2, <1>3, <1>4

\* The equation of sums has a solution.
LEMMA SumsAreSums ==
    ASSUME NEW f, NEW S, IsFiniteSet(S)
    PROVE  Sums(f, S) = SumStep(Sums(f, S), f, S)
<1> DEFINE Good(A) == \E g : g = SumStep(g, f, A)
           Wrong == {A \in SUBSET S : ~Good(A)}
<1> SUFFICES ASSUME Wrong # {} PROVE FALSE
  BY DEF Sums
<1>1. PICK W \in Wrong : \A s \in SUBSET W : s # W => s \notin Wrong
  <2> Wrong \in SUBSET (SUBSET S)
    OBVIOUS
  <2> HIDE DEF Wrong
  <2> QED
    BY LeastIsThere
<1> DEFINE value(s) == Sums(f, s)[s]
           g == [s \in SUBSET W |-> IF s = {} THEN 0 ELSE f[Picked(s)] + value(s \ {Picked(s)})]
<1>2. ASSUME NEW s \in SUBSET W, s # W
      PROVE  /\ Sums(f, s) = SumStep(Sums(f, s), f, s)
             /\ IsFiniteSet(s)
  <2>1. Good(s) /\ IsFiniteSet(S) /\ s \in SUBSET S
    BY <1>1, <1>2
  <2> QED
    BY <2>1, FS_Subset DEF Sums
<1>3. ASSUME NEW s \in SUBSET W, s # W, s # {}
      PROVE  value(s) = f[Picked(s)] + value(s \ {Picked(s)})
  <2> DEFINE t == s \ {Picked(s)}
  <2>1. t \in SUBSET s /\ t \in SUBSET W /\ t # W
    BY <1>3, PickedIsIn
  <2>2. Sums(f, s)[t] = Sums(f, t)[t]
    <3>1. Sums(f, s) = SumStep(Sums(f, s), f, s) /\ Sums(f, t) = SumStep(Sums(f, t), f, t)
          /\ IsFiniteSet(t)
      BY <1>2, <1>3, <2>1
    <3> HIDE DEF t
    <3> QED
      BY <2>1, <3>1, SumsAgree
  <2>3. Sums(f, s) = SumStep(Sums(f, s), f, s)
    BY <1>2, <1>3
  <2>4. SumStep(Sums(f, s), f, s)[s] = f[Picked(s)] + Sums(f, s)[s \ {Picked(s)}]
    BY <1>3 DEF SumStep
  <2> QED
    BY <2>2, <2>3, <2>4
<1>4. value({}) = 0
  <2>1. CASE W = {}
    <3>1. PICK h : h = [s \in SUBSET {} |-> 0]
      OBVIOUS
    <3>2. h = SumStep(h, f, {})
      BY <3>1 DEF SumStep
    <3> QED
      BY <1>1, <2>1, <3>2
  <2>2. CASE W # {}
    <3>1. Sums(f, {}) = SumStep(Sums(f, {}), f, {})
      BY <1>2, <2>2
    <3>2. SumStep(Sums(f, {}), f, {})[{}] = 0
      BY DEF SumStep
    <3> QED
      BY <3>1, <3>2
  <2> QED
    BY <2>1, <2>2
<1>5. ASSUME NEW s \in SUBSET W, s # {}
      PROVE  g[s \ {Picked(s)}] = value(s \ {Picked(s)})
  <2> DEFINE t == s \ {Picked(s)}
  <2>1. t \in SUBSET W /\ t # W
    BY <1>5, PickedIsIn
  <2>2. t # {} => value(t) = f[Picked(t)] + value(t \ {Picked(t)})
    BY <1>3, <2>1
  <2> HIDE DEF t, value
  <2>3. g[t] = value(t)
    BY <1>4, <2>1, <2>2
  <2> QED
    BY <2>3 DEF t
<1>6. g = SumStep(g, f, W)
  <2> HIDE DEF value
  <2> QED
    BY <1>5 DEF SumStep
<1> QED
  BY <1>1, <1>6

LEMMA SumOfNone ==
    ASSUME NEW f
    PROVE  SumFunctionOnSet(f, {}) = 0
<1>1. Sums(f, {}) = SumStep(Sums(f, {}), f, {})
  BY SumsAreSums, FS_EmptySet
<1>2. SumStep(Sums(f, {}), f, {})[{}] = 0
  BY DEF SumStep
<1> QED
  BY <1>1, <1>2, SumIsOfSums

LEMMA SumOfPicked ==
    ASSUME NEW f, NEW S, IsFiniteSet(S), S # {}
    PROVE  SumFunctionOnSet(f, S) = f[Picked(S)] + SumFunctionOnSet(f, S \ {Picked(S)})
<1> DEFINE T == S \ {Picked(S)}
<1>1. T \in SUBSET S /\ IsFiniteSet(T)
  BY FS_Subset
<1>2. Sums(f, S) = SumStep(Sums(f, S), f, S) /\ Sums(f, T) = SumStep(Sums(f, T), f, T)
  BY <1>1, SumsAreSums
<1>3. Sums(f, S)[T] = Sums(f, T)[T]
  <2> HIDE DEF T
  <2> QED
    BY <1>1, <1>2, SumsAgree
<1>4. SumStep(Sums(f, S), f, S)[S] = f[Picked(S)] + Sums(f, S)[T]
  BY DEF SumStep
<1> QED
  BY <1>2, <1>3, <1>4, SumIsOfSums

LEMMA SumIsNatural ==
    ASSUME NEW S, IsFiniteSet(S), NEW f, \A x \in S : f[x] \in Nat
    PROVE  SumFunctionOnSet(f, S) \in Nat
<1> DEFINE Wrong == {s \in SUBSET S : SumFunctionOnSet(f, s) \notin Nat}
<1> SUFFICES ASSUME Wrong # {} PROVE FALSE
  OBVIOUS
<1>1. PICK W \in Wrong : \A s \in SUBSET W : s # W => s \notin Wrong
  <2> Wrong \in SUBSET (SUBSET S)
    OBVIOUS
  <2> HIDE DEF Wrong
  <2> QED
    BY LeastIsThere
<1>2. W # {} /\ IsFiniteSet(W)
  <2>1. SumFunctionOnSet(f, W) \notin Nat
    BY <1>1
  <2>2. SumFunctionOnSet(f, {}) = 0
    BY SumOfNone
  <2>3. IsFiniteSet(W)
    BY FS_Subset
  <2> QED
    BY <2>1, <2>2, <2>3
<1>3. SumFunctionOnSet(f, W) = f[Picked(W)] + SumFunctionOnSet(f, W \ {Picked(W)})
  BY <1>2, SumOfPicked
<1>4. Picked(W) \in W
  BY <1>2, PickedIsIn
<1>5. W \ {Picked(W)} \in SUBSET W /\ W \ {Picked(W)} # W
  BY <1>4
<1> QED
  BY <1>1, <1>3, <1>4, <1>5

\* A sum is the same in whatever order it is taken.
LEMMA SumOfOneMore ==
    ASSUME NEW S, IsFiniteSet(S), NEW f, \A x \in S : f[x] \in Nat, NEW c \in S
    PROVE  SumFunctionOnSet(f, S) = f[c] + SumFunctionOnSet(f, S \ {c})
<1> DEFINE Total(s) == SumFunctionOnSet(f, s)
           Wrong == {s \in SUBSET S : \E x \in s : Total(s) # f[x] + Total(s \ {x})}
<1>a. \A s \in SUBSET S : IsFiniteSet(s) /\ Total(s) \in Nat
  BY SumIsNatural, FS_Subset
<1>b. \A s \in SUBSET S : s # {} => Picked(s) \in s /\ Total(s) = f[Picked(s)] + Total(s \ {Picked(s)})
  BY <1>a, SumOfPicked, PickedIsIn
<1> HIDE DEF Total
<1> SUFFICES ASSUME Wrong # {} PROVE FALSE
  BY DEF Total
<1>1. PICK W \in Wrong : \A s \in SUBSET W : s # W => s \notin Wrong
  <2> Wrong \in SUBSET (SUBSET S)
    OBVIOUS
  <2> HIDE DEF Wrong
  <2> QED
    BY LeastIsThere
<1>2. PICK x \in W : Total(W) # f[x] + Total(W \ {x})
  BY <1>1
<1> DEFINE y == Picked(W)
<1>3. y \in W /\ y # x /\ Total(W) = f[y] + Total(W \ {y})
  BY <1>b, <1>2
<1> HIDE DEF y
<1>4. Total(W \ {y}) = f[x] + Total((W \ {y}) \ {x})
  BY <1>1, <1>2, <1>3
<1>5. Total(W \ {x}) = f[y] + Total((W \ {x}) \ {y})
  BY <1>1, <1>2, <1>3
<1> DEFINE rest == Total((W \ {x}) \ {y})
<1>6. (W \ {y}) \ {x} = (W \ {x}) \ {y}
  OBVIOUS
<1>7. f[x] \in Nat /\ f[y] \in Nat /\ rest \in Nat
  BY <1>a, <1>2, <1>3
<1>8. Total(W) = f[y] + (f[x] + rest) /\ Total(W \ {x}) = f[y] + rest
  BY <1>3, <1>4, <1>5, <1>6
<1> HIDE DEF rest, Wrong
<1> QED
  BY <1>2, <1>7, <1>8

\* The sum of more and of greater amounts is greater.
LEMMA SumIsMonotonic ==
    ASSUME NEW T, IsFiniteSet(T), NEW S \in SUBSET T,
           NEW f, \A x \in S : f[x] \in Nat, NEW g, \A x \in T : g[x] \in Nat,
           \A x \in S : f[x] <= g[x]
    PROVE  SumFunctionOnSet(f, S) <= SumFunctionOnSet(g, T)
<1> DEFINE Low(s) == SumFunctionOnSet(f, s)
           High(s) == SumFunctionOnSet(g, s)
           Wrong == {s \in SUBSET T : ~(Low(s \cap S) <= High(s))}
<1>a. ASSUME NEW s \in SUBSET T
      PROVE  /\ IsFiniteSet(s) /\ High(s) \in Nat /\ Low(s \cap S) \in Nat
  <2> IsFiniteSet(s) /\ IsFiniteSet(s \cap S)
    BY FS_Subset
  <2> QED
    BY SumIsNatural
<1>b. \A s \in SUBSET T : \A x \in s : High(s) = g[x] + High(s \ {x})
  BY <1>a, SumOfOneMore
<1>c. \A s \in SUBSET S : \A x \in s : Low(s) = f[x] + Low(s \ {x})
  BY <1>a, SumOfOneMore, FS_Subset
<1>d. Low({}) = 0
  BY SumOfNone
<1> SUFFICES ASSUME Wrong # {} PROVE FALSE
  <2> T \cap S = S
    OBVIOUS
  <2> QED
    OBVIOUS
<1> HIDE DEF Low, High
<1>1. PICK W \in Wrong : \A s \in SUBSET W : s # W => s \notin Wrong
  <2> Wrong \in SUBSET (SUBSET T)
    OBVIOUS
  <2> HIDE DEF Wrong
  <2> QED
    BY LeastIsThere
<1>2. PICK x \in W : TRUE
  <2> SUFFICES ASSUME W = {} PROVE FALSE
    OBVIOUS
  <2> {} \cap S = {} /\ High({}) \in Nat
    BY <1>a
  <2> QED
    BY <1>1, <1>d
<1>3. Low((W \ {x}) \cap S) <= High(W \ {x})
  BY <1>1, <1>2
<1>4. High(W) = g[x] + High(W \ {x}) /\ g[x] \in Nat /\ High(W \ {x}) \in Nat
      /\ Low((W \ {x}) \cap S) \in Nat
  BY <1>a, <1>b, <1>2
<1>5. ~(Low(W \cap S) <= High(W))
  BY <1>1
<1>6. CASE x \in S
  <2>1. (W \cap S) \ {x} = (W \ {x}) \cap S
    OBVIOUS
  <2>2. Low(W \cap S) = f[x] + Low((W \ {x}) \cap S)
    BY <1>c, <1>2, <1>6, <2>1
  <2>3. f[x] \in Nat /\ f[x] <= g[x]
    BY <1>6
  <2> QED
    BY <1>3, <1>4, <1>5, <2>2, <2>3
<1>7. CASE x \notin S
  <2>1. W \cap S = (W \ {x}) \cap S
    BY <1>7
  <2> QED
    BY <1>3, <1>4, <1>5, <2>1
<1> QED
  BY <1>6, <1>7

\* A sum of sums.
LEMMA SumOfTwo ==
    ASSUME NEW S, IsFiniteSet(S),
           NEW f, \A x \in S : f[x] \in Nat, NEW g, \A x \in S : g[x] \in Nat,
           NEW h, \A x \in S : h[x] = f[x] + g[x]
    PROVE  SumFunctionOnSet(h, S) = SumFunctionOnSet(f, S) + SumFunctionOnSet(g, S)
<1> DEFINE F(s) == SumFunctionOnSet(f, s)
           G(s) == SumFunctionOnSet(g, s)
           H(s) == SumFunctionOnSet(h, s)
           Wrong == {s \in SUBSET S : H(s) # F(s) + G(s)}
<1>a. \A s \in SUBSET S : IsFiniteSet(s) /\ F(s) \in Nat /\ G(s) \in Nat
  BY SumIsNatural, FS_Subset
<1>b. \A s \in SUBSET S : s # {} =>
          /\ F(s) = f[Picked(s)] + F(s \ {Picked(s)})
          /\ G(s) = g[Picked(s)] + G(s \ {Picked(s)})
          /\ H(s) = h[Picked(s)] + H(s \ {Picked(s)})
  BY <1>a, SumOfPicked
<1>c. F({}) = 0 /\ G({}) = 0 /\ H({}) = 0
  BY SumOfNone
<1> SUFFICES ASSUME Wrong # {} PROVE FALSE
  OBVIOUS
<1> HIDE DEF F, G, H
<1>1. PICK W \in Wrong : \A s \in SUBSET W : s # W => s \notin Wrong
  <2> Wrong \in SUBSET (SUBSET S)
    OBVIOUS
  <2> HIDE DEF Wrong
  <2> QED
    BY LeastIsThere
<1> DEFINE x == Picked(W)
<1>2. H(W) # F(W) + G(W)
  BY <1>1
<1>3. W # {} /\ x \in W
  <2>1. ASSUME W = {} PROVE FALSE
    <3>1. H({}) # F({}) + G({})
      BY <1>2, <2>1
    <3> QED
      BY <1>c, <3>1
  <2> QED
    BY <2>1, PickedIsIn
<1>4. /\ F(W) = f[x] + F(W \ {x}) /\ G(W) = g[x] + G(W \ {x}) /\ H(W) = h[x] + H(W \ {x})
  BY <1>1, <1>b, <1>3
<1> HIDE DEF x
<1>5. H(W \ {x}) = F(W \ {x}) + G(W \ {x})
  BY <1>1, <1>3
<1>6. /\ F(W \ {x}) \in Nat /\ G(W \ {x}) \in Nat /\ f[x] \in Nat /\ g[x] \in Nat
      /\ h[x] = f[x] + g[x]
  BY <1>1, <1>a, <1>3
<1> HIDE DEF Wrong
<1> QED
  BY <1>2, <1>4, <1>5, <1>6

-----------------------------------------------------------------------------
(* The budget: types.                                                      *)

Clocks == [month : 1 .. MaxMonth, tooOld : SUBSET Calls]

LEMMA ClockIsClock ==
    ASSUME clock \in [Calls -> Clocks], NEW c \in Calls, clock' = [clock EXCEPT ![c].tooOld = {}]
    PROVE  clock' \in [Calls -> Clocks] /\ \A k \in Calls : clock'[k].month = clock[k].month
<1> DEFINE seen == [month |-> clock[c].month, tooOld |-> {}]
<1>1. clock[c] \in Clocks
  OBVIOUS
<1>2. [clock[c] EXCEPT !.tooOld = {}] = seen /\ seen \in Clocks
  <2>1. PICK m \in 1 .. MaxMonth, t \in SUBSET Calls : clock[c] = [month |-> m, tooOld |-> t]
    BY <1>1 DEF Clocks
  <2>2. [clock[c] EXCEPT !.tooOld = {}] = [month |-> m, tooOld |-> {}]
    BY <2>1
  <2>3. seen = [month |-> m, tooOld |-> {}]
    BY <2>1
  <2>4. [month |-> m, tooOld |-> {}] \in Clocks
    BY DEF Clocks
  <2> QED
    BY <2>2, <2>3, <2>4
<1>3. clock' = [clock EXCEPT ![c] = [clock[c] EXCEPT !.tooOld = {}]]
  OBVIOUS
<1>4. clock' = [clock EXCEPT ![c] = seen]
  BY <1>2, <1>3
<1>5. seen.month = clock[c].month
  OBVIOUS
<1> HIDE DEF seen
<1> QED
  BY <1>2, <1>4, <1>5

LEMMA BudgetTypeStep == BudgetTypeOK /\ [BudgetNext]_budgetVars => BudgetTypeOK'
<1> SUFFICES ASSUME BudgetTypeOK, [BudgetNext]_budgetVars PROVE BudgetTypeOK'
  OBVIOUS
<1> USE AmountsAreNatural, UnknownIsNoAmount DEF BudgetTypeOK, Amounts, Answers, ledger, provider
<1>1. ASSUME NEW c \in Calls, Estimate(c) PROVE BudgetTypeOK'
  BY <1>1 DEF Estimate, Go
<1>2. ASSUME NEW c \in Calls, Reserve(c) PROVE BudgetTypeOK'
  <2>1. clock' \in [Calls -> [month : 1 .. MaxMonth, tooOld : SUBSET Calls]]
    BY <1>2, ClockIsClock DEF Reserve, Clocks
  <2>2. call' \in [Calls -> {"idle", "reserving", "calling", "answered", "over"}]
    <3>1. Go(c, "calling") \/ Go(c, "over")
      BY <1>2 DEF Reserve
    <3> QED
      BY <3>1 DEF Go
  <2> DEFINE tooOld == {k \in clock[c].tooOld : status[k] = "reserved"}
             closed == [k \in Calls |->
                 IF k = c THEN "reserved" ELSE IF k \in tooOld THEN "failed" ELSE status[k]]
  <2>3. CASE UNCHANGED <<status, old, createdIn>>
    BY <1>2, <2>1, <2>2, <2>3 DEF Reserve
  <2>4. CASE /\ status' = closed
             /\ old' = [k \in Calls |-> old[k] /\ k \notin tooOld]
             /\ createdIn' = [createdIn EXCEPT ![c] = month]
    <3>1. closed \in [Calls -> {"absent", "reserved", "completed", "failed"}]
      OBVIOUS
    <3>2. \A k \in Calls : closed[k] = "completed" => status[k] = "completed"
      OBVIOUS
    <3>3. old' \in [Calls -> BOOLEAN]
      BY <2>4
    <3> HIDE DEF closed
    <3> QED
      BY <1>2, <2>1, <2>2, <2>4, <3>1, <3>2, <3>3 DEF Reserve
  <2> QED
    BY <1>2, <2>3, <2>4 DEF Reserve
<1>3. ASSUME NEW c \in Calls, Respond(c) PROVE BudgetTypeOK'
  BY <1>3 DEF Respond, Go
<1>4. ASSUME NEW c \in Calls, NEW ending \in {"completed", "failed"}, Close(c, ending)
      PROVE  BudgetTypeOK'
  <2>1. ActualCost(c) \in 0 .. MaxCost
    BY DEF ActualCost
  <2> QED
    BY <1>4, <2>1 DEF Close, Go, Forget
<1>5. ASSUME NEW c \in Calls, Lose(c) PROVE BudgetTypeOK'
  <2>1. clock' \in [Calls -> [month : 1 .. MaxMonth, tooOld : SUBSET Calls]]
    BY <1>5, ClockIsClock DEF Lose, Clocks
  <2> QED
    BY <1>5, <2>1 DEF Lose, Go, Forget
<1>6. ASSUME NEW c \in Calls, GrowOld(c) PROVE BudgetTypeOK'
  BY <1>6 DEF GrowOld
<1>7. CASE NextMonth
  BY <1>7 DEF NextMonth
<1>8. CASE UNCHANGED budgetVars
  BY <1>8 DEF budgetVars
<1> QED
  BY <1>1, <1>2, <1>3, <1>4, <1>5, <1>6, <1>7, <1>8 DEF BudgetNext, Complete, Fail

\* Every variable of the ledger and of the calls stays within its type.
THEOREM BudgetTyping == BudgetSpec => []BudgetTypeOK
<1>1. BudgetInit => BudgetTypeOK
  BY AmountsAreNatural DEF BudgetInit, BudgetTypeOK, Amounts, NotAsked
<1> QED
  BY <1>1, BudgetTypeStep, PTL DEF BudgetSpec

-----------------------------------------------------------------------------
(* The budget: what every call keeps.                                      *)

\* A call has no row before it reserved, is paid nothing before it was answered, and
\* writes once what it cost: what the provider is paid, or its estimate at least.
CallsAreSound ==
    \A c \in Calls :
        /\ call[c] \in {"idle", "reserving"} => status[c] = "absent"
        /\ call[c] \in {"calling", "answered"} => status[c] # "absent"
        /\ call[c] \in {"idle", "reserving", "calling"} => paid[c] = 0
        /\ call[c] # "over" => actual[c] = Unknown
        /\ actual[c] # Unknown => paid[c] <= actual[c] \/ estimated[c] <= actual[c]

LEMMA CallsStep == BudgetTypeOK /\ CallsAreSound /\ [BudgetNext]_budgetVars => CallsAreSound'
<1> SUFFICES ASSUME BudgetTypeOK, CallsAreSound, [BudgetNext]_budgetVars PROVE CallsAreSound'
  OBVIOUS
<1> USE AmountsAreNatural, UnknownIsNoAmount
    DEF BudgetTypeOK, CallsAreSound, Amounts, ledger, provider
<1>1. ASSUME NEW c \in Calls, Estimate(c) PROVE CallsAreSound'
  BY <1>1 DEF Estimate, Go
<1>2. ASSUME NEW c \in Calls, Reserve(c) PROVE CallsAreSound'
  BY <1>2 DEF Reserve, Go
<1>3. ASSUME NEW c \in Calls, Respond(c) PROVE CallsAreSound'
  BY <1>3 DEF Respond, Go
<1>4. ASSUME NEW c \in Calls, NEW ending \in {"completed", "failed"}, Close(c, ending),
             call[c] = "answered"
      PROVE  CallsAreSound'
  <2>1. ActualCost(c) \in 0 .. MaxCost
        /\ (paid[c] <= ActualCost(c) \/ estimated[c] <= ActualCost(c))
    BY DEF ActualCost
  <2> QED
    BY <1>4, <2>1 DEF Close, Go, Forget
<1>5. ASSUME NEW c \in Calls, Lose(c) PROVE CallsAreSound'
  BY <1>5 DEF Lose, Go, Forget
<1>6. ASSUME NEW c \in Calls, GrowOld(c) PROVE CallsAreSound'
  BY <1>6 DEF GrowOld
<1>7. CASE NextMonth
  BY <1>7 DEF NextMonth
<1>8. CASE UNCHANGED budgetVars
  BY <1>8 DEF budgetVars
<1> QED
  BY <1>1, <1>2, <1>3, <1>4, <1>5, <1>6, <1>7, <1>8 DEF BudgetNext, Complete, Fail

-----------------------------------------------------------------------------
(* The budget: what the rows of a month count for.                         *)

\* What an amount counts for, up to the estimate.
UpTo(costs) ==
    [c \in Calls |-> IF costs[c] > estimated[c] THEN estimated[c] ELSE costs[c]]

\* Up to their estimates the rows of a month stay within the budget.
Limited == \A m \in 1 .. MaxMonth : SumFunctionOnSet(UpTo(Charges), OwnRows(m)) <= Budget

AmountsAreSound ==
    /\ Charges \in [Calls -> Nat] /\ UpTo(Charges) \in [Calls -> Nat]
    /\ paid \in [Calls -> Nat] /\ UpTo(paid) \in [Calls -> Nat]
    /\ \A c \in Calls : UpTo(Charges)[c] <= Charges[c] /\ UpTo(Charges)[c] <= estimated[c]

LEMMA TypesAreSound == BudgetTypeOK => AmountsAreSound
<1> SUFFICES ASSUME BudgetTypeOK PROVE AmountsAreSound
  OBVIOUS
<1>1. \A c \in Calls : estimated[c] \in Nat /\ (actual[c] \in Nat \/ actual[c] = Unknown)
      /\ paid[c] \in Nat
  BY AmountsAreNatural DEF BudgetTypeOK, Amounts
<1>2. \A c \in Calls : Charges[c] \in Nat
  BY <1>1 DEF Charges, Charge
<1>3. paid \in [Calls -> Nat] /\ Charges \in [Calls -> Nat]
  BY <1>1, <1>2 DEF BudgetTypeOK, Charges
<1> QED
  BY <1>1, <1>2, <1>3 DEF UpTo, AmountsAreSound

LEMMA TypesStaySound == BudgetTypeOK' => AmountsAreSound'
BY TypesAreSound, PTL

\* A month that no row is added to, and whose rows count for no more, stays within it.
LEMMA LimitedStays ==
    ASSUME BudgetTypeOK, BudgetTypeOK', NEW m \in 1 .. MaxMonth,
           SumFunctionOnSet(UpTo(Charges), OwnRows(m)) <= Budget,
           OwnRows(m)' \subseteq OwnRows(m),
           \A c \in OwnRows(m)' : UpTo(Charges)'[c] <= UpTo(Charges)[c]
    PROVE  SumFunctionOnSet(UpTo(Charges)', OwnRows(m)') <= Budget
<1> DEFINE f == UpTo(Charges)'
           g == UpTo(Charges)
           S == OwnRows(m)'
           T == OwnRows(m)
<1>1. S \subseteq T /\ T \subseteq Calls /\ IsFiniteSet(T) /\ IsFiniteSet(S)
  BY CallsAreFinite, FS_Subset DEF OwnRows, Rows
<1>2. f \in [Calls -> Nat] /\ g \in [Calls -> Nat]
  BY TypesAreSound, TypesStaySound DEF AmountsAreSound
<1>3. \A x \in S : f[x] <= g[x]
  OBVIOUS
<1>4. SumFunctionOnSet(g, T) <= Budget
  OBVIOUS
<1> HIDE DEF f, g, S, T
<1>5. SumFunctionOnSet(f, S) <= SumFunctionOnSet(g, T)
  BY <1>1, <1>2, <1>3, SumIsMonotonic
<1>6. SumFunctionOnSet(f, S) \in Nat /\ SumFunctionOnSet(g, T) \in Nat
  BY <1>1, <1>2, SumIsNatural
<1>7. SumFunctionOnSet(f, S) <= Budget
  BY <1>4, <1>5, <1>6, AmountsAreNatural
<1> QED
  BY <1>7 DEF f, S

\* The row that a call reserves is within the budget, too.
LEMMA LimitedByReserve ==
    ASSUME BudgetTypeOK, BudgetTypeOK', CallsAreSound, Limited, NEW c \in Calls, Reserve(c)
    PROVE  Limited'
<1> SUFFICES ASSUME NEW m \in 1 .. MaxMonth
             PROVE  SumFunctionOnSet(UpTo(Charges)', OwnRows(m)') <= Budget
  BY AmountsAreNatural DEF Limited
<1> USE AmountsAreNatural
<1>1. /\ \A k \in Calls : clock'[k].month = clock[k].month
      /\ UNCHANGED <<estimated, actual>> /\ status[c] = "absent"
  BY DEF Reserve, BudgetTypeOK, CallsAreSound
<1>2. \A k \in Calls \ {c} : (status'[k] = status[k] /\ createdIn'[k] = createdIn[k])
          \/ (status[k] = "reserved" /\ status'[k] = "failed" /\ createdIn'[k] = createdIn[k])
  BY DEF Reserve, BudgetTypeOK
<1>3. OwnRows(m)' \ {c} \subseteq OwnRows(m) /\ c \notin OwnRows(m)
  BY <1>1, <1>2 DEF OwnRows, Rows
<1>4. \A k \in Calls \ {c} : UpTo(Charges)'[k] <= UpTo(Charges)[k]
  <2> SUFFICES ASSUME NEW k \in Calls \ {c} PROVE UpTo(Charges)'[k] <= UpTo(Charges)[k]
    OBVIOUS
  <2>1. /\ estimated[k] \in Nat /\ (actual[k] \in Nat \/ actual[k] = Unknown)
        /\ estimated'[k] = estimated[k] /\ actual'[k] = actual[k]
    BY <1>1 DEF BudgetTypeOK, Amounts
  <2> QED
    BY <1>2, <2>1 DEF UpTo, Charges, Charge
<1>5. CASE c \notin OwnRows(m)'
  BY <1>3, <1>4, <1>5, LimitedStays DEF Limited, OwnRows, Rows
<1>6. CASE c \in OwnRows(m)'
  <2> DEFINE f == UpTo(Charges)'
             g == Charges
             S == OwnRows(m)'
             T == Rows(m)
             R == S \ {c}
  <2>1. clock[c].month = m /\ Usage(m) + estimated[c] <= Budget
    <3>1. clock[c].month = m /\ status'[c] # "absent"
      BY <1>1, <1>6 DEF OwnRows, Rows
    <3>2. status' # status
      BY <1>1, <3>1
    <3> QED
      BY <3>1, <3>2 DEF Reserve
  <2>2. R \subseteq T /\ c \in S /\ T \subseteq Calls /\ S \subseteq Calls
    BY <1>3, <1>6 DEF OwnRows, Rows
  <2>3. IsFiniteSet(S) /\ IsFiniteSet(T) /\ IsFiniteSet(R)
    BY <2>2, CallsAreFinite, FS_Subset
  <2>4. f \in [Calls -> Nat] /\ g \in [Calls -> Nat] /\ f[c] <= estimated[c]
        /\ estimated[c] \in Nat
    <3>1. f[c] <= estimated'[c]
      BY TypesStaySound DEF AmountsAreSound
    <3>2. estimated'[c] = estimated[c] /\ estimated[c] \in Nat
      BY <1>1 DEF BudgetTypeOK, Amounts
    <3> QED
      BY <3>1, <3>2, TypesAreSound, TypesStaySound DEF AmountsAreSound
  <2>5. \A k \in R : f[k] <= g[k]
    <3> SUFFICES ASSUME NEW k \in R PROVE f[k] <= g[k]
      OBVIOUS
    <3>1. k \in Calls \ {c}
      BY <2>2
    <3>2. UpTo(Charges)'[k] <= UpTo(Charges)[k] /\ UpTo(Charges)[k] <= Charges[k]
      BY <1>4, <3>1, TypesAreSound, TypesStaySound DEF AmountsAreSound
    <3>3. UpTo(Charges)'[k] \in Nat /\ UpTo(Charges)[k] \in Nat /\ Charges[k] \in Nat
      BY <3>1, TypesAreSound, TypesStaySound DEF AmountsAreSound
    <3> QED
      BY <3>2, <3>3
  <2>6. SumFunctionOnSet(g, T) + estimated[c] <= Budget
    BY <2>1 DEF Usage
  <2> HIDE DEF f, g, S, T
  <2>7. SumFunctionOnSet(f, S) = f[c] + SumFunctionOnSet(f, R)
    BY <2>2, <2>3, <2>4, SumOfOneMore
  <2>8. SumFunctionOnSet(f, R) <= SumFunctionOnSet(g, T)
    BY <2>2, <2>3, <2>4, <2>5, SumIsMonotonic
  <2>9. SumFunctionOnSet(f, R) \in Nat /\ SumFunctionOnSet(g, T) \in Nat /\ f[c] \in Nat
    BY <2>2, <2>3, <2>4, SumIsNatural
  <2>10. SumFunctionOnSet(f, S) <= Budget
    BY <2>4, <2>6, <2>7, <2>8, <2>9
  <2> QED
    BY <2>10 DEF f, S
<1> QED
  BY <1>5, <1>6

LEMMA LimitedStep ==
    BudgetTypeOK /\ BudgetTypeOK' /\ CallsAreSound /\ Limited /\ [BudgetNext]_budgetVars => Limited'
<1> SUFFICES ASSUME BudgetTypeOK, BudgetTypeOK', CallsAreSound, Limited, [BudgetNext]_budgetVars
             PROVE  Limited'
  OBVIOUS
<1>1. ASSUME \A m \in 1 .. MaxMonth : OwnRows(m)' \subseteq OwnRows(m),
             \A c \in Calls : status[c] # "absent" => UpTo(Charges)'[c] <= UpTo(Charges)[c]
      PROVE  Limited'
  <2> SUFFICES ASSUME NEW m \in 1 .. MaxMonth
               PROVE  SumFunctionOnSet(UpTo(Charges)', OwnRows(m)') <= Budget
    BY DEF Limited
  <2>1. \A c \in OwnRows(m)' : UpTo(Charges)'[c] <= UpTo(Charges)[c]
    BY <1>1 DEF OwnRows, Rows
  <2> QED
    BY <1>1, <2>1, LimitedStays DEF Limited
<1>2. ASSUME UNCHANGED <<status, createdIn, clock>> PROVE \A m : OwnRows(m)' = OwnRows(m)
  BY <1>2 DEF OwnRows, Rows
<1>3. ASSUME UNCHANGED <<status, estimated, actual>>
      PROVE  \A c \in Calls : UpTo(Charges)'[c] <= UpTo(Charges)[c]
  <2>1. UpTo(Charges)' = UpTo(Charges)
    BY <1>3 DEF UpTo, Charges, Charge
  <2>2. \A c \in Calls : UpTo(Charges)[c] \in Nat
    BY TypesAreSound, TypesStaySound DEF AmountsAreSound
  <2> QED
    BY <2>1, <2>2
<1>4. ASSUME NEW c \in Calls, Estimate(c) PROVE Limited'
  <2>1. /\ \A k \in Calls \ {c} : estimated'[k] = estimated[k] /\ clock'[k] = clock[k]
        /\ UNCHANGED <<status, actual, createdIn>> /\ status[c] = "absent"
    BY <1>4 DEF Estimate, BudgetTypeOK, CallsAreSound
  <2>2. \A m \in 1 .. MaxMonth : OwnRows(m)' \subseteq OwnRows(m)
    BY <2>1 DEF OwnRows, Rows
  <2>3. \A k \in Calls \ {c} : UpTo(Charges)'[k] <= UpTo(Charges)[k]
    <3> SUFFICES ASSUME NEW k \in Calls \ {c} PROVE UpTo(Charges)'[k] <= UpTo(Charges)[k]
      OBVIOUS
    <3>1. UpTo(Charges)'[k] = UpTo(Charges)[k]
      BY <2>1 DEF UpTo, Charges, Charge
    <3> QED
      BY <3>1, TypesAreSound, TypesStaySound DEF AmountsAreSound
  <2> QED
    BY <1>1, <2>1, <2>2, <2>3
<1>5. ASSUME NEW c \in Calls, Reserve(c) PROVE Limited'
  BY <1>5, LimitedByReserve
<1>6. ASSUME NEW c \in Calls, Respond(c) PROVE Limited'
  BY <1>6, <1>1, <1>2, <1>3 DEF Respond, ledger
<1>7. ASSUME NEW c \in Calls, NEW ending \in {"completed", "failed"}, Close(c, ending),
             call[c] = "answered"
      PROVE  Limited'
  <2>1. /\ \A k \in Calls \ {c} : status'[k] = status[k] /\ actual'[k] = actual[k]
        /\ UNCHANGED <<estimated, createdIn, clock>>
    BY <1>7 DEF Close, BudgetTypeOK
  <2>2. \A m \in 1 .. MaxMonth : OwnRows(m)' \subseteq OwnRows(m)
    <3>1. status[c] # "absent"
      BY <1>7 DEF CallsAreSound
    <3> QED
      BY <2>1, <3>1 DEF OwnRows, Rows
  <2>3. UpTo(Charges)'[c] <= UpTo(Charges)[c]
    <3>1. Charges[c] = estimated[c]
      BY <1>7 DEF Charges, Charge, CallsAreSound
    <3>2. UpTo(Charges)[c] = estimated[c] /\ estimated[c] \in Nat
      BY <3>1, AmountsAreNatural DEF UpTo, BudgetTypeOK, Amounts
    <3>3. UpTo(Charges)'[c] <= estimated'[c]
      BY TypesAreSound, TypesStaySound DEF AmountsAreSound
    <3> QED
      BY <2>1, <3>2, <3>3
  <2>4. \A k \in Calls \ {c} : UpTo(Charges)'[k] <= UpTo(Charges)[k]
    <3> SUFFICES ASSUME NEW k \in Calls \ {c} PROVE UpTo(Charges)'[k] <= UpTo(Charges)[k]
      OBVIOUS
    <3>1. UpTo(Charges)'[k] = UpTo(Charges)[k]
      BY <2>1 DEF UpTo, Charges, Charge
    <3> QED
      BY <3>1, TypesAreSound, TypesStaySound DEF AmountsAreSound
  <2> QED
    BY <1>1, <2>2, <2>3, <2>4
<1>8. ASSUME NEW c \in Calls, Lose(c) PROVE Limited'
  <2>1. \A k \in Calls : clock'[k].month = clock[k].month
    BY <1>8 DEF Lose, BudgetTypeOK
  <2>2. \A m \in 1 .. MaxMonth : OwnRows(m)' \subseteq OwnRows(m)
    BY <1>8, <2>1 DEF Lose, OwnRows, Rows, ledger
  <2> QED
    BY <1>1, <1>3, <1>8, <2>2 DEF Lose, ledger
<1>9. ASSUME NEW c \in Calls, GrowOld(c) PROVE Limited'
  BY <1>9, <1>1, <1>2, <1>3 DEF GrowOld, ledger
<1>10. CASE NextMonth
  BY <1>10, <1>1, <1>2, <1>3 DEF NextMonth, ledger
<1>11. CASE UNCHANGED budgetVars
  BY <1>11, <1>1, <1>2, <1>3 DEF budgetVars
<1> QED
  BY <1>4, <1>5, <1>6, <1>7, <1>8, <1>9, <1>10, <1>11 DEF BudgetNext, Complete, Fail

-----------------------------------------------------------------------------
(* The budget is kept.                                                     *)

BudgetSound == BudgetTypeOK /\ CallsAreSound /\ Limited

LEMMA BudgetSoundFirst == BudgetInit => BudgetSound
<1> SUFFICES ASSUME BudgetInit PROVE BudgetSound
  OBVIOUS
<1>1. BudgetTypeOK
  BY AmountsAreNatural DEF BudgetInit, BudgetTypeOK, Amounts, NotAsked
<1>2. CallsAreSound
  BY DEF BudgetInit, CallsAreSound
<1>3. \A m : OwnRows(m) = {}
  BY DEF BudgetInit, OwnRows, Rows
<1>4. Limited
  BY <1>3, SumOfNone, AmountsAreNatural DEF Limited
<1> QED
  BY <1>1, <1>2, <1>4 DEF BudgetSound

\* A month stays within the budget but for what its calls cost above their estimates,
\* if costs are counted that are, up to the estimates, no more than the ledger has.
LEMMA MonthIsKept ==
    ASSUME BudgetTypeOK, Limited, NEW m \in 1 .. MaxMonth, NEW costs \in [Calls -> Nat],
           UpTo(costs) \in [Calls -> Nat],
           \A c \in Calls : UpTo(costs)[c] <= UpTo(Charges)[c]
    PROVE  Kept(m, costs)
<1> DEFINE S == OwnRows(m)
           f == UpTo(costs)
           g == UpTo(Charges)
           h == Excess(costs)
<1>1. S \subseteq Calls /\ IsFiniteSet(S)
  BY CallsAreFinite, FS_Subset DEF OwnRows, Rows
<1>2. f \in [Calls -> Nat] /\ g \in [Calls -> Nat] /\ \A c \in Calls : f[c] <= g[c]
  BY TypesAreSound DEF AmountsAreSound
<1>3. /\ h \in [Calls -> Nat]
      /\ \A c \in Calls : costs[c] = f[c] + h[c]
  <2>1. \A c \in Calls : estimated[c] \in Nat /\ costs[c] \in Nat
    BY AmountsAreNatural DEF BudgetTypeOK, Amounts
  <2> QED
    BY <2>1 DEF UpTo, Excess
<1>4. SumFunctionOnSet(g, S) <= Budget
  BY DEF Limited
<1> HIDE DEF S, f, g, h
<1>5. SumFunctionOnSet(f, S) <= SumFunctionOnSet(g, S)
  BY <1>1, <1>2, SumIsMonotonic
<1>6. SumFunctionOnSet(costs, S) = SumFunctionOnSet(f, S) + SumFunctionOnSet(h, S)
  BY <1>1, <1>2, <1>3, SumOfTwo
<1>7. /\ SumFunctionOnSet(f, S) \in Nat /\ SumFunctionOnSet(g, S) \in Nat
      /\ SumFunctionOnSet(h, S) \in Nat
  BY <1>1, <1>2, <1>3, SumIsNatural
<1>8. SumFunctionOnSet(costs, S) <= Budget + SumFunctionOnSet(h, S)
  BY <1>4, <1>5, <1>6, <1>7, AmountsAreNatural
<1> QED
  BY <1>8 DEF Kept, S, h

\* For any number of calls, amounts and months: whatever calls run at the same time,
\* fail, are lost or answer late, those of one month exceed its budget by what they
\* cost above their estimates at most.
THEOREM BudgetKept == BudgetSpec => []BudgetIsKept
<1>1. BudgetSound /\ [BudgetNext]_budgetVars => BudgetSound'
  BY BudgetTypeStep, CallsStep, LimitedStep DEF BudgetSound
<1>2. BudgetSound => BudgetIsKept
  <2> SUFFICES ASSUME BudgetSound, NEW m \in 1 .. MaxMonth
               PROVE  Kept(m, Charges) /\ Kept(m, paid)
    BY DEF BudgetIsKept
  <2>1. AmountsAreSound
    BY TypesAreSound DEF BudgetSound
  <2>2. \A c \in Calls : UpTo(Charges)[c] <= UpTo(Charges)[c]
    BY <2>1 DEF AmountsAreSound
  <2>3. ASSUME NEW c \in Calls PROVE UpTo(paid)[c] <= UpTo(Charges)[c]
    <3>1. /\ estimated[c] \in Nat /\ paid[c] \in Nat
          /\ actual[c] \in Nat \/ actual[c] = Unknown
      BY AmountsAreNatural DEF BudgetSound, BudgetTypeOK, Amounts
    <3>2. actual[c] # Unknown => paid[c] <= actual[c] \/ estimated[c] <= actual[c]
      BY DEF BudgetSound, CallsAreSound
    <3> QED
      BY <3>1, <3>2, UnknownIsNoAmount DEF UpTo, Charges, Charge
  <2> QED
    BY <2>1, <2>2, <2>3, MonthIsKept DEF BudgetSound, AmountsAreSound
<1> QED
  BY <1>1, <1>2, BudgetSoundFirst, PTL DEF BudgetSpec
=============================================================================
