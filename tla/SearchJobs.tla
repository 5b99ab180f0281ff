----------------------------- MODULE SearchJobs -----------------------------
(***************************************************************************)
(* The candidate search jobs of one owner                                  *)
(* (src/apps/api/src/projects).                                            *)
(*                                                                         *)
(* Several API servers share the job rows of a PostgreSQL table.  The      *)
(* server that starts a job also runs its worker, in memory, and keeps a   *)
(* lease of 15 seconds on the row alive by a heartbeat; the row itself is  *)
(* kept for 30 minutes after its last renewal.  Any server may answer a    *)
(* request about a job: it reads the row, and cancels the job or fails it  *)
(* when its lease has lapsed.                                              *)
(*                                                                         *)
(* The clock is not modelled.  A lease may lapse at any moment, as when    *)
(* the server stalls or the database is slow, and a lapsed row may reach   *)
(* the end of its 30 minutes at any moment.                                *)
(***************************************************************************)
EXTENDS Naturals

CONSTANTS
    Jobs,       \* start requests of the owner, each with the id of its job
    Servers,    \* API servers
    Clients,    \* concurrent requests that read or cancel a job
    NoServer, NoJob,
    MaxItems,   \* bound on the candidates a search finds
    MayFail     \* may servers, requests and database calls fail?

ASSUME NoServerIsNoServer == NoServer \notin Servers
ASSUME NoJobIsNoJob == NoJob \notin Jobs
ASSUME MaxItemsIsNatural == MaxItems \in Nat
ASSUME MayFailIsBoolean == MayFail \in BOOLEAN

VARIABLES
    row,        \* ProjectSearchJob.status, "absent" before and "deleted" after
    age,        \* the row's lease lives; the row is visible; its 30 minutes are over
    saved,      \* ProjectSearchJob.itemCount
    audited,    \* the statuses the projects.search_finished rows of the job tell
    pc,         \* where the start request of the job, and then its worker, is
    home,       \* the server that runs it
    aborted,    \* its abort signal
    outcome,    \* the status the worker is going to write or has written
    snapshot,   \* what the start request read in its transaction
    client,     \* what each reading or cancelling request is about to do
    target,     \* the job it is about
    heard       \* the status it read back

vars == <<row, age, saved, audited, pc, home, aborted, outcome, snapshot, client, target, heard>>

rowVars == <<row, age, saved>>
workerVars == <<pc, home, aborted, outcome, snapshot>>
clientVars == <<client, target, heard>>

-----------------------------------------------------------------------------
(* Types.                                                                  *)

Terminal == {"completed", "cancelled", "failed"}

RowStatus == Terminal \cup {"absent", "running", "deleted"}

\* A start request sweeps expired rows, waits for the owner's lock, replaces the
\* running job and commits.
StartStages == {"sweeping", "waiting", "replacing", "created"}

\* Its worker searches, writes its outcome, or its failure when an error was
\* thrown, and records it.
WorkerStages == {"searching", "finishing", "failing", "recording"}

NothingSeen == [expired |-> {}, running |-> {}]

TypeOK ==
    /\ row \in [Jobs -> RowStatus]
    /\ age \in [Jobs -> {"leased", "visible", "expired"}]
    /\ saved \in [Jobs -> Nat]
    /\ audited \in [Jobs -> SUBSET Terminal]
    /\ pc \in [Jobs -> StartStages \cup WorkerStages \cup {"idle", "ended"}]
    /\ home \in [Jobs -> Servers \cup {NoServer}]
    /\ aborted \in [Jobs -> BOOLEAN]
    /\ outcome \in [Jobs -> {"completed", "failed"}]
    /\ snapshot \in [Jobs -> [expired : SUBSET Jobs, running : SUBSET Jobs]]
    /\ client \in [Clients -> {"idle", "failing", "cancelling", "recording"}]
    /\ target \in [Clients -> Jobs \cup {NoJob}]
    /\ heard \in [Clients -> Terminal \cup {"running"}]
    /\ \A c \in Clients : client[c] # "idle" => target[c] \in Jobs

Init ==
    /\ row = [j \in Jobs |-> "absent"]
    /\ age = [j \in Jobs |-> "visible"]
    /\ saved = [j \in Jobs |-> 0]
    /\ audited = [j \in Jobs |-> {}]
    /\ pc = [j \in Jobs |-> "idle"]
    /\ home = [j \in Jobs |-> NoServer]
    /\ aborted = [j \in Jobs |-> FALSE]
    /\ outcome = [j \in Jobs |-> "completed"]
    /\ snapshot = [j \in Jobs |-> NothingSeen]
    /\ client = [c \in Clients |-> "idle"]
    /\ target = [c \in Clients |-> NoJob]
    /\ heard = [c \in Clients |-> "running"]

-----------------------------------------------------------------------------
(* The rows.                                                               *)

Stored(j) == row[j] \notin {"absent", "deleted"}

\* What the owner may still read or cancel.
Visible(j) == Stored(j) /\ age[j] # "expired"

\* The condition under which a worker may write its row.
Active(j) == row[j] = "running" /\ age[j] = "leased"

\* The workers a server runs.
WorkersOf(s) == {j \in Jobs : home[j] = s /\ pc[j] \in WorkerStages}

-----------------------------------------------------------------------------
(* Starting a job.                                                         *)

Move(j, stage) == pc' = [pc EXCEPT ![j] = stage]

\* The memory of a worker, or of a start request that failed, is gone.
Leave(j) ==
    /\ Move(j, "ended")
    /\ home' = [home EXCEPT ![j] = NoServer]
    /\ aborted' = [aborted EXCEPT ![j] = FALSE]
    /\ outcome' = [outcome EXCEPT ![j] = "completed"]

\* The request opens the transaction that deletes expired rows, and reads those
\* that were still running to record them as failed.
BeginSweep(j, s) ==
    /\ pc[j] = "idle"
    /\ Move(j, "sweeping")
    /\ home' = [home EXCEPT ![j] = s]
    /\ LET expired == {k \in Jobs : Stored(k) /\ age[k] = "expired"} IN
       snapshot' = [snapshot EXCEPT ![j] =
          [expired |-> expired, running |-> {k \in expired : row[k] = "running"}]]
    /\ UNCHANGED <<rowVars, audited, aborted, outcome, clientVars>>

\* A row that another request has renewed meanwhile is not deleted.
Sweep(j) ==
    LET gone == {k \in snapshot[j].expired : Stored(k) /\ age[k] = "expired"} IN
    /\ pc[j] = "sweeping"
    /\ audited' = [k \in Jobs |->
          IF k \in snapshot[j].running THEN audited[k] \cup {"failed"} ELSE audited[k]]
    /\ row' = [k \in Jobs |-> IF k \in gone THEN "deleted" ELSE row[k]]
    /\ snapshot' = [snapshot EXCEPT ![j] = NothingSeen]
    /\ Move(j, "waiting")
    /\ UNCHANGED <<age, saved, home, aborted, outcome, clientVars>>

\* Under the owner's lock, the request reads the jobs that run.
BeginReplace(j) ==
    /\ pc[j] = "waiting"
    /\ \A k \in Jobs : pc[k] # "replacing"
    /\ Move(j, "replacing")
    /\ snapshot' = [snapshot EXCEPT ![j].running = {k \in Jobs : row[k] = "running"}]
    /\ UNCHANGED <<rowVars, audited, home, aborted, outcome, clientVars>>

\* Mutant: the jobs it cancels are not recorded.
ReplaceSilently(j) ==
    LET superseded == {k \in Jobs : row[k] = "running"} IN
    /\ pc[j] = "replacing"
    /\ row' = [k \in Jobs |->
          IF k = j THEN "running" ELSE IF k \in superseded THEN "cancelled" ELSE row[k]]
    /\ age' = [k \in Jobs |->
          IF k = j THEN "leased" ELSE IF k \in superseded THEN "visible" ELSE age[k]]
    /\ snapshot' = [snapshot EXCEPT ![j] = NothingSeen]
    /\ Move(j, "created")
    /\ UNCHANGED <<saved, audited, home, aborted, outcome, clientVars>>

\* Then it cancels the jobs that run now, records a cancellation for those it
\* read, and inserts its own.
Replace(j) ==
    LET superseded == {k \in Jobs : row[k] = "running"} IN
    /\ pc[j] = "replacing"
    /\ row' = [k \in Jobs |->
          IF k = j THEN "running" ELSE IF k \in superseded THEN "cancelled" ELSE row[k]]
    /\ age' = [k \in Jobs |->
          IF k = j THEN "leased" ELSE IF k \in superseded THEN "visible" ELSE age[k]]
    /\ audited' = [k \in Jobs |->
          IF k \in snapshot[j].running THEN audited[k] \cup {"cancelled"} ELSE audited[k]]
    /\ snapshot' = [snapshot EXCEPT ![j] = NothingSeen]
    /\ Move(j, "created")
    /\ UNCHANGED <<saved, home, aborted, outcome, clientVars>>

\* Back in the server, the request aborts the owner's workers it finds there and
\* starts its own.
Launch(j) ==
    /\ pc[j] = "created"
    /\ aborted' = [k \in Jobs |-> aborted[k] \/ k \in WorkersOf(home[j])]
    /\ Move(j, "searching")
    /\ UNCHANGED <<rowVars, audited, home, outcome, snapshot, clientVars>>

-----------------------------------------------------------------------------
(* The worker.                                                             *)

\* Candidates are saved while the row is active; otherwise the worker aborts.
Observe(j) ==
    /\ pc[j] = "searching"
    /\ ~aborted[j]
    /\ \/ /\ Active(j)
          /\ saved[j] < MaxItems
          /\ saved' = [saved EXCEPT ![j] = @ + 1]
          /\ UNCHANGED aborted
       \/ /\ ~Active(j)
          /\ aborted' = [aborted EXCEPT ![j] = TRUE]
          /\ UNCHANGED saved
    /\ UNCHANGED <<row, age, audited, pc, home, outcome, snapshot, clientVars>>

\* The search is over, with what it found or with an error.
Decide(j) ==
    /\ pc[j] = "searching"
    /\ ~aborted[j]
    /\ \/ /\ \E result \in {"completed", "failed"} :
                outcome' = [outcome EXCEPT ![j] = result]
          /\ Move(j, "finishing")
       \/ /\ outcome' = [outcome EXCEPT ![j] = "failed"]
          /\ Move(j, "failing")
    /\ UNCHANGED <<rowVars, audited, home, aborted, snapshot, clientVars>>

Stop(j) ==
    /\ pc[j] = "searching"
    /\ aborted[j]
    /\ Leave(j)
    /\ UNCHANGED <<rowVars, audited, snapshot, clientVars>>

\* Mutant: the outcome is written whatever became of the row.
FinishAnyway(j) ==
    /\ pc[j] \in {"finishing", "failing"}
    /\ row' = [row EXCEPT ![j] = outcome[j]]
    /\ age' = [age EXCEPT ![j] = "visible"]
    /\ Move(j, "recording")
    /\ UNCHANGED <<saved, audited, home, aborted, outcome, snapshot, clientVars>>

\* Only the worker whose write counted goes on to record it.
Finish(j) ==
    /\ pc[j] \in {"finishing", "failing"}
    /\ IF Active(j)
       THEN /\ row' = [row EXCEPT ![j] = outcome[j]]
            /\ age' = [age EXCEPT ![j] = "visible"]
            /\ Move(j, "recording")
            /\ UNCHANGED <<home, aborted, outcome>>
       ELSE /\ Leave(j)
            /\ UNCHANGED <<row, age>>
    /\ UNCHANGED <<saved, audited, snapshot, clientVars>>

\* A write that fails, perhaps after it was committed, is tried once more as a
\* failure of the search.  Nobody catches a second error: the server dies.
FinishFails(j) ==
    /\ MayFail
    /\ pc[j] = "finishing"
    /\ IF aborted[j]
       THEN Leave(j)
       ELSE /\ outcome' = [outcome EXCEPT ![j] = "failed"]
            /\ Move(j, "failing")
            /\ UNCHANGED <<home, aborted>>
    /\ \/ UNCHANGED <<row, age>>
       \/ /\ Active(j)
          /\ row' = [row EXCEPT ![j] = outcome[j]]
          /\ age' = [age EXCEPT ![j] = "visible"]
    /\ UNCHANGED <<saved, audited, snapshot, clientVars>>

\* Recording is one more database call, whose failure is only logged.
Record(j) ==
    /\ pc[j] = "recording"
    /\ \/ audited' = [audited EXCEPT ![j] = @ \cup {outcome[j]}]
       \/ MayFail /\ UNCHANGED audited
    /\ Leave(j)
    /\ UNCHANGED <<rowVars, snapshot, clientVars>>

Abort(j) ==
    /\ pc[j] \in WorkerStages
    /\ ~aborted[j]
    /\ aborted' = [aborted EXCEPT ![j] = TRUE]
    /\ UNCHANGED <<rowVars, audited, pc, home, outcome, snapshot, clientVars>>

\* Mutant: the heartbeat finds its row by id alone.
MonitorById(j) == ~Stored(j) /\ Abort(j)

\* Every half second the worker renews its lease, which leaves it alive, or
\* aborts when the row is no longer its own.
Monitor(j) == ~Active(j) /\ Abort(j)

\* The heartbeat cannot reach the database.
MonitorFails(j) == MayFail /\ Abort(j)

-----------------------------------------------------------------------------
(* Time and failures.                                                      *)

Lapse(j) ==
    /\ Active(j)
    /\ age' = [age EXCEPT ![j] = "visible"]
    /\ UNCHANGED <<row, saved, audited, workerVars, clientVars>>

Expire(j) ==
    /\ Stored(j)
    /\ age[j] = "visible"
    /\ age' = [age EXCEPT ![j] = "expired"]
    /\ UNCHANGED <<row, saved, audited, workerVars, clientVars>>

\* A call of the start request to the database fails, before its transaction is
\* committed or after it.
StartFails(j) ==
    /\ MayFail
    /\ pc[j] \in StartStages
    /\ snapshot' = [snapshot EXCEPT ![j] = NothingSeen]
    /\ Leave(j)
    /\ UNCHANGED <<rowVars, audited, clientVars>>

\* A server dies with its workers and the start requests it was serving; the
\* transactions of these roll back.
Crash(s) ==
    LET lost == {j \in Jobs : home[j] = s} IN
    /\ MayFail
    /\ lost # {}
    /\ pc' = [j \in Jobs |-> IF j \in lost THEN "ended" ELSE pc[j]]
    /\ home' = [j \in Jobs |-> IF j \in lost THEN NoServer ELSE home[j]]
    /\ aborted' = [j \in Jobs |-> aborted[j] /\ j \notin lost]
    /\ outcome' = [j \in Jobs |-> IF j \in lost THEN "completed" ELSE outcome[j]]
    /\ snapshot' = [j \in Jobs |-> IF j \in lost THEN NothingSeen ELSE snapshot[j]]
    /\ UNCHANGED <<rowVars, audited, clientVars>>

-----------------------------------------------------------------------------
(* Reading and cancelling.                                                 *)

Ask(c, stage, j) ==
    /\ client[c] = "idle"
    /\ client' = [client EXCEPT ![c] = stage]
    /\ target' = [target EXCEPT ![c] = j]

Answer(c) ==
    /\ client' = [client EXCEPT ![c] = "idle"]
    /\ target' = [target EXCEPT ![c] = NoJob]
    /\ heard' = [heard EXCEPT ![c] = "running"]

\* The transaction fails a job whose lease has lapsed, and reads the row back.
Visit(c, j, lapsed) ==
    /\ client[c] = "failing"
    /\ row' = IF lapsed THEN [row EXCEPT ![j] = "failed"] ELSE row
    /\ age' = IF lapsed THEN [age EXCEPT ![j] = "visible"] ELSE age
    /\ IF Stored(j)
       THEN /\ client' = [client EXCEPT ![c] = "recording"]
            /\ heard' = [heard EXCEPT ![c] = row'[j]]
            /\ UNCHANGED target
       ELSE Answer(c)
    /\ UNCHANGED <<saved, audited, workerVars>>

\* GET of a running job whose lease has lapsed; any other GET changes nothing.
Get(c, j) ==
    /\ Visible(j)
    /\ row[j] = "running"
    /\ age[j] # "leased"
    /\ Ask(c, "failing", j)
    /\ UNCHANGED <<rowVars, audited, workerVars, heard>>

\* Mutant: a job that ended since the first read is failed, too.
FailAnyLapsed(c) == Visit(c, target[c], age[target[c]] # "leased")

\* Mutant: the test of the lease is the wrong way round.
FailLiveLease(c) ==
    Visit(c, target[c], row[target[c]] = "running" /\ age[target[c]] = "leased")

\* Its time is that of the first read, when the row was visible.
FailExpiredLease(c) ==
    Visit(c, target[c], row[target[c]] = "running" /\ age[target[c]] # "leased")

Cancel(c, j) ==
    /\ Visible(j)
    /\ row[j] = "running"
    /\ Ask(c, "cancelling", j)
    /\ UNCHANGED <<rowVars, audited, workerVars, heard>>

\* The request aborts the worker when it runs in the same server, and records
\* the cancellation when the row it reads back is cancelled.
RequestCancel(c) ==
    LET j == target[c]
        running == row[j] = "running" /\ Visible(j)
    IN
    /\ client[c] = "cancelling"
    /\ row' = IF running THEN [row EXCEPT ![j] = "cancelled"] ELSE row
    /\ age' = IF running THEN [age EXCEPT ![j] = "visible"] ELSE age
    /\ \/ UNCHANGED aborted
       \/ /\ Visible(j)
          /\ pc[j] \in WorkerStages
          /\ aborted' = [aborted EXCEPT ![j] = TRUE]
    /\ IF Visible(j) /\ row'[j] = "cancelled"
       THEN /\ client' = [client EXCEPT ![c] = "recording"]
            /\ heard' = [heard EXCEPT ![c] = "cancelled"]
            /\ UNCHANGED target
       ELSE Answer(c)
    /\ UNCHANGED <<saved, audited, pc, home, outcome, snapshot>>

RecordHeard(c) ==
    /\ client[c] = "recording"
    /\ \/ /\ heard[c] \in Terminal
          /\ audited' = [audited EXCEPT ![target[c]] = @ \cup {heard[c]}]
       \/ /\ heard[c] \notin Terminal \/ MayFail
          /\ UNCHANGED audited
    /\ Answer(c)
    /\ UNCHANGED <<rowVars, workerVars>>

\* The server that serves the request dies.
Drop(c) ==
    /\ MayFail
    /\ client[c] # "idle"
    /\ Answer(c)
    /\ UNCHANGED <<rowVars, audited, workerVars>>

-----------------------------------------------------------------------------
\* The steps that the start request of a job, and then its worker, take.
Starting(j) == Sweep(j) \/ BeginReplace(j) \/ Replace(j) \/ Launch(j)

Working(j) ==
    \/ Observe(j)
    \/ Decide(j)
    \/ Stop(j)
    \/ Finish(j)
    \/ FinishFails(j)
    \/ Record(j)

Answering(c) == FailExpiredLease(c) \/ RequestCancel(c) \/ RecordHeard(c)

Next ==
    \/ \E j \in Jobs :
          \/ \E s \in Servers : BeginSweep(j, s)
          \/ Starting(j)
          \/ Working(j)
          \/ StartFails(j)
          \/ Monitor(j) \/ MonitorFails(j)
          \/ Lapse(j)
          \/ Expire(j)
          \/ \E c \in Clients : Get(c, j) \/ Cancel(c, j)
    \/ \E c \in Clients : Answering(c) \/ Drop(c)
    \/ \E s \in Servers : Crash(s)

Spec == Init /\ [][Next]_vars

\* A job whose worker no longer renews its lease.
Orphaned(j) == aborted[j] \/ pc[j] \notin StartStages \cup WorkerStages

\* Servers go on unless they die, a lease nobody renews lapses, and the owner
\* keeps asking for the job, as the dashboard does while it shows it running;
\* not every one of these requests is cut off.  A source may keep its search
\* waiting for ever.
Fairness ==
    /\ \A j \in Jobs :
          /\ WF_vars(Starting(j))
          /\ WF_vars(Stop(j))
          /\ WF_vars(Finish(j))
          /\ WF_vars(Record(j))
          /\ WF_vars(Monitor(j))
          /\ WF_vars(Orphaned(j) /\ Lapse(j))
          /\ SF_vars(\E c \in Clients : Get(c, j))
    /\ \A c \in Clients : WF_vars(Answering(c)) /\ SF_vars(FailExpiredLease(c))

FairSpec == Spec /\ Fairness

\* The sources answer, or refuse to.
SourcesAnswer == \A j \in Jobs : WF_vars(Decide(j))

-----------------------------------------------------------------------------
(* Safety.                                                                 *)

Lifecycle == INSTANCE SearchLifecycle WITH state <- row, shown <- saved

\* Whatever servers, clients and time do, the owner sees searches that are
\* replaced, found, ended and deleted one at a time: starting one cancels the
\* other in the same instant, and a finished one never changes again.
LifecyclePromise == Lifecycle!LifecycleSpec

\* What a worker or a request is about to record of a job is what its row tells.
RecordersAgree ==
    /\ \A j \in Jobs : pc[j] = "recording" => row[j] \in {outcome[j], "deleted"}
    /\ \A c \in Clients : client[c] = "recording" => row[target[c]] \in {heard[c], "deleted"}

-----------------------------------------------------------------------------
(* Liveness.                                                               *)

\* The worker of a job that was cancelled, replaced or failed stops, also when
\* the request that did it reached another server and the source its worker
\* searches does not answer.
SupersededWorkerStops ==
    \A j \in Jobs : row[j] \in Terminal ~> pc[j] = "ended"

\* The owner does not see a job running for ever, even when its server died,
\* provided that sources answer.
RunningIsResolved ==
    SourcesAnswer => \A j \in Jobs :
        (row[j] = "running" /\ Visible(j)) ~> ~(row[j] = "running" /\ Visible(j))

\* Without failures every end a job comes to is recorded in the audit log,
\* whoever ended it.
EndIsRecorded ==
    \A j \in Jobs, end \in Terminal : row[j] = end ~> end \in audited[j]

-----------------------------------------------------------------------------
(* What the documentation says, and the code does not do.                  *)

\* The recorded end of a search is the end it came to.
AuditTellsOutcome ==
    \A j \in Jobs : row[j] \in Terminal => audited[j] \subseteq {row[j]}

\* Starting a search stops older ones only, never the one that runs.
OnlyOlderAreStopped ==
    [][\A j, k \in Jobs :
          (pc[k] = "created" /\ pc'[k] = "searching" /\ ~aborted[j] /\ aborted'[j])
             => row[j] # "running"]_vars
=============================================================================
