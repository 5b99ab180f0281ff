------------------------------ MODULE Backups -------------------------------
(***************************************************************************)
(* The backups of the database (src/scripts/database): backup.js writes a  *)
(* dump and a manifest, prune.js removes the sets that are old and not     *)
(* among the latest, restore.js loads one into an empty database.  They    *)
(* are scripts that run beside each other, on one directory, and may die   *)
(* at any moment.                                                          *)
(*                                                                         *)
(* What a database holds is a number: that of the last change.  A file is  *)
(* there only when it is published; one half written has another name, and *)
(* no script ever looks at it.  That a file is authentic, and that its     *)
(* checksum is the one in the manifest, is that it is intact.              *)
(***************************************************************************)
EXTENDS Naturals, FiniteSets, Sequences, Functions

CONSTANTS
    Sets,           \* the backup sets, each with the run of backup.js that writes it
    Earlier,        \* those that are there from the beginning, in the order of their times
    Prunes,         \* operators that prune
    Restores,       \* runs of restore.js
    Targets,        \* empty databases that are marked for restores
    MinimumBackups, \* BACKUP_MINIMUM_COUNT
    Retention,      \* BACKUP_RETENTION_DAYS
    MaxChanges,     \* bound on the changes of the database
    CountsOf,       \* the table counts of the database after each of its changes
    MaxTime,        \* bound on the clock
    Nothing

ASSUME Numbers == MinimumBackups \in Nat \ {0} /\ Retention \in Nat /\ MaxChanges \in Nat /\ MaxTime \in Nat
ASSUME Counted == CountsOf \in [0 .. MaxChanges -> Nat]
ASSUME EarlierAreSets == IsFiniteSet(Sets) /\ Earlier \in Seq(Sets) /\ IsInjective(Earlier)
ASSUME EarlierAreInTime == Len(Earlier) < MaxTime

VARIABLES
    changes,   \* the database: how often it was changed
    now,
    dump,      \* <base>.dump.enc of each set, Nothing when there is none
    manifest,  \* <base>.manifest.enc
    job,       \* the runs of backup.js
    prune,     \* the runs of prune.js
    shown,     \* the plans whose token a dry run has displayed
    restore,   \* the runs of restore.js
    restored   \* what the targets hold

files == <<dump, manifest>>
vars == <<changes, now, dump, manifest, job, prune, shown, restore, restored>>

Content == 0 .. MaxChanges
Times == 0 .. MaxTime

Dump == [of : Content, whole : BOOLEAN, intact : BOOLEAN]
Manifest == [counts : Nat, intact : BOOLEAN]

ASSUME NothingIsNoFile == Nothing \notin Dump \cup Manifest

\* captured: the counts read in the snapshot; dumping: the process of pg_dump;
\* writing: the stream that encrypts what it puts out.
Job == [step : {"idle", "identified", "dumping", "closing", "failing", "described",
                "removing", "completed", "failed", "dead"},
        created : Times, snapshot : Content, counts : Nat,
        captured : {"open", "done", "failed"},
        dumping : {"off", "running", "ended", "broken"},
        writing : {"off", "open", "published", "failed"}]

Prune == [step : {"idle", "checking", "planned", "deleting"}, token : (SUBSET Sets) \cup {Nothing},
          found : SUBSET Sets, checked : SUBSET Sets, plan : SUBSET Sets]

Restore == [step : {"idle", "checked", "empty", "ready", "authentic", "loaded", "verified", "over"},
            set : Sets \cup {Nothing}, target : Targets \cup {Nothing}, counts : Nat]

Target == [state : {"empty", "filled", "garbage"}, of : Content]

TypeOK ==
    /\ changes \in Content /\ now \in Times
    /\ dump \in [Sets -> Dump \cup {Nothing}]
    /\ manifest \in [Sets -> Manifest \cup {Nothing}]
    /\ job \in [Sets -> Job]
    /\ prune \in [Prunes -> Prune]
    /\ shown \subseteq SUBSET Sets
    /\ restore \in [Restores -> Restore]
    /\ restored \in [Targets -> Target]

NoJob == [step |-> "idle", created |-> 0, snapshot |-> 0, counts |-> 0, captured |-> "open",
          dumping |-> "off", writing |-> "off"]

OldJob(t) == [NoJob EXCEPT !.step = "completed", !.created = t]

NoPrune == [step |-> "idle", token |-> Nothing, found |-> {}, checked |-> {}, plan |-> {}]

NoRestore == [step |-> "idle", set |-> Nothing, target |-> Nothing, counts |-> 0]

There == {Earlier[i] : i \in DOMAIN Earlier}

Init ==
    /\ changes = 0 /\ now = Len(Earlier) + 1
    /\ dump = [b \in Sets |->
            IF b \in There THEN [of |-> 0, whole |-> TRUE, intact |-> TRUE] ELSE Nothing]
    /\ manifest = [b \in Sets |->
            IF b \in There THEN [counts |-> CountsOf[0], intact |-> TRUE] ELSE Nothing]
    /\ job = [b \in Sets |->
            IF b \in There THEN OldJob(CHOOSE i \in DOMAIN Earlier : Earlier[i] = b) ELSE NoJob]
    /\ prune = [p \in Prunes |-> NoPrune] /\ shown = {}
    /\ restore = [r \in Restores |-> NoRestore]
    /\ restored = [d \in Targets |-> [state |-> "empty", of |-> 0]]

-----------------------------------------------------------------------------
(* What goes on around the scripts.                                        *)

\* The application changes the database.
Change ==
    /\ changes < MaxChanges
    /\ changes' = changes + 1
    /\ UNCHANGED <<now, files, job, prune, shown, restore, restored>>

Tick ==
    /\ now < MaxTime
    /\ now' = now + 1
    /\ UNCHANGED <<changes, files, job, prune, shown, restore, restored>>

Damaged(file) == \E b \in Sets : file[b] # Nothing /\ ~file[b].intact

\* The storage damages a file, one at a time.
Damage(b) ==
    /\ ~Damaged(dump) /\ ~Damaged(manifest)
    /\ \/ /\ dump[b] # Nothing
          /\ dump' = [dump EXCEPT ![b].intact = FALSE]
          /\ UNCHANGED manifest
       \/ /\ manifest[b] # Nothing
          /\ manifest' = [manifest EXCEPT ![b].intact = FALSE]
          /\ UNCHANGED dump
    /\ UNCHANGED <<changes, now, job, prune, shown, restore, restored>>

-----------------------------------------------------------------------------
(* backup.js                                                               *)

AtJob(b, step) == job[b].step = step

\* The rest of the state while a run of backup.js goes on.
Aside == UNCHANGED <<changes, now, prune, shown, restore, restored>>

To(b, step) == job' = [job EXCEPT ![b].step = step]

\* The name of the set is unique, its time that of the start.
Start(b) ==
    /\ AtJob(b, "idle")
    /\ \A c \in Sets : AtJob(c, "idle") \/ job[c].created # now
    /\ job' = [job EXCEPT ![b].step = "identified", ![b].created = now]
    /\ Aside /\ UNCHANGED files

\* openExportedSnapshot; pg_dump and the counts are started on it.
OpenSnapshot(b) ==
    /\ AtJob(b, "identified")
    /\ \/ job' = [job EXCEPT ![b].step = "dumping", ![b].snapshot = changes,
                             ![b].dumping = "running", ![b].writing = "open"]
       \/ To(b, "removing")
    /\ Aside /\ UNCHANGED files

\* The counts are those of the snapshot while it is open; foreign keys may not hold.
Counts(b) == CountsOf[job[b].snapshot]

Capture(b) ==
    /\ AtJob(b, "dumping") /\ job[b].captured = "open"
    /\ \/ job' = [job EXCEPT ![b].captured = "done", ![b].counts = Counts(b)]
       \/ job' = [job EXCEPT ![b].captured = "failed"]
    /\ Aside /\ UNCHANGED files

\* pg_dump ends by itself, with all it had to put out or with an exit code.
EndDump(b) ==
    /\ job[b].dumping = "running" /\ ~AtJob(b, "dead")
    /\ \/ job' = [job EXCEPT ![b].dumping = "ended"]
       \/ job' = [job EXCEPT ![b].dumping = "broken"]
    /\ Aside /\ UNCHANGED files

\* The output of pg_dump has ended, however it ended: what was written of the
\* snapshot gets its name.  Nobody waits for this once the run has failed.
Publish(b) ==
    /\ job[b].writing = "open" /\ job[b].dumping \in {"ended", "broken"} /\ ~AtJob(b, "dead")
    /\ \/ /\ dump' = [dump EXCEPT ![b] =
                [of |-> job[b].snapshot, whole |-> job[b].dumping = "ended", intact |-> TRUE]]
          /\ job' = [job EXCEPT ![b].writing = "published"]
       \/ /\ job' = [job EXCEPT ![b].writing = "failed"]
          /\ UNCHANGED dump
    /\ Aside /\ UNCHANGED manifest

\* Promise.all: the first failure counts, the others are not waited for.
Rejected(b) == job[b].captured = "failed" \/ job[b].writing = "failed"

Fulfilled(b) ==
    /\ job[b].captured = "done"
    /\ job[b].writing = "published"
    /\ job[b].dumping \in {"ended", "broken"}

\* Mutant: the exit code of pg_dump is not looked at.
GoodAnyway(b) == Fulfilled(b) /\ job[b].dumping # "running"

\* The exit code is looked at last.
Good(b) == Fulfilled(b) /\ job[b].dumping = "ended"

Await(b) ==
    /\ AtJob(b, "dumping")
    /\ \/ /\ Good(b)
          /\ To(b, "closing")
       \/ /\ Rejected(b) \/ (Fulfilled(b) /\ ~Good(b))
          /\ job' = [job EXCEPT ![b].step = "failing",
                        ![b].dumping = IF @ = "running" THEN "broken" ELSE @]
    /\ Aside /\ UNCHANGED files

\* The snapshot is closed whether the run has failed or not.
Close(b) ==
    /\ \/ /\ AtJob(b, "closing")
          /\ To(b, "described") \/ To(b, "removing")
       \/ /\ AtJob(b, "failing")
          /\ To(b, "removing")
    /\ Aside /\ UNCHANGED files

\* The dump is described in the manifest, which is published in turn.  That its
\* temporary name, no longer needed, cannot be removed is left out.
PublishManifest(b) ==
    /\ AtJob(b, "described")
    /\ \/ /\ dump[b] # Nothing
          /\ manifest' = [manifest EXCEPT ![b] = [counts |-> job[b].counts, intact |-> TRUE]]
          /\ To(b, "completed")
       \/ /\ To(b, "removing")
          /\ UNCHANGED manifest
    /\ Aside /\ UNCHANGED dump

\* A run that failed removes its files; its manifest never got its name.
Remove(b) ==
    /\ AtJob(b, "removing")
    /\ dump' = [dump EXCEPT ![b] = Nothing]
    /\ To(b, "failed")
    /\ Aside /\ UNCHANGED manifest

\* The script is killed: its streams end, nothing gets a name any more.
Die(b) ==
    /\ job[b].step \notin {"idle", "completed", "failed", "dead"}
    /\ To(b, "dead")
    /\ Aside /\ UNCHANGED files

Backup(b) ==
    \/ Start(b) \/ OpenSnapshot(b) \/ Capture(b) \/ EndDump(b) \/ Publish(b)
    \/ Await(b) \/ Close(b) \/ PublishManifest(b) \/ Remove(b) \/ Die(b)

-----------------------------------------------------------------------------
(* prune.js                                                                *)

AtPrune(p, step) == prune[p].step = step

Besides == UNCHANGED <<changes, now, job, restore, restored>>

\* listBackupSets: a dump without its manifest is no backup.
Listed == {b \in Sets : dump[b] # Nothing /\ manifest[b] # Nothing}

\* The directory is read, with or without a token that some dry run has displayed.
List(p) ==
    /\ AtPrune(p, "idle")
    /\ \E token \in shown \cup {Nothing} :
        prune' = [prune EXCEPT ![p] =
            [NoPrune EXCEPT !.step = "checking", !.token = token, !.found = Listed]]
    /\ UNCHANGED shown /\ Besides /\ UNCHANGED files

\* Each set is read and must be what its manifest says.
Check(p, b) ==
    /\ AtPrune(p, "checking")
    /\ b \in prune[p].found \ prune[p].checked
    /\ dump[b] # Nothing /\ manifest[b] # Nothing
    /\ dump[b].intact /\ manifest[b].intact
    /\ prune' = [prune EXCEPT ![p].checked = @ \cup {b}]
    /\ UNCHANGED shown /\ Besides /\ UNCHANGED files

\* One that is gone, damaged, or of another storage ends the run; so does a crash.
Quit(p) ==
    /\ ~AtPrune(p, "idle")
    /\ prune' = [prune EXCEPT ![p] = NoPrune]
    /\ UNCHANGED shown /\ Besides /\ UNCHANGED files

Younger(sets, b) == {c \in sets : job[c].created > job[b].created}

\* Mutant: the newest backups are counted from one.
ExpiredButOne(sets) ==
    {b \in sets :
        /\ Cardinality(Younger(sets, b)) + 1 >= MinimumBackups
        /\ job[b].created + Retention < now}

\* selectExpiredBackupSets: in the order of their times, the newest first.
Expired(sets) ==
    {b \in sets :
        /\ Cardinality(Younger(sets, b)) >= MinimumBackups
        /\ job[b].created + Retention < now}

\* The token must be that of the plan of now.
Confirmed(p) == prune[p].token = Expired(prune[p].checked)

Plan(p) ==
    /\ AtPrune(p, "checking")
    /\ prune[p].checked = prune[p].found
    /\ LET plan == Expired(prune[p].checked) IN
        \/ /\ prune[p].token = Nothing
           /\ shown' = IF plan = {} THEN shown ELSE shown \cup {plan}
           /\ prune' = [prune EXCEPT ![p] = NoPrune]
        \/ /\ prune[p].token # Nothing
           /\ prune' = [prune EXCEPT ![p] =
                IF Confirmed(p)
                    THEN [NoPrune EXCEPT !.step = "deleting", !.token = prune[p].token, !.plan = plan]
                    ELSE NoPrune]
           /\ UNCHANGED shown
    /\ Besides /\ UNCHANGED files

\* Set after set, the newest of the plan first, both files of a set in any order.
Current(p) == {b \in prune[p].plan : Younger(prune[p].plan, b) = {}}

Delete(p) ==
    /\ AtPrune(p, "deleting")
    /\ \E b \in Current(p) :
        \/ /\ dump[b] # Nothing
           /\ dump' = [dump EXCEPT ![b] = Nothing]
           /\ UNCHANGED <<manifest, prune>>
        \/ /\ manifest[b] # Nothing
           /\ manifest' = [manifest EXCEPT ![b] = Nothing]
           /\ UNCHANGED <<dump, prune>>
        \/ /\ dump[b] = Nothing /\ manifest[b] = Nothing
           /\ prune' = [prune EXCEPT ![p].plan = @ \ {b}]
           /\ UNCHANGED files
    /\ UNCHANGED shown /\ Besides

Pruning(p) == List(p) \/ (\E b \in Sets : Check(p, b)) \/ Quit(p) \/ Plan(p) \/ Delete(p)

-----------------------------------------------------------------------------
(* restore.js                                                              *)

AtRestore(r, step) == restore[r].step = step

Apart == UNCHANGED <<changes, now, files, job, prune, shown>>

Go(r, step) == restore' = [restore EXCEPT ![r].step = step]

\* The manifest is read, the checksum of the dump compared, the target looked at
\* from outside: not the source, not production, marked.
Read(r) ==
    /\ AtRestore(r, "idle")
    /\ \E b \in Listed, d \in Targets :
        /\ manifest[b].intact /\ dump[b].intact
        /\ restore' = [restore EXCEPT ![r] =
                [step |-> "checked", set |-> b, target |-> d, counts |-> manifest[b].counts]]
    /\ Apart /\ UNCHANGED restored

\* Any test, process or file may fail.
GiveUp(r) ==
    /\ ~AtRestore(r, "idle") /\ restore[r].step \notin {"verified", "over"}
    /\ Go(r, "over")
    /\ Apart /\ UNCHANGED restored

Held(r) == restored[restore[r].target]

AssertEmpty(r) ==
    /\ AtRestore(r, "checked") /\ Held(r).state = "empty"
    /\ Go(r, "empty")
    /\ Apart /\ UNCHANGED restored

\* DROP SCHEMA without CASCADE.
Prepare(r) ==
    /\ AtRestore(r, "empty") /\ Held(r).state = "empty"
    /\ Go(r, "ready")
    /\ Apart /\ UNCHANGED restored

Authenticate(r) ==
    /\ AtRestore(r, "ready")
    /\ dump[restore[r].set] # Nothing /\ dump[restore[r].set].intact
    /\ Go(r, "authentic")
    /\ Apart /\ UNCHANGED restored

\* Mutant: nobody notices that the second reading is not authentic.
AuthenticAnyway(d) == TRUE

\* The tag at the end of the file tells.
Authentic(d) == d.intact

\* The file is read once more, into one transaction of pg_restore.  What fails at
\* its end may have been committed by then.
Load(r) ==
    /\ AtRestore(r, "authentic")
    /\ LET d == dump[restore[r].set] IN
        /\ d # Nothing /\ d.whole /\ Held(r).state = "empty"
        /\ restored' = [restored EXCEPT ![restore[r].target] =
                [state |-> IF d.intact THEN "filled" ELSE "garbage", of |-> d.of]]
        /\ Go(r, IF Authentic(d) THEN "loaded" ELSE "over")
    /\ Apart

\* The counts must be those of the manifest.
Verify(r) ==
    /\ AtRestore(r, "loaded")
    /\ Go(r, IF CountsOf[Held(r).of] = restore[r].counts THEN "verified" ELSE "over")
    /\ Apart /\ UNCHANGED restored

Restoring(r) ==
    \/ Read(r) \/ GiveUp(r) \/ AssertEmpty(r) \/ Prepare(r) \/ Authenticate(r)
    \/ Load(r) \/ Verify(r)

-----------------------------------------------------------------------------
Next ==
    \/ Change \/ Tick
    \/ \E b \in Sets : Backup(b) \/ Damage(b)
    \/ \E p \in Prunes : Pruning(p)
    \/ \E r \in Restores : Restoring(r)

Spec == Init /\ [][Next]_vars

-----------------------------------------------------------------------------
(* Properties.                                                             *)

\* Whatever is listed as a backup set has a whole dump, and its manifest counts the
\* rows of the very snapshot that was dumped, although pg_dump, the counts and the
\* stream run beside each other, each may fail, and the script may die between any
\* two of its steps (backup.js:51-146).
SetsAreWhole ==
    \A b \in Listed : dump[b].whole /\ manifest[b].counts = CountsOf[dump[b].of]

\* What prune.js takes away of a set that was complete, it has shown before as part
\* of its plan, is older than the retention, and is not among the newest backups
\* there are, however many prunes and backups run at once
\* (prune.js:82-103, docs/40_BACKUP_RESTORE_RUNBOOK.md, section 4).
Pruned(b) ==
    /\ b \in Listed /\ b \notin Listed'
    /\ UNCHANGED job                   \* not by the run that wrote it

PruneIsSafe ==
    [][\A b \in Sets : Pruned(b) =>
        /\ \E plan \in shown : b \in plan
        /\ job[b].created + Retention < now
        /\ Cardinality(Younger(Listed, b)) >= MinimumBackups]_vars

\* A restore that reports success has filled a database that was empty with just
\* what the backup had dumped of the source, and nobody has changed it since:
\* the file may be damaged, or pruned, and another restore may go into the same
\* database, between its tests and its readings (restore.js:22-66).
RestoredAsDumped ==
    \A r \in Restores : AtRestore(r, "verified") =>
        Held(r) = [state |-> "filled", of |-> job[restore[r].set].snapshot]

\* A run that failed leaves nothing behind
\* (docs/40_BACKUP_RESTORE_RUNBOOK.md, section 3).
FailedLeavesNothing ==
    \A b \in Sets : AtJob(b, "failed") => dump[b] = Nothing /\ manifest[b] = Nothing
=============================================================================
