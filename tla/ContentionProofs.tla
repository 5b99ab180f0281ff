-------------------------- MODULE ContentionProofs --------------------------
(***************************************************************************)
(* Proofs about Backups, for any number of sets, prunes, restores and      *)
(* targets, and about LeadLocks, for any number of transactions, leads,    *)
(* projects and destinations.                                              *)
(*                                                                         *)
(* A set is described by its manifest only when the run that wrote it has  *)
(* completed, and a completed run never changes anything again             *)
(* (SetsAreSound).  A restore relies on that from its first reading on     *)
(* (RestoresAreSound), a prune for the plan it was told to follow          *)
(* (PrunesAreSound): whatever another prune deletes leaves enough younger  *)
(* backups behind, those of what is older included.                        *)
(*                                                                         *)
(* The code never says in which order locks are to be taken.  The proof    *)
(* does: every kind of change but two takes its locks in the order of      *)
(* Place, those of one place in the order of their ids.  Of transactions   *)
(* that wait for each other in a circle one would want the last of all the *)
(* locks that are wanted, and who holds it would want a later one.         *)
(***************************************************************************)
EXTENDS Backups, LeadLocks, FiniteSetTheorems, SequenceTheorems, TLAPS

-----------------------------------------------------------------------------
(* The backups: the invariant.                                             *)

\* A run that has not begun to dump has left no trace.
Fresh(b) ==
    job[b].step \in {"idle", "identified"} =>
        /\ job[b].captured = "open" /\ job[b].dumping = "off" /\ job[b].writing = "off"
        /\ dump[b] = Nothing /\ manifest[b] = Nothing

\* What was counted was counted in the snapshot; who closes it has all he needs.
CountsAreOfSnapshot(b) ==
    /\ job[b].captured = "done" => job[b].counts = CountsOf[job[b].snapshot]
    /\ job[b].step \in {"closing", "described"} =>
        job[b].captured = "done" /\ job[b].writing = "published" /\ job[b].dumping = "ended"
    /\ job[b].step = "completed" => job[b].writing # "open" /\ job[b].dumping # "running"

DumpIsOfSnapshot(b) ==
    dump[b] # Nothing =>
        /\ dump[b].of = job[b].snapshot
        /\ job[b].step = "completed" => dump[b].whole
        /\ job[b].step # "completed" =>
              /\ job[b].writing = "published" /\ job[b].dumping # "running"
              /\ job[b].dumping = "ended" => dump[b].whole

ManifestIsOfSnapshot(b) ==
    manifest[b] # Nothing =>
        job[b].step = "completed" /\ manifest[b].counts = CountsOf[job[b].snapshot]

Sound(b) == Fresh(b) /\ CountsAreOfSnapshot(b) /\ DumpIsOfSnapshot(b) /\ ManifestIsOfSnapshot(b)

SetsAreSound == \A b \in Sets : Sound(b)

RestoreIsSound(r) ==
    /\ restore[r].step # "idle" =>
         /\ restore[r].set \in Sets /\ restore[r].target \in Targets
         /\ job[restore[r].set].step = "completed"
    /\ restore[r].step \in {"loaded", "verified"} =>
         Held(r) = [state |-> "filled", of |-> job[restore[r].set].snapshot]

RestoresAreSound == \A r \in Restores : RestoreIsSound(r)

Enough(sets, b) == Cardinality(Younger(sets, b)) >= MinimumBackups

\* What a prune knows, v, is out of date at worst in that there is more.
PlanIsSound(v) ==
    /\ v.token # Nothing => v.token \in shown
    /\ v.checked \subseteq v.found
    /\ \A b \in v.found \cup v.plan : job[b].step = "completed"
    /\ \A b \in v.found : Enough(v.found, b) => Enough(Listed, b)
    /\ v.plan # {} => v.token \in shown /\ v.plan \subseteq v.token
    /\ \A b \in v.plan : job[b].created + Retention < now /\ Enough(Listed, b)

PruneIsSound(p) == PlanIsSound(prune[p])

PrunesAreSound == \A p \in Prunes : PruneIsSound(p)

Sane == TypeOK /\ SetsAreSound /\ RestoresAreSound /\ PrunesAreSound

-----------------------------------------------------------------------------
(* The backups: types.                                                     *)

LEMMA InitTypes == Init => TypeOK
<1> SUFFICES ASSUME Init PROVE TypeOK
  OBVIOUS
<1>1. Len(Earlier) \in Nat /\ DOMAIN Earlier = 1..Len(Earlier)
  BY EarlierAreSets, LenProperties
<1>2. 0 \in Content /\ 0 \in Times /\ now \in Times /\ changes \in Content
  BY <1>1, Numbers, EarlierAreInTime DEF Init, Content, Times
<1>3. CountsOf[0] \in Nat
  BY Counted, <1>2 DEF Content
<1>4. dump \in [Sets -> Dump \cup {Nothing}] /\ manifest \in [Sets -> Manifest \cup {Nothing}]
  BY <1>2, <1>3 DEF Init, Dump, Manifest
<1>5. NoJob \in Job
  BY <1>2 DEF NoJob, Job
<1>6. ASSUME NEW b \in There
      PROVE  OldJob(CHOOSE i \in DOMAIN Earlier : Earlier[i] = b) \in Job
  <2>1. PICK t \in DOMAIN Earlier : t = CHOOSE i \in DOMAIN Earlier : Earlier[i] = b
    BY DEF There
  <2>2. t \in Times
    BY <1>1, <2>1, Numbers, EarlierAreInTime DEF Times
  <2>3. OldJob(t) \in Job
    BY <1>5, <2>2 DEF OldJob, Job
  <2> QED
    BY <2>1, <2>3
<1>7. job \in [Sets -> Job]
  BY <1>5, <1>6 DEF Init
<1>8. prune \in [Prunes -> Prune]
  BY DEF Init, NoPrune, Prune
<1>9. restore \in [Restores -> Restore]
  BY DEF Init, NoRestore, Restore
<1>10. restored \in [Targets -> Target]
  BY <1>2 DEF Init, Target
<1> QED
  BY <1>2, <1>4, <1>7, <1>8, <1>9, <1>10 DEF TypeOK, Init

LEMMA JobIsTyped ==
    ASSUME TypeOK, NEW b \in Sets
    PROVE  /\ job[b] \in Job /\ job[b].snapshot \in Content /\ job[b].created \in Times
           /\ job[b].counts \in Nat /\ CountsOf[job[b].snapshot] \in Nat
BY Counted DEF TypeOK, Job, Content

LEMMA JobMoves ==
    ASSUME TypeOK, NEW b \in Sets,
           NEW step \in {"closing", "described", "removing", "completed", "failed", "dead"}, To(b, step)
    PROVE  job' \in [Sets -> Job]
<1>1. job[b] \in Job
  BY DEF TypeOK
<1>2. [job[b] EXCEPT !.step = step] \in Job
  BY <1>1 DEF Job
<1> QED
  BY <1>2 DEF To, TypeOK

\* Steps of backup.js.
LEMMA BackupTypes == ASSUME TypeOK, NEW b \in Sets, Backup(b) PROVE TypeOK'
<1> USE DEF TypeOK
<1>0. /\ job[b] \in Job /\ job[b].snapshot \in Content /\ job[b].created \in Times
      /\ job[b].counts \in Nat /\ CountsOf[job[b].snapshot] \in Nat
  BY JobIsTyped
<1>1. CASE Start(b)
  <2>1. job' \in [Sets -> Job]
    <3>1. [job[b] EXCEPT !.step = "identified", !.created = now] \in Job
      BY <1>0 DEF Job
    <3>2. job' = [job EXCEPT ![b] = [job[b] EXCEPT !.step = "identified", !.created = now]]
      BY <1>1 DEF Start
    <3> QED
      BY <3>1, <3>2
  <2> QED
    BY <1>1, <2>1 DEF Start, Aside, files
<1>2. CASE OpenSnapshot(b)
  <2>1. job' \in [Sets -> Job]
    <3>1. [job[b] EXCEPT !.step = "dumping", !.snapshot = changes, !.dumping = "running",
                       !.writing = "open"] \in Job
      BY <1>0 DEF Job
    <3>2. [job[b] EXCEPT !.step = "removing"] \in Job
      BY <1>0 DEF Job
    <3>3. \/ job' = [job EXCEPT ![b] = [job[b] EXCEPT !.step = "dumping", !.snapshot = changes, !.dumping = "running",
                       !.writing = "open"]]
          \/ job' = [job EXCEPT ![b] = [job[b] EXCEPT !.step = "removing"]]
      BY <1>2 DEF OpenSnapshot, To
    <3> QED
      BY <3>1, <3>2, <3>3
  <2> QED
    BY <1>2, <2>1 DEF OpenSnapshot, Aside, files
<1>3. CASE Capture(b)
  <2>1. job' \in [Sets -> Job]
    <3>1. [job[b] EXCEPT !.captured = "done", !.counts = CountsOf[job[b].snapshot]] \in Job
      BY <1>0 DEF Job
    <3>2. [job[b] EXCEPT !.captured = "failed"] \in Job
      BY <1>0 DEF Job
    <3>3. \/ job' = [job EXCEPT ![b] = [job[b] EXCEPT !.captured = "done", !.counts = CountsOf[job[b].snapshot]]]
          \/ job' = [job EXCEPT ![b] = [job[b] EXCEPT !.captured = "failed"]]
      BY <1>3 DEF Capture, Counts
    <3> QED
      BY <3>1, <3>2, <3>3
  <2> QED
    BY <1>3, <2>1 DEF Capture, Aside, files
<1>4. CASE EndDump(b)
  <2>1. job' \in [Sets -> Job]
    <3>1. [job[b] EXCEPT !.dumping = "ended"] \in Job
      BY <1>0 DEF Job
    <3>2. [job[b] EXCEPT !.dumping = "broken"] \in Job
      BY <1>0 DEF Job
    <3>3. \/ job' = [job EXCEPT ![b] = [job[b] EXCEPT !.dumping = "ended"]]
          \/ job' = [job EXCEPT ![b] = [job[b] EXCEPT !.dumping = "broken"]]
      BY <1>4 DEF EndDump
    <3> QED
      BY <3>1, <3>2, <3>3
  <2> QED
    BY <1>4, <2>1 DEF EndDump, Aside, files
<1>5. CASE Publish(b)
  <2>1. job' \in [Sets -> Job]
    <3>1. [job[b] EXCEPT !.writing = "published"] \in Job
      BY <1>0 DEF Job
    <3>2. [job[b] EXCEPT !.writing = "failed"] \in Job
      BY <1>0 DEF Job
    <3>3. \/ job' = [job EXCEPT ![b] = [job[b] EXCEPT !.writing = "published"]]
          \/ job' = [job EXCEPT ![b] = [job[b] EXCEPT !.writing = "failed"]]
      BY <1>5 DEF Publish
    <3> QED
      BY <3>1, <3>2, <3>3
  <2>2. [of |-> job[b].snapshot, whole |-> job[b].dumping = "ended", intact |-> TRUE] \in Dump
    BY <1>0 DEF Dump
  <2>3. dump' \in [Sets -> Dump \cup {Nothing}]
    BY <1>5, <2>2, ZenonT(60) DEF Publish
  <2> QED
    BY <1>5, <2>1, <2>3 DEF Publish, Aside
<1>6. CASE Await(b)
  <2>1. job' \in [Sets -> Job]
    <3>1. [job[b] EXCEPT !.step = "closing"] \in Job
      BY <1>0 DEF Job
    <3>2. [job[b] EXCEPT !.step = "failing",
                       !.dumping = IF @ = "running" THEN "broken" ELSE @] \in Job
      BY <1>0 DEF Job
    <3>3. \/ job' = [job EXCEPT ![b] = [job[b] EXCEPT !.step = "closing"]]
          \/ job' = [job EXCEPT ![b] = [job[b] EXCEPT !.step = "failing",
                       !.dumping = IF @ = "running" THEN "broken" ELSE @]]
      BY <1>6 DEF Await, To
    <3> QED
      BY <3>1, <3>2, <3>3
  <2> QED
    BY <1>6, <2>1 DEF Await, Aside, files
<1>7. CASE Close(b)
  <2>1. job' \in [Sets -> Job]
    BY <1>7, JobMoves DEF Close
  <2> QED
    BY <1>7, <2>1 DEF Close, Aside, files
<1>8. CASE PublishManifest(b)
  <2>1. job' \in [Sets -> Job]
    BY <1>8, JobMoves DEF PublishManifest
  <2>2. [counts |-> job[b].counts, intact |-> TRUE] \in Manifest
    BY <1>0 DEF Manifest
  <2>3. manifest' \in [Sets -> Manifest \cup {Nothing}]
    BY <1>8, <2>2 DEF PublishManifest
  <2> QED
    BY <1>8, <2>1, <2>3 DEF PublishManifest, Aside
<1>9. CASE Remove(b)
  <2>1. job' \in [Sets -> Job]
    BY <1>9, JobMoves DEF Remove
  <2>2. dump' \in [Sets -> Dump \cup {Nothing}]
    BY <1>9 DEF Remove
  <2> QED
    BY <1>9, <2>1, <2>2 DEF Remove, Aside
<1>10. CASE Die(b)
  <2>1. job' \in [Sets -> Job]
    BY <1>10, JobMoves DEF Die
  <2> QED
    BY <1>10, <2>1 DEF Die, Aside, files
<1> QED
  BY <1>1, <1>2, <1>3, <1>4, <1>5, <1>6, <1>7, <1>8, <1>9, <1>10 DEF Backup

\* Steps of prune.js.
LEMMA PruneTypes == ASSUME TypeOK, NEW p \in Prunes, Pruning(p) PROVE TypeOK'
<1> USE DEF TypeOK
<1>0. NoPrune \in Prune /\ prune[p] \in Prune
  BY DEF NoPrune, Prune
<1>1. CASE List(p)
  <2>1. Listed \in SUBSET Sets
    BY DEF Listed
  <2>2. PICK token \in (SUBSET Sets) \cup {Nothing} :
          prune' = [prune EXCEPT ![p] =
             [NoPrune EXCEPT !.step = "checking", !.token = token, !.found = Listed]]
    BY <1>1 DEF List
  <2>3. [NoPrune EXCEPT !.step = "checking", !.token = token, !.found = Listed] \in Prune
    BY <1>0, <2>1 DEF Prune
  <2>4. prune' \in [Prunes -> Prune]
    BY <2>2, <2>3
  <2> QED
    BY <1>1, <2>4 DEF List, Besides, files
<1>2. ASSUME NEW b \in Sets, Check(p, b) PROVE TypeOK'
  <2>1. prune' \in [Prunes -> Prune]
    BY <1>0, <1>2 DEF Check, Prune
  <2> QED
    BY <1>2, <2>1 DEF Check, Besides, files
<1>3. CASE Quit(p)
  BY <1>0, <1>3 DEF Quit, Besides, files
<1>4. CASE Plan(p)
  <2> DEFINE plan == Expired(prune[p].checked)
  <2>1. plan \in SUBSET Sets
    BY <1>0 DEF Expired, Prune
  <2>2. [NoPrune EXCEPT !.step = "deleting", !.token = prune[p].token, !.plan = plan] \in Prune
    BY <1>0, <2>1 DEF Prune
  <2>3. prune' \in [Prunes -> Prune]
    BY <1>0, <1>4, <2>2 DEF Plan
  <2>4. shown' \subseteq SUBSET Sets
    BY <1>4, <2>1 DEF Plan
  <2> QED
    BY <1>4, <2>3, <2>4 DEF Plan, Besides, files
<1>5. CASE Delete(p)
  <2>1. dump' \in [Sets -> Dump \cup {Nothing}] /\ manifest' \in [Sets -> Manifest \cup {Nothing}]
    BY <1>5 DEF Delete, files
  <2>2. prune' \in [Prunes -> Prune]
    BY <1>0, <1>5 DEF Delete, Prune
  <2> QED
    BY <1>5, <2>1, <2>2 DEF Delete, Besides
<1> QED
  BY <1>1, <1>2, <1>3, <1>4, <1>5 DEF Pruning

LEMMA RestoreMoves ==
    ASSUME TypeOK, NEW r \in Restores,
           NEW step \in {"empty", "ready", "authentic", "loaded", "verified", "over"}, Go(r, step)
    PROVE  restore' \in [Restores -> Restore]
<1>1. restore[r] \in Restore
  BY DEF TypeOK
<1>2. [restore[r] EXCEPT !.step = step] \in Restore
  BY <1>1 DEF Restore
<1> QED
  BY <1>2 DEF Go, TypeOK

\* Steps of restore.js.
LEMMA RestoreTypes ==
    ASSUME TypeOK, NEW r \in Restores, RestoreIsSound(r), Restoring(r)
    PROVE  TypeOK'
<1>1. CASE Read(r)
  <2>1. PICK b \in Listed, d \in Targets :
          restore' = [restore EXCEPT ![r] =
             [step |-> "checked", set |-> b, target |-> d, counts |-> manifest[b].counts]]
    BY <1>1 DEF Read
  <2>2. b \in Sets /\ manifest[b] \in Manifest
    BY DEF Listed, TypeOK
  <2>3. [step |-> "checked", set |-> b, target |-> d, counts |-> manifest[b].counts] \in Restore
    BY <2>2 DEF Restore, Manifest
  <2>4. restore' \in [Restores -> Restore]
    BY <2>1, <2>3 DEF TypeOK
  <2> QED
    BY <1>1, <2>4 DEF Read, Apart, files, TypeOK
<1>2. CASE Load(r)
  <2> DEFINE d == dump[restore[r].set]
  <2>1. PICK step \in {"loaded", "over"} : Go(r, step)
    BY <1>2 DEF Load
  <2>2. restore' \in [Restores -> Restore]
    BY <2>1, RestoreMoves
  <2>3. restore[r].set \in Sets /\ restore[r].target \in Targets
    BY <1>2 DEF Load, AtRestore, RestoreIsSound
  <2>4. d \in Dump
    BY <1>2, <2>3 DEF Load, TypeOK
  <2>5. [state |-> IF d.intact THEN "filled" ELSE "garbage", of |-> d.of] \in Target
    BY <2>4 DEF Dump, Target
  <2>6. restored' \in [Targets -> Target]
    BY <1>2, <2>5 DEF Load, TypeOK
  <2> QED
    BY <1>2, <2>2, <2>6 DEF Load, Apart, files, TypeOK
<1>3. CASE GiveUp(r) \/ AssertEmpty(r) \/ Prepare(r) \/ Authenticate(r) \/ Verify(r)
  <2>1. PICK step \in {"empty", "ready", "authentic", "verified", "over"} : Go(r, step)
    BY <1>3 DEF GiveUp, AssertEmpty, Prepare, Authenticate, Verify
  <2>2. restore' \in [Restores -> Restore]
    BY <2>1, RestoreMoves
  <2> QED
    BY <1>3, <2>2 DEF GiveUp, AssertEmpty, Prepare, Authenticate, Verify, Apart, files, TypeOK
<1> QED
  BY <1>1, <1>2, <1>3 DEF Restoring

LEMMA DamageTypes == ASSUME TypeOK, NEW b \in Sets, Damage(b) PROVE TypeOK'
<1>1. dump[b] # Nothing => [dump[b] EXCEPT !.intact = FALSE] \in Dump
  <2>1. dump[b] # Nothing => dump[b] \in Dump
    BY DEF TypeOK
  <2> QED
    BY <2>1 DEF Dump
<1>2. manifest[b] # Nothing => [manifest[b] EXCEPT !.intact = FALSE] \in Manifest
  <2>1. manifest[b] # Nothing => manifest[b] \in Manifest
    BY DEF TypeOK
  <2> QED
    BY <2>1 DEF Manifest
<1>3. dump' \in [Sets -> Dump \cup {Nothing}] /\ manifest' \in [Sets -> Manifest \cup {Nothing}]
  <2>1. dump \in [Sets -> Dump \cup {Nothing}] /\ manifest \in [Sets -> Manifest \cup {Nothing}]
    BY DEF TypeOK
  <2>2. CASE dump[b] # Nothing /\ dump' = [dump EXCEPT ![b].intact = FALSE] /\ manifest' = manifest
    <3>1. dump' = [dump EXCEPT ![b] = [dump[b] EXCEPT !.intact = FALSE]]
      BY <2>2
    <3> QED
      BY <1>1, <2>1, <2>2, <3>1
  <2>3. CASE manifest[b] # Nothing /\ manifest' = [manifest EXCEPT ![b].intact = FALSE] /\ dump' = dump
    <3>1. manifest' = [manifest EXCEPT ![b] = [manifest[b] EXCEPT !.intact = FALSE]]
      BY <2>3
    <3> QED
      BY <1>2, <2>1, <2>3, <3>1
  <2> QED
    BY <2>2, <2>3 DEF Damage
<1> QED
  BY <1>3 DEF Damage, TypeOK

LEMMA NextTypes == TypeOK /\ RestoresAreSound /\ [Next]_vars => TypeOK'
<1> SUFFICES ASSUME TypeOK, RestoresAreSound, [Next]_vars PROVE TypeOK'
  OBVIOUS
<1>1. CASE UNCHANGED vars
  BY <1>1 DEF vars, files, TypeOK
<1>2. CASE Change \/ Tick
  BY <1>2, Numbers DEF Change, Tick, files, TypeOK, Content, Times
<1>3. ASSUME NEW b \in Sets, Backup(b) \/ Damage(b) PROVE TypeOK'
  BY <1>3, BackupTypes, DamageTypes
<1>4. ASSUME NEW p \in Prunes, Pruning(p) PROVE TypeOK'
  BY <1>4, PruneTypes
<1>5. ASSUME NEW r \in Restores, Restoring(r) PROVE TypeOK'
  BY <1>5, RestoreTypes DEF RestoresAreSound
<1> QED
  BY <1>1, <1>2, <1>3, <1>4, <1>5 DEF Next

-----------------------------------------------------------------------------
(* The backups: the sets.                                                  *)

LEMMA InitSound == Init => SetsAreSound
<1> SUFFICES ASSUME Init, NEW b \in Sets PROVE Sound(b)
  BY DEF SetsAreSound
<1>1. CASE b \in There
  <2>1. /\ job[b].step = "completed" /\ job[b].snapshot = 0 /\ job[b].captured = "open"
        /\ job[b].dumping = "off" /\ job[b].writing = "off"
    BY <1>1 DEF Init, OldJob, NoJob
  <2>2. /\ dump[b].of = 0 /\ dump[b].whole = TRUE /\ manifest[b].counts = CountsOf[0]
    BY <1>1 DEF Init
  <2> QED
    BY <2>1, <2>2 DEF Sound, Fresh, CountsAreOfSnapshot, DumpIsOfSnapshot, ManifestIsOfSnapshot
<1>2. CASE b \notin There
  <2>1. job[b] = NoJob /\ dump[b] = Nothing /\ manifest[b] = Nothing
    BY <1>2 DEF Init
  <2> QED
    BY <2>1 DEF NoJob, Sound, Fresh, CountsAreOfSnapshot, DumpIsOfSnapshot, ManifestIsOfSnapshot
<1> QED
  BY <1>1, <1>2

\* A file is left as it is, damaged or removed.
DumpIsLeft(b) ==
    \/ dump'[b] = dump[b]
    \/ dump'[b] = Nothing
    \/ dump[b] # Nothing /\ dump'[b].of = dump[b].of /\ dump'[b].whole = dump[b].whole

ManifestIsLeft(b) ==
    \/ manifest'[b] = manifest[b]
    \/ manifest'[b] = Nothing
    \/ manifest[b] # Nothing /\ manifest'[b].counts = manifest[b].counts

\* Nothing happens to a set but to its files.
LEMMA LeftSound ==
    ASSUME NEW b \in Sets, Sound(b), job'[b] = job[b], DumpIsLeft(b), ManifestIsLeft(b)
    PROVE  Sound(b)'
<1>1. Fresh(b)'
  BY DEF Sound, Fresh, DumpIsLeft, ManifestIsLeft
<1>2. CountsAreOfSnapshot(b)'
  BY DEF Sound, CountsAreOfSnapshot
<1>3. DumpIsOfSnapshot(b)'
  BY DEF Sound, DumpIsOfSnapshot, DumpIsLeft
<1>4. ManifestIsOfSnapshot(b)'
  BY DEF Sound, ManifestIsOfSnapshot, ManifestIsLeft
<1> QED
  BY <1>1, <1>2, <1>3, <1>4 DEF Sound

\* Nobody but its own run does anything else to a set.
LEMMA OthersLeave ==
    ASSUME TypeOK, [Next]_vars, NEW b \in Sets, ~Backup(b)
    PROVE  job'[b] = job[b] /\ DumpIsLeft(b) /\ ManifestIsLeft(b)
<1>1. CASE UNCHANGED vars
  BY <1>1 DEF vars, files, DumpIsLeft, ManifestIsLeft
<1>2. CASE Change \/ Tick
  BY <1>2 DEF Change, Tick, files, DumpIsLeft, ManifestIsLeft
<1>3. ASSUME NEW c \in Sets \ {b}, Backup(c) PROVE job'[b] = job[b] /\ DumpIsLeft(b) /\ ManifestIsLeft(b)
  <2>1. job'[b] = job[b]
    BY <1>3 DEF TypeOK, Backup, Start, OpenSnapshot, Capture, EndDump, Publish, Await, Close,
                PublishManifest, Remove, Die, To
  <2>2. dump'[b] = dump[b] /\ manifest'[b] = manifest[b]
    BY <1>3 DEF TypeOK, Backup, Start, OpenSnapshot, Capture, EndDump, Publish, Await, Close,
                PublishManifest, Remove, Die, files
  <2> QED
    BY <2>1, <2>2 DEF DumpIsLeft, ManifestIsLeft
<1>4. ASSUME NEW c \in Sets, Damage(c) PROVE job'[b] = job[b] /\ DumpIsLeft(b) /\ ManifestIsLeft(b)
  <2>1. job' = job
    BY <1>4 DEF Damage
  <2>2. CASE c # b
    <3>1. dump'[b] = dump[b] /\ manifest'[b] = manifest[b]
      BY <1>4, <2>2 DEF Damage, TypeOK
    <3> QED
      BY <2>1, <3>1 DEF DumpIsLeft, ManifestIsLeft
  <2>3. CASE c = b
    <3>1. dump[b] # Nothing => dump[b] \in Dump
      BY DEF TypeOK
    <3>2. manifest[b] # Nothing => manifest[b] \in Manifest
      BY DEF TypeOK
    <3>3. DumpIsLeft(b)
      <4>1. \/ dump[b] # Nothing /\ dump'[b] = [dump[b] EXCEPT !.intact = FALSE]
            \/ dump'[b] = dump[b]
        BY <1>4, <2>3 DEF Damage, TypeOK
      <4> QED
        BY <3>1, <4>1 DEF DumpIsLeft, Dump
    <3>4. ManifestIsLeft(b)
      <4>1. \/ manifest[b] # Nothing /\ manifest'[b] = [manifest[b] EXCEPT !.intact = FALSE]
            \/ manifest'[b] = manifest[b]
        BY <1>4, <2>3 DEF Damage, TypeOK
      <4> QED
        BY <3>2, <4>1 DEF ManifestIsLeft, Manifest
    <3> QED
      BY <2>1, <3>3, <3>4
  <2> QED
    BY <2>2, <2>3
<1>5. ASSUME NEW p \in Prunes, Pruning(p) PROVE job'[b] = job[b] /\ DumpIsLeft(b) /\ ManifestIsLeft(b)
  <2>1. job' = job
    BY <1>5 DEF Pruning, List, Check, Quit, Plan, Delete, Besides
  <2>2. CASE UNCHANGED files
    BY <2>1, <2>2 DEF files, DumpIsLeft, ManifestIsLeft
  <2>3. CASE Delete(p)
    BY <2>1, <2>3 DEF Delete, files, DumpIsLeft, ManifestIsLeft, TypeOK
  <2> QED
    BY <1>5, <2>2, <2>3 DEF Pruning, List, Check, Quit, Plan
<1>6. ASSUME NEW r \in Restores, Restoring(r) PROVE job'[b] = job[b] /\ DumpIsLeft(b) /\ ManifestIsLeft(b)
  BY <1>6 DEF Restoring, Read, GiveUp, AssertEmpty, Prepare, Authenticate, Load, Verify, Apart, files,
              DumpIsLeft, ManifestIsLeft
<1> QED
  BY <1>1, <1>2, <1>3, <1>4, <1>5, <1>6 DEF Next

\* What moves on stays the run it is.
LEMMA Moved ==
    ASSUME TypeOK, NEW b \in Sets, NEW step, To(b, step)
    PROVE  /\ job'[b].step = step
           /\ job'[b].created = job[b].created /\ job'[b].snapshot = job[b].snapshot
           /\ job'[b].counts = job[b].counts /\ job'[b].captured = job[b].captured
           /\ job'[b].dumping = job[b].dumping /\ job'[b].writing = job[b].writing
<1>1. job[b] \in Job
  BY DEF TypeOK
<1>2. job'[b] = [job[b] EXCEPT !.step = step]
  BY DEF To, TypeOK
<1> QED
  BY <1>1, <1>2 DEF Job

LEMMA BackupSound == ASSUME TypeOK, NEW b \in Sets, Sound(b), Backup(b) PROVE Sound(b)'
<1> USE DEF Sound, Fresh, CountsAreOfSnapshot, DumpIsOfSnapshot, ManifestIsOfSnapshot
<1>0. job[b] \in Job
  BY DEF TypeOK
<1>1. CASE Start(b)
  <2>1. job'[b] = [job[b] EXCEPT !.step = "identified", !.created = now]
    BY <1>1 DEF Start, TypeOK
  <2>2. /\ job'[b].step = "identified" /\ job'[b].captured = job[b].captured
        /\ job'[b].dumping = job[b].dumping /\ job'[b].writing = job[b].writing
    BY <1>0, <2>1 DEF Job
  <2> QED
    BY <1>1, <2>2 DEF Start, AtJob, files
<1>2. CASE OpenSnapshot(b)
  <2>1. CASE job' = [job EXCEPT ![b].step = "dumping", ![b].snapshot = changes,
                                ![b].dumping = "running", ![b].writing = "open"]
    <3>1. job'[b] = [job[b] EXCEPT !.step = "dumping", !.snapshot = changes, !.dumping = "running",
                                   !.writing = "open"]
      BY <2>1 DEF TypeOK
    <3>2. job'[b].step = "dumping" /\ job'[b].captured = job[b].captured
      BY <1>0, <3>1 DEF Job
    <3> QED
      BY <1>2, <3>2 DEF OpenSnapshot, AtJob, files
  <2>2. CASE To(b, "removing")
    BY <1>2, <2>2, Moved DEF OpenSnapshot, AtJob, files
  <2> QED
    BY <1>2, <2>1, <2>2 DEF OpenSnapshot
<1>3. CASE Capture(b)
  <2>1. \/ job'[b] = [job[b] EXCEPT !.captured = "done", !.counts = Counts(b)]
        \/ job'[b] = [job[b] EXCEPT !.captured = "failed"]
    BY <1>3 DEF Capture, TypeOK
  <2>2. /\ job'[b].step = job[b].step /\ job'[b].snapshot = job[b].snapshot
        /\ job'[b].dumping = job[b].dumping /\ job'[b].writing = job[b].writing
        /\ job'[b].captured = "done" => job'[b].counts = CountsOf[job[b].snapshot]
    BY <1>0, <2>1 DEF Job, Counts
  <2> QED
    BY <1>3, <2>2 DEF Capture, AtJob, files
<1>4. CASE EndDump(b)
  <2>1. \/ job'[b] = [job[b] EXCEPT !.dumping = "ended"]
        \/ job'[b] = [job[b] EXCEPT !.dumping = "broken"]
    BY <1>4 DEF EndDump, TypeOK
  <2>2. /\ job'[b].step = job[b].step /\ job'[b].snapshot = job[b].snapshot
        /\ job'[b].captured = job[b].captured /\ job'[b].counts = job[b].counts
        /\ job'[b].writing = job[b].writing /\ job'[b].dumping \in {"ended", "broken"}
    BY <1>0, <2>1 DEF Job
  <2>3. job[b].dumping = "running"
    BY <1>4 DEF EndDump
  <2> QED
    BY <1>4, <2>2, <2>3 DEF EndDump, files
<1>5. CASE Publish(b)
  <2>1. CASE UNCHANGED dump /\ job' = [job EXCEPT ![b].writing = "failed"]
    <3>1. job'[b] = [job[b] EXCEPT !.writing = "failed"]
      BY <2>1 DEF TypeOK
    <3>2. /\ job'[b].step = job[b].step /\ job'[b].snapshot = job[b].snapshot
          /\ job'[b].captured = job[b].captured /\ job'[b].counts = job[b].counts
          /\ job'[b].dumping = job[b].dumping /\ job'[b].writing = "failed"
      BY <1>0, <3>1 DEF Job
    <3> QED
      BY <1>5, <2>1, <3>2 DEF Publish
  <2>2. CASE job' = [job EXCEPT ![b].writing = "published"]
             /\ dump' = [dump EXCEPT ![b] = [of |-> job[b].snapshot,
                              whole |-> job[b].dumping = "ended", intact |-> TRUE]]
    <3>1. job'[b] = [job[b] EXCEPT !.writing = "published"]
      BY <2>2 DEF TypeOK
    <3>2. /\ job'[b].step = job[b].step /\ job'[b].snapshot = job[b].snapshot
          /\ job'[b].captured = job[b].captured /\ job'[b].counts = job[b].counts
          /\ job'[b].dumping = job[b].dumping /\ job'[b].writing = "published"
      BY <1>0, <3>1 DEF Job
    <3>3. dump'[b].of = job[b].snapshot /\ dump'[b].whole = (job[b].dumping = "ended")
      BY <2>2 DEF TypeOK
    <3>4. job[b].writing = "open" /\ job[b].dumping \in {"ended", "broken"} /\ manifest' = manifest
      BY <1>5 DEF Publish
    <3> QED
      BY <3>2, <3>3, <3>4
  <2> QED
    BY <1>5, <2>1, <2>2 DEF Publish
<1>6. CASE Await(b)
  <2>1. CASE Good(b) /\ To(b, "closing")
    BY <1>6, <2>1, Moved DEF Await, AtJob, Good, Fulfilled, files
  <2>2. CASE job' = [job EXCEPT ![b].step = "failing",
                                ![b].dumping = IF @ = "running" THEN "broken" ELSE @]
    <3>1. job'[b] = [job[b] EXCEPT !.step = "failing",
                                   !.dumping = IF @ = "running" THEN "broken" ELSE @]
      BY <2>2 DEF TypeOK
    <3>2. /\ job'[b].step = "failing" /\ job'[b].snapshot = job[b].snapshot
          /\ job'[b].captured = job[b].captured /\ job'[b].counts = job[b].counts
          /\ job'[b].writing = job[b].writing
          /\ job'[b].dumping = (IF job[b].dumping = "running" THEN "broken" ELSE job[b].dumping)
      BY <1>0, <3>1 DEF Job
    <3> QED
      BY <1>6, <3>2 DEF Await, AtJob, files
  <2> QED
    BY <1>6, <2>1, <2>2 DEF Await
<1>7. CASE Close(b)
  BY <1>7, Moved DEF Close, AtJob, files
<1>8. CASE PublishManifest(b)
  <2>1. CASE To(b, "removing") /\ UNCHANGED manifest
    BY <1>8, <2>1, Moved DEF PublishManifest, AtJob
  <2>2. CASE To(b, "completed") /\ manifest' = [manifest EXCEPT ![b] = [counts |-> job[b].counts, intact |-> TRUE]]
    <3>1. manifest'[b].counts = job[b].counts
      BY <2>2 DEF TypeOK
    <3> QED
      BY <1>8, <2>2, <3>1, Moved DEF PublishManifest, AtJob
  <2> QED
    BY <1>8, <2>1, <2>2 DEF PublishManifest
<1>9. CASE Remove(b)
  <2>1. dump'[b] = Nothing
    BY <1>9 DEF Remove, TypeOK
  <2> QED
    BY <1>9, <2>1, Moved DEF Remove, AtJob
<1>10. CASE Die(b)
  BY <1>10, Moved DEF Die, AtJob, files
<1> QED
  BY <1>1, <1>2, <1>3, <1>4, <1>5, <1>6, <1>7, <1>8, <1>9, <1>10 DEF Backup

LEMMA NextSound == TypeOK /\ SetsAreSound /\ [Next]_vars => SetsAreSound'
<1> SUFFICES ASSUME TypeOK, SetsAreSound, [Next]_vars, NEW b \in Sets PROVE Sound(b)'
  BY DEF SetsAreSound
<1>1. Sound(b)
  BY DEF SetsAreSound
<1>2. CASE Backup(b)
  BY <1>1, <1>2, BackupSound
<1>3. CASE ~Backup(b)
  BY <1>1, <1>3, OthersLeave, LeftSound
<1> QED
  BY <1>2, <1>3

\* A run that has completed never does anything again.
LEMMA CompletedStays ==
    ASSUME TypeOK, SetsAreSound, [Next]_vars, NEW b \in Sets, job[b].step = "completed"
    PROVE  job'[b] = job[b]
<1>1. Sound(b)
  BY DEF SetsAreSound
<1>2. ~Backup(b)
  BY <1>1 DEF Sound, CountsAreOfSnapshot, Backup, Start, OpenSnapshot, Capture, EndDump, Publish, Await,
              Close, PublishManifest, Remove, Die, AtJob
<1> QED
  BY <1>2, OthersLeave

-----------------------------------------------------------------------------
(* The backups: the restores.                                              *)

LEMMA InitRestores == Init => RestoresAreSound
BY DEF Init, NoRestore, RestoresAreSound, RestoreIsSound

\* A database that is filled is not filled again.
LEMMA FilledStays ==
    ASSUME TypeOK, RestoresAreSound, [Next]_vars, NEW d \in Targets, restored[d].state # "empty"
    PROVE  restored'[d] = restored[d]
<1>1. ASSUME NEW r \in Restores, Load(r) PROVE restored'[d] = restored[d]
  <2>1. restore[r].target # d
    BY <1>1 DEF Load, Held
  <2> QED
    BY <1>1, <2>1 DEF Load, TypeOK
<1>2. CASE UNCHANGED restored
  BY <1>2
<1> QED
  BY <1>1, <1>2 DEF Next, vars, Change, Tick, Damage, Backup, Start, OpenSnapshot, Capture, EndDump, Publish,
                    Await, Close, PublishManifest, Remove, Die, Aside, Pruning, List, Check, Quit, Plan,
                    Delete, Besides, Restoring, Read, GiveUp, AssertEmpty, Prepare, Authenticate, Verify

\* The restore itself.
LEMMA RestoringSound ==
    ASSUME Sane, [Next]_vars, NEW r \in Restores, Restoring(r)
    PROVE  RestoreIsSound(r)'
<1>0. TypeOK /\ SetsAreSound /\ RestoresAreSound /\ RestoreIsSound(r) /\ restore[r] \in Restore
  BY DEF Sane, RestoresAreSound, TypeOK
<1>1. job' = job
  BY DEF Restoring, Read, GiveUp, AssertEmpty, Prepare, Authenticate, Load, Verify, Apart
<1>2. CASE Read(r)
  <2>1. PICK b \in Listed, d \in Targets :
          restore' = [restore EXCEPT ![r] =
             [step |-> "checked", set |-> b, target |-> d, counts |-> manifest[b].counts]]
    BY <1>2 DEF Read
  <2>2. restore'[r].step = "checked" /\ restore'[r].set = b /\ restore'[r].target = d
    BY <1>0, <2>1 DEF TypeOK
  <2>3. b \in Sets /\ manifest[b] # Nothing
    BY DEF Listed
  <2>4. job[b].step = "completed"
    BY <1>0, <2>3 DEF SetsAreSound, Sound, ManifestIsOfSnapshot
  <2> QED
    BY <1>1, <2>2, <2>3, <2>4 DEF RestoreIsSound
<1>3. ASSUME NEW step \in {"empty", "ready", "authentic", "verified", "over"}, Go(r, step),
             restore[r].step # "idle", step = "verified" => restore[r].step = "loaded", UNCHANGED restored
      PROVE  RestoreIsSound(r)'
  <2>1. restore'[r] = [restore[r] EXCEPT !.step = step]
    BY <1>0, <1>3 DEF Go, TypeOK
  <2>2. restore'[r].step = step /\ restore'[r].set = restore[r].set
        /\ restore'[r].target = restore[r].target
    BY <1>0, <2>1 DEF Restore
  <2> QED
    BY <1>0, <1>1, <1>3, <2>2 DEF RestoreIsSound, Held
<1>4. CASE Load(r)
  <2> DEFINE b == restore[r].set
             d == dump[b]
             t == restore[r].target
  <2>1. PICK step \in {"loaded", "over"} : Go(r, step) /\ step = (IF Authentic(d) THEN "loaded" ELSE "over")
    BY <1>4 DEF Load
  <2>2. restore'[r] = [restore[r] EXCEPT !.step = step]
    BY <1>0, <2>1 DEF Go, TypeOK
  <2>3. restore'[r].step = step /\ restore'[r].set = b /\ restore'[r].target = t
    BY <1>0, <2>2 DEF Restore
  <2>4. b \in Sets /\ t \in Targets /\ job[b].step = "completed" /\ d # Nothing
    BY <1>0, <1>4 DEF RestoreIsSound, Load, AtRestore
  <2>5. d.of = job[b].snapshot
    BY <1>0, <2>4 DEF SetsAreSound, Sound, DumpIsOfSnapshot
  <2>6. restored'[t] = [state |-> IF d.intact THEN "filled" ELSE "garbage", of |-> d.of]
    BY <1>0, <1>4, <2>4 DEF Load, TypeOK
  <2>7. step = "loaded" => restored'[t] = [state |-> "filled", of |-> job[b].snapshot]
    BY <2>1, <2>5, <2>6 DEF Authentic
  <2> QED
    BY <1>1, <2>1, <2>3, <2>4, <2>7 DEF RestoreIsSound, Held
<1> QED
  BY <1>0, <1>2, <1>3, <1>4 DEF Restoring, GiveUp, AssertEmpty, Prepare, Authenticate, Verify, AtRestore

LEMMA NextRestores == Sane /\ [Next]_vars => RestoresAreSound'
<1> SUFFICES ASSUME Sane, [Next]_vars, NEW r \in Restores PROVE RestoreIsSound(r)'
  BY DEF RestoresAreSound
<1>1. CASE Restoring(r)
  BY <1>1, RestoringSound
<1>2. CASE restore'[r] = restore[r]
  <2>1. TypeOK /\ SetsAreSound /\ RestoresAreSound /\ RestoreIsSound(r)
    BY DEF Sane, RestoresAreSound
  <2>2. restore[r].step # "idle" => job'[restore[r].set] = job[restore[r].set]
    BY <2>1, CompletedStays DEF RestoreIsSound
  <2>3. restore[r].step \in {"loaded", "verified"} => restored'[restore[r].target] = restored[restore[r].target]
    BY <2>1, FilledStays DEF RestoreIsSound, Held
  <2> QED
    BY <1>2, <2>1, <2>2, <2>3 DEF RestoreIsSound, Held
<1> QED
  BY <1>1, <1>2, ZenonT(60) DEF Sane, TypeOK, Next, vars, Change, Tick, Damage, Backup, Start, OpenSnapshot, Capture,
                    EndDump, Publish, Await, Close, PublishManifest, Remove, Die, Aside, Pruning, List, Check,
                    Quit, Plan, Delete, Besides, Restoring, Read, GiveUp, AssertEmpty, Prepare,
                    Authenticate, Load, Verify, Go

-----------------------------------------------------------------------------
(* The backups: the prunes.                                                *)

LEMMA InitPrunes == Init => PrunesAreSound
BY DEF Init, NoPrune, PrunesAreSound, PruneIsSound, PlanIsSound

LEMMA ListedAreCompleted ==
    ASSUME SetsAreSound, NEW b \in Listed
    PROVE  b \in Sets /\ job[b].step = "completed"
BY DEF Listed, SetsAreSound, Sound, ManifestIsOfSnapshot

\* A set disappears from the list by a prune only, which has it in its plan.
LEMMA WhoUnlists ==
    ASSUME Sane, [Next]_vars
    PROVE  \/ Listed \subseteq Listed'
           \/ \E p \in Prunes : \E c \in prune[p].plan : Delete(p) /\ Listed \ {c} \subseteq Listed'
<1>0. TypeOK /\ SetsAreSound
  BY DEF Sane
<1>1. CASE UNCHANGED files
  BY <1>1 DEF files, Listed
<1>2. ASSUME NEW b \in Sets, Backup(b), NEW c \in Listed PROVE c \in Listed'
  <2>1. c \in Sets /\ job[c].step = "completed"
    BY <1>0, ListedAreCompleted
  <2>2. c # b
    BY <1>0, <1>2, <2>1 DEF SetsAreSound, Sound, CountsAreOfSnapshot, Backup, Start, OpenSnapshot, Capture,
                            EndDump, Publish, Await, Close, PublishManifest, Remove, Die, AtJob
  <2>3. dump'[c] = dump[c] /\ manifest'[c] = manifest[c]
    BY <1>0, <1>2, <2>1, <2>2 DEF TypeOK, Backup, Start, OpenSnapshot, Capture, EndDump, Publish, Await,
                                  Close, PublishManifest, Remove, Die, files
  <2> QED
    BY <2>1, <2>3 DEF Listed
<1>3. ASSUME NEW b \in Sets, Damage(b), NEW c \in Listed PROVE c \in Listed'
  <2>1. \A x \in Sets : dump[x] # Nothing => dump'[x] # Nothing
    <3>1. dump[b] # Nothing => [dump[b] EXCEPT !.intact = FALSE] # Nothing
      <4>1. dump[b] # Nothing => dump[b] \in Dump
        BY <1>0 DEF TypeOK
      <4>2. dump[b] # Nothing => [dump[b] EXCEPT !.intact = FALSE] \in Dump
        BY <4>1 DEF Dump
      <4> QED
        BY <4>2, NothingIsNoFile
    <3> QED
      BY <1>0, <1>3, <3>1 DEF Damage, TypeOK
  <2>2. \A x \in Sets : manifest[x] # Nothing => manifest'[x] # Nothing
    <3>1. manifest[b] # Nothing => [manifest[b] EXCEPT !.intact = FALSE] # Nothing
      <4>1. manifest[b] # Nothing => manifest[b] \in Manifest
        BY <1>0 DEF TypeOK
      <4>2. manifest[b] # Nothing => [manifest[b] EXCEPT !.intact = FALSE] \in Manifest
        BY <4>1 DEF Manifest
      <4> QED
        BY <4>2, NothingIsNoFile
    <3> QED
      BY <1>0, <1>3, <3>1 DEF Damage, TypeOK
  <2> QED
    BY <1>3, <2>1, <2>2 DEF Listed
<1>4. ASSUME NEW p \in Prunes, Delete(p)
      PROVE  \E c \in prune[p].plan : Listed \ {c} \subseteq Listed'
  <2>1. PICK c \in Current(p) :
          \A x \in Sets \ {c} : dump'[x] = dump[x] /\ manifest'[x] = manifest[x]
    BY <1>0, <1>4 DEF Delete, TypeOK, files
  <2>2. c \in prune[p].plan
    BY <2>1 DEF Current
  <2> QED
    BY <2>1, <2>2 DEF Listed
<1>5. \/ UNCHANGED files
      \/ \E b \in Sets : Backup(b) \/ Damage(b)
      \/ \E p \in Prunes : Delete(p)
  BY DEF Next, vars, files, Change, Tick, Pruning, List, Check, Quit, Plan, Restoring, Read, GiveUp,
         AssertEmpty, Prepare, Authenticate, Load, Verify, Apart
<1> QED
  BY <1>1, <1>2, <1>3, <1>4, <1>5

LEMMA YoungerIsFinite ==
    ASSUME NEW sets \in SUBSET Sets, NEW b
    PROVE  Younger(sets, b) \in SUBSET Sets /\ IsFiniteSet(Younger(sets, b))
           /\ Cardinality(Younger(sets, b)) \in Nat
<1>1. Younger(sets, b) \in SUBSET Sets
  BY DEF Younger
<1> QED
  BY <1>1, EarlierAreSets, FS_Subset, FS_CardinalityType

\* More younger sets are enough, too.
LEMMA MoreIsEnough ==
    ASSUME NEW V \in SUBSET Sets, NEW W \in SUBSET Sets, V \subseteq W, Cardinality(V) >= MinimumBackups
    PROVE  Cardinality(W) >= MinimumBackups
<1>1. IsFiniteSet(V) /\ IsFiniteSet(W)
  BY EarlierAreSets, FS_Subset
<1>2. Cardinality(V) <= Cardinality(W)
  BY <1>1, FS_Subset
<1>3. Cardinality(V) \in Nat /\ Cardinality(W) \in Nat
  BY <1>1, FS_CardinalityType
<1> QED
  BY <1>2, <1>3, Numbers

\* Once a set has enough younger ones beside it, it always has: what a prune deletes
\* has enough younger ones itself, all of them younger than whatever is older.
LEMMA EnoughStays ==
    ASSUME Sane, [Next]_vars, NEW b \in Sets, job[b].step = "completed", Enough(Listed, b)
    PROVE  Enough(Listed, b)'
<1>0. TypeOK /\ SetsAreSound /\ PrunesAreSound
  BY DEF Sane
<1>1. job'[b] = job[b] /\ \A c \in Listed : c \in Sets /\ job'[c] = job[c]
  BY <1>0, CompletedStays, ListedAreCompleted
<1>2. \A c \in Sets : job[c].created \in Nat
  BY <1>0, JobIsTyped, Numbers DEF Times
<1>3. PICK all : all = Listed'
  OBVIOUS
<1>4. PICK after : after = Younger(all, b)'
  OBVIOUS
<1>5. after = {c \in all : job'[c].created > job'[b].created} /\ all \in SUBSET Sets
  BY <1>3, <1>4 DEF Younger, Listed
<1>6. after \in SUBSET Sets
  BY <1>5
<1>7. CASE Younger(Listed, b) \subseteq after
  <2>1. Younger(Listed, b) \in SUBSET Sets
    BY <1>1 DEF Younger
  <2>2. Cardinality(after) >= MinimumBackups
    BY <1>6, <1>7, <2>1, MoreIsEnough DEF Enough
  <2> QED
    BY <1>3, <1>4, <2>2 DEF Enough, Younger
<1>8. CASE Listed \subseteq all
  <2>1. Younger(Listed, b) \subseteq after
    BY <1>1, <1>5, <1>8 DEF Younger
  <2> QED
    BY <1>7, <2>1
<1>9. ASSUME NEW p \in Prunes, NEW c \in prune[p].plan, Listed \ {c} \subseteq all
      PROVE  Enough(Listed, b)'
  <2>1. Enough(Listed, c) /\ c \in Sets
    BY <1>0 DEF PrunesAreSound, PruneIsSound, PlanIsSound, TypeOK, Prune
  <2>2. CASE job[c].created > job[b].created
    <3>1. Younger(Listed, c) \subseteq after
      BY <1>1, <1>2, <1>5, <1>9, <2>1, <2>2 DEF Younger
    <3>2. Younger(Listed, c) \in SUBSET Sets
      BY <1>1 DEF Younger
    <3>3. Cardinality(after) >= MinimumBackups
      BY <1>6, <2>1, <3>1, <3>2, MoreIsEnough DEF Enough
    <3> QED
      BY <1>3, <1>4, <3>3 DEF Enough, Younger
  <2>3. CASE ~(job[c].created > job[b].created)
    <3>1. Younger(Listed, b) \subseteq after
      BY <1>1, <1>5, <1>9, <2>3 DEF Younger
    <3> QED
      BY <1>7, <3>1
  <2> QED
    BY <2>2, <2>3
<1> QED
  BY <1>3, <1>8, <1>9, WhoUnlists

LEMMA SoundOfPlan ==
    ASSUME NEW p \in Prunes, NEW CONSTANT v, v = prune'[p], PlanIsSound(v)'
    PROVE  PruneIsSound(p)'
BY DEF PruneIsSound, PlanIsSound, Enough, Younger

\* What a prune knows stays sound while others work.
LEMMA WaitingSound ==
    ASSUME Sane, [Next]_vars, NEW CONSTANT v \in Prune, PlanIsSound(v)
    PROVE  PlanIsSound(v)'
<1>0. TypeOK /\ SetsAreSound
  BY DEF Sane
<1>1. \A b \in v.found \cup v.plan : b \in Sets /\ job[b].step = "completed" /\ job'[b] = job[b]
  BY <1>0, CompletedStays DEF PlanIsSound, Prune
<1>2. shown \subseteq shown' /\ now' \in Nat /\ now \in Nat /\ now <= now'
  <2>1. now \in Nat
    BY <1>0, Numbers DEF TypeOK, Times
  <2>2. now' = now \/ now' = now + 1
    BY DEF Next, vars, Change, Tick, Damage, Backup, Start, OpenSnapshot, Capture, EndDump, Publish,
           Await, Close, PublishManifest, Remove, Die, Aside, Pruning, List, Check, Quit, Plan, Delete,
           Besides, Restoring, Read, GiveUp, AssertEmpty, Prepare, Authenticate, Load, Verify, Apart
  <2>3. shown' = shown \/ \E p \in Prunes : Plan(p)
    BY DEF Next, vars, Change, Tick, Damage, Backup, Start, OpenSnapshot, Capture, EndDump, Publish,
           Await, Close, PublishManifest, Remove, Die, Aside, Pruning, List, Check, Quit, Delete,
           Restoring, Read, GiveUp, AssertEmpty, Prepare, Authenticate, Load, Verify, Apart
  <2>4. shown \subseteq shown'
    BY <2>3 DEF Plan
  <2> QED
    BY <2>1, <2>2, <2>4
<1>3. \A b \in v.found : Enough(v.found, b)' <=> Enough(v.found, b)
  <2>1. \A b \in v.found : Younger(v.found, b)' = Younger(v.found, b)
    BY <1>1 DEF Younger
  <2> QED
    BY <2>1 DEF Enough
<1>4. \A b \in v.found \cup v.plan : Enough(Listed, b) => Enough(Listed, b)'
  BY <1>1, EnoughStays
<1>5. \A b \in v.plan : job[b].created + Retention < now => job'[b].created + Retention < now'
  <2>1. \A b \in v.plan : job[b].created \in Nat /\ job'[b].created = job[b].created
    BY <1>0, <1>1, JobIsTyped, Numbers DEF Times
  <2> QED
    BY <1>2, <2>1, Numbers
<1> QED
  BY <1>1, <1>2, <1>3, <1>4, <1>5 DEF PlanIsSound

\* The prune itself.
LEMMA PruningSound ==
    ASSUME Sane, [Next]_vars, NEW p \in Prunes, Pruning(p)
    PROVE  PruneIsSound(p)'
<1>0. TypeOK /\ SetsAreSound /\ PlanIsSound(prune[p]) /\ prune[p] \in Prune /\ NoPrune \in Prune
  BY DEF Sane, PrunesAreSound, PruneIsSound, TypeOK, NoPrune, Prune
<1>1. CASE List(p)
  <2>1. PICK token \in shown \cup {Nothing} :
          prune' = [prune EXCEPT ![p] =
             [NoPrune EXCEPT !.step = "checking", !.token = token, !.found = Listed]]
    BY <1>1 DEF List
  <2>2. PICK v : v = prune'[p]
    OBVIOUS
  <2>3. v.token = token /\ v.found = Listed /\ v.checked = {} /\ v.plan = {}
    BY <1>0, <2>1, <2>2 DEF TypeOK, NoPrune
  <2>4. job' = job /\ shown' = shown /\ Listed' = Listed
    BY <1>1 DEF List, Besides, files, Listed
  <2>5. \A b \in v.found : job'[b].step = "completed"
    BY <1>0, <2>3, <2>4, ListedAreCompleted
  <2>6. \A b \in v.found : Enough(v.found, b)' => Enough(Listed, b)'
    <3>1. \A b : Younger(v.found, b)' = Younger(Listed, b)'
      BY <2>3, <2>4 DEF Younger
    <3> QED
      BY <3>1 DEF Enough
  <2>7. PlanIsSound(v)'
    BY <2>3, <2>4, <2>5, <2>6 DEF PlanIsSound
  <2> QED
    BY <2>2, <2>7, SoundOfPlan
<1>2. ASSUME NEW b \in Sets, Check(p, b) PROVE PruneIsSound(p)'
  <2>1. PICK v : v = prune'[p]
    OBVIOUS
  <2>2. v = [prune[p] EXCEPT !.checked = @ \cup {b}]
    BY <1>0, <1>2, <2>1 DEF Check, TypeOK
  <2>3. /\ v.token = prune[p].token /\ v.found = prune[p].found /\ v.plan = prune[p].plan
        /\ v.checked = prune[p].checked \cup {b} /\ v \in Prune
    BY <1>0, <2>2 DEF Prune
  <2>4. b \in prune[p].found
    BY <1>2 DEF Check
  <2>5. PlanIsSound(v)
    BY <1>0, <2>3, <2>4 DEF PlanIsSound
  <2>6. PlanIsSound(v)'
    BY <2>3, <2>5, WaitingSound
  <2> QED
    BY <2>1, <2>6, SoundOfPlan
<1>3. ASSUME prune' = [prune EXCEPT ![p] = NoPrune] PROVE PruneIsSound(p)'
  <2>1. prune'[p] = NoPrune
    BY <1>0, <1>3 DEF TypeOK
  <2>2. PlanIsSound(NoPrune)'
    BY DEF PlanIsSound, NoPrune
  <2> QED
    BY <2>1, <2>2, SoundOfPlan
<1>4. CASE Plan(p) /\ prune' # [prune EXCEPT ![p] = NoPrune]
  <2> DEFINE plan == Expired(prune[p].checked)
  <2>1. /\ prune[p].token # Nothing /\ prune[p].checked = prune[p].found
        /\ prune[p].token = plan
        /\ prune' = [prune EXCEPT ![p] =
              [NoPrune EXCEPT !.step = "deleting", !.token = prune[p].token, !.plan = plan]]
        /\ shown' = shown
    BY <1>4 DEF Plan, Confirmed
  <2>2. PICK v : v = [NoPrune EXCEPT !.step = "deleting", !.token = prune[p].token, !.plan = plan]
    OBVIOUS
  <2>3. v.token = prune[p].token /\ v.plan = plan /\ v.found = {} /\ v.checked = {} /\ v = prune'[p]
    BY <1>0, <2>1, <2>2 DEF NoPrune, TypeOK
  <2>4. plan \subseteq prune[p].found
    BY <2>1 DEF Expired
  <2>5. v \in Prune
    BY <1>0, <2>2, <2>4 DEF Prune
  <2>6. PlanIsSound(v)
    <3>1. \A b \in plan : Enough(prune[p].found, b) /\ job[b].created + Retention < now
      BY <2>1 DEF Expired, Enough
    <3> HIDE DEF plan
    <3> QED
      BY <1>0, <2>1, <2>3, <2>4, <3>1 DEF PlanIsSound
  <2>7. PlanIsSound(v)'
    BY <2>5, <2>6, WaitingSound
  <2> QED
    BY <2>3, <2>7, SoundOfPlan
<1>5. CASE Delete(p)
  <2>1. PICK v : v = prune'[p]
    OBVIOUS
  <2>2. \/ v = prune[p]
        \/ \E b : v = [prune[p] EXCEPT !.plan = @ \ {b}]
    BY <1>0, <1>5, <2>1 DEF Delete, TypeOK
  <2>3. /\ v.token = prune[p].token /\ v.found = prune[p].found /\ v.checked = prune[p].checked
        /\ v.plan \subseteq prune[p].plan /\ v \in Prune
    BY <1>0, <2>2 DEF Prune
  <2>4. PlanIsSound(v)
    BY <1>0, <2>3 DEF PlanIsSound
  <2>5. PlanIsSound(v)'
    BY <2>3, <2>4, WaitingSound
  <2> QED
    BY <2>1, <2>5, SoundOfPlan
<1> QED
  BY <1>1, <1>2, <1>3, <1>4, <1>5 DEF Pruning, Quit

LEMMA NextPrunes == Sane /\ [Next]_vars => PrunesAreSound'
<1> SUFFICES ASSUME Sane, [Next]_vars, NEW p \in Prunes PROVE PruneIsSound(p)'
  BY DEF PrunesAreSound
<1>1. CASE Pruning(p)
  BY <1>1, PruningSound
<1>2. CASE prune'[p] = prune[p]
  <2>1. PICK v : v = prune[p]
    OBVIOUS
  <2>2. PlanIsSound(v) /\ v \in Prune
    BY <2>1 DEF Sane, PrunesAreSound, PruneIsSound, TypeOK
  <2>3. PlanIsSound(v)'
    BY <2>2, WaitingSound
  <2> QED
    BY <1>2, <2>1, <2>3, SoundOfPlan
<1> QED
  BY <1>1, <1>2, ZenonT(60) DEF Sane, TypeOK, Next, vars, Change, Tick, Damage, Backup, Start, OpenSnapshot, Capture,
                    EndDump, Publish, Await, Close, PublishManifest, Remove, Die, Aside, Pruning, List, Check,
                    Quit, Plan, Delete, Restoring, Read, GiveUp, AssertEmpty, Prepare, Authenticate, Load,
                    Verify, Apart

-----------------------------------------------------------------------------
(* The backups: theorems.                                                  *)

THEOREM Sanity == Spec => []Sane
<1>1. Init => Sane
  BY InitTypes, InitSound, InitRestores, InitPrunes DEF Sane
<1>2. Sane /\ [Next]_vars => Sane'
  BY NextTypes, NextSound, NextRestores, NextPrunes DEF Sane
<1> QED
  BY <1>1, <1>2, PTL DEF Spec

\* The state is always well typed.
THEOREM Typing == Spec => []TypeOK
<1>1. Sane => TypeOK
  BY DEF Sane
<1> QED
  BY <1>1, Sanity, PTL

\* Whatever is listed as a backup set has a whole dump, and its manifest counts the
\* rows of the snapshot that was dumped (backup.js:51-146).
THEOREM WholeSets == Spec => []SetsAreWhole
<1>1. Sane => SetsAreWhole
  BY DEF Sane, SetsAreWhole, Listed, SetsAreSound, Sound, DumpIsOfSnapshot, ManifestIsOfSnapshot
<1> QED
  BY <1>1, Sanity, PTL

\* A restore that reports success has filled its database with just what was dumped
\* (restore.js:22-66).
THEOREM Restored == Spec => []RestoredAsDumped
<1>1. Sane => RestoredAsDumped
  BY DEF Sane, RestoredAsDumped, RestoresAreSound, RestoreIsSound, AtRestore
<1> QED
  BY <1>1, Sanity, PTL

\* A prune deletes what it has shown, what is older than the retention and what is
\* not among the newest backups, however many run at once (prune.js:82-103).
THEOREM SafePrunes == Spec => PruneIsSafe
<1>1. ASSUME Sane, [Next]_vars, NEW b \in Sets, Pruned(b)
      PROVE  /\ \E plan \in shown : b \in plan
             /\ job[b].created + Retention < now
             /\ Cardinality(Younger(Listed, b)) >= MinimumBackups
  <2>1. b \in Listed /\ b \notin Listed'
    BY <1>1 DEF Pruned
  <2>2. PICK p \in Prunes : b \in prune[p].plan
    BY <1>1, <2>1, WhoUnlists
  <2>3. PlanIsSound(prune[p])
    BY <1>1 DEF Sane, PrunesAreSound, PruneIsSound
  <2> QED
    BY <2>2, <2>3 DEF PlanIsSound, Enough
<1>2. Sane /\ [Next]_vars =>
        [\A b \in Sets : Pruned(b) =>
           /\ \E plan \in shown : b \in plan
           /\ job[b].created + Retention < now
           /\ Cardinality(Younger(Listed, b)) >= MinimumBackups]_vars
  BY <1>1
<1> QED
  BY <1>2, Sanity, PTL DEF Spec, PruneIsSafe

-----------------------------------------------------------------------------
(* The locks: finite sets.                                                 *)

\* A finite set has a member that no other exceeds: the sets of what exceeds a
\* member are finite, and one of them contains no other.
LEMMA Maximal ==
    ASSUME NEW T, IsFiniteSet(T), T # {}, NEW R,
           \A x \in T : <<x, x>> \notin R,
           \A x, y, z \in T : (<<x, y>> \in R /\ <<y, z>> \in R) => <<x, z>> \in R
    PROVE  \E m \in T : \A x \in T : <<m, x>> \notin R
<1> DEFINE Above(m) == {x \in T : <<m, x>> \in R}
           Uppers == {Above(m) : m \in T}
<1>1. Uppers \subseteq FiniteSubsetsOf(T)
  <2>1. Uppers \subseteq SUBSET T
    BY ZenonT(20)
  <2> HIDE DEF Uppers
  <2> QED
    BY <2>1, FS_FiniteSubsetsOfFinite
<1>2. Uppers # {}
  <2>1. PICK m \in T : TRUE
    OBVIOUS
  <2>2. Above(m) \in Uppers
    OBVIOUS
  <2> QED
    BY <2>2
<1>3. IsWellFoundedOn(StrictSubsetOrdering(T), FiniteSubsetsOf(T))
  BY FS_StrictSubsetOrderingWellFounded
<1>4. PICK s \in Uppers : \A t \in Uppers : <<t, s>> \notin StrictSubsetOrdering(T)
  <2> HIDE DEF Uppers
  <2> QED
    BY <1>1, <1>2, <1>3, WFMin
<1>5. PICK m \in T : s = Above(m)
  BY <1>4
<1>6. ASSUME NEW x \in T, <<m, x>> \in R PROVE FALSE
  <2>1. Above(x) \in Uppers
    OBVIOUS
  <2>2. Above(x) \subseteq Above(m) /\ x \in Above(m) /\ x \notin Above(x)
    BY <1>6
  <2>3. <<Above(x), Above(m)>> \in StrictSubsetOrdering(T)
    <3>1. Above(x) \in SUBSET T /\ Above(m) \in SUBSET T
      OBVIOUS
    <3> HIDE DEF Above
    <3> QED
      BY <2>2, <3>1 DEF StrictSubsetOrdering
  <2> QED
    BY <1>4, <1>5, <2>1, <2>3
<1> QED
  BY <1>6

LEMMA Greatest ==
    ASSUME NEW T \in SUBSET Nat, IsFiniteSet(T), T # {}
    PROVE  \E m \in T : \A x \in T \ {m} : x < m
<1> DEFINE R == {p \in T \X T : p[1] < p[2]}
<1>1. \A x, y \in T : <<x, y>> \in R <=> x < y
  OBVIOUS
<1>2. \A x \in T : x \in Nat
  OBVIOUS
<1> HIDE DEF R
<1>3. \E m \in T : \A x \in T : <<m, x>> \notin R
  <2>1. \A x \in T : <<x, x>> \notin R
    BY <1>1, <1>2
  <2>2. \A x, y, z \in T : (<<x, y>> \in R /\ <<y, z>> \in R) => <<x, z>> \in R
    BY <1>1, <1>2
  <2> QED
    BY <2>1, <2>2, Maximal
<1>4. PICK m \in T : \A x \in T : ~(m < x)
  BY <1>1, <1>3
<1>5. \A x \in T \ {m} : x < m
  BY <1>2, <1>4
<1> QED
  BY <1>5

IsSorting(f, S) ==
    /\ f \in [1 .. Cardinality(S) -> S] /\ Range(f) = S
    /\ \A i, j \in DOMAIN f : i < j => f[i] < f[j]

\* Every finite set of numbers can be sorted: a least one that cannot would be
\* sorted without its greatest member.
LEMMA SortingExists ==
    ASSUME NEW S \in SUBSET Nat, IsFiniteSet(S)
    PROVE  \E f \in [1 .. Cardinality(S) -> S] : IsSorting(f, S)
<1> DEFINE Bad == {T \in SUBSET S : ~ \E f \in [1 .. Cardinality(T) -> T] : IsSorting(f, T)}
<1> SUFFICES ASSUME S \in Bad PROVE FALSE
  OBVIOUS
<1>1. Bad \subseteq FiniteSubsetsOf(S)
  BY FS_FiniteSubsetsOfFinite
<1>2. IsWellFoundedOn(StrictSubsetOrdering(S), FiniteSubsetsOf(S))
  BY FS_StrictSubsetOrderingWellFounded
<1>3. PICK T \in Bad : \A U \in Bad : <<U, T>> \notin StrictSubsetOrdering(S)
  <2> HIDE DEF Bad
  <2> QED
    BY <1>1, <1>2, WFMin
<1>4. T \in SUBSET S /\ IsFiniteSet(T)
  BY <1>3, FS_Subset
<1>5. CASE T = {}
  <2>1. Cardinality(T) = 0
    BY <1>5, FS_EmptySet
  <2> DEFINE f == [i \in 1 .. 0 |-> 0]
  <2>2. f \in [1 .. Cardinality(T) -> T] /\ Range(f) = {} /\ DOMAIN f = {}
    BY <2>1 DEF Range
  <2>3. IsSorting(f, T)
    <3> HIDE DEF f
    <3> QED
      BY <1>5, <2>2 DEF IsSorting
  <2> QED
    BY <1>3, <2>2, <2>3
<1>6. CASE T # {}
  <2>1. PICK m \in T : \A x \in T \ {m} : x < m
    BY <1>4, <1>6, Greatest
  <2> DEFINE U == T \ {m}
             n == Cardinality(U)
  <2>2. U \notin Bad
    <3>1. U \in SUBSET S /\ U \subseteq T /\ U # T
      BY <1>4, <2>1
    <3>2. <<U, T>> \in StrictSubsetOrdering(S)
      BY <1>4, <3>1 DEF StrictSubsetOrdering
    <3> QED
      BY <1>3, <3>2
  <2>3. PICK f \in [1 .. n -> U] : IsSorting(f, U)
    BY <1>4, <2>2
  <2>4. n \in Nat /\ Cardinality(T) = n + 1
    BY <1>4, <2>1, FS_RemoveElement, FS_CardinalityType, FS_Subset
  <2> HIDE DEF n
  <2> DEFINE g == [i \in 1 .. n + 1 |-> IF i = n + 1 THEN m ELSE f[i]]
  <2>5. g \in [1 .. Cardinality(T) -> T]
    BY <2>1, <2>3, <2>4
  <2>6. Range(g) = T
    <3>1. \A x \in U : \E i \in 1 .. n : f[i] = x
      BY <2>3 DEF IsSorting, Range
    <3>2. \A x \in U : \E i \in 1 .. n + 1 : g[i] = x
      BY <2>4, <3>1
    <3>3. g[n + 1] = m /\ n + 1 \in 1 .. n + 1
      BY <2>4
    <3>4. \A x \in T : \E i \in 1 .. n + 1 : g[i] = x
      BY <3>2, <3>3
    <3> QED
      BY <2>4, <2>5, <3>4, ZenonT(60) DEF Range
  <2>7. ASSUME NEW i \in 1 .. n + 1, NEW j \in 1 .. n + 1, i < j PROVE g[i] < g[j]
    <3>1. i \in 1 .. n /\ g[i] = f[i] /\ f[i] \in U
      BY <2>3, <2>4, <2>7
    <3>2. CASE j = n + 1
      BY <2>1, <3>1, <3>2
    <3>3. CASE j # n + 1
      <4>1. j \in 1 .. n /\ g[j] = f[j]
        BY <2>4, <3>3
      <4> QED
        BY <2>3, <2>7, <3>1, <4>1 DEF IsSorting
    <3> QED
      BY <3>2, <3>3
  <2>8. DOMAIN g = 1 .. n + 1
    OBVIOUS
  <2>9. IsSorting(g, T)
    <3> HIDE DEF g
    <3> QED
      BY <2>5, <2>6, <2>7, <2>8 DEF IsSorting
  <2> QED
    BY <1>3, <2>5, <2>9
<1> QED
  BY <1>5, <1>6

LEMMA SortedSorts ==
    ASSUME NEW S \in SUBSET Nat, IsFiniteSet(S)
    PROVE  /\ IsSorting(Sorted(S), S) /\ DOMAIN Sorted(S) = 1 .. Cardinality(S)
           /\ Cardinality(S) \in Nat
<1>1. \E f \in [1 .. Cardinality(S) -> S] : Range(f) = S /\ \A i, j \in DOMAIN f : i < j => f[i] < f[j]
  BY SortingExists DEF IsSorting
<1>2. IsSorting(Sorted(S), S)
  BY <1>1 DEF Sorted, IsSorting
<1> QED
  BY <1>2, FS_CardinalityType DEF IsSorting

-----------------------------------------------------------------------------
(* The locks: their order.                                                 *)

Classes ==
    {"leadDetail", "draft", "reply", "companyName", "companyNameOfNone",
     "projectUrl", "analysis", "destination", "companyRow", "projectRow", "mailRow",
     "leadRow", "opportunity", "opportunityRow"}

Place(class) ==
    CASE class = "leadDetail" -> 1
      [] class = "draft" -> 2
      [] class = "reply" -> 3
      [] class = "companyName" -> 4
      [] class = "companyNameOfNone" -> 5
      [] class = "projectUrl" -> 6
      [] class = "analysis" -> 7
      [] class = "destination" -> 8
      [] class = "companyRow" -> 9
      [] class = "projectRow" -> 10
      [] class = "mailRow" -> 11
      [] class = "leadRow" -> 12
      [] class = "opportunity" -> 13
      [] class = "opportunityRow" -> 14

Owners == Nat \cup {CompanyOf[l] : l \in Leads} \cup {ProjectOf[l] : l \in Leads}

Locks == Classes \X Owners

Before(k, m) ==
    \/ Place(k[1]) < Place(m[1])
    \/ k[1] = m[1] /\ k[2] \in Nat /\ m[2] \in Nat /\ k[2] < m[2]

\* p takes locks of the places from low to high, in their order.
Ordered(p, low, high) ==
    /\ p \in Seq(Locks)
    /\ \A i \in 1 .. Len(p) : Place(p[i][1]) \in low .. high
    /\ \A i, j \in 1 .. Len(p) : i < j => Before(p[i], p[j])

LEMMA Places ==
    /\ Place("leadDetail") = 1 /\ Place("draft") = 2 /\ Place("reply") = 3
    /\ Place("companyName") = 4 /\ Place("companyNameOfNone") = 5
    /\ Place("projectUrl") = 6 /\ Place("analysis") = 7 /\ Place("destination") = 8
    /\ Place("companyRow") = 9 /\ Place("projectRow") = 10 /\ Place("mailRow") = 11
    /\ Place("leadRow") = 12 /\ Place("opportunity") = 13 /\ Place("opportunityRow") = 14
BY DEF Place

LEMMA PlaceIsNumber == \A class \in Classes : Place(class) \in Nat
BY Places DEF Classes

LEMMA LeadIsNumber == \A l \in Leads : l \in Nat
BY LeadsAreNumbered

LEMMA BeforeIsOrder ==
    /\ \A k \in Locks : ~Before(k, k)
    /\ \A k, m, n \in Locks : Before(k, m) /\ Before(m, n) => Before(k, n)
<1>1. \A k \in Locks : Place(k[1]) \in Nat
  BY PlaceIsNumber DEF Locks
<1>2. \A k \in Locks : ~Before(k, k)
  BY <1>1 DEF Before
<1>3. \A k, m, n \in Locks : Before(k, m) /\ Before(m, n) => Before(k, n)
  BY <1>1 DEF Before
<1> QED
  BY <1>2, <1>3

LEMMA Single ==
    ASSUME NEW class \in Classes, NEW owner \in Owners
    PROVE  Ordered(<<Lock(class, owner)>>, Place(class), Place(class))
<1>1. Lock(class, owner) \in Locks /\ Lock(class, owner)[1] = class
  BY DEF Lock, Locks
<1>2. Place(class) \in Nat
  BY PlaceIsNumber
<1> QED
  BY <1>1, <1>2 DEF Ordered

LEMMA Joined ==
    ASSUME NEW low \in Nat, NEW mid \in Nat, NEW next \in Nat, NEW high \in Nat,
           low <= next, mid < next, mid <= high,
           NEW p, NEW q, Ordered(p, low, mid), Ordered(q, next, high)
    PROVE  Ordered(p \o q, low, high)
<1> DEFINE m == Len(p)
           n == Len(q)
<1>1. p \in Seq(Locks) /\ q \in Seq(Locks) /\ m \in Nat /\ n \in Nat
  BY DEF Ordered
<1>2. /\ p \o q \in Seq(Locks) /\ Len(p \o q) = m + n
      /\ \A i \in 1 .. m + n : (p \o q)[i] = IF i <= m THEN p[i] ELSE q[i - m]
  BY <1>1, ConcatProperties
<1>3. ASSUME NEW i \in 1 .. m + n PROVE Place((p \o q)[i][1]) \in low .. high
  <2>1. CASE i <= m
    <3>1. (p \o q)[i] = p[i] /\ i \in 1 .. m
      BY <1>1, <1>2, <2>1
    <3>2. Place(p[i][1]) \in low .. mid
      BY <3>1 DEF Ordered
    <3> QED
      BY <3>1, <3>2
  <2>2. CASE ~(i <= m)
    <3>1. (p \o q)[i] = q[i - m] /\ i - m \in 1 .. n
      BY <1>1, <1>2, <2>2
    <3>2. Place(q[i - m][1]) \in next .. high
      BY <3>1 DEF Ordered
    <3> QED
      BY <3>1, <3>2
  <2> QED
    BY <2>1, <2>2
<1>4. ASSUME NEW i \in 1 .. m + n, NEW j \in 1 .. m + n, i < j
      PROVE  Before((p \o q)[i], (p \o q)[j])
  <2>1. CASE j <= m
    <3>1. /\ i \in 1 .. m /\ j \in 1 .. m
          /\ (p \o q)[i] = p[i] /\ (p \o q)[j] = p[j]
      BY <1>1, <1>2, <1>4, <2>1
    <3> QED
      BY <1>4, <3>1 DEF Ordered
  <2>2. CASE ~(i <= m)
    <3>1. /\ i - m \in 1 .. n /\ j - m \in 1 .. n /\ i - m < j - m
          /\ (p \o q)[i] = q[i - m] /\ (p \o q)[j] = q[j - m]
      BY <1>1, <1>2, <1>4, <2>2
    <3> QED
      BY <3>1 DEF Ordered
  <2>3. CASE i <= m /\ ~(j <= m)
    <3>1. /\ i \in 1 .. m /\ j - m \in 1 .. n
          /\ (p \o q)[i] = p[i] /\ (p \o q)[j] = q[j - m]
      BY <1>1, <1>2, <1>4, <2>3
    <3>2. Place(p[i][1]) \in low .. mid /\ Place(q[j - m][1]) \in next .. high
      BY <3>1 DEF Ordered
    <3>3. Place(p[i][1]) < Place(q[j - m][1])
      BY <3>2
    <3> QED
      BY <3>1, <3>3 DEF Before
  <2> QED
    BY <1>1, <2>1, <2>2, <2>3
<1> QED
  BY <1>2, <1>3, <1>4 DEF Ordered

Sequenced(class, S) == [i \in DOMAIN Sorted(S) |-> Lock(class, Sorted(S)[i])]

\* The locks of a finite set of ids, sorted.
LEMMA SortedIsOrdered ==
    ASSUME NEW class \in Classes, NEW S \in SUBSET Nat, IsFiniteSet(S)
    PROVE  /\ Ordered(Sequenced(class, S), Place(class), Place(class))
           /\ \A x \in S : Lock(class, x) \in Range(Sequenced(class, S))
<1> DEFINE ids == Sorted(S)
           n == Cardinality(S)
           p == [i \in DOMAIN ids |-> Lock(class, ids[i])]
<1>1. /\ ids \in [1 .. n -> S] /\ Range(ids) = S /\ DOMAIN ids = 1 .. n /\ n \in Nat
      /\ \A i, j \in 1 .. n : i < j => ids[i] < ids[j]
  BY SortedSorts DEF IsSorting
<1> HIDE DEF ids, n
<1>2. ASSUME NEW i \in 1 .. n
      PROVE  p[i] = Lock(class, ids[i]) /\ p[i] \in Locks /\ p[i][1] = class /\ p[i][2] = ids[i] /\ ids[i] \in Nat
  BY <1>1, <1>2 DEF Lock, Locks, Owners
<1>3. p \in [1 .. n -> Locks]
  BY <1>1, <1>2
<1>4. p \in Seq(Locks) /\ Len(p) = n
  BY <1>1, <1>3
<1>5. \A i \in 1 .. n : Place(p[i][1]) \in Place(class) .. Place(class)
  BY <1>2, PlaceIsNumber
<1>6. \A i, j \in 1 .. n : i < j => Before(p[i], p[j])
  BY <1>1, <1>2 DEF Before
<1>7. \A x \in S : \E i \in 1 .. n : p[i] = Lock(class, x)
  BY <1>1, <1>2 DEF Range
<1>8. Ordered(p, Place(class), Place(class)) /\ \A x \in S : Lock(class, x) \in Range(p)
  <2>1. DOMAIN p = 1 .. n
    BY <1>1
  <2> QED
    BY <1>4, <1>5, <1>6, <1>7, <2>1 DEF Ordered, Range
<1> QED
  BY <1>8 DEF Sequenced, ids

-----------------------------------------------------------------------------
(* The locks: the programs.                                                *)

LEMMA OwnersAreThere ==
    ASSUME NEW l \in Leads
    PROVE  l \in Owners /\ CompanyOf[l] \in Owners /\ ProjectOf[l] \in Owners
BY LeadIsNumber DEF Owners

LEMMA ClassesAreThere ==
    /\ "leadDetail" \in Classes /\ "draft" \in Classes /\ "reply" \in Classes
    /\ "companyName" \in Classes /\ "companyNameOfNone" \in Classes
    /\ "projectUrl" \in Classes /\ "analysis" \in Classes /\ "destination" \in Classes
    /\ "companyRow" \in Classes /\ "projectRow" \in Classes /\ "mailRow" \in Classes
    /\ "leadRow" \in Classes /\ "opportunity" \in Classes /\ "opportunityRow" \in Classes
BY DEF Classes

LEMMA Pair ==
    ASSUME NEW a \in Classes, NEW b \in Classes, NEW x \in Owners, NEW y \in Owners,
           Place(a) < Place(b)
    PROVE  Ordered(<<Lock(a, x), Lock(b, y)>>, Place(a), Place(b))
<1>1. Lock(a, x) \in Locks /\ Lock(b, y) \in Locks /\ Lock(a, x)[1] = a /\ Lock(b, y)[1] = b
  BY DEF Lock, Locks
<1>2. Place(a) \in Nat /\ Place(b) \in Nat
  BY PlaceIsNumber
<1> QED
  BY <1>1, <1>2 DEF Ordered, Before

LEMMA Wider ==
    ASSUME NEW p, NEW low \in Nat, NEW high \in Nat, Ordered(p, low, high),
           NEW lower \in Nat, NEW higher \in Nat, lower <= low, high <= higher
    PROVE  Ordered(p, lower, higher)
BY DEF Ordered

LEMMA KeysAreOrdered == ASSUME NEW l \in Leads PROVE Ordered(ImportKeys(l), 4, 6)
<1>1. CASE HasProject(l)
  BY <1>1, Pair, Places, OwnersAreThere, ClassesAreThere DEF ImportKeys
<1>2. CASE ~HasProject(l)
  <2>1. Ordered(<<Lock("companyNameOfNone", CompanyOf[l])>>, 5, 5)
    BY Single, Places, OwnersAreThere, ClassesAreThere
  <2> QED
    BY <1>2, <2>1, Wider DEF ImportKeys
<1> QED
  BY <1>1, <1>2

LEMMA DestinationsAreOrdered == ASSUME NEW l \in Leads PROVE Ordered(Destinations(l), 8, 8)
<1>1. DestinationsOf[l] \in Seq(Nat)
  BY DestinationsAreNumbered
<1>2. ASSUME NEW found \in Seq(Nat) PROVE Range(found) \in SUBSET Nat /\ IsFiniteSet(Range(found))
  <2>1. PICK n \in Nat : n = Len(found)
    BY LenProperties
  <2>2. found \in [1 .. n -> Nat]
    BY <2>1, LenProperties
  <2>3. found \in Surjection(1 .. n, Range(found))
    BY <2>2 DEF Surjection, Range
  <2>4. IsFiniteSet(1 .. n)
    BY FS_Interval
  <2> QED
    BY <2>3, <2>4, FS_Surjection, RangeOfSeq
<1> DEFINE keys == Range(DestinationsOf[l])
<1>3. keys \in SUBSET Nat /\ IsFiniteSet(keys)
  BY <1>1, <1>2
<1>4. Destinations(l) = Sequenced("destination", keys)
  BY DEF Destinations, Sequenced
<1> HIDE DEF keys
<1> QED
  BY <1>3, <1>4, SortedIsOrdered, Places, ClassesAreThere

LEMMA AnalysesAreOrdered ==
    ASSUME NEW l \in Leads
    PROVE  /\ Ordered(ProjectAnalyses(l), 7, 7)
           /\ \A k \in Leads : ProjectOf[k] = ProjectOf[l] =>
                 Lock("analysis", k) \in Range(ProjectAnalyses(l))
<1> DEFINE ids == {k \in Leads : ProjectOf[k] = ProjectOf[l]}
<1>1. ids \in SUBSET Nat /\ IsFiniteSet(ids)
  BY LeadsAreNumbered, FS_Subset
<1>2. ProjectAnalyses(l) = Sequenced("analysis", ids)
  BY DEF ProjectAnalyses, Sequenced
<1>3. \A k \in Leads : ProjectOf[k] = ProjectOf[l] => k \in ids
  OBVIOUS
<1> HIDE DEF ids
<1> QED
  BY <1>1, <1>2, <1>3, SortedIsOrdered, Places, ClassesAreThere

LEMMA RowsAreOrdered ==
    ASSUME NEW l \in Leads
    PROVE  Ordered(Rows(l), 12, 12) /\ Ordered(OpportunityOf(l), 13, 14)
BY Single, Pair, Places, OwnersAreThere, ClassesAreThere DEF Rows, OpportunityOf

LEMMA CompanyIsOrdered ==
    ASSUME NEW l \in Leads
    PROVE  /\ Ordered(<<Lock("companyRow", CompanyOf[l])>>, 9, 9)
           /\ Ordered(<<Lock("companyRow", CompanyOf[l]), Lock("projectRow", ProjectOf[l])>>, 9, 10)
BY Single, Pair, Places, OwnersAreThere, ClassesAreThere

LEMMA LeadIsOrdered ==
    ASSUME NEW l \in Leads
    PROVE  /\ Ordered(<<Lock("leadDetail", l)>>, 1, 1)
           /\ Ordered(<<Lock("draft", l), Lock("analysis", l)>>, 2, 7)
           /\ Ordered(<<Lock("reply", l)>>, 3, 3)
           /\ Ordered(<<Lock("analysis", l)>>, 7, 7)
           /\ Ordered(<<Lock("mailRow", l)>>, 11, 11)
           /\ Ordered(<<Lock("opportunity", l)>>, 13, 13)
BY Single, Pair, Places, OwnersAreThere, ClassesAreThere

\* An import takes the analyses of its project after its keys and before any row.
LEMMA ImportIsOrdered ==
    ASSUME NEW l \in Leads
    PROVE  Ordered(Import(l), 4, 13)
<1> DEFINE p1 == ImportKeys(l) \o ProjectAnalyses(l)
           rows == <<Lock("companyRow", CompanyOf[l]), Lock("projectRow", ProjectOf[l])>>
           p2 == p1 \o rows
           p3 == p2 \o Rows(l)
           last == <<Lock("opportunity", l)>>
<1>1. Ordered(p1, 4, 7)
  BY KeysAreOrdered, AnalysesAreOrdered, Joined
<1>2. Ordered(p2, 4, 10)
  <2>1. Ordered(rows, 9, 10)
    BY CompanyIsOrdered
  <2> HIDE DEF p1, rows
  <2> QED
    BY <1>1, <2>1, Joined
<1>3. Ordered(p3, 4, 12)
  <2> HIDE DEF p2
  <2> QED
    BY <1>2, RowsAreOrdered, Joined
<1>4. Ordered(p3 \o last, 4, 13)
  <2>1. Ordered(last, 13, 13)
    BY LeadIsOrdered
  <2> HIDE DEF p3, last
  <2> QED
    BY <1>3, <2>1, Joined
<1> QED
  BY <1>4 DEF Import

LEMMA EditIsOrdered ==
    ASSUME NEW l \in Leads
    PROVE  Ordered(Edit(l), 1, 12)
<1> DEFINE first == <<Lock("leadDetail", l)>>
           p1 == first \o ImportKeys(l)
           row == <<Lock("companyRow", CompanyOf[l])>>
           p2 == p1 \o row
<1>1. Ordered(p1, 1, 6)
  <2>1. Ordered(first, 1, 1)
    BY LeadIsOrdered
  <2> HIDE DEF first
  <2> QED
    BY <2>1, KeysAreOrdered, Joined
<1>2. Ordered(p2, 1, 9)
  <2>1. Ordered(row, 9, 9)
    BY CompanyIsOrdered
  <2> HIDE DEF p1, row
  <2> QED
    BY <1>1, <2>1, Joined
<1>3. Ordered(p2 \o Rows(l), 1, 12)
  <2> HIDE DEF p2
  <2> QED
    BY <1>2, RowsAreOrdered, Joined
<1> QED
  BY <1>3 DEF Edit

LEMMA DraftIsOrdered ==
    ASSUME NEW l \in Leads
    PROVE  Ordered(Draft(l), 2, 12)
<1> DEFINE first == <<Lock("draft", l), Lock("analysis", l)>>
           p1 == first \o Destinations(l)
<1>1. Ordered(p1, 2, 8)
  <2>1. Ordered(first, 2, 7)
    BY LeadIsOrdered
  <2> HIDE DEF first
  <2> QED
    BY <2>1, DestinationsAreOrdered, Joined
<1>2. Ordered(p1 \o Rows(l), 2, 12)
  <2> HIDE DEF p1
  <2> QED
    BY <1>1, RowsAreOrdered, Joined
<1> QED
  BY <1>2 DEF Draft

LEMMA MailsAreOrdered ==
    ASSUME NEW l \in Leads
    PROVE  /\ Ordered(Claim(l), 8, 11) /\ Ordered(SentAfterSend(l), 11, 14)
           /\ Ordered(Sent(l), 8, 14) /\ Ordered(Reply(l), 3, 14)
<1> DEFINE row == <<Lock("mailRow", l)>>
           first == <<Lock("reply", l)>>
<1>0. Ordered(row, 11, 11) /\ Ordered(first, 3, 3)
  BY LeadIsOrdered
<1>1. Ordered(Claim(l), 8, 11)
  <2>1. Ordered(Destinations(l) \o row, 8, 11)
    <3> HIDE DEF row
    <3> QED
      BY <1>0, DestinationsAreOrdered, Joined
  <2> QED
    BY <2>1 DEF Claim
<1>2. Ordered(SentAfterSend(l), 11, 14)
  <2> DEFINE p == row \o Rows(l)
  <2>1. Ordered(p, 11, 12)
    <3> HIDE DEF row
    <3> QED
      BY <1>0, RowsAreOrdered, Joined
  <2>2. Ordered(p \o OpportunityOf(l), 11, 14)
    <3> HIDE DEF p
    <3> QED
      BY <2>1, RowsAreOrdered, Joined
  <2> QED
    BY <2>2 DEF SentAfterSend
<1>3. Ordered(Sent(l), 8, 14)
  BY <1>2, DestinationsAreOrdered, Joined DEF Sent
<1>4. Ordered(Reply(l), 3, 14)
  <2> DEFINE p == first \o Rows(l)
  <2>1. Ordered(p, 3, 12)
    <3> HIDE DEF first
    <3> QED
      BY <1>0, RowsAreOrdered, Joined
  <2>2. Ordered(p \o OpportunityOf(l), 3, 14)
    <3> HIDE DEF p
    <3> QED
      BY <2>1, RowsAreOrdered, Joined
  <2> QED
    BY <2>2 DEF Reply
<1> QED
  BY <1>1, <1>2, <1>3, <1>4

LEMMA ProgramIsOrdered ==
    ASSUME NEW r \in Request, r.kind \notin {"editProject", "close"}
    PROVE  Ordered(Program(r), 1, 14)
<1>1. r.lead \in Leads /\ r.kind \in {"import", "edit", "confirm", "draft", "claim", "sent",
                                    "sentAfterSend", "reply", "move"}
  BY KindsAreKinds DEF Request
<1>2. CASE r.kind = "import"
  BY <1>1, <1>2, ImportIsOrdered, Wider DEF Program
<1>3. CASE r.kind = "edit"
  BY <1>1, <1>3, EditIsOrdered, Wider DEF Program
<1>4. CASE r.kind = "confirm"
  <2> DEFINE p == <<Lock("analysis", r.lead)>>
  <2>1. Ordered(p, 7, 7) /\ Program(r) = p
    BY <1>1, <1>4, LeadIsOrdered DEF Program
  <2> HIDE DEF p
  <2> QED
    BY <2>1, Wider
<1>5. CASE r.kind = "draft"
  BY <1>1, <1>5, DraftIsOrdered, Wider DEF Program
<1>6. CASE r.kind = "claim"
  BY <1>1, <1>6, MailsAreOrdered, Wider DEF Program
<1>7. CASE r.kind = "sent"
  BY <1>1, <1>7, MailsAreOrdered, Wider DEF Program
<1>8. CASE r.kind = "sentAfterSend"
  BY <1>1, <1>8, MailsAreOrdered, Wider DEF Program
<1>9. CASE r.kind = "reply"
  BY <1>1, <1>9, MailsAreOrdered, Wider DEF Program
<1>10. CASE r.kind = "move"
  BY <1>1, <1>10, RowsAreOrdered, Wider DEF Program
<1> QED
  BY <1>1, <1>2, <1>3, <1>4, <1>5, <1>6, <1>7, <1>8, <1>9, <1>10

\* The two that do not keep the order are sequences of locks, too.
LEMMA ProgramIsSequence ==
    ASSUME NEW r \in Request
    PROVE  Program(r) \in Seq(Locks) /\ Len(Program(r)) \in Nat
<1>1. r.lead \in Leads
  BY DEF Request
<1>2. CASE r.kind = "editProject"
  <2> DEFINE l == r.lead
  <2>1. \A class \in Classes : Lock(class, l) \in Locks /\ Lock(class, CompanyOf[l]) \in Locks
                                /\ Lock(class, ProjectOf[l]) \in Locks
    BY <1>1, OwnersAreThere DEF Lock, Locks
  <2>2. /\ <<Lock("leadDetail", l), Lock("analysis", l)>> \in Seq(Locks)
        /\ <<Lock("companyRow", CompanyOf[l]), Lock("projectRow", ProjectOf[l])>> \in Seq(Locks)
    BY <2>1, ClassesAreThere
  <2>3. ImportKeys(l) \in Seq(Locks) /\ Rows(l) \in Seq(Locks)
    BY <1>1, KeysAreOrdered, RowsAreOrdered DEF Ordered
  <2>4. EditProject(l) \in Seq(Locks)
    BY <2>2, <2>3, ConcatProperties DEF EditProject
  <2> QED
    BY <1>2, <2>4, LenProperties DEF Program
<1>3. CASE r.kind = "close"
  <2>1. OpportunityOf(r.lead) \in Seq(Locks) /\ Rows(r.lead) \in Seq(Locks)
    BY <1>1, RowsAreOrdered DEF Ordered
  <2>2. EndOpportunity(r.lead) \in Seq(Locks)
    BY <2>1, ConcatProperties DEF EndOpportunity
  <2> QED
    BY <1>3, <2>2, LenProperties DEF Program
<1>4. CASE r.kind \notin {"editProject", "close"}
  BY <1>4, ProgramIsOrdered, LenProperties DEF Ordered
<1> QED
  BY <1>2, <1>3, <1>4

-----------------------------------------------------------------------------
(* The locks: the invariant.                                               *)

InOrder == Kinds \cap {"editProject", "close"} = {}

\* Who does nothing has taken nothing, and nobody has what another has.
Exclusive ==
    /\ \A t \in Transactions : ~Running(t) => taken[t] = 0
    /\ \A t, u \in Transactions : t # u => Holds(t) \cap Holds(u) = {}

LocksSane == LocksTypeOK /\ Exclusive

LEMMA RequestIsTyped ==
    ASSUME LocksTypeOK, NEW t \in Transactions, Running(t)
    PROVE  /\ request[t] \in Request /\ taken[t] \in 0 .. Len(Program(request[t]))
           /\ Program(request[t]) \in Seq(Locks) /\ Len(Program(request[t])) \in Nat
BY ProgramIsSequence DEF LocksTypeOK, Running

LEMMA HeldAreLocks ==
    ASSUME LocksTypeOK, NEW t \in Transactions
    PROVE  Holds(t) \subseteq Locks
BY RequestIsTyped, ElementOfSeq DEF Holds

LEMMA InitSane == LocksInit => LocksSane
<1> SUFFICES ASSUME LocksInit PROVE LocksSane
  OBVIOUS
<1>1. \A t \in Transactions : ~Running(t) /\ taken[t] = 0
  BY DEF LocksInit, Running
<1>2. LocksTypeOK
  BY <1>1 DEF LocksInit, LocksTypeOK
<1>3. Exclusive
  BY <1>1 DEF Exclusive, Holds
<1> QED
  BY <1>2, <1>3 DEF LocksSane

LEMMA NextSane == LocksSane /\ [LocksNext]_lockVars => LocksSane'
<1> SUFFICES ASSUME LocksSane, [LocksNext]_lockVars PROVE LocksSane'
  OBVIOUS
<1> USE DEF LocksSane
<1>1. ASSUME NEW t \in Transactions, NEW kind \in Kinds, NEW l \in Leads, Begin(t, kind, l)
      PROVE  LocksSane'
  <2>1. [kind |-> kind, lead |-> l] \in Request
    BY DEF Request
  <2>2. taken[t] = 0 /\ ~Running(t) /\ taken' = taken
    BY <1>1 DEF Begin, Exclusive
  <2>3. /\ request' \in [Transactions -> Request \cup {NoRequest}]
        /\ request'[t] = [kind |-> kind, lead |-> l]
        /\ \A u \in Transactions \ {t} : request'[u] = request[u]
    BY <1>1, <2>1 DEF Begin, LocksTypeOK
  <2>4. \A u \in Transactions \ {t} : (Running(u)' <=> Running(u)) /\ Holds(u)' = Holds(u)
    BY <2>2, <2>3 DEF Running, Holds
  <2>5. Holds(t)' = {}
    BY <2>2 DEF Holds
  <2>6. Running(t)' /\ Len(Program(request'[t])) \in Nat
    BY <2>1, <2>3, NoRequestIsNone, ProgramIsSequence DEF Running
  <2>7. LocksTypeOK'
    BY <2>2, <2>3, <2>4, <2>6 DEF LocksTypeOK
  <2>8. Exclusive'
    BY <2>2, <2>4, <2>5, <2>6 DEF Exclusive
  <2> QED
    BY <2>7, <2>8
<1>2. ASSUME NEW t \in Transactions, Take(t) PROVE LocksSane'
  <2> DEFINE p == Program(request[t])
  <2>1. Running(t) /\ request' = request /\ taken[t] < Len(p)
    BY <1>2 DEF Take, Waiting
  <2>2. taken[t] \in Nat /\ Len(p) \in Nat
    BY <2>1, RequestIsTyped
  <2>3. /\ taken' \in [Transactions -> Nat] /\ taken'[t] = taken[t] + 1
        /\ \A u \in Transactions \ {t} : taken'[u] = taken[u]
    BY <1>2, <2>2 DEF Take, LocksTypeOK
  <2>4. \A u \in Transactions : Running(u)' <=> Running(u)
    BY <2>1 DEF Running
  <2>5. \A u \in Transactions \ {t} : Holds(u)' = Holds(u)
    BY <2>1, <2>3, <2>4 DEF Holds
  <2>6. Holds(t)' = Holds(t) \cup {Wanted(t)}
    <3>1. 1 .. taken[t] + 1 = (1 .. taken[t]) \cup {taken[t] + 1}
      BY <2>2
    <3>2. Holds(t)' = {p[i] : i \in 1 .. taken[t] + 1}
      BY <2>1, <2>3, <2>4 DEF Holds
    <3>3. Holds(t) = {p[i] : i \in 1 .. taken[t]} /\ Wanted(t) = p[taken[t] + 1]
      BY <2>1 DEF Holds, Wanted
    <3> HIDE DEF p
    <3> QED
      BY <3>1, <3>2, <3>3
  <2>7. \A u \in Transactions \ {t} : Wanted(t) \notin Holds(u)
    BY <1>2 DEF Take
  <2>8. LocksTypeOK'
    BY <2>1, <2>2, <2>3, <2>4 DEF LocksTypeOK
  <2>9. Exclusive'
    <3>1. ASSUME NEW u \in Transactions, NEW v \in Transactions, u # v
          PROVE  Holds(u)' \cap Holds(v)' = {}
      BY <2>5, <2>6, <2>7, <3>1 DEF Exclusive
    <3>2. \A u \in Transactions : ~Running(u)' => taken'[u] = 0
      BY <2>1, <2>3, <2>4 DEF Exclusive
    <3> QED
      BY <3>1, <3>2 DEF Exclusive
  <2> QED
    BY <2>8, <2>9
<1>3. ASSUME NEW t \in Transactions, End(t) PROVE LocksSane'
  <2>1. /\ request' \in [Transactions -> Request \cup {NoRequest}] /\ request'[t] = NoRequest
        /\ \A u \in Transactions \ {t} : request'[u] = request[u]
        /\ taken' \in [Transactions -> Nat] /\ taken'[t] = 0
        /\ \A u \in Transactions \ {t} : taken'[u] = taken[u]
    BY <1>3 DEF End, LocksTypeOK
  <2>2. ~Running(t)' /\ Holds(t)' = {}
    BY <2>1 DEF Running, Holds
  <2>3. \A u \in Transactions \ {t} : (Running(u)' <=> Running(u)) /\ Holds(u)' = Holds(u)
    <3> SUFFICES ASSUME NEW u \in Transactions \ {t}
                 PROVE  (Running(u)' <=> Running(u)) /\ Holds(u)' = Holds(u)
      OBVIOUS
    <3>1. request'[u] = request[u] /\ taken'[u] = taken[u]
      BY <2>1
    <3>2. Running(u)' <=> Running(u)
      BY <3>1 DEF Running
    <3>3. Holds(u)' = Holds(u)
      BY <3>1, <3>2 DEF Holds
    <3> QED
      BY <3>2, <3>3
  <2>4. LocksTypeOK'
    BY <2>1, <2>2, <2>3 DEF LocksTypeOK
  <2>5. Exclusive'
    BY <2>1, <2>2, <2>3 DEF Exclusive
  <2> QED
    BY <2>4, <2>5
<1>4. CASE UNCHANGED lockVars
  <2>1. request' = request /\ taken' = taken
    BY <1>4 DEF lockVars
  <2>2. \A t \in Transactions : (Running(t)' <=> Running(t)) /\ Holds(t)' = Holds(t)
    BY <2>1 DEF Running, Holds
  <2>3. LocksTypeOK'
    BY <2>1, <2>2 DEF LocksTypeOK
  <2>4. Exclusive'
    BY <2>1, <2>2 DEF Exclusive
  <2> QED
    BY <2>3, <2>4
<1>5. CASE LocksNext
  <2>1. PICK t \in Transactions : (\E kind \in Kinds, l \in Leads : Begin(t, kind, l)) \/ Take(t) \/ End(t)
    BY <1>5 DEF LocksNext
  <2>2. CASE \E kind \in Kinds, l \in Leads : Begin(t, kind, l)
    <3>1. PICK kind \in Kinds, l \in Leads : Begin(t, kind, l)
      BY <2>2
    <3> QED
      BY <1>1, <3>1
  <2> QED
    BY <1>2, <1>3, <2>1, <2>2
<1> QED
  BY <1>4, <1>5

THEOREM LocksSanity == LocksSpec => []LocksSane
BY InitSane, NextSane, PTL DEF LocksSpec

-----------------------------------------------------------------------------
(* The locks: theorems.                                                    *)

\* Every transaction has taken as many locks of its program as there are, at most
\* (LeadLocks).
THEOREM LocksTyping == LocksSpec => []LocksTypeOK
<1>1. LocksSane => LocksTypeOK
  BY DEF LocksSane
<1> QED
  BY <1>1, LocksSanity, PTL

LEMMA WantedComesLast ==
    ASSUME LocksTypeOK, InOrder, NEW t \in Transactions, Waiting(t)
    PROVE  Wanted(t) \in Locks /\ \A k \in Holds(t) : Before(k, Wanted(t))
<1> DEFINE p == Program(request[t])
<1>1. Running(t) /\ taken[t] < Len(p)
  BY DEF Waiting
<1>2. request[t] \in Request /\ taken[t] \in Nat /\ p \in Seq(Locks) /\ Len(p) \in Nat
  BY <1>1, RequestIsTyped
<1>3. Ordered(p, 1, 14)
  <2>1. request[t].kind \notin {"editProject", "close"}
    BY <1>2 DEF InOrder, Request
  <2> QED
    BY <1>2, <2>1, ProgramIsOrdered
<1>4. Wanted(t) = p[taken[t] + 1] /\ Holds(t) = {p[i] : i \in 1 .. taken[t]}
  BY <1>1 DEF Wanted, Holds
<1> HIDE DEF p
<1>5. taken[t] + 1 \in 1 .. Len(p) /\ \A i \in 1 .. taken[t] : i \in 1 .. Len(p) /\ i < taken[t] + 1
  BY <1>1, <1>2
<1>6. Wanted(t) \in Locks
  BY <1>2, <1>4, <1>5, ElementOfSeq
<1>7. \A k \in Holds(t) : Before(k, Wanted(t))
  BY <1>3, <1>4, <1>5 DEF Ordered
<1> QED
  BY <1>6, <1>7

LEMMA NoCircle == LocksTypeOK /\ InOrder => NoDeadlock
<1> SUFFICES ASSUME LocksTypeOK, InOrder, NEW circle \in SUBSET Transactions, circle # {},
                    \A t \in circle : Waiting(t) /\ \E u \in circle \ {t} : Wanted(t) \in Holds(u)
             PROVE  FALSE
  BY DEF NoDeadlock
<1> DEFINE R == {p \in circle \X circle : Before(Wanted(p[1]), Wanted(p[2]))}
<1>1. IsFiniteSet(circle)
  BY TransactionsAreFinite, FS_Subset
<1>2. \A t \in circle : Wanted(t) \in Locks /\ \A k \in Holds(t) : Before(k, Wanted(t))
  BY WantedComesLast
<1>3. \A t, u \in circle : <<t, u>> \in R <=> Before(Wanted(t), Wanted(u))
  OBVIOUS
<1> HIDE DEF R
<1>4. PICK m \in circle : \A t \in circle : <<m, t>> \notin R
  <2>1. \A t \in circle : <<t, t>> \notin R
    BY <1>2, <1>3, BeforeIsOrder
  <2>2. \A t, u, v \in circle : (<<t, u>> \in R /\ <<u, v>> \in R) => <<t, v>> \in R
    BY <1>2, <1>3, BeforeIsOrder
  <2> QED
    BY <1>1, <2>1, <2>2, Maximal
<1>5. PICK u \in circle : Wanted(m) \in Holds(u)
  OBVIOUS
<1>6. <<m, u>> \in R
  BY <1>2, <1>3, <1>5
<1> QED
  BY <1>4, <1>6

\* As long as nobody edits a project or ends an opportunity by hand, no transactions
\* ever wait for each other in a circle, however many there are and whatever they
\* share (the advisory locks and row locks of src/apps/api/src; with either of the
\* two changes they do).
THEOREM DeadlockFree == ASSUME InOrder PROVE LocksSpec => []NoDeadlock
<1>1. LocksSane => NoDeadlock
  BY NoCircle DEF LocksSane
<1> QED
  BY <1>1, LocksSanity, PTL

\* No lock of q is the row of a project.
Free(q) == q \in Seq(Locks) /\ \A k \in Range(q) : k[1] # "projectRow"

LEMMA FreeByPlace ==
    ASSUME NEW low \in Nat, NEW high \in Nat, NEW q, Ordered(q, low, high), high < 10 \/ 10 < low
    PROVE  Free(q)
<1>1. q \in Seq(Locks) /\ Len(q) \in Nat /\ Range(q) = {q[i] : i \in 1 .. Len(q)}
  BY LenProperties, RangeEquality DEF Ordered
<1>2. \A i \in 1 .. Len(q) : Place(q[i][1]) # 10
  BY DEF Ordered
<1> QED
  BY <1>1, <1>2, Places DEF Free

LEMMA FreeJoined == ASSUME NEW p, NEW q, Free(p), Free(q) PROVE Free(p \o q)
BY RangeConcatenation, ConcatProperties DEF Free

LEMMA OthersAreFree ==
    ASSUME NEW r \in Request, r.kind \notin {"import", "editProject"}
    PROVE  Free(Program(r))
<1> DEFINE l == r.lead
           detail == <<Lock("leadDetail", l)>>
           row == <<Lock("companyRow", CompanyOf[l])>>
           draft == <<Lock("draft", l), Lock("analysis", l)>>
           reply == <<Lock("reply", l)>>
           mail == <<Lock("mailRow", l)>>
           analysis == <<Lock("analysis", l)>>
<1>1. l \in Leads /\ r.kind \in {"edit", "confirm", "draft", "claim", "sent",
                                 "sentAfterSend", "reply", "move", "close"}
  BY KindsAreKinds DEF Request
<1>2. Free(detail) /\ Free(row) /\ Free(draft) /\ Free(reply) /\ Free(mail) /\ Free(analysis)
  <2>1. /\ Ordered(detail, 1, 1) /\ Ordered(row, 9, 9) /\ Ordered(draft, 2, 7)
        /\ Ordered(reply, 3, 3) /\ Ordered(mail, 11, 11) /\ Ordered(analysis, 7, 7)
    BY <1>1, LeadIsOrdered, CompanyIsOrdered
  <2> HIDE DEF detail, row, draft, reply, mail, analysis
  <2> QED
    BY <2>1, FreeByPlace
<1>3. /\ Free(ImportKeys(l)) /\ Free(Destinations(l)) /\ Free(Rows(l)) /\ Free(OpportunityOf(l))
      /\ Free(SentAfterSend(l))
  BY <1>1, KeysAreOrdered, DestinationsAreOrdered, RowsAreOrdered, MailsAreOrdered, FreeByPlace
<1>4. /\ Edit(l) = detail \o ImportKeys(l) \o row \o Rows(l)
      /\ Draft(l) = draft \o Destinations(l) \o Rows(l)
      /\ Claim(l) = Destinations(l) \o mail
      /\ Sent(l) = Destinations(l) \o SentAfterSend(l)
      /\ Reply(l) = reply \o Rows(l) \o OpportunityOf(l)
      /\ EndOpportunity(l) = OpportunityOf(l) \o Rows(l)
  BY DEF Edit, Draft, Claim, Sent, Reply, EndOpportunity
<1>5. Program(r) \in {Edit(l), analysis, Draft(l), Claim(l), Sent(l), SentAfterSend(l), Reply(l),
                    OpportunityOf(l), EndOpportunity(l)}
  BY <1>1 DEF Program
<1> HIDE DEF detail, row, draft, reply, mail, analysis
<1>6. /\ Free(Edit(l)) /\ Free(Draft(l)) /\ Free(Claim(l)) /\ Free(Sent(l)) /\ Free(Reply(l))
      /\ Free(EndOpportunity(l))
  BY <1>2, <1>3, <1>4, FreeJoined
<1> QED
  BY <1>2, <1>3, <1>5, <1>6

LEMMA RowsOfImport ==
    ASSUME NEW l \in Leads, NEW project, Lock("projectRow", project) \in Range(Import(l))
    PROVE  \A k \in Leads : ProjectOf[k] = project => Lock("analysis", k) \in Range(Import(l))
<1> DEFINE rows == <<Lock("companyRow", CompanyOf[l]), Lock("projectRow", ProjectOf[l])>>
           last == <<Lock("opportunity", l)>>
           p1 == ImportKeys(l) \o ProjectAnalyses(l)
           p2 == p1 \o rows
           p3 == p2 \o Rows(l)
           x == Lock("projectRow", project)
<1>1. /\ Ordered(ImportKeys(l), 4, 6) /\ Ordered(ProjectAnalyses(l), 7, 7) /\ Ordered(rows, 9, 10)
      /\ Ordered(Rows(l), 12, 12) /\ Ordered(last, 13, 13) /\ Import(l) = p3 \o last
  BY KeysAreOrdered, AnalysesAreOrdered, RowsAreOrdered, CompanyIsOrdered, LeadIsOrdered DEF Import
<1>2. x[1] = "projectRow" /\ (x \in Range(rows) => ProjectOf[l] = project)
  BY DEF Lock, Range
<1> HIDE DEF rows, last, x
<1>3. Free(ImportKeys(l)) /\ Free(ProjectAnalyses(l)) /\ Free(Rows(l)) /\ Free(last) /\ rows \in Seq(Locks)
  <2>1. rows \in Seq(Locks)
    BY <1>1 DEF Ordered
  <2> QED
    BY <1>1, <2>1, FreeByPlace
<1>4. Range(p1) = Range(ImportKeys(l)) \cup Range(ProjectAnalyses(l)) /\ p1 \in Seq(Locks)
  BY <1>3, RangeConcatenation, ConcatProperties DEF Free
<1> HIDE DEF p1
<1>5. Range(p2) = Range(p1) \cup Range(rows) /\ p2 \in Seq(Locks)
  BY <1>3, <1>4, RangeConcatenation, ConcatProperties
<1> HIDE DEF p2
<1>6. Range(p3) = Range(p2) \cup Range(Rows(l)) /\ p3 \in Seq(Locks)
  BY <1>3, <1>5, RangeConcatenation, ConcatProperties DEF Free
<1> HIDE DEF p3
<1>7. Range(Import(l)) = Range(p3) \cup Range(last)
  BY <1>1, <1>3, <1>6, RangeConcatenation DEF Free
<1>8. x \in Range(rows)
  <2>1. x \in Range(Import(l))
    BY DEF x
  <2> QED
    BY <1>2, <1>3, <1>4, <1>5, <1>6, <1>7, <2>1 DEF Free
<1>9. \A k \in Leads : ProjectOf[k] = project => Lock("analysis", k) \in Range(ProjectAnalyses(l))
  BY <1>2, <1>8, AnalysesAreOrdered
<1> QED
  BY <1>4, <1>5, <1>6, <1>7, <1>9

\* Only an import locks the row of a project, and it has locked the analyses of all
\* leads of the project before.
LEMMA RowComesAfterAnalyses ==
    ASSUME NEW r \in Request, r.kind # "editProject", NEW project,
           NEW i \in 1 .. Len(Program(r)), Program(r)[i] = Lock("projectRow", project),
           NEW k \in Leads, ProjectOf[k] = project
    PROVE  \E j \in 1 .. i : Program(r)[j] = Lock("analysis", k)
<1> DEFINE p == Program(r)
           x == Lock("projectRow", project)
           y == Lock("analysis", k)
<1>1. p \in Seq(Locks) /\ Len(p) \in Nat /\ r.lead \in Leads
  BY ProgramIsSequence DEF Request
<1>2. x[1] = "projectRow" /\ y[1] = "analysis" /\ Place("projectRow") = 10 /\ Place("analysis") = 7
  BY Places DEF Lock
<1>3. x \in Range(p) /\ p[i] = x
  BY <1>1, RangeEquality
<1>4. r.kind = "import"
  BY <1>2, <1>3, OthersAreFree DEF Free
<1>5. p = Import(r.lead) /\ Ordered(p, 4, 13)
  BY <1>1, <1>4, ImportIsOrdered DEF Program
<1>6. y \in Range(p)
  BY <1>1, <1>3, <1>5, RowsOfImport
<1> HIDE DEF p, x, y
<1>7. PICK j \in 1 .. Len(p) : p[j] = y
  BY <1>1, <1>6, RangeEquality
<1>8. ~(i < j)
  <2>1. ASSUME i < j PROVE FALSE
    <3>1. Before(x, y)
      BY <1>3, <1>5, <1>7, <2>1 DEF Ordered, p
    <3> QED
      BY <1>2, <3>1 DEF Before
  <2> QED
    BY <2>1
<1>9. j \in 1 .. i
  BY <1>1, <1>8 DEF p
<1> QED
  BY <1>7, <1>9 DEF p, y

\* As long as nobody edits a project by hand, no project changes while the analysis of
\* one of its leads is being confirmed, or read for a draft, however many leads share
\* the project (prisma-project-import.repository.ts:50).
THEOREM StandsStill == ASSUME "editProject" \notin Kinds PROVE LocksSpec => []ProjectStandsStill
<1>1. LocksSane => ProjectStandsStill
  <2> SUFFICES ASSUME LocksSane, NEW t \in Transactions, NEW u \in Transactions, t # u, Running(t),
                      Lock("analysis", request[t].lead) \in Holds(t),
                      Lock("projectRow", ProjectOf[request[t].lead]) \in Holds(u)
               PROVE  FALSE
    BY DEF ProjectStandsStill
  <2> DEFINE k == request[t].lead
             r == request[u]
  <2>1. LocksTypeOK /\ Exclusive /\ Running(u)
    BY DEF LocksSane, Holds
  <2>2. k \in Leads /\ r \in Request /\ taken[u] \in 0 .. Len(Program(r)) /\ Len(Program(r)) \in Nat
    BY <2>1, RequestIsTyped DEF Request
  <2>3. r.kind # "editProject"
    BY <2>2 DEF Request
  <2>4. PICK i \in 1 .. taken[u] : Program(r)[i] = Lock("projectRow", ProjectOf[k])
    BY <2>1 DEF Holds
  <2>5. i \in 1 .. Len(Program(r))
    BY <2>2, <2>4
  <2>6. PICK j \in 1 .. i : Program(r)[j] = Lock("analysis", k)
    BY <2>2, <2>3, <2>4, <2>5, RowComesAfterAnalyses
  <2>7. j \in 1 .. taken[u]
    BY <2>2, <2>4, <2>6
  <2>8. Lock("analysis", k) \in Holds(u)
    BY <2>1, <2>6, <2>7 DEF Holds
  <2> QED
    BY <2>1, <2>8 DEF Exclusive
<1> QED
  BY <1>1, LocksSanity, PTL
=============================================================================
