------------------------------ MODULE Snapshots ------------------------------
(***************************************************************************)
(* How mss generates and upgrades a downstream repository                  *)
(* (internal/mss/blueprint: plan.go, upgrade.go, transaction.go,           *)
(* snapshot.go, managed_root.go, writer_lock_unix.go).  The managed files  *)
(* and two records, the foundation lock and the manifest that closes the   *)
(* snapshot, go from one version to the next together: a writer plans      *)
(* without a lock, takes the writer lock, checks that nothing has changed, *)
(* leaves a journal marker while it writes, and undoes what it did when a  *)
(* step fails.  A writer may be killed at any step; the developer edits    *)
(* files whenever he likes.                                                *)
(*                                                                         *)
(* Generating is upgrading from the empty version.  A file's content is    *)
(* an abstract value, what Built says of the version, or "mine".  A look   *)
(* at a file is a step and so is the rename or removal that replaces it:   *)
(* the writer lock keeps other writers out, not the developer.             *)
(***************************************************************************)
EXTENDS Integers, FiniteSets

CONSTANTS Writers, SnapshotReaders,
          Paths,                  \* managed files, 1..n in the order of the plan
          Versions, Empty,        \* versions of the foundation; Empty: nothing generated
          Built,                  \* content of each file by version; "absent" if it has none
          MaxFaults, MaxEdits,    \* bounds
          NoWriter

ASSUME SnapshotsAssumption ==
    /\ Empty \in Versions /\ IsFiniteSet(Paths) /\ Paths = 1..Cardinality(Paths)
    /\ \A p \in Paths : Built[Empty][p] = "absent" /\ \A v \in Versions : Built[v][p] # "mine"
    /\ NoWriter \notin Writers /\ {MaxFaults, MaxEdits} \subseteq Nat

VARIABLES files, edited,          \* content; history: files the developer has edited
          records,                \* the versions the two records name
          marker,                 \* the journal marker of a transaction under way
          lockHeld, sharing,      \* the writer lock's holder; the readers that share it
          writer, reader,
          agreed,                 \* history: files at the last completed transaction
          faults

snapshotVars == <<files, edited, records, marker, lockHeld, sharing, writer, reader, agreed, faults>>

Contents == {"absent", "mine"} \cup {Built[v][p] : v \in Versions, p \in Paths}
Pair == [lock : Versions, manifest : Versions]
WriterStages == {"plan", "read", "acquire", "verify", "begin", "apply", "replace", "lock", "manifest",
                 "reread", "restoreLock", "restoreManifest", "undo", "finish", "done", "killed"}
FreshWriter(target) ==
    [stage |-> "plan", target |-> target, base |-> Empty, seen |-> [p \in Paths |-> "absent"],
     seenRecords |-> [lock |-> Empty, manifest |-> Empty], backup |-> [p \in Paths |-> "absent"],
     next |-> 1, failed |-> FALSE, unrestored |-> FALSE, wrote |-> {},
     late |-> {}]    \* history: files edited since it backed them up or found them as planned

SnapshotTypeOK ==
    /\ files \in [Paths -> Contents] /\ agreed \in [Paths -> Contents]
    /\ edited \subseteq Paths /\ records \in Pair /\ marker \in BOOLEAN
    /\ lockHeld \in Writers \cup {NoWriter} /\ sharing \subseteq SnapshotReaders
    /\ \A w \in Writers :
          /\ writer[w].stage \in WriterStages /\ writer[w].target \in Versions \ {Empty}
          /\ writer[w].base \in Versions /\ writer[w].seen \in [Paths -> Contents]
          /\ writer[w].seenRecords \in Pair /\ writer[w].backup \in [Paths -> Contents]
          /\ writer[w].next \in 0..Cardinality(Paths) + 1 /\ writer[w].wrote \subseteq {"lock", "manifest"}
          /\ writer[w].late \subseteq Paths
    /\ reader \in [SnapshotReaders -> [stage : {"idle", "marker", "manifest", "lock", "done"},
                                       manifest : Versions, answer : {"none", "pair", "torn"}]]
    /\ faults \in 0..MaxFaults

SnapshotInit ==
    /\ \E v \in Versions :
          files = [p \in Paths |-> Built[v][p]] /\ records = [lock |-> v, manifest |-> v]
    /\ edited = {} /\ marker = FALSE /\ lockHeld = NoWriter /\ sharing = {}
    /\ \E target \in [Writers -> Versions \ {Empty}] : writer = [w \in Writers |-> FreshWriter(target[w])]
    /\ reader = [r \in SnapshotReaders |-> [stage |-> "idle", manifest |-> Empty, answer |-> "none"]]
    /\ agreed = files /\ faults = 0

At(w, stage) == writer[w].stage = stage
Faulty == faults < MaxFaults /\ faults' = faults + 1
Sound == UNCHANGED faults
MovesTo(w, stage) == writer' = [writer EXCEPT ![w].stage = stage]
FailsTo(w, stage) == writer' = [writer EXCEPT ![w].stage = stage, ![w].failed = TRUE]
(* What a writer that has ended knew no longer matters.                    *)
Ends(w, stage) == writer' = [writer EXCEPT ![w] = [FreshWriter(@.target) EXCEPT !.stage = stage]]
Untouched == UNCHANGED <<edited, sharing, reader>>

-----------------------------------------------------------------------------
(* Planning: the manifest under the reader lock, then every file, without  *)
(* a lock.  The decision is the three-way comparison of base, current and  *)
(* desired content.                                                        *)
PlanManifest(w) ==
    /\ At(w, "plan") /\ lockHeld = NoWriter
    /\ IF marker THEN Ends(w, "done")
       ELSE writer' = [writer EXCEPT ![w].stage = "read", ![w].base = records.manifest]
    /\ UNCHANGED <<files, records, marker, lockHeld, agreed, faults>> /\ Untouched

Action(base, current, desired) ==
    LET hadBase == base # "absent"  wanted == desired # "absent"  exists == current # "absent" IN
    CASE hadBase /\ wanted ->
            (IF ~exists THEN "conflict"
             ELSE IF current = base THEN (IF desired = base THEN "unchanged" ELSE "update")
             ELSE IF current = desired THEN "unchanged"
             ELSE IF desired = base THEN "preserve" ELSE "conflict")
      [] hadBase /\ ~wanted ->
            (IF ~exists THEN "unchanged" ELSE IF current = base THEN "delete" ELSE "conflict")
      [] ~hadBase /\ wanted ->
            (IF ~exists THEN "create" ELSE IF current = desired THEN "unchanged" ELSE "conflict")
      [] OTHER -> "unchanged"
Desired(w, p) == Built[writer[w].target][p]
Planned(w, p) == Action(Built[writer[w].base][p], writer[w].seen[p], Desired(w, p))
Writes(w, p) == Planned(w, p) \in {"create", "update", "delete"}
RecordsChange(w) == writer[w].seenRecords # [lock |-> writer[w].target, manifest |-> writer[w].target]

PlanFiles(w) ==
    /\ At(w, "read")
    /\ writer' = [writer EXCEPT ![w].stage = "acquire", ![w].seen = files, ![w].seenRecords = records]
    /\ UNCHANGED <<files, records, marker, lockHeld, agreed, faults>> /\ Untouched

(* A plan with a conflict is not applied, nor is generating over records   *)
(* that another version left; waiting for the lock may also be given up.   *)
Acceptable(w) ==
    /\ \A p \in Paths : Planned(w, p) # "conflict"
    /\ writer[w].base = Empty => writer[w].seenRecords \in
           {[lock |-> v, manifest |-> v] : v \in {Empty, writer[w].target}}
Acquire(w) ==
    /\ At(w, "acquire")
    /\ \/ /\ Acceptable(w) /\ lockHeld = NoWriter /\ sharing = {}
          /\ lockHeld' = w /\ MovesTo(w, "verify")
       \/ Ends(w, "done") /\ UNCHANGED lockHeld
    /\ UNCHANGED <<files, records, marker, agreed, faults>> /\ Untouched

(* verifyUpgradePlanCAS; revalidating a generation plan.                   *)
AsPlanned(w) == files = writer[w].seen /\ records = writer[w].seenRecords
Leaves(w) == lockHeld' = NoWriter
Verify(w) ==
    /\ At(w, "verify")
    /\ \/ AsPlanned(w) /\ (RecordsChange(w) \/ \E p \in Paths : Writes(w, p))
          /\ MovesTo(w, "begin") /\ UNCHANGED lockHeld
       \/ AsPlanned(w) /\ ~(RecordsChange(w) \/ \E p \in Paths : Writes(w, p))
          /\ Ends(w, "done") /\ Leaves(w)
       \/ ~AsPlanned(w) /\ Ends(w, "done") /\ Leaves(w)
    /\ UNCHANGED <<files, records, marker, agreed, faults>> /\ Untouched

(* The backups, and the marker, which must not exist yet.                  *)
Begin(w) ==
    /\ At(w, "begin")
    /\ IF marker THEN Ends(w, "done") /\ Leaves(w) /\ UNCHANGED marker
       ELSE /\ marker' = TRUE /\ UNCHANGED lockHeld
            /\ writer' = [writer EXCEPT ![w].stage = "apply", ![w].backup = files,
                                         ![w].late = {}]
    /\ UNCHANGED <<files, records, agreed, faults>> /\ Untouched

-----------------------------------------------------------------------------
(* applyUpgradeChange and the loop of writeGeneratedSnapshotWithHooks: the *)
(* file must still be what the plan saw.  An upgrade records its           *)
(* obligation to undo before it looks, and so undoes even the file it      *)
(* stopped at; generating passes over what it leaves unchanged.            *)
PlannedBefore(w, p) == TRUE
StillPlanned(w, p) == files[p] = writer[w].seen[p]
PassedOver(w, p) == writer[w].base = Empty /\ ~Writes(w, p)
Apply(w) ==
    LET p == writer[w].next IN
    /\ At(w, "apply") /\ p \in Paths
    /\ \/ /\ StillPlanned(w, p) \/ PassedOver(w, p)
          /\ ~Writes(w, p) /\ writer' = [writer EXCEPT ![w].next = p + 1]
       \/ /\ StillPlanned(w, p) /\ Writes(w, p)
          /\ writer' = [writer EXCEPT ![w].stage = "replace", ![w].late = @ \ {p}]
       \/ /\ ~StillPlanned(w, p) /\ ~PassedOver(w, p)
          /\ writer' = [writer EXCEPT ![w].stage = "undo", ![w].failed = TRUE,
                                      ![w].next = IF writer[w].base = Empty THEN p - 1 ELSE p]
    /\ UNCHANGED <<files, records, marker, lockHeld, agreed, faults>> /\ Untouched

(* writeAtomic and removeFile: a temporary file is written, synced and     *)
(* renamed into place, whatever is there by then.  They may fail before    *)
(* or after that took effect.                                              *)
Applied(w, p) == [files EXCEPT ![p] = Desired(w, p)]
Replace(w) ==
    LET p == writer[w].next IN
    /\ At(w, "replace")
    /\ \/ /\ files' = Applied(w, p) /\ Sound
          /\ writer' = [writer EXCEPT ![w].stage = "apply", ![w].next = p + 1]
       \/ files' \in {files, Applied(w, p)} /\ Faulty /\ FailsTo(w, "undo")
    /\ UNCHANGED <<records, marker, lockHeld, agreed>> /\ Untouched

(* verifyAppliedUpgradeState / verifyGeneratedState.                       *)
Promised(w, p) == IF Writes(w, p) THEN Desired(w, p) ELSE writer[w].seen[p]
CheckApplied(w) ==
    /\ At(w, "apply") /\ writer[w].next \notin Paths
    /\ IF \A p \in Paths : files[p] = Promised(w, p)
       THEN MovesTo(w, IF RecordsChange(w) THEN "lock" ELSE "finish")
       ELSE FailsTo(w, "undo")
    /\ UNCHANGED <<files, records, marker, lockHeld, agreed, faults>> /\ Untouched

(* commitSnapshotPair: a record counts as written before it is renamed.    *)
Wrote(w, record, failed) ==
    writer' = [writer EXCEPT ![w].wrote = @ \cup {record}, ![w].failed = failed,
                 ![w].stage = IF failed THEN "restoreLock"
                              ELSE IF record = "lock" THEN "manifest" ELSE "reread"]
CommitRecord(w, record) ==
    LET renamed == [records EXCEPT ![record] = writer[w].target] IN
    /\ At(w, record)
    /\ \/ records' = renamed /\ Wrote(w, record, FALSE) /\ Sound
       \/ records' \in {records, renamed} /\ Wrote(w, record, TRUE) /\ Faulty
    /\ UNCHANGED <<files, marker, lockHeld, agreed>> /\ Untouched
(* The committed pair is read back.                                        *)
Reread(w) ==
    /\ At(w, "reread")
    /\ \/ MovesTo(w, "finish") /\ Sound
       \/ FailsTo(w, "restoreLock") /\ Faulty
    /\ UNCHANGED <<files, records, marker, lockHeld, agreed>> /\ Untouched

-----------------------------------------------------------------------------
(* Undoing: the records, the manifest last, then the files in reverse.     *)
RestoreRecord(w, record, stage, then) ==
    /\ At(w, stage)
    /\ \/ record \notin writer[w].wrote /\ UNCHANGED records /\ Sound /\ MovesTo(w, then)
       \/ /\ record \in writer[w].wrote
          /\ records' = [records EXCEPT ![record] = writer[w].seenRecords[record]]
          /\ Sound /\ MovesTo(w, then)
       \/ /\ record \in writer[w].wrote /\ UNCHANGED records /\ Faulty
          /\ writer' = [writer EXCEPT ![w].stage = then, ![w].unrestored = TRUE]
    /\ UNCHANGED <<files, marker, lockHeld, agreed>> /\ Untouched
Undo(w) ==
    LET p == IF writer[w].next \in Paths THEN writer[w].next ELSE writer[w].next - 1 IN
    /\ At(w, "undo") /\ p \in Paths
    /\ \/ /\ files' = [files EXCEPT ![p] = IF Writes(w, p) THEN writer[w].backup[p] ELSE @]
          /\ Sound /\ writer' = [writer EXCEPT ![w].next = p - 1]
       \/ /\ Writes(w, p) /\ UNCHANGED files /\ Faulty
          /\ writer' = [writer EXCEPT ![w].next = p - 1, ![w].unrestored = TRUE]
    /\ UNCHANGED <<records, marker, lockHeld, agreed>> /\ Untouched
UndoEnds(w) ==
    /\ At(w, "undo") /\ writer[w].next = 0 /\ MovesTo(w, "finish")
    /\ UNCHANGED <<files, records, marker, lockHeld, agreed, faults>> /\ Untouched

(* The marker goes unless something could not be restored.                 *)
FinishesAnyway(w) == TRUE
MayFinish(w) == ~writer[w].unrestored
FinishSnapshot(w) ==
    /\ At(w, "finish") /\ Ends(w, "done") /\ Leaves(w)
    /\ \/ MayFinish(w) /\ marker' = FALSE /\ Sound
       \/ MayFinish(w) /\ UNCHANGED marker /\ Faulty
       \/ ~MayFinish(w) /\ UNCHANGED marker /\ Sound
    /\ agreed' = IF writer[w].failed THEN agreed ELSE files
    /\ UNCHANGED <<files, records>> /\ Untouched

(* The process is killed: the system releases its lock.                    *)
Killed(w) ==
    /\ lockHeld = w /\ Ends(w, "killed") /\ Leaves(w)
    /\ UNCHANGED <<files, records, marker, agreed, faults>> /\ Untouched

-----------------------------------------------------------------------------
(* ReadSnapshot: the shared lock, the marker, the manifest, the lock file. *)
MayAlwaysShare == TRUE
MayShare == lockHeld = NoWriter
ReadAcquire(r) ==
    /\ reader[r].stage = "idle" /\ MayShare /\ sharing' = sharing \cup {r}
    /\ reader' = [reader EXCEPT ![r].stage = "marker"]
    /\ UNCHANGED <<files, edited, records, marker, lockHeld, writer, agreed, faults>>
ReadMarker(r) ==
    /\ reader[r].stage = "marker"
    /\ IF marker THEN reader' = [reader EXCEPT ![r].stage = "done"] /\ sharing' = sharing \ {r}
       ELSE /\ reader' = [reader EXCEPT ![r].stage = "manifest"] /\ UNCHANGED sharing
    /\ UNCHANGED <<files, edited, records, marker, lockHeld, writer, agreed, faults>>
ReadManifestRecord(r) ==
    /\ reader[r].stage = "manifest"
    /\ reader' = [reader EXCEPT ![r].stage = "lock", ![r].manifest = records.manifest]
    /\ UNCHANGED <<files, edited, records, marker, lockHeld, sharing, writer, agreed, faults>>
ReadLockRecord(r) ==
    /\ reader[r].stage = "lock" /\ sharing' = sharing \ {r}
    /\ reader' = [reader EXCEPT ![r].stage = "done",
                    ![r].answer = IF records.lock = reader[r].manifest THEN "pair" ELSE "torn"]
    /\ UNCHANGED <<files, edited, records, marker, lockHeld, writer, agreed, faults>>

(* The developer changes, adds or removes a file, at any time.             *)
Edit(p) ==
    /\ p \notin edited /\ Cardinality(edited) < MaxEdits
    /\ edited' = edited \cup {p} /\ files' = [files EXCEPT ![p] = "mine"]
    /\ writer' = [w \in Writers |-> [writer[w] EXCEPT !.late =
                                        IF lockHeld = w THEN @ \cup {p} ELSE @]]
    /\ UNCHANGED <<records, marker, lockHeld, sharing, reader, agreed, faults>>

SnapshotNext ==
    \/ \E w \in Writers :
          \/ PlanManifest(w) \/ PlanFiles(w) \/ Acquire(w) \/ Verify(w) \/ Begin(w)
          \/ Apply(w) \/ Replace(w) \/ CheckApplied(w)
          \/ CommitRecord(w, "lock") \/ CommitRecord(w, "manifest") \/ Reread(w)
          \/ RestoreRecord(w, "lock", "restoreLock", "restoreManifest")
          \/ RestoreRecord(w, "manifest", "restoreManifest", "undo")
          \/ Undo(w) \/ UndoEnds(w) \/ FinishSnapshot(w) \/ Killed(w)
    \/ \E r \in SnapshotReaders :
          ReadAcquire(r) \/ ReadMarker(r) \/ ReadManifestRecord(r) \/ ReadLockRecord(r)
    \/ \E p \in Paths : Edit(p)

SnapshotSpec == SnapshotInit /\ [][SnapshotNext]_snapshotVars

-----------------------------------------------------------------------------
(* Whenever no writer is at work and no marker warns, the repository is    *)
(* whole: the records name one version and every file the developer left   *)
(* alone is what the last completed transaction left - after failures,     *)
(* failures of undoing and kills at any step.                              *)
PartialIsMarked ==
    lockHeld = NoWriter /\ ~marker =>
        /\ records.lock = records.manifest
        /\ \A p \in Paths : p \in edited \/ files[p] = agreed[p]
(* No reader meets two records of different versions.                      *)
ReadersSeeAPair == \A r \in SnapshotReaders : reader[r].answer # "torn"
(* An edit made before a transaction began is never lost to it.  One that  *)
(* comes later is lost in two ways only: the writer renames its content    *)
(* over an edit made since it found the file as planned, or a transaction  *)
(* that fails undoes a file it plans to write - an upgrade also the file   *)
(* in which it has just found the edit - back to what it was before.       *)
EditsSurvive ==
    \A p \in edited : files[p] = "mine" /\ files'[p] # "mine" =>
        \E w \in Writers : /\ p \in writer[w].late /\ Writes(w, p)
                           /\ At(w, "undo") \/ (At(w, "replace") /\ writer[w].next = p)

(* What the documentation promises: a file that the snapshot does not know *)
(* is kept by the upgrader.  The code breaks it in both ways above; here   *)
(* in the second: when the check finds such a file where the plan meant to *)
(* create one, the upgrade fails and undoes it with the rest.              *)
Unknown(p) == files[p] = "mine" /\ Built[records.lock][p] = "absent"
UnknownFilesStay ==
    [][\A p \in Paths : Unknown(p) /\ (\E w \in Writers : At(w, "undo"))
                            => files'[p] = "mine"]_snapshotVars
=============================================================================
