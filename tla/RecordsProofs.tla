--------------------------- MODULE RecordsProofs ----------------------------
(***************************************************************************)
(* What the records of MCRecords keep, from the theorems of each.          *)
(***************************************************************************)
EXTENDS MCRecords, StoresProofs, FiniteSetTheorems

-----------------------------------------------------------------------------
(* The snapshots of a downstream repository.                               *)

(* The stages under the writer lock, and those under the marker.           *)
Committing == {"apply", "replace", "lock", "manifest", "reread", "restoreLock",
               "restoreManifest", "undo", "finish"}
UnderWriterLock == {"verify", "begin"} \cup Committing
SnapshotWriterState ==
  [stage : WriterStages, target : Versions \ {Empty}, base : Versions,
   seen : [Paths -> Contents], seenRecords : Pair, backup : [Paths -> Contents],
   next : 0..(Cardinality(Paths) + 1), failed : BOOLEAN, unrestored : BOOLEAN,
   wrote : SUBSET {"lock", "manifest"}, late : SUBSET Paths]
SnapshotReaderState == [stage : {"idle", "marker", "manifest", "lock", "done"},
                manifest : Versions, answer : {"none", "pair", "torn"}]
SnapshotTyped ==
  /\ files \in [Paths -> Contents] /\ agreed \in [Paths -> Contents]
  /\ edited \in SUBSET Paths /\ records \in Pair /\ marker \in BOOLEAN
  /\ lockHeld \in Writers \cup {NoWriter} /\ sharing \in SUBSET SnapshotReaders
  /\ writer \in [Writers -> SnapshotWriterState]
  /\ reader \in [SnapshotReaders -> SnapshotReaderState]
  /\ faults \in 0..MaxFaults

(* A writer that has yet to change anything.                               *)
NothingDone(x) == x.next >= 1 /\ x.wrote = {} /\ ~x.failed /\ ~x.unrestored

(* A file as the last completed transaction left it, but for an edit.      *)
FileSettled(p) == p \in edited \/ files[p] = agreed[p]
RepositoryWhole == records.lock = records.manifest /\ \A p \in Paths : FileSettled(p)

(* What a writer x at work leaves to be undone, or has undone, of the      *)
(* files ...                                                               *)
UndoneFilesInv(w, x) ==
  /\ x.stage \in Committing => \A p \in Paths : p \in edited \/ x.backup[p] = agreed[p]
  /\ x.stage \in {"apply", "replace"} =>
       \A p \in Paths : p >= x.next \/ ~Writes(w, p) => FileSettled(p)
  /\ x.stage = "replace" => x.next \in Paths /\ Writes(w, x.next)
  /\ x.stage \in {"lock", "manifest", "reread", "restoreLock", "restoreManifest"} =>
       x.next = Cardinality(Paths) + 1 /\ \A p \in Paths : ~Writes(w, p) => FileSettled(p)
  /\ x.stage = "undo" /\ ~x.unrestored =>
       \A p \in Paths : p > x.next \/ ~Writes(w, p) => FileSettled(p)
  /\ x.stage = "finish" /\ x.failed /\ ~x.unrestored => \A p \in Paths : FileSettled(p)
(* ... and of the two records.                                             *)
RecordPairInv(x) ==
  /\ x.stage = "begin" => records = x.seenRecords
  /\ x.stage \in Committing => x.seenRecords.lock = x.seenRecords.manifest
  /\ x.stage \in {"apply", "replace", "lock"} => records = x.seenRecords /\ x.wrote = {}
  /\ x.stage = "manifest" => records.lock = x.target /\ records.manifest = x.seenRecords.manifest
                             /\ x.wrote = {"lock"}
  /\ x.stage = "reread" => records = [lock |-> x.target, manifest |-> x.target]
                           /\ x.wrote = {"lock", "manifest"}
  /\ x.stage = "restoreLock" => "lock" \in x.wrote
  /\ x.stage \in {"restoreLock", "restoreManifest"} /\ "manifest" \notin x.wrote =>
       records.manifest = x.seenRecords.manifest
  /\ x.stage = "restoreManifest" /\ ~x.unrestored => records.lock = x.seenRecords.lock
  /\ x.stage = "undo" /\ ~x.unrestored => records = x.seenRecords
  /\ x.stage = "finish" /\ ~(x.failed /\ x.unrestored) => records.lock = records.manifest
SnapshotWriterInv(w) ==
  LET x == writer[w] IN
  /\ x.stage \in UnderWriterLock <=> lockHeld = w
  /\ x.stage \in Committing => marker
  /\ x.stage \in {"apply", "replace", "lock", "manifest", "reread"} =>
       ~x.failed /\ ~x.unrestored
  /\ x.stage \in {"restoreLock", "restoreManifest", "undo"} => x.failed
  /\ x.stage = "restoreLock" => ~x.unrestored
  /\ x.stage = "finish" /\ ~x.failed => ~x.unrestored
  /\ x.stage \notin Committing \ {"apply", "replace"} => NothingDone(x)
  /\ UndoneFilesInv(w, x) /\ RecordPairInv(x)
SnapshotReaderInv(r) ==
  /\ reader[r].stage \in {"marker", "manifest", "lock"} <=> r \in sharing
  /\ reader[r].stage \in {"manifest", "lock"} => ~marker
  /\ reader[r].stage = "lock" => reader[r].manifest = records.manifest
  /\ reader[r].answer # "torn"

(* Unless a marker warns, the repository is whole, or the writer that holds*)
(* the lock has put the marker down.                                       *)
SnapshotInv ==
  /\ SnapshotTyped /\ (marker \/ RepositoryWhole) /\ (sharing # {} => lockHeld = NoWriter)
  /\ \A w \in Writers : SnapshotWriterInv(w)
  /\ \A r \in SnapshotReaders : SnapshotReaderInv(r)

LEMMA PathsCounted == Cardinality(Paths) \in Nat
BY SnapshotsAssumption, FS_CardinalityType

LEMMA BuiltIsContent ==
  ASSUME NEW v \in Versions, NEW p \in Paths PROVE Built[v][p] \in Contents
BY DEF Contents

LEMMA FreshWriterTyped ==
  ASSUME NEW target \in Versions \ {Empty}
  PROVE  FreshWriter(target) \in SnapshotWriterState /\ NothingDone(FreshWriter(target))
<1>1. "absent" \in Contents BY DEF Contents
<1>2. [p \in Paths |-> "absent"] \in [Paths -> Contents] BY <1>1
<1>3. [lock |-> Empty, manifest |-> Empty] \in Pair BY SnapshotsAssumption DEF Pair
<1>4. 1 \in 0..(Cardinality(Paths) + 1) BY PathsCounted
<1>5. Empty \in Versions BY SnapshotsAssumption
<1>6. {} \in SUBSET {"lock", "manifest"} /\ "plan" \in WriterStages BY DEF WriterStages
<1> HIDE DEF Contents, Pair
<1>7. FreshWriter(target) \in SnapshotWriterState
  BY <1>2, <1>3, <1>4, <1>5, <1>6 DEF FreshWriter, SnapshotWriterState
<1>8. NothingDone(FreshWriter(target)) BY DEF FreshWriter, NothingDone
<1> QED BY <1>7, <1>8

LEMMA StageMoves ==
  ASSUME NEW x \in SnapshotWriterState, NEW stage \in WriterStages
  PROVE  /\ [x EXCEPT !.stage = stage] \in SnapshotWriterState
         /\ [x EXCEPT !.stage = stage].stage = stage
         /\ NothingDone(x) => NothingDone([x EXCEPT !.stage = stage])
<1>1. [x EXCEPT !.stage = stage] \in SnapshotWriterState
  BY DEF SnapshotWriterState
<1>2. [x EXCEPT !.stage = stage].stage = stage
  BY DEF SnapshotWriterState
<1>3. NothingDone(x) => NothingDone([x EXCEPT !.stage = stage])
  BY DEF SnapshotWriterState, NothingDone
<1> QED BY <1>1, <1>2, <1>3

LEMMA SnapshotInitially == SnapshotInit => SnapshotInv
<1> SUFFICES ASSUME SnapshotInit PROVE SnapshotInv
  OBVIOUS
<1>1. PICK v \in Versions :
        files = [p \in Paths |-> Built[v][p]] /\ records = [lock |-> v, manifest |-> v]
  BY DEF SnapshotInit
<1>2. PICK target \in [Writers -> Versions \ {Empty}] :
        writer = [w \in Writers |-> FreshWriter(target[w])]
  BY DEF SnapshotInit
<1>3. ASSUME NEW w \in Writers
      PROVE  /\ writer[w] \in SnapshotWriterState /\ writer[w].stage = "plan"
             /\ NothingDone(writer[w])
  <2>1. FreshWriter(target[w]).stage = "plan"
    BY DEF FreshWriter
  <2> QED BY <1>2, <2>1, FreshWriterTyped
<1>4. files \in [Paths -> Contents]
  BY <1>1, BuiltIsContent
<1>5. reader \in [SnapshotReaders -> SnapshotReaderState]
  BY SnapshotsAssumption DEF SnapshotInit, SnapshotReaderState
<1>6. SnapshotTyped
  <2>1. writer \in [Writers -> SnapshotWriterState] BY <1>2, <1>3
  <2>2. records \in Pair BY <1>1 DEF Pair
  <2>3. faults \in 0..MaxFaults BY SnapshotsAssumption DEF SnapshotInit
  <2> QED BY <1>4, <1>5, <2>1, <2>2, <2>3 DEF SnapshotInit, SnapshotTyped
<1>7. RepositoryWhole
  BY <1>1 DEF SnapshotInit, RepositoryWhole, FileSettled
<1>8. ASSUME NEW w \in Writers PROVE SnapshotWriterInv(w)
  BY <1>3, SnapshotsAssumption
     DEF SnapshotInit, SnapshotWriterInv, UndoneFilesInv, RecordPairInv,
         UnderWriterLock, Committing
<1>9. ASSUME NEW r \in SnapshotReaders PROVE SnapshotReaderInv(r)
  BY DEF SnapshotInit, SnapshotReaderInv
<1> QED BY <1>6, <1>7, <1>8, <1>9 DEF SnapshotInv, SnapshotInit

-----------------------------------------------------------------------------
\* A writer outside the lock has nothing to keep but its place in the plan.
LEMMA OutsideTheLock ==
  ASSUME NEW v \in Writers, writer'[v].stage \notin UnderWriterLock, lockHeld' # v,
         NothingDone(writer'[v])
  PROVE  SnapshotWriterInv(v)'
<1> DEFINE y == writer'[v]
<1>1. y.stage \notin Committing /\ y.stage # "begin" /\ y.stage \notin {"undo", "finish"}
  BY DEF UnderWriterLock, Committing
<1> QED BY <1>1 DEF SnapshotWriterInv, UndoneFilesInv, RecordPairInv, UnderWriterLock, Committing

\* Under the lock of one writer, or of none, the others are outside it.
LEMMA OtherWriters ==
  ASSUME SnapshotInv, NEW w \in Writers, lockHeld \in {w, NoWriter}, lockHeld' \in {w, NoWriter},
         \A v \in Writers \ {w} : writer'[v] = writer[v]
  PROVE  \A v \in Writers \ {w} : SnapshotWriterInv(v)'
<1> SUFFICES ASSUME NEW v \in Writers \ {w} PROVE SnapshotWriterInv(v)'
  OBVIOUS
<1>1. lockHeld # v /\ lockHeld' # v BY SnapshotsAssumption
<1>2. writer[v].stage \notin UnderWriterLock
  BY <1>1 DEF SnapshotInv, SnapshotWriterInv
<1>3. NothingDone(writer[v])
  BY <1>2 DEF SnapshotInv, SnapshotWriterInv, UnderWriterLock, Committing
<1> QED BY <1>1, <1>2, <1>3, OutsideTheLock

\* A writer's own step leaves the others where they are.
LEMMA OneWriter ==
  ASSUME SnapshotTyped, NEW w \in Writers, NEW y \in SnapshotWriterState,
         writer' = [writer EXCEPT ![w] = y]
  PROVE  /\ writer' \in [Writers -> SnapshotWriterState] /\ writer'[w] = y
         /\ \A v \in Writers \ {w} : writer'[v] = writer[v]
BY DEF SnapshotTyped

\* What no step of another touches stays as it was.
LEMMA SameWriter ==
  ASSUME NEW v \in Writers, SnapshotWriterInv(v), writer'[v] = writer[v],
         UNCHANGED <<files, edited, records, marker, lockHeld, agreed>>
  PROVE  SnapshotWriterInv(v)'
<1>1. \A p \in Paths : Writes(v, p)' = Writes(v, p)
  BY DEF Writes, Planned, Desired
<1>2. \A p \in Paths : FileSettled(p)' = FileSettled(p)
  BY DEF FileSettled
<1>3. UndoneFilesInv(v, writer[v]) => UndoneFilesInv(v, writer[v])'
  BY <1>1, <1>2 DEF UndoneFilesInv
<1> QED BY <1>3 DEF SnapshotWriterInv, RecordPairInv

\* Readers share the lock with no writer, so that one at work cannot mislead them.
LEMMA SameReaders ==
  ASSUME SnapshotInv, UNCHANGED <<sharing, reader>>,
         lockHeld # NoWriter \/ UNCHANGED <<records, marker>>
  PROVE  \A r \in SnapshotReaders : SnapshotReaderInv(r)'
<1> SUFFICES ASSUME NEW r \in SnapshotReaders PROVE SnapshotReaderInv(r)'
  OBVIOUS
<1>1. SnapshotReaderInv(r) BY DEF SnapshotInv
<1>2. CASE lockHeld # NoWriter
  <2>1. sharing = {} BY <1>2 DEF SnapshotInv
  <2> QED BY <1>1, <2>1 DEF SnapshotReaderInv
<1>3. CASE UNCHANGED <<records, marker>>
  BY <1>1, <1>3 DEF SnapshotReaderInv
<1> QED BY <1>2, <1>3

LEMMA SamePlan ==
  ASSUME NEW w \in Writers, writer'[w].target = writer[w].target,
         writer'[w].base = writer[w].base, writer'[w].seen = writer[w].seen
  PROVE  \A p \in Paths : Writes(w, p)' = Writes(w, p)
BY DEF Writes, Planned, Desired

\* A writer that ends.
LEMMA EndsOutside ==
  ASSUME SnapshotTyped, NEW w \in Writers, NEW stage \in {"done", "killed"}, Ends(w, stage)
  PROVE  /\ writer' \in [Writers -> SnapshotWriterState]
         /\ writer'[w].stage = stage /\ NothingDone(writer'[w])
         /\ \A v \in Writers \ {w} : writer'[v] = writer[v]
<1> DEFINE y == [FreshWriter(writer[w].target) EXCEPT !.stage = stage]
<1>1. writer[w].target \in Versions \ {Empty}
  BY DEF SnapshotTyped, SnapshotWriterState
<1>2. y \in SnapshotWriterState /\ y.stage = stage /\ NothingDone(y)
  <2>1. stage \in WriterStages BY DEF WriterStages
  <2> QED BY <1>1, <2>1, FreshWriterTyped, StageMoves
<1>3. writer' = [writer EXCEPT ![w] = y]
  BY DEF Ends
<1> HIDE DEF y
<1> QED BY <1>2, <1>3 DEF SnapshotTyped

\* A step of one writer keeps what it keeps itself, what the others keep, and what
\* the readers rely on.
LEMMA WriterStep ==
  ASSUME SnapshotInv, NEW w \in Writers, SnapshotTyped', (marker \/ RepositoryWhole)',
         (sharing # {} => lockHeld = NoWriter)', UNCHANGED <<sharing, reader>>,
         \A v \in Writers \ {w} : writer'[v] = writer[v], SnapshotWriterInv(w)',
         \/ lockHeld = w /\ lockHeld' \in {w, NoWriter}
         \/ lockHeld = NoWriter /\ lockHeld' = w /\ UNCHANGED <<records, marker>>
         \/ UNCHANGED <<files, edited, records, marker, lockHeld, agreed>>
  PROVE  SnapshotInv'
<1>1. \A v \in Writers \ {w} : SnapshotWriterInv(v)'
  <2>1. CASE lockHeld \in {w, NoWriter} /\ lockHeld' \in {w, NoWriter}
    BY <2>1, OtherWriters
  <2>2. CASE UNCHANGED <<files, edited, records, marker, lockHeld, agreed>>
    BY <2>2, SameWriter DEF SnapshotInv
  <2> QED BY <2>1, <2>2
<1>2. \A r \in SnapshotReaders : SnapshotReaderInv(r)'
  <2>1. lockHeld # NoWriter \/ UNCHANGED <<records, marker>>
    BY SnapshotsAssumption
  <2> QED BY <2>1, SameReaders
<1> QED BY <1>1, <1>2 DEF SnapshotInv

-----------------------------------------------------------------------------
\* Each action of a writer.
LEMMA PlanManifestPreserves ==
  ASSUME SnapshotInv, NEW w \in Writers, PlanManifest(w) PROVE SnapshotInv'
<1> USE DEF Untouched
<1>1. SnapshotTyped BY DEF SnapshotInv
<1>2. writer[w].stage = "plan" /\ lockHeld # w /\ NothingDone(writer[w])
  BY DEF PlanManifest, At, SnapshotInv, SnapshotWriterInv, UnderWriterLock, Committing
<1>3. /\ writer' \in [Writers -> SnapshotWriterState] /\ writer'[w].stage \in {"read", "done"}
      /\ NothingDone(writer'[w]) /\ \A v \in Writers \ {w} : writer'[v] = writer[v]
  <2>1. CASE marker BY <1>1, <2>1, EndsOutside DEF PlanManifest
  <2>2. CASE ~marker
    <3>1. writer' = [writer EXCEPT ![w].stage = "read", ![w].base = records.manifest]
      BY <2>2 DEF PlanManifest
    <3> DEFINE y == [writer[w] EXCEPT !.stage = "read", !.base = records.manifest]
    <3>2. writer[w] \in SnapshotWriterState /\ records.manifest \in Versions
      BY <1>1 DEF SnapshotTyped, Pair
    <3>3. y \in SnapshotWriterState
      BY <3>2 DEF SnapshotWriterState, WriterStages
    <3>4. y.stage = "read" /\ NothingDone(y)
      BY <1>2, <3>2 DEF SnapshotWriterState, NothingDone
    <3>5. writer' = [writer EXCEPT ![w] = y] BY <3>1
    <3> HIDE DEF y
    <3> QED BY <1>1, <3>3, <3>4, <3>5, OneWriter
  <2> QED BY <2>1, <2>2
<1>4. SnapshotWriterInv(w)'
  BY <1>2, <1>3, OutsideTheLock DEF PlanManifest, UnderWriterLock, Committing
<1>5. SnapshotTyped' BY <1>1, <1>3 DEF SnapshotTyped, PlanManifest
<1>6. (marker \/ RepositoryWhole)' /\ (sharing # {} => lockHeld = NoWriter)'
  BY DEF SnapshotInv, RepositoryWhole, FileSettled, PlanManifest
<1> QED BY <1>3, <1>4, <1>5, <1>6, WriterStep DEF PlanManifest

LEMMA PlanFilesPreserves ==
  ASSUME SnapshotInv, NEW w \in Writers, PlanFiles(w) PROVE SnapshotInv'
<1> USE DEF Untouched
<1>1. SnapshotTyped BY DEF SnapshotInv
<1>2. writer[w].stage = "read" /\ lockHeld # w /\ NothingDone(writer[w])
  BY DEF PlanFiles, At, SnapshotInv, SnapshotWriterInv, UnderWriterLock, Committing
<1>3. /\ writer' \in [Writers -> SnapshotWriterState] /\ writer'[w].stage = "acquire"
      /\ NothingDone(writer'[w]) /\ \A v \in Writers \ {w} : writer'[v] = writer[v]
  <2> DEFINE y == [writer[w] EXCEPT !.stage = "acquire", !.seen = files, !.seenRecords = records]
  <2>1. writer[w] \in SnapshotWriterState /\ files \in [Paths -> Contents] /\ records \in Pair
    BY <1>1 DEF SnapshotTyped
  <2>2. y \in SnapshotWriterState
    BY <2>1 DEF SnapshotWriterState, WriterStages
  <2>3. y.stage = "acquire" /\ NothingDone(y)
    BY <1>2, <2>1 DEF SnapshotWriterState, NothingDone
  <2>4. writer' = [writer EXCEPT ![w] = y] BY DEF PlanFiles
  <2> HIDE DEF y
  <2> QED BY <1>1, <2>2, <2>3, <2>4, OneWriter
<1>4. SnapshotWriterInv(w)'
  BY <1>2, <1>3, OutsideTheLock DEF PlanFiles, UnderWriterLock, Committing
<1>5. SnapshotTyped' BY <1>1, <1>3 DEF SnapshotTyped, PlanFiles
<1>6. (marker \/ RepositoryWhole)' /\ (sharing # {} => lockHeld = NoWriter)'
  BY DEF SnapshotInv, RepositoryWhole, FileSettled, PlanFiles
<1> QED BY <1>3, <1>4, <1>5, <1>6, WriterStep DEF PlanFiles

LEMMA AcquirePreserves ==
  ASSUME SnapshotInv, NEW w \in Writers, Acquire(w) PROVE SnapshotInv'
<1> USE DEF Untouched
<1>1. SnapshotTyped BY DEF SnapshotInv
<1>2. writer[w].stage = "acquire" /\ lockHeld # w /\ NothingDone(writer[w])
  BY DEF Acquire, At, SnapshotInv, SnapshotWriterInv, UnderWriterLock, Committing
<1>3. CASE lockHeld = NoWriter /\ sharing = {} /\ lockHeld' = w /\ MovesTo(w, "verify")
  <2>1. /\ writer' \in [Writers -> SnapshotWriterState] /\ writer'[w].stage = "verify"
        /\ NothingDone(writer'[w]) /\ \A v \in Writers \ {w} : writer'[v] = writer[v]
    <3>1. writer[w] \in SnapshotWriterState BY <1>1 DEF SnapshotTyped
    <3>2. PICK y : y = [writer[w] EXCEPT !.stage = "verify"] OBVIOUS
    <3>3. y \in SnapshotWriterState /\ y.stage = "verify" /\ NothingDone(y)
      BY <1>2, <3>1, <3>2, StageMoves DEF WriterStages
    <3>4. writer' = [writer EXCEPT ![w] = y] BY <1>3, <3>2 DEF MovesTo
    <3> QED BY <1>1, <3>3, <3>4, OneWriter
  <2>2. SnapshotWriterInv(w)'
    BY <1>3, <2>1
           DEF SnapshotWriterInv, UndoneFilesInv, RecordPairInv, UnderWriterLock, Committing
  <2>3. SnapshotTyped' BY <1>1, <1>3, <2>1 DEF SnapshotTyped, Acquire
  <2>4. (marker \/ RepositoryWhole)' /\ (sharing # {} => lockHeld = NoWriter)'
    BY <1>3 DEF SnapshotInv, RepositoryWhole, FileSettled, Acquire
  <2> QED BY <1>3, <2>1, <2>2, <2>3, <2>4, WriterStep DEF Acquire
<1>4. CASE Ends(w, "done") /\ UNCHANGED lockHeld
  <2>1. /\ writer' \in [Writers -> SnapshotWriterState] /\ writer'[w].stage = "done"
        /\ NothingDone(writer'[w]) /\ \A v \in Writers \ {w} : writer'[v] = writer[v]
    BY <1>1, <1>4, EndsOutside
  <2>2. SnapshotWriterInv(w)'
    BY <1>2, <1>4, <2>1, OutsideTheLock DEF UnderWriterLock, Committing
  <2>3. SnapshotTyped' BY <1>1, <1>4, <2>1 DEF SnapshotTyped, Acquire
  <2>4. (marker \/ RepositoryWhole)' /\ (sharing # {} => lockHeld = NoWriter)'
    BY <1>4 DEF SnapshotInv, RepositoryWhole, FileSettled, Acquire
  <2> QED BY <1>4, <2>1, <2>2, <2>3, <2>4, WriterStep DEF Acquire
<1> QED BY <1>3, <1>4 DEF Acquire

\* A writer that leaves the lock and ends, with nothing else changed.
LEMMA GivingUpPreserves ==
  ASSUME SnapshotInv, NEW w \in Writers, NEW stage \in {"done", "killed"}, lockHeld = w,
         Ends(w, stage), Leaves(w), Untouched, UNCHANGED <<files, records, marker, agreed,
                faults>>
  PROVE  SnapshotInv'
<1> USE DEF Untouched, Leaves
<1>1. SnapshotTyped BY DEF SnapshotInv
<1>2. /\ writer' \in [Writers -> SnapshotWriterState] /\ writer'[w].stage = stage
      /\ NothingDone(writer'[w]) /\ \A v \in Writers \ {w} : writer'[v] = writer[v]
  BY <1>1, EndsOutside
<1>3. SnapshotWriterInv(w)'
  BY <1>2, OutsideTheLock, SnapshotsAssumption DEF UnderWriterLock, Committing
<1>4. SnapshotTyped' BY <1>1, <1>2 DEF SnapshotTyped
<1>5. (marker \/ RepositoryWhole)' /\ (sharing # {} => lockHeld = NoWriter)'
  BY DEF SnapshotInv, RepositoryWhole, FileSettled
<1> QED BY <1>2, <1>3, <1>4, <1>5, WriterStep

LEMMA KilledPreserves ==
  ASSUME SnapshotInv, NEW w \in Writers, Killed(w) PROVE SnapshotInv'
BY GivingUpPreserves DEF Killed

LEMMA VerifyPreserves ==
  ASSUME SnapshotInv, NEW w \in Writers, Verify(w) PROVE SnapshotInv'
<1>1. SnapshotTyped BY DEF SnapshotInv
<1>2. writer[w].stage = "verify" /\ lockHeld = w /\ NothingDone(writer[w])
  BY DEF Verify, At, SnapshotInv, SnapshotWriterInv, UnderWriterLock, Committing
<1>3. CASE AsPlanned(w) /\ MovesTo(w, "begin") /\ UNCHANGED lockHeld
  <2>1. /\ writer' \in [Writers -> SnapshotWriterState] /\ writer'[w].stage = "begin"
        /\ NothingDone(writer'[w]) /\ \A v \in Writers \ {w} : writer'[v] = writer[v]
        /\ writer'[w].seenRecords = writer[w].seenRecords
    <3>1. writer[w] \in SnapshotWriterState BY <1>1 DEF SnapshotTyped
    <3>2. PICK y : y = [writer[w] EXCEPT !.stage = "begin"] OBVIOUS
    <3>3. y \in SnapshotWriterState /\ y.stage = "begin" /\ NothingDone(y)
      BY <1>2, <3>1, <3>2, StageMoves DEF WriterStages
    <3>4. writer' = [writer EXCEPT ![w] = y] BY <1>3, <3>2 DEF MovesTo
    <3>5. y.seenRecords = writer[w].seenRecords BY <3>1, <3>2 DEF SnapshotWriterState
    <3> QED BY <1>1, <3>3, <3>4, <3>5, OneWriter
  <2>2. SnapshotWriterInv(w)'
    BY <1>2, <1>3, <2>1
       DEF Verify, AsPlanned, SnapshotWriterInv, UndoneFilesInv, RecordPairInv,
           UnderWriterLock, Committing
  <2>3. SnapshotTyped' BY <1>1, <1>3, <2>1 DEF SnapshotTyped, Verify, Untouched
  <2>4. (marker \/ RepositoryWhole)' /\ (sharing # {} => lockHeld = NoWriter)'
    BY <1>3 DEF SnapshotInv, RepositoryWhole, FileSettled, Verify, Untouched
  <2> QED BY <1>2, <1>3, <2>1, <2>2, <2>3, <2>4, WriterStep DEF Verify, Untouched
<1>4. CASE Ends(w, "done") /\ Leaves(w)
  BY <1>2, <1>4, GivingUpPreserves DEF Verify
<1> QED BY <1>3, <1>4 DEF Verify

LEMMA BeginPreserves ==
  ASSUME SnapshotInv, NEW w \in Writers, Begin(w) PROVE SnapshotInv'
<1>1. SnapshotTyped BY DEF SnapshotInv
<1>2. /\ writer[w].stage = "begin" /\ lockHeld = w /\ NothingDone(writer[w])
      /\ records = writer[w].seenRecords
  BY DEF Begin, At, SnapshotInv, SnapshotWriterInv, RecordPairInv, UnderWriterLock, Committing
<1>3. CASE marker
  BY <1>2, <1>3, GivingUpPreserves DEF Begin
<1>4. CASE ~marker
  <2>1. writer' = [writer EXCEPT ![w].stage = "apply", ![w].backup = files,
                                  ![w].late = {}]
    BY <1>4 DEF Begin
  <2>2. /\ writer' \in [Writers -> SnapshotWriterState] /\ writer'[w].stage = "apply"
        /\ \A v \in Writers \ {w} : writer'[v] = writer[v]
        /\ writer'[w] = [writer[w] EXCEPT !.stage = "apply", !.backup = files, !.late = {}]
    <3> DEFINE y == [writer[w] EXCEPT !.stage = "apply", !.backup = files, !.late = {}]
    <3>1. writer[w] \in SnapshotWriterState /\ files \in [Paths -> Contents]
      BY <1>1 DEF SnapshotTyped
    <3>2. y \in SnapshotWriterState
      BY <3>1 DEF SnapshotWriterState, WriterStages
    <3>3. y.stage = "apply"
      BY <3>1 DEF SnapshotWriterState
    <3>4. writer' = [writer EXCEPT ![w] = y] BY <2>1
    <3>5. writer'[w] = y BY <3>2, <3>4, <1>1, OneWriter
    <3> HIDE DEF y
    <3>6. /\ writer' \in [Writers -> SnapshotWriterState]
          /\ \A v \in Writers \ {w} : writer'[v] = writer[v]
      BY <1>1, <3>2, <3>4, OneWriter
    <3> QED BY <3>3, <3>5, <3>6 DEF y
  <2>3. UNCHANGED <<files, edited, records, lockHeld, agreed, sharing, reader,
         faults>> /\ marker' = TRUE
    BY <1>4 DEF Begin, Untouched
  <2>4. RepositoryWhole BY <1>4 DEF SnapshotInv
  <2>5. \A p \in Paths : FileSettled(p)' /\ (p \in edited' \/ writer'[w].backup[p] = agreed'[p])
    BY <2>2, <2>3, <2>4 DEF RepositoryWhole, FileSettled
  <2>6. UndoneFilesInv(w, writer[w])'
    BY <2>2, <2>5 DEF UndoneFilesInv
  <2>7. SnapshotWriterInv(w)'
    BY <1>2, <2>2, <2>3, <2>4, <2>6
       DEF SnapshotWriterInv, NothingDone, RecordPairInv, UnderWriterLock, Committing,
           RepositoryWhole
  <2>8. SnapshotTyped' BY <1>1, <2>2, <2>3 DEF SnapshotTyped
  <2>9. (sharing # {} => lockHeld = NoWriter)' BY <2>3, <1>2 DEF SnapshotInv
  <2> QED BY <1>2, <2>2, <2>3, <2>7, <2>8, <2>9, WriterStep
<1> QED BY <1>3, <1>4

-----------------------------------------------------------------------------
\* Writing the files: each file already passed, and each that the plan leaves
\* alone, is as it was agreed or will be undone.
LEMMA ApplyFacts ==
  ASSUME SnapshotInv, NEW w \in Writers, writer[w].stage \in Committing
  PROVE  /\ SnapshotTyped /\ writer[w] \in SnapshotWriterState /\ lockHeld = w /\ marker
         /\ sharing = {} /\ UndoneFilesInv(w, writer[w]) /\ RecordPairInv(writer[w])
         /\ writer[w].seenRecords.lock = writer[w].seenRecords.manifest
         /\ \A p \in Paths : p \in edited \/ writer[w].backup[p] = agreed[p]
         /\ \A p \in Paths : Built[writer[w].target][p] \in Contents
         /\ writer[w].next \in Int
<1>1. /\ SnapshotTyped /\ writer[w] \in SnapshotWriterState /\ lockHeld = w /\ marker
      /\ UndoneFilesInv(w, writer[w]) /\ RecordPairInv(writer[w])
  BY DEF SnapshotInv, SnapshotTyped, SnapshotWriterInv, UnderWriterLock
<1>2. sharing = {}
  BY <1>1, SnapshotsAssumption DEF SnapshotInv
<1>3. /\ writer[w].seenRecords.lock = writer[w].seenRecords.manifest
      /\ \A p \in Paths : p \in edited \/ writer[w].backup[p] = agreed[p]
  BY <1>1 DEF UndoneFilesInv, RecordPairInv
<1>4. writer[w].target \in Versions /\ writer[w].next \in Int
  BY <1>1, PathsCounted DEF SnapshotWriterState
<1>5. \A p \in Paths : Built[writer[w].target][p] \in Contents
  BY <1>4, BuiltIsContent
<1> QED BY <1>1, <1>2, <1>3, <1>4, <1>5

\* A step under the marker: the writer keeps its plan, its lock and the marker.
SamePromise(x, y) ==
  /\ y.target = x.target /\ y.base = x.base /\ y.seen = x.seen
  /\ y.seenRecords = x.seenRecords /\ y.backup = x.backup
LEMMA CommittingStep ==
  ASSUME SnapshotInv, NEW w \in Writers, writer[w].stage \in Committing,
         writer'[w] \in SnapshotWriterState, writer' = [writer EXCEPT ![w] = writer'[w]],
         writer'[w].stage \in Committing, SamePromise(writer[w], writer'[w]),
         \/ writer'[w].stage \in {"apply", "replace"} /\ NothingDone(writer'[w])
         \/ writer'[w].stage \in {"lock", "manifest", "reread"}
            /\ ~writer'[w].failed /\ ~writer'[w].unrestored
         \/ writer'[w].stage = "restoreLock" /\ writer'[w].failed /\ ~writer'[w].unrestored
         \/ writer'[w].stage \in {"restoreManifest", "undo"} /\ writer'[w].failed
         \/ writer'[w].stage = "finish" /\ (writer'[w].failed \/ ~writer'[w].unrestored),
         UndoneFilesInv(w, writer[w])', RecordPairInv(writer[w])',
         files' \in [Paths -> Contents], records' \in Pair, faults' \in 0..MaxFaults,
         UNCHANGED <<edited, marker, lockHeld, sharing, reader, agreed>>
  PROVE  SnapshotInv'
<1>1. /\ writer' \in [Writers -> SnapshotWriterState]
      /\ \A v \in Writers \ {w} : writer'[v] = writer[v]
  BY OneWriter DEF SnapshotInv
<1>2. lockHeld = w /\ marker /\ sharing = {} /\ SnapshotTyped
  BY ApplyFacts
<1>3. SnapshotTyped' BY <1>1, <1>2 DEF SnapshotTyped
<1>4. SnapshotWriterInv(w)'
  BY <1>1, <1>2 DEF SnapshotWriterInv, UnderWriterLock, NothingDone, Committing
<1>5. (marker \/ RepositoryWhole)' /\ (sharing # {} => lockHeld = NoWriter)'
  BY <1>2
<1> QED BY <1>1, <1>2, <1>3, <1>4, <1>5, WriterStep

\* What a writer promised of the files it does not write is not disturbed by those
\* it does.
LEMMA SamePromisedWrites ==
  ASSUME NEW w \in Writers, SamePromise(writer[w], writer'[w])
  PROVE  \A p \in Paths : Writes(w, p)' = Writes(w, p)
BY SamePlan DEF SamePromise

LEMMA FaultCounted ==
  ASSUME SnapshotTyped, Faulty \/ Sound PROVE faults' \in 0..MaxFaults
BY SnapshotsAssumption DEF SnapshotTyped, Faulty, Sound

\* A step that leaves the files alone.
LEMMA FilesKept ==
  ASSUME NEW w \in Writers, SamePromise(writer[w], writer'[w]), UNCHANGED <<files, edited,
         agreed>>
  PROVE  \A p \in Paths : Writes(w, p)' = Writes(w, p) /\ FileSettled(p)' = FileSettled(p)
BY SamePromisedWrites DEF FileSettled

\* Looking at a file changes nothing but the writer's place.
LEMMA ApplyPreserves ==
  ASSUME SnapshotInv, NEW w \in Writers, Apply(w) PROVE SnapshotInv'
<1> DEFINE x == writer[w]
           p == x.next
<1>1. x.stage = "apply" /\ x.stage \in Committing /\ p \in Paths
  BY DEF Apply, At, Committing
<1>2. /\ SnapshotTyped /\ x \in SnapshotWriterState /\ UndoneFilesInv(w, x) /\ RecordPairInv(x)
      /\ \A q \in Paths : q \in edited \/ x.backup[q] = agreed[q]
  BY <1>1, ApplyFacts
<1>3. NothingDone(x)
  BY <1>1 DEF SnapshotInv, SnapshotWriterInv
<1>4. UNCHANGED <<files, records, edited, marker, lockHeld, sharing, reader, agreed>>
  BY DEF Apply, Untouched
<1>5. files' \in [Paths -> Contents] /\ records' \in Pair /\ faults' \in 0..MaxFaults
  BY <1>2 DEF Apply, SnapshotTyped
<1>6. p \in 1..Cardinality(Paths) /\ Cardinality(Paths) \in Nat /\ Paths \subseteq Int
  BY <1>1, PathsCounted, SnapshotsAssumption
<1>7. \A q \in Paths : q >= p \/ ~Writes(w, q) => FileSettled(q)
  BY <1>1, <1>2 DEF UndoneFilesInv
<1>8. writer' = [writer EXCEPT ![w] = writer'[w]]
  BY <1>2 DEF Apply, SnapshotTyped
<1>9. ASSUME NEW y \in SnapshotWriterState, y = writer'[w], SamePromise(x, y),
             \/ y.stage = "apply" /\ y.next = p + 1 /\ NothingDone(y) /\ ~Writes(w, p)
             \/ y.stage = "replace" /\ y.next = p /\ NothingDone(y) /\ Writes(w, p)
             \/ y.stage = "undo" /\ y.next \in {p - 1, p} /\ y.failed /\ ~y.unrestored
                /\ y.wrote = {}
      PROVE  SnapshotInv'
  <2>1. \A q \in Paths : Writes(w, q)' = Writes(w, q) /\ FileSettled(q)' = FileSettled(q)
    BY <1>4, <1>9, FilesKept
  <2>2. UndoneFilesInv(w, writer[w])'
    BY <1>1, <1>2, <1>4, <1>6, <1>7, <1>9, <2>1 DEF UndoneFilesInv, SamePromise
  <2>3. RecordPairInv(writer[w])'
    BY <1>1, <1>2, <1>4, <1>9 DEF RecordPairInv, SamePromise, Committing, NothingDone
  <2>4. writer'[w].stage \in Committing BY <1>9 DEF Committing
  <2> QED BY <1>1, <1>4, <1>5, <1>8, <1>9, <2>2, <2>3, <2>4, CommittingStep
<1>10. CASE ~Writes(w, p) /\ writer' = [writer EXCEPT ![w].next = p + 1]
  <2>1. writer'[w] = [x EXCEPT !.next = p + 1]
    BY <1>2, <1>10 DEF SnapshotTyped
  <2>2. p + 1 \in 0..(Cardinality(Paths) + 1) BY <1>6
  <2>3. writer'[w] \in SnapshotWriterState
    BY <1>2, <2>1, <2>2 DEF SnapshotWriterState
  <2>4. /\ SamePromise(x, writer'[w]) /\ writer'[w].stage = "apply" /\ writer'[w].next = p + 1
        /\ NothingDone(writer'[w])
    BY <1>1, <1>2, <1>3, <1>6, <2>1 DEF SnapshotWriterState, SamePromise, NothingDone
  <2> QED BY <1>9, <1>10, <2>3, <2>4
<1>11. CASE /\ Writes(w, p)
            /\ writer' = [writer EXCEPT ![w].stage = "replace", ![w].late = @ \ {p}]
  <2>1. writer'[w] = [x EXCEPT !.stage = "replace", !.late = @ \ {p}]
    BY <1>2, <1>11 DEF SnapshotTyped
  <2>2. writer'[w] \in SnapshotWriterState
    <3>1. x.late \ {p} \in SUBSET Paths /\ "replace" \in WriterStages
      BY <1>2 DEF SnapshotWriterState, WriterStages
    <3> QED BY <1>2, <2>1, <3>1 DEF SnapshotWriterState
  <2>3. /\ SamePromise(x, writer'[w]) /\ writer'[w].stage = "replace" /\ writer'[w].next = p
        /\ NothingDone(writer'[w])
    BY <1>1, <1>2, <1>3, <2>1 DEF SnapshotWriterState, SamePromise, NothingDone
  <2> QED BY <1>9, <1>11, <2>2, <2>3
<1>12. CASE writer' = [writer EXCEPT ![w].stage = "undo", ![w].failed = TRUE,
                         ![w].next = IF writer[w].base = Empty THEN p - 1 ELSE p]
  <2>1. PICK n \in {p - 1, p} :
          writer'[w] = [x EXCEPT !.stage = "undo", !.failed = TRUE, !.next = n]
    BY <1>2, <1>12 DEF SnapshotTyped
  <2>2. n \in 0..(Cardinality(Paths) + 1) BY <1>6
  <2>3. writer'[w] \in SnapshotWriterState
    BY <1>2, <2>1, <2>2 DEF SnapshotWriterState, WriterStages
  <2>4. /\ SamePromise(x, writer'[w]) /\ writer'[w].stage = "undo" /\ writer'[w].next = n
        /\ writer'[w].failed /\ ~writer'[w].unrestored /\ writer'[w].wrote = {}
    BY <1>1, <1>2, <1>3, <2>1 DEF SnapshotWriterState, SamePromise, NothingDone
  <2> QED BY <1>9, <2>3, <2>4
<1> QED BY <1>10, <1>11, <1>12 DEF Apply

\* Replacing it disturbs no file but the one that is undone first if that fails.
LEMMA ReplacePreserves ==
  ASSUME SnapshotInv, NEW w \in Writers, Replace(w) PROVE SnapshotInv'
<1> DEFINE x == writer[w]
           p == x.next
<1>1. x.stage = "replace" /\ x.stage \in Committing
  BY DEF Replace, At, Committing
<1>2. /\ SnapshotTyped /\ x \in SnapshotWriterState /\ UndoneFilesInv(w, x) /\ RecordPairInv(x)
      /\ \A q \in Paths : Built[x.target][q] \in Contents
      /\ \A q \in Paths : q \in edited \/ x.backup[q] = agreed[q]
  BY <1>1, ApplyFacts
<1>3. NothingDone(x)
  BY <1>1 DEF SnapshotInv, SnapshotWriterInv
<1>4. UNCHANGED <<records, edited, marker, lockHeld, sharing, reader, agreed>>
  BY DEF Replace, Untouched
<1>5. p \in Paths /\ Writes(w, p) /\ \A q \in Paths : q >= p \/ ~Writes(w, q) => FileSettled(q)
  BY <1>1, <1>2 DEF UndoneFilesInv
<1>6. files' \in {files, Applied(w, p)} /\ files \in [Paths -> Contents] /\ records \in Pair
  BY <1>2 DEF Replace, SnapshotTyped
<1>7. files' \in [Paths -> Contents] /\ \A q \in Paths : q # p => files'[q] = files[q]
  BY <1>2, <1>5, <1>6 DEF Applied, Desired
<1>8. faults' \in 0..MaxFaults
  BY <1>2, FaultCounted DEF Replace
<1>9. p \in 1..Cardinality(Paths) /\ Cardinality(Paths) \in Nat /\ Paths \subseteq Int
  BY <1>5, PathsCounted, SnapshotsAssumption
<1>10. writer' = [writer EXCEPT ![w] = writer'[w]]
  BY <1>2 DEF Replace, FailsTo, SnapshotTyped
<1>11. ASSUME NEW y \in SnapshotWriterState, y = writer'[w], SamePromise(x, y),
              \/ y.stage = "apply" /\ y.next = p + 1 /\ NothingDone(y)
              \/ y.stage = "undo" /\ y.next = p /\ y.failed /\ ~y.unrestored /\ y.wrote = {}
       PROVE  SnapshotInv'
  <2>1. \A q \in Paths : Writes(w, q)' = Writes(w, q)
    BY <1>11, SamePromisedWrites
  <2>2. ASSUME NEW q \in Paths, q > p \/ ~Writes(w, q) PROVE FileSettled(q)'
    <3>1. FileSettled(q) /\ q # p BY <1>5, <1>9, <2>2
    <3> QED BY <1>4, <1>7, <3>1 DEF FileSettled
  <2>3. UndoneFilesInv(w, writer[w])'
    BY <1>1, <1>2, <1>4, <1>9, <1>11, <2>1, <2>2 DEF UndoneFilesInv, SamePromise
  <2>4. RecordPairInv(writer[w])'
    BY <1>1, <1>2, <1>4, <1>11 DEF RecordPairInv, SamePromise, Committing, NothingDone
  <2>5. writer'[w].stage \in Committing BY <1>11 DEF Committing
  <2> QED BY <1>1, <1>4, <1>6, <1>7, <1>8, <1>10, <1>11, <2>3, <2>4, <2>5, CommittingStep
<1>12. CASE writer' = [writer EXCEPT ![w].stage = "apply", ![w].next = p + 1]
  <2>1. writer'[w] = [x EXCEPT !.stage = "apply", !.next = p + 1]
    BY <1>2, <1>12 DEF SnapshotTyped
  <2>2. p + 1 \in 0..(Cardinality(Paths) + 1) BY <1>9
  <2>3. writer'[w] \in SnapshotWriterState
    BY <1>2, <2>1, <2>2 DEF SnapshotWriterState, WriterStages
  <2>4. /\ SamePromise(x, writer'[w]) /\ writer'[w].stage = "apply" /\ writer'[w].next = p + 1
        /\ NothingDone(writer'[w])
    BY <1>2, <1>3, <1>9, <2>1 DEF SnapshotWriterState, SamePromise, NothingDone
  <2> QED BY <1>11, <2>3, <2>4
<1>13. CASE FailsTo(w, "undo")
  <2>1. writer'[w] = [x EXCEPT !.stage = "undo", !.failed = TRUE]
    BY <1>2, <1>13 DEF SnapshotTyped, FailsTo
  <2>2. writer'[w] \in SnapshotWriterState
    BY <1>2, <2>1 DEF SnapshotWriterState, WriterStages
  <2>3. /\ SamePromise(x, writer'[w]) /\ writer'[w].stage = "undo" /\ writer'[w].next = p
        /\ writer'[w].failed /\ ~writer'[w].unrestored /\ writer'[w].wrote = {}
    BY <1>2, <1>3, <2>1 DEF SnapshotWriterState, SamePromise, NothingDone
  <2> QED BY <1>11, <2>2, <2>3
<1> QED BY <1>12, <1>13 DEF Replace

\* The writer's record when it moves to another stage.
LEMMA StageOnly ==
  ASSUME SnapshotTyped, NEW w \in Writers, NEW stage \in WriterStages, MovesTo(w, stage)
  PROVE  /\ writer'[w] \in SnapshotWriterState /\ writer' = [writer EXCEPT ![w] = writer'[w]]
         /\ SamePromise(writer[w], writer'[w]) /\ writer'[w].stage = stage
         /\ writer'[w].failed = writer[w].failed /\ writer'[w].unrestored = writer[w].unrestored
         /\ writer'[w].wrote = writer[w].wrote /\ writer'[w].next = writer[w].next
         /\ writer'[w].late = writer[w].late
<1> DEFINE x == writer[w]
<1>1. x \in SnapshotWriterState /\ writer'[w] = [x EXCEPT !.stage = stage]
  BY DEF SnapshotTyped, MovesTo
<1>2. writer'[w] \in SnapshotWriterState
  BY <1>1 DEF SnapshotWriterState
<1>3. SamePromise(x, writer'[w])
  BY <1>1 DEF SnapshotWriterState, SamePromise
<1>4. /\ writer'[w].stage = stage /\ writer'[w].failed = writer[w].failed
      /\ writer'[w].unrestored = x.unrestored
      /\ writer'[w].wrote = x.wrote /\ writer'[w].next = x.next /\ writer'[w].late = x.late
  BY <1>1 DEF SnapshotWriterState
<1>5. writer' = [writer EXCEPT ![w] = writer'[w]]
  BY DEF SnapshotTyped, MovesTo
<1> QED BY <1>2, <1>3, <1>4, <1>5

LEMMA StageFails ==
  ASSUME SnapshotTyped, NEW w \in Writers, NEW stage \in WriterStages, FailsTo(w, stage)
  PROVE  /\ writer'[w] \in SnapshotWriterState /\ writer' = [writer EXCEPT ![w] = writer'[w]]
         /\ SamePromise(writer[w], writer'[w]) /\ writer'[w].stage = stage
         /\ writer'[w].failed /\ writer'[w].unrestored = writer[w].unrestored
         /\ writer'[w].wrote = writer[w].wrote /\ writer'[w].next = writer[w].next
         /\ writer'[w].late = writer[w].late
<1> DEFINE x == writer[w]
<1>1. x \in SnapshotWriterState /\ writer'[w] = [x EXCEPT !.stage = stage, !.failed = TRUE]
  BY DEF SnapshotTyped, FailsTo
<1>2. writer'[w] \in SnapshotWriterState
  BY <1>1 DEF SnapshotWriterState
<1>3. SamePromise(x, writer'[w])
  BY <1>1 DEF SnapshotWriterState, SamePromise
<1>4. /\ writer'[w].stage = stage /\ writer'[w].failed
      /\ writer'[w].unrestored = x.unrestored
      /\ writer'[w].wrote = x.wrote /\ writer'[w].next = x.next /\ writer'[w].late = x.late
  BY <1>1 DEF SnapshotWriterState
<1>5. writer' = [writer EXCEPT ![w] = writer'[w]]
  BY DEF SnapshotTyped, FailsTo
<1> QED BY <1>2, <1>3, <1>4, <1>5

LEMMA CheckAppliedPreserves ==
  ASSUME SnapshotInv, NEW w \in Writers, CheckApplied(w) PROVE SnapshotInv'
<1> DEFINE x == writer[w]
<1>1. x.stage = "apply" /\ x.stage \in Committing /\ x.next \notin Paths
  BY DEF CheckApplied, At, Committing
<1>2. /\ SnapshotTyped /\ x \in SnapshotWriterState /\ UndoneFilesInv(w, x) /\ RecordPairInv(x)
      /\ \A q \in Paths : q \in edited \/ x.backup[q] = agreed[q]
      /\ x.seenRecords.lock = x.seenRecords.manifest
  BY <1>1, ApplyFacts
<1>3. NothingDone(x)
  BY <1>1 DEF SnapshotInv, SnapshotWriterInv
<1>4. UNCHANGED <<files, records, edited, marker, lockHeld, sharing, reader, agreed>>
  BY DEF CheckApplied, Untouched
<1>5. files' \in [Paths -> Contents] /\ records' \in Pair /\ faults' \in 0..MaxFaults
  BY <1>2, <1>4 DEF SnapshotTyped, CheckApplied
<1>6. x.next = Cardinality(Paths) + 1 /\ \A q \in Paths : q <= Cardinality(Paths) /\ q \in Int
  BY <1>1, <1>2, <1>3, PathsCounted, SnapshotsAssumption DEF SnapshotWriterState, NothingDone
<1>7. \A q \in Paths : ~Writes(w, q) => FileSettled(q)
  BY <1>1, <1>2 DEF UndoneFilesInv
<1>8. CASE MovesTo(w, "lock") \/ MovesTo(w, "finish") \/ FailsTo(w, "undo")
  <2>1. PICK stage \in {"lock", "finish", "undo"} :
          /\ writer'[w] \in SnapshotWriterState /\ writer' = [writer EXCEPT ![w] = writer'[w]]
          /\ SamePromise(x, writer'[w]) /\ writer'[w].stage = stage
          /\ stage = "undo" => writer'[w].failed
          /\ stage # "undo" => ~writer'[w].failed
          /\ ~writer'[w].unrestored /\ writer'[w].wrote = x.wrote /\ writer'[w].next = x.next
    BY <1>2, <1>3, <1>8, StageOnly, StageFails DEF WriterStages, NothingDone
  <2>2. \A q \in Paths : Writes(w, q)' = Writes(w, q) /\ FileSettled(q)' = FileSettled(q)
    BY <1>4, <2>1, FilesKept
  <2>3. UndoneFilesInv(w, writer[w])'
    BY <1>2, <1>4, <1>6, <1>7, <2>1, <2>2, PathsCounted DEF UndoneFilesInv, SamePromise
  <2>4. RecordPairInv(writer[w])'
    BY <1>1, <1>2, <1>4, <2>1 DEF RecordPairInv, SamePromise, Committing
  <2>5. writer'[w].stage \in Committing BY <2>1 DEF Committing
  <2> QED BY <1>1, <1>4, <1>5, <2>1, <2>3, <2>4, <2>5, CommittingStep
<1> QED BY <1>8 DEF CheckApplied

LEMMA PairIsItsRecords ==
  ASSUME NEW pair \in Pair PROVE pair = [lock |-> pair.lock, manifest |-> pair.manifest]
BY DEF Pair

\* The two records: the one that a writer has renamed counts as written.
LEMMA CommitRecordPreserves ==
  ASSUME SnapshotInv, NEW w \in Writers, NEW record \in {"lock", "manifest"},
         CommitRecord(w, record)
  PROVE  SnapshotInv'
<1> DEFINE x == writer[w]
           renamed == [records EXCEPT ![record] = x.target]
<1>1. x.stage = record /\ x.stage \in Committing
  BY DEF CommitRecord, At, Committing
<1>2. /\ SnapshotTyped /\ x \in SnapshotWriterState /\ UndoneFilesInv(w, x) /\ RecordPairInv(x)
      /\ \A q \in Paths : q \in edited \/ x.backup[q] = agreed[q]
      /\ x.seenRecords.lock = x.seenRecords.manifest
  BY <1>1, ApplyFacts
<1>3. ~x.failed /\ ~x.unrestored
  BY <1>1 DEF SnapshotInv, SnapshotWriterInv
<1>4. UNCHANGED <<files, edited, marker, lockHeld, sharing, reader, agreed>>
  BY DEF CommitRecord, Untouched
<1>5. renamed \in Pair /\ records \in Pair
  BY <1>2 DEF SnapshotTyped, Pair, SnapshotWriterState
<1>6. files' \in [Paths -> Contents] /\ records' \in Pair /\ faults' \in 0..MaxFaults
  BY <1>2, <1>4, <1>5, FaultCounted DEF SnapshotTyped, CommitRecord
<1> DEFINE then == IF record = "lock" THEN "manifest" ELSE "reread"
<1>7. ASSUME Wrote(w, record, FALSE)
      PROVE  /\ writer'[w] \in SnapshotWriterState /\ writer' = [writer EXCEPT ![w] = writer'[w]]
             /\ SamePromise(x, writer'[w]) /\ writer'[w].stage = then
             /\ ~writer'[w].failed /\ ~writer'[w].unrestored
             /\ writer'[w].wrote = x.wrote \cup {record} /\ writer'[w].next = x.next
  <2>1. writer'[w] = [x EXCEPT !.wrote = x.wrote \cup {record}, !.failed = FALSE, !.stage = then]
    BY <1>2, <1>7 DEF Wrote, SnapshotTyped
  <2>2. x.wrote \cup {record} \in SUBSET {"lock", "manifest"} /\ then \in WriterStages
    BY <1>2 DEF SnapshotWriterState, WriterStages
  <2>3. writer' = [writer EXCEPT ![w] = writer'[w]]
    BY <1>2, <1>7 DEF Wrote, SnapshotTyped
  <2> HIDE DEF then
  <2>4. writer'[w] \in SnapshotWriterState
    BY <1>2, <2>1, <2>2 DEF SnapshotWriterState
  <2>5. SamePromise(x, writer'[w])
    BY <1>2, <2>1 DEF SnapshotWriterState, SamePromise
  <2>6. /\ writer'[w].stage = then /\ ~writer'[w].failed
        /\ writer'[w].unrestored = x.unrestored
        /\ writer'[w].wrote = x.wrote \cup {record} /\ writer'[w].next = x.next
    BY <1>2, <2>1 DEF SnapshotWriterState
  <2> QED BY <1>3, <2>3, <2>4, <2>5, <2>6
<1>8. ASSUME Wrote(w, record, TRUE)
      PROVE  /\ writer'[w] \in SnapshotWriterState /\ writer' = [writer EXCEPT ![w] = writer'[w]]
             /\ SamePromise(x, writer'[w]) /\ writer'[w].stage = "restoreLock"
             /\ writer'[w].failed /\ ~writer'[w].unrestored
             /\ writer'[w].wrote = x.wrote \cup {record} /\ writer'[w].next = x.next
  <2>1. writer'[w] = [x EXCEPT !.wrote = x.wrote \cup {record}, !.failed = TRUE,
         !.stage = "restoreLock"]
    BY <1>2, <1>8 DEF Wrote, SnapshotTyped
  <2>2. x.wrote \cup {record} \in SUBSET {"lock", "manifest"} /\ "restoreLock" \in WriterStages
    BY <1>2 DEF SnapshotWriterState, WriterStages
  <2>3. writer' = [writer EXCEPT ![w] = writer'[w]]
    BY <1>2, <1>8 DEF Wrote, SnapshotTyped
  <2> HIDE DEF then
  <2>4. writer'[w] \in SnapshotWriterState
    BY <1>2, <2>1, <2>2 DEF SnapshotWriterState
  <2>5. SamePromise(x, writer'[w])
    BY <1>2, <2>1 DEF SnapshotWriterState, SamePromise
  <2>6. /\ writer'[w].stage = "restoreLock" /\ writer'[w].failed
        /\ writer'[w].unrestored = x.unrestored
        /\ writer'[w].wrote = x.wrote \cup {record} /\ writer'[w].next = x.next
    BY <1>2, <2>1 DEF SnapshotWriterState
  <2> QED BY <1>3, <2>3, <2>4, <2>5, <2>6
<1>w. /\ writer'[w] \in SnapshotWriterState /\ writer' = [writer EXCEPT ![w] = writer'[w]]
      /\ SamePromise(x, writer'[w]) /\ ~writer'[w].unrestored
      /\ writer'[w].wrote = x.wrote \cup {record} /\ writer'[w].next = x.next
      /\ \/ writer'[w].stage = then /\ ~writer'[w].failed /\ records' = renamed
         \/ /\ writer'[w].stage = "restoreLock" /\ writer'[w].failed
            /\ records' \in {records, renamed}
  BY <1>7, <1>8 DEF CommitRecord
<1>9. \A q \in Paths : Writes(w, q)' = Writes(w, q) /\ FileSettled(q)' = FileSettled(q)
  BY <1>4, <1>w, FilesKept
<1>10. UndoneFilesInv(w, writer[w])'
  BY <1>1, <1>2, <1>4, <1>w, <1>9 DEF UndoneFilesInv, SamePromise
<1>11. RecordPairInv(writer[w])'
  <2>1. record = "lock" => records = x.seenRecords /\ x.wrote = {}
    BY <1>1, <1>2 DEF RecordPairInv
  <2>2. record = "manifest" => /\ records.lock = x.target /\ x.wrote = {"lock"}
                               /\ records.manifest = x.seenRecords.manifest
    BY <1>1, <1>2 DEF RecordPairInv
  <2>3. /\ renamed[record] = x.target
        /\ record = "lock" => renamed.manifest = records.manifest
        /\ record = "manifest" => renamed = [lock |-> records.lock, manifest |-> x.target]
    <3>1. CASE record = "lock" BY <1>5, <3>1 DEF Pair
    <3>2. CASE record = "manifest"
      <4>1. renamed.manifest = x.target /\ renamed.lock = records.lock
        BY <1>5, <3>2 DEF Pair
      <4> QED BY <1>5, <3>2, <4>1, PairIsItsRecords
    <3> QED BY <3>1, <3>2
  <2>4. CASE record = "lock"
    BY <1>2, <1>w, <2>1, <2>3, <2>4 DEF RecordPairInv, SamePromise, Committing
  <2>5. CASE record = "manifest"
    BY <1>2, <1>w, <2>2, <2>3, <2>5 DEF RecordPairInv, SamePromise, Committing
  <2> QED BY <2>4, <2>5
<1>12. writer'[w].stage \in Committing BY <1>w DEF Committing
<1>13. \/ /\ writer'[w].stage \in {"manifest", "reread"}
          /\ ~writer'[w].failed /\ ~writer'[w].unrestored
       \/ writer'[w].stage = "restoreLock" /\ writer'[w].failed /\ ~writer'[w].unrestored
  BY <1>w
<1> HIDE DEF then, renamed
<1> QED BY <1>1, <1>4, <1>6, <1>w, <1>10, <1>11, <1>12, <1>13, CommittingStep

LEMMA RereadPreserves ==
  ASSUME SnapshotInv, NEW w \in Writers, Reread(w) PROVE SnapshotInv'
<1> DEFINE x == writer[w]
<1>1. x.stage = "reread" /\ x.stage \in Committing
  BY DEF Reread, At, Committing
<1>2. /\ SnapshotTyped /\ x \in SnapshotWriterState /\ UndoneFilesInv(w, x) /\ RecordPairInv(x)
      /\ \A q \in Paths : q \in edited \/ x.backup[q] = agreed[q]
      /\ x.seenRecords.lock = x.seenRecords.manifest
  BY <1>1, ApplyFacts
<1>3. ~x.failed /\ ~x.unrestored
  BY <1>1 DEF SnapshotInv, SnapshotWriterInv
<1>4. UNCHANGED <<files, records, edited, marker, lockHeld, sharing, reader, agreed>>
  BY DEF Reread, Untouched
<1>5. files' \in [Paths -> Contents] /\ records' \in Pair /\ faults' \in 0..MaxFaults
  BY <1>2, <1>4, FaultCounted DEF SnapshotTyped, Reread
<1>6. PICK stage \in {"restoreLock", "finish"} :
        /\ writer'[w] \in SnapshotWriterState /\ writer' = [writer EXCEPT ![w] = writer'[w]]
        /\ SamePromise(x, writer'[w]) /\ writer'[w].stage = stage
        /\ stage = "restoreLock" <=> writer'[w].failed
        /\ ~writer'[w].unrestored /\ writer'[w].wrote = x.wrote /\ writer'[w].next = x.next
  <2>1. CASE MovesTo(w, "finish")
    BY <1>2, <1>3, <2>1, StageOnly DEF WriterStages
  <2>2. CASE FailsTo(w, "restoreLock")
    BY <1>2, <1>3, <2>2, StageFails DEF WriterStages
  <2> QED BY <2>1, <2>2 DEF Reread
<1>7. \A q \in Paths : Writes(w, q)' = Writes(w, q) /\ FileSettled(q)' = FileSettled(q)
  BY <1>4, <1>6, FilesKept
<1>8. UndoneFilesInv(w, writer[w])'
  BY <1>1, <1>2, <1>4, <1>6, <1>7 DEF UndoneFilesInv, SamePromise
<1>9. RecordPairInv(writer[w])'
  BY <1>1, <1>2, <1>4, <1>6 DEF RecordPairInv, SamePromise, Committing
<1>10. writer'[w].stage \in Committing BY <1>6 DEF Committing
<1> QED BY <1>1, <1>4, <1>5, <1>6, <1>8, <1>9, <1>10, CommittingStep

\* Undoing: the records, then the files.
LEMMA RestoreRecordPreserves ==
  ASSUME SnapshotInv, NEW w \in Writers,
         \/ RestoreRecord(w, "lock", "restoreLock", "restoreManifest")
         \/ RestoreRecord(w, "manifest", "restoreManifest", "undo")
  PROVE  SnapshotInv'
<1> DEFINE x == writer[w]
<1>1. PICK record \in {"lock", "manifest"} :
        /\ x.stage = IF record = "lock" THEN "restoreLock" ELSE "restoreManifest"
        /\ LET then == IF record = "lock" THEN "restoreManifest" ELSE "undo" IN
           \/ record \notin x.wrote /\ UNCHANGED records /\ Sound /\ MovesTo(w, then)
           \/ /\ record \in x.wrote /\ Sound /\ MovesTo(w, then)
              /\ records' = [records EXCEPT ![record] = x.seenRecords[record]]
           \/ /\ record \in x.wrote /\ UNCHANGED records /\ Faulty
              /\ writer' = [writer EXCEPT ![w].stage = then, ![w].unrestored = TRUE]
        /\ UNCHANGED <<files, marker, lockHeld, agreed>> /\ Untouched
  <2>1. CASE RestoreRecord(w, "lock", "restoreLock", "restoreManifest")
    BY <2>1 DEF RestoreRecord, At
  <2>2. CASE RestoreRecord(w, "manifest", "restoreManifest", "undo")
    BY <2>2 DEF RestoreRecord, At
  <2> QED BY <2>1, <2>2
<1> DEFINE then == IF record = "lock" THEN "restoreManifest" ELSE "undo"
<1>2. x.stage \in Committing /\ then \in WriterStages /\ then \in Committing
  BY <1>1 DEF Committing, WriterStages
<1>3. /\ SnapshotTyped /\ x \in SnapshotWriterState /\ UndoneFilesInv(w, x) /\ RecordPairInv(x)
      /\ \A q \in Paths : q \in edited \/ x.backup[q] = agreed[q]
      /\ x.seenRecords.lock = x.seenRecords.manifest
  BY <1>2, ApplyFacts
<1>4. x.failed /\ (x.stage = "restoreLock" => ~x.unrestored)
  BY <1>1 DEF SnapshotInv, SnapshotWriterInv
<1>5. UNCHANGED <<files, edited, marker, lockHeld, sharing, reader, agreed>>
  BY <1>1 DEF Untouched
<1>6. records \in Pair /\ x.seenRecords \in Pair
  BY <1>3 DEF SnapshotTyped, SnapshotWriterState
<1>7. files' \in [Paths -> Contents] /\ records' \in Pair /\ faults' \in 0..MaxFaults
  <2>1. [records EXCEPT ![record] = x.seenRecords[record]] \in Pair
    BY <1>6 DEF Pair
  <2> QED BY <1>1, <1>3, <1>5, <1>6, <2>1, FaultCounted DEF SnapshotTyped
<1>8. /\ writer'[w] \in SnapshotWriterState /\ writer' = [writer EXCEPT ![w] = writer'[w]]
      /\ SamePromise(x, writer'[w]) /\ writer'[w].stage = then
      /\ writer'[w].failed /\ writer'[w].wrote = x.wrote /\ writer'[w].next = x.next
      /\ \/ writer'[w].unrestored
         \/ /\ ~writer'[w].unrestored /\ ~x.unrestored
            /\ \/ record \notin x.wrote /\ UNCHANGED records
               \/ /\ record \in x.wrote
                  /\ records' = [records EXCEPT ![record] = x.seenRecords[record]]
  <2>1. CASE MovesTo(w, then)
    <3>1. /\ writer'[w] \in SnapshotWriterState /\ writer' = [writer EXCEPT ![w] = writer'[w]]
          /\ SamePromise(x, writer'[w]) /\ writer'[w].stage = then
          /\ writer'[w].failed /\ writer'[w].wrote = x.wrote /\ writer'[w].next = x.next
          /\ writer'[w].unrestored = x.unrestored
      BY <1>2, <1>3, <1>4, <2>1, StageOnly
    <3>2. CASE ~writer'[w].unrestored
      <4>1. writer' # [writer EXCEPT ![w].stage = then, ![w].unrestored = TRUE]
        BY <1>3, <3>2 DEF SnapshotTyped, SnapshotWriterState
      <4> QED BY <1>1, <3>1, <3>2, <4>1
    <3> QED BY <3>1, <3>2
  <2>2. CASE writer' = [writer EXCEPT ![w].stage = then, ![w].unrestored = TRUE]
    <3>1. writer'[w] = [x EXCEPT !.stage = then, !.unrestored = TRUE]
      BY <1>3, <2>2 DEF SnapshotTyped
    <3>2. writer' = [writer EXCEPT ![w] = writer'[w]]
      BY <1>3, <2>2 DEF SnapshotTyped
    <3> HIDE DEF then
    <3>3. writer'[w] \in SnapshotWriterState
      BY <1>2, <1>3, <3>1 DEF SnapshotWriterState
    <3>4. SamePromise(x, writer'[w])
      BY <1>3, <3>1 DEF SnapshotWriterState, SamePromise
    <3>5. /\ writer'[w].stage = then /\ writer'[w].failed /\ writer'[w].unrestored
          /\ writer'[w].wrote = x.wrote /\ writer'[w].next = x.next
      BY <1>3, <1>4, <3>1 DEF SnapshotWriterState
    <3> QED BY <3>2, <3>3, <3>4, <3>5
  <2> QED BY <1>1, <2>1, <2>2
<1>9. \A q \in Paths : Writes(w, q)' = Writes(w, q) /\ FileSettled(q)' = FileSettled(q)
  BY <1>5, <1>8, FilesKept
<1>10. \A q \in Paths : q <= Cardinality(Paths) /\ q \in Int
  BY PathsCounted, SnapshotsAssumption
<1>11. x.next = Cardinality(Paths) + 1 /\ \A q \in Paths : ~Writes(w, q) => FileSettled(q)
  BY <1>1, <1>3 DEF UndoneFilesInv
<1>12. UndoneFilesInv(w, writer[w])'
  BY <1>3, <1>5, <1>8, <1>9, <1>10, <1>11, PathsCounted DEF UndoneFilesInv, SamePromise
<1>13. RecordPairInv(writer[w])'
  <2>1. CASE record = "lock"
    <3>1. "lock" \in x.wrote BY <1>1, <1>3, <2>1 DEF RecordPairInv
    <3>2. "manifest" \notin x.wrote => records.manifest = x.seenRecords.manifest
      BY <1>1, <1>3, <2>1 DEF RecordPairInv
    <3>3. records'.manifest = records.manifest
      BY <1>1, <1>6, <2>1 DEF Pair
    <3>4. ~writer'[w].unrestored => records'.lock = x.seenRecords.lock
      BY <1>6, <1>8, <2>1, <3>1 DEF Pair
    <3> QED BY <1>3, <1>8, <2>1, <3>2, <3>3, <3>4 DEF RecordPairInv, SamePromise, Committing
  <2>2. CASE record = "manifest"
    <3>1. "manifest" \notin x.wrote => records.manifest = x.seenRecords.manifest
      BY <1>1, <1>3, <2>2 DEF RecordPairInv
    <3>2. ~x.unrestored => records.lock = x.seenRecords.lock
      BY <1>1, <1>3, <2>2 DEF RecordPairInv
    <3>3. records'.lock = records.lock
      BY <1>1, <1>6, <2>2 DEF Pair
    <3>4. ~writer'[w].unrestored => /\ records'.lock = x.seenRecords.lock
                                    /\ records'.manifest = x.seenRecords.manifest
      BY <1>6, <1>8, <2>2, <3>1, <3>2, <3>3 DEF Pair
    <3>5. ~writer'[w].unrestored => records' = x.seenRecords
      BY <1>6, <1>7, <3>4, PairIsItsRecords
    <3> QED BY <1>3, <1>8, <2>2, <3>5 DEF RecordPairInv, SamePromise, Committing
  <2> QED BY <2>1, <2>2
<1>14. writer'[w].stage \in {"restoreManifest", "undo"}
  BY <1>8
<1> QED BY <1>2, <1>5, <1>7, <1>8, <1>12, <1>13, <1>14, CommittingStep

LEMMA UndoPreserves ==
  ASSUME SnapshotInv, NEW w \in Writers, Undo(w) PROVE SnapshotInv'
<1> DEFINE x == writer[w]
           p == IF x.next \in Paths THEN x.next ELSE x.next - 1
<1>1. x.stage = "undo" /\ x.stage \in Committing /\ p \in Paths
  BY DEF Undo, At, Committing
<1>2. /\ SnapshotTyped /\ x \in SnapshotWriterState /\ UndoneFilesInv(w, x) /\ RecordPairInv(x)
      /\ \A q \in Paths : q \in edited \/ x.backup[q] = agreed[q]
      /\ x.seenRecords.lock = x.seenRecords.manifest
  BY <1>1, ApplyFacts
<1>3. x.failed
  BY <1>1 DEF SnapshotInv, SnapshotWriterInv
<1>4. UNCHANGED <<records, edited, marker, lockHeld, sharing, reader, agreed>>
  BY DEF Undo, Untouched
<1>5. /\ x.backup \in [Paths -> Contents] /\ files \in [Paths -> Contents]
      /\ writer \in [Writers -> SnapshotWriterState]
  BY <1>2 DEF SnapshotTyped, SnapshotWriterState
<1>6. /\ files' \in [Paths -> Contents]
      /\ \A q \in Paths : q # p \/ ~Writes(w, p) => files'[q] = files[q]
  <2>1. CASE files' = [files EXCEPT ![p] = IF Writes(w, p) THEN x.backup[p] ELSE @]
    BY <1>1, <1>5, <2>1
  <2>2. CASE UNCHANGED files BY <1>5, <2>2
  <2> QED BY <2>1, <2>2 DEF Undo
<1>7. records' \in Pair /\ faults' \in 0..MaxFaults
  BY <1>2, <1>4, FaultCounted DEF SnapshotTyped, Undo
<1>8. /\ p \in 1..Cardinality(Paths) /\ Cardinality(Paths) \in Nat
      /\ Paths = 1..Cardinality(Paths)
      /\ x.next \in 0..(Cardinality(Paths) + 1)
  BY <1>1, <1>2, PathsCounted, SnapshotsAssumption DEF SnapshotWriterState
<1>9. PICK unrestored \in BOOLEAN :
        /\ writer'[w] = [x EXCEPT !.next = p - 1, !.unrestored = unrestored]
        /\ writer' = [writer EXCEPT ![w] = writer'[w]]
        /\ ~unrestored => /\ ~x.unrestored
                          /\ files' = [files EXCEPT ![p] =
                                         IF Writes(w, p) THEN x.backup[p] ELSE @]
  <2>1. CASE writer' = [writer EXCEPT ![w].next = p - 1]
             /\ files' = [files EXCEPT ![p] = IF Writes(w, p) THEN x.backup[p] ELSE @]
    <3>1. writer'[w] = [x EXCEPT !.next = p - 1] /\ writer' = [writer EXCEPT ![w] = writer'[w]]
      BY <1>5, <2>1
    <3>2. [x EXCEPT !.next = p - 1] = [x EXCEPT !.next = p - 1, !.unrestored = x.unrestored]
      BY <1>2 DEF SnapshotWriterState
    <3>3. x.unrestored \in BOOLEAN BY <1>2 DEF SnapshotWriterState
    <3> WITNESS x.unrestored \in BOOLEAN
    <3> QED BY <2>1, <3>1, <3>2
  <2>2. CASE writer' = [writer EXCEPT ![w].next = p - 1, ![w].unrestored = TRUE]
    <3>1. /\ writer'[w] = [x EXCEPT !.next = p - 1, !.unrestored = TRUE]
          /\ writer' = [writer EXCEPT ![w] = writer'[w]]
      BY <1>5, <2>2
    <3> WITNESS TRUE \in BOOLEAN
    <3> QED BY <3>1
  <2> QED BY <2>1, <2>2 DEF Undo
<1> HIDE DEF p
<1>10. p - 1 \in 0..(Cardinality(Paths) + 1) BY <1>8
<1>11. writer'[w] \in SnapshotWriterState
  BY <1>2, <1>9, <1>10 DEF SnapshotWriterState
<1>12. /\ SamePromise(x, writer'[w]) /\ writer'[w].stage = "undo" /\ writer'[w].next = p - 1
       /\ writer'[w].failed /\ writer'[w].wrote = x.wrote
       /\ writer'[w].unrestored = unrestored
  BY <1>1, <1>2, <1>3, <1>9 DEF SnapshotWriterState, SamePromise
<1>13. \A q \in Paths : Writes(w, q)' = Writes(w, q)
  BY <1>12, SamePromisedWrites
<1>14. ASSUME ~unrestored, NEW q \in Paths, q > p - 1 \/ ~Writes(w, q) PROVE FileSettled(q)'
  <2>1. ~x.unrestored BY <1>9, <1>14
  <2>2. \A r \in Paths : r > x.next \/ ~Writes(w, r) => FileSettled(r)
    BY <1>1, <1>2, <2>1 DEF UndoneFilesInv
  <2>3. CASE q = p /\ Writes(w, p)
    <3>1. files'[q] = x.backup[q] BY <1>5, <1>9, <1>14, <2>3
    <3> QED BY <1>2, <1>4, <3>1 DEF FileSettled
  <2>4. CASE q # p \/ ~Writes(w, p)
    <3>1. q > x.next \/ ~Writes(w, q)
      BY <1>8, <1>14, <2>4 DEF p
    <3> QED BY <1>4, <1>6, <2>2, <2>4, <3>1 DEF FileSettled
  <2> QED BY <2>3, <2>4
<1>15. UndoneFilesInv(w, writer[w])'
  BY <1>2, <1>4, <1>12, <1>13, <1>14 DEF UndoneFilesInv, SamePromise
<1>16. RecordPairInv(writer[w])'
  BY <1>1, <1>2, <1>4, <1>9, <1>12 DEF RecordPairInv, SamePromise, Committing
<1>17. writer'[w].stage \in Committing BY <1>12 DEF Committing
<1> QED BY <1>1, <1>4, <1>6, <1>7, <1>9, <1>11, <1>12, <1>15, <1>16, <1>17, CommittingStep

LEMMA UndoEndsPreserves ==
  ASSUME SnapshotInv, NEW w \in Writers, UndoEnds(w) PROVE SnapshotInv'
<1> DEFINE x == writer[w]
<1>1. x.stage = "undo" /\ x.stage \in Committing /\ x.next = 0
  BY DEF UndoEnds, At, Committing
<1>2. /\ SnapshotTyped /\ x \in SnapshotWriterState /\ UndoneFilesInv(w, x) /\ RecordPairInv(x)
      /\ \A q \in Paths : q \in edited \/ x.backup[q] = agreed[q]
      /\ x.seenRecords.lock = x.seenRecords.manifest
  BY <1>1, ApplyFacts
<1>3. x.failed
  BY <1>1 DEF SnapshotInv, SnapshotWriterInv
<1>4. UNCHANGED <<files, records, edited, marker, lockHeld, sharing, reader, agreed>>
  BY DEF UndoEnds, Untouched
<1>5. files' \in [Paths -> Contents] /\ records' \in Pair /\ faults' \in 0..MaxFaults
  BY <1>2, <1>4 DEF SnapshotTyped, UndoEnds
<1>6. /\ writer'[w] \in SnapshotWriterState /\ writer' = [writer EXCEPT ![w] = writer'[w]]
      /\ SamePromise(x, writer'[w]) /\ writer'[w].stage = "finish" /\ writer'[w].failed
      /\ writer'[w].unrestored = x.unrestored /\ writer'[w].wrote = x.wrote
      /\ writer'[w].next = x.next
  BY <1>2, <1>3, StageOnly DEF UndoEnds, WriterStages
<1>7. \A q \in Paths : Writes(w, q)' = Writes(w, q) /\ FileSettled(q)' = FileSettled(q)
  BY <1>4, <1>6, FilesKept
<1>8. \A q \in Paths : q > 0
  BY SnapshotsAssumption, PathsCounted
<1>9. UndoneFilesInv(w, writer[w])'
  BY <1>1, <1>2, <1>4, <1>6, <1>7, <1>8 DEF UndoneFilesInv, SamePromise
<1>10. RecordPairInv(writer[w])'
  BY <1>1, <1>2, <1>4, <1>6 DEF RecordPairInv, SamePromise, Committing
<1>11. writer'[w].stage \in Committing BY <1>6 DEF Committing
<1> QED BY <1>1, <1>3, <1>4, <1>5, <1>6, <1>9, <1>10, <1>11, CommittingStep

\* The writer that finishes takes the marker away only when all is as agreed.
LEMMA FinishPreserves ==
  ASSUME SnapshotInv, NEW w \in Writers, FinishSnapshot(w) PROVE SnapshotInv'
<1> DEFINE x == writer[w]
<1> USE DEF Leaves, Untouched
<1>1. x.stage = "finish" /\ x.stage \in Committing
  BY DEF FinishSnapshot, At, Committing
<1>2. /\ SnapshotTyped /\ x \in SnapshotWriterState /\ UndoneFilesInv(w, x) /\ RecordPairInv(x)
      /\ lockHeld = w /\ marker /\ sharing = {}
  BY <1>1, ApplyFacts
<1>3. /\ writer' \in [Writers -> SnapshotWriterState] /\ writer'[w].stage = "done"
      /\ NothingDone(writer'[w]) /\ \A v \in Writers \ {w} : writer'[v] = writer[v]
  BY <1>2, EndsOutside DEF FinishSnapshot
<1>4. SnapshotWriterInv(w)'
  BY <1>3, OutsideTheLock, SnapshotsAssumption DEF FinishSnapshot, UnderWriterLock, Committing
<1>5. SnapshotTyped'
  <2>1. marker' \in BOOLEAN BY <1>2 DEF FinishSnapshot, SnapshotTyped
  <2>2. faults' \in 0..MaxFaults BY <1>2, FaultCounted DEF FinishSnapshot
  <2>3. agreed' \in [Paths -> Contents] BY <1>2 DEF FinishSnapshot, SnapshotTyped
  <2> QED BY <1>2, <1>3, <2>1, <2>2, <2>3 DEF SnapshotTyped, FinishSnapshot
<1>6. (marker \/ RepositoryWhole)'
  <2>1. CASE marker' BY <2>1
  <2>2. CASE ~marker'
    <3>1. ~x.unrestored BY <1>2, <2>2 DEF FinishSnapshot, MayFinish
    <3>2. records'.lock = records'.manifest
      BY <1>1, <1>2, <3>1 DEF RecordPairInv, FinishSnapshot
    <3>3. \A q \in Paths : FileSettled(q)'
      <4>1. CASE x.failed
        BY <1>1, <1>2, <3>1, <4>1 DEF UndoneFilesInv, FileSettled, FinishSnapshot
      <4>2. CASE ~x.failed
        BY <4>2 DEF FileSettled, FinishSnapshot
      <4> QED BY <4>1, <4>2
    <3> QED BY <3>2, <3>3 DEF RepositoryWhole
  <2> QED BY <2>1, <2>2
<1>7. (sharing # {} => lockHeld = NoWriter)' BY <1>2 DEF FinishSnapshot
<1> QED BY <1>2, <1>3, <1>4, <1>5, <1>6, <1>7, WriterStep DEF FinishSnapshot

-----------------------------------------------------------------------------
\* Each action of a reader: none starts under a writer's lock.
LEMMA ReaderStep ==
  ASSUME SnapshotInv, NEW r \in SnapshotReaders, NEW y \in SnapshotReaderState,
         reader' = [reader EXCEPT ![r] = y], sharing' \in {sharing \cup {r}, sharing \ {r},
                sharing},
         r \notin sharing => lockHeld = NoWriter,
         y.stage \in {"marker", "manifest", "lock"} <=> r \in sharing',
         y.stage \in {"manifest", "lock"} => ~marker,
         y.stage = "lock" => y.manifest = records.manifest, y.answer # "torn",
         UNCHANGED <<files, edited, records, marker, lockHeld, writer, agreed, faults>>
  PROVE  SnapshotInv'
<1>1. reader' \in [SnapshotReaders -> SnapshotReaderState] /\ sharing' \in SUBSET SnapshotReaders
  BY DEF SnapshotInv, SnapshotTyped
<1>2. SnapshotTyped' BY <1>1 DEF SnapshotInv, SnapshotTyped
<1>3. (marker \/ RepositoryWhole)' BY DEF SnapshotInv, RepositoryWhole, FileSettled
<1>4. (sharing # {} => lockHeld = NoWriter)'
  BY DEF SnapshotInv
<1>5. \A w \in Writers : SnapshotWriterInv(w)'
  BY SameWriter DEF SnapshotInv
<1>6. ASSUME NEW q \in SnapshotReaders PROVE SnapshotReaderInv(q)'
  <2>1. CASE q = r
    <3>1. reader'[q] = y BY <2>1 DEF SnapshotInv, SnapshotTyped
    <3> QED BY <2>1, <3>1 DEF SnapshotReaderInv
  <2>2. CASE q # r
    <3>1. reader'[q] = reader[q] /\ (q \in sharing' <=> q \in sharing)
      BY <2>2 DEF SnapshotInv, SnapshotTyped
    <3> QED BY <3>1 DEF SnapshotInv, SnapshotReaderInv
  <2> QED BY <2>1, <2>2
<1> QED BY <1>2, <1>3, <1>4, <1>5, <1>6 DEF SnapshotInv

LEMMA ReadersPreserve ==
  ASSUME SnapshotInv, NEW r \in SnapshotReaders,
         ReadAcquire(r) \/ ReadMarker(r) \/ ReadManifestRecord(r) \/ ReadLockRecord(r)
  PROVE  SnapshotInv'
<1> DEFINE x == reader[r]
<1>1. x \in SnapshotReaderState /\ records.manifest \in Versions
  BY DEF SnapshotInv, SnapshotTyped, Pair
<1>2. SnapshotReaderInv(r)
  BY DEF SnapshotInv
<1>3. /\ reader \in [SnapshotReaders -> SnapshotReaderState]
      /\ marker \in BOOLEAN
  BY DEF SnapshotInv, SnapshotTyped
<1>4. CASE ReadAcquire(r)
  <2>1. PICK y : y = [x EXCEPT !.stage = "marker"] OBVIOUS
  <2>2. y \in SnapshotReaderState /\ y.stage = "marker" /\ y.answer = x.answer
    BY <1>1, <2>1 DEF SnapshotReaderState
  <2>3. reader' = [reader EXCEPT ![r] = y] /\ lockHeld = NoWriter /\ sharing' = sharing \cup {r}
    BY <1>4, <2>1 DEF ReadAcquire, MayShare
  <2> QED BY <1>2, <1>4, <2>2, <2>3, ReaderStep DEF ReadAcquire, SnapshotReaderInv
<1>5. CASE ReadMarker(r)
  <2>1. PICK y : y = [x EXCEPT !.stage = IF marker THEN "done" ELSE "manifest"] OBVIOUS
  <2>2. /\ y \in SnapshotReaderState /\ y.stage = (IF marker THEN "done" ELSE "manifest")
        /\ y.answer = x.answer
    BY <1>1, <2>1 DEF SnapshotReaderState
  <2>3. /\ reader' = [reader EXCEPT ![r] = y]
        /\ sharing' = IF marker THEN sharing \ {r} ELSE sharing
    BY <1>5, <2>1 DEF ReadMarker
  <2>4. r \in sharing BY <1>2, <1>5 DEF ReadMarker, SnapshotReaderInv
  <2> QED BY <1>2, <1>5, <2>2, <2>3, <2>4, ReaderStep DEF ReadMarker, SnapshotReaderInv
<1>6. CASE ReadManifestRecord(r)
  <2>1. PICK y : y = [x EXCEPT !.stage = "lock", !.manifest = records.manifest] OBVIOUS
  <2>2. /\ y \in SnapshotReaderState /\ y.stage = "lock" /\ y.manifest = records.manifest
        /\ y.answer = x.answer
    BY <1>1, <2>1 DEF SnapshotReaderState
  <2>3. reader' = [reader EXCEPT ![r] = y] /\ sharing' = sharing
    BY <1>6, <2>1 DEF ReadManifestRecord
  <2>4. r \in sharing BY <1>2, <1>6 DEF ReadManifestRecord, SnapshotReaderInv
  <2> QED BY <1>2, <1>6, <2>2, <2>3, <2>4, ReaderStep DEF ReadManifestRecord, SnapshotReaderInv
<1>7. CASE ReadLockRecord(r)
  <2>1. ~marker /\ x.manifest = records.manifest /\ r \in sharing
    BY <1>2, <1>7 DEF ReadLockRecord, SnapshotReaderInv
  <2>2. records.lock = x.manifest
    BY <2>1 DEF SnapshotInv, RepositoryWhole
  <2>3. PICK y : y = [x EXCEPT !.stage = "done", !.answer = "pair"] OBVIOUS
  <2>4. y \in SnapshotReaderState /\ y.stage = "done" /\ y.answer = "pair"
    BY <1>1, <2>3 DEF SnapshotReaderState
  <2>5. reader' = [reader EXCEPT ![r] = y] /\ sharing' = sharing \ {r}
    BY <1>7, <2>2, <2>3 DEF ReadLockRecord
  <2> QED BY <1>2, <1>7, <2>1, <2>4, <2>5, ReaderStep DEF ReadLockRecord, SnapshotReaderInv
<1> QED BY <1>4, <1>5, <1>6, <1>7

\* What an edit leaves of a writer's record: all but the history of late edits.
LEMMA LateOnly ==
  ASSUME NEW x \in SnapshotWriterState, NEW late \in SUBSET Paths
  PROVE  LET y == [x EXCEPT !.late = late] IN
         /\ y \in SnapshotWriterState /\ SamePromise(x, y) /\ y.stage = x.stage
         /\ y.next = x.next /\ y.wrote = x.wrote /\ y.failed = x.failed
         /\ y.unrestored = x.unrestored /\ y.late = late
<1> DEFINE y == [x EXCEPT !.late = late]
<1>1. y \in SnapshotWriterState BY DEF SnapshotWriterState
<1>2. SamePromise(x, y) BY DEF SnapshotWriterState, SamePromise
<1>3. /\ y.stage = x.stage /\ y.next = x.next /\ y.wrote = x.wrote /\ y.failed = x.failed
      /\ y.unrestored = x.unrestored /\ y.late = late
  BY DEF SnapshotWriterState
<1> QED BY <1>1, <1>2, <1>3

LEMMA EditOfAFilePreserves ==
  ASSUME SnapshotInv, NEW p \in Paths, Edit(p) PROVE SnapshotInv'
<1>1. /\ UNCHANGED <<records, marker, lockHeld, sharing, reader, agreed, faults>>
      /\ edited' = edited \cup {p} /\ files' = [files EXCEPT ![p] = "mine"]
  BY DEF Edit
<1>2. SnapshotTyped BY DEF SnapshotInv
<1>3. files' \in [Paths -> Contents]
  BY <1>1, <1>2 DEF SnapshotTyped, Contents
<1>4. ASSUME NEW w \in Writers
      PROVE  /\ writer'[w] \in SnapshotWriterState /\ SamePromise(writer[w], writer'[w])
             /\ writer'[w].stage = writer[w].stage /\ writer'[w].next = writer[w].next
             /\ writer'[w].wrote = writer[w].wrote /\ writer'[w].failed = writer[w].failed
             /\ writer'[w].unrestored = writer[w].unrestored
  <2>1. writer[w] \in SnapshotWriterState BY <1>2 DEF SnapshotTyped
  <2>2. PICK late \in SUBSET Paths :
          late = IF lockHeld = w THEN writer[w].late \cup {p} ELSE writer[w].late
    BY <2>1 DEF SnapshotWriterState
  <2>3. writer'[w] = [writer[w] EXCEPT !.late = late]
    BY <2>2 DEF Edit
  <2> QED BY <2>1, <2>3, LateOnly
<1>5. SnapshotTyped'
  <2>1. writer' \in [Writers -> SnapshotWriterState] BY <1>4 DEF Edit
  <2> QED BY <1>1, <1>2, <1>3, <2>1 DEF SnapshotTyped
<1>6. ASSUME NEW q \in Paths, FileSettled(q) PROVE FileSettled(q)'
  BY <1>1, <1>2, <1>6 DEF FileSettled, SnapshotTyped
<1>7. (marker \/ RepositoryWhole)'
  BY <1>1, <1>6 DEF SnapshotInv, RepositoryWhole
<1>8. ASSUME NEW w \in Writers PROVE SnapshotWriterInv(w)'
  <2>1. SnapshotWriterInv(w) BY DEF SnapshotInv
  <2>2. \A q \in Paths : Writes(w, q)' = Writes(w, q)
    BY <1>4, SamePromisedWrites
  <2>3. UndoneFilesInv(w, writer[w])'
    BY <1>1, <1>4, <1>6, <2>1, <2>2 DEF SnapshotWriterInv, UndoneFilesInv, SamePromise
  <2>4. RecordPairInv(writer[w])'
    BY <1>1, <1>4, <2>1 DEF SnapshotWriterInv, RecordPairInv, SamePromise
  <2>5. NothingDone(writer[w]) => NothingDone(writer[w])'
    BY <1>4 DEF NothingDone
  <2> QED BY <1>1, <1>4, <2>1, <2>3, <2>4, <2>5 DEF SnapshotWriterInv
<1>9. \A r \in SnapshotReaders : SnapshotReaderInv(r)'
  BY <1>1, SameReaders
<1> QED BY <1>1, <1>5, <1>7, <1>8, <1>9 DEF SnapshotInv

LEMMA SnapshotStepPreserves == SnapshotInv /\ [SnapshotNext]_snapshotVars => SnapshotInv'
<1> SUFFICES ASSUME SnapshotInv, [SnapshotNext]_snapshotVars PROVE SnapshotInv'
  OBVIOUS
<1>1. ASSUME NEW w \in Writers,
             \/ PlanManifest(w) \/ PlanFiles(w) \/ Acquire(w) \/ Verify(w) \/ Begin(w)
             \/ Apply(w) \/ Replace(w) \/ CheckApplied(w)
             \/ CommitRecord(w, "lock") \/ CommitRecord(w, "manifest") \/ Reread(w)
             \/ RestoreRecord(w, "lock", "restoreLock", "restoreManifest")
             \/ RestoreRecord(w, "manifest", "restoreManifest", "undo")
             \/ Undo(w) \/ UndoEnds(w) \/ FinishSnapshot(w) \/ Killed(w)
      PROVE  SnapshotInv'
  BY <1>1, PlanManifestPreserves, PlanFilesPreserves, AcquirePreserves, VerifyPreserves,
     BeginPreserves, ApplyPreserves, ReplacePreserves, CheckAppliedPreserves, CommitRecordPreserves,
     RereadPreserves, RestoreRecordPreserves, UndoPreserves, UndoEndsPreserves,
     FinishPreserves, KilledPreserves
<1>2. CASE UNCHANGED snapshotVars
  <2>1. UNCHANGED <<files, edited, records, marker, lockHeld, sharing, writer, reader, agreed,
         faults>>
    BY <1>2 DEF snapshotVars
  <2>2. \A w \in Writers : SnapshotWriterInv(w)' BY <2>1, SameWriter DEF SnapshotInv
  <2>3. \A r \in SnapshotReaders : SnapshotReaderInv(r)' BY <2>1, SameReaders
  <2>4. SnapshotTyped' /\ (marker \/ RepositoryWhole)' /\ (sharing # {} => lockHeld = NoWriter)'
    BY <2>1 DEF SnapshotInv, SnapshotTyped, RepositoryWhole, FileSettled
  <2> QED BY <2>2, <2>3, <2>4 DEF SnapshotInv
<1> QED BY <1>1, <1>2, ReadersPreserve, EditOfAFilePreserves DEF SnapshotNext

LEMMA SnapshotInvMeans == SnapshotInv => SnapshotTypeOK /\ PartialIsMarked /\ ReadersSeeAPair
<1> SUFFICES ASSUME SnapshotInv PROVE SnapshotTypeOK /\ PartialIsMarked /\ ReadersSeeAPair
  OBVIOUS
<1>1. SnapshotTypeOK
  BY DEF SnapshotInv, SnapshotTyped, SnapshotTypeOK, SnapshotWriterState, SnapshotReaderState
<1>2. PartialIsMarked
  BY DEF SnapshotInv, RepositoryWhole, FileSettled, PartialIsMarked
<1>3. ReadersSeeAPair
  BY DEF SnapshotInv, SnapshotReaderInv, ReadersSeeAPair
<1> QED BY <1>1, <1>2, <1>3

\* An edit that a writer under the marker would undo came after its backups, and one
\* that it would write over came after its check: what the check lets pass is what the
\* foundation built, never a file of the developer's.
LateInv(x) ==
  x.stage \in Committing =>
    \A p \in Paths :
      files[p] = "mine" /\ (x.backup[p] # "mine" \/ (x.stage = "replace" /\ p = x.next))
        => p \in x.late
EditsInv == \A w \in Writers : LateInv(writer[w])

LEMMA EditsInitially == SnapshotInit => EditsInv
<1> SUFFICES ASSUME SnapshotInit PROVE EditsInv
  OBVIOUS
<1>1. PICK target \in [Writers -> Versions \ {Empty}] :
        writer = [w \in Writers |-> FreshWriter(target[w])]
  BY DEF SnapshotInit
<1>2. \A w \in Writers : writer[w].stage = "plan"
  BY <1>1 DEF FreshWriter
<1> QED BY <1>2 DEF EditsInv, LateInv, Committing

\* Nobody writes a file but the writer that holds the lock.
LEMMA LateElsewhere ==
  ASSUME SnapshotInv, EditsInv, NEW w \in Writers, NEW v \in Writers \ {w},
         writer'[v] = writer[v], lockHeld = w \/ UNCHANGED files
  PROVE  LateInv(writer[v])'
<1>1. CASE UNCHANGED files
  BY <1>1 DEF EditsInv, LateInv
<1>2. CASE lockHeld = w
  <2>1. writer[v].stage \notin Committing
    BY <1>2 DEF SnapshotInv, SnapshotWriterInv, UnderWriterLock
  <2> QED BY <2>1 DEF LateInv
<1> QED BY <1>1, <1>2

\* What the plan writes over is never an edit that the plan has seen.
LEMMA PlanSparesEdits ==
  ASSUME SnapshotInv, NEW w \in Writers, NEW p \in Paths, Writes(w, p)
  PROVE  writer[w].seen[p] # "mine" /\ Desired(w, p) # "mine"
<1>1. writer[w].base \in Versions /\ writer[w].target \in Versions
  BY DEF SnapshotInv, SnapshotTyped, SnapshotWriterState
<1>2. Built[writer[w].base][p] # "mine" /\ Desired(w, p) # "mine"
  BY <1>1, SnapshotsAssumption DEF Desired
<1> QED BY <1>2 DEF Writes, Planned, Action

LEMMA EditsStepPreserves ==
  SnapshotInv /\ EditsInv /\ [SnapshotNext]_snapshotVars => EditsInv'
<1> SUFFICES ASSUME SnapshotInv, EditsInv, [SnapshotNext]_snapshotVars PROVE EditsInv'
  OBVIOUS
<1>1. SnapshotTyped BY DEF SnapshotInv
<1>2. files \in [Paths -> Contents] /\ \A w \in Writers : writer[w] \in SnapshotWriterState
  BY <1>1 DEF SnapshotTyped
<1>3. ASSUME NEW w \in Writers, \A v \in Writers \ {w} : writer'[v] = writer[v],
             writer[w].stage \in Committing \/ UNCHANGED files, LateInv(writer[w])'
      PROVE  EditsInv'
  <2>1. lockHeld = w \/ UNCHANGED files
    BY <1>3, ApplyFacts
  <2>2. \A v \in Writers \ {w} : LateInv(writer[v])'
    BY <1>3, <2>1, LateElsewhere
  <2> QED BY <1>3, <2>2 DEF EditsInv
<1>4. ASSUME NEW w \in Writers,
             PlanManifest(w) \/ PlanFiles(w) \/ Acquire(w) \/ Verify(w) \/ FinishSnapshot(w) \/ Killed(w)
      PROVE  EditsInv'
  <2>1. /\ \A v \in Writers \ {w} : writer'[v] = writer[v]
        /\ UNCHANGED files /\ writer'[w].stage \notin Committing
    <3>1. CASE Ends(w, "done") \/ Ends(w, "killed")
      <4>1. UNCHANGED files
        BY <1>4 DEF PlanManifest, PlanFiles, Acquire, Verify, FinishSnapshot, Killed
      <4> QED BY <1>1, <3>1, <4>1, EndsOutside DEF Committing
    <3>2. CASE /\ ~(Ends(w, "done") \/ Ends(w, "killed"))
               /\ PlanManifest(w) \/ PlanFiles(w) \/ Acquire(w) \/ Verify(w)
      <4>1. /\ UNCHANGED files
            /\ \/ writer' = [writer EXCEPT ![w].stage = "read", ![w].base = records.manifest]
               \/ writer' = [writer EXCEPT ![w].stage = "acquire", ![w].seen = files,
                                           ![w].seenRecords = records]
               \/ writer' = [writer EXCEPT ![w].stage = "verify"]
               \/ writer' = [writer EXCEPT ![w].stage = "begin"]
        BY <3>2 DEF PlanManifest, PlanFiles, Acquire, Verify, MovesTo
      <4>2. writer'[w].stage \in {"read", "acquire", "verify", "begin"}
        BY <1>1, <1>2, <4>1 DEF SnapshotTyped, SnapshotWriterState
      <4>3. \A v \in Writers \ {w} : writer'[v] = writer[v]
        BY <1>1, <4>1 DEF SnapshotTyped
      <4> QED BY <4>1, <4>2, <4>3 DEF Committing
    <3> QED BY <1>4, <3>1, <3>2 DEF FinishSnapshot, Killed
  <2> QED BY <1>3, <2>1 DEF LateInv
<1>5. ASSUME NEW w \in Writers, Begin(w) PROVE EditsInv'
  <2>1. UNCHANGED files BY <1>5 DEF Begin
  <2>2. CASE Ends(w, "done")
    <3>1. (\A v \in Writers \ {w} : writer'[v] = writer[v]) /\ writer'[w].stage \notin Committing
      BY <1>1, <2>2, EndsOutside DEF Committing
    <3> QED BY <1>3, <2>1, <3>1 DEF LateInv
  <2>3. CASE writer' = [writer EXCEPT ![w].stage = "apply", ![w].backup = files, ![w].late = {}]
    <3>1. \A v \in Writers \ {w} : writer'[v] = writer[v]
      BY <1>1, <2>3 DEF SnapshotTyped
    <3>2. writer'[w] = [writer[w] EXCEPT !.stage = "apply", !.backup = files, !.late = {}]
      BY <1>1, <2>3 DEF SnapshotTyped
    <3>3. writer'[w].stage = "apply" /\ writer'[w].backup = files
      BY <1>2, <3>2 DEF SnapshotWriterState
    <3> QED BY <1>3, <2>1, <3>1, <3>3 DEF LateInv
  <2> QED BY <1>5, <2>2, <2>3 DEF Begin
\* A step under the marker that leaves the files alone, keeps the history, and looks
\* at no file.
<1>6. ASSUME NEW w \in Writers, writer' = [writer EXCEPT ![w] = writer'[w]], UNCHANGED files,
             writer[w].stage \in Committing, writer'[w].backup = writer[w].backup,
             writer'[w].late = writer[w].late, writer'[w].stage # "replace"
      PROVE  EditsInv'
  <2>1. \A v \in Writers \ {w} : writer'[v] = writer[v]
    BY <1>1, <1>6 DEF SnapshotTyped
  <2>2. LateInv(writer[w])' BY <1>6 DEF EditsInv, LateInv
  <2> QED BY <1>3, <1>6, <2>1, <2>2
<1>7. ASSUME NEW w \in Writers, Apply(w) PROVE EditsInv'
  <2> DEFINE x == writer[w]
             p == x.next
  <2>1. x.stage = "apply" /\ x.stage \in Committing /\ p \in Paths /\ UNCHANGED files
    BY <1>7 DEF Apply, At, Committing
  <2>2. writer' = [writer EXCEPT ![w] = writer'[w]]
    BY <1>1, <1>7 DEF Apply, SnapshotTyped
  <2>3. CASE /\ StillPlanned(w, p) /\ Writes(w, p)
             /\ writer' = [writer EXCEPT ![w].stage = "replace", ![w].late = @ \ {p}]
    <3>1. writer'[w] = [x EXCEPT !.stage = "replace", !.late = @ \ {p}]
      BY <1>1, <2>3 DEF SnapshotTyped
    <3>2. /\ writer'[w].stage = "replace" /\ writer'[w].backup = x.backup
          /\ writer'[w].late = x.late \ {p} /\ writer'[w].next = p
      BY <1>2, <3>1 DEF SnapshotWriterState
    <3>3. files[p] # "mine" BY <2>1, <2>3, PlanSparesEdits DEF StillPlanned
    <3>4. LateInv(writer[w])' BY <2>1, <3>2, <3>3 DEF EditsInv, LateInv
    <3>5. \A v \in Writers \ {w} : writer'[v] = writer[v]
      BY <1>1, <2>2 DEF SnapshotTyped
    <3> QED BY <1>3, <2>1, <3>4, <3>5
  <2>4. CASE \/ writer' = [writer EXCEPT ![w].next = p + 1]
             \/ writer' = [writer EXCEPT ![w].stage = "undo", ![w].failed = TRUE,
                              ![w].next = IF writer[w].base = Empty THEN p - 1 ELSE p]
    <3>1. \/ writer'[w] = [x EXCEPT !.next = p + 1]
          \/ writer'[w] = [x EXCEPT !.stage = "undo", !.failed = TRUE,
                              !.next = IF writer[w].base = Empty THEN p - 1 ELSE p]
      BY <1>1, <2>4 DEF SnapshotTyped
    <3>2. writer'[w].backup = x.backup /\ writer'[w].late = x.late /\ writer'[w].stage # "replace"
      BY <1>2, <2>1, <3>1 DEF SnapshotWriterState
    <3> QED BY <1>6, <2>1, <2>2, <3>2
  <2> QED BY <1>7, <2>3, <2>4 DEF Apply
<1>8. ASSUME NEW w \in Writers, Replace(w) PROVE EditsInv'
  <2> DEFINE x == writer[w]
             p == x.next
  <2>1. x.stage = "replace" /\ x.stage \in Committing
    BY <1>8 DEF Replace, At, Committing
  <2>2. writer' = [writer EXCEPT ![w] = writer'[w]] /\ \A v \in Writers \ {w} : writer'[v] = writer[v]
    BY <1>1, <1>8 DEF Replace, FailsTo, SnapshotTyped
  <2>3. p \in Paths /\ Writes(w, p)
    BY <2>1, ApplyFacts DEF UndoneFilesInv
  <2>4. \/ writer'[w] = [x EXCEPT !.stage = "apply", !.next = p + 1]
        \/ writer'[w] = [x EXCEPT !.stage = "undo", !.failed = TRUE]
    BY <1>1, <1>8 DEF Replace, FailsTo, SnapshotTyped
  <2>5. writer'[w].backup = x.backup /\ writer'[w].late = x.late /\ writer'[w].stage # "replace"
    BY <1>2, <2>4 DEF SnapshotWriterState
  <2>6. ASSUME NEW q \in Paths, files'[q] = "mine" PROVE files[q] = "mine"
    <3>1. Desired(w, p) # "mine" BY <2>3, PlanSparesEdits
    <3>2. files' \in {files, Applied(w, p)} BY <1>8 DEF Replace
    <3> QED BY <1>2, <2>3, <2>6, <3>1, <3>2 DEF Applied
  <2>7. LateInv(writer[w])' BY <2>1, <2>5, <2>6 DEF EditsInv, LateInv
  <2> QED BY <1>3, <2>1, <2>2, <2>7
<1>9. ASSUME NEW w \in Writers, CheckApplied(w) \/ Reread(w) \/ UndoEnds(w) PROVE EditsInv'
  <2>1. PICK stage \in {"lock", "finish", "undo", "restoreLock"} :
          MovesTo(w, stage) \/ FailsTo(w, stage)
    BY <1>9 DEF CheckApplied, Reread, UndoEnds
  <2>2. writer[w].stage \in Committing /\ UNCHANGED files
    BY <1>9 DEF CheckApplied, Reread, UndoEnds, At, Committing
  <2>3. /\ writer' = [writer EXCEPT ![w] = writer'[w]] /\ SamePromise(writer[w], writer'[w])
        /\ writer'[w].stage = stage /\ writer'[w].late = writer[w].late
    BY <1>1, <2>1, StageOnly, StageFails DEF WriterStages
  <2> QED BY <1>6, <2>2, <2>3 DEF SamePromise
<1>10. ASSUME NEW w \in Writers, NEW record \in {"lock", "manifest"}, CommitRecord(w, record)
       PROVE  EditsInv'
  <2> DEFINE x == writer[w]
  <2>1. x.stage \in Committing /\ UNCHANGED files
    BY <1>10 DEF CommitRecord, At, Committing
  <2>2. PICK failed \in BOOLEAN : Wrote(w, record, failed)
    BY <1>10 DEF CommitRecord
  <2>3. PICK stage \in {"restoreLock", "manifest", "reread"} :
          writer'[w] = [x EXCEPT !.wrote = @ \cup {record}, !.failed = failed, !.stage = stage]
    BY <1>1, <2>2 DEF SnapshotTyped, Wrote
  <2>4. writer' = [writer EXCEPT ![w] = writer'[w]]
    BY <1>1, <2>2 DEF SnapshotTyped, Wrote
  <2>5. writer'[w].backup = x.backup /\ writer'[w].late = x.late /\ writer'[w].stage # "replace"
    BY <1>2, <2>3 DEF SnapshotWriterState
  <2> QED BY <1>6, <2>1, <2>4, <2>5
<1>11. ASSUME NEW w \in Writers, NEW record \in {"lock", "manifest"},
              NEW stage \in {"restoreLock", "restoreManifest"},
              NEW then \in {"restoreManifest", "undo"}, RestoreRecord(w, record, stage, then)
       PROVE  EditsInv'
  <2> DEFINE x == writer[w]
  <2>1. x.stage \in Committing /\ UNCHANGED files
    BY <1>11 DEF RestoreRecord, At, Committing
  <2>2. \/ writer'[w] = [x EXCEPT !.stage = then]
        \/ writer'[w] = [x EXCEPT !.stage = then, !.unrestored = TRUE]
    BY <1>1, <1>11 DEF SnapshotTyped, RestoreRecord, MovesTo
  <2>3. writer' = [writer EXCEPT ![w] = writer'[w]]
    BY <1>1, <1>11 DEF SnapshotTyped, RestoreRecord, MovesTo
  <2>4. writer'[w].backup = x.backup /\ writer'[w].late = x.late /\ writer'[w].stage # "replace"
    BY <1>2, <2>2 DEF SnapshotWriterState
  <2> QED BY <1>6, <2>1, <2>3, <2>4
<1>12. ASSUME NEW w \in Writers, Undo(w) PROVE EditsInv'
  <2> DEFINE x == writer[w]
  <2>1. x.stage = "undo" /\ x.stage \in Committing BY <1>12 DEF Undo, At, Committing
  <2>2. PICK p \in Paths :
          \/ files' = [files EXCEPT ![p] = IF Writes(w, p) THEN x.backup[p] ELSE @]
          \/ UNCHANGED files
    BY <1>12 DEF Undo
  <2>3. PICK n : \/ writer' = [writer EXCEPT ![w].next = n]
                 \/ writer' = [writer EXCEPT ![w].next = n, ![w].unrestored = TRUE]
    BY <1>12 DEF Undo
  <2>4. /\ \A v \in Writers \ {w} : writer'[v] = writer[v]
        /\ writer'[w].backup = x.backup /\ writer'[w].late = x.late /\ writer'[w].stage = "undo"
    BY <1>1, <1>2, <2>1, <2>3 DEF SnapshotTyped, SnapshotWriterState
  <2>5. ASSUME NEW q \in Paths, files'[q] = "mine", x.backup[q] # "mine" PROVE files[q] = "mine"
    BY <1>2, <2>2, <2>5
  <2>6. LateInv(writer[w])' BY <2>1, <2>4, <2>5 DEF EditsInv, LateInv
  <2> QED BY <1>3, <2>1, <2>4, <2>6
<1>13. ASSUME NEW p \in Paths, Edit(p) PROVE EditsInv'
  <2> SUFFICES ASSUME NEW w \in Writers PROVE LateInv(writer[w])'
    BY DEF EditsInv
  <2>1. files' = [files EXCEPT ![p] = "mine"] BY <1>13 DEF Edit
  <2>2. PICK late \in SUBSET Paths :
          late = IF lockHeld = w THEN writer[w].late \cup {p} ELSE writer[w].late
    BY <1>2 DEF SnapshotWriterState
  <2>3. writer'[w] = [writer[w] EXCEPT !.late = late]
    BY <1>13, <2>2 DEF Edit
  <2>4. /\ SamePromise(writer[w], writer'[w]) /\ writer'[w].stage = writer[w].stage
        /\ writer'[w].next = writer[w].next /\ writer'[w].late = late
    BY <1>2, <2>3, LateOnly
  <2>5. writer[w].stage \in Committing => lockHeld = w
    BY ApplyFacts
  <2> QED BY <1>2, <2>1, <2>2, <2>4, <2>5 DEF EditsInv, LateInv, SamePromise
<1>14. ASSUME UNCHANGED <<files, writer>> PROVE EditsInv'
  BY <1>14 DEF EditsInv, LateInv
<1>15. ASSUME NEW r \in SnapshotReaders,
              ReadAcquire(r) \/ ReadMarker(r) \/ ReadManifestRecord(r) \/ ReadLockRecord(r)
       PROVE  EditsInv'
  BY <1>14, <1>15 DEF ReadAcquire, ReadMarker, ReadManifestRecord, ReadLockRecord
<1>16. CASE UNCHANGED snapshotVars
  BY <1>14, <1>16 DEF snapshotVars
<1>17. ASSUME NEW w \in Writers,
              \/ RestoreRecord(w, "lock", "restoreLock", "restoreManifest")
              \/ RestoreRecord(w, "manifest", "restoreManifest", "undo")
       PROVE  EditsInv'
  BY <1>11, <1>17
<1>18. ASSUME NEW w \in Writers, CommitRecord(w, "lock") \/ CommitRecord(w, "manifest")
       PROVE  EditsInv'
  BY <1>10, <1>18
<1> QED BY <1>4, <1>5, <1>7, <1>8, <1>9, <1>12, <1>13, <1>15, <1>16, <1>17, <1>18
        DEF SnapshotNext

\* An edit is lost only as EditsSurvive says.
LEMMA EditsAreKept ==
  SnapshotInv /\ EditsInv /\ [SnapshotNext]_snapshotVars => EditsSurvive \/ UNCHANGED snapshotVars
<1> DEFINE Excused(p) ==
      \E w \in Writers : /\ p \in writer[w].late /\ Writes(w, p)
                         /\ At(w, "undo") \/ (At(w, "replace") /\ writer[w].next = p)
<1> SUFFICES ASSUME SnapshotInv, EditsInv, SnapshotNext, NEW p \in edited, files[p] = "mine",
                    files'[p] # "mine"
             PROVE  Excused(p)
  BY DEF EditsSurvive
<1>1. p \in Paths BY DEF SnapshotInv, SnapshotTyped
<1>2. ~UNCHANGED files OBVIOUS
<1>3. ASSUME NEW w \in Writers, Replace(w) PROVE Excused(p)
  <2>1. writer[w].stage = "replace" /\ writer[w].stage \in Committing
    BY <1>3 DEF Replace, At, Committing
  <2>2. files \in [Paths -> Contents] /\ writer[w].next \in Paths /\ Writes(w, writer[w].next)
    BY <2>1, ApplyFacts DEF SnapshotTyped, UndoneFilesInv
  <2>3. files' \in {files, Applied(w, writer[w].next)} BY <1>3 DEF Replace
  <2>4. writer[w].next = p BY <1>1, <2>2, <2>3 DEF Applied
  <2>5. p \in writer[w].late BY <1>1, <2>1, <2>4 DEF EditsInv, LateInv
  <2> QED BY <2>1, <2>2, <2>4, <2>5 DEF At
<1>4. ASSUME NEW w \in Writers, Undo(w) PROVE Excused(p)
  <2>1. writer[w].stage = "undo" /\ writer[w].stage \in Committing
    BY <1>4 DEF Undo, At, Committing
  <2>2. files \in [Paths -> Contents] BY DEF SnapshotInv, SnapshotTyped
  <2>3. PICK q \in Paths :
          files' = [files EXCEPT ![q] = IF Writes(w, q) THEN writer[w].backup[q] ELSE @]
    BY <1>2, <1>4 DEF Undo
  <2>4. Writes(w, p) /\ writer[w].backup[p] # "mine" BY <1>1, <2>2, <2>3
  <2>5. p \in writer[w].late BY <1>1, <2>1, <2>4 DEF EditsInv, LateInv
  <2> QED BY <2>1, <2>4, <2>5 DEF At
<1>5. ASSUME NEW q \in Paths, Edit(q) PROVE FALSE
  BY <1>1, <1>5 DEF Edit, SnapshotInv, SnapshotTyped
<1>6. ASSUME NEW r \in SnapshotReaders,
             ReadAcquire(r) \/ ReadMarker(r) \/ ReadManifestRecord(r) \/ ReadLockRecord(r)
      PROVE  FALSE
  BY <1>2, <1>6 DEF ReadAcquire, ReadMarker, ReadManifestRecord, ReadLockRecord
<1>7. ASSUME NEW w \in Writers,
             \/ PlanManifest(w) \/ PlanFiles(w) \/ Acquire(w) \/ Verify(w) \/ Begin(w)
             \/ Apply(w) \/ CheckApplied(w)
             \/ CommitRecord(w, "lock") \/ CommitRecord(w, "manifest") \/ Reread(w)
             \/ RestoreRecord(w, "lock", "restoreLock", "restoreManifest")
             \/ RestoreRecord(w, "manifest", "restoreManifest", "undo")
             \/ UndoEnds(w) \/ FinishSnapshot(w) \/ Killed(w)
      PROVE  FALSE
  BY <1>2, <1>7 DEF PlanManifest, PlanFiles, Acquire, Verify, Begin, Apply, CheckApplied,
     CommitRecord, Reread, RestoreRecord, UndoEnds, FinishSnapshot, Killed
<1> QED BY <1>3, <1>4, <1>5, <1>6, <1>7 DEF SnapshotNext

-----------------------------------------------------------------------------
(* The registry of business modules.                                       *)

(* The stages under the gate, and those in which a transaction is active.  *)
InTransaction == {"callback", "close", "combine", "publish"}
UnderGate == {"begin", "freeze"} \cup InTransaction
CallStages == {"idle", "added", "frozen", "failed"} \cup UnderGate
CallState == [stage : CallStages, module : BusinessModules \cup {NoModule},
              view : {"idle", "registering", "over"}]
TransactionState == [registering : BOOLEAN, entry : BOOLEAN, closed : BOOLEAN, err : BOOLEAN,
                     offended : BOOLEAN, staged : SUBSET UNION Offers]
RegistryTyped ==
  /\ gate \in Callers \cup {"none"} /\ active \in Callers \cup {"none"} /\ frozen \in BOOLEAN
  /\ entries \in Seq(BusinessModules) /\ business \in SUBSET UNION Offers
  /\ adding \in [Callers -> CallState] /\ transaction \in [Callers -> TransactionState]
  /\ helper \in [Callers -> {"idle", "registering", "over"}]
  /\ mount \in [mounts : Seq(BusinessModules), ready : Nat, routed : Nat, failed : BOOLEAN]

(* The calls that have published their module.                             *)
Adders == {c \in Callers : adding[c].stage = "added"}

(* What a call keeps: the gate while it is under way, the one active       *)
(* transaction, which is closed for good before anything is combined, and  *)
(* the errors its view was given.                                          *)
AddInv(c) ==
  LET a == adding[c]  t == transaction[c] IN
  /\ a.stage \in UnderGate <=> gate = c
  /\ a.stage \in InTransaction <=> active = c
  /\ a.stage \in InTransaction => ~frozen /\ ~Published(a.module)
  /\ a.stage \in InTransaction \cup {"begin", "added"} => a.module \in BusinessModules
  /\ a.stage \in {"combine", "publish", "added"} => t.closed /\ t.entry /\ ~t.offended
  /\ t.offended => t.err
  /\ a.stage = "publish" => Coherent(WithCore(c))
MountInv ==
  /\ mount.mounts # <<>> => frozen /\ mount.mounts = entries
  /\ mount.ready <= Len(mount.mounts) /\ mount.routed <= Len(mount.mounts)
  /\ mount.routed > 0 => mount.ready = Len(mount.mounts)
RegistryInv ==
  /\ RegistryTyped /\ (\A c \in Callers : AddInv(c)) /\ MountInv
  /\ IsFiniteSet(Adders) /\ AddIsAtomic /\ MigrationsAreDistinct

LEMMA RegistryInitially == RegistryInit => RegistryInv
<1> SUFFICES ASSUME RegistryInit PROVE RegistryInv
  OBVIOUS
<1>1. RegistryTyped
  <2>1. NoTransaction \in TransactionState BY DEF NoTransaction, TransactionState
  <2>2. <<>> \in Seq(BusinessModules) OBVIOUS
  <2> QED BY <2>1, <2>2 DEF RegistryInit, RegistryTyped, CallState, CallStages, UnderGate, InTransaction
<1>2. \A c \in Callers : AddInv(c)
  BY RegistryAssumption DEF RegistryInit, AddInv, UnderGate, InTransaction, NoTransaction
<1>3. MountInv BY DEF RegistryInit, MountInv
<1>4. Adders = {} BY DEF RegistryInit, Adders
<1>5. IsFiniteSet(Adders) /\ Cardinality(Adders) = 0 BY <1>4, FS_EmptySet
<1>6. AddIsAtomic BY <1>4, <1>5 DEF RegistryInit, Adders, AddIsAtomic
<1>7. MigrationsAreDistinct BY RegistryAssumption DEF RegistryInit, MigrationsAreDistinct
<1> QED BY <1>1, <1>2, <1>3, <1>5, <1>6, <1>7 DEF RegistryInv

-----------------------------------------------------------------------------
\* A step of a call that publishes nothing leaves what was published, and what
\* the other calls keep.
LEMMA CallStep ==
  ASSUME RegistryInv, NEW c \in Callers, RegistryTyped', AddInv(c)',
         UNCHANGED <<entries, business, mount>>, frozen => frozen',
         \A d \in Callers \ {c} : adding'[d] = adding[d] /\ transaction'[d] = transaction[d],
         adding[c].stage = "added" <=> adding'[c].stage = "added",
         adding[c].stage = "added" =>
           /\ adding'[c].module = adding[c].module
           /\ transaction'[c].staged = transaction[c].staged
           /\ transaction'[c].entry = transaction[c].entry
           /\ transaction'[c].offended = transaction[c].offended,
         \/ UNCHANGED <<gate, active, frozen>>
         \/ gate = c /\ gate' \in {c, "none"} /\ active' \in {c, "none"}
         \/ gate = "none" /\ gate' \in {c, "none"} /\ UNCHANGED <<active, frozen>>
  PROVE  RegistryInv'
<1>1. ASSUME NEW d \in Callers \ {c} PROVE AddInv(d)'
  <2>1. AddInv(d) /\ adding'[d] = adding[d] /\ transaction'[d] = transaction[d]
    BY DEF RegistryInv
  <2>2. Published(adding[d].module)' = Published(adding[d].module)
    BY <2>1 DEF Published
  <2>3. WithCore(d)' = WithCore(d)
    BY <2>1 DEF WithCore, Combined
  <2>4. CASE UNCHANGED <<gate, active, frozen>>
    BY <2>1, <2>2, <2>3, <2>4 DEF AddInv
  <2>5. CASE gate \in {c, "none"} /\ gate' \in {c, "none"}
             /\ (active' \in {c, "none"} \/ UNCHANGED <<active, frozen>>)
    <3>1. gate # d /\ gate' # d BY <2>5, RegistryAssumption
    <3>2. adding[d].stage \notin UnderGate /\ active # d
      BY <2>1, <3>1 DEF AddInv, UnderGate
    <3>3. active' # d BY <2>5, <3>2, RegistryAssumption
    <3> QED BY <2>1, <3>1, <3>2, <3>3 DEF AddInv, UnderGate, InTransaction
  <2> QED BY <2>4, <2>5
<1>2. MountInv'
  BY DEF RegistryInv, MountInv
<1>3. Adders' = Adders
  BY DEF Adders
<1>4. IsFiniteSet(Adders)'
  BY <1>3 DEF RegistryInv
<1>5. \A d \in Adders : /\ adding'[d].module = adding[d].module
                        /\ transaction'[d].staged = transaction[d].staged
                        /\ transaction'[d].entry = transaction[d].entry
                        /\ transaction'[d].offended = transaction[d].offended
  BY DEF Adders
<1>6. AddIsAtomic'
  <2>1. /\ {adding[d].module : d \in Adders} = {entries[n] : n \in 1..Len(entries)}
        /\ Cardinality(Adders) = Len(entries)
        /\ business = UNION {transaction[d].staged : d \in Adders}
        /\ \A d \in Adders : transaction[d].entry /\ ~transaction[d].offended
        /\ \A d, e \in Adders : d # e => adding[d].module # adding[e].module
    BY DEF RegistryInv, AddIsAtomic, Adders
  <2>2. {adding'[d].module : d \in Adders} = {adding[d].module : d \in Adders}
    BY <1>5
  <2>3. {transaction'[d].staged : d \in Adders} = {transaction[d].staged : d \in Adders}
    BY <1>5
  <2> HIDE DEF Adders
  <2>4. {adding'[d].module : d \in Adders'} = {entries'[n] : n \in 1..Len(entries')}
    <3>1. {adding'[d].module : d \in Adders'} = {adding'[d].module : d \in Adders} BY <1>3
    <3>2. {entries'[n] : n \in 1..Len(entries')} = {entries[n] : n \in 1..Len(entries)} OBVIOUS
    <3> QED BY <2>1, <2>2, <3>1, <3>2
  <2>5. business' = UNION {transaction'[d].staged : d \in Adders'}
    BY <1>3, <2>1, <2>3
  <2>6. /\ Cardinality(Adders') = Len(entries')
        /\ \A d \in Adders' : transaction'[d].entry /\ ~transaction'[d].offended
        /\ \A d, e \in Adders' : d # e => adding'[d].module # adding'[e].module
    BY <1>3, <1>5, <2>1
  <2> QED BY <2>4, <2>5, <2>6 DEF AddIsAtomic, Adders
<1>7. MigrationsAreDistinct'
  BY DEF RegistryInv, MigrationsAreDistinct
<1> QED BY <1>1, <1>2, <1>4, <1>6, <1>7 DEF RegistryInv

\* A call that moves to another stage.
LEMMA ComesTo ==
  ASSUME RegistryTyped, NEW c \in Callers, NEW stage \in CallStages, Comes(c, stage)
  PROVE  /\ adding' \in [Callers -> CallState] /\ adding'[c].stage = stage
         /\ adding'[c].module = adding[c].module
         /\ \A d \in Callers \ {c} : adding'[d] = adding[d]
<1>1. adding[c] \in CallState /\ adding'[c] = [adding[c] EXCEPT !.stage = stage]
  BY DEF RegistryTyped, Comes
<1>2. adding'[c] \in CallState /\ adding'[c].stage = stage /\ adding'[c].module = adding[c].module
  BY <1>1 DEF CallState
<1> QED BY <1>2 DEF RegistryTyped, Comes

\* An error is kept, and so is a closed transaction.
LEMMA ErrorIsKept ==
  ASSUME NEW t \in TransactionState
  PROVE  /\ OnError(t) \in TransactionState /\ OnError(t).closed = t.closed
         /\ t.closed => OnError(t) = t
         /\ ~t.closed => OnError(t).err
<1>1. CASE t.closed BY <1>1 DEF OnError
<1>2. CASE ~t.closed
  <2>1. OnError(t) = [[t EXCEPT !.err = TRUE] EXCEPT !.offended = TRUE]
    BY <1>2 DEF OnError, FirstError, Noted
  <2> QED BY <1>2, <2>1 DEF TransactionState
<1> QED BY <1>1, <1>2

\* What the module does through its view changes only its own transaction, and
\* that only until it is closed.
LEMMA ViewStep ==
  ASSUME RegistryInv, NEW c \in Callers, NEW w \in Workers, NEW t \in TransactionState,
         NEW to \in {"registering", "over"}, ViewGoes(c, w, to),
         transaction' = [transaction EXCEPT ![c] = t], UNCHANGED Shared, UNCHANGED mount,
         t.closed = transaction[c].closed,
         t.offended => t.err,
         transaction[c].closed => /\ t.entry = transaction[c].entry
                                  /\ t.offended = transaction[c].offended
                                  /\ t.staged = transaction[c].staged
  PROVE  RegistryInv'
<1> USE DEF Shared
<1>1. RegistryTyped /\ AddInv(c) BY DEF RegistryInv
<1>2. /\ adding' \in [Callers -> CallState] /\ adding'[c].stage = adding[c].stage
      /\ adding'[c].module = adding[c].module
      /\ \A d \in Callers \ {c} : adding'[d] = adding[d]
      /\ helper' \in [Callers -> {"idle", "registering", "over"}]
  <2>1. CASE w = "callback"
    <3>1. adding[c] \in CallState /\ adding'[c] = [adding[c] EXCEPT !.view = to]
      BY <1>1, <2>1 DEF RegistryTyped, ViewGoes
    <3>2. /\ adding'[c] \in CallState /\ adding'[c].stage = adding[c].stage
          /\ adding'[c].module = adding[c].module
      BY <3>1 DEF CallState
    <3> QED BY <1>1, <2>1, <3>2 DEF RegistryTyped, ViewGoes
  <2>2. CASE w # "callback"
    BY <1>1, <2>2 DEF RegistryTyped, ViewGoes
  <2> QED BY <2>1, <2>2
<1>3. /\ transaction' \in [Callers -> TransactionState] /\ transaction'[c] = t
      /\ \A d \in Callers \ {c} : transaction'[d] = transaction[d]
  BY <1>1 DEF RegistryTyped
<1>4. RegistryTyped'
  BY <1>1, <1>2, <1>3 DEF RegistryTyped
<1>5. AddInv(c)'
  <2>1. Published(adding[c].module)' = Published(adding[c].module)
    BY <1>2 DEF Published
  <2>2. transaction[c].closed => WithCore(c)' = WithCore(c)
    BY <1>3 DEF WithCore, Combined
  <2> QED BY <1>1, <1>2, <1>3, <2>1, <2>2 DEF AddInv
<1>6. adding[c].stage = "added" => transaction[c].closed
  BY <1>1 DEF AddInv
<1> QED BY <1>2, <1>3, <1>4, <1>5, <1>6, CallStep

LEMMA RegisterPreserves ==
  ASSUME RegistryInv, NEW c \in Callers, NEW w \in Workers, UNCHANGED mount,
         RegisterBegins(c, w) \/ RegisterEnds(c, w) \/ Reenters(c, w)
  PROVE  RegistryInv'
<1> DEFINE t == transaction[c]
<1>1. t \in TransactionState /\ (t.offended => t.err)
  BY DEF RegistryInv, RegistryTyped, AddInv
<1>2. OnError(t).offended => OnError(t).err
  BY <1>1, ErrorIsKept
<1>3. CASE RegisterBegins(c, w)
  <2>1. CASE Usable(t) /\ transaction' = [transaction EXCEPT ![c].registering = TRUE]
             /\ ViewGoes(c, w, "registering")
    <3>1. PICK u : u = [t EXCEPT !.registering = TRUE] OBVIOUS
    <3>2. /\ u \in TransactionState /\ u.closed = t.closed /\ u.offended = t.offended
          /\ u.err = t.err /\ u.entry = t.entry /\ u.staged = t.staged
      BY <1>1, <3>1 DEF TransactionState
    <3>3. transaction' = [transaction EXCEPT ![c] = u] BY <2>1, <3>1
    <3> QED BY <1>1, <1>3, <2>1, <3>2, <3>3, ViewStep DEF RegisterBegins
  <2>2. CASE transaction' = [transaction EXCEPT ![c] = OnError(t)] /\ ViewGoes(c, w, "over")
    BY <1>1, <1>2, <1>3, <2>2, ErrorIsKept, ViewStep DEF RegisterBegins
  <2> QED BY <1>3, <2>1, <2>2 DEF RegisterBegins
<1>4. CASE RegisterEnds(c, w)
  <2>1. PICK set \in Offers, valid \in BOOLEAN :
          LET staged == IF t.closed THEN t.staged ELSE set
              failed == ~valid \/ ~Accepted(set) IN
          transaction' = [transaction EXCEPT ![c] =
              IF failed THEN OnError([t EXCEPT !.registering = FALSE, !.staged = staged])
              ELSE [t EXCEPT !.registering = FALSE, !.staged = staged,
                             !.entry = t.entry \/ ~(t.closed \/ t.err)]]
    BY <1>4 DEF RegisterEnds
  <2> DEFINE staged == IF t.closed THEN t.staged ELSE set
  <2>2. staged \in SUBSET UNION Offers
    BY <1>1 DEF TransactionState
  <2>3. t.closed => staged = t.staged OBVIOUS
  <2> HIDE DEF staged
  <2>4. CASE ~valid \/ ~Accepted(set)
    <3>1. PICK u : u = [t EXCEPT !.registering = FALSE, !.staged = staged] OBVIOUS
    <3>2. /\ u \in TransactionState /\ u.closed = t.closed /\ u.offended = t.offended
          /\ u.err = t.err /\ u.entry = t.entry /\ u.staged = staged
      BY <1>1, <2>2, <3>1 DEF TransactionState
    <3>3. transaction' = [transaction EXCEPT ![c] = OnError(u)]
      BY <2>1, <2>4, <3>1 DEF staged
    <3>4. OnError(u) \in TransactionState /\ (OnError(u).offended => OnError(u).err)
          /\ OnError(u).closed = t.closed
      BY <1>1, <3>2, ErrorIsKept
    <3>5. t.closed => OnError(u) = u
      BY <3>2, ErrorIsKept
    <3> QED BY <1>4, <2>3, <3>2, <3>3, <3>4, <3>5, ViewStep DEF RegisterEnds
  <2>5. CASE ~(~valid \/ ~Accepted(set))
    <3>1. PICK u : u = [t EXCEPT !.registering = FALSE, !.staged = staged,
                                 !.entry = t.entry \/ ~(t.closed \/ t.err)] OBVIOUS
    <3>2. /\ u \in TransactionState /\ u.closed = t.closed /\ u.offended = t.offended
          /\ u.err = t.err /\ u.staged = staged
      BY <1>1, <2>2, <3>1 DEF TransactionState
    <3>3. t.closed => u.entry = t.entry
      BY <1>1, <3>1 DEF TransactionState
    <3>4. transaction' = [transaction EXCEPT ![c] = u]
      BY <2>1, <2>5, <3>1 DEF staged
    <3> QED BY <1>1, <1>4, <2>3, <3>2, <3>3, <3>4, ViewStep DEF RegisterEnds
  <2> QED BY <2>4, <2>5
<1>5. CASE Reenters(c, w)
  BY <1>1, <1>2, <1>5, ErrorIsKept, ViewStep DEF Reenters
<1> QED BY <1>3, <1>4, <1>5

\* An Add that fails.
LEMMA AbandonPreserves ==
  ASSUME RegistryInv, NEW c \in Callers, Abandons(c), gate = c,
         UNCHANGED <<frozen, entries, business, mount>>
  PROVE  RegistryInv'
<1>1. RegistryTyped /\ AddInv(c) BY DEF RegistryInv
<1>2. "failed" \in CallStages BY DEF CallStages
<1>3. /\ adding' \in [Callers -> CallState] /\ adding'[c].stage = "failed"
      /\ \A d \in Callers \ {c} : adding'[d] = adding[d]
  BY <1>1, <1>2, ComesTo DEF Abandons, LeavesGate
<1>4. PICK t : t = [NoTransaction EXCEPT !.closed = TRUE] OBVIOUS
<1>5. t \in TransactionState /\ ~t.offended
  BY <1>4 DEF NoTransaction, TransactionState
<1>6. transaction' = [transaction EXCEPT ![c] = t] BY <1>4 DEF Abandons
<1>7. /\ transaction' \in [Callers -> TransactionState] /\ transaction'[c] = t
      /\ \A d \in Callers \ {c} : transaction'[d] = transaction[d]
  BY <1>1, <1>5, <1>6 DEF RegistryTyped
<1>8. helper' \in [Callers -> {"idle", "registering", "over"}]
  BY <1>1 DEF Abandons, RegistryTyped
<1>9. gate' = "none" /\ active' = "none" BY DEF Abandons, LeavesGate
<1>10. RegistryTyped' BY <1>1, <1>3, <1>7, <1>8, <1>9 DEF RegistryTyped
<1>11. AddInv(c)'
  BY <1>3, <1>5, <1>7, <1>9, RegistryAssumption DEF AddInv, UnderGate, InTransaction
<1>12. adding[c].stage # "added" BY <1>1 DEF AddInv, UnderGate, InTransaction
<1> QED BY <1>3, <1>7, <1>9, <1>10, <1>11, <1>12, CallStep

\* Who is active holds the gate.
LEMMA ActiveHoldsGate ==
  ASSUME RegistryInv, active \in Callers PROVE gate = active
<1>1. AddInv(active) BY DEF RegistryInv
<1> QED BY <1>1 DEF AddInv, UnderGate

\* A call that moves on, its transaction perhaps closed.
LEMMA CallMoves ==
  ASSUME RegistryInv, NEW c \in Callers, NEW stage \in CallStages \ {"added", "begin"},
         Comes(c, stage), adding[c].stage # "added", UNCHANGED <<entries, business, mount, helper>>,
         NEW t \in TransactionState, transaction' = [transaction EXCEPT ![c] = t],
         t.offended => t.err,
         \/ UNCHANGED <<gate, active, frozen>>
         \/ gate = c /\ gate' \in {c, "none"} /\ active' \in {c, "none"} /\ frozen' \in BOOLEAN
         \/ gate = "none" /\ gate' = c /\ UNCHANGED <<active, frozen>>,
         frozen => frozen',
         stage \in UnderGate <=> gate' = c, stage \in InTransaction <=> active' = c,
         stage \in InTransaction => /\ ~frozen' /\ ~Published(adding[c].module)
                                    /\ adding[c].module \in BusinessModules,
         stage \in {"combine", "publish"} => t.closed /\ t.entry /\ ~t.offended,
         stage = "publish" => Coherent(business \cup t.staged \cup CoreMigrations)
  PROVE  RegistryInv'
<1>1. RegistryTyped BY DEF RegistryInv
<1>2. /\ adding' \in [Callers -> CallState] /\ adding'[c].stage = stage
      /\ adding'[c].module = adding[c].module
      /\ \A d \in Callers \ {c} : adding'[d] = adding[d]
  BY <1>1, ComesTo
<1>3. /\ transaction' \in [Callers -> TransactionState] /\ transaction'[c] = t
      /\ \A d \in Callers \ {c} : transaction'[d] = transaction[d]
  BY <1>1 DEF RegistryTyped
<1>4. RegistryTyped' BY <1>1, <1>2, <1>3 DEF RegistryTyped
<1>5. AddInv(c)'
  <2>1. Published(adding[c].module)' = Published(adding[c].module)
    BY <1>2 DEF Published
  <2>2. WithCore(c)' = business \cup t.staged \cup CoreMigrations
    BY <1>3 DEF WithCore, Combined
  <2>3. stage \notin {"added", "begin"} OBVIOUS
  <2> QED BY <1>2, <1>3, <2>1, <2>2, <2>3 DEF AddInv, InTransaction
<1> QED BY <1>2, <1>3, <1>4, <1>5, CallStep

LEMMA EntersPreserves ==
  ASSUME RegistryInv, NEW c \in Callers, Enters(c), UNCHANGED mount PROVE RegistryInv'
<1>1. RegistryTyped /\ AddInv(c) BY DEF RegistryInv
<1>2. /\ adding[c].stage = "idle" /\ UNCHANGED <<active, frozen, entries, business, transaction, helper>>
  BY DEF Enters
<1>3. gate # c /\ active # c
  BY <1>1, <1>2 DEF AddInv, UnderGate, InTransaction
<1>4. /\ transaction[c] \in TransactionState /\ (transaction[c].offended => transaction[c].err)
      /\ transaction' = [transaction EXCEPT ![c] = transaction[c]]
  BY <1>1, <1>2 DEF RegistryTyped, AddInv
<1>5. CASE GateFree /\ gate' = c /\ Comes(c, "freeze")
  <2>1. "freeze" \in CallStages \ {"added", "begin"} /\ "freeze" \in UnderGate
        /\ "freeze" \notin InTransaction
    BY DEF CallStages, UnderGate, InTransaction
  <2> QED BY <1>2, <1>3, <1>4, <1>5, <2>1, CallMoves DEF GateFree
<1>6. CASE ~GateFree /\ Comes(c, "failed") /\ UNCHANGED gate
  <2>1. "failed" \in CallStages \ {"added", "begin"} /\ "failed" \notin UnderGate
        /\ "failed" \notin InTransaction
    BY DEF CallStages, UnderGate, InTransaction
  <2> QED BY <1>2, <1>3, <1>4, <1>6, <2>1, CallMoves
<1>7. ASSUME NEW m \in BusinessModules, GateFree, gate' = c,
             adding' = [adding EXCEPT ![c].stage = "begin", ![c].module = m]
      PROVE  RegistryInv'
  <2>1. adding[c] \in CallState /\ adding'[c] = [adding[c] EXCEPT !.stage = "begin", !.module = m]
    BY <1>1, <1>7 DEF RegistryTyped
  <2>2. "begin" \in CallStages BY DEF CallStages, UnderGate
  <2>3. adding'[c] \in CallState /\ adding'[c].stage = "begin" /\ adding'[c].module = m
    BY <2>1, <2>2 DEF CallState
  <2>4. /\ adding' \in [Callers -> CallState] /\ \A d \in Callers \ {c} : adding'[d] = adding[d]
    BY <1>1, <1>7, <2>3 DEF RegistryTyped
  <2>5. RegistryTyped' BY <1>1, <1>2, <1>7, <2>4 DEF RegistryTyped
  <2>6. AddInv(c)'
    BY <1>1, <1>2, <1>3, <1>7, <2>3 DEF AddInv, UnderGate, InTransaction
  <2> QED BY <1>2, <1>7, <2>3, <2>4, <2>5, <2>6, CallStep DEF GateFree
<1> QED BY <1>5, <1>6, <1>7 DEF Enters

LEMMA BeginsAddPreserves ==
  ASSUME RegistryInv, NEW c \in Callers, BeginsAdd(c), UNCHANGED mount PROVE RegistryInv'
<1>1. RegistryTyped /\ AddInv(c) BY DEF RegistryInv
<1>2. adding[c].stage = "begin" /\ UNCHANGED <<frozen, entries, business, transaction, helper>>
  BY DEF BeginsAdd
<1>3. gate = c /\ active # c /\ adding[c].module \in BusinessModules
  BY <1>1, <1>2 DEF AddInv, UnderGate, InTransaction
<1>4. active = "none" BY <1>1, <1>3, ActiveHoldsGate DEF RegistryTyped
<1>5. /\ transaction[c] \in TransactionState /\ (transaction[c].offended => transaction[c].err)
      /\ transaction' = [transaction EXCEPT ![c] = transaction[c]]
  BY <1>1, <1>2 DEF RegistryTyped, AddInv
<1>6. CASE LeavesGate(c, "failed") /\ UNCHANGED active
  <2>1. "failed" \in CallStages \ {"added", "begin"} /\ "failed" \notin UnderGate
        /\ "failed" \notin InTransaction
    BY DEF CallStages, UnderGate, InTransaction
  <2>2. gate' = "none" /\ Comes(c, "failed") /\ active' = "none" /\ frozen' \in BOOLEAN
        /\ c # "none"
    BY <1>1, <1>2, <1>4, <1>6, RegistryAssumption DEF LeavesGate, RegistryTyped
  <2>3. adding[c].stage # "added" /\ UNCHANGED <<entries, business, mount, helper, frozen>>
    BY <1>2
  <2> QED BY ONLY <1>3, <1>5, <2>1, <2>2, <2>3, RegistryInv, c \in Callers, CallMoves
<1>7. CASE /\ ~frozen /\ ~Published(adding[c].module)
           /\ active' = c /\ Comes(c, "callback") /\ UNCHANGED gate
  <2>1. "callback" \in CallStages \ {"added", "begin"} /\ "callback" \in UnderGate
        /\ "callback" \in InTransaction
    BY DEF CallStages, UnderGate, InTransaction
  <2>2. frozen' \in BOOLEAN /\ ~frozen' /\ gate' = c
    BY <1>1, <1>2, <1>3, <1>7 DEF RegistryTyped
  <2>3. adding[c].stage # "added" /\ UNCHANGED <<entries, business, mount, helper, frozen>>
    BY <1>2
  <2> QED BY ONLY <1>3, <1>5, <1>7, <2>1, <2>2, <2>3, RegistryInv, c \in Callers, CallMoves
<1> QED BY <1>6, <1>7 DEF BeginsAdd

\* The stages of a transaction, one after the other.
LEMMA TransactionMoves ==
  ASSUME RegistryInv, NEW c \in Callers, adding[c].stage \in InTransaction,
         NEW stage \in InTransaction, Comes(c, stage),
         UNCHANGED <<gate, active, frozen, entries, business, mount, helper>>,
         NEW t \in TransactionState, transaction' = [transaction EXCEPT ![c] = t],
         t.offended => t.err,
         stage \in {"combine", "publish"} => t.closed /\ t.entry /\ ~t.offended,
         stage = "publish" => Coherent(business \cup t.staged \cup CoreMigrations)
  PROVE  RegistryInv'
<1>1. AddInv(c) BY DEF RegistryInv
<1>2. gate = c /\ active = c /\ ~frozen /\ ~Published(adding[c].module)
      /\ adding[c].module \in BusinessModules
  BY <1>1 DEF AddInv, UnderGate
<1>3. stage \in CallStages \ {"added", "begin"} /\ stage \in UnderGate /\ adding[c].stage # "added"
  BY DEF CallStages, UnderGate, InTransaction
<1> QED BY <1>2, <1>3, CallMoves

LEMMA CallbackPreserves ==
  ASSUME RegistryInv, NEW c \in Callers, UNCHANGED mount,
         CallbackReturns(c) \/ Closes(c) \/ Combines(c)
  PROVE  RegistryInv'
<1> DEFINE t == transaction[c]
<1>1. t \in TransactionState /\ (t.offended => t.err) /\ AddInv(c) /\ RegistryTyped
  BY DEF RegistryInv, RegistryTyped, AddInv
<1>2. transaction = [transaction EXCEPT ![c] = t]
  BY <1>1 DEF RegistryTyped
<1>3. adding[c].stage \in InTransaction /\ UNCHANGED <<frozen, entries, business>>
  BY DEF CallbackReturns, Closes, Combines, InTransaction
<1>4. gate = c BY <1>1, <1>3 DEF AddInv, UnderGate
<1>5. CASE Abandons(c)
  BY <1>3, <1>4, <1>5, AbandonPreserves
<1>6. CASE Comes(c, "close") /\ UNCHANGED <<gate, active, helper>>
           /\ (UNCHANGED transaction \/ transaction' = [transaction EXCEPT ![c] = OnError(@)])
  <2>1. "close" \in InTransaction BY DEF InTransaction
  <2>2. CASE UNCHANGED transaction
    BY <1>1, <1>2, <1>3, <1>6, <2>1, <2>2, TransactionMoves
  <2>3. CASE transaction' = [transaction EXCEPT ![c] = OnError(t)]
    <3>1. OnError(t) \in TransactionState /\ (OnError(t).offended => OnError(t).err)
      BY <1>1, ErrorIsKept
    <3> QED BY <1>3, <1>6, <2>1, <2>3, <3>1, TransactionMoves
  <2> QED BY <1>1, <1>6, <2>2, <2>3 DEF RegistryTyped
<1>7. CASE /\ ~(t.err \/ t.registering) /\ t.entry /\ Comes(c, "combine")
           /\ transaction' = [transaction EXCEPT ![c] = [t EXCEPT !.closed = TRUE]]
           /\ UNCHANGED <<gate, active, helper>>
  <2>1. PICK u : u = [t EXCEPT !.closed = TRUE] OBVIOUS
  <2>2. u \in TransactionState /\ u.closed /\ u.entry /\ ~u.offended
    BY <1>1, <1>7, <2>1 DEF TransactionState
  <2>3. "combine" \in InTransaction BY DEF InTransaction
  <2> QED BY <1>3, <1>7, <2>1, <2>2, <2>3, TransactionMoves
<1>8. CASE /\ adding[c].stage = "combine" /\ Accepted(WithCore(c))
           /\ Comes(c, "publish") /\ UNCHANGED <<gate, active, transaction, helper>>
  <2>1. t.closed /\ t.entry /\ ~t.offended BY <1>1, <1>8 DEF AddInv
  <2>2. Coherent(business \cup t.staged \cup CoreMigrations)
    BY <1>8 DEF Accepted, WithCore, Combined
  <2>3. "publish" \in InTransaction BY DEF InTransaction
  <2> QED BY <1>1, <1>2, <1>3, <1>8, <2>1, <2>2, <2>3, TransactionMoves
<1> QED BY <1>5, <1>6, <1>7, <1>8 DEF CallbackReturns, Closes, Combines

LEMMA FreezesPreserves ==
  ASSUME RegistryInv, NEW c \in Callers, Freezes(c), UNCHANGED mount PROVE RegistryInv'
<1>1. RegistryTyped /\ AddInv(c) BY DEF RegistryInv
<1>2. adding[c].stage = "freeze" /\ UNCHANGED <<active, entries, business, transaction, helper>>
  BY DEF Freezes
<1>3. gate = c /\ active # c
  BY <1>1, <1>2 DEF AddInv, UnderGate, InTransaction
<1>4. active = "none" BY <1>1, <1>3, ActiveHoldsGate DEF RegistryTyped
<1>5. /\ transaction[c] \in TransactionState /\ (transaction[c].offended => transaction[c].err)
      /\ transaction' = [transaction EXCEPT ![c] = transaction[c]]
  BY <1>1, <1>2 DEF RegistryTyped, AddInv
<1>6. frozen' /\ gate' = "none" /\ Comes(c, "frozen")
  BY <1>4 DEF Freezes, LeavesGate
<1>7. "frozen" \in CallStages \ {"added", "begin"} /\ "frozen" \notin UnderGate
      /\ "frozen" \notin InTransaction
  BY DEF CallStages, UnderGate, InTransaction
<1>8. frozen' \in BOOLEAN BY DEF Freezes
<1>9. active' \in {c, "none"} /\ gate' \in {c, "none"} /\ gate' # c /\ active' # c
  BY <1>2, <1>4, <1>6, RegistryAssumption
<1> QED BY <1>2, <1>3, <1>5, <1>6, <1>7, <1>8, <1>9, CallMoves

\* The module and all it staged, at once.
LEMMA PublishesPreserves ==
  ASSUME RegistryInv, NEW c \in Callers, Publishes(c), UNCHANGED mount PROVE RegistryInv'
<1>1. RegistryTyped /\ AddInv(c) /\ MountInv /\ IsFiniteSet(Adders) BY DEF RegistryInv
<1>2. /\ adding[c].stage = "publish" /\ UNCHANGED <<frozen, transaction, helper>>
      /\ entries' = Append(entries, adding[c].module) /\ business' = Combined(c)
      /\ active' = "none" /\ gate' = "none" /\ Comes(c, "added")
  BY DEF Publishes, LeavesGate
<1>3. /\ gate = c /\ active = c /\ ~frozen /\ ~Published(adding[c].module)
      /\ adding[c].module \in BusinessModules
      /\ transaction[c].closed /\ transaction[c].entry /\ ~transaction[c].offended
      /\ Coherent(WithCore(c))
  BY <1>1, <1>2 DEF AddInv, UnderGate, InTransaction
<1>4. "added" \in CallStages BY DEF CallStages
<1>5. /\ adding' \in [Callers -> CallState] /\ adding'[c].stage = "added"
      /\ adding'[c].module = adding[c].module
      /\ \A d \in Callers \ {c} : adding'[d] = adding[d]
  BY <1>1, <1>2, <1>4, ComesTo
<1>6. business' \in SUBSET UNION Offers
  <2>1. transaction[c] \in TransactionState /\ business \in SUBSET UNION Offers
    BY <1>1 DEF RegistryTyped
  <2> QED BY <1>2, <2>1 DEF Combined, TransactionState
<1>7. entries' \in Seq(BusinessModules) /\ entries \in Seq(BusinessModules)
  BY <1>1, <1>2, <1>3 DEF RegistryTyped
<1>8. RegistryTyped' BY <1>1, <1>2, <1>5, <1>6, <1>7 DEF RegistryTyped
<1>9. ASSUME NEW d \in Callers PROVE AddInv(d)'
  <2>1. AddInv(d) BY DEF RegistryInv
  <2>2. CASE d = c
    BY <1>2, <1>3, <1>5, <2>1, <2>2, RegistryAssumption DEF AddInv, UnderGate, InTransaction
  <2>3. CASE d # c
    <3>1. adding[d].stage \notin UnderGate /\ active' # d /\ gate' # d /\ adding'[d] = adding[d]
      BY <1>2, <1>3, <1>5, <2>1, <2>3, RegistryAssumption DEF AddInv
    <3> QED BY <1>2, <2>1, <3>1 DEF AddInv, UnderGate, InTransaction
  <2> QED BY <2>2, <2>3
<1>10. MountInv'
  <2>1. mount.mounts = <<>> BY <1>1, <1>3 DEF MountInv
  <2> QED BY <1>1, <2>1 DEF MountInv
<1>11. Adders' = Adders \cup {c} /\ c \notin Adders /\ Adders \subseteq Callers
  BY <1>2, <1>5 DEF Adders
<1>12. IsFiniteSet(Adders') /\ Cardinality(Adders') = Cardinality(Adders) + 1
  BY <1>1, <1>11, FS_AddElement
<1>13. /\ {adding[d].module : d \in Adders} = {entries[n] : n \in 1..Len(entries)}
       /\ Cardinality(Adders) = Len(entries)
       /\ business = UNION {transaction[d].staged : d \in Adders}
       /\ \A d \in Adders : transaction[d].entry /\ ~transaction[d].offended
       /\ \A d, e \in Adders : d # e => adding[d].module # adding[e].module
  BY DEF RegistryInv, AddIsAtomic, Adders
<1>14. AddIsAtomic'
  <2> HIDE DEF Adders
  <2>1. Len(entries') = Len(entries) + 1 /\ Len(entries) \in Nat
        /\ entries'[Len(entries) + 1] = adding[c].module
        /\ \A n \in 1..Len(entries) : entries'[n] = entries[n]
    BY <1>2, <1>3, <1>7
  <2>2. {entries'[n] : n \in 1..Len(entries')}
          = {entries[n] : n \in 1..Len(entries)} \cup {adding[c].module}
    <3>1. 1..Len(entries') = 1..Len(entries) \cup {Len(entries) + 1} BY <2>1
    <3> QED BY <2>1, <3>1
  <2>3. {adding'[d].module : d \in Adders'} = {adding[d].module : d \in Adders} \cup {adding[c].module}
    <3>1. \A d \in Adders : adding'[d].module = adding[d].module BY <1>5, <1>11
    <3> QED BY <1>5, <1>11, <3>1
  <2>4. {transaction'[d].staged : d \in Adders'}
          = {transaction[d].staged : d \in Adders} \cup {transaction[c].staged}
    BY <1>2, <1>11
  <2>5. business' = UNION {transaction'[d].staged : d \in Adders'}
    BY <1>2, <1>13, <2>4 DEF Combined
  <2>6. \A d \in Adders' : transaction'[d].entry /\ ~transaction'[d].offended
    BY <1>2, <1>3, <1>11, <1>13
  <2>7. \A d \in Adders : adding[d].module # adding[c].module
    <3> SUFFICES ASSUME NEW d \in Adders PROVE adding[d].module # adding[c].module
      OBVIOUS
    <3>1. PICK n \in 1..Len(entries) : entries[n] = adding[d].module BY <1>13
    <3> QED BY <1>3, <3>1 DEF Published
  <2>8. \A d, e \in Adders' : d # e => adding'[d].module # adding'[e].module
    <3>1. \A d \in Adders : adding'[d] = adding[d] BY <1>5, <1>11
    <3> QED BY <1>5, <1>11, <1>13, <2>7, <3>1
  <2>9. Cardinality(Adders') = Len(entries') BY <1>12, <1>13, <2>1
  <2>10. {adding'[d].module : d \in Adders'} = {entries'[n] : n \in 1..Len(entries')}
    BY <1>13, <2>2, <2>3
  <2> QED BY <2>5, <2>6, <2>8, <2>9, <2>10 DEF AddIsAtomic, Adders
<1>15. MigrationsAreDistinct'
  BY <1>2, <1>3 DEF MigrationsAreDistinct, WithCore
<1> QED BY <1>8, <1>9, <1>10, <1>12, <1>14, <1>15 DEF RegistryInv

LEMMA MountPreserves == RegistryInv /\ MountStep => RegistryInv'
<1> SUFFICES ASSUME RegistryInv, MountStep PROVE RegistryInv'
  OBVIOUS
<1>1. UNCHANGED <<gate, active, frozen, entries, business, adding, transaction, helper>>
  BY DEF MountStep
<1>2. RegistryTyped /\ MountInv BY DEF RegistryInv
<1>3. RegistryTyped' /\ MountInv'
  <2>1. /\ mount \in [mounts : Seq(BusinessModules), ready : Nat, routed : Nat, failed : BOOLEAN]
        /\ entries \in Seq(BusinessModules)
    BY <1>2 DEF RegistryTyped
  <2>2. /\ mount' \in [mounts : Seq(BusinessModules), ready : Nat, routed : Nat, failed : BOOLEAN]
        /\ MountInv'
    <3>1. CASE /\ mount.mounts = <<>> /\ frozen /\ entries # <<>>
               /\ mount' = [mount EXCEPT !.mounts = entries]
      <4>1. mount.ready = 0 /\ mount.routed = 0 BY <1>2, <2>1, <3>1 DEF MountInv
      <4>2. Len(entries) \in Nat BY <2>1
      <4> QED BY <1>1, <2>1, <3>1, <4>1, <4>2 DEF MountInv
    <3>2. CASE /\ mount.ready < Len(mount.mounts)
               /\ mount' \in {[mount EXCEPT !.ready = @ + 1], [mount EXCEPT !.failed = TRUE]}
      <4>1. Len(mount.mounts) \in Nat BY <2>1
      <4>2. mount' = [mount EXCEPT !.ready = @ + 1] \/ mount' = [mount EXCEPT !.failed = TRUE]
        BY <3>2
      <4>3. CASE mount' = [mount EXCEPT !.ready = @ + 1]
        BY <1>1, <1>2, <2>1, <3>2, <4>1, <4>3 DEF MountInv
      <4>4. CASE mount' = [mount EXCEPT !.failed = TRUE]
        BY <1>1, <1>2, <2>1, <3>2, <4>1, <4>4 DEF MountInv
      <4> QED BY <4>2, <4>3, <4>4
    <3>3. CASE /\ mount.ready = Len(mount.mounts) /\ mount.routed < Len(mount.mounts)
               /\ mount' \in {[mount EXCEPT !.routed = @ + 1], [mount EXCEPT !.failed = TRUE]}
      <4>1. Len(mount.mounts) \in Nat BY <2>1
      <4>2. mount' = [mount EXCEPT !.routed = @ + 1] \/ mount' = [mount EXCEPT !.failed = TRUE]
        BY <3>3
      <4>3. CASE mount' = [mount EXCEPT !.routed = @ + 1]
        BY <1>1, <1>2, <2>1, <3>3, <4>1, <4>3 DEF MountInv
      <4>4. CASE mount' = [mount EXCEPT !.failed = TRUE]
        BY <1>1, <1>2, <2>1, <3>3, <4>1, <4>4 DEF MountInv
      <4> QED BY <4>2, <4>3, <4>4
    <3> QED BY <3>1, <3>2, <3>3 DEF MountStep
  <2> QED BY <1>1, <1>2, <2>2 DEF RegistryTyped
<1>4. (\A c \in Callers : AddInv(c)) /\ IsFiniteSet(Adders) /\ AddIsAtomic /\ MigrationsAreDistinct
  BY DEF RegistryInv
<1>5. \A c \in Callers : AddInv(c)'
  BY <1>1, <1>4 DEF AddInv, Published, WithCore, Combined
<1>6. IsFiniteSet(Adders)' BY <1>1, <1>4 DEF Adders
<1>7. AddIsAtomic' BY <1>1, <1>4 DEF AddIsAtomic
<1>8. MigrationsAreDistinct' BY <1>1, <1>4 DEF MigrationsAreDistinct
<1> QED BY <1>3, <1>5, <1>6, <1>7, <1>8 DEF RegistryInv

LEMMA RegistryStepPreserves == RegistryInv /\ [RegistryNext]_registryVars => RegistryInv'
<1> SUFFICES ASSUME RegistryInv, [RegistryNext]_registryVars PROVE RegistryInv'
  OBVIOUS
<1>1. CASE UNCHANGED registryVars
  <2>1. UNCHANGED <<gate, active, frozen, entries, business, adding, transaction, helper, mount>>
    BY <1>1 DEF registryVars
  <2>2. RegistryTyped' BY <2>1 DEF RegistryInv, RegistryTyped
  <2>3. \A c \in Callers : AddInv(c)'
    BY <2>1 DEF RegistryInv, AddInv, Published, WithCore, Combined
  <2>4. MountInv' BY <2>1 DEF RegistryInv, MountInv
  <2>5. IsFiniteSet(Adders)' BY <2>1 DEF RegistryInv, Adders
  <2>6. AddIsAtomic' BY <2>1 DEF RegistryInv, AddIsAtomic
  <2>7. MigrationsAreDistinct' BY <2>1 DEF RegistryInv, MigrationsAreDistinct
  <2> QED BY <2>2, <2>3, <2>4, <2>5, <2>6, <2>7 DEF RegistryInv
<1>2. CASE MountStep BY <1>2, MountPreserves
<1>3. CASE CallerSteps /\ UNCHANGED mount
  BY <1>3, EntersPreserves, BeginsAddPreserves, CallbackPreserves, PublishesPreserves,
     FreezesPreserves, RegisterPreserves DEF CallerSteps
<1> QED BY <1>1, <1>2, <1>3 DEF RegistryNext

LEMMA RegistryInvMeans == RegistryInv => RegistryIsSound
<1> SUFFICES ASSUME RegistryInv PROVE RoutesAreReady
  BY DEF RegistryIsSound, RegistryInv
<1>1. /\ mount \in [mounts : Seq(BusinessModules), ready : Nat, routed : Nat, failed : BOOLEAN]
      /\ MountInv
  BY DEF RegistryInv, RegistryTyped
<1>2. Len(mount.mounts) \in Nat BY <1>1
<1> QED BY <1>1, <1>2 DEF MountInv, RoutesAreReady

\* Only who is in a transaction publishes, and then the registry is not frozen.
LEMMA FrozenIsKept == RegistryInv /\ [RegistryNext]_registryVars => FrozenStays
<1> SUFFICES ASSUME RegistryInv, RegistryNext, frozen PROVE UNCHANGED <<frozen, entries, business>>
  BY DEF FrozenStays, registryVars
<1>1. ASSUME NEW c \in Callers PROVE ~Publishes(c)
  BY DEF RegistryInv, AddInv, InTransaction, Publishes
<1>2. ASSUME NEW c \in Callers, Freezes(c) PROVE UNCHANGED <<frozen, entries, business>>
  BY <1>2 DEF Freezes
<1>3. ASSUME NEW c \in Callers,
             \/ Enters(c) \/ BeginsAdd(c) \/ CallbackReturns(c) \/ Closes(c) \/ Combines(c)
             \/ \E w \in Workers : RegisterBegins(c, w) \/ RegisterEnds(c, w) \/ Reenters(c, w)
      PROVE  UNCHANGED <<frozen, entries, business>>
  BY <1>3 DEF Enters, BeginsAdd, CallbackReturns, Closes, Combines, RegisterBegins, RegisterEnds,
     Reenters, Shared
<1> QED BY <1>1, <1>2, <1>3 DEF RegistryNext, CallerSteps, MountStep

-----------------------------------------------------------------------------
(* The migrations.                                                         *)

AfterLedger == {"next", "run", "record", "done"}
CommandStages == {"idle", "ledger", "verify", "failed", "killed"} \cup AfterLedger
CommandState == [stage : CommandStages, passed : SUBSET Registered,
                 current : Registered \cup {NoMigration}]
MigrationsTyped ==
  /\ phases \in [core : {CoreMigrations}, business : Offers]
  /\ Coherent(Registered) /\ Ids(phases.business) \cap Ids(CoreMigrations) = {}
  /\ sound \in BOOLEAN /\ transactional \in BOOLEAN
  /\ ledger \in [exists : BOOLEAN, rows : SUBSET (Ids(Registered) \cup Aliases(Registered))]
  /\ effect \in [Registered -> Nat]
  /\ migrate \in [MigrateCommands -> CommandState]

(* What a migrate has passed is in the ledger; the one it is at has no row *)
(* but its own, and comes after nothing that it has not passed.            *)
CommandInv(c) ==
  LET m == migrate[c] IN
  /\ \A r \in m.passed : HasRow(r, ledger.rows)
  /\ m.stage \in {"run", "record"} =>
       /\ m.current \in Registered
       /\ HasRow(m.current, ledger.rows) => m.current.id \in ledger.rows
       /\ \A r \in Registered : Before(r, m.current) => r \in m.passed
  /\ m.stage = "record" => ~transactional /\ effect[m.current] > 0
  /\ m.stage \in {"ledger"} \cup AfterLedger => sound
  /\ m.stage \in AfterLedger => ledger.exists
  /\ m.stage = "done" => Registered \subseteq m.passed
LedgerInv ==
  /\ \A r \in Registered : HasRow(r, ledger.rows) => effect[r] > 0
  /\ transactional => \A r \in Registered : effect[r] = (IF HasRow(r, ledger.rows) THEN 1 ELSE 0)
MigrationsInv == MigrationsTyped /\ LedgerInv /\ \A c \in MigrateCommands : CommandInv(c)

LEMMA MigrationsInitially == MigrationsInit => MigrationsInv
<1> SUFFICES ASSUME MigrationsInit PROVE MigrationsInv
  OBVIOUS
<1>1. PICK set \in Offers : /\ Coherent(set \cup CoreMigrations)
                            /\ Ids(set) \cap Ids(CoreMigrations) = {}
                            /\ phases = [core |-> CoreMigrations, business |-> set]
  BY DEF MigrationsInit
<1>2. PICK old \in SUBSET Aliases(Registered) :
          /\ ledger = [exists |-> old # {}, rows |-> old]
          /\ effect = [r \in Registered |-> IF r.aliases \cap old # {} THEN 1 ELSE 0]
  BY DEF MigrationsInit
<1>3. Registered = set \cup CoreMigrations BY <1>1 DEF Registered
<1>4. \A c \in MigrateCommands :
        migrate[c] \in CommandState /\ migrate[c].stage = "idle" /\ migrate[c].passed = {}
  BY DEF MigrationsInit, FreshCommand, CommandState, CommandStages
<1>5. MigrationsTyped
  <2>1. phases \in [core : {CoreMigrations}, business : Offers] /\ phases.business = set
    BY <1>1
  <2>2. ledger \in [exists : BOOLEAN, rows : SUBSET (Ids(Registered) \cup Aliases(Registered))]
    BY <1>2
  <2>3. effect \in [Registered -> Nat] BY <1>2
  <2>4. migrate \in [MigrateCommands -> CommandState]
    BY <1>4 DEF MigrationsInit
  <2> QED BY <1>1, <1>3, <2>1, <2>2, <2>3, <2>4 DEF MigrationsTyped, MigrationsInit
<1>6. \A r \in Registered : r.id \notin old
  BY <1>1, <1>2, <1>3 DEF Coherent, Ids
<1>7. \A r \in Registered : HasRow(r, ledger.rows) <=> r.aliases \cap old # {}
  BY <1>2, <1>6 DEF HasRow
<1>8. LedgerInv
  BY <1>2, <1>7 DEF LedgerInv
<1>9. \A c \in MigrateCommands : CommandInv(c)
  BY <1>4 DEF CommandInv, AfterLedger
<1> QED BY <1>5, <1>8, <1>9 DEF MigrationsInv

\* A row under the number of one is no row of another.
LEMMA RowsAreOwn ==
  ASSUME Coherent(Registered), NEW r \in Registered, NEW s \in Registered, NEW rows
  PROVE  /\ HasRow(r, rows) => HasRow(r, rows \cup {s.id})
         /\ HasRow(r, rows \cup {s.id}) /\ r # s => HasRow(r, rows)
         /\ HasRow(s, rows \cup {s.id})
<1>1. HasRow(r, rows) => HasRow(r, rows \cup {s.id}) BY DEF HasRow
<1>2. HasRow(s, rows \cup {s.id}) BY DEF HasRow
<1>3. ASSUME r # s PROVE s.id # r.id /\ s.id \notin r.aliases
  BY <1>3 DEF Coherent, Distinct, Ids, Aliases
<1>4. HasRow(r, rows \cup {s.id}) /\ r # s => HasRow(r, rows)
  BY <1>3 DEF HasRow
<1> QED BY <1>1, <1>2, <1>4

LEMMA LeastIsLeast ==
  ASSUME MigrationsTyped, NEW set \in SUBSET Registered, set # {}
  PROVE  Least(set) \in set /\ \A s \in set : Least(set).id <= s.id
<1>1. /\ phases.core = CoreMigrations /\ phases.business \in Offers
  BY DEF MigrationsTyped
<1>2. IsFiniteSet(Registered) /\ \A r \in Registered : r.id \in Nat
  BY <1>1, RegistryAssumption, FS_Union DEF Registered
<1>3. IsFiniteSet(set) BY <1>2, FS_Subset
<1> DEFINE numbers == {r.id : r \in set}
<1>4. numbers \in SUBSET Nat /\ numbers # {} BY <1>2
<1>5. IsFiniteSet(numbers)
  <2>1. [r \in set |-> r.id] \in Surjection(set, numbers) BY DEF Surjection
  <2> QED BY <1>3, <2>1, FS_Surjection
<1> HIDE DEF numbers
<1>6. PICK n \in numbers : \A m \in numbers : n <= m BY <1>4, <1>5, LeastExists
<1>7. PICK r \in set : r.id = n BY <1>6 DEF numbers
<1>8. \A s \in set : r.id <= s.id BY <1>6, <1>7 DEF numbers
<1> QED BY <1>7, <1>8 DEF Least

\* The candidate has everything that comes before it passed.
LEMMA CandidateIsNext ==
  ASSUME MigrationsInv, NEW c \in MigrateCommands, Candidates(c) # {}
  PROVE  /\ Least(Candidates(c)) \in Registered
         /\ \A r \in Registered : Before(r, Least(Candidates(c))) => r \in migrate[c].passed
<1>1. MigrationsTyped BY DEF MigrationsInv
<1>2. Candidates(c) = CoreFirst(c) BY DEF Candidates
<1>3. Candidates(c) \in SUBSET Registered
  BY <1>2 DEF CoreFirst, Left, Registered
<1>4. PICK s : s = Least(Candidates(c)) OBVIOUS
<1>5. s \in Candidates(c) /\ \A r \in Candidates(c) : s.id <= r.id
  BY <1>1, <1>3, <1>4, LeastIsLeast
<1>6. phases.core \cap phases.business = {}
  BY <1>1 DEF MigrationsTyped, Ids
<1>7. \A r \in Registered : r.id \in Nat
  <2>1. phases.core = CoreMigrations /\ phases.business \in Offers BY <1>1 DEF MigrationsTyped
  <2> QED BY <2>1, RegistryAssumption DEF Registered
<1>8. ASSUME NEW r \in Registered, Before(r, s) PROVE r \in migrate[c].passed
  <2>1. CASE Left(c, phases.core) # {}
    <3>1. s \in phases.core /\ s \notin phases.business /\ Candidates(c) = phases.core \ migrate[c].passed
      BY <1>2, <1>5, <1>6, <2>1 DEF CoreFirst, Left
    <3>2. r \in phases.core /\ r.id < s.id BY <1>8, <3>1 DEF Before
    <3>3. ~(s.id <= r.id) BY <1>3, <1>5, <1>7, <3>2
    <3> QED BY <1>5, <3>1, <3>2, <3>3
  <2>2. CASE Left(c, phases.core) = {}
    <3>1. /\ s \in phases.business /\ Candidates(c) = phases.business \ migrate[c].passed
          /\ phases.core \subseteq migrate[c].passed
      BY <1>2, <1>5, <2>2 DEF CoreFirst, Left
    <3>2. r \in phases.core \/ (r \in phases.business /\ r.id < s.id)
      BY <1>8, <3>1 DEF Before
    <3>3. r.id < s.id => ~(s.id <= r.id) BY <1>3, <1>5, <1>7
    <3> QED BY <1>5, <3>1, <3>2, <3>3
  <2> QED BY <2>1, <2>2
<1> QED BY <1>3, <1>4, <1>5, <1>8

-----------------------------------------------------------------------------
\* A step of one command that leaves the database as it is.
LEMMA CommandTurns ==
  ASSUME MigrationsInv, NEW c \in MigrateCommands, NEW m \in CommandState,
         migrate' = [migrate EXCEPT ![c] = m], UNCHANGED <<phases, sound, transactional, effect>>,
         ledger'.rows = ledger.rows, ledger' \in [exists : BOOLEAN, rows : {ledger.rows}],
         ledger.exists => ledger'.exists,
         CommandInv(c)'
  PROVE  MigrationsInv'
<1>1. MigrationsTyped BY DEF MigrationsInv
<1>2. Registered' = Registered BY DEF Registered
<1>3. /\ migrate' \in [MigrateCommands -> CommandState] /\ \A d \in MigrateCommands \ {c} : migrate'[d] = migrate[d]
  BY <1>1 DEF MigrationsTyped
<1>4. CommandState' = CommandState BY <1>2 DEF CommandState
<1>5. ledger' \in [exists : BOOLEAN, rows : SUBSET (Ids(Registered) \cup Aliases(Registered))]
  BY <1>1 DEF MigrationsTyped
<1>6. MigrationsTyped' BY <1>1, <1>2, <1>3, <1>4, <1>5 DEF MigrationsTyped
<1>7. LedgerInv' BY <1>2 DEF MigrationsInv, LedgerInv
<1>8. ASSUME NEW d \in MigrateCommands \ {c} PROVE CommandInv(d)'
  <2>1. CommandInv(d) /\ migrate'[d] = migrate[d] BY <1>3 DEF MigrationsInv
  <2>2. \A r : Before(r, migrate[d].current)' = Before(r, migrate[d].current)
    BY <2>1 DEF Before
  <2> QED BY <1>2, <2>1, <2>2 DEF CommandInv
<1> QED BY <1>6, <1>7, <1>8 DEF MigrationsInv

LEMMA StandstillPreserves ==
  ASSUME MigrationsInv, NEW c \in MigrateCommands,
         Preflights(c) \/ CreatesLedger(c) \/ EndsMigrating(c) \/ CommandDies(c)
  PROVE  MigrationsInv'
<1> DEFINE m == migrate[c]
<1>1. m \in CommandState /\ CommandInv(c) /\ ledger \in [exists : BOOLEAN, rows : {ledger.rows}]
  BY DEF MigrationsInv, MigrationsTyped
<1>2. PICK stage \in CommandStages : Turns(c, stage)
             /\ (stage \in {"ledger"} \cup AfterLedger => sound)
             /\ (stage \in AfterLedger => ledger'.exists) /\ stage \notin {"run", "record"}
             /\ (stage = "done" => Registered \subseteq m.passed)
             /\ UNCHANGED <<phases, sound, transactional, effect>>
             /\ ledger'.rows = ledger.rows /\ ledger' \in [exists : BOOLEAN, rows : {ledger.rows}]
             /\ (ledger.exists => ledger'.exists)
  <2>1. CASE Preflights(c)
    <3>1. "ledger" \in CommandStages /\ "failed" \in CommandStages BY DEF CommandStages
    <3> QED BY <1>1, <2>1, <3>1 DEF Preflights, Preflight, Validated, Setting, AfterLedger
  <2>2. CASE CreatesLedger(c)
    <3>1. sound BY <1>1, <2>2 DEF CreatesLedger, CommandInv
    <3>2. "next" \in CommandStages /\ "failed" \in CommandStages BY DEF CommandStages, AfterLedger
    <3> QED BY <1>1, <2>2, <3>1, <3>2 DEF CreatesLedger, Setting, AfterLedger
  <2>3. CASE EndsMigrating(c)
    <3>1. sound /\ ledger.exists BY <1>1, <2>3 DEF EndsMigrating, CommandInv, AfterLedger
    <3>2. Registered \subseteq m.passed
      BY <2>3 DEF EndsMigrating, Candidates, CoreFirst, Left, Registered
    <3>3. "done" \in CommandStages /\ "failed" \in CommandStages BY DEF CommandStages, AfterLedger
    <3> QED BY <1>1, <2>3, <3>1, <3>2, <3>3 DEF EndsMigrating, Setting
  <2>4. CASE CommandDies(c)
    <3>1. "killed" \in CommandStages BY DEF CommandStages
    <3> QED BY <1>1, <2>4, <3>1 DEF CommandDies, Setting, AfterLedger
  <2> QED BY <2>1, <2>2, <2>3, <2>4
<1>3. PICK n : n = [m EXCEPT !.stage = stage] OBVIOUS
<1>4. n \in CommandState /\ n.stage = stage /\ n.passed = m.passed
  BY <1>1, <1>3 DEF CommandState
<1>5. migrate' = [migrate EXCEPT ![c] = n] BY <1>2, <1>3 DEF Turns
<1>6. migrate'[c] = n BY <1>5 DEF MigrationsInv, MigrationsTyped
<1>7. CommandInv(c)'
  BY <1>1, <1>2, <1>4, <1>6 DEF CommandInv, Registered
<1> QED BY <1>2, <1>4, <1>5, <1>7, CommandTurns

LEMMA LooksPreserves ==
  ASSUME MigrationsInv, NEW c \in MigrateCommands, Looks(c) PROVE MigrationsInv'
<1> DEFINE m == migrate[c]
<1>1. m \in CommandState /\ CommandInv(c) /\ ledger \in [exists : BOOLEAN, rows : {ledger.rows}]
  BY DEF MigrationsInv, MigrationsTyped
<1>2. m.stage = "next" /\ Candidates(c) # {} BY DEF Looks
<1>3. sound /\ ledger.exists BY <1>1, <1>2 DEF CommandInv, AfterLedger
<1>4. PICK r : r = Least(Candidates(c)) OBVIOUS
<1>5. r \in Registered /\ \A s \in Registered : Before(s, r) => s \in m.passed
  BY <1>2, <1>4, CandidateIsNext
<1>6. UNCHANGED <<phases, sound, transactional, ledger, effect>> BY DEF Looks, Setting
<1>7. ASSUME NEW n \in CommandState, migrate' = [migrate EXCEPT ![c] = n], CommandInv(c)'
      PROVE  MigrationsInv'
  BY <1>1, <1>6, <1>7, CommandTurns
<1>8. CASE MigrationDone(r) /\ migrate' = [migrate EXCEPT ![c].passed = @ \cup {r}]
  <2>1. PICK n : n = [m EXCEPT !.passed = @ \cup {r}] OBVIOUS
  <2>2. n \in CommandState /\ n.stage = "next" /\ n.passed = m.passed \cup {r}
    BY <1>1, <1>2, <1>5, <2>1 DEF CommandState
  <2>3. migrate' = [migrate EXCEPT ![c] = n] BY <1>8, <2>1
  <2>4. migrate'[c] = n BY <2>3 DEF MigrationsInv, MigrationsTyped
  <2>5. CommandInv(c)'
    BY <1>1, <1>3, <1>6, <1>8, <2>2, <2>4 DEF CommandInv, MigrationDone, ByAnyNumber
  <2> QED BY <1>7, <2>2, <2>3, <2>5
<1>9. CASE /\ ~MigrationDone(r)
           /\ migrate' = [migrate EXCEPT ![c].stage = "run", ![c].current = r]
  <2>1. PICK n : n = [m EXCEPT !.stage = "run", !.current = r] OBVIOUS
  <2>2. n \in CommandState /\ n.stage = "run" /\ n.passed = m.passed /\ n.current = r
    BY <1>1, <1>5, <2>1 DEF CommandState, CommandStages, AfterLedger
  <2>3. migrate' = [migrate EXCEPT ![c] = n] BY <1>9, <2>1
  <2>4. migrate'[c] = n BY <2>3 DEF MigrationsInv, MigrationsTyped
  <2>5. \A s : Before(s, r)' = Before(s, r) BY <1>6 DEF Before
  <2>6. CommandInv(c)'
    BY <1>1, <1>3, <1>5, <1>6, <1>9, <2>2, <2>4, <2>5 DEF CommandInv, Registered, MigrationDone, ByAnyNumber
  <2> QED BY <1>7, <2>2, <2>3, <2>6
<1>10. CASE Turns(c, "failed")
  <2>1. PICK n : n = [m EXCEPT !.stage = "failed"] OBVIOUS
  <2>2. n \in CommandState /\ n.stage = "failed" /\ n.passed = m.passed
    BY <1>1, <2>1 DEF CommandState, CommandStages
  <2>3. migrate' = [migrate EXCEPT ![c] = n] BY <1>10, <2>1 DEF Turns
  <2>4. migrate'[c] = n BY <2>3 DEF MigrationsInv, MigrationsTyped
  <2>5. CommandInv(c)'
    BY <1>1, <1>6, <2>2, <2>4 DEF CommandInv, AfterLedger
  <2> QED BY <1>7, <2>2, <2>3, <2>5
<1> QED BY <1>4, <1>8, <1>9, <1>10 DEF Looks

\* The effect of a migration, or its row, which the one that has it is the one
\* to write.
LEMMA CommandActs ==
  ASSUME MigrationsInv, NEW c \in MigrateCommands, NEW n \in CommandState,
         migrate' = [migrate EXCEPT ![c] = n], NEW r \in Registered, r = migrate[c].current,
         UNCHANGED <<phases, sound, transactional>>,
         ledger' = ledger \/ ledger' = [ledger EXCEPT !.rows = @ \cup {r.id}],
         effect' = effect \/ effect' = [effect EXCEPT ![r] = @ + 1],
         LedgerInv', CommandInv(c)'
  PROVE  MigrationsInv'
<1>1. MigrationsTyped BY DEF MigrationsInv
<1>2. Registered' = Registered BY DEF Registered
<1>3. /\ migrate' \in [MigrateCommands -> CommandState]
      /\ \A d \in MigrateCommands \ {c} : migrate'[d] = migrate[d]
  BY <1>1 DEF MigrationsTyped
<1>4. CommandState' = CommandState BY <1>2 DEF CommandState
<1>5. /\ ledger' \in [exists : BOOLEAN, rows : SUBSET (Ids(Registered) \cup Aliases(Registered))]
      /\ ledger'.exists = ledger.exists /\ ledger'.rows \in {ledger.rows, ledger.rows \cup {r.id}}
  <2>1. ledger \in [exists : BOOLEAN, rows : SUBSET (Ids(Registered) \cup Aliases(Registered))]
    BY <1>1 DEF MigrationsTyped
  <2>2. r.id \in Ids(Registered) BY DEF Ids
  <2> QED BY <2>1, <2>2
<1>6. effect' \in [Registered -> Nat] /\ \A s \in Registered : effect[s] > 0 => effect'[s] > 0
  BY <1>1 DEF MigrationsTyped
<1>7. MigrationsTyped' BY <1>1, <1>2, <1>3, <1>4, <1>5, <1>6 DEF MigrationsTyped
<1>8. ASSUME NEW d \in MigrateCommands \ {c} PROVE CommandInv(d)'
  <2>1. CommandInv(d) /\ migrate'[d] = migrate[d] BY <1>3 DEF MigrationsInv
  <2>2. \A s : Before(s, migrate[d].current)' = Before(s, migrate[d].current)
    BY <2>1 DEF Before
  <2>3. migrate[d].passed \subseteq Registered
    BY <1>1 DEF MigrationsTyped, CommandState
  <2>4. \A s \in migrate[d].passed : HasRow(s, ledger'.rows)
    BY <1>1, <1>5, <2>1, <2>3, RowsAreOwn DEF CommandInv, MigrationsTyped
  <2>5. ASSUME migrate[d].stage \in {"run", "record"}, HasRow(migrate[d].current, ledger'.rows)
        PROVE  migrate[d].current.id \in ledger'.rows
    BY <1>1, <1>5, <2>1, <2>5, RowsAreOwn DEF CommandInv, MigrationsTyped
  <2> QED BY <1>2, <1>5, <1>6, <2>1, <2>2, <2>4, <2>5 DEF CommandInv
<1> QED BY <1>7, <1>8 DEF MigrationsInv

LEMMA ActsPreserves ==
  ASSUME MigrationsInv, NEW c \in MigrateCommands, Performs(c) \/ Records(c) PROVE MigrationsInv'
<1> DEFINE m == migrate[c]
<1>0. PICK r : r = m.current OBVIOUS
<1>1. m \in CommandState /\ CommandInv(c) /\ MigrationsTyped /\ LedgerInv
  BY DEF MigrationsInv, MigrationsTyped
<1>2. m.stage \in {"run", "record"} /\ UNCHANGED <<phases, sound, transactional>>
  BY DEF Performs, Records, Setting
<1>3. /\ r \in Registered /\ sound /\ ledger.exists
      /\ HasRow(r, ledger.rows) => r.id \in ledger.rows
      /\ \A s \in Registered : Before(s, r) => s \in m.passed
      /\ m.passed \subseteq Registered
  BY <1>0, <1>1, <1>2 DEF CommandInv, AfterLedger, CommandState
<1>4. Registered' = Registered BY <1>2 DEF Registered
<1>5. /\ ledger \in [exists : BOOLEAN, rows : SUBSET (Ids(Registered) \cup Aliases(Registered))]
      /\ effect \in [Registered -> Nat] /\ Coherent(Registered)
      /\ migrate \in [MigrateCommands -> CommandState]
  BY <1>1 DEF MigrationsTyped
<1>6. \A s : Before(s, r)' = Before(s, r) BY <1>2 DEF Before
<1>7. ASSUME Passes(c), ledger' = [ledger EXCEPT !.rows = @ \cup {r.id}], LedgerInv',
             effect' = effect \/ effect' = [effect EXCEPT ![r] = @ + 1]
      PROVE  MigrationsInv'
  <2>1. PICK n : n = [m EXCEPT !.stage = "next", !.current = NoMigration, !.passed = @ \cup {r}]
    OBVIOUS
  <2>2. n \in CommandState /\ n.stage = "next" /\ n.passed = m.passed \cup {r}
    BY <1>1, <1>3, <2>1 DEF CommandState, CommandStages, AfterLedger
  <2>3. migrate' = [migrate EXCEPT ![c] = n] BY <1>0, <1>7, <2>1 DEF Passes
  <2>4. migrate'[c] = n BY <1>5, <2>3
  <2>5. ledger'.rows = ledger.rows \cup {r.id} /\ ledger'.exists
    BY <1>3, <1>5, <1>7
  <2>6. \A s \in n.passed : HasRow(s, ledger'.rows)
    BY <1>1, <1>3, <1>5, <2>2, <2>5, RowsAreOwn DEF CommandInv
  <2>7. CommandInv(c)'
    BY <1>2, <1>3, <2>2, <2>4, <2>5, <2>6 DEF CommandInv
  <2> QED BY <1>0, <1>2, <1>3, <1>7, <2>2, <2>3, <2>7, CommandActs
<1>8. ASSUME NEW stage \in {"failed", "record"}, Turns(c, stage), ledger' = ledger, LedgerInv',
             effect' = effect \/ effect' = [effect EXCEPT ![r] = @ + 1],
             stage = "record" => ~transactional /\ effect'[r] > 0
      PROVE  MigrationsInv'
  <2>1. PICK n : n = [m EXCEPT !.stage = stage] OBVIOUS
  <2>2. n \in CommandState /\ n.stage = stage /\ n.passed = m.passed /\ n.current = r
    BY <1>0, <1>1, <2>1 DEF CommandState, CommandStages, AfterLedger
  <2>3. migrate' = [migrate EXCEPT ![c] = n] BY <1>8, <2>1 DEF Turns
  <2>4. migrate'[c] = n BY <1>5, <2>3
  <2>5. CommandInv(c)'
    BY <1>1, <1>2, <1>3, <1>4, <1>6, <1>8, <2>2, <2>4 DEF CommandInv, AfterLedger
  <2> QED BY <1>0, <1>2, <1>3, <1>8, <2>2, <2>3, <2>5, CommandActs
<1>9. CASE transactional /\ Insertable(r) /\ Affects(r) /\ Passes(c)
           /\ ledger' = [ledger EXCEPT !.rows = @ \cup {r.id}]
  <2>1. ~HasRow(r, ledger.rows) BY <1>3, <1>9 DEF Insertable, FreeKey
  <2>2. effect[r] = 0 BY <1>1, <1>3, <1>9, <2>1 DEF LedgerInv
  <2>3. effect' = [effect EXCEPT ![r] = @ + 1] BY <1>9 DEF Affects
  <2>4. effect'[r] = 1 /\ \A s \in Registered \ {r} : effect'[s] = effect[s]
    BY <1>3, <1>5, <2>2, <2>3
  <2>5. ledger'.rows = ledger.rows \cup {r.id} BY <1>5, <1>9
  <2>6. HasRow(r, ledger'.rows)
    BY <1>3, <1>5, <2>5, RowsAreOwn
  <2>7. \A s \in Registered \ {r} : HasRow(s, ledger'.rows) <=> HasRow(s, ledger.rows)
    BY <1>3, <1>5, <2>5, RowsAreOwn
  <2>8. LedgerInv'
    BY <1>1, <1>2, <1>4, <2>4, <2>6, <2>7 DEF LedgerInv
  <2> QED BY <1>7, <1>9, <2>3, <2>8
<1>10. CASE ~transactional /\ Affects(r) /\ Turns(c, "record") /\ UNCHANGED ledger
  <2>1. effect' = [effect EXCEPT ![r] = @ + 1] BY <1>10 DEF Affects
  <2>2. effect'[r] > 0 /\ \A s \in Registered : effect[s] > 0 => effect'[s] > 0
    BY <1>3, <1>5, <2>1
  <2>3. LedgerInv' BY <1>1, <1>2, <1>4, <1>10, <2>2 DEF LedgerInv
  <2> QED BY <1>8, <1>10, <2>1, <2>2, <2>3
<1>11. CASE Turns(c, "failed") /\ UNCHANGED <<ledger, effect>>
  <2>1. LedgerInv' BY <1>1, <1>2, <1>4, <1>11 DEF LedgerInv
  <2> QED BY <1>8, <1>11, <2>1
<1>12. CASE /\ m.stage = "record" /\ Passes(c) /\ UNCHANGED effect
            /\ ledger' = [ledger EXCEPT !.rows = @ \cup {r.id}]
  <2>1. ~transactional /\ effect[r] > 0 BY <1>0, <1>1, <1>12 DEF CommandInv
  <2>2. ledger'.rows = ledger.rows \cup {r.id} BY <1>5, <1>12
  <2>3. \A s \in Registered \ {r} : HasRow(s, ledger'.rows) <=> HasRow(s, ledger.rows)
    BY <1>3, <1>5, <2>2, RowsAreOwn
  <2>4. LedgerInv' BY <1>1, <1>2, <1>4, <1>12, <2>1, <2>3 DEF LedgerInv
  <2> QED BY <1>7, <1>12, <2>4
<1> QED BY <1>0, <1>9, <1>10, <1>11, <1>12 DEF Performs, Records

LEMMA MigrationsStepPreserves == MigrationsInv /\ [MigrationsNext]_migrationVars => MigrationsInv'
<1> SUFFICES ASSUME MigrationsInv, [MigrationsNext]_migrationVars PROVE MigrationsInv'
  OBVIOUS
<1>1. CASE UNCHANGED migrationVars
  <2>1. UNCHANGED <<phases, sound, transactional, ledger, effect, migrate>>
    BY <1>1 DEF migrationVars
  <2>2. MigrationsTyped' BY <2>1 DEF MigrationsInv, MigrationsTyped, Registered, CommandState
  <2>3. LedgerInv' BY <2>1 DEF MigrationsInv, LedgerInv, Registered
  <2>4. \A c \in MigrateCommands : CommandInv(c)'
    BY <2>1 DEF MigrationsInv, CommandInv, Registered, Before
  <2> QED BY <2>2, <2>3, <2>4 DEF MigrationsInv
<1>2. CASE MigrationsNext
  BY <1>2, StandstillPreserves, LooksPreserves, ActsPreserves DEF MigrationsNext
<1> QED BY <1>1, <1>2

LEMMA MigrationsInvMeans == MigrationsInv => LedgerIsTrue
BY DEF MigrationsInv, LedgerInv, CommandInv, LedgerIsTrue

\* A migration has its effect when all that comes before it has been passed, and
\* every step but the first follows a preflight that succeeded.
LEMMA MigrationsGoInOrder ==
  MigrationsInv /\ [MigrationsNext]_migrationVars => AppliedInOrder /\ NothingUnlessSound
<1> SUFFICES ASSUME MigrationsInv, [MigrationsNext]_migrationVars
             PROVE  AppliedInOrder /\ NothingUnlessSound
  OBVIOUS
<1>1. NothingUnlessSound
  <2> SUFFICES ASSUME ~sound, MigrationsNext PROVE UNCHANGED ledger
    BY DEF NothingUnlessSound, migrationVars
  <2>1. \A c \in MigrateCommands : migrate[c].stage \notin {"ledger", "next", "run", "record"}
    BY DEF MigrationsInv, CommandInv, AfterLedger
  <2> QED BY <2>1 DEF MigrationsNext, Preflights, CreatesLedger, Looks, Performs, Records,
          EndsMigrating, CommandDies
<1>2. AppliedInOrder
  <2> SUFFICES ASSUME NEW s \in Registered, effect'[s] # effect[s]
               PROVE  /\ sound /\ ledger.exists
                      /\ \A r \in Registered : Before(r, s) => effect[r] > 0
    BY DEF AppliedInOrder
  <2>1. PICK c \in MigrateCommands : Performs(c)
    BY DEF MigrationsNext, migrationVars, Preflights, CreatesLedger, Looks, Records,
       EndsMigrating, CommandDies
  <2>2. s = migrate[c].current
    <3>1. effect \in [Registered -> Nat] /\ Affects(migrate[c].current)
      BY <2>1 DEF MigrationsInv, MigrationsTyped, Performs
    <3> QED BY <3>1 DEF Affects
  <2>3. migrate[c].stage = "run" /\ CommandInv(c) /\ migrate[c].passed \subseteq Registered
    BY <2>1 DEF Performs, MigrationsInv, MigrationsTyped, CommandState
  <2> QED BY <2>2, <2>3 DEF CommandInv, AfterLedger, MigrationsInv, LedgerInv
<1> QED BY <1>1, <1>2

-----------------------------------------------------------------------------
(* The generation of modules.                                              *)

Applying == {"check", "verify", "replace"}
GenerateStages == {"idle", "compare", "group", "done", "reported", "conflict", "failed"} \cup Applying
GenerateState ==
  [stage : GenerateStages, at : Nat, desired : [Outputs -> Texts \cup {"present"}],
   preimage : [Outputs -> Texts \cup {"unplanned"}], found : SUBSET BOOLEAN,
   written : SUBSET Outputs, overlap : BOOLEAN, alone : BOOLEAN]

PlannedOf(x) == {p \in Outputs : x.preimage[p] # "unplanned"}
(* What a plan says of a path it was made for, unless others interfered;   *)
(* and the path when it is as the module asks for.                         *)
PlanKnown(x, p) ==
  \/ x.desired[p] = "present"
  \/ x.preimage[p] = "unplanned" /\ content[p] = x.desired[p]
  \/ x.preimage[p] # "unplanned" /\ content[p] = x.preimage[p]
PathComplete(x, p) == x.desired[p] = "present" \/ content[p] = x.desired[p]

PlanInv(x) ==
  /\ x.stage # "idle" => x.at \in Outputs
  /\ \A p \in Outputs : x.preimage[p] # "unplanned" => x.desired[p] # "present"
  /\ \A p \in Outputs \ Extension : x.preimage[p] # "hand"
  /\ x.stage = "compare" => \A p \in Outputs : p >= x.at => x.preimage[p] = "unplanned"
  /\ x.written # {} => x.stage \in {"verify", "replace", "done", "conflict", "failed"}
(* The paths found as planned while the plan is applied.                   *)
ApplyInv(x, whole) ==
  /\ x.stage \in Applying => \A p \in Outputs : content[p] = x.preimage[p] => p \in whole
  /\ x.stage = "check" => \A p \in PlannedOf(x) \ Extension : p < x.at => p \in whole
  /\ x.stage \in {"verify", "replace"} \/ x.written # {} => PlannedOf(x) \ Extension \subseteq whole
  /\ x.stage = "replace" =>
       /\ x.at \in PlannedOf(x)
       /\ x.overlap \/ x.at \in Extension \/ content[x.at] = x.preimage[x.at]
(* How far a call nobody interfered with has come.                         *)
AloneInv(x) ==
  x.alone =>
    /\ x.stage = "compare" => \A p \in Outputs : p < x.at => PlanKnown(x, p)
    /\ x.stage \in {"group", "check"} => \A p \in Outputs : PlanKnown(x, p)
    /\ x.stage \in {"verify", "replace"} =>
         \A p \in Outputs : IF p < x.at THEN PathComplete(x, p) ELSE PlanKnown(x, p)
    /\ x.stage = "done" => \A p \in Outputs : PathComplete(x, p)
GenerationTyped ==
  /\ content \in [Outputs -> Texts] /\ touches \in 0..MaxTouches
  /\ intact \in [Generators -> SUBSET Outputs] /\ generate \in [Generators -> GenerateState]
CallPlanInv(x, whole) == PlanInv(x) /\ ApplyInv(x, whole) /\ AloneInv(x)
GenerationInv == GenerationTyped /\ \A g \in Generators : CallPlanInv(generate[g], intact[g])

LEMMA OutputsCounted ==
  /\ Outputs \subseteq Nat \ {0} /\ FirstOutput \in Outputs
  /\ \A p \in Outputs : FirstOutput <= p
  /\ \A p \in Outputs : Following(p) = {} => \A q \in Outputs : q <= p
  /\ \A p \in Outputs : Following(p) # {} => p + 1 \in Outputs
<1>1. Cardinality(Outputs) \in Nat /\ Outputs = 1..Cardinality(Outputs) /\ Outputs # {}
  BY GenerationAssumption, FS_CardinalityType
<1>2. 1 \in Outputs /\ \A p \in Outputs : 1 <= p BY <1>1
<1>3. FirstOutput \in Outputs /\ \A p \in Outputs : FirstOutput <= p BY <1>2 DEF FirstOutput
<1>4. \A p \in Outputs : Following(p) = {} => \A q \in Outputs : q <= p
  BY <1>1 DEF Following
<1>5. ASSUME NEW p \in Outputs, Following(p) # {} PROVE p + 1 \in Outputs
  <2>1. PICK q \in Outputs : q > p BY <1>5 DEF Following
  <2> QED BY <1>1, <2>1
<1> QED BY <1>1, <1>3, <1>4, <1>5

LEMMA OutputsOrdered ==
  ASSUME NEW p \in Outputs, NEW q \in Outputs
  PROVE  /\ q < p + 1 <=> q <= p
         /\ q # p => (q < p <=> q <= p)
<1>1. p \in Nat /\ q \in Nat BY OutputsCounted
<1> QED BY <1>1

LEMMA FreshGenerateTyped ==
  /\ FreshGenerate \in GenerateState /\ FreshGenerate.stage = "idle" /\ FreshGenerate.written = {}
  /\ \A p \in Outputs : FreshGenerate.preimage[p] = "unplanned"
<1>1. [p \in Outputs |-> "absent"] \in [Outputs -> Texts \cup {"present"}] BY DEF Texts
<1>2. [p \in Outputs |-> "unplanned"] \in [Outputs -> Texts \cup {"unplanned"}] OBVIOUS
<1>3. "idle" \in GenerateStages BY DEF GenerateStages
<1> HIDE DEF GenerateStages, Texts
<1> QED BY <1>1, <1>2, <1>3 DEF FreshGenerate, GenerateState

LEMMA GenerationInitially == GenerationInit => GenerationInv
<1> SUFFICES ASSUME GenerationInit PROVE GenerationInv
  OBVIOUS
<1>1. GenerationTyped
  BY GenerationAssumption, FreshGenerateTyped DEF GenerationInit, GenerationTyped
<1>2. ASSUME NEW g \in Generators PROVE CallPlanInv(generate[g], intact[g])
  <2>1. generate[g] = FreshGenerate BY DEF GenerationInit
  <2> QED BY <2>1, FreshGenerateTyped DEF CallPlanInv, PlanInv, ApplyInv, AloneInv, Applying
<1> QED BY <1>1, <1>2 DEF GenerationInv

-----------------------------------------------------------------------------
\* A step of one call in which no path changes.
LEMMA GenerateStep ==
  ASSUME GenerationInv, NEW g \in Generators, NEW x \in GenerateState,
         generate' = [generate EXCEPT ![g] = x], UNCHANGED <<content, touches>>,
         NEW whole \in SUBSET Outputs, intact' = [intact EXCEPT ![g] = whole],
         CallPlanInv(x, whole)
  PROVE  GenerationInv'
<1>1. GenerationTyped BY DEF GenerationInv
<1>2. /\ generate' \in [Generators -> GenerateState] /\ generate'[g] = x
      /\ intact' \in [Generators -> SUBSET Outputs] /\ intact'[g] = whole
      /\ \A h \in Generators \ {g} : generate'[h] = generate[h] /\ intact'[h] = intact[h]
  BY <1>1 DEF GenerationTyped
<1>3. GenerationTyped' BY <1>1, <1>2 DEF GenerationTyped
<1>4. ASSUME NEW h \in Generators PROVE CallPlanInv(generate[h], intact[h])'
  <2>1. CASE h = g
    BY <1>2, <2>1 DEF CallPlanInv, PlanInv, ApplyInv, AloneInv, PlanKnown, PathComplete, PlannedOf
  <2>2. CASE h # g
    <3>1. CallPlanInv(generate[h], intact[h]) BY DEF GenerationInv
    <3> QED BY <1>2, <2>2, <3>1
         DEF CallPlanInv, PlanInv, ApplyInv, AloneInv, PlanKnown, PathComplete, PlannedOf
  <2> QED BY <2>1, <2>2
<1> QED BY <1>3, <1>4 DEF GenerationInv

\* The same, with nothing newly found as planned.
LEMMA GenerateMoves ==
  ASSUME GenerationInv, NEW g \in Generators, NEW x \in GenerateState,
         generate' = [generate EXCEPT ![g] = x], UNCHANGED <<content, touches, intact>>,
         CallPlanInv(x, intact[g])
  PROVE  GenerationInv'
<1>1. intact[g] \in SUBSET Outputs /\ intact' = [intact EXCEPT ![g] = intact[g]]
  BY DEF GenerationInv, GenerationTyped
<1> QED BY <1>1, GenerateStep

\* Where a call goes on.
LEMMA StepsTo ==
  ASSUME GenerationTyped, NEW g \in Generators, NEW stage \in GenerateStages, NEW p \in Outputs,
         Steps(g, stage, p)
  PROVE  \E x \in GenerateState :
            /\ generate' = [generate EXCEPT ![g] = x]
            /\ x.stage = stage /\ x.at = p /\ x.desired = generate[g].desired
            /\ x.preimage = generate[g].preimage /\ x.written = generate[g].written
            /\ x.overlap = generate[g].overlap /\ x.alone = generate[g].alone
<1>1. PICK x : x = [generate[g] EXCEPT !.stage = stage, !.at = p] OBVIOUS
<1>2. generate[g] \in GenerateState BY DEF GenerationTyped
<1>3. p \in Nat BY OutputsCounted
<1>4. x \in GenerateState BY <1>1, <1>2, <1>3 DEF GenerateState
<1>5. /\ x.stage = stage /\ x.at = p /\ x.desired = generate[g].desired
      /\ x.preimage = generate[g].preimage /\ x.written = generate[g].written
      /\ x.overlap = generate[g].overlap /\ x.alone = generate[g].alone
  BY <1>1, <1>2 DEF GenerateState
<1>6. generate' = [generate EXCEPT ![g] = x] BY <1>1 DEF Steps
<1> QED BY <1>1, <1>4, <1>5, <1>6

LEMMA GeneratesPreserves ==
  ASSUME GenerationInv, NEW g \in Generators, Generates(g) PROVE GenerationInv'
<1>1. GenerationTyped BY DEF GenerationInv
<1>2. PICK d \in Wanted :
        generate' = [generate EXCEPT ![g] =
             [FreshGenerate EXCEPT !.stage = "compare", !.at = FirstOutput,
                !.desired = [p \in Outputs |->
                    IF p \in Extension /\ content[p] # "absent" THEN "present" ELSE d[p]]]]
  BY DEF Generates
<1>3. PICK desired : desired = [p \in Outputs |->
                    IF p \in Extension /\ content[p] # "absent" THEN "present" ELSE d[p]]
  OBVIOUS
<1>4. desired \in [Outputs -> Texts \cup {"present"}]
  <2>1. d \in [Outputs -> Marked \cup {"absent"}] BY GenerationAssumption
  <2> QED BY <1>3, <2>1 DEF Texts
<1>5. PICK x : x = [FreshGenerate EXCEPT !.stage = "compare", !.at = FirstOutput, !.desired = desired]
  OBVIOUS
<1>6. x \in GenerateState /\ x.stage = "compare" /\ x.at = FirstOutput /\ x.written = {}
      /\ \A p \in Outputs : x.preimage[p] = "unplanned"
  <2>1. "compare" \in GenerateStages /\ FirstOutput \in Nat
    BY OutputsCounted DEF GenerateStages
  <2>2. FreshGenerate \in GenerateState /\ FreshGenerate.written = {}
        /\ \A p \in Outputs : FreshGenerate.preimage[p] = "unplanned"
    BY FreshGenerateTyped
  <2> HIDE DEF GenerateStages, Texts
  <2>3. x \in GenerateState BY <1>4, <1>5, <2>1, <2>2 DEF GenerateState
  <2>4. /\ x.stage = "compare" /\ x.at = FirstOutput /\ x.written = FreshGenerate.written
        /\ x.preimage = FreshGenerate.preimage
    BY <1>5, <2>2 DEF GenerateState
  <2> QED BY <2>2, <2>3, <2>4
<1>7. CallPlanInv(x, intact[g])
  <2>1. \A p \in Outputs : ~(p < FirstOutput)
    BY OutputsCounted
  <2> QED BY <1>6, <2>1, OutputsCounted DEF CallPlanInv, PlanInv, ApplyInv, AloneInv, Applying
<1>8. generate' = [generate EXCEPT ![g] = x] /\ UNCHANGED <<content, touches, intact>>
  BY <1>2, <1>3, <1>5 DEF Generates
<1> QED BY <1>6, <1>7, <1>8, GenerateMoves

LEMMA ComparesPreserves ==
  ASSUME GenerationInv, NEW g \in Generators, Compares(g) PROVE GenerationInv'
<1> DEFINE x == generate[g]  p == x.at
<1>1. GenerationTyped /\ x \in GenerateState /\ CallPlanInv(x, intact[g])
  BY DEF GenerationInv, GenerationTyped
<1>2. x.stage = "compare" /\ UNCHANGED <<content, touches, intact>>
  BY DEF Compares
<1>3. /\ p \in Outputs /\ x.written = {} /\ \A q \in Outputs : q >= p => x.preimage[q] = "unplanned"
      /\ x.alone => \A q \in Outputs : q < p => PlanKnown(x, q)
      /\ \A q \in Outputs : x.preimage[q] # "unplanned" => x.desired[q] # "present"
      /\ \A q \in Outputs \ Extension : x.preimage[q] # "hand"
  BY <1>1, <1>2 DEF CallPlanInv, PlanInv, AloneInv
<1>4. \A q \in Outputs : q \in Nat /\ p \in Nat BY <1>3, OutputsCounted
\* To the next path, when what the plan says of this one is known.
<1>5. ASSUME NEW y \in GenerateState, generate' = [generate EXCEPT ![g] = y],
             y.stage = (IF Following(p) = {} THEN "group" ELSE "compare"),
             y.at = (IF Following(p) = {} THEN FirstOutput ELSE p + 1),
             y.desired = x.desired, y.written = {}, y.alone = x.alone,
             \A q \in Outputs \ {p} : y.preimage[q] = x.preimage[q],
             PlanKnown(y, p), y.preimage[p] # "unplanned" => y.desired[p] # "present",
             p \notin Extension => y.preimage[p] # "hand"
      PROVE  GenerationInv'
  <2>1. y.at \in Outputs BY <1>3, <1>5, OutputsCounted
  <2>2. PlanInv(y)
    <3>1. y.stage = "compare" => \A q \in Outputs : q >= y.at => y.preimage[q] = "unplanned"
      BY <1>3, <1>4, <1>5
    <3> QED BY <1>3, <1>5, <2>1, <3>1 DEF PlanInv
  <2>3. ApplyInv(y, intact[g])
    BY <1>5 DEF ApplyInv, Applying
  <2>4. AloneInv(y)
    <3>1. y.alone => \A q \in Outputs : q <= p => PlanKnown(y, q)
      <4> SUFFICES ASSUME y.alone, NEW q \in Outputs, q <= p PROVE PlanKnown(y, q)
        OBVIOUS
      <4>1. CASE q = p BY <1>5, <4>1
      <4>2. CASE q # p
        <5>1. q < p BY <1>4, <4>2
        <5> QED BY <1>3, <1>5, <4>2, <5>1 DEF PlanKnown
      <4> QED BY <4>1, <4>2
    <3>2. Following(p) = {} => \A q \in Outputs : q <= p BY <1>3, OutputsCounted
    <3>3. \A q \in Outputs : q < p + 1 => q <= p BY <1>4
    <3> QED BY <1>5, <3>1, <3>2, <3>3 DEF AloneInv
  <2> QED BY <1>2, <1>5, <2>2, <2>3, <2>4, GenerateMoves DEF CallPlanInv
<1>6. CASE Unneeded(g, p) /\ NextPath(g, "compare", "group")
  <2>1. "compare" \in GenerateStages /\ "group" \in GenerateStages BY DEF GenerateStages
  <2>2. FirstOutput \in Outputs /\ (Following(p) # {} => p + 1 \in Outputs)
    BY <1>3, OutputsCounted
  <2>3. PICK y \in GenerateState :
          /\ generate' = [generate EXCEPT ![g] = y]
          /\ y.stage = (IF Following(p) = {} THEN "group" ELSE "compare")
          /\ y.at = (IF Following(p) = {} THEN FirstOutput ELSE p + 1)
          /\ y.desired = x.desired /\ y.written = x.written /\ y.alone = x.alone
          /\ y.preimage = x.preimage
    <3>1. CASE Following(p) = {}
      <4>1. Steps(g, "group", FirstOutput) BY <1>6, <3>1 DEF NextPath
      <4>2. PICK y \in GenerateState :
              /\ generate' = [generate EXCEPT ![g] = y] /\ y.stage = "group" /\ y.at = FirstOutput
              /\ y.desired = x.desired /\ y.preimage = x.preimage /\ y.written = x.written
              /\ y.overlap = x.overlap /\ y.alone = x.alone
        BY <1>1, <2>1, <2>2, <4>1, StepsTo
      <4> QED BY <3>1, <4>2
    <3>2. CASE Following(p) # {}
      <4>1. Steps(g, "compare", p + 1) BY <1>6, <3>2 DEF NextPath
      <4>2. PICK y \in GenerateState :
              /\ generate' = [generate EXCEPT ![g] = y] /\ y.stage = "compare" /\ y.at = p + 1
              /\ y.desired = x.desired /\ y.preimage = x.preimage /\ y.written = x.written
              /\ y.overlap = x.overlap /\ y.alone = x.alone
        BY <1>1, <2>1, <2>2, <3>2, <4>1, StepsTo
      <4> QED BY <3>2, <4>2
    <3> QED BY <3>1, <3>2
  <2>4. x.preimage[p] = "unplanned" BY <1>3, <1>4
  <2>5. PlanKnown(y, p) /\ y.preimage[p] = "unplanned"
    BY <1>6, <2>3, <2>4 DEF PlanKnown, Unneeded
  <2> QED BY <1>3, <1>5, <2>3, <2>5
<1>7. CASE InConflict(p) /\ Steps(g, "conflict", p)
  <2>1. "conflict" \in GenerateStages BY DEF GenerateStages
  <2>2. PICK y \in GenerateState :
          /\ generate' = [generate EXCEPT ![g] = y] /\ y.stage = "conflict" /\ y.at = p
          /\ y.desired = x.desired /\ y.preimage = x.preimage /\ y.written = x.written
    BY <1>1, <1>3, <1>7, <2>1, StepsTo
  <2>3. CallPlanInv(y, intact[g])
    BY <1>3, <2>2 DEF CallPlanInv, PlanInv, ApplyInv, AloneInv, Applying
  <2> QED BY <1>2, <2>2, <2>3, GenerateMoves
<1>8. CASE /\ ~Unneeded(g, p) /\ ~InConflict(p)
           /\ generate' = [generate EXCEPT ![g].preimage[p] = content[p],
                ![g].stage = IF Following(p) = {} THEN "group" ELSE @,
                ![g].at = IF Following(p) = {} THEN FirstOutput ELSE p + 1]
  <2>1. PICK preimage : preimage = [x.preimage EXCEPT ![p] = content[p]] OBVIOUS
  <2>2. PICK at : at = IF Following(p) = {} THEN FirstOutput ELSE p + 1 OBVIOUS
  <2>3. PICK stage : stage = IF Following(p) = {} THEN "group" ELSE "compare" OBVIOUS
  <2>4. PICK y : y = [x EXCEPT !.preimage = preimage, !.stage = stage, !.at = at] OBVIOUS
  <2>5. content[p] \in Texts /\ content[p] # "unplanned" /\ content \in [Outputs -> Texts]
    BY <1>1, <1>3, GenerationAssumption DEF GenerationTyped, Texts
  <2>6. preimage \in [Outputs -> Texts \cup {"unplanned"}] /\ preimage[p] = content[p]
        /\ \A q \in Outputs \ {p} : preimage[q] = x.preimage[q]
    <3>1. x.preimage \in [Outputs -> Texts \cup {"unplanned"}] BY <1>1 DEF GenerateState
    <3> QED BY <1>3, <2>1, <2>5, <3>1
  <2>7. at \in Nat
    BY <1>3, <1>4, <2>2, OutputsCounted
  <2>8. stage \in GenerateStages BY <2>3 DEF GenerateStages
  <2> HIDE DEF GenerateStages, Texts
  <2>9. y \in GenerateState BY <1>1, <2>4, <2>6, <2>7, <2>8 DEF GenerateState
  <2>10. /\ y.stage = stage /\ y.at = at /\ y.preimage = preimage /\ y.desired = x.desired
         /\ y.written = x.written /\ y.alone = x.alone
    BY <1>1, <2>4 DEF GenerateState
  <2>11. generate' = [generate EXCEPT ![g] = y]
    BY <1>1, <1>2, <1>8, <2>1, <2>2, <2>3, <2>4 DEF GenerationTyped, GenerateState
  <2>12. PlanKnown(y, p) /\ y.desired[p] # "present"
    BY <1>8, <2>5, <2>6, <2>10 DEF PlanKnown, Unneeded
  <2>13. p \notin Extension => content[p] # "hand"
    BY <1>8, GenerationAssumption DEF InConflict, UserOwned
  <2> QED BY <1>3, <1>5, <2>2, <2>3, <2>6, <2>9, <2>10, <2>11, <2>12, <2>13
<1> QED BY <1>6, <1>7, <1>8 DEF Compares

LEMMA NextPathTo ==
  ASSUME GenerationTyped, NEW g \in Generators, NEW stage \in GenerateStages,
         NEW next \in GenerateStages, generate[g].at \in Outputs, NextPath(g, stage, next)
  PROVE  \E y \in GenerateState :
            /\ generate' = [generate EXCEPT ![g] = y]
            /\ y.stage = (IF Following(generate[g].at) = {} THEN next ELSE stage)
            /\ y.at = (IF Following(generate[g].at) = {} THEN FirstOutput ELSE generate[g].at + 1)
            /\ y.at \in Outputs
            /\ y.desired = generate[g].desired /\ y.preimage = generate[g].preimage
            /\ y.written = generate[g].written /\ y.overlap = generate[g].overlap
            /\ y.alone = generate[g].alone
<1> DEFINE x == generate[g]  p == x.at
<1>1. FirstOutput \in Outputs /\ (Following(p) # {} => p + 1 \in Outputs)
  BY OutputsCounted
<1>2. CASE Following(p) = {}
  <2>1. Steps(g, next, FirstOutput) BY <1>2 DEF NextPath
  <2>2. PICK y \in GenerateState :
          /\ generate' = [generate EXCEPT ![g] = y] /\ y.stage = next /\ y.at = FirstOutput
          /\ y.desired = x.desired /\ y.preimage = x.preimage /\ y.written = x.written
          /\ y.overlap = x.overlap /\ y.alone = x.alone
    BY <1>1, <2>1, StepsTo
  <2> QED BY <1>1, <1>2, <2>2
<1>3. CASE Following(p) # {}
  <2>1. Steps(g, stage, p + 1) BY <1>3 DEF NextPath
  <2>2. PICK y \in GenerateState :
          /\ generate' = [generate EXCEPT ![g] = y] /\ y.stage = stage /\ y.at = p + 1
          /\ y.desired = x.desired /\ y.preimage = x.preimage /\ y.written = x.written
          /\ y.overlap = x.overlap /\ y.alone = x.alone
    BY <1>1, <1>3, <2>1, StepsTo
  <2> QED BY <1>1, <1>3, <2>2
<1> QED BY <1>2, <1>3

LEMMA ValidatesPreserves ==
  ASSUME GenerationInv, NEW g \in Generators, ValidatesGroup(g) PROVE GenerationInv'
<1> DEFINE x == generate[g]
<1>1. GenerationTyped /\ x \in GenerateState /\ CallPlanInv(x, intact[g])
  BY DEF GenerationInv, GenerationTyped
<1>2. PICK stage \in {"group", "conflict", "reported", "done", "check"} :
          /\ stage = "group" => Following(x.at) # {}
          /\ stage = "done" => \A p \in PlannedPaths(g) : ~Differs(g, p)
          /\ generate' = [generate EXCEPT
                ![g].stage = stage, ![g].at = IF stage = "group" THEN @ + 1 ELSE FirstOutput,
                ![g].found = IF stage = "group" THEN Found(g) ELSE {}]
          /\ intact' = IF stage = "check" THEN [intact EXCEPT ![g] = HeldAsPlanned(g)] ELSE intact
  BY DEF ValidatesGroup
<1>3. x.stage = "group" /\ UNCHANGED <<content, touches>> BY DEF ValidatesGroup
<1>4. /\ x.at \in Outputs /\ x.written = {}
      /\ \A q \in Outputs : x.preimage[q] # "unplanned" => x.desired[q] # "present"
      /\ \A q \in Outputs \ Extension : x.preimage[q] # "hand"
      /\ x.alone => \A q \in Outputs : PlanKnown(x, q)
  BY <1>1, <1>3 DEF CallPlanInv, PlanInv, AloneInv
<1>5. PICK at : at = IF stage = "group" THEN x.at + 1 ELSE FirstOutput OBVIOUS
<1>6. at \in Outputs /\ at \in Nat BY <1>2, <1>4, <1>5, OutputsCounted
<1>7. PICK found : found = IF stage = "group" THEN Found(g) ELSE {} OBVIOUS
<1>8. found \in SUBSET BOOLEAN
  BY <1>1, <1>7 DEF Found, GenerateState
<1>9. stage \in GenerateStages BY DEF GenerateStages, Applying
<1>10. PICK y : y = [x EXCEPT !.stage = stage, !.at = at, !.found = found] OBVIOUS
<1>11. y \in GenerateState BY <1>1, <1>6, <1>8, <1>9, <1>10 DEF GenerateState
<1>12. /\ y.stage = stage /\ y.at = at /\ y.desired = x.desired /\ y.preimage = x.preimage
       /\ y.written = {} /\ y.alone = x.alone
  BY <1>1, <1>4, <1>10 DEF GenerateState
<1>13. generate' = [generate EXCEPT ![g] = y]
  BY <1>1, <1>2, <1>5, <1>7, <1>10 DEF GenerationTyped, GenerateState
<1>14. PlanInv(y) BY <1>4, <1>6, <1>12 DEF PlanInv
<1>15. AloneInv(y)
  <2>1. y.alone => \A q \in Outputs : PlanKnown(y, q)
    BY <1>4, <1>12 DEF PlanKnown
  <2>2. stage = "done" /\ y.alone => \A q \in Outputs : PathComplete(y, q)
    <3> SUFFICES ASSUME stage = "done", y.alone, NEW q \in Outputs PROVE PathComplete(y, q)
      OBVIOUS
    <3>1. x.preimage[q] # "unplanned" => x.preimage[q] = x.desired[q]
      BY <1>2 DEF PlannedPaths, Differs
    <3> QED BY <1>12, <2>1, <3>1 DEF PathComplete, PlanKnown
  <2> QED BY <1>12, <2>1, <2>2 DEF AloneInv
<1>16. CASE stage = "check"
  <2>1. HeldAsPlanned(g) \in SUBSET Outputs /\ intact' = [intact EXCEPT ![g] = HeldAsPlanned(g)]
    BY <1>2, <1>16 DEF HeldAsPlanned
  <2>2. ApplyInv(y, HeldAsPlanned(g))
    <3>1. at = FirstOutput /\ \A q \in Outputs : ~(q < FirstOutput)
      BY <1>5, <1>16, OutputsCounted
    <3>2. \A q \in Outputs : content[q] = y.preimage[q] => q \in HeldAsPlanned(g)
      BY <1>12 DEF HeldAsPlanned
    <3> QED BY <1>12, <1>16, <3>1, <3>2 DEF ApplyInv, PlannedOf
  <2> QED BY <1>3, <1>11, <1>13, <1>14, <1>15, <2>1, <2>2, GenerateStep DEF CallPlanInv
<1>17. CASE stage # "check"
  <2>1. ApplyInv(y, intact[g])
    BY <1>12, <1>17 DEF ApplyInv, Applying
  <2> QED BY <1>2, <1>3, <1>11, <1>13, <1>14, <1>15, <1>17, <2>1, GenerateMoves DEF CallPlanInv
<1> QED BY <1>16, <1>17

LEMMA ChecksPreserves ==
  ASSUME GenerationInv, NEW g \in Generators, ChecksPath(g) PROVE GenerationInv'
<1> DEFINE x == generate[g]  p == x.at
<1>1. GenerationTyped /\ x \in GenerateState /\ CallPlanInv(x, intact[g])
  BY DEF GenerationInv, GenerationTyped
<1>2. x.stage = "check" /\ UNCHANGED <<content, touches, intact>> BY DEF ChecksPath
<1>3. /\ p \in Outputs /\ x.written = {}
      /\ \A q \in Outputs : x.preimage[q] # "unplanned" => x.desired[q] # "present"
      /\ \A q \in Outputs \ Extension : x.preimage[q] # "hand"
      /\ \A q \in Outputs : content[q] = x.preimage[q] => q \in intact[g]
      /\ \A q \in PlannedOf(x) \ Extension : q < p => q \in intact[g]
      /\ x.alone => \A q \in Outputs : PlanKnown(x, q)
  BY <1>1, <1>2 DEF CallPlanInv, PlanInv, ApplyInv, AloneInv, Applying
<1>4. CASE Unmoved(g, p) /\ NextPath(g, "check", "verify")
  <2>1. PICK y \in GenerateState :
            /\ generate' = [generate EXCEPT ![g] = y]
            /\ y.stage = (IF Following(p) = {} THEN "verify" ELSE "check")
            /\ y.at = (IF Following(p) = {} THEN FirstOutput ELSE p + 1)
            /\ y.at \in Outputs
            /\ y.desired = x.desired /\ y.preimage = x.preimage
            /\ y.written = x.written /\ y.alone = x.alone
    <3>1. "check" \in GenerateStages /\ "verify" \in GenerateStages
      BY DEF GenerateStages, Applying
    <3> QED BY <1>1, <1>3, <1>4, <3>1, NextPathTo
  <2>2. PlanInv(y) BY <1>3, <2>1 DEF PlanInv
  <2>3. \A q \in PlannedOf(x) \ Extension : q <= p => q \in intact[g]
    <3> SUFFICES ASSUME NEW q \in PlannedOf(x) \ Extension, q <= p PROVE q \in intact[g]
      OBVIOUS
    <3>1. q \in Outputs BY DEF PlannedOf
    <3>2. CASE q = p
      BY <1>3, <1>4, <3>1, <3>2 DEF Unmoved, Preserved, ManagedPlan, PlannedPaths, PlannedOf
    <3>3. CASE q # p
      <4>1. q < p BY <1>3, <3>1, <3>3, OutputsOrdered
      <4> QED BY <1>3, <4>1
    <3> QED BY <3>2, <3>3
  <2>4. PlannedOf(y) = PlannedOf(x) BY <2>1 DEF PlannedOf
  <2>5. ApplyInv(y, intact[g])
    <3>1. \A q \in PlannedOf(x) : q \in Outputs BY DEF PlannedOf
    <3>2. CASE Following(p) = {}
      <4>1. PlannedOf(x) \ Extension \subseteq intact[g]
        BY <1>3, <2>3, <3>1, <3>2, OutputsCounted
      <4> QED BY <1>3, <2>1, <2>4, <3>2, <4>1 DEF ApplyInv
    <3>3. CASE Following(p) # {}
      <4>1. \A q \in PlannedOf(x) : q < p + 1 => q <= p BY <1>3, <3>1, OutputsOrdered
      <4> QED BY <1>3, <2>1, <2>3, <2>4, <3>3, <4>1 DEF ApplyInv
    <3> QED BY <3>2, <3>3
  <2>6. AloneInv(y)
    <3>1. y.alone => \A q \in Outputs : PlanKnown(y, q) BY <1>3, <2>1 DEF PlanKnown
    <3>2. \A q \in Outputs : ~(q < FirstOutput) BY OutputsCounted
    <3> QED BY <2>1, <3>1, <3>2 DEF AloneInv
  <2> QED BY <1>2, <2>1, <2>2, <2>5, <2>6, GenerateMoves DEF CallPlanInv
<1>5. CASE Steps(g, "conflict", FirstOutput)
  <2>1. "conflict" \in GenerateStages /\ FirstOutput \in Outputs
    BY OutputsCounted DEF GenerateStages
  <2>2. PICK y \in GenerateState :
          /\ generate' = [generate EXCEPT ![g] = y] /\ y.stage = "conflict" /\ y.at = FirstOutput
          /\ y.desired = x.desired /\ y.preimage = x.preimage /\ y.written = x.written
    BY <1>1, <1>5, <2>1, StepsTo
  <2>3. CallPlanInv(y, intact[g])
    BY <1>3, <2>1, <2>2 DEF CallPlanInv, PlanInv, ApplyInv, AloneInv, Applying
  <2> QED BY <1>2, <2>2, <2>3, GenerateMoves
<1> QED BY <1>4, <1>5 DEF ChecksPath

LEMMA VerifiesPreserves ==
  ASSUME GenerationInv, NEW g \in Generators, Verifies(g) \/ StopsHalfway(g) PROVE GenerationInv'
<1> DEFINE x == generate[g]  p == x.at
<1>1. GenerationTyped /\ x \in GenerateState /\ CallPlanInv(x, intact[g])
  BY DEF GenerationInv, GenerationTyped
<1>2. x.stage \in {"verify", "replace"} /\ UNCHANGED <<content, touches, intact>>
  BY DEF Verifies, StopsHalfway
<1>3. /\ p \in Outputs
      /\ \A q \in Outputs : x.preimage[q] # "unplanned" => x.desired[q] # "present"
      /\ \A q \in Outputs \ Extension : x.preimage[q] # "hand"
      /\ \A q \in Outputs : content[q] = x.preimage[q] => q \in intact[g]
      /\ PlannedOf(x) \ Extension \subseteq intact[g]
      /\ x.alone => \A q \in Outputs : IF q < p THEN PathComplete(x, q) ELSE PlanKnown(x, q)
  BY <1>1, <1>2 DEF CallPlanInv, PlanInv, ApplyInv, AloneInv, Applying
<1>4. CASE (p \notin PlannedPaths(g) \/ ~Differs(g, p)) /\ NextPath(g, "verify", "done")
  <2>1. PICK y \in GenerateState :
            /\ generate' = [generate EXCEPT ![g] = y]
            /\ y.stage = (IF Following(p) = {} THEN "done" ELSE "verify")
            /\ y.at = (IF Following(p) = {} THEN FirstOutput ELSE p + 1)
            /\ y.at \in Outputs
            /\ y.desired = x.desired /\ y.preimage = x.preimage
            /\ y.written = x.written /\ y.alone = x.alone
    <3>1. "done" \in GenerateStages /\ "verify" \in GenerateStages
      BY DEF GenerateStages, Applying
    <3> QED BY <1>1, <1>3, <1>4, <3>1, NextPathTo
  <2>2. PlanInv(y) BY <1>3, <2>1 DEF PlanInv
  <2>3. PlannedOf(y) = PlannedOf(x) BY <2>1 DEF PlannedOf
  <2>4. ApplyInv(y, intact[g])
    BY <1>3, <2>1, <2>3 DEF ApplyInv, Applying
  <2>5. y.alone => \A q \in Outputs : IF q <= p THEN PathComplete(y, q) ELSE PlanKnown(y, q)
    <3> SUFFICES ASSUME y.alone, NEW q \in Outputs
                 PROVE  IF q <= p THEN PathComplete(y, q) ELSE PlanKnown(y, q)
      OBVIOUS
    <3>1. IF q < p THEN PathComplete(y, q) ELSE PlanKnown(y, q)
      BY <1>3, <2>1 DEF PathComplete, PlanKnown
    <3>2. CASE q = p
      <4>1. ~(q < p) BY <1>3, <3>2, OutputsCounted
      <4>2. PlanKnown(y, q) BY <3>1, <4>1
      <4>3. x.preimage[q] # "unplanned" => x.preimage[q] = x.desired[q]
        BY <1>3, <1>4, <3>2 DEF PlannedPaths, Differs
      <4>4. PathComplete(y, q) BY <2>1, <4>2, <4>3 DEF PlanKnown, PathComplete
      <4>5. q <= p BY <1>3, <3>2, OutputsCounted
      <4> QED BY <4>4, <4>5
    <3>3. CASE q # p
      <4>1. q < p <=> q <= p BY <1>3, <3>3, OutputsOrdered
      <4> QED BY <3>1, <4>1
    <3> QED BY <3>2, <3>3
  <2>6. AloneInv(y)
    <3>1. Following(p) = {} => \A q \in Outputs : q <= p BY <1>3, OutputsCounted
    <3>2. \A q \in Outputs : q < p + 1 <=> q <= p BY <1>3, OutputsOrdered
    <3> QED BY <2>1, <2>5, <3>1, <3>2 DEF AloneInv
  <2> QED BY <1>2, <2>1, <2>2, <2>4, <2>6, GenerateMoves DEF CallPlanInv
<1>5. CASE /\ p \in PlannedPaths(g) /\ Verified(g, p)
           /\ generate' = [generate EXCEPT ![g].stage = "replace", ![g].overlap = FALSE]
  <2>1. PICK y : y = [x EXCEPT !.stage = "replace", !.overlap = FALSE] OBVIOUS
  <2>2. y \in GenerateState
    BY <1>1, <2>1 DEF GenerateState, GenerateStages, Applying
  <2>3. /\ y.stage = "replace" /\ y.at = p /\ y.desired = x.desired /\ y.preimage = x.preimage
        /\ y.written = x.written /\ y.alone = x.alone
    BY <1>1, <2>1 DEF GenerateState
  <2>4. generate' = [generate EXCEPT ![g] = y]
    BY <1>5, <2>1
  <2>5. PlannedOf(y) = PlannedOf(x) /\ p \in PlannedOf(x)
    BY <1>5, <2>3 DEF PlannedOf, PlannedPaths
  <2>6. p \in Extension \/ content[p] = x.preimage[p]
    BY <1>5 DEF Verified, Recheck, Preserved, ManagedPlan
  <2>7. PlanInv(y) BY <1>3, <2>3 DEF PlanInv
  <2>8. ApplyInv(y, intact[g])
    BY <1>3, <2>3, <2>5, <2>6 DEF ApplyInv, Applying
  <2>9. AloneInv(y) BY <1>3, <2>3 DEF AloneInv, PathComplete, PlanKnown
  <2> QED BY <1>2, <2>2, <2>4, <2>7, <2>8, <2>9, GenerateMoves DEF CallPlanInv
<1>6. ASSUME NEW stage \in {"conflict", "failed"}, NEW q \in Outputs, Steps(g, stage, q)
      PROVE  GenerationInv'
  <2>1. stage \in GenerateStages BY DEF GenerateStages
  <2>2. PICK y \in GenerateState :
          /\ generate' = [generate EXCEPT ![g] = y] /\ y.stage = stage /\ y.at = q
          /\ y.desired = x.desired /\ y.preimage = x.preimage /\ y.written = x.written
    BY <1>1, <1>6, <2>1, StepsTo
  <2>3. PlannedOf(y) = PlannedOf(x) BY <2>2 DEF PlannedOf
  <2>4. CallPlanInv(y, intact[g])
    BY <1>3, <2>2, <2>3 DEF CallPlanInv, PlanInv, ApplyInv, AloneInv, Applying
  <2> QED BY <1>2, <2>2, <2>4, GenerateMoves
<1>7. CASE Verifies(g)
  BY <1>3, <1>4, <1>5, <1>6, <1>7 DEF Verifies
<1>8. CASE StopsHalfway(g)
  <2>1. Steps(g, "failed", FirstOutput) /\ FirstOutput \in Outputs
    BY <1>8, OutputsCounted DEF StopsHalfway
  <2> QED BY <1>6, <2>1
<1> QED BY <1>7, <1>8

-----------------------------------------------------------------------------
\* A path changes hands under a call.
LEMMA InterferenceKept ==
  ASSUME GenerationInv, NEW h \in Generators, NEW p \in Outputs, NEW c \in Texts,
         content' = [content EXCEPT ![p] = c],
         generate'[h] = [generate[h] EXCEPT
                !.alone = FALSE,
                !.overlap = @ \/ (generate[h].stage = "replace" /\ generate[h].at = p)],
         intact'[h] = Holds(p, c)[h]
  PROVE  /\ generate'[h] \in GenerateState /\ intact'[h] \in SUBSET Outputs
         /\ CallPlanInv(generate[h], intact[h])'
<1>1. /\ GenerationTyped /\ generate[h] \in GenerateState /\ intact[h] \in SUBSET Outputs
      /\ CallPlanInv(generate[h], intact[h])
  BY DEF GenerationInv, GenerationTyped
<1>2. PICK x : x = generate[h] OBVIOUS
<1>3. PICK y : y = [x EXCEPT !.alone = FALSE, !.overlap = x.overlap \/ (x.stage = "replace" /\ x.at = p)]
  OBVIOUS
<1>4. y \in GenerateState
  <2>1. (x.overlap \/ (x.stage = "replace" /\ x.at = p)) \in BOOLEAN OBVIOUS
  <2> QED BY <1>1, <1>2, <1>3, <2>1 DEF GenerateState
<1>5. /\ y.stage = x.stage /\ y.at = x.at /\ y.desired = x.desired /\ y.preimage = x.preimage
      /\ y.written = x.written /\ ~y.alone
      /\ y.overlap <=> x.overlap \/ (x.stage = "replace" /\ x.at = p)
  BY <1>1, <1>2, <1>3 DEF GenerateState
<1>6. PICK whole : whole = intact[h] \cup {q \in {p} : x.stage \in Applying /\ x.preimage[p] = c}
  OBVIOUS
<1>7. intact'[h] = whole /\ generate'[h] = y
  BY <1>2, <1>3, <1>6 DEF Holds, Applying
<1>8. content \in [Outputs -> Texts] /\ \A q \in Outputs : content'[q] = (IF q = p THEN c ELSE content[q])
  BY <1>1 DEF GenerationTyped
<1>9. PlannedOf(y) = PlannedOf(x) BY <1>5 DEF PlannedOf
<1>10. PlanInv(x) /\ ApplyInv(x, intact[h]) BY <1>1, <1>2 DEF CallPlanInv
<1>11. PlanInv(y) BY <1>5, <1>10 DEF PlanInv
<1>12. ApplyInv(y, whole)'
  <2>1. y.stage \in Applying => \A q \in Outputs : content'[q] = y.preimage[q] => q \in whole
    BY <1>5, <1>6, <1>8, <1>10 DEF ApplyInv
  <2>2. intact[h] \subseteq whole BY <1>6
  <2>3. y.stage = "check" => \A q \in PlannedOf(y) \ Extension : q < y.at => q \in whole
    BY <1>5, <1>9, <1>10, <2>2 DEF ApplyInv
  <2>4. y.stage \in {"verify", "replace"} \/ y.written # {} => PlannedOf(y) \ Extension \subseteq whole
    BY <1>5, <1>9, <1>10, <2>2 DEF ApplyInv
  <2>5. y.stage = "replace" =>
           /\ y.at \in PlannedOf(y)
           /\ y.overlap \/ y.at \in Extension \/ content'[y.at] = y.preimage[y.at]
    <3>1. PlannedOf(y) \subseteq Outputs BY DEF PlannedOf
    <3> QED BY <1>5, <1>8, <1>9, <1>10, <3>1 DEF ApplyInv
  <2> QED BY <2>1, <2>3, <2>4, <2>5 DEF ApplyInv, PlannedOf
<1>13. whole \in SUBSET Outputs BY <1>1, <1>6
<1>14. AloneInv(y)' BY <1>5 DEF AloneInv
<1>15. PlanInv(generate[h])' BY <1>7, <1>11 DEF PlanInv
<1>16. ApplyInv(generate[h], intact[h])' BY <1>7, <1>12 DEF ApplyInv, PlannedOf
<1>17. AloneInv(generate[h])' BY <1>5, <1>7 DEF AloneInv
<1> QED BY <1>4, <1>7, <1>13, <1>15, <1>16, <1>17 DEF CallPlanInv

LEMMA TouchesPreserves ==
  ASSUME GenerationInv, NEW p \in Outputs, Touches(p) PROVE GenerationInv'
<1>1. GenerationTyped BY DEF GenerationInv
<1>2. PICK c \in Texts : /\ content' = [content EXCEPT ![p] = c]
                         /\ generate' = Interfered(0, p) /\ intact' = Holds(p, c)
  BY DEF Touches
<1>3. ASSUME NEW h \in Generators
      PROVE  /\ generate'[h] \in GenerateState /\ intact'[h] \in SUBSET Outputs
             /\ CallPlanInv(generate[h], intact[h])'
  <2>1. h # 0 BY GenerationAssumption
  <2>2. generate'[h] = [generate[h] EXCEPT
                !.alone = FALSE,
                !.overlap = @ \/ (generate[h].stage = "replace" /\ generate[h].at = p)]
    BY <1>2, <2>1 DEF Interfered
  <2> QED BY <1>2, <2>2, InterferenceKept
<1>4. GenerationTyped'
  <2>1. content' \in [Outputs -> Texts] BY <1>1, <1>2 DEF GenerationTyped
  <2>2. touches' \in 0..MaxTouches BY <1>1, GenerationAssumption DEF GenerationTyped, Touches
  <2>3. generate' \in [Generators -> GenerateState] BY <1>2, <1>3 DEF Interfered
  <2>4. intact' \in [Generators -> SUBSET Outputs] BY <1>2, <1>3 DEF Holds
  <2> QED BY <2>1, <2>2, <2>3, <2>4 DEF GenerationTyped
<1> QED BY <1>3, <1>4 DEF GenerationInv

\* The path at hand is planned, and as the plan says unless others came between.
LEMMA ReplacesFacts ==
  ASSUME GenerationInv, NEW g \in Generators, generate[g].stage = "replace"
  PROVE  /\ generate[g].at \in Outputs /\ generate[g].desired[generate[g].at] \in Texts
         /\ \/ generate[g].overlap \/ generate[g].at \in Extension
            \/ content[generate[g].at] = generate[g].preimage[generate[g].at]
               /\ content[generate[g].at] # "hand"
<1>1. /\ generate[g] \in GenerateState /\ PlanInv(generate[g]) /\ ApplyInv(generate[g], intact[g])
  BY DEF GenerationInv, GenerationTyped, CallPlanInv
<1>2. /\ generate[g].at \in Outputs /\ generate[g].at \in PlannedOf(generate[g])
      /\ generate[g].desired \in [Outputs -> Texts \cup {"present"}]
  BY <1>1 DEF GenerateState, PlanInv, ApplyInv
<1>3. generate[g].desired[generate[g].at] \in Texts
  BY <1>1, <1>2 DEF PlanInv, PlannedOf
<1> QED BY <1>1, <1>2, <1>3 DEF PlanInv, ApplyInv

LEMMA ReplacesPreserves ==
  ASSUME GenerationInv, NEW g \in Generators, Replaces(g) PROVE GenerationInv'
<1> DEFINE x == generate[g]  p == x.at  c == x.desired[p]
<1>1. GenerationTyped /\ x \in GenerateState /\ CallPlanInv(x, intact[g])
  BY DEF GenerationInv, GenerationTyped
<1>2. x.stage = "replace" /\ content' = [content EXCEPT ![p] = c] /\ intact' = Holds(p, c)
      /\ UNCHANGED touches
  BY DEF Replaces
<1>3. p \in Outputs /\ c \in Texts BY <1>2, ReplacesFacts
<1>4. generate' = [Interfered(g, p) EXCEPT ![g].written = @ \cup {p},
            ![g].stage = IF Following(p) = {} THEN "done" ELSE "verify",
            ![g].at = IF Following(p) = {} THEN FirstOutput ELSE p + 1]
  BY DEF Replaces
<1>5. ASSUME NEW h \in Generators \ {g}
      PROVE  /\ generate'[h] \in GenerateState /\ intact'[h] \in SUBSET Outputs
             /\ CallPlanInv(generate[h], intact[h])'
  <2>1. generate'[h] = [generate[h] EXCEPT
                !.alone = FALSE,
                !.overlap = @ \/ (generate[h].stage = "replace" /\ generate[h].at = p)]
    BY <1>4 DEF Interfered
  <2>2. PICK q : q = p OBVIOUS
  <2>3. PICK d : d = c OBVIOUS
  <2> HIDE DEF x, p, c
  <2> QED BY <1>2, <1>3, <2>1, <2>2, <2>3, InterferenceKept
<1>6. PICK y : y = [x EXCEPT !.written = @ \cup {p},
            !.stage = IF Following(p) = {} THEN "done" ELSE "verify",
            !.at = IF Following(p) = {} THEN FirstOutput ELSE p + 1]
  OBVIOUS
<1>7. generate'[g] = y
  BY <1>4, <1>6 DEF Interfered
<1>8. (IF Following(p) = {} THEN FirstOutput ELSE p + 1) \in Outputs
  BY <1>3, OutputsCounted
<1>9. /\ y \in GenerateState /\ y.at \in Outputs
      /\ y.stage = (IF Following(p) = {} THEN "done" ELSE "verify")
      /\ y.at = (IF Following(p) = {} THEN FirstOutput ELSE p + 1)
      /\ y.desired = x.desired /\ y.preimage = x.preimage /\ y.alone = x.alone
  <2>1. (IF Following(p) = {} THEN "done" ELSE "verify") \in GenerateStages
    BY DEF GenerateStages, Applying
  <2>2. (IF Following(p) = {} THEN FirstOutput ELSE p + 1) \in Nat
    BY <1>8, OutputsCounted
  <2>3. x.written \cup {p} \in SUBSET Outputs BY <1>1, <1>3 DEF GenerateState
  <2> HIDE DEF GenerateStages, p
  <2>4. y \in GenerateState BY <1>1, <1>6, <2>1, <2>2, <2>3 DEF GenerateState
  <2> QED BY <1>1, <1>6, <1>8, <2>4 DEF GenerateState
<1>10. PICK whole : whole = intact[g] \cup {q \in {p} : x.preimage[p] = c} OBVIOUS
<1>11. intact'[g] = whole /\ whole \in SUBSET Outputs
  <2>1. intact[g] \in SUBSET Outputs BY <1>1 DEF GenerationTyped
  <2> QED BY <1>2, <1>3, <1>10, <2>1 DEF Holds
<1>12. content \in [Outputs -> Texts] /\ \A q \in Outputs : content'[q] = (IF q = p THEN c ELSE content[q])
  BY <1>1, <1>2 DEF GenerationTyped
<1>13. PlannedOf(y) = PlannedOf(x) BY <1>9 DEF PlannedOf
<1>14. PlanInv(x) /\ ApplyInv(x, intact[g]) /\ AloneInv(x) BY <1>1 DEF CallPlanInv
<1>15. PlanInv(y)
  BY <1>9, <1>14 DEF PlanInv
<1>16. ApplyInv(y, whole)'
  <2>1. \A q \in Outputs : content'[q] = y.preimage[q] => q \in whole
    BY <1>2, <1>9, <1>10, <1>12, <1>14 DEF ApplyInv, Applying
  <2>2. PlannedOf(x) \ Extension \subseteq whole
    BY <1>2, <1>10, <1>14 DEF ApplyInv
  <2>3. y.stage # "check" /\ y.stage # "replace" BY <1>9
  <2> QED BY <1>13, <2>1, <2>2, <2>3 DEF ApplyInv, PlannedOf
<1>17. AloneInv(y)'
  <2>1. ASSUME y.alone, NEW q \in Outputs
        PROVE  IF q <= p THEN PathComplete(y, q)' ELSE PlanKnown(y, q)'
    <3>1. IF q < p THEN PathComplete(x, q) ELSE PlanKnown(x, q)
      BY <1>2, <1>9, <1>14, <2>1 DEF AloneInv
    <3>2. CASE q = p
      <4>1. PathComplete(y, q)' BY <1>3, <1>9, <1>12, <3>2 DEF PathComplete
      <4>2. q <= p BY <1>3, <3>2, OutputsCounted
      <4> QED BY <4>1, <4>2
    <3>3. CASE q # p
      <4>1. q < p <=> q <= p BY <1>3, <3>3, OutputsOrdered
      <4>2. content'[q] = content[q] BY <1>12, <3>3
      <4> QED BY <1>9, <3>1, <4>1, <4>2 DEF PathComplete, PlanKnown
    <3> QED BY <3>2, <3>3
  <2>2. Following(p) = {} => \A q \in Outputs : q <= p BY <1>3, OutputsCounted
  <2>3. \A q \in Outputs : q < p + 1 <=> q <= p BY <1>3, OutputsOrdered
  <2> QED BY <1>9, <2>1, <2>2, <2>3 DEF AloneInv, PathComplete, PlanKnown
<1>18. CallPlanInv(generate[g], intact[g])'
  <2>1. PlanInv(generate[g])' BY <1>7, <1>15 DEF PlanInv
  <2>2. ApplyInv(generate[g], intact[g])' BY <1>7, <1>11, <1>16 DEF ApplyInv, PlannedOf
  <2>3. AloneInv(generate[g])' BY <1>7, <1>17 DEF AloneInv, PlanKnown, PathComplete
  <2> QED BY <2>1, <2>2, <2>3 DEF CallPlanInv
<1>19. GenerationTyped'
  <2>1. content' \in [Outputs -> Texts] BY <1>1, <1>2, <1>3 DEF GenerationTyped
  <2>2. generate' \in [Generators -> GenerateState]
    <3>1. generate' = [h \in Generators |-> generate'[h]] BY <1>4 DEF Interfered
    <3>2. \A h \in Generators : generate'[h] \in GenerateState BY <1>5, <1>7, <1>9
    <3> QED BY <3>1, <3>2
  <2>3. intact' \in [Generators -> SUBSET Outputs]
    BY <1>2, <1>5, <1>11 DEF Holds
  <2> QED BY <1>1, <1>2, <2>1, <2>2, <2>3 DEF GenerationTyped
<1> QED BY <1>5, <1>18, <1>19 DEF GenerationInv

LEMMA GenerationStepPreserves == GenerationInv /\ [GenerationNext]_generationVars => GenerationInv'
<1> SUFFICES ASSUME GenerationInv, [GenerationNext]_generationVars PROVE GenerationInv'
  OBVIOUS
<1>1. CASE UNCHANGED generationVars
  BY <1>1 DEF generationVars, GenerationInv, GenerationTyped, CallPlanInv, PlanInv, ApplyInv,
     AloneInv, PlanKnown, PathComplete, PlannedOf
<1>2. CASE GenerationNext
  BY <1>2, GeneratesPreserves, ComparesPreserves, ValidatesPreserves, ChecksPreserves,
     VerifiesPreserves, ReplacesPreserves, TouchesPreserves DEF GenerationNext
<1> QED BY <1>1, <1>2

LEMMA GenerationInvMeans == GenerationInv => ConflictsWriteNothing /\ SuccessIsComplete
<1> SUFFICES ASSUME GenerationInv, NEW g \in Generators
             PROVE  /\ generate[g].written # {} => ManagedPlan(g) \subseteq intact[g]
                    /\ generate[g].stage = "done" /\ generate[g].alone =>
                         \A p \in Outputs : content[p] = generate[g].desired[p]
                                            \/ generate[g].desired[p] = "present"
  BY DEF ConflictsWriteNothing, SuccessIsComplete
<1>1. ApplyInv(generate[g], intact[g]) /\ AloneInv(generate[g])
  BY DEF GenerationInv, CallPlanInv
<1> QED BY <1>1 DEF ApplyInv, AloneInv, PathComplete, PlannedOf, ManagedPlan, PlannedPaths

\* Only a call about to replace a path changes what it has written.
LEMMA PlannedIsReplaced ==
  GenerationInv /\ [GenerationNext]_generationVars => OnlyPlannedIsReplaced
<1> SUFFICES ASSUME GenerationInv, [GenerationNext]_generationVars, NEW g \in Generators,
                    generate[g].written # generate'[g].written
             PROVE  \/ generate[g].at \in Extension \/ generate[g].overlap
                    \/ content[generate[g].at] = generate[g].preimage[generate[g].at]
                       /\ content[generate[g].at] # "hand"
  BY DEF OnlyPlannedIsReplaced
<1>1. GenerationTyped BY DEF GenerationInv
<1>2. CASE Replaces(g) BY <1>2, ReplacesFacts DEF Replaces
<1>3. ASSUME NEW p, NEW h \in Generators, h # g, Replaces(h) PROVE FALSE
  <2>1. generate'[g] = Interfered(h, generate[h].at)[g] BY <1>3 DEF Replaces, Interfered
  <2>2. generate[g] \in GenerateState BY <1>1 DEF GenerationTyped
  <2> QED BY <1>3, <2>1, <2>2 DEF Interfered, GenerateState
<1>4. ASSUME NEW p \in Outputs, Touches(p) PROVE FALSE
  <2>1. generate'[g] = Interfered(0, p)[g] BY <1>4 DEF Touches
  <2>2. generate[g] \in GenerateState /\ g # 0 BY <1>1, GenerationAssumption DEF GenerationTyped
  <2> QED BY <2>1, <2>2 DEF Interfered, GenerateState
<1>5. ASSUME NEW h \in Generators,
             Compares(h) \/ ValidatesGroup(h) \/ ChecksPath(h) \/ Verifies(h) \/ StopsHalfway(h)
      PROVE  FALSE
  <2>1. generate \in [Generators -> GenerateState] BY <1>1 DEF GenerationTyped
  <2>2. \A stage, q : ~Steps(h, stage, q)
    BY <2>1 DEF Steps, GenerateState
  <2>3. ASSUME Compares(h) PROVE FALSE
    <3> DEFINE p == generate[h].at
    <3>1. generate' = [generate EXCEPT ![h].preimage[p] = content[p],
                ![h].stage = IF Following(p) = {} THEN "group" ELSE @,
                ![h].at = IF Following(p) = {} THEN FirstOutput ELSE p + 1]
      BY <2>2, <2>3 DEF Compares, NextPath
    <3> HIDE DEF p
    <3>2. CASE h = g
      <4>1. generate[g] \in GenerateState BY <2>1
      <4>2. generate'[g].written = generate[g].written
        BY <2>1, <3>1, <3>2, <4>1 DEF GenerateState
      <4> QED BY <4>2
    <3>3. CASE h # g BY <2>1, <3>1, <3>3
    <3> QED BY <3>2, <3>3
  <2>4. ~ValidatesGroup(h) BY <2>1 DEF ValidatesGroup, GenerateState
  <2>5. ~ChecksPath(h) BY <2>2 DEF ChecksPath, NextPath
  <2>6. ASSUME Verifies(h) PROVE FALSE
    <3>1. generate' = [generate EXCEPT ![h].stage = "replace", ![h].overlap = FALSE]
      BY <2>2, <2>6 DEF Verifies, NextPath
    <3> QED BY <2>1, <3>1 DEF GenerateState
  <2> QED BY <1>5, <2>2, <2>3, <2>4, <2>5, <2>6 DEF StopsHalfway
<1>6. ASSUME NEW h \in Generators, Generates(h) PROVE FALSE
  <2>1. generate[g].stage = "idle" => generate[g].written = {}
    BY DEF GenerationInv, CallPlanInv, PlanInv
  <2>2. h = g BY <1>1, <1>6 DEF Generates, GenerationTyped
  <2>3. generate'[g].written = {}
    BY <1>1, <1>6, <2>2, FreshGenerateTyped DEF Generates, GenerationTyped, GenerateState
  <2> QED BY <1>6, <2>1, <2>2, <2>3 DEF Generates
<1> QED BY <1>2, <1>3, <1>4, <1>5, <1>6 DEF GenerationNext, generationVars

-----------------------------------------------------------------------------
(* The development processes.                                              *)

DevProcess == [service : Services \cup {0}, token : Nat, asked : BOOLEAN]
DevCommandState ==
  [does : {"none", "foreground", "detached", "stop"},
   stage : {"idle", "start", "launched", "ready", "stop", "signal", "wait", "watch", "done"},
   next : Int, job : Identity \cup {NoState}, started : Seq(Identity), todo : Seq(Identity),
   watches : SUBSET Identity, told : BOOLEAN]
DevTyped ==
  /\ process \in [Pids -> DevProcess] /\ stateFile \in [Services -> Identity \cup {NoState}]
  /\ lifecycle \in Commands \cup {NoCommand} /\ launches \in 0..MaxLaunches
  /\ command \in [Commands -> DevCommandState]
(* What a command is at is there.                                          *)
AtHand(x) ==
  /\ x.stage \in {"launched", "ready"} => x.job \in Identity
  /\ x.stage \in {"signal", "wait"} => x.todo # <<>>
(* What was just launched has no state file beside it.                     *)
DevInv ==
  /\ DevTyped /\ (\A c \in Commands : AtHand(command[c])) /\ OnlyOursAreSignalled /\ RunningIsKnown
  /\ \A c \in Commands : Held(c, "launched") => stateFile[command[c].job.service] = NoState

Running(p) == [service |-> process[p].service, pid |-> p, token |-> process[p].token]
(* Nothing runs that did not, and no file goes of what does.               *)
FewerRun ==
  \A p \in Pids : process'[p].service # 0 =>
    process'[p].service = process[p].service /\ process'[p].token = process[p].token
FilesOnlyGo ==
  \A s \in Services : stateFile'[s] = stateFile[s] \/ (stateFile'[s] = NoState /\ ~Runs(stateFile[s]))

LEMMA NotIssuedTyped == NotIssued \in DevCommandState /\ NotIssued.stage = "idle"
<1>1. <<>> \in Seq(Identity) OBVIOUS
<1> HIDE DEF Identity
<1> QED BY <1>1 DEF NotIssued, DevCommandState

LEMMA ServicesCounted ==
  /\ Cardinality(Services) \in Services /\ Services \subseteq Int
  /\ \A s \in Services : s <= Cardinality(Services)
<1>1. Cardinality(Services) \in Nat /\ Services = 1..Cardinality(Services) /\ Services # {}
  BY DevAssumption, FS_CardinalityType
<1> QED BY <1>1

LEMMA DevInitially == DevInit => DevInv
<1> SUFFICES ASSUME DevInit PROVE DevInv
  OBVIOUS
<1>1. NotIssued \in DevCommandState /\ NotIssued.stage = "idle" BY NotIssuedTyped
<1>2. NoProcess \in DevProcess BY DEF NoProcess, DevProcess
<1>3. DevTyped
  BY <1>1, <1>2, DevAssumption DEF DevInit, DevTyped
<1>4. \A c \in Commands : command[c] = NotIssued BY DEF DevInit
<1>5. \A p \in Pids : process[p].service = 0 BY DEF DevInit, NoProcess
<1> QED BY <1>1, <1>3, <1>4, <1>5
     DEF DevInv, DevInit, AtHand, OnlyOursAreSignalled, RunningIsKnown, Held

-----------------------------------------------------------------------------
\* A step after which nothing runs that did not, and no file goes of what does.
LEMMA DevStep ==
  ASSUME DevInv, process' \in [Pids -> DevProcess], FewerRun,
         stateFile' \in [Services -> Identity \cup {NoState}], FilesOnlyGo,
         lifecycle' \in Commands \cup {NoCommand}, launches' \in 0..MaxLaunches,
         command' \in [Commands -> DevCommandState],
         \A c \in Commands : AtHand(command[c])', UNCHANGED strangers, lost \subseteq lost',
         \A c \in Commands : Held(c, "launched")' =>
            Held(c, "launched") /\ command'[c].job = command[c].job,
         \A c \in Commands : Held(c, "launched") =>
            \/ Held(c, "launched")' /\ command'[c].job = command[c].job
            \/ command[c].job.token \in lost'
            \/ \A p \in Pids : process'[p].service # 0 => Running(p) # command[c].job
  PROVE  DevInv' /\ RunningStaysRecorded
<1>1. DevTyped /\ RunningIsKnown BY DEF DevInv
<1>2. DevTyped' BY DEF DevTyped
<1>3. RunningIsKnown'
  <2> SUFFICES ASSUME NEW p \in Pids, process'[p].service # 0
               PROVE  LET id == [service |-> process'[p].service, pid |-> p, token |-> process'[p].token] IN
                      \/ stateFile'[id.service] = id \/ id.token \in lost'
                      \/ \E c \in Commands : Held(c, "launched")' /\ command'[c].job = id
    BY DEF RunningIsKnown
  <2>1. /\ process'[p].service = process[p].service /\ process'[p].token = process[p].token
        /\ process[p].service \in Services
    BY <1>1 DEF FewerRun, DevTyped, DevProcess
  <2>2. PICK id : id = Running(p) OBVIOUS
  <2>3. id = [service |-> process'[p].service, pid |-> p, token |-> process'[p].token]
        /\ id.service = process[p].service /\ id.pid = p /\ id.token = process[p].token
    BY <2>1, <2>2 DEF Running
  <2>4. Runs(id) BY <2>3 DEF Runs
  <2>5. \/ stateFile[id.service] = id \/ id.token \in lost
        \/ \E c \in Commands : Held(c, "launched") /\ command[c].job = id
    BY <1>1, <2>1, <2>2 DEF RunningIsKnown, Running
  <2>6. CASE stateFile[id.service] = id
    <3>1. id.service \in Services BY <2>1, <2>3
    <3> QED BY <2>3, <2>4, <2>6, <3>1 DEF FilesOnlyGo
  <2>7. CASE id.token \in lost BY <2>3, <2>7
  <2>8. ASSUME NEW c \in Commands, Held(c, "launched"), command[c].job = id
        PROVE  id.token \in lost' \/ (Held(c, "launched")' /\ command'[c].job = id)
    BY <2>2, <2>8
  <2> QED BY <2>3, <2>5, <2>6, <2>7, <2>8
<1>4. ASSUME NEW c \in Commands, Held(c, "launched")'
      PROVE  stateFile'[command'[c].job.service] = NoState
  <2>1. Held(c, "launched") /\ command'[c].job = command[c].job BY <1>4
  <2>2. stateFile[command[c].job.service] = NoState BY <2>1 DEF DevInv
  <2>3. command[c].job \in Identity BY <2>1 DEF DevInv, AtHand, Held
  <2> QED BY <2>1, <2>2, <2>3 DEF FilesOnlyGo, Identity
<1>5. RunningStaysRecorded BY DEF RunningStaysRecorded, FilesOnlyGo
<1>6. OnlyOursAreSignalled' BY DEF DevInv, OnlyOursAreSignalled
<1>7. \A c \in Commands : Held(c, "launched")' => (stateFile[command[c].job.service] = NoState)'
  BY <1>4
<1> QED BY <1>2, <1>3, <1>5, <1>6, <1>7 DEF DevInv

\* The step of one command, that has nothing just launched after it.
LEMMA OneCommand ==
  ASSUME DevInv, NEW c \in Commands, NEW x \in DevCommandState, AtHand(x),
         command' = [command EXCEPT ![c] = x], x.stage # "launched",
         process' \in [Pids -> DevProcess], FewerRun,
         stateFile' \in [Services -> Identity \cup {NoState}], FilesOnlyGo,
         UNCHANGED <<launches, strangers>>, lost \subseteq lost',
         \/ UNCHANGED lifecycle
         \/ lifecycle \in {c, NoCommand} /\ lifecycle' \in {c, NoCommand},
         Held(c, "launched") =>
            \/ command[c].job.token \in lost'
            \/ \A p \in Pids : process'[p].service # 0 => Running(p) # command[c].job
  PROVE  DevInv' /\ RunningStaysRecorded
<1>1. DevTyped BY DEF DevInv
<1>2. /\ command' \in [Commands -> DevCommandState] /\ command'[c] = x
      /\ \A d \in Commands \ {c} : command'[d] = command[d]
  BY <1>1 DEF DevTyped
<1>3. \A d \in Commands : AtHand(command[d])'
  BY <1>2 DEF DevInv, AtHand
<1>4. launches' \in 0..MaxLaunches BY <1>1 DEF DevTyped
<1>5. lifecycle' \in Commands \cup {NoCommand} BY <1>1 DEF DevTyped
<1>6. \A d \in Commands \ {c} : lifecycle = d <=> lifecycle' = d
  BY DevAssumption DEF NoCommand
<1>7. \A d \in Commands : Held(d, "launched")' =>
            Held(d, "launched") /\ command'[d].job = command[d].job
  BY <1>2, <1>6 DEF Held
<1>8. \A d \in Commands \ {c} : Held(d, "launched") =>
            Held(d, "launched")' /\ command'[d].job = command[d].job
  BY <1>2, <1>6 DEF Held
<1> QED BY <1>2, <1>3, <1>4, <1>5, <1>7, <1>8, DevStep

LEMMA RemovesGone ==
  ASSUME DevInv, NEW id, Gone(id) \/ ~Runs(id), Removes(id)
  PROVE  stateFile' \in [Services -> Identity \cup {NoState}] /\ FilesOnlyGo
<1>1. stateFile \in [Services -> Identity \cup {NoState}] BY DEF DevInv, DevTyped
<1>2. CASE ~Matches(id) BY <1>1, <1>2 DEF Removes, FilesOnlyGo
<1>3. CASE Matches(id)
  <2>1. stateFile' = [stateFile EXCEPT ![id.service] = NoState] BY <1>3 DEF Removes
  <2>2. stateFile' \in [Services -> Identity \cup {NoState}] BY <1>1, <2>1
  <2>3. ASSUME NEW s \in Services, stateFile'[s] # stateFile[s]
        PROVE  stateFile'[s] = NoState /\ ~Runs(stateFile[s])
    <3>1. s = id.service /\ stateFile'[s] = NoState /\ stateFile[s] = id
      BY <1>1, <1>3, <2>1, <2>3 DEF Matches
    <3>2. id \in Identity BY <1>1, <2>3, <3>1
    <3>3. id.token # 0 BY <3>2, DevAssumption DEF Identity
    <3> QED BY <3>1, <3>3 DEF Gone, Runs
  <2> QED BY <2>2, <2>3 DEF FilesOnlyGo
<1> QED BY <1>2, <1>3

LEMMA SameFiles ==
  ASSUME DevInv, UNCHANGED stateFile
  PROVE  stateFile' \in [Services -> Identity \cup {NoState}] /\ FilesOnlyGo
BY DEF DevInv, DevTyped, FilesOnlyGo

LEMMA SameProcesses ==
  ASSUME DevInv, UNCHANGED process PROVE process' \in [Pids -> DevProcess] /\ FewerRun
BY DEF DevInv, DevTyped, FewerRun

LEMMA KillingEnds ==
  ASSUME DevInv, NEW id, Killing(id)
  PROVE  /\ process' \in [Pids -> DevProcess] /\ FewerRun
         /\ \A p \in Pids : process'[p].service # 0 => Running(p)' # id
<1>1. process \in [Pids -> DevProcess] /\ NoProcess \in DevProcess /\ NoProcess.service = 0
  BY DEF DevInv, DevTyped, NoProcess, DevProcess
<1>2. CASE Runs(id)
  <2>1. process' = [process EXCEPT ![id.pid] = NoProcess] BY <1>2 DEF Killing
  <2>2. process' \in [Pids -> DevProcess] /\ \A p \in Pids : process'[p] = process[p] \/ (p = id.pid /\ process'[p] = NoProcess)
    BY <1>1, <2>1
  <2>3. \A p \in Pids : process'[p].service # 0 => p # id.pid BY <1>1, <2>1, <2>2
  <2> QED BY <1>1, <2>2, <2>3 DEF FewerRun, Running
<1>3. CASE ~Runs(id)
  <2>1. process' = process BY <1>3 DEF Killing
  <2>2. \A p \in Pids : Running(p)' # id
    BY <1>3, <2>1 DEF Running, Runs
  <2> QED BY <1>1, <2>1, <2>2 DEF FewerRun
<1> QED BY <1>2, <1>3

\* What a command goes on to.
LEMMA StoppingTyped ==
  ASSUME DevInv, NEW c \in Commands, NEW list \in Seq(Identity), Stopping(c, list)
  PROVE  \E x \in DevCommandState : /\ command' = [command EXCEPT ![c] = x] /\ AtHand(x)
                                    /\ x.stage = "stop"
<1>1. command[c] \in DevCommandState BY DEF DevInv, DevTyped
<1>2. PICK x : x = [command[c] EXCEPT !.stage = "stop", !.todo = list, !.job = NoState] OBVIOUS
<1>3. x \in DevCommandState /\ x.stage = "stop" BY <1>1, <1>2 DEF DevCommandState
<1>4. command' = [command EXCEPT ![c] = x] BY <1>2 DEF Stopping, Set
<1> QED BY <1>3, <1>4 DEF AtHand

LEMMA EndsTyped ==
  ASSUME NEW c \in Commands, CommandEnds(c)
  PROVE  \E x \in DevCommandState : /\ command' = [command EXCEPT ![c] = x] /\ AtHand(x)
                                    /\ x.stage = "done"
<1>1. PICK x : x = [NotIssued EXCEPT !.stage = "done"] OBVIOUS
<1>3. x \in DevCommandState /\ x.stage = "done" BY <1>1, NotIssuedTyped DEF DevCommandState
<1>4. command' = [command EXCEPT ![c] = x] BY <1>1 DEF CommandEnds
<1> QED BY <1>3, <1>4 DEF AtHand

LEMMA IssuePreserves ==
  ASSUME DevInv, NEW c \in Commands, NEW does \in {"foreground", "detached", "stop"},
         IssueCommand(c, does)
  PROVE  DevInv' /\ RunningStaysRecorded
<1>1. PICK x : x = (IF does = "stop" THEN [NotIssued EXCEPT !.does = does, !.stage = "stop", !.next = Last]
              ELSE [NotIssued EXCEPT !.does = does, !.stage = "start"])
  OBVIOUS
<1>2. Last \in Int BY ServicesCounted DEF Last
<1>3. NotIssued \in DevCommandState BY NotIssuedTyped
<1>4. x \in DevCommandState /\ x.stage \in {"stop", "start"}
  <2>1. CASE does = "stop" BY <1>1, <1>2, <1>3, <2>1 DEF DevCommandState
  <2>2. CASE does # "stop" BY <1>1, <1>3, <2>2 DEF DevCommandState
  <2> QED BY <2>1, <2>2
<1>5. command' = [command EXCEPT ![c] = x] /\ lifecycle = NoCommand /\ lifecycle' = c
      /\ UNCHANGED <<process, stateFile, launches, mishaps, strangers, lost>>
  BY <1>1 DEF IssueCommand, Set
<1>6. ~Held(c, "launched") BY <1>5, DevAssumption DEF Held, NoCommand
<1>7. AtHand(x) /\ x.stage # "launched" BY <1>4 DEF AtHand
<1> QED BY <1>4, <1>5, <1>6, <1>7, SameFiles, SameProcesses, OneCommand

LEMMA StartPreserves ==
  ASSUME DevInv, NEW c \in Commands, Recorded(c) \/ Refuses(c) \/ Started(c)
  PROVE  DevInv' /\ RunningStaysRecorded
<1>1. /\ command[c] \in DevCommandState /\ command[c].started \in Seq(Identity)
      /\ command \in [Commands -> DevCommandState]
  BY DEF DevInv, DevTyped, DevCommandState
<1>2. lifecycle = c /\ command[c].stage = "start" /\ ~Held(c, "launched")
      /\ UNCHANGED <<process, launches, strangers, lost>>
  BY DEF Recorded, Refuses, Started, Held
<1>3. Services \subseteq Int BY ServicesCounted
\* The command goes on, or stops what it started.
<1>4. ASSUME NEW x \in DevCommandState, AtHand(x), command' = [command EXCEPT ![c] = x],
             x.stage # "launched", lifecycle' \in {c, NoCommand},
             stateFile' \in [Services -> Identity \cup {NoState}], FilesOnlyGo
      PROVE  DevInv' /\ RunningStaysRecorded
  BY <1>2, <1>4, SameProcesses, OneCommand
<1>5. ASSUME Stopping(c, command[c].started), UNCHANGED <<stateFile, lifecycle>>
      PROVE  DevInv' /\ RunningStaysRecorded
  <2>1. PICK x \in DevCommandState : command' = [command EXCEPT ![c] = x] /\ AtHand(x) /\ x.stage = "stop"
    BY <1>1, <1>5, StoppingTyped
  <2> QED BY <1>2, <1>4, <1>5, <2>1, SameFiles
<1>6. CASE Recorded(c)
  <2>1. PICK s, id : /\ s = command[c].next /\ id = stateFile[s] /\ s \in Services /\ UNCHANGED lifecycle
                     /\ \/ Gone(id) /\ Removes(id) /\ UNCHANGED command
                        \/ Set(c, [command[c] EXCEPT !.next = s + 1]) /\ UNCHANGED stateFile
                        \/ Stopping(c, command[c].started) /\ UNCHANGED stateFile
    BY <1>6 DEF Recorded
  <2>2. CASE Gone(id) /\ Removes(id) /\ UNCHANGED command
    <3>1. command' = [command EXCEPT ![c] = command[c]] /\ AtHand(command[c])
      BY <1>1, <2>2 DEF DevInv
    <3> QED BY <1>1, <1>2, <1>4, <2>1, <2>2, <3>1, RemovesGone
  <2>3. CASE Set(c, [command[c] EXCEPT !.next = s + 1]) /\ UNCHANGED stateFile
    <3>1. PICK x : x = [command[c] EXCEPT !.next = s + 1] OBVIOUS
    <3>2. x \in DevCommandState /\ x.stage = "start"
      <4>1. s + 1 \in Int BY <1>3, <2>1
      <4> QED BY <1>1, <1>2, <3>1, <4>1 DEF DevCommandState
    <3>3. AtHand(x) BY <3>2 DEF AtHand
    <3>4. command' = [command EXCEPT ![c] = x] BY <2>3, <3>1 DEF Set
    <3> QED BY <1>2, <1>4, <2>1, <2>3, <3>2, <3>3, <3>4, SameFiles
  <2> QED BY <1>5, <2>1, <2>2, <2>3
<1>7. CASE Refuses(c) BY <1>5, <1>7 DEF Refuses
<1>8. CASE Started(c)
  <2>1. lifecycle' = NoCommand /\ UNCHANGED stateFile BY <1>8 DEF Started
  <2>2. CASE CommandEnds(c)
    <3>1. PICK x \in DevCommandState : command' = [command EXCEPT ![c] = x] /\ AtHand(x) /\ x.stage = "done"
      BY <2>2, EndsTyped
    <3> QED BY <1>4, <2>1, <3>1, SameFiles
  <2>3. CASE Set(c, [command[c] EXCEPT !.stage = "watch",
                       !.watches = {command[c].started[i] : i \in DOMAIN command[c].started}])
    <3>1. PICK watches : watches = {command[c].started[i] : i \in DOMAIN command[c].started} OBVIOUS
    <3>2. watches \in SUBSET Identity BY <1>1, <3>1
    <3>3. PICK x : x = [command[c] EXCEPT !.stage = "watch", !.watches = watches] OBVIOUS
    <3>4. x \in DevCommandState /\ x.stage = "watch"
      BY <1>1, <3>2, <3>3 DEF DevCommandState
    <3>5. AtHand(x) BY <3>4 DEF AtHand
    <3>6. command' = [command EXCEPT ![c] = x] BY <2>3, <3>1, <3>3 DEF Set
    <3> QED BY <1>4, <2>1, <3>4, <3>5, <3>6, SameFiles
  <2> QED BY <1>8, <2>2, <2>3 DEF Started
<1> QED BY <1>6, <1>7, <1>8

\* Exactly what was launched runs besides what did, and it is at hand.
LEMMA LaunchPreserves ==
  ASSUME DevInv, NEW c \in Commands, NEW p \in Pids, Launch(c, p)
  PROVE  DevInv' /\ RunningStaysRecorded
<1>1. DevTyped /\ RunningIsKnown /\ command[c] \in DevCommandState BY DEF DevInv, DevTyped
<1>2. PICK s : s = command[c].next OBVIOUS
<1>3. /\ lifecycle = c /\ command[c].stage = "start" /\ s \in Services /\ stateFile[s] = NoState
      /\ launches < MaxLaunches /\ launches' = launches + 1
      /\ process' = [process EXCEPT ![p] = [service |-> s, token |-> launches', asked |-> FALSE]]
      /\ Set(c, [command[c] EXCEPT !.stage = "launched",
                                 !.job = [service |-> s, pid |-> p, token |-> launches']])
      /\ UNCHANGED <<stateFile, lifecycle, mishaps, strangers, lost>>
  BY <1>2 DEF Launch, Held
<1>4. PICK n : n = launches + 1 OBVIOUS
<1>5. launches' = n /\ n \in 1..MaxLaunches /\ n \in Nat
  BY <1>1, <1>3, <1>4, DevAssumption DEF DevTyped
<1>6. PICK job : job = [service |-> s, pid |-> p, token |-> n] OBVIOUS
<1>7. job \in Identity /\ job.service = s /\ job.pid = p /\ job.token = n
  BY <1>3, <1>5, <1>6 DEF Identity
<1>8. PICK x : x = [command[c] EXCEPT !.stage = "launched", !.job = job] OBVIOUS
<1>9. x \in DevCommandState /\ x.stage = "launched" /\ x.job = job
  <2> HIDE DEF Identity
  <2> QED BY <1>1, <1>7, <1>8 DEF DevCommandState
<1>10. command' = [command EXCEPT ![c] = x] BY <1>3, <1>5, <1>6, <1>8 DEF Set
<1>11. /\ command' \in [Commands -> DevCommandState] /\ command'[c] = x
       /\ \A d \in Commands \ {c} : command'[d] = command[d]
  BY <1>1, <1>9, <1>10 DEF DevTyped
<1>12. PICK r : r = [service |-> s, token |-> n, asked |-> FALSE] OBVIOUS
<1>13. r \in DevProcess /\ r.service = s /\ r.token = n BY <1>3, <1>5, <1>12 DEF DevProcess
<1>14. /\ process' \in [Pids -> DevProcess] /\ process'[p] = r
       /\ \A q \in Pids \ {p} : process'[q] = process[q]
  BY <1>1, <1>3, <1>5, <1>12, <1>13 DEF DevTyped
<1>15. DevTyped'
  BY <1>1, <1>3, <1>5, <1>11, <1>14 DEF DevTyped
<1>16. \A d \in Commands : AtHand(command[d])'
  BY <1>7, <1>9, <1>11 DEF DevInv, AtHand
<1>17. RunningIsKnown'
  <2> SUFFICES ASSUME NEW q \in Pids, process'[q].service # 0
               PROVE  LET id == [service |-> process'[q].service, pid |-> q, token |-> process'[q].token] IN
                      \/ stateFile'[id.service] = id \/ id.token \in lost'
                      \/ \E d \in Commands : Held(d, "launched")' /\ command'[d].job = id
    BY DEF RunningIsKnown
  <2>1. CASE q = p
    <3>1. Held(c, "launched")' /\ command'[c].job = [service |-> process'[q].service, pid |-> q, token |-> process'[q].token]
      BY <1>3, <1>6, <1>9, <1>11, <1>13, <1>14, <2>1 DEF Held
    <3> QED BY <3>1
  <2>2. CASE q # p
    <3>1. process'[q] = process[q] BY <1>14, <2>2
    <3>2. ~\E d \in Commands : Held(d, "launched") BY <1>3 DEF Held
    <3> QED BY <1>1, <1>3, <3>1, <3>2 DEF RunningIsKnown
  <2> QED BY <2>1, <2>2
<1>18. ASSUME NEW d \in Commands, Held(d, "launched")'
       PROVE  (stateFile[command[d].job.service] = NoState)'
  <2>1. d = c BY <1>3, <1>18 DEF Held
  <2> QED BY <1>3, <1>7, <1>9, <1>11, <2>1
<1>19. OnlyOursAreSignalled' BY <1>3 DEF DevInv, OnlyOursAreSignalled
<1>20. RunningStaysRecorded BY <1>3 DEF RunningStaysRecorded
<1> QED BY <1>15, <1>16, <1>17, <1>18, <1>19, <1>20 DEF DevInv

LEMMA WritesPreserves ==
  ASSUME DevInv, NEW c \in Commands, WriteState(c) PROVE DevInv' /\ RunningStaysRecorded
<1>1. /\ DevTyped /\ RunningIsKnown /\ command[c] \in DevCommandState
      /\ command[c].started \in Seq(Identity)
  BY DEF DevInv, DevTyped, DevCommandState
<1>2. PICK id : id = command[c].job OBVIOUS
<1>3. /\ Held(c, "launched") /\ lifecycle = c /\ command[c].stage = "launched"
      /\ UNCHANGED <<lifecycle, launches, strangers, lost>>
  BY DEF WriteState, Held
<1>4. id \in Identity /\ id.service \in Services /\ stateFile[id.service] = NoState
  BY <1>2, <1>3 DEF DevInv, AtHand, Identity
<1>5. CASE /\ stateFile' = [stateFile EXCEPT ![id.service] = id] /\ UNCHANGED process
           /\ Set(c, [command[c] EXCEPT !.stage = "ready"])
  <2>1. PICK x : x = [command[c] EXCEPT !.stage = "ready"] OBVIOUS
  <2>2. x \in DevCommandState /\ x.stage = "ready" /\ x.job = id
    BY <1>1, <1>2, <2>1 DEF DevCommandState
  <2>3. /\ command' \in [Commands -> DevCommandState] /\ command'[c] = x
        /\ \A d \in Commands \ {c} : command'[d] = command[d]
    BY <1>1, <1>5, <2>1, <2>2 DEF DevTyped, Set
  <2>4. /\ stateFile' \in [Services -> Identity \cup {NoState}] /\ stateFile'[id.service] = id
        /\ \A s \in Services \ {id.service} : stateFile'[s] = stateFile[s]
    BY <1>1, <1>4, <1>5 DEF DevTyped
  <2>5. DevTyped' BY <1>1, <1>3, <1>5, <2>3, <2>4 DEF DevTyped
  <2>6. \A d \in Commands : AtHand(command[d])'
    BY <1>4, <2>2, <2>3 DEF DevInv, AtHand
  <2>7. RunningIsKnown'
    <3> SUFFICES ASSUME NEW q \in Pids, process[q].service # 0
                 PROVE  LET i == [service |-> process[q].service, pid |-> q, token |-> process[q].token] IN
                        stateFile'[i.service] = i \/ i.token \in lost
      BY <1>3, <1>5 DEF RunningIsKnown
    <3>1. PICK i : i = [service |-> process[q].service, pid |-> q, token |-> process[q].token] OBVIOUS
    <3>2. i.service = process[q].service /\ i.service \in Services /\ i.service # 0
      BY <1>1, <3>1 DEF DevTyped, DevProcess
    <3>3. \/ stateFile[i.service] = i \/ i.token \in lost
          \/ \E d \in Commands : Held(d, "launched") /\ command[d].job = i
      BY <1>1, <3>1 DEF RunningIsKnown
    <3>4. ASSUME NEW d \in Commands, Held(d, "launched"), command[d].job = i PROVE i = id
      BY <1>2, <1>3, <3>4 DEF Held
    <3>5. CASE i = id BY <2>4, <3>1, <3>5
    <3>6. CASE stateFile[i.service] = i
      <4>1. i # NoState BY <3>2 DEF NoState
      <4>2. i.service # id.service BY <1>4, <3>6, <4>1
      <4> QED BY <2>4, <3>1, <3>2, <3>6, <4>2
    <3> QED BY <3>1, <3>3, <3>4, <3>5, <3>6
  <2>8. ASSUME NEW d \in Commands PROVE ~Held(d, "launched")'
    BY <1>3, <2>2, <2>3 DEF Held
  <2>9. OnlyOursAreSignalled' BY <1>3 DEF DevInv, OnlyOursAreSignalled
  <2>10. RunningStaysRecorded
    <3> SUFFICES ASSUME NEW s \in Services, stateFile[s] # NoState, stateFile'[s] # stateFile[s]
                 PROVE  FALSE
      BY DEF RunningStaysRecorded
    <3> QED BY <1>4, <2>4
  <2> QED BY <2>5, <2>6, <2>7, <2>8, <2>9, <2>10 DEF DevInv
<1>6. CASE Killing(id) /\ UNCHANGED stateFile /\ Stopping(c, command[c].started)
  <2>1. PICK x \in DevCommandState : command' = [command EXCEPT ![c] = x] /\ AtHand(x) /\ x.stage = "stop"
    BY <1>1, <1>6, StoppingTyped
  <2>2. /\ process' \in [Pids -> DevProcess] /\ FewerRun
        /\ \A p \in Pids : process'[p].service # 0 => Running(p)' # id
    BY <1>6, KillingEnds
  <2>3. \A p \in Pids : process'[p].service # 0 => Running(p) # id
    BY <2>2 DEF FewerRun, Running
  <2> QED BY <1>2, <1>3, <1>6, <2>1, <2>2, <2>3, SameFiles, OneCommand
<1> QED BY <1>2, <1>5, <1>6 DEF WriteState

LEMMA ReadyPreserves ==
  ASSUME DevInv, NEW c \in Commands, Ready(c) PROVE DevInv' /\ RunningStaysRecorded
<1>1. /\ command[c] \in DevCommandState /\ command[c].started \in Seq(Identity)
  BY DEF DevInv, DevTyped, DevCommandState
<1>2. PICK id : id = command[c].job OBVIOUS
<1>3. /\ command[c].stage = "ready" /\ ~Held(c, "launched")
      /\ UNCHANGED <<process, stateFile, lifecycle, launches, strangers, lost>>
  BY DEF Ready, Held
<1>4. id \in Identity /\ id.service + 1 \in Int
  <2>1. id \in Identity BY <1>2, <1>3 DEF DevInv, AtHand
  <2>2. id.service \in Services BY <2>1 DEF Identity
  <2>3. id.service \in Int BY <2>2, ServicesCounted
  <2> QED BY <2>1, <2>3
<1>5. ASSUME NEW x \in DevCommandState, AtHand(x), command' = [command EXCEPT ![c] = x],
             x.stage # "launched"
      PROVE  DevInv' /\ RunningStaysRecorded
  BY <1>3, <1>5, SameProcesses, SameFiles, OneCommand
<1>6. CASE Set(c, [command[c] EXCEPT !.stage = "start", !.next = id.service + 1, !.job = NoState,
                                       !.started = Append(@, id)])
  <2>1. Append(command[c].started, id) \in Seq(Identity) BY <1>1, <1>4
  <2>2. PICK x : x = [command[c] EXCEPT !.stage = "start", !.next = id.service + 1, !.job = NoState,
                                       !.started = Append(command[c].started, id)]
    OBVIOUS
  <2>3. x \in DevCommandState /\ x.stage = "start"
    BY <1>1, <1>4, <2>1, <2>2 DEF DevCommandState
  <2>4. command' = [command EXCEPT ![c] = x]
    BY <1>6, <2>2 DEF Set
  <2> QED BY <1>5, <2>3, <2>4 DEF AtHand
<1>7. CASE Stopping(c, <<id>> \o command[c].started)
  <2>1. <<id>> \o command[c].started \in Seq(Identity) BY <1>1, <1>4
  <2>2. PICK x \in DevCommandState : command' = [command EXCEPT ![c] = x] /\ AtHand(x) /\ x.stage = "stop"
    BY <1>7, <2>1, StoppingTyped
  <2> QED BY <1>5, <2>2
<1> QED BY <1>2, <1>6, <1>7 DEF Ready

LEMMA WatchPreserves ==
  ASSUME DevInv, NEW c \in Commands, WatchEnds(c) \/ \E id \in command[c].watches : WatchExit(c, id)
  PROVE  DevInv' /\ RunningStaysRecorded
<1>1. /\ command[c] \in DevCommandState /\ command[c].started \in Seq(Identity)
  BY DEF DevInv, DevTyped, DevCommandState
<1>2. /\ command[c].stage = "watch" /\ ~Held(c, "launched")
      /\ UNCHANGED <<process, launches, strangers, lost>>
  BY DEF WatchEnds, WatchExit, Held
<1>3. ASSUME NEW id \in command[c].watches, WatchExit(c, id) PROVE DevInv' /\ RunningStaysRecorded
  <2>1. PICK x : x = [command[c] EXCEPT !.watches = @ \ {id}, !.told = TRUE] OBVIOUS
  <2>2. x \in DevCommandState /\ x.stage = "watch"
    BY <1>1, <1>2, <2>1 DEF DevCommandState
  <2>3. command' = [command EXCEPT ![c] = x] /\ UNCHANGED lifecycle
    BY <1>3, <2>1 DEF WatchExit
  <2>4. stateFile' \in [Services -> Identity \cup {NoState}] /\ FilesOnlyGo
    BY <1>3, RemovesGone, SameFiles DEF WatchExit
  <2>5. AtHand(x) BY <2>2 DEF AtHand
  <2> QED BY <1>2, <2>2, <2>3, <2>4, <2>5, SameProcesses, OneCommand
<1>4. CASE WatchEnds(c)
  <2>1. PICK x \in DevCommandState : command' = [command EXCEPT ![c] = x] /\ AtHand(x) /\ x.stage = "stop"
    BY <1>1, <1>4, StoppingTyped DEF WatchEnds
  <2>2. lifecycle = NoCommand /\ lifecycle' = c /\ UNCHANGED stateFile BY <1>4 DEF WatchEnds
  <2> QED BY <1>2, <2>1, <2>2, SameProcesses, SameFiles, OneCommand
<1> QED BY <1>3, <1>4

LEMMA StoppedTyped ==
  ASSUME DevInv, NEW c \in Commands, command[c].todo # <<>>, Set(c, Stopped(c))
  PROVE  \E x \in DevCommandState : /\ command' = [command EXCEPT ![c] = x] /\ AtHand(x)
                                    /\ x.stage = "stop"
<1>1. command[c] \in DevCommandState /\ command[c].todo \in Seq(Identity)
  BY DEF DevInv, DevTyped, DevCommandState
<1>2. Tail(command[c].todo) \in Seq(Identity) BY <1>1
<1>3. PICK x : x = [command[c] EXCEPT !.stage = "stop", !.todo = Tail(command[c].todo)] OBVIOUS
<1>4. x \in DevCommandState /\ x.stage = "stop" BY <1>1, <1>2, <1>3 DEF DevCommandState
<1>5. command' = [command EXCEPT ![c] = x] BY <1>3 DEF Set, Stopped
<1> QED BY <1>4, <1>5 DEF AtHand

LEMMA StopPreserves ==
  ASSUME DevInv, NEW c \in Commands,
         StopNext(c) \/ StopEnds(c) \/ Inspect(c) \/ Signal(c) \/ StopTimesOut(c)
  PROVE  DevInv' /\ RunningStaysRecorded
<1>1. /\ DevTyped /\ command[c] \in DevCommandState /\ command[c].todo \in Seq(Identity)
      /\ AtHand(command[c])
  BY DEF DevInv, DevTyped, DevCommandState
<1>2. /\ lifecycle = c /\ command[c].stage \in {"stop", "signal", "wait"} /\ ~Held(c, "launched")
      /\ UNCHANGED <<launches, lost>>
  BY DEF StopNext, StopEnds, Inspect, Signal, StopTimesOut, Held
<1>3. ASSUME NEW x \in DevCommandState, AtHand(x), command' = [command EXCEPT ![c] = x],
             x.stage # "launched", lifecycle' \in {c, NoCommand}, UNCHANGED strangers,
             process' \in [Pids -> DevProcess], FewerRun,
             stateFile' \in [Services -> Identity \cup {NoState}], FilesOnlyGo
      PROVE  DevInv' /\ RunningStaysRecorded
  BY <1>2, <1>3, OneCommand
<1>4. ASSUME Set(c, Stopped(c)), command[c].todo # <<>>, UNCHANGED <<process, lifecycle, strangers>>,
             stateFile' \in [Services -> Identity \cup {NoState}], FilesOnlyGo
      PROVE  DevInv' /\ RunningStaysRecorded
  <2>1. PICK x \in DevCommandState : command' = [command EXCEPT ![c] = x] /\ AtHand(x) /\ x.stage = "stop"
    BY <1>4, StoppedTyped
  <2> QED BY <1>2, <1>3, <1>4, <2>1, SameProcesses
\* What is at the head of the list is signalled and then waited for.
<1>5. ASSUME NEW stage \in {"signal", "wait"}, command[c].todo # <<>>,
             Set(c, [command[c] EXCEPT !.stage = stage]), UNCHANGED <<stateFile, lifecycle, strangers>>,
             process' \in [Pids -> DevProcess], FewerRun
      PROVE  DevInv' /\ RunningStaysRecorded
  <2>1. PICK x : x = [command[c] EXCEPT !.stage = stage] OBVIOUS
  <2>2. x \in DevCommandState /\ x.stage = stage /\ x.todo = command[c].todo
    BY <1>1, <2>1 DEF DevCommandState
  <2>3. AtHand(x) BY <1>5, <2>2 DEF AtHand
  <2>4. command' = [command EXCEPT ![c] = x] BY <1>5, <2>1 DEF Set
  <2> QED BY <1>2, <1>3, <1>5, <2>2, <2>3, <2>4, SameFiles
<1>6. CASE StopNext(c)
  <2>1. PICK s, todo : /\ s = command[c].next /\ s \in Services
                       /\ todo = (IF stateFile[s] = NoState THEN <<>> ELSE <<stateFile[s]>>)
    BY <1>6 DEF StopNext
  <2>2. stateFile[s] # NoState => stateFile[s] \in Identity BY <1>1, <2>1 DEF DevTyped
  <2>3. todo \in Seq(Identity) BY <2>1, <2>2
  <2>4. PICK x : x = [command[c] EXCEPT !.next = s - 1, !.todo = todo] OBVIOUS
  <2>5. s - 1 \in Int BY <2>1, ServicesCounted
  <2>6. x \in DevCommandState /\ x.stage = command[c].stage
    BY <1>1, <2>3, <2>4, <2>5 DEF DevCommandState
  <2>7. command[c].stage = "stop" BY <1>6 DEF StopNext, Held
  <2>8. command' = [command EXCEPT ![c] = x] /\ UNCHANGED <<process, stateFile, lifecycle, strangers>>
    BY <1>6, <2>1, <2>4 DEF StopNext, Set
  <2> QED BY <1>2, <1>3, <2>6, <2>7, <2>8, SameFiles, SameProcesses DEF AtHand
<1>7. CASE StopEnds(c)
  <2>1. PICK x \in DevCommandState : command' = [command EXCEPT ![c] = x] /\ AtHand(x) /\ x.stage = "done"
    BY <1>7, EndsTyped DEF StopEnds
  <2>2. lifecycle' = NoCommand /\ UNCHANGED <<process, stateFile, strangers>> BY <1>7 DEF StopEnds
  <2> QED BY <1>3, <2>1, <2>2, SameFiles, SameProcesses
<1>8. CASE Inspect(c)
  <2>1. PICK id : id = Subject(c) OBVIOUS
  <2>2. command[c].todo # <<>> /\ UNCHANGED <<process, lifecycle, strangers>> BY <1>8 DEF Inspect
  <2>3. CASE Set(c, Stopped(c)) /\ UNCHANGED stateFile
    BY <1>4, <2>2, <2>3, SameFiles
  <2>4. CASE Set(c, Stopped(c)) /\ Gone(id) /\ Removes(id)
    BY <1>4, <2>2, <2>4, RemovesGone
  <2>5. CASE Set(c, [command[c] EXCEPT !.stage = "signal"]) /\ UNCHANGED stateFile
    BY <1>5, <2>2, <2>5, SameProcesses
  <2> QED BY <1>8, <2>1, <2>3, <2>4, <2>5 DEF Inspect
<1>9. CASE Signal(c)
  <2>1. PICK id : id = Subject(c) OBVIOUS
  <2>2. command[c].todo # <<>> /\ UNCHANGED <<stateFile, lifecycle>>
    BY <1>1, <1>9 DEF Signal, Held, AtHand
  <2>3. CASE MaySignal(id)
    <3>1. /\ process' = [process EXCEPT ![id.pid].asked = (process[id.pid].token # 0)]
          /\ UNCHANGED strangers /\ Set(c, [command[c] EXCEPT !.stage = "wait"])
      BY <1>9, <2>1, <2>3 DEF Signal, MaySignal
    <3>2. process \in [Pids -> DevProcess] BY <1>1 DEF DevTyped
    <3>3. PICK asked \in BOOLEAN : asked = (process[id.pid].token # 0) OBVIOUS
    <3>4. process' \in [Pids -> DevProcess] /\ FewerRun
      <4>1. CASE id.pid \notin Pids
        <5>1. process' = process BY <3>1, <3>2, <4>1
        <5> QED BY <3>2, <5>1 DEF FewerRun
      <4>2. CASE id.pid \in Pids
        <5>1. PICK r : r = [process[id.pid] EXCEPT !.asked = asked] OBVIOUS
        <5>2. r \in DevProcess /\ r.service = process[id.pid].service /\ r.token = process[id.pid].token
          BY <3>2, <4>2, <5>1 DEF DevProcess
        <5>3. process' = [process EXCEPT ![id.pid] = r] BY <3>1, <3>3, <5>1
        <5> QED BY <3>2, <5>2, <5>3 DEF FewerRun
      <4> QED BY <4>1, <4>2
    <3> QED BY <1>5, <2>2, <3>1, <3>4
  <2>4. CASE ~MaySignal(id)
    <3>1. /\ Set(c, IF Gone(id) THEN [command[c] EXCEPT !.stage = "wait"] ELSE Stopped(c))
          /\ UNCHANGED <<process, strangers>>
      BY <1>9, <2>1, <2>4 DEF Signal
    <3>2. CASE Gone(id) BY <1>5, <2>2, <3>1, <3>2, SameProcesses
    <3>3. CASE ~Gone(id) BY <1>4, <2>2, <3>1, <3>3, SameFiles
    <3> QED BY <3>2, <3>3
  <2> QED BY <2>3, <2>4
<1>10. CASE StopTimesOut(c)
  <2>1. command[c].todo # <<>> /\ UNCHANGED <<stateFile, lifecycle, strangers>>
    BY <1>1, <1>10 DEF StopTimesOut, Held, AtHand
  <2>2. CASE Killing(Subject(c)) /\ UNCHANGED command
    <3>1. command' = [command EXCEPT ![c] = command[c]] BY <1>1, <2>2 DEF DevTyped
    <3>2. process' \in [Pids -> DevProcess] /\ FewerRun BY <2>2, KillingEnds
    <3> QED BY <1>1, <1>2, <1>3, <2>1, <3>1, <3>2, SameFiles
  <2>3. CASE UNCHANGED process /\ Set(c, Stopped(c)) BY <1>4, <2>1, <2>3, SameFiles
  <2> QED BY <1>10, <2>2, <2>3 DEF StopTimesOut
<1> QED BY <1>6, <1>7, <1>8, <1>9, <1>10

LEMMA CommandKilledPreserves ==
  ASSUME DevInv, NEW c \in Commands, CommandKilled(c) PROVE DevInv' /\ RunningStaysRecorded
<1>1. PICK x \in DevCommandState : command' = [command EXCEPT ![c] = x] /\ AtHand(x) /\ x.stage = "done"
  <2>1. CommandEnds(c) BY DEF CommandKilled
  <2> QED BY <2>1, EndsTyped
<1>2. /\ UNCHANGED <<process, stateFile, launches, strangers>> /\ lost \subseteq lost'
      /\ Held(c, "launched") => command[c].job.token \in lost'
  BY DEF CommandKilled, Held
<1>3. \/ UNCHANGED lifecycle
      \/ lifecycle \in {c, NoCommand} /\ lifecycle' \in {c, NoCommand}
  BY DEF CommandKilled
<1> QED BY <1>1, <1>2, <1>3, SameFiles, SameProcesses, OneCommand

\* A process exits, or another's gets its id.
LEMMA ProcessPreserves ==
  ASSUME DevInv, NEW p \in Pids, Exits(p) \/ Reused(p) PROVE DevInv' /\ RunningStaysRecorded
<1>1. DevTyped BY DEF DevInv
<1>2. UNCHANGED <<stateFile, lifecycle, command, strangers, lost>> BY DEF Exits, Reused
<1>3. PICK r \in DevProcess : process' = [process EXCEPT ![p] = r] /\ r.service = 0
  <2>1. CASE Exits(p)
    <3>1. NoProcess \in DevProcess /\ NoProcess.service = 0 BY DEF NoProcess, DevProcess
    <3> QED BY <2>1, <3>1 DEF Exits
  <2>2. CASE Reused(p)
    <3>1. PICK n : n = launches + 1 OBVIOUS
    <3>2. launches' = n /\ n \in Nat BY <1>1, <2>2, <3>1 DEF Reused, DevTyped
    <3>3. PICK r : r = [NoProcess EXCEPT !.token = n] OBVIOUS
    <3>4. r \in DevProcess /\ r.service = 0 BY <3>2, <3>3 DEF NoProcess, DevProcess
    <3>5. process' = [process EXCEPT ![p] = r] BY <2>2, <3>2, <3>3 DEF Reused
    <3> QED BY <3>4, <3>5
  <2> QED BY <2>1, <2>2
<1>4. /\ process' \in [Pids -> DevProcess] /\ process'[p].service = 0
      /\ \A q \in Pids \ {p} : process'[q] = process[q]
  BY <1>1, <1>3 DEF DevTyped
<1>5. FewerRun BY <1>4 DEF FewerRun
<1>6. launches' \in 0..MaxLaunches
  BY <1>1, DevAssumption DEF Exits, Reused, DevTyped
<1>7. \A c \in Commands : AtHand(command[c])' BY <1>2 DEF DevInv, AtHand
<1>8. \A c \in Commands : Held(c, "launched")' <=> Held(c, "launched") BY <1>2 DEF Held
<1>9. /\ lifecycle' \in Commands \cup {NoCommand} /\ command' \in [Commands -> DevCommandState]
      /\ \A c \in Commands : command'[c].job = command[c].job
  BY <1>1, <1>2 DEF DevTyped
<1> QED BY <1>2, <1>4, <1>5, <1>6, <1>7, <1>8, <1>9, SameFiles, DevStep

LEMMA DevStepPreserves == DevInv /\ [DevNext]_devVars => DevInv' /\ RunningStaysRecorded
<1> SUFFICES ASSUME DevInv, [DevNext]_devVars PROVE DevInv' /\ RunningStaysRecorded
  OBVIOUS
<1>1. CASE UNCHANGED devVars
  BY <1>1 DEF devVars, DevInv, DevTyped, AtHand, OnlyOursAreSignalled, RunningIsKnown, Held,
     RunningStaysRecorded
<1>2. ASSUME NEW c \in Commands, NEW does \in {"foreground", "detached", "stop"}, IssueCommand(c, does)
      PROVE  DevInv' /\ RunningStaysRecorded
  BY <1>2, IssuePreserves
<1>3. ASSUME NEW c \in Commands, Recorded(c) \/ Refuses(c) \/ Started(c)
      PROVE  DevInv' /\ RunningStaysRecorded
  BY <1>3, StartPreserves
<1>4. ASSUME NEW c \in Commands, NEW p \in Pids, Launch(c, p) PROVE DevInv' /\ RunningStaysRecorded
  BY <1>4, LaunchPreserves
<1>5. ASSUME NEW c \in Commands, WriteState(c) PROVE DevInv' /\ RunningStaysRecorded
  BY <1>5, WritesPreserves
<1>6. ASSUME NEW c \in Commands, Ready(c) PROVE DevInv' /\ RunningStaysRecorded
  BY <1>6, ReadyPreserves
<1>7. ASSUME NEW c \in Commands, WatchEnds(c) \/ \E id \in command[c].watches : WatchExit(c, id)
      PROVE  DevInv' /\ RunningStaysRecorded
  BY <1>7, WatchPreserves
<1>8. ASSUME NEW c \in Commands,
             StopNext(c) \/ StopEnds(c) \/ Inspect(c) \/ Signal(c) \/ StopTimesOut(c)
      PROVE  DevInv' /\ RunningStaysRecorded
  BY <1>8, StopPreserves
<1>9. ASSUME NEW c \in Commands, CommandKilled(c) PROVE DevInv' /\ RunningStaysRecorded
  BY <1>9, CommandKilledPreserves
<1>10. ASSUME NEW p \in Pids, Exits(p) \/ Reused(p) PROVE DevInv' /\ RunningStaysRecorded
  BY <1>10, ProcessPreserves
<1>11. CASE DevNext
  BY <1>2, <1>3, <1>4, <1>5, <1>6, <1>7, <1>8, <1>9, <1>10, <1>11, Zenon DEF DevNext
<1> QED BY <1>1, <1>11

-----------------------------------------------------------------------------
(* The stores together.                                                    *)

\* Whichever store a behaviour of MCRecords shows, every other sees only steps
\* that leave it where it is.
LEMMA EachStoreSeesItsOwnSteps ==
  ASSUME [RecordsNext]_recordsVars
  PROVE  /\ [ConfigNext]_configVars /\ [PresentationNext]_presentationVars
         /\ [OptionsNext]_optionsVars /\ [HierarchyNext]_hierarchyVars
         /\ [SnapshotNext]_snapshotVars /\ [DevNext]_devVars /\ [RegistryNext]_registryVars
         /\ [MigrationsNext]_migrationVars /\ [GenerationNext]_generationVars
         /\ [QueryNext]_tableVars /\ [SessionsNext]_sessionsVars /\ [Next]_vars /\ subject' = subject
<1>1. CASE UNCHANGED recordsVars BY ONLY <1>1 DEF recordsVars
<1>2. CASE RecordsNext BY ONLY <1>2 DEF RecordsNext
<1> QED BY <1>1, <1>2

\* What the one that acts keeps; the others have no state to speak of.
StoresInv ==
  /\ subject = "config" => VersionedInv
  /\ subject = "presentation" => ProfileInv
  /\ subject = "options" => OptionsInv
  /\ subject = "hierarchy" => HierarchyInv

LEMMA StoresInitially == RecordsInit => StoresInv
<1> SUFFICES ASSUME RecordsInit PROVE StoresInv
  OBVIOUS
<1>1. /\ subject = "config" => ConfigInit
      /\ subject = "presentation" => PresentationInit
      /\ subject = "options" => OptionsInit
      /\ subject = "hierarchy" => HierarchyInit
  BY DEF RecordsInit
<1> QED BY ONLY <1>1, VersionedInitially, ProfileInitially, OptionsInitially,
           HierarchyInitially DEF StoresInv

LEMMA StoresStepPreserves == StoresInv /\ [RecordsNext]_recordsVars => StoresInv'
<1> SUFFICES ASSUME StoresInv, [RecordsNext]_recordsVars PROVE StoresInv'
  OBVIOUS
<1>1. subject' = "config" => VersionedInv'
  BY EachStoreSeesItsOwnSteps, VersionedStepPreserves DEF StoresInv
<1>2. subject' = "presentation" => ProfileInv'
  BY EachStoreSeesItsOwnSteps, ProfileStepPreserves DEF StoresInv
<1>3. subject' = "options" => OptionsInv'
  BY EachStoreSeesItsOwnSteps, OptionsPreserve DEF StoresInv
<1>4. subject' = "hierarchy" => HierarchyInv'
  BY EachStoreSeesItsOwnSteps, HierarchyStepPreserves DEF StoresInv
<1> QED BY <1>1, <1>2, <1>3, <1>4 DEF StoresInv

\* Configuration reads what was committed, options lose no change and keep their
\* names apart, the department tree has no dangling parent and no cycle, and the
\* revisions of a profile are published once, and as they were seen.
THEOREM StoresSafe == RecordsSpec => []StoresAreSound
<1>1. StoresInv => StoresAreSound
  BY VersionedInvIsSound, ProfileInvIsSound, OptionsInvMeans
     DEF StoresInv, HierarchyInv, StoresAreSound
<1> QED BY <1>1, StoresInitially, StoresStepPreserves, PTL DEF RecordsSpec

\* The snapshots of a downstream repository: a failed upgrade leaves its mark, a
\* reader sees one snapshot, and a developer's edit is lost only if it came after the
\* transaction began, between a check and its rename or to the undoing of a failure.
THEOREM SnapshotSafe == RecordsSpec => SnapshotIsSound
<1> DEFINE Inv == subject = "snapshots" => SnapshotInv /\ EditsInv
<1>1. RecordsInit => Inv
  BY SnapshotInitially, EditsInitially DEF RecordsInit
<1>2. Inv /\ [RecordsNext]_recordsVars => Inv'
  BY EachStoreSeesItsOwnSteps, SnapshotStepPreserves, EditsStepPreserves
<1>3. Inv => (subject = "snapshots" => PartialIsMarked /\ ReadersSeeAPair)
  BY SnapshotInvMeans
<1>4. Inv /\ [RecordsNext]_recordsVars => [subject = "snapshots" => EditsSurvive]_snapshotVars
  BY EachStoreSeesItsOwnSteps, EditsAreKept
<1> HIDE DEF Inv
<1> QED BY <1>1, <1>2, <1>3, <1>4, PTL DEF RecordsSpec, SnapshotIsSound

\* The sessions of a user, in every run of requests, revocations, wrong passwords and
\* changes of the password: none that is over admits a lookup or comes back, and what a
\* change of the password leaves is only the login it overtook; wrong passwords are
\* spaced by the locks, and a way to log in remains.
THEOREM SessionsSafe == RecordsSpec => SessionsHold
<1> DEFINE Inv == OfSessions => SessionsInv
<1>1. RecordsInit => Inv
  BY SessionsInitially DEF RecordsInit
<1>2. Inv /\ [RecordsNext]_recordsVars => Inv'
  BY EachStoreSeesItsOwnSteps, SessionsStepKeeps DEF OfSessions
<1>3. Inv => (OfSessions => SessionsAreSound /\ AccountIsGuarded)
  BY SessionsInvMeans
<1>4. Inv /\ [RecordsNext]_recordsVars => [OfSessions => SessionsOnlyEnd]_sessionsVars
  BY EachStoreSeesItsOwnSteps, SessionsEndOnly
<1> HIDE DEF Inv
<1> QED BY <1>1, <1>2, <1>3, <1>4, PTL DEF RecordsSpec, SessionsHold

\* What the tool that acts keeps.
ToolsInv ==
  /\ subject = "processes" => DevInv
  /\ subject = "registry" => RegistryInv
  /\ subject = "migrations" => MigrationsInv
  /\ subject = "generation" => GenerationInv

LEMMA ToolsInitially == RecordsInit => ToolsInv
<1> SUFFICES ASSUME RecordsInit PROVE ToolsInv
  OBVIOUS
<1>1. /\ subject = "processes" => DevInit
      /\ subject = "registry" => RegistryInit
      /\ subject = "migrations" => MigrationsInit
      /\ subject = "generation" => GenerationInit
  BY DEF RecordsInit
<1> QED BY ONLY <1>1, DevInitially, RegistryInitially, MigrationsInitially,
           GenerationInitially DEF ToolsInv

LEMMA ToolsStepPreserves ==
  ToolsInv /\ [RecordsNext]_recordsVars =>
    /\ ToolsInv'
    /\ subject = "processes" => RunningStaysRecorded
    /\ subject = "registry" => FrozenStays
    /\ subject = "migrations" => AppliedInOrder /\ NothingUnlessSound
    /\ subject = "generation" => OnlyPlannedIsReplaced
<1> SUFFICES ASSUME ToolsInv, [RecordsNext]_recordsVars
             PROVE  /\ ToolsInv'
                    /\ subject = "processes" => RunningStaysRecorded
                    /\ subject = "registry" => FrozenStays
                    /\ subject = "migrations" => AppliedInOrder /\ NothingUnlessSound
                    /\ subject = "generation" => OnlyPlannedIsReplaced
  OBVIOUS
<1>1. subject' = subject BY EachStoreSeesItsOwnSteps
<1>2. subject = "processes" => DevInv' /\ RunningStaysRecorded
  BY EachStoreSeesItsOwnSteps, DevStepPreserves DEF ToolsInv
<1>3. subject = "registry" => RegistryInv' /\ FrozenStays
  BY EachStoreSeesItsOwnSteps, RegistryStepPreserves, FrozenIsKept DEF ToolsInv
<1>4. subject = "migrations" => MigrationsInv' /\ AppliedInOrder /\ NothingUnlessSound
  BY EachStoreSeesItsOwnSteps, MigrationsStepPreserves, MigrationsGoInOrder DEF ToolsInv
<1>5. subject = "generation" => GenerationInv' /\ OnlyPlannedIsReplaced
  BY EachStoreSeesItsOwnSteps, GenerationStepPreserves, PlannedIsReplaced DEF ToolsInv
<1> QED BY ONLY <1>1, <1>2, <1>3, <1>4, <1>5 DEF ToolsInv

\* The tools: no process of others is signalled, and a running service keeps its
\* state file whoever starts, watches and stops it; a frozen registry is whole and
\* stays as it is; a migration in the ledger has been applied, in order, and
\* none unless the candidates are sound; a generation in conflict writes nothing, one
\* that succeeds undisturbed leaves what was asked for, and no other content is replaced.
THEOREM ToolsSafe == RecordsSpec => ToolsAreSound
<1>1. ToolsInv => CASE subject = "processes" -> OnlyOursAreSignalled /\ RunningIsKnown
                    [] subject = "registry" -> RegistryIsSound
                    [] subject = "migrations" -> LedgerIsTrue
                    [] subject = "generation" -> ConflictsWriteNothing /\ SuccessIsComplete
                    [] OTHER -> TRUE
  <2> SUFFICES ASSUME ToolsInv
               PROVE  CASE subject = "processes" -> OnlyOursAreSignalled /\ RunningIsKnown
                        [] subject = "registry" -> RegistryIsSound
                        [] subject = "migrations" -> LedgerIsTrue
                        [] subject = "generation" -> ConflictsWriteNothing /\ SuccessIsComplete
                        [] OTHER -> TRUE
    OBVIOUS
  <2>1. subject = "processes" => OnlyOursAreSignalled /\ RunningIsKnown BY DEF ToolsInv, DevInv
  <2>2. subject = "registry" => RegistryIsSound BY RegistryInvMeans DEF ToolsInv
  <2>3. subject = "migrations" => LedgerIsTrue BY MigrationsInvMeans DEF ToolsInv
  <2>4. subject = "generation" => ConflictsWriteNothing /\ SuccessIsComplete
    BY GenerationInvMeans DEF ToolsInv
  <2> QED BY ONLY <2>1, <2>2, <2>3, <2>4
<1>2. ToolsInv /\ [RecordsNext]_recordsVars =>
         /\ ToolsInv'
         /\ [subject = "processes" => RunningStaysRecorded]_devVars
         /\ [subject = "registry" => FrozenStays]_registryVars
         /\ [subject = "migrations" => AppliedInOrder /\ NothingUnlessSound]_migrationVars
         /\ [subject = "generation" => OnlyPlannedIsReplaced]_generationVars
  BY ONLY ToolsStepPreserves
<1> QED BY <1>1, <1>2, ToolsInitially, PTL DEF RecordsSpec, ToolsAreSound
=============================================================================
