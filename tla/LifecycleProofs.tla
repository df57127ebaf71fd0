-------------------------- MODULE LifecycleProofs ---------------------------
(***************************************************************************)
(* What runs is stopped, and what is closed is not in use: the task server, *)
(* the server manager and the runtime configuration, for any tasks,        *)
(* components and calls.                                                   *)
(***************************************************************************)
EXTENDS TaskServer, ServerManager, ConfigRuntime, FiniteSetTheorems,
        WellFoundedInduction, TLAPS

-----------------------------------------------------------------------------
(* The task server.                                                        *)

\* A task is loaded with a schedule and an entry, or with neither.
LoadedInv ==
  \A k \in TaskKeys :
    \/ loaded[k] = Unloaded
    \/ loaded[k].spec \in Specs /\ loaded[k].entry \in EntryIDs

\* No two tasks are loaded with one entry.
DistinctInv ==
  \A j, k \in TaskKeys :
    loaded[j].entry = loaded[k].entry /\ loaded[j] # Unloaded => j = k

\* A call of Operate or Delete knows its task.
OperateInv == operate.op # "idle" => operate.key \in TaskKeys /\ operate.spec \in Specs

\* The parts about the table, cron and the schedules that the calls change.
TablesType ==
  /\ row \in [TaskKeys -> [there : BOOLEAN, on : BOOLEAN, spec : Specs,
                           entry : EntryIDs \cup {0}]]
  /\ cron \subseteq [id : EntryIDs, key : TaskKeys, spec : Specs]
  /\ loaded \in [TaskKeys -> [spec : Specs \cup {NoSpec}, entry : EntryIDs \cup {0}]]
  /\ unsure \subseteq TaskKeys /\ troubles \in 0..MaxTroubles
CallsType ==
  /\ serving \in BOOLEAN /\ due \in [TaskKeys -> Specs \cup {NoSpec}]
  /\ operate \in [op : {"idle", "start", "stop", "enable", "disable", "delete", "erase"},
                  key : TaskKeys \cup {0}, spec : Specs \cup {NoSpec}]
  /\ edits \in 0..MaxEdits
TablesInv == TablesType /\ LoadedInv /\ DistinctInv /\ CronMatchesLoaded /\ StoredEntryIsLive

TaskInv == TablesInv /\ CallsType /\ OperateInv
-----------------------------------------------------------------------------
(* Sets of numbers and the ids that cron gives.                            *)

\* A finite set of numbers has a greatest element.
LEMMA GreatestExists ==
  ASSUME NEW S \in SUBSET Nat, IsFiniteSet(S), S # {}
  PROVE  \E m \in S : \A y \in S : y <= m
<1> DEFINE Above(x) == {y \in S : x < y}
           T == {Above(x) : x \in S}
<1>1. T \subseteq FiniteSubsetsOf(S)
  BY FS_Subset DEF FiniteSubsetsOf
<1>2. T # {}
  OBVIOUS
<1> HIDE DEF T
<1>3. PICK A \in T : \A B \in T : <<B, A>> \notin StrictSubsetOrdering(S)
  BY <1>1, <1>2, FS_StrictSubsetOrderingWellFounded, WFMin
<1>4. PICK m \in S : A = Above(m)
  BY <1>3 DEF T
<1>5. ASSUME NEW y \in S, m < y
      PROVE  FALSE
  <2>0. \A z \in S : y < z => m < z
    <3>1. y \in Nat /\ m \in Nat /\ S \subseteq Nat
      OBVIOUS
    <3>2. SUFFICES ASSUME NEW z \in S, y < z PROVE m < z
      OBVIOUS
    <3> QED BY <1>5, <3>1, <3>2
  <2>1. Above(y) \subseteq Above(m) /\ y \in Above(m) /\ y \notin Above(y)
    <3>1. ~(y < y)
      <4>1. y \in Nat OBVIOUS
      <4> QED BY <4>1
    <3> QED BY <1>5, <2>0, <3>1
  <2>2. Above(y) \in T
    BY DEF T
  <2>3. <<Above(y), Above(m)>> \in StrictSubsetOrdering(S)
    BY <2>1 DEF StrictSubsetOrdering
  <2> QED BY <1>3, <1>4, <2>2, <2>3
<1> QED BY <1>5

\* A finite set of numbers that is not empty has a least element.
LEMMA LeastExists ==
  ASSUME NEW S \in SUBSET Nat, IsFiniteSet(S), S # {}
  PROVE  \E m \in S : \A y \in S : m <= y
<1> DEFINE Below(x) == {y \in S : y < x}
           T == {Below(x) : x \in S}
<1>1. T \subseteq FiniteSubsetsOf(S)
  BY FS_Subset DEF FiniteSubsetsOf
<1>2. T # {}
  OBVIOUS
<1> HIDE DEF T
<1>3. PICK A \in T : \A B \in T : <<B, A>> \notin StrictSubsetOrdering(S)
  BY <1>1, <1>2, FS_StrictSubsetOrderingWellFounded, WFMin
<1>4. PICK m \in S : A = Below(m)
  BY <1>3 DEF T
<1>5. ASSUME NEW y \in S, y < m
      PROVE  FALSE
  <2>0. \A z \in S : z < y => z < m
    <3>1. y \in Nat /\ m \in Nat /\ S \subseteq Nat
      OBVIOUS
    <3>2. SUFFICES ASSUME NEW z \in S, z < y PROVE z < m
      OBVIOUS
    <3> QED BY <1>5, <3>1, <3>2
  <2>1. Below(y) \subseteq Below(m) /\ y \in Below(m) /\ y \notin Below(y)
    <3>1. ~(y < y)
      <4>1. y \in Nat OBVIOUS
      <4> QED BY <4>1
    <3> QED BY <1>5, <2>0, <3>1
  <2>2. Below(y) \in T
    BY DEF T
  <2>3. <<Below(y), Below(m)>> \in StrictSubsetOrdering(S)
    BY <2>1 DEF StrictSubsetOrdering
  <2> QED BY <1>3, <1>4, <2>2, <2>3
<1> QED BY <1>5

\* A finite set of more than n numbers has one that exactly n others precede.
LEMMA RankedElement ==
  ASSUME NEW S \in SUBSET Nat, IsFiniteSet(S), NEW n \in Nat, n < Cardinality(S)
  PROVE  \E x \in S : Cardinality({y \in S : y < x}) = n
<1> DEFINE Before(x) == {y \in S : y < x}
           T == {x \in S : Cardinality(Before(x)) >= n}
<1>0. \A x \in S : IsFiniteSet(Before(x)) /\ Cardinality(Before(x)) \in Nat
  BY FS_Subset, FS_CardinalityType
<1>1. T # {}
  <2>1. S # {} BY FS_EmptySet
  <2>2. PICK m \in S : \A y \in S : y <= m BY <2>1, GreatestExists
  <2>3. Before(m) = S \ {m}
    <3>1. \A y \in S : y < m <=> y # m BY <2>2
    <3> QED BY <3>1
  <2>4. Cardinality(Before(m)) = Cardinality(S) - 1 BY <2>3, FS_RemoveElement
  <2> QED BY <2>4, FS_CardinalityType
<1>2. T \in SUBSET Nat /\ IsFiniteSet(T) BY FS_Subset
<1>3. PICK x \in T : \A y \in T : x <= y BY <1>1, <1>2, LeastExists
<1>4. ASSUME Cardinality(Before(x)) > n PROVE FALSE
  <2>1. Before(x) # {} BY <1>4, FS_EmptySet
  <2>2. Before(x) \in SUBSET Nat OBVIOUS
  <2>3. PICK m \in Before(x) : \A y \in Before(x) : y <= m
    BY <1>0, <2>1, <2>2, GreatestExists
  <2>4. Before(m) = Before(x) \ {m}
    <3>1. \A y \in S : y < m <=> y < x /\ y # m BY <2>3
    <3> QED BY <3>1
  <2>5. Cardinality(Before(x) \ {m}) = Cardinality(Before(x)) - 1
    BY <1>0, <2>3, FS_RemoveElement
  <2>6. m \in S /\ Cardinality(Before(m)) >= n
    BY <1>0, <1>4, <2>3, <2>4, <2>5
  <2>7. m \in T BY <2>6
  <2>8. m < x BY <2>3
  <2> QED BY <1>3, <2>7, <2>8
<1>5. x \in S /\ Cardinality(Before(x)) >= n BY <1>3
<1>6. Cardinality(Before(x)) = n BY <1>0, <1>4, <1>5
<1> QED BY <1>5, <1>6

\* Enough ids are free for a batch of new entries, and cron numbers the batch
\* with ids that are free and differ.
LEMMA NewIDs ==
  ASSUME TaskInv
  PROVE  /\ \A n \in Nat : n < Cardinality(TaskKeys) => NewID(n) \in FreeIDs
         /\ \A m, n \in Nat : /\ m < Cardinality(TaskKeys) /\ n < Cardinality(TaskKeys)
                              /\ NewID(m) = NewID(n)
                              => m = n
<1> USE TaskAssumption
<1> DEFINE Used == {e.id : e \in cron}
           Loaded == {k \in TaskKeys : loaded[k] # Unloaded}
           f == [k \in Loaded |-> loaded[k].entry]
<1>1. /\ IsFiniteSet(Loaded) /\ Cardinality(Loaded) <= Cardinality(TaskKeys)
      /\ Cardinality(Loaded) \in Nat /\ Cardinality(TaskKeys) \in Nat
      /\ Cardinality(EntryIDs) \in Nat
  BY FS_Subset, FS_CardinalityType
<1>2. Used = {loaded[k].entry : k \in Loaded}
  <2>1. cron = {Entry(loaded[k].entry, k, loaded[k].spec) : k \in Loaded}
    BY DEF TaskInv, TablesInv, CronMatchesLoaded
  <2>2. \A k \in Loaded : Entry(loaded[k].entry, k, loaded[k].spec).id = loaded[k].entry
    BY DEF Entry
  <2> HIDE DEF Loaded
  <2> QED BY <2>1, <2>2
<1>3. f \in Surjection(Loaded, Used)
  BY <1>2 DEF Surjection
<1>4. IsFiniteSet(Used) /\ Cardinality(Used) <= Cardinality(Loaded)
  BY <1>1, <1>3, FS_Surjection
<1>5. Cardinality(Used) \in Nat BY <1>4, FS_CardinalityType
<1>6. FreeIDs = EntryIDs \ Used BY DEF FreeIDs
<1>7. /\ IsFiniteSet(FreeIDs) /\ FreeIDs \in SUBSET Nat
      /\ Cardinality(FreeIDs) = Cardinality(EntryIDs) - Cardinality(EntryIDs \cap Used)
  BY <1>6, FS_Difference
<1>8. Cardinality(EntryIDs \cap Used) <= Cardinality(Used) /\ Cardinality(EntryIDs \cap Used) \in Nat
  BY <1>4, FS_Intersection, FS_CardinalityType
<1>9. Cardinality(TaskKeys) <= Cardinality(FreeIDs) /\ Cardinality(FreeIDs) \in Nat
  BY <1>1, <1>4, <1>5, <1>7, <1>8
<1>10. ASSUME NEW n \in Nat, n < Cardinality(TaskKeys)
       PROVE  NewID(n) \in FreeIDs /\ Cardinality({y \in FreeIDs : y < NewID(n)}) = n
  <2>1. \E x \in FreeIDs : Cardinality({y \in FreeIDs : y < x}) = n
    <3>1. n < Cardinality(FreeIDs) BY <1>1, <1>9, <1>10
    <3> HIDE DEF FreeIDs
    <3> QED BY <1>7, <1>10, <3>1, RankedElement
  <2> QED BY <2>1 DEF NewID
<1> QED BY <1>10
-----------------------------------------------------------------------------
(* The calls that change cron and the table.                               *)

\* Membership in cron, as the schedules `l` that are loaded have it.
Runs(c, l) == \A e : e \in c <=>
    \E k \in TaskKeys : l[k] # Unloaded /\ e = Entry(l[k].entry, k, l[k].spec)
LEMMA CronEntries ==
  /\ CronMatchesLoaded <=> Runs(cron, loaded)
  /\ CronMatchesLoaded' <=> Runs(cron', loaded')
<1>1. ASSUME NEW c, NEW l
      PROVE  c = {Entry(l[k].entry, k, l[k].spec) : k \in {j \in TaskKeys : l[j] # Unloaded}}
               <=> Runs(c, l)
  BY DEF Runs
<1>2. CronMatchesLoaded <=> Runs(cron, loaded)
  BY <1>1 DEF CronMatchesLoaded
<1>3. CronMatchesLoaded' <=> Runs(cron', loaded')
  BY <1>1 DEF CronMatchesLoaded
<1> QED BY <1>2, <1>3

\* UpdateJob, whether it works or not.
LEMMA UpdatePreserves ==
  ASSUME TaskInv, NEW k \in TaskKeys, NEW s \in Specs,
         UpdateJobOK(k, s) \/ UpdateJobFails(k, s)
  PROVE  TablesInv'
<1> USE TaskAssumption DEF TaskInv, TablesInv
<1>1. CASE UNCHANGED <<row, cron, loaded, unsure>> /\ troubles' \in 0..MaxTroubles
  <2>1. TablesType' BY <1>1 DEF TablesType
  <2>2. LoadedInv' /\ DistinctInv' /\ StoredEntryIsLive'
    BY <1>1 DEF LoadedInv, DistinctInv, StoredEntryIsLive
  <2>3. CronMatchesLoaded' BY <1>1, CronEntries
  <2> QED BY <2>1, <2>2, <2>3
<1> DEFINE i == NewID(0)
<1>2. i \in FreeIDs
  <2>1. Cardinality(TaskKeys) \in Nat /\ Cardinality(TaskKeys) # 0
    BY FS_CardinalityType, FS_EmptySet
  <2> QED BY <2>1, NewIDs
<1>3. /\ i \in EntryIDs /\ i # 0
      /\ \A e \in cron : e.id # i
      /\ \A j \in TaskKeys : loaded[j].entry # i
  <2>1. /\ i \in EntryIDs /\ i # 0
        /\ \A e \in cron : e.id # i
    BY <1>2 DEF FreeIDs
  <2>2. ASSUME NEW j \in TaskKeys PROVE loaded[j].entry # i
    <3>1. CASE loaded[j] = Unloaded BY <2>1, <3>1 DEF Unloaded
    <3>2. CASE loaded[j] # Unloaded
      <4>1. Entry(loaded[j].entry, j, loaded[j].spec) \in cron
        BY <3>2, CronEntries DEF Runs
      <4> QED BY <2>1, <4>1 DEF Entry
    <3> QED BY <3>1, <3>2
  <2> QED BY <2>1, <2>2
<1> HIDE DEF i
<1>4. CASE /\ row' = [row EXCEPT ![k].entry = i] /\ unsure' = unsure \cup {k}
           /\ UNCHANGED <<cron, loaded>> /\ troubles' \in 0..MaxTroubles
  <2>1. TablesType' BY <1>3, <1>4 DEF TablesType
  <2>2. LoadedInv' /\ DistinctInv' BY <1>4 DEF LoadedInv, DistinctInv
  <2>3. \A j \in TaskKeys \ {k} : row'[j] = row[j] BY <1>4 DEF TablesType
  <2>4. StoredEntryIsLive' BY <1>4, <2>3 DEF StoredEntryIsLive
  <2>5. CronMatchesLoaded' BY <1>4, CronEntries
  <2> QED BY <2>1, <2>2, <2>4, <2>5
<1>5. CASE /\ cron' = Without(loaded[k].entry) \cup {Entry(i, k, s)}
           /\ row' = [row EXCEPT ![k].entry = i]
           /\ loaded' = [loaded EXCEPT ![k] = [spec |-> s, entry |-> i]]
           /\ UNCHANGED <<unsure, troubles>>
  <2>1. TablesType'
    <3>1. Entry(i, k, s) \in [id : EntryIDs, key : TaskKeys, spec : Specs]
      BY <1>3 DEF Entry
    <3>2. cron' \subseteq [id : EntryIDs, key : TaskKeys, spec : Specs]
      BY <1>5, <3>1 DEF TablesType, Without
    <3> QED BY <1>3, <1>5, <3>2 DEF TablesType
  <2>2. /\ loaded'[k] = [spec |-> s, entry |-> i] /\ row'[k].entry = i
        /\ \A j \in TaskKeys \ {k} : loaded'[j] = loaded[j] /\ row'[j] = row[j]
        /\ loaded'[k] # Unloaded
    BY <1>3, <1>5 DEF TablesType, Unloaded
  <2>3. LoadedInv' BY <1>3, <2>2 DEF LoadedInv
  <2>4. DistinctInv' BY <1>3, <2>2 DEF DistinctInv
  <2>5. StoredEntryIsLive' BY <1>5, <2>2 DEF StoredEntryIsLive
  <2>6. Runs(cron', loaded')
    <3>1. ASSUME NEW e \in cron'
          PROVE  \E j \in TaskKeys : /\ loaded'[j] # Unloaded
                                     /\ e = Entry(loaded'[j].entry, j, loaded'[j].spec)
      <4>1. CASE e = Entry(i, k, s) BY <2>2, <4>1
      <4>2. CASE e \in cron /\ e.id # loaded[k].entry
        <5>1. PICK j \in TaskKeys : /\ loaded[j] # Unloaded
                                    /\ e = Entry(loaded[j].entry, j, loaded[j].spec)
          BY <4>2, CronEntries DEF Runs
        <5>2. j # k BY <4>2, <5>1 DEF Entry
        <5> QED BY <2>2, <5>1, <5>2
      <4> QED BY <1>5, <3>1, <4>1, <4>2 DEF Without
    <3>2. ASSUME NEW j \in TaskKeys, loaded'[j] # Unloaded
          PROVE  Entry(loaded'[j].entry, j, loaded'[j].spec) \in cron'
      <4>1. CASE j = k BY <1>5, <2>2, <4>1
      <4>2. CASE j # k
        <5>1. loaded[j] # Unloaded /\ loaded'[j] = loaded[j] BY <2>2, <3>2, <4>2
        <5>2. Entry(loaded[j].entry, j, loaded[j].spec) \in cron
          BY <5>1, CronEntries DEF Runs
        <5>3. loaded[j].entry # loaded[k].entry BY <4>2, <5>1 DEF DistinctInv
        <5>4. Entry(loaded[j].entry, j, loaded[j].spec).id = loaded[j].entry BY DEF Entry
        <5> QED BY <1>5, <5>1, <5>2, <5>3, <5>4 DEF Without
      <4> QED BY <4>1, <4>2
    <3> QED BY <3>1, <3>2 DEF Runs
  <2> QED BY <2>1, <2>3, <2>4, <2>5, <2>6, CronEntries
<1>6. CASE UpdateJobOK(k, s)
  BY <1>1, <1>5, <1>6 DEF UpdateJobOK, i, TablesType
<1>7. CASE UpdateJobFails(k, s)
  BY <1>1, <1>4, <1>7 DEF UpdateJobFails, Fault, i, TablesType
<1> QED BY <1>6, <1>7

\* RemoveJob, whether it works or not.
LEMMA RemovePreserves ==
  ASSUME TaskInv, NEW k \in TaskKeys, RemoveJobOK(k) \/ RemoveJobFails(k)
  PROVE  TablesInv'
<1> USE TaskAssumption DEF TaskInv, TablesInv
<1>1. CASE RemoveJobFails(k)
  <2>1. TablesType' BY <1>1 DEF RemoveJobFails, Fault, TablesType
  <2>2. LoadedInv' /\ DistinctInv' BY <1>1 DEF RemoveJobFails, LoadedInv, DistinctInv
  <2>3. StoredEntryIsLive'
    <3>1. CASE UNCHANGED <<row, unsure>>
      BY <1>1, <3>1 DEF RemoveJobFails, StoredEntryIsLive
    <3>2. CASE row' = [row EXCEPT ![k].entry = 0] /\ unsure' = unsure \cup {k}
      <4>1. \A j \in TaskKeys \ {k} : row'[j] = row[j] BY <3>2 DEF TablesType
      <4> QED BY <1>1, <3>2, <4>1 DEF RemoveJobFails, StoredEntryIsLive
    <3> QED BY <1>1, <3>1, <3>2 DEF RemoveJobFails
  <2>4. CronMatchesLoaded' BY <1>1, CronEntries DEF RemoveJobFails
  <2> QED BY <2>1, <2>2, <2>3, <2>4
<1>2. CASE RemoveJobOK(k)
  <2>1. TablesType' BY <1>2 DEF RemoveJobOK, Dropped, Without, TablesType, Unloaded
  <2>2. /\ loaded'[k] = Unloaded
        /\ \A j \in TaskKeys \ {k} : loaded'[j] = loaded[j] /\ row'[j] = row[j]
    BY <1>2 DEF RemoveJobOK, TablesType
  <2>3. LoadedInv' BY <2>2 DEF LoadedInv
  <2>4. DistinctInv'
    <3>1. \A j \in TaskKeys : loaded[j] # Unloaded => loaded[j].entry # 0
      BY DEF LoadedInv
    <3> QED BY <2>2, <3>1 DEF DistinctInv, Unloaded
  <2>5. StoredEntryIsLive' BY <1>2, <2>2 DEF RemoveJobOK, StoredEntryIsLive
  <2>6. Runs(cron', loaded')
    <3>1. ASSUME NEW e \in cron'
          PROVE  \E j \in TaskKeys : /\ loaded'[j] # Unloaded
                                     /\ e = Entry(loaded'[j].entry, j, loaded'[j].spec)
      <4>1. e \in cron /\ e.id # loaded[k].entry
        BY <1>2, <3>1 DEF RemoveJobOK, Dropped, Without
      <4>2. PICK j \in TaskKeys : /\ loaded[j] # Unloaded
                                  /\ e = Entry(loaded[j].entry, j, loaded[j].spec)
        BY <4>1, CronEntries DEF Runs
      <4>3. j # k BY <4>1, <4>2 DEF Entry
      <4> QED BY <2>2, <4>2, <4>3
    <3>2. ASSUME NEW j \in TaskKeys, loaded'[j] # Unloaded
          PROVE  Entry(loaded'[j].entry, j, loaded'[j].spec) \in cron'
      <4>1. j # k /\ loaded[j] # Unloaded /\ loaded'[j] = loaded[j] BY <2>2, <3>2
      <4>2. Entry(loaded[j].entry, j, loaded[j].spec) \in cron
        BY <4>1, CronEntries DEF Runs
      <4>3. loaded[j].entry # loaded[k].entry BY <4>1 DEF DistinctInv
      <4>4. Entry(loaded[j].entry, j, loaded[j].spec).id = loaded[j].entry BY DEF Entry
      <4> QED BY <1>2, <4>1, <4>2, <4>3, <4>4 DEF RemoveJobOK, Dropped, Without
    <3> QED BY <3>1, <3>2 DEF Runs
  <2> QED BY <2>1, <2>3, <2>4, <2>5, <2>6, CronEntries
<1> QED BY <1>1, <1>2

\* The ids that Start gives to the enabled tasks are free, and no two are equal.
LEMMA RegisteredIDs ==
  ASSUME TaskInv
  PROVE  /\ \A k \in Enabled : /\ NewID(Rank(k)) \in EntryIDs
                                /\ \A j \in TaskKeys : loaded[j].entry # NewID(Rank(k))
         /\ \A j, k \in Enabled : NewID(Rank(j)) = NewID(Rank(k)) => j = k
<1> USE TaskAssumption
<1>1. /\ Enabled \subseteq TaskKeys /\ IsFiniteSet(Enabled) /\ Enabled \subseteq Nat
      /\ Cardinality(TaskKeys) \in Nat
  BY FS_Subset, FS_CardinalityType DEF Enabled
<1>2. ASSUME NEW k \in Enabled
      PROVE  /\ Rank(k) \in Nat /\ Rank(k) < Cardinality(TaskKeys)
             /\ IsFiniteSet({j \in Enabled : j < k})
  <2>0. k \in Nat /\ k \in TaskKeys /\ ~(k < k) BY <1>1
  <2>1. {j \in Enabled : j < k} \subseteq TaskKeys \ {k}
    BY <1>1, <2>0
  <2>2. IsFiniteSet(TaskKeys \ {k}) /\ Cardinality(TaskKeys \ {k}) = Cardinality(TaskKeys) - 1
    BY <1>1, FS_RemoveElement
  <2>3. /\ IsFiniteSet({j \in Enabled : j < k})
        /\ Cardinality({j \in Enabled : j < k}) <= Cardinality(TaskKeys) - 1
    BY <2>1, <2>2, FS_Subset
  <2>4. Rank(k) \in Nat /\ Rank(k) <= Cardinality(TaskKeys) - 1
    BY <2>3, FS_CardinalityType DEF Rank
  <2> QED BY <1>1, <2>3, <2>4
<1>3. ASSUME NEW j \in Enabled, NEW k \in Enabled, j < k
      PROVE  Rank(j) < Rank(k)
  <2>1. j \in Nat /\ k \in Nat /\ Enabled \subseteq Nat
    BY <1>1
  <2>2. \A i \in Enabled : i < j => i < k
    BY <1>3, <2>1
  <2>3. j \in {i \in Enabled : i < k} /\ j \notin {i \in Enabled : i < j}
    BY <1>3, <2>1
  <2>4. {i \in Enabled : i < j} \subseteq {i \in Enabled : i < k}
    BY <2>2
  <2>5. /\ Cardinality({i \in Enabled : i < j}) <= Cardinality({i \in Enabled : i < k})
        /\ Cardinality({i \in Enabled : i < j}) # Cardinality({i \in Enabled : i < k})
    BY <1>2, <2>3, <2>4, FS_Subset
  <2> QED BY <1>2, <2>5 DEF Rank
<1>4. ASSUME NEW k \in Enabled
      PROVE  /\ NewID(Rank(k)) \in EntryIDs
             /\ \A j \in TaskKeys : loaded[j].entry # NewID(Rank(k))
  <2>1. NewID(Rank(k)) \in FreeIDs BY <1>2, NewIDs
  <2>2. /\ NewID(Rank(k)) \in EntryIDs /\ NewID(Rank(k)) # 0
        /\ \A e \in cron : e.id # NewID(Rank(k))
    BY <2>1 DEF FreeIDs
  <2>3. ASSUME NEW j \in TaskKeys PROVE loaded[j].entry # NewID(Rank(k))
    <3>1. CASE loaded[j] = Unloaded BY <2>2, <3>1 DEF Unloaded
    <3>2. CASE loaded[j] # Unloaded
      <4>1. Entry(loaded[j].entry, j, loaded[j].spec) \in cron
        BY <3>2, CronEntries DEF Runs, TaskInv, TablesInv
      <4> QED BY <2>2, <4>1 DEF Entry
    <3> QED BY <3>1, <3>2
  <2> QED BY <2>2, <2>3
<1>5. ASSUME NEW j \in Enabled, NEW k \in Enabled, NewID(Rank(j)) = NewID(Rank(k))
      PROVE  j = k
  <2>1. Rank(j) = Rank(k) BY <1>2, <1>5, NewIDs
  <2>2. ~(j < k) /\ ~(k < j)
    <3>1. Rank(j) \in Nat /\ Rank(k) \in Nat BY <1>2
    <3>2. ~(Rank(j) < Rank(k)) /\ ~(Rank(k) < Rank(j)) BY <2>1, <3>1
    <3> QED BY <1>3, <3>2
  <2>3. j \in Nat /\ k \in Nat BY <1>1
  <2> QED BY <2>2, <2>3
<1> QED BY <1>4, <1>5

\* Start registers every enabled task in place of what was loaded for it.
LEMMA TaskStartPreserves ==
  ASSUME TaskInv, StartOK
  PROVE  TablesInv'
<1> USE TaskAssumption DEF TaskInv, TablesInv
<1> DEFINE id(k) == NewID(Rank(k))
<1>1. \A k \in Enabled : /\ k \in TaskKeys /\ id(k) \in EntryIDs /\ id(k) # 0
                         /\ row[k].spec \in Specs
                         /\ \A j \in TaskKeys : loaded[j].entry # id(k)
  BY RegisteredIDs DEF Enabled, TablesType
<1>2. \A j, k \in Enabled : id(j) = id(k) => j = k
  BY RegisteredIDs
<1>3. /\ row' = [k \in TaskKeys |-> IF k \in Enabled
                                   THEN [row[k] EXCEPT !.entry = id(k)] ELSE row[k]]
      /\ loaded' = [k \in TaskKeys |-> IF k \in Enabled
                                      THEN [spec |-> row[k].spec, entry |-> id(k)]
                                      ELSE loaded[k]]
      /\ cron' = (cron \ Replaced) \cup {Entry(id(k), k, row[k].spec) : k \in Enabled}
      /\ unsure' = unsure \ Enabled /\ troubles' = troubles
  BY DEF StartOK, Registered
<1> HIDE DEF id
<1>4. /\ \A k \in Enabled : /\ loaded'[k].spec = row[k].spec /\ loaded'[k].entry = id(k)
                             /\ loaded'[k] # Unloaded /\ row'[k].entry = id(k)
      /\ \A k \in TaskKeys \ Enabled : loaded'[k] = loaded[k] /\ row'[k] = row[k]
  BY <1>1, <1>3 DEF TablesType, Unloaded
<1>5. TablesType'
  <2>1. \A k \in Enabled : Entry(id(k), k, row[k].spec) \in [id : EntryIDs, key : TaskKeys, spec : Specs]
    BY <1>1 DEF Entry
  <2>2. cron' \subseteq [id : EntryIDs, key : TaskKeys, spec : Specs]
    BY <1>3, <2>1 DEF TablesType
  <2>3. row' \in [TaskKeys -> [there : BOOLEAN, on : BOOLEAN, spec : Specs,
                              entry : EntryIDs \cup {0}]]
    BY <1>1, <1>3 DEF TablesType
  <2>4. loaded' \in [TaskKeys -> [spec : Specs \cup {NoSpec}, entry : EntryIDs \cup {0}]]
    BY <1>1, <1>3 DEF TablesType
  <2> QED BY <1>3, <2>2, <2>3, <2>4 DEF TablesType
<1>6. LoadedInv' BY <1>1, <1>4 DEF LoadedInv
<1>7. DistinctInv'
  <2>1. ASSUME NEW j \in TaskKeys, NEW k \in TaskKeys,
               loaded'[j].entry = loaded'[k].entry, loaded'[j] # Unloaded
        PROVE  j = k
    <3>1. CASE j \in Enabled /\ k \in Enabled
      <4>1. id(j) = id(k) BY <1>4, <2>1, <3>1
      <4> QED BY <1>2, <3>1, <4>1
    <3>2. CASE j \in Enabled /\ k \notin Enabled BY <1>1, <1>4, <2>1, <3>2
    <3>3. CASE j \notin Enabled /\ k \in Enabled BY <1>1, <1>4, <2>1, <3>3
    <3>4. CASE j \notin Enabled /\ k \notin Enabled BY <1>4, <2>1, <3>4 DEF DistinctInv
    <3> QED BY <3>1, <3>2, <3>3, <3>4
  <2> QED BY <2>1 DEF DistinctInv
<1>8. StoredEntryIsLive' BY <1>3, <1>4 DEF StoredEntryIsLive
<1>9. Runs(cron', loaded')
  <2>1. ASSUME NEW e \in cron'
        PROVE  \E j \in TaskKeys : /\ loaded'[j] # Unloaded
                                   /\ e = Entry(loaded'[j].entry, j, loaded'[j].spec)
    <3>1. CASE \E k \in Enabled : e = Entry(id(k), k, row[k].spec)
      BY <1>1, <1>4, <3>1
    <3>2. CASE e \in cron /\ e \notin Replaced
      <4>1. PICK j \in TaskKeys : /\ loaded[j] # Unloaded
                                  /\ e = Entry(loaded[j].entry, j, loaded[j].spec)
        BY <3>2, CronEntries DEF Runs
      <4>2. j \notin Enabled BY <3>2, <4>1 DEF Replaced, Entry
      <4> QED BY <1>4, <4>1, <4>2
    <3> QED BY <1>3, <2>1, <3>1, <3>2
  <2>2. ASSUME NEW j \in TaskKeys, loaded'[j] # Unloaded
        PROVE  Entry(loaded'[j].entry, j, loaded'[j].spec) \in cron'
    <3>1. CASE j \in Enabled BY <1>3, <1>4, <3>1
    <3>2. CASE j \notin Enabled
      <4>1. loaded[j] # Unloaded /\ loaded'[j] = loaded[j] BY <1>4, <2>2, <3>2
      <4>2. Entry(loaded[j].entry, j, loaded[j].spec) \in cron
        BY <4>1, CronEntries DEF Runs
      <4>3. \A k \in Enabled : loaded[k].entry # loaded[j].entry
        BY <1>1, <3>2, <4>1 DEF DistinctInv
      <4>4. Entry(loaded[j].entry, j, loaded[j].spec).id = loaded[j].entry BY DEF Entry
      <4>5. Entry(loaded[j].entry, j, loaded[j].spec) \notin Replaced
        BY <4>3, <4>4 DEF Replaced
      <4> QED BY <1>3, <4>1, <4>2, <4>5
    <3> QED BY <3>1, <3>2
  <2> QED BY <2>1, <2>2 DEF Runs
<1> QED BY <1>5, <1>6, <1>7, <1>8, <1>9, CronEntries

\* A Start that fails leaves cron and the schedules as they were.
LEMMA StartFailsPreserves ==
  ASSUME TaskInv, NEW k \in TaskKeys, StartFails(k)
  PROVE  TablesInv'
<1> USE TaskAssumption DEF TaskInv, TablesInv
<1>1. PICK S \in SUBSET RolledBack(k) :
         /\ row' = [j \in TaskKeys |-> IF j \in S
                                      THEN [row[j] EXCEPT !.entry = NewID(Rank(j))] ELSE row[j]]
         /\ unsure' = unsure \cup S
  BY DEF StartFails
<1>2. S \subseteq Enabled /\ Enabled \subseteq TaskKeys BY DEF RolledBack, Enabled
<1>3. cron' = cron
  <2>1. \A e \in Registered : e.key <= k => e.key \in RolledBack(k)
    BY DEF Registered, Entry, RolledBack
  <2> QED BY <2>1 DEF StartFails
<1>4. loaded' = loaded /\ troubles' \in 0..MaxTroubles
  BY DEF StartFails, Fault, TablesType
<1>5. TablesType'
  <2>1. \A j \in S : NewID(Rank(j)) \in EntryIDs BY <1>2, RegisteredIDs
  <2>2. row' \in [TaskKeys -> [there : BOOLEAN, on : BOOLEAN, spec : Specs,
                              entry : EntryIDs \cup {0}]]
    BY <1>1, <2>1 DEF TablesType
  <2> QED BY <1>1, <1>2, <1>3, <1>4, <2>2 DEF TablesType
<1>6. LoadedInv' /\ DistinctInv' BY <1>4 DEF LoadedInv, DistinctInv
<1>7. CronMatchesLoaded' BY <1>3, <1>4, CronEntries
<1>8. StoredEntryIsLive' BY <1>1, <1>4 DEF StoredEntryIsLive
<1> QED BY <1>5, <1>6, <1>7, <1>8
-----------------------------------------------------------------------------
(* The invariant is inductive. *)

\* A process that has just come up satisfies it, whatever the table says.
LEMMA TaskInitially == TaskInit => TaskInv
<1> SUFFICES ASSUME TaskInit PROVE TaskInv
  OBVIOUS
<1> USE TaskAssumption DEF TaskInit
<1>1. TablesType
  <2>1. row \in [TaskKeys -> [there : BOOLEAN, on : BOOLEAN, spec : Specs,
                              entry : EntryIDs \cup {0}]]
    <3>1. PICK s \in Specs :
            row \in [TaskKeys -> [there : {TRUE}, on : BOOLEAN, spec : {s}, entry : {0}]]
      OBVIOUS
    <3>2. [there : {TRUE}, on : BOOLEAN, spec : {s}, entry : {0}]
            \subseteq [there : BOOLEAN, on : BOOLEAN, spec : Specs, entry : EntryIDs \cup {0}]
      OBVIOUS
    <3> HIDE DEF TaskInit
    <3> QED BY <3>1, <3>2
  <2>2. loaded \in [TaskKeys -> [spec : Specs \cup {NoSpec}, entry : EntryIDs \cup {0}]]
    BY DEF Unloaded
  <2>3. cron = {} /\ unsure = {} /\ troubles \in 0..MaxTroubles
    OBVIOUS
  <2> QED BY <2>1, <2>2, <2>3 DEF TablesType
<1>2. CallsType
  <2>1. due \in [TaskKeys -> Specs \cup {NoSpec}] /\ serving \in BOOLEAN
    BY DEF NothingDue
  <2>2. operate \in [op : {"idle", "start", "stop", "enable", "disable", "delete", "erase"},
                     key : TaskKeys \cup {0}, spec : Specs \cup {NoSpec}]
    BY DEF Idle
  <2>3. edits \in 0..MaxEdits
    OBVIOUS
  <2> QED BY <2>1, <2>2, <2>3 DEF CallsType
<1>3. LoadedInv /\ DistinctInv /\ StoredEntryIsLive /\ OperateInv
  BY DEF LoadedInv, DistinctInv, StoredEntryIsLive, OperateInv, Idle
<1>4. CronMatchesLoaded BY CronEntries DEF Runs
<1> QED BY <1>1, <1>2, <1>3, <1>4 DEF TaskInv, TablesInv

\* A step of Operate or of Delete.
LEMMA OperatePreserves ==
  ASSUME TaskInv,
         \/ OperateSchedules \/ OperateStores
         \/ \E k \in TaskKeys, op \in {"start", "stop", "delete"} : OperateReads(op, k)
  PROVE  TaskInv'
<1> USE TaskAssumption
<1>1. CASE OperateSchedules
  <2>1. operate.op \in {"start", "stop", "delete"}
    BY <1>1 DEF OperateSchedules
  <2>2. operate.key \in TaskKeys /\ operate.spec \in Specs
    BY <2>1 DEF TaskInv, OperateInv
  <2>3. TablesInv'
    BY <1>1, <2>2, UpdatePreserves, RemovePreserves DEF OperateSchedules
  <2>4. \/ operate' = Idle
        \/ \E op \in {"enable", "disable", "erase"} : operate' = [operate EXCEPT !.op = op]
    BY <1>1 DEF OperateSchedules
  <2>5. /\ operate' \in [op : {"idle", "start", "stop", "enable", "disable", "delete", "erase"},
                         key : TaskKeys \cup {0}, spec : Specs \cup {NoSpec}]
        /\ OperateInv'
    <3>1. CASE operate' = Idle BY <3>1 DEF Idle, OperateInv
    <3>2. ASSUME NEW op \in {"enable", "disable", "erase"}, operate' = [operate EXCEPT !.op = op]
          PROVE  /\ operate' \in [op : {"idle", "start", "stop", "enable", "disable", "delete",
                                       "erase"},
                                  key : TaskKeys \cup {0}, spec : Specs \cup {NoSpec}]
                 /\ operate'.key = operate.key /\ operate'.spec = operate.spec
      BY <3>2 DEF TaskInv, CallsType
    <3> QED BY <2>2, <2>4, <3>1, <3>2 DEF OperateInv
  <2>6. CallsType' BY <1>1, <2>5 DEF OperateSchedules, TaskInv, CallsType
  <2> QED BY <2>3, <2>5, <2>6 DEF TaskInv
<1>2. CASE OperateStores
  <2>1. operate.op \in {"enable", "disable", "erase"} /\ operate.key \in TaskKeys
    BY <1>2 DEF OperateStores, TaskInv, OperateInv
  <2>2. \/ row' = row
        \/ row' = [row EXCEPT ![operate.key].on = TRUE]
        \/ row' = [row EXCEPT ![operate.key].on = FALSE]
        \/ row' = [row EXCEPT ![operate.key].there = FALSE]
    BY <1>2, <2>1 DEF OperateStores
  <2>3. /\ row' \in [TaskKeys -> [there : BOOLEAN, on : BOOLEAN, spec : Specs,
                                 entry : EntryIDs \cup {0}]]
        /\ \A k \in TaskKeys : /\ row'[k].entry = row[k].entry
                               /\ row'[k].there => row[k].there
    <3>1. CASE row' = row BY <3>1 DEF TaskInv, TablesInv, TablesType
    <3>2. ASSUME NEW k \in TaskKeys, NEW b \in BOOLEAN,
                 \/ row' = [row EXCEPT ![k].on = b] \/ row' = [row EXCEPT ![k].there = FALSE]
          PROVE  /\ row' \in [TaskKeys -> [there : BOOLEAN, on : BOOLEAN, spec : Specs,
                                          entry : EntryIDs \cup {0}]]
                 /\ \A j \in TaskKeys : /\ row'[j].entry = row[j].entry
                                        /\ row'[j].there => row[j].there
      <4>1. CASE row' = [row EXCEPT ![k].on = b]
        BY <4>1 DEF TaskInv, TablesInv, TablesType
      <4>2. CASE row' = [row EXCEPT ![k].there = FALSE]
        BY <4>2 DEF TaskInv, TablesInv, TablesType
      <4> QED BY <3>2, <4>1, <4>2
    <3>3. CASE row' = [row EXCEPT ![operate.key].on = TRUE]
      BY <2>1, <3>2, <3>3
    <3>4. CASE row' = [row EXCEPT ![operate.key].on = FALSE]
      BY <2>1, <3>2, <3>4
    <3>5. CASE row' = [row EXCEPT ![operate.key].there = FALSE]
      BY <2>1, <3>2, <3>5
    <3> QED BY <2>2, <3>1, <3>3, <3>4, <3>5
  <2>4. UNCHANGED <<cron, loaded, unsure, serving, due, edits>> /\ operate' = Idle
        /\ troubles' \in 0..MaxTroubles
    BY <1>2 DEF OperateStores, Fault, TaskInv, TablesInv, TablesType
  <2>5. TablesType' BY <2>3, <2>4 DEF TaskInv, TablesInv, TablesType
  <2>6. LoadedInv' /\ DistinctInv' BY <2>4 DEF TaskInv, TablesInv, LoadedInv, DistinctInv
  <2>7. StoredEntryIsLive' BY <2>3, <2>4 DEF TaskInv, TablesInv, StoredEntryIsLive
  <2>8. CronMatchesLoaded' BY <2>4, CronEntries DEF TaskInv, TablesInv
  <2>9. CallsType' /\ OperateInv' BY <2>4 DEF TaskInv, CallsType, OperateInv, Idle
  <2> QED BY <2>5, <2>6, <2>7, <2>8, <2>9 DEF TaskInv, TablesInv
<1>3. CASE \E k \in TaskKeys, op \in {"start", "stop", "delete"} : OperateReads(op, k)
  <2>1. PICK k \in TaskKeys, op \in {"start", "stop", "delete"} : OperateReads(op, k)
    BY <1>3
  <2>2. UNCHANGED <<row, cron, loaded, unsure, troubles, serving, due, edits>>
        /\ operate' = [op |-> op, key |-> k, spec |-> row[k].spec]
    BY <2>1 DEF OperateReads
  <2>3. row[k].spec \in Specs BY DEF TaskInv, TablesInv, TablesType
  <2>4. TablesType' /\ LoadedInv' /\ DistinctInv' /\ StoredEntryIsLive'
    BY <2>2 DEF TaskInv, TablesInv, TablesType, LoadedInv, DistinctInv, StoredEntryIsLive
  <2>5. CronMatchesLoaded' BY <2>2, CronEntries DEF TaskInv, TablesInv
  <2>6. CallsType' /\ OperateInv' BY <2>2, <2>3 DEF TaskInv, CallsType, OperateInv
  <2> QED BY <2>4, <2>5, <2>6 DEF TaskInv, TablesInv
<1> QED BY <1>1, <1>2, <1>3

\* Every step of the specification preserves it.
LEMMA TaskStepPreserves == TaskInv /\ [TaskNext]_taskVars => TaskInv'
<1> SUFFICES ASSUME TaskInv, [TaskNext]_taskVars PROVE TaskInv'
  OBVIOUS
<1> USE TaskAssumption
<1>1. CASE StartOK
  <2>1. CallsType' /\ OperateInv' BY <1>1 DEF StartOK, TaskInv, CallsType, OperateInv
  <2> QED BY <1>1, <2>1, TaskStartPreserves DEF TaskInv
<1>2. CASE Restart
  <2>1. cron' = {} /\ row' = row /\ unsure' = unsure /\ troubles' \in 0..MaxTroubles
        /\ loaded' = [k \in TaskKeys |-> Unloaded]
    BY <1>2 DEF Restart, Fault, TaskInv, TablesInv, TablesType
  <2>2. TablesType' BY <2>1 DEF TaskInv, TablesInv, TablesType, Unloaded
  <2>3. LoadedInv' /\ DistinctInv' /\ StoredEntryIsLive'
    BY <2>1 DEF LoadedInv, DistinctInv, StoredEntryIsLive
  <2>4. CronMatchesLoaded' BY <2>1, CronEntries DEF Runs
  <2>5. CallsType' /\ OperateInv'
    BY <1>2 DEF Restart, TaskInv, CallsType, OperateInv, NothingDue, Idle
  <2> QED BY <2>2, <2>3, <2>4, <2>5 DEF TaskInv, TablesInv
<1>3. CASE OperateSchedules \/ OperateStores
  BY <1>3, OperatePreserves
<1>4. CASE \E k \in TaskKeys, op \in {"start", "stop", "delete"} : OperateReads(op, k)
  BY <1>4, OperatePreserves
<1>5. ASSUME NEW k \in TaskKeys, StartFails(k) PROVE TaskInv'
  <2>1. CallsType' /\ OperateInv' BY <1>5 DEF StartFails, TaskInv, CallsType, OperateInv
  <2> QED BY <1>5, <2>1, StartFailsPreserves DEF TaskInv
<1>6. ASSUME NEW k \in TaskKeys, NEW s \in Specs, Edit(k, s) PROVE TaskInv'
  <2>1. /\ UNCHANGED <<cron, loaded, unsure, troubles, serving, due, operate>>
        /\ edits' \in 0..MaxEdits /\ row' = [row EXCEPT ![k].spec = s]
    BY <1>6 DEF Edit, TaskInv, CallsType
  <2>2. /\ row' \in [TaskKeys -> [there : BOOLEAN, on : BOOLEAN, spec : Specs,
                                 entry : EntryIDs \cup {0}]]
        /\ \A j \in TaskKeys : row'[j].entry = row[j].entry /\ row'[j].there = row[j].there
    BY <2>1 DEF TaskInv, TablesInv, TablesType
  <2>3. TablesType' /\ LoadedInv' /\ DistinctInv' /\ StoredEntryIsLive'
    BY <2>1, <2>2 DEF TaskInv, TablesInv, TablesType, LoadedInv, DistinctInv, StoredEntryIsLive
  <2>4. CronMatchesLoaded' BY <2>1, CronEntries DEF TaskInv, TablesInv
  <2>5. CallsType' /\ OperateInv' BY <2>1 DEF TaskInv, CallsType, OperateInv
  <2> QED BY <2>3, <2>4, <2>5 DEF TaskInv, TablesInv
<1>7. ASSUME NEW S \in SUBSET TaskKeys, ReconcileReads(S) PROVE TaskInv'
  <2>1. UNCHANGED <<row, cron, loaded, unsure, troubles, serving, operate, edits>>
        /\ due' = [k \in TaskKeys |-> IF k \in S THEN row[k].spec ELSE NoSpec]
    BY <1>7 DEF ReconcileReads
  <2>2. TablesType' /\ LoadedInv' /\ DistinctInv' /\ StoredEntryIsLive'
    BY <2>1 DEF TaskInv, TablesInv, TablesType, LoadedInv, DistinctInv, StoredEntryIsLive
  <2>3. CronMatchesLoaded' BY <2>1, CronEntries DEF TaskInv, TablesInv
  <2>4. due' \in [TaskKeys -> Specs \cup {NoSpec}]
    BY <2>1 DEF TaskInv, TablesInv, TablesType
  <2>5. CallsType' /\ OperateInv' BY <2>1, <2>4 DEF TaskInv, CallsType, OperateInv
  <2> QED BY <2>2, <2>3, <2>5 DEF TaskInv, TablesInv
<1>8. ASSUME NEW k \in TaskKeys, ReconcileUpdates(k) PROVE TaskInv'
  <2>1. due[k] \in Specs BY <1>8 DEF ReconcileUpdates, TaskInv, CallsType
  <2>2. TablesInv' BY <1>8, <2>1, UpdatePreserves DEF ReconcileUpdates
  <2>3. CallsType' /\ OperateInv'
    BY <1>8 DEF ReconcileUpdates, TaskInv, CallsType, OperateInv
  <2> QED BY <2>2, <2>3 DEF TaskInv
<1>9. CASE UNCHANGED taskVars
  <2>1. UNCHANGED <<row, cron, loaded, serving, due, operate, unsure, troubles, edits>>
    BY <1>9 DEF taskVars
  <2>2. TablesType' /\ LoadedInv' /\ DistinctInv' /\ StoredEntryIsLive'
    BY <2>1 DEF TaskInv, TablesInv, TablesType, LoadedInv, DistinctInv, StoredEntryIsLive
  <2>3. CronMatchesLoaded' BY <2>1, CronEntries DEF TaskInv, TablesInv
  <2>4. CallsType' /\ OperateInv' BY <2>1 DEF TaskInv, CallsType, OperateInv
  <2> QED BY <2>2, <2>3, <2>4 DEF TaskInv, TablesInv
<1> QED BY <1>1, <1>2, <1>3, <1>4, <1>5, <1>6, <1>7, <1>8, <1>9 DEF TaskNext, Reconcile

\* It holds in every reachable state.
LEMMA TaskInvariance == TaskSpec => []TaskInv
BY TaskInitially, TaskStepPreserves, PTL DEF TaskSpec
-----------------------------------------------------------------------------
(* What follows from it. *)

\* Every reachable state of the task server is well typed.
THEOREM TaskTypeCorrect == TaskSpec => []TaskTypeOK
<1>1. TaskInv => TaskTypeOK BY DEF TaskInv, TablesInv, TablesType, CallsType, TaskTypeOK
<1> QED BY <1>1, TaskInvariance, PTL

\* Whatever is started, stopped, edited, deleted and reconciled, and whichever
\* storage calls fail on the way, cron runs exactly one entry for each schedule
\* the process takes for loaded, and the table has its id unless a storage call
\* failed and could not be undone.
THEOREM TaskSoundness == TaskSpec => []TaskIsSound
<1>1. TaskInv => TaskIsSound BY DEF TaskInv, TablesInv, TaskIsSound
<1> QED BY <1>1, TaskInvariance, PTL

-----------------------------------------------------------------------------
(* The server manager.                                                     *)

Begun == manager \notin {"idle", "select"}
HasEnded(c) == component[c] \in {"returned", "sent"}
(* A channel holds the components whose result is on its way, each once.   *)
ChannelInv ==
    /\ \A c \in Components : HasEnded(c) <=> result[c] \in Ended
    /\ \A n \in 1..Len(results) : component[results[n]] = "sent" /\ results[n] \notin received
    /\ \A n, m \in 1..Len(results) : results[n] = results[m] => n = m
    /\ \A c \in received : component[c] = "sent"
    /\ \A c \in Components : component[c] = "sent" => c \in received \/ c \in Items(results)
(* Where Start stands, and what that says of the rest.                     *)
ProgressInv ==
    /\ manager = "idle" => results = <<>> /\ \A c \in Components : component[c] = "idle"
    /\ ~Begun => received = {} /\ reported = {} /\ ~cancelled
    /\ Begun => cancelled
    /\ manager = "partial" => timedOut
    /\ manager = "complete" => \A c \in Components : component[c] = "sent"
    /\ NothingIsLeftBehind
(* What was taken from the channel was judged, and nobody else.            *)
BlameInv ==
    /\ \A c \in received :
          result[c] = "failed" \/ (result[c] = "deadline" /\ ctxErr # "deadline")
              => {<<c, "running">>, <<c, "shutdown">>} \cap reported # {}
    /\ \A c \in Components : <<c, "shutdown">> \in reported =>
          c \in received /\ result[c] \in {"failed", "deadline"}
ServerInv == ServerTypeOK /\ ChannelInv /\ ProgressInv /\ BlameInv

LEMMA InjectiveIsShort ==
  ASSUME NEW s \in Seq(Components), \A n, m \in 1..Len(s) : s[n] = s[m] => n = m
  PROVE  Len(s) <= Cardinality(Components)
<1>1. IsFiniteSet(Components) BY ServerAssumption
<1>2. /\ Len(s) \in Nat /\ s \in [1..Len(s) -> Components]
      /\ IsFiniteSet(1..Len(s)) /\ Cardinality(1..Len(s)) = Len(s)
  <2>1. Len(s) \in Nat /\ s \in [1..Len(s) -> Components] OBVIOUS
  <2>2. IsFiniteSet(1..Len(s)) BY <2>1, FS_Interval
  <2>3. Cardinality(1..Len(s)) = Len(s) BY <2>1, FS_Interval
  <2> QED BY <2>1, <2>2, <2>3
<1>3. Cardinality(Components) \in Nat BY <1>1, FS_CardinalityType
<1> SUFFICES ASSUME Cardinality(Components) < Cardinality(1..Len(s)) PROVE FALSE
  BY <1>2, <1>3
<1> QED BY <1>1, <1>2, FS_PigeonHole

LEMMA ServerInitially == ServerInit => ServerInv
<1> SUFFICES ASSUME ServerInit PROVE ServerInv
  OBVIOUS
<1>1. Cardinality(Components) \in Nat BY ServerAssumption, FS_CardinalityType
<1>2. ServerTypeOK
  <2>1. results \in Seq(Components) /\ Len(results) <= Cardinality(Components)
    BY <1>1 DEF ServerInit
  <2> QED BY <2>1 DEF ServerInit, ServerTypeOK, Ended
<1>3. ChannelInv BY DEF ServerInit, ChannelInv, HasEnded, Ended
<1>4. ProgressInv /\ BlameInv
  BY DEF ServerInit, ProgressInv, BlameInv, Begun, NothingIsLeftBehind
<1> QED BY <1>2, <1>3, <1>4 DEF ServerInv

(* A component that goes on or returns, but does not send.                 *)
LEMMA ComponentMoves ==
  ASSUME ServerInv, NEW c \in Components, component[c] \in {"serving", "stopping"},
         \/ /\ component' = [component EXCEPT ![c] = "stopping"] /\ UNCHANGED result
         \/ /\ component' = [component EXCEPT ![c] = "returned"]
            /\ \E e \in Ended : result' = [result EXCEPT ![c] = e],
         UNCHANGED <<graceful, ctxErr, cancelled, results, manager, received, reported, timedOut>>
  PROVE  ServerInv'
<1> USE DEF ServerInv
<1>1. /\ \A d \in Components \ {c} : component'[d] = component[d] /\ result'[d] = result[d]
      /\ \A d \in Components : component[d] = "sent" <=> component'[d] = "sent"
      /\ HasEnded(c)' <=> result'[c] \in Ended
  BY DEF ServerTypeOK, HasEnded, ChannelInv, Ended
<1>2. ServerTypeOK' BY DEF ServerTypeOK, Ended
<1>3. \A d \in received : d # c /\ d \in Components BY DEF ChannelInv, ServerTypeOK
<1>4. ChannelInv'
  <2>1. \A n \in 1..Len(results) : results[n] \in Components /\ results[n] # c
    BY DEF ServerTypeOK, ChannelInv
  <2>2. \A d \in Components : HasEnded(d)' <=> result'[d] \in Ended
    BY <1>1 DEF ChannelInv, HasEnded
  <2>3. \A d \in received : component'[d] = "sent" BY <1>1, <1>3 DEF ChannelInv
  <2>4. \A n \in 1..Len(results) : component'[results[n]] = "sent" BY <1>1, <2>1 DEF ChannelInv
  <2>5. \A d \in Components : component'[d] = "sent" => d \in received \/ d \in Items(results)
    BY <1>1 DEF ChannelInv
  <2> QED BY <2>2, <2>3, <2>4, <2>5 DEF ChannelInv, Items
<1>5. ProgressInv'
  BY <1>1 DEF ProgressInv, Begun, NothingIsLeftBehind, ServerTypeOK
<1>6. BlameInv' BY <1>1, <1>3 DEF BlameInv
<1> QED BY <1>2, <1>4, <1>5, <1>6

LEMMA ServerStepPreserves == ServerInv /\ [ServerNext]_serverVars => ServerInv'
<1> SUFFICES ASSUME ServerInv, [ServerNext]_serverVars PROVE ServerInv'
  OBVIOUS
<1> USE DEF ServerInv
<1>1. CASE ManagerStart
  <2>1. ServerTypeOK' BY <1>1 DEF ManagerStart, ServerTypeOK
  <2>2. results = <<>> /\ received = {} /\ \A c \in Components : result[c] \notin Ended
    BY <1>1 DEF ManagerStart, ProgressInv, ChannelInv, HasEnded, Begun
  <2>3. ChannelInv' BY <1>1, <2>2 DEF ManagerStart, ChannelInv, HasEnded
  <2>4. ProgressInv' BY <1>1 DEF ManagerStart, ProgressInv, Begun, NothingIsLeftBehind
  <2>5. BlameInv' BY <1>1 DEF ManagerStart, BlameInv
  <2> QED BY <2>1, <2>3, <2>4, <2>5
<1>2. ASSUME NEW e \in {"canceled", "deadline"}, CallerEnds(e) PROVE ServerInv'
  <2>1. ServerTypeOK' /\ ChannelInv'
    BY <1>2 DEF CallerEnds, ServerTypeOK, ChannelInv, HasEnded, Items
  <2>2. ProgressInv' BY <1>2 DEF CallerEnds, ProgressInv, Begun, NothingIsLeftBehind
  <2>3. BlameInv' BY <1>2 DEF CallerEnds, BlameInv
  <2> QED BY <2>1, <2>2, <2>3
<1>3. ASSUME NEW c \in Components,
             ExitsAlone(c) \/ StopsServing(c) \/ Drains(c) \/ ShutdownTimesOut(c)
      PROVE  ServerInv'
  <2>1. /\ component[c] \in {"serving", "stopping"}
        /\ \/ /\ component' = [component EXCEPT ![c] = "stopping"] /\ UNCHANGED result
           \/ /\ component' = [component EXCEPT ![c] = "returned"]
              /\ \E e \in Ended : result' = [result EXCEPT ![c] = e]
        /\ UNCHANGED <<graceful, ctxErr, cancelled, results, manager, received, reported, timedOut>>
    BY <1>3 DEF ExitsAlone, StopsServing, Drains, ShutdownTimesOut, Returns, Ended
  <2> QED BY <2>1, ComponentMoves
<1>4. ASSUME NEW c \in Components, Sends(c) PROVE ServerInv'
  <2>1. /\ results' \in Seq(Components) /\ Len(results') = Len(results) + 1
        /\ \A n \in 1..Len(results) : results'[n] = results[n] /\ results[n] # c
                                      /\ results[n] \in Components
        /\ results'[Len(results) + 1] = c /\ Len(results) \in Nat
    BY <1>4 DEF Sends, ServerTypeOK, ChannelInv
  <2>2. \A n, m \in 1..Len(results') : results'[n] = results'[m] => n = m
    BY <2>1 DEF ChannelInv
  <2>3. Len(results') <= Cardinality(Components) BY <2>1, <2>2, InjectiveIsShort
  <2>4. ServerTypeOK' BY <1>4, <2>1, <2>3 DEF Sends, ServerTypeOK
  <2>5. /\ component[c] = "returned" /\ component'[c] = "sent" /\ c \notin received
        /\ \A d \in Components \ {c} : component'[d] = component[d]
        /\ received \subseteq Components
    BY <1>4 DEF Sends, ServerTypeOK, ChannelInv
  <2>6. ChannelInv'
    <3>1. \A d \in Components : HasEnded(d)' <=> result'[d] \in Ended
      BY <1>4, <2>5 DEF Sends, ChannelInv, HasEnded
    <3>2. \A n \in 1..Len(results') : component'[results'[n]] = "sent" /\ results'[n] \notin received'
      BY <1>4, <2>1, <2>5 DEF Sends, ChannelInv
    <3>3. \A d \in received' : component'[d] = "sent" BY <1>4, <2>5 DEF Sends, ChannelInv
    <3>4. ASSUME NEW d \in Components, component'[d] = "sent"
          PROVE  d \in received' \/ d \in Items(results)'
      <4>1. CASE d = c BY <2>1, <4>1 DEF Items
      <4>2. CASE d # c /\ d \in received BY <1>4, <4>2 DEF Sends
      <4>3. CASE d # c /\ d \in Items(results)
        BY <2>1, <4>3 DEF Items
      <4> QED BY <2>5, <3>4, <4>1, <4>2, <4>3 DEF ChannelInv
    <3> QED BY <2>2, <3>1, <3>2, <3>3, <3>4 DEF ChannelInv
  <2>7. ProgressInv'
    BY <1>4, <2>5 DEF Sends, ProgressInv, Begun, NothingIsLeftBehind
  <2>8. BlameInv' BY <1>4 DEF Sends, BlameInv
  <2> QED BY <2>4, <2>6, <2>7, <2>8
<1>5. CASE SelectsCancellation
  <2>1. ServerTypeOK' /\ ChannelInv'
    BY <1>5 DEF SelectsCancellation, Cancels, ServerTypeOK, ChannelInv, HasEnded, Items
  <2>2. ProgressInv'
    BY <1>5 DEF SelectsCancellation, Cancels, ProgressInv, Begun, NothingIsLeftBehind
  <2>3. BlameInv' BY <1>5 DEF SelectsCancellation, BlameInv
  <2> QED BY <2>1, <2>2, <2>3
<1>6. CASE SelectsResult
  <2> DEFINE c == Head(results)
  <2>1. /\ c \in Components /\ c = results[1] /\ Len(results) \in Nat \ {0}
        /\ results' \in Seq(Components) /\ Len(results') = Len(results) - 1
        /\ \A n \in 1..Len(results') : results'[n] = results[n + 1]
    BY <1>6 DEF SelectsResult, ServerTypeOK
  <2>2. component[c] = "sent" /\ result[c] \in Ended
    BY <2>1 DEF ChannelInv, HasEnded
  <2>3. received = {} /\ reported = {} /\ ~cancelled
    BY <1>6 DEF SelectsResult, ProgressInv, Begun
  <2>4. reported' \subseteq {<<c, "running">>, <<c, "shutdown">>}
    BY <1>6 DEF SelectsResult, FirstErrors, ShutdownErrors
  <2>5. ServerTypeOK'
    <3>1. manager' \in {"idle", "select", "waiting", "complete", "partial", "done"} /\ cancelled' \in BOOLEAN
      BY <1>6 DEF SelectsResult, Cancels
    <3>2. Cardinality(Components) \in Nat BY ServerAssumption, FS_CardinalityType
    <3>3. Len(results') <= Cardinality(Components) BY <2>1, <3>2 DEF ServerTypeOK
    <3>4. received' \subseteq Components /\ reported' \subseteq Components \X {"running", "shutdown"}
      BY <1>6, <2>1, <2>4 DEF SelectsResult
    <3> QED BY <1>6, <2>1, <3>1, <3>3, <3>4 DEF SelectsResult, ServerTypeOK
  <2>6. ChannelInv'
    <3>1. \A n \in 1..Len(results') : component'[results'[n]] = "sent" /\ results'[n] \notin received'
      BY <1>6, <2>1 DEF SelectsResult, ChannelInv
    <3>2. \A n, m \in 1..Len(results') : results'[n] = results'[m] => n = m
      BY <2>1 DEF ChannelInv
    <3>3. ASSUME NEW d \in Components, component'[d] = "sent"
          PROVE  d \in received' \/ d \in Items(results)'
      <4>1. PICK n \in 1..Len(results) : d = results[n]
        BY <1>6, <2>3, <3>3 DEF SelectsResult, ChannelInv, Items
      <4>2. CASE n = 1 BY <1>6, <2>1, <4>1, <4>2 DEF SelectsResult
      <4>3. CASE n # 1
        <5>1. n - 1 \in 1..Len(results') /\ results'[n - 1] = d BY <2>1, <4>1, <4>3
        <5> QED BY <5>1 DEF Items
      <4> QED BY <4>2, <4>3
    <3>4. \A d \in received' : component'[d] = "sent" BY <1>6, <2>2 DEF SelectsResult
    <3>5. \A d \in Components : HasEnded(d)' <=> result'[d] \in Ended
      BY <1>6 DEF SelectsResult, ChannelInv, HasEnded
    <3> QED BY <3>1, <3>2, <3>3, <3>4, <3>5 DEF ChannelInv
  <2>7. ProgressInv'
    BY <1>6 DEF SelectsResult, Cancels, ProgressInv, Begun, NothingIsLeftBehind
  <2>8. BlameInv'
    <3>1. UNCHANGED <<result, ctxErr>> /\ received' = {c} /\ reported' = FirstErrors(c)
      BY <1>6 DEF SelectsResult
    <3>2. CASE RunEnded
      <4>1. ctxErr # "none" BY <2>3, <3>2 DEF RunEnded
      <4>2. reported' = IF Normal(result[c]) THEN {} ELSE {<<c, "shutdown">>}
        BY <3>1, <3>2 DEF FirstErrors, ShutdownErrors
      <4>3. Normal(result[c]) <=> result[c] \in {"nil", "canceled", ctxErr}
        BY <4>1 DEF Normal, CancellationErr
      <4> QED BY <2>2, <3>1, <4>1, <4>2, <4>3 DEF BlameInv, Ended, ServerTypeOK
    <3>3. CASE ~RunEnded
      BY <3>1, <3>3 DEF FirstErrors, BlameInv
    <3> QED BY <3>2, <3>3
  <2> QED BY <2>5, <2>6, <2>7, <2>8
<1>7. CASE WaitCompletes
  <2>1. ServerTypeOK' /\ ChannelInv'
    BY <1>7 DEF WaitCompletes, ServerTypeOK, ChannelInv, HasEnded, Items
  <2>2. ProgressInv' BY <1>7 DEF WaitCompletes, ProgressInv, Begun, NothingIsLeftBehind
  <2>3. BlameInv' BY <1>7 DEF WaitCompletes, BlameInv
  <2> QED BY <2>1, <2>2, <2>3
<1>8. CASE WaitTimesOut
  <2>1. ServerTypeOK' /\ ChannelInv'
    BY <1>8 DEF WaitTimesOut, ServerTypeOK, ChannelInv, HasEnded, Items
  <2>2. ProgressInv' BY <1>8 DEF WaitTimesOut, ProgressInv, Begun, NothingIsLeftBehind
  <2>3. BlameInv' BY <1>8 DEF WaitTimesOut, BlameInv
  <2> QED BY <2>1, <2>2, <2>3
<1>9. CASE Collects
  <2>1. /\ Items(results) \subseteq Components /\ \A c \in Items(results) : component[c] = "sent"
        /\ \A c \in Components : component[c] = "sent" => c \in received \cup Items(results)
        /\ \A c \in Items(results) : result[c] \in Ended
    BY DEF Items, ServerTypeOK, ChannelInv, HasEnded
  <2>2. ShutdownErrors(Items(results)) \subseteq Components \X {"running", "shutdown"}
    BY <2>1 DEF ShutdownErrors
  <2>3. ServerTypeOK'
    <3>1. Cardinality(Components) \in Nat BY ServerAssumption, FS_CardinalityType
    <3>2. received' \subseteq Components /\ reported' \subseteq Components \X {"running", "shutdown"}
      BY <1>9, <2>1, <2>2 DEF Collects, CollectedErrors, ServerTypeOK
    <3>3. results' \in Seq(Components) /\ Len(results') <= Cardinality(Components)
      BY <1>9, <3>1 DEF Collects
    <3> QED BY <1>9, <3>2, <3>3 DEF Collects, ServerTypeOK
  <2>4. ChannelInv' BY <1>9, <2>1 DEF Collects, ChannelInv, HasEnded, Items
  <2>5. ProgressInv'
    BY <1>9, <2>1 DEF Collects, ProgressInv, Begun, NothingIsLeftBehind, ServerTypeOK
  <2>6. BlameInv'
    <3>1. UNCHANGED <<result, ctxErr>> /\ received' = received \cup Items(results)
          /\ reported' = reported \cup ShutdownErrors(Items(results))
      BY <1>9 DEF Collects, CollectedErrors
    <3>2. \A c \in Items(results) : ~Normal(result[c]) => <<c, "shutdown">> \in reported'
      BY <3>1 DEF ShutdownErrors
    <3>3. \A c \in Components : <<c, "shutdown">> \in reported' \ reported =>
             c \in Items(results) /\ ~Normal(result[c])
      BY <3>1 DEF ShutdownErrors
    <3>4. \A e : Normal(e) <=> e \in {"nil", "canceled", IF ctxErr # "none" THEN ctxErr ELSE "canceled"}
      BY DEF Normal, CancellationErr
    <3>5. ASSUME NEW c \in received',
                 result[c] = "failed" \/ (result[c] = "deadline" /\ ctxErr # "deadline")
          PROVE  {<<c, "running">>, <<c, "shutdown">>} \cap reported' # {}
      <4>1. CASE c \in received BY <3>1, <3>5, <4>1 DEF BlameInv
      <4>2. CASE c \in Items(results) BY <3>2, <3>4, <3>5, <4>2 DEF ServerTypeOK
      <4> QED BY <3>1, <3>5, <4>1, <4>2
    <3>6. ASSUME NEW c \in Components, <<c, "shutdown">> \in reported'
          PROVE  c \in received' /\ result[c] \in {"failed", "deadline"}
      <4>1. CASE <<c, "shutdown">> \in reported BY <3>1, <4>1 DEF BlameInv
      <4>2. CASE <<c, "shutdown">> \notin reported BY <2>1, <3>1, <3>3, <3>4, <3>6, <4>2 DEF Ended
      <4> QED BY <4>1, <4>2
    <3> QED BY <3>1, <3>5, <3>6 DEF BlameInv
  <2> QED BY <2>3, <2>4, <2>5, <2>6
<1>10. CASE UNCHANGED serverVars
  <2>1. ServerTypeOK' /\ ChannelInv' BY <1>10 DEF serverVars, ServerTypeOK, ChannelInv,
       HasEnded, Items
  <2>2. ProgressInv' /\ BlameInv'
    BY <1>10 DEF serverVars, ProgressInv, Begun, NothingIsLeftBehind, BlameInv
  <2> QED BY <2>1, <2>2
<1> QED BY <1>1, <1>2, <1>3, <1>4, <1>5, <1>6, <1>7, <1>8, <1>9, <1>10
    DEF ServerNext, ManagerStep, ComponentStops

LEMMA ServerInvIsSound == ServerInv => ServerTypeOK /\ ServerIsSound
<1> SUFFICES ASSUME ServerInv PROVE ServerTypeOK /\ ServerIsSound
  OBVIOUS
<1>1. FailuresAreReported BY DEF ServerInv, BlameInv, FailuresAreReported
<1> QED BY <1>1 DEF ServerInv, ProgressInv, ServerIsSound

(* A failure the manager heard of is in what Start answers, and Start     *)
(* returns with every component ended and heard, or says it waited too    *)
(* long, for any components.                                               *)
THEOREM ServerSafe == ServerSpec => [](ServerTypeOK /\ ServerIsSound)
<1> QED BY ServerInitially, ServerStepPreserves, ServerInvIsSound, PTL DEF ServerSpec

-----------------------------------------------------------------------------
(* The runtime configuration.                                              *)

QueuePointers == {queueOwned, queueRetiring, queueCenter}
RuntimePointers == {runtimeOwned, runtimeCenter, runtimePrevious}
Quiet == \A c \in ConfigCalls : step[c] \in {"idle", "done"}
OneAtATime ==
    \A c, d \in ConfigCalls : step[c] \notin {"idle", "done"} /\ step[d] \notin {"idle", "done"} => c = d

(* The steps of each kind of call.                                         *)
UndoSteps == {"undoQueue", "undoRuntime", "undoDatabase"}
Candidates == {"runtime", "queue", "restore", "unbind", "closeQueue", "swapRuntime",
               "closeRuntime", "publish"} \cup UndoSteps
LastSteps == {"endStorage", "drainStorage", "endDatabase"}
KindInv(c) ==
    /\ c \in Loads => step[c] \in {"idle", "open", "swap", "drain", "done"} \cup Candidates
    /\ c \in Changes => step[c] \in {"idle", "open", "bind", "install", "swap", "drain", "done"}
    /\ c \in Shutdowns => step[c] \in {"idle", "endRuntime", "withdraw", "unbind", "closeQueue",
                                       "drain", "done"} \cup LastSteps
    /\ c \notin Loads => queues[c] = "none" /\ runtimes[c] = "none"
(* A call has made nothing before it does, and nobody else reaches a       *)
(* candidate that is not published.                                        *)
FreshInv(c) ==
    /\ step[c] \in {"idle", "open"} =>
          databases[c] = "none" /\ queues[c] = "none" /\ runtimes[c] = "none"
    /\ step[c] = "runtime" => queues[c] = "none" /\ runtimes[c] = "none"
    /\ step[c] = "queue" => queues[c] = "none"
    /\ step[c] \in {"idle", "open"} \/ (c \in Loads /\ step[c] \in Candidates) =>
          c \notin QueuePointers \cup RuntimePointers \cup {dbOwned}

OpenAre(S) == \A h \in ConfigCalls : databases[h] = "open" <=> h \in S
DatabaseRests == dbDefault = dbOwned /\ dbPrevious = Nothing /\ OpenAre({dbOwned})
DatabaseAt(c) ==
    /\ step[c] \in {"open", "endRuntime", "withdraw"} \cup LastSteps => DatabaseRests
    /\ c \in Shutdowns /\ step[c] \in {"unbind", "closeQueue"} => DatabaseRests
    /\ step[c] \in {"bind", "install"} =>
          dbDefault = dbOwned /\ dbPrevious = Nothing /\ OpenAre({dbOwned, c}) /\ dbOwned # c
    /\ c \in Loads /\ step[c] \in Candidates => dbPrevious = dbOwned /\ OpenAre({dbOwned, c})
    /\ step[c] \in {"runtime", "queue", "restore"} => dbDefault = c
    /\ c \in Loads /\ step[c] \in {"unbind", "closeQueue", "swapRuntime", "closeRuntime", "publish"}
          => dbDefault = dbOwned
    /\ step[c] \in UndoSteps => dbDefault \in {c, dbOwned}
    /\ step[c] = "swap" => dbDefault = c /\ dbOwned # c /\ OpenAre({dbOwned, c})
                           /\ dbPrevious \in {Nothing, dbOwned}
    /\ step[c] = "drain" =>
          dbDefault = dbOwned /\ dbPrevious \notin {Nothing, dbOwned} /\ OpenAre({dbOwned, dbPrevious})

OpenQueues(S) == \A q \in ConfigCalls : queues[q] = "open" => q \in S
QueueRests == queueCenter = queueOwned /\ OpenQueues({queueOwned})
QueuesGone == queueOwned = Nothing /\ queueRetiring = Nothing /\ queueCenter = Nothing
QueueAt(c) ==
    /\ step[c] \in {"open", "bind", "install", "endRuntime", "withdraw", "swap", "drain", "runtime",
                    "queue", "undoRuntime", "undoDatabase"} => QueueRests
    /\ step[c] \in {"restore", "undoQueue"} =>
          queueCenter = queueOwned /\ OpenQueues({queueOwned, c}) /\ queues[c] \in {"none", "open"}
    /\ step[c] \in {"unbind", "closeQueue"} => queueOwned = Nothing /\ OpenQueues({queueRetiring, c})
                                               /\ queues[c] \in {"none", "open"}
    /\ step[c] = "unbind" => queueCenter \in {Nothing, queueRetiring}
    /\ step[c] = "closeQueue" => queueCenter = Nothing /\ queueRetiring # Nothing
    /\ step[c] \in {"swapRuntime", "closeRuntime", "publish"} =>
          QueuesGone /\ OpenQueues({c}) /\ queues[c] \in {"none", "open"}
    /\ step[c] \in LastSteps => QueuesGone /\ OpenQueues({})
QueuesInv ==
    /\ QueuePointers \subseteq Loads \cup {Nothing}
    /\ \A q \in ConfigCalls : queues[q] = "closing" => queueRetiring = q
    /\ \A q \in {queueOwned, queueCenter} \ {Nothing} : queues[q] = "open"
    /\ OneQueueAtATime

RuntimesLive(S) == \A r \in ConfigCalls : runtimes[r] \in {"open", "closing"} => r \in S
RuntimeAt(c) ==
    /\ step[c] \in {"open", "bind", "install", "endRuntime", "swap", "drain", "undoDatabase", "runtime"}
          => RuntimesLive({runtimeOwned})
    /\ c \in Loads /\ step[c] \in {"queue", "restore", "unbind", "closeQueue", "swapRuntime",
                                   "undoQueue", "undoRuntime"} =>
          RuntimesLive({runtimeOwned, c}) /\ runtimes[c] \in {"none", "open"}
    /\ step[c] = "closeRuntime" => runtimeOwned = Nothing /\ RuntimesLive({runtimePrevious, c})
                                   /\ runtimePrevious # Nothing /\ runtimes[c] \in {"none", "open"}
    /\ step[c] = "publish" =>
          runtimeOwned = Nothing /\ RuntimesLive({c}) /\ runtimes[c] \in {"none", "open"}
    /\ c \in Shutdowns /\ step[c] \in {"withdraw", "unbind", "closeQueue"} \cup LastSteps =>
          runtimeOwned = Nothing /\ RuntimesLive({})
RuntimesInv ==
    /\ RuntimePointers \subseteq Loads \cup {Nothing}
    /\ runtimeCenter \in {Nothing, runtimeOwned}
    /\ runtimeCenter # Nothing => runtimes[runtimeCenter] = "open"

LeaseInv == \A u \in DatabaseUsers : borrowed[u] \in ConfigCalls => borrowed[u] \in {dbOwned, dbPrevious}
StorageInv ==
    /\ ~storage.closing => storage.transport /\ storage.root
    /\ \A u \in ObjectUsers : storing[u] = "using" => storage.transport /\ storage.root

ConfigInv ==
    /\ ConfigTypeOK /\ OneAtATime /\ QueuesInv /\ RuntimesInv /\ LeaseInv /\ StorageInv
    /\ \A c \in ConfigCalls : KindInv(c) /\ FreshInv(c) /\ DatabaseAt(c) /\ QueueAt(c) /\ RuntimeAt(c)
    /\ Quiet => DatabaseRests /\ QueueRests /\ RuntimesLive({runtimeOwned})

LEMMA ConfigInitially == ConfigInit => ConfigInv
<1> SUFFICES ASSUME ConfigInit PROVE ConfigInv
  OBVIOUS
<1>1. \A c \in ConfigCalls : step[c] = "idle" /\ databases[c] = "none" /\ queues[c] = "none"
                              /\ runtimes[c] = "none" /\ c # Nothing
  BY ConfigAssumption DEF ConfigInit
<1>2. ConfigTypeOK BY DEF ConfigInit, ConfigTypeOK, Steps, Phases, Maybe
<1>3. OneAtATime /\ QueuesInv /\ RuntimesInv
  BY <1>1 DEF ConfigInit, OneAtATime, QueuesInv, RuntimesInv, QueuePointers, RuntimePointers,
     OneQueueAtATime,
              IsSet
<1>4. LeaseInv /\ StorageInv BY ConfigAssumption DEF ConfigInit, LeaseInv, StorageInv
<1>5. \A c \in ConfigCalls : KindInv(c) /\ FreshInv(c)
  BY <1>1 DEF ConfigInit, KindInv, FreshInv, QueuePointers, RuntimePointers
<1>6. \A c \in ConfigCalls : DatabaseAt(c) /\ QueueAt(c) /\ RuntimeAt(c)
  BY <1>1 DEF DatabaseAt, QueueAt, RuntimeAt, LastSteps, Candidates, UndoSteps
<1>7. DatabaseRests /\ QueueRests /\ RuntimesLive({runtimeOwned})
  BY <1>1 DEF ConfigInit, DatabaseRests, QueueRests, OpenAre, OpenQueues, RuntimesLive
<1> QED BY <1>2, <1>3, <1>4, <1>5, <1>6, <1>7 DEF ConfigInv

(* A call moves while the others rest.                                     *)
LEMMA CallMoves ==
  ASSUME ConfigInv, NEW c \in ConfigCalls, Begin(c) \/ ConfigStep(c)
  PROVE  /\ step[c] \in Steps \ {"done"} /\ step'[c] \in Steps \ {"idle"}
         /\ step' \in [ConfigCalls -> Steps]
         /\ \A d \in ConfigCalls \ {c} : step[d] \in {"idle", "done"} /\ step'[d] = step[d]
         /\ Quiet' <=> step'[c] = "done"
<1> DEFINE Ahead == Steps \ {"idle"}
<1>1. PICK s \in Ahead : step' = [step EXCEPT ![c] = s]
  <2>1. CASE Begin(c)
    <3>1. (IF c \in Shutdowns THEN "endRuntime" ELSE "open") \in Ahead BY DEF Steps
    <3> QED BY <2>1, <3>1 DEF Begin, Goes
  <2>2. CASE LoadStep(c)
    BY <2>2 DEF LoadStep, NothingOpens, OpensDatabase, PreparesRuntime, BuildsQueue, SwapsRuntime,
                RuntimeCloses, RuntimeFails, Publishes, UndoesQueue, UndoesRuntime,
                UndoesDatabase, Goes, Steps
  <2>3. CASE QueueStep(c)
    BY <2>3 DEF QueueStep, WithdrawsQueue, UnbindsQueue, QueueCloses, QueueTimesOut, AfterQueue,
       GivesUp,
                Goes, Steps
  <2>4. CASE SwapsDatabase(c) \/ RetiresDatabase(c) \/ OpensReplacement(c) \/ BindsWatcher(c) \/ Installs(c)
    BY <2>4 DEF SwapsDatabase, RetiresDatabase, OpensReplacement, BindsWatcher, Installs, Goes,
       Steps
  <2>5. CASE EndsRuntime(c) \/ ClosesStorage(c) \/ StorageDrains(c) \/ WithdrawsDatabase(c)
    BY <2>5 DEF EndsRuntime, StopsAtRuntime, ClosesStorage, StorageDrains, WithdrawsDatabase,
       Goes, Steps
  <2> QED BY <2>1, <2>2, <2>3, <2>4, <2>5 DEF ConfigStep
<1>2. \/ step[c] \notin {"idle", "done"}
      \/ step[c] = "idle" /\ \A d \in ConfigCalls : step[d] \in {"idle", "done"}
  <2>1. CASE Begin(c) BY <2>1 DEF Begin, ReloadIsFree, Stands
  <2>2. CASE LoadStep(c)
    BY <2>2 DEF LoadStep, NothingOpens, OpensDatabase, PreparesRuntime, BuildsQueue, SwapsRuntime,
                RuntimeCloses, RuntimeFails, Publishes, UndoesQueue, UndoesRuntime,
                UndoesDatabase, Stands
  <2>3. CASE QueueStep(c)
    BY <2>3 DEF QueueStep, WithdrawsQueue, UnbindsQueue, QueueCloses, QueueTimesOut, Stands
  <2>4. CASE SwapsDatabase(c) \/ RetiresDatabase(c) \/ OpensReplacement(c) \/ BindsWatcher(c) \/ Installs(c)
    BY <2>4 DEF SwapsDatabase, RetiresDatabase, OpensReplacement, BindsWatcher, Installs, Stands
  <2>5. CASE EndsRuntime(c) \/ ClosesStorage(c) \/ StorageDrains(c) \/ WithdrawsDatabase(c)
    BY <2>5 DEF EndsRuntime, ClosesStorage, StorageDrains, WithdrawsDatabase, Stands
  <2> QED BY <2>1, <2>2, <2>3, <2>4, <2>5 DEF ConfigStep
<1>3. step \in [ConfigCalls -> Steps] BY DEF ConfigInv, ConfigTypeOK
<1>4. step'[c] = s /\ \A d \in ConfigCalls \ {c} : step'[d] = step[d] BY <1>1, <1>3
<1>5. \A d \in ConfigCalls \ {c} : step[d] \in {"idle", "done"} BY <1>2 DEF ConfigInv, OneAtATime
<1>6. step' \in [ConfigCalls -> Steps] BY <1>1, <1>3
<1>7. Quiet' <=> step'[c] = "done" BY <1>1, <1>4, <1>5 DEF Quiet
<1> QED BY <1>1, <1>2, <1>3, <1>4, <1>5, <1>6, <1>7

(* What the step of a call does to the database.                           *)
LEMMA DatabaseStep ==
  ASSUME ConfigInv, NEW c \in ConfigCalls, Begin(c) \/ ConfigStep(c)
  PROVE  /\ DatabaseAt(c)' /\ (step'[c] = "done" => DatabaseRests')
         /\ databases' \in [ConfigCalls -> Phases] /\ {dbOwned', dbDefault', dbPrevious'} \subseteq Maybe
         /\ LeaseInv'
<1> USE ConfigAssumption DEF Stands, Goes, Becomes, IsSet
<1>1. /\ step \in [ConfigCalls -> Steps] /\ databases \in [ConfigCalls -> Phases]
      /\ {dbOwned, dbDefault, dbPrevious} \subseteq Maybe
      /\ "open" \in Phases /\ "closed" \in Phases
      /\ c \in Loads \/ c \in Changes \/ c \in Shutdowns
      /\ c # Nothing /\ c \in Maybe /\ Nothing \in Maybe
  BY DEF ConfigInv, ConfigTypeOK, Phases, ConfigCalls, Maybe
<1>2. KindInv(c) /\ FreshInv(c) /\ DatabaseAt(c) /\ LeaseInv /\ (Quiet => DatabaseRests)
  BY DEF ConfigInv
<1> DEFINE Result == /\ DatabaseAt(c)' /\ (step'[c] = "done" => DatabaseRests')
                     /\ databases' \in [ConfigCalls -> Phases]
                     /\ {dbOwned', dbDefault', dbPrevious'} \subseteq Maybe
                     /\ LeaseInv'
<1> DEFINE Elsewhere ==
      \/ Begin(c) \/ NothingOpens(c) \/ PreparesRuntime(c) \/ BuildsQueue(c) \/ UnbindsQueue(c)
      \/ QueueCloses(c) \/ QueueTimesOut(c) \/ SwapsRuntime(c) \/ RuntimeCloses(c) \/ RuntimeFails(c)
      \/ UndoesQueue(c) \/ UndoesRuntime(c) \/ EndsRuntime(c) \/ ClosesStorage(c) \/ StorageDrains(c)
<1>3. ASSUME Elsewhere PROVE Result
  <2> USE DEF DatabaseAt, DatabaseRests, OpenAre, KindInv, Candidates, UndoSteps, LastSteps
  <2>1. UNCHANGED <<databases, dbOwned, dbDefault, dbPrevious, borrowed>>
    BY <1>3 DEF dbVars, useVars, Begin, NothingOpens, PreparesRuntime, BuildsQueue,
       UnbindsQueue, QueueCloses,
                QueueTimesOut, SwapsRuntime, RuntimeCloses, RuntimeFails, UndoesQueue,
                UndoesRuntime,
                EndsRuntime, ClosesStorage, StorageDrains
  <2>2. CASE Begin(c)
    <3>1. step'[c] = IF c \in Shutdowns THEN "endRuntime" ELSE "open" BY <1>1, <2>2 DEF Begin
    <3>2. DatabaseRests BY <1>2, <2>2 DEF Begin, ReloadIsFree, Quiet
    <3> QED BY <1>1, <1>2, <2>1, <3>1, <3>2 DEF LeaseInv
  <2>3. CASE NothingOpens(c)
    BY <1>1, <1>2, <2>1, <2>3 DEF NothingOpens, LeaseInv
  <2>4. CASE PreparesRuntime(c)
    BY <1>1, <1>2, <2>1, <2>4 DEF PreparesRuntime, LeaseInv
  <2>5. CASE BuildsQueue(c)
    BY <1>1, <1>2, <2>1, <2>5 DEF BuildsQueue, LeaseInv
  <2>6. CASE UnbindsQueue(c) \/ QueueCloses(c)
    <3>1. step[c] \in {"unbind", "closeQueue"} /\ step'[c] \in {"closeQueue", AfterQueue(c)}
      BY <1>1, <2>6 DEF UnbindsQueue, QueueCloses
    <3>2. step'[c] \in {"closeQueue", "swapRuntime"} \/ (c \in Shutdowns /\ step'[c] \in {"done", "endStorage"})
      BY <3>1 DEF AfterQueue
    <3> QED BY <1>1, <1>2, <2>1, <3>1, <3>2 DEF LeaseInv, AfterQueue
  <2>7. CASE QueueTimesOut(c)
    BY <1>1, <1>2, <2>1, <2>7 DEF QueueTimesOut, GivesUp, LeaseInv
  <2>8. CASE SwapsRuntime(c) \/ RuntimeCloses(c) \/ RuntimeFails(c)
    BY <1>1, <1>2, <2>1, <2>8 DEF SwapsRuntime, RuntimeCloses, RuntimeFails, LeaseInv
  <2>9. CASE UndoesQueue(c) \/ UndoesRuntime(c)
    BY <1>1, <1>2, <2>1, <2>9 DEF UndoesQueue, UndoesRuntime, LeaseInv
  <2>10. CASE EndsRuntime(c)
    BY <1>1, <1>2, <2>1, <2>10 DEF EndsRuntime, StopsAtRuntime, LeaseInv
  <2>11. CASE ClosesStorage(c) \/ StorageDrains(c)
    BY <1>1, <1>2, <2>1, <2>11 DEF ClosesStorage, StorageDrains, LeaseInv
  <2> QED BY <1>3, <2>2, <2>3, <2>4, <2>5, <2>6, <2>7, <2>8, <2>9, <2>10, <2>11
<1>4. CASE OpensDatabase(c)
  <2>1. /\ step[c] = "open" /\ c \in Loads /\ step'[c] = "runtime"
        /\ databases' = [databases EXCEPT ![c] = "open"]
        /\ dbPrevious' = dbDefault /\ dbDefault' = c
        /\ UNCHANGED <<dbOwned, borrowed>>
    BY <1>1, <1>4 DEF OpensDatabase, useVars
  <2>2. /\ DatabaseRests /\ dbOwned # c
    BY <1>1, <1>2, <2>1 DEF DatabaseAt, FreshInv, DatabaseRests
  <2>3. /\ databases' \in [ConfigCalls -> Phases]
        /\ \A h \in ConfigCalls : databases'[h] = IF h = c THEN "open" ELSE databases[h]
    BY <1>1, <2>1
  <2>4. LeaseInv' BY <1>1, <1>2, <2>1, <2>2 DEF LeaseInv, DatabaseRests
  <2>5. DatabaseAt(c)' /\ (step'[c] = "done" => DatabaseRests')
    BY <1>1, <2>1, <2>2, <2>3 DEF DatabaseAt, DatabaseRests, OpenAre, Candidates, UndoSteps,
       LastSteps
  <2> QED BY <1>1, <2>1, <2>2, <2>3, <2>4, <2>5
<1>5. CASE WithdrawsQueue(c)
  <2>1. /\ step[c] = IF c \in Shutdowns THEN "withdraw" ELSE "restore"
        /\ step'[c] \in {"undoQueue", "unbind"} /\ (step'[c] = "undoQueue" => c \in Loads)
        /\ dbDefault' = IF c \in Loads THEN dbPrevious ELSE dbDefault
        /\ UNCHANGED <<databases, dbOwned, dbPrevious, borrowed>>
    BY <1>1, <1>5 DEF WithdrawsQueue, RestoresPrevious, useVars
  <2>2. /\ c \in Shutdowns => c \notin Loads /\ DatabaseRests
        /\ c \notin Shutdowns => c \in Loads /\ dbPrevious = dbOwned /\ OpenAre({dbOwned, c})
    BY <1>1, <1>2, <2>1 DEF DatabaseAt, KindInv, Candidates, UndoSteps, LastSteps
  <2>3. databases' = databases BY <2>1
  <2>4. LeaseInv' BY <1>1, <1>2, <2>1, <2>2 DEF LeaseInv, DatabaseRests
  <2>5. DatabaseAt(c)' /\ (step'[c] = "done" => DatabaseRests')
    BY <1>1, <2>1, <2>2, <2>3 DEF DatabaseAt, DatabaseRests, OpenAre, Candidates, UndoSteps,
       LastSteps
  <2> QED BY <1>1, <2>1, <2>2, <2>3, <2>4, <2>5
<1>6. CASE Publishes(c)
  <2>1. /\ step[c] = "publish" /\ step'[c] = "swap" /\ dbDefault' = c
        /\ UNCHANGED <<databases, dbOwned, dbPrevious, borrowed>>
    BY <1>1, <1>6 DEF Publishes, useVars
  <2>2. /\ dbPrevious = dbOwned /\ OpenAre({dbOwned, c}) /\ dbOwned # c
    BY <1>1, <1>2, <2>1 DEF DatabaseAt, KindInv, Candidates, UndoSteps, LastSteps, FreshInv
  <2>3. databases' = databases BY <2>1
  <2>4. LeaseInv' BY <1>1, <1>2, <2>1, <2>2 DEF LeaseInv, DatabaseRests
  <2>5. DatabaseAt(c)' /\ (step'[c] = "done" => DatabaseRests')
    BY <1>1, <2>1, <2>2, <2>3 DEF DatabaseAt, DatabaseRests, OpenAre, Candidates, UndoSteps,
       LastSteps
  <2> QED BY <1>1, <2>1, <2>2, <2>3, <2>4, <2>5
<1>7. CASE SwapsDatabase(c)
  <2>1. /\ step[c] = "swap" /\ dbPrevious' = dbOwned /\ dbOwned' = c
        /\ step'[c] = IF dbOwned # Nothing THEN "drain" ELSE "done"
        /\ UNCHANGED <<databases, dbDefault, borrowed>>
    BY <1>1, <1>7 DEF SwapsDatabase, useVars
  <2>2. /\ dbDefault = c /\ dbOwned # c /\ OpenAre({dbOwned, c}) /\ dbPrevious \in {Nothing, dbOwned}
    BY <1>1, <1>2, <2>1 DEF DatabaseAt, KindInv, Candidates, UndoSteps, LastSteps
  <2>3. databases' = databases BY <2>1
  <2>4. LeaseInv' BY <1>1, <1>2, <2>1, <2>2 DEF LeaseInv, DatabaseRests
  <2>5. DatabaseAt(c)' /\ (step'[c] = "done" => DatabaseRests')
    BY <1>1, <2>1, <2>2, <2>3 DEF DatabaseAt, DatabaseRests, OpenAre, Candidates, UndoSteps,
       LastSteps
  <2> QED BY <1>1, <2>1, <2>2, <2>3, <2>4, <2>5
<1>8. CASE RetiresDatabase(c)
  <2>1. /\ step[c] = "drain" /\ step'[c] = "done" /\ dbPrevious' = Nothing
        /\ \A u \in DatabaseUsers : borrowed[u] # dbPrevious
        /\ databases' = [databases EXCEPT ![dbPrevious] = "closed"]
        /\ UNCHANGED <<dbOwned, dbDefault, borrowed>>
    BY <1>1, <1>8 DEF RetiresDatabase, LeasesEnded, useVars
  <2>2. /\ dbDefault = dbOwned /\ dbPrevious \notin {Nothing, dbOwned} /\ OpenAre({dbOwned, dbPrevious})
        /\ dbPrevious \in ConfigCalls
    BY <1>1, <1>2, <2>1 DEF DatabaseAt, Maybe
  <2>3. /\ databases' \in [ConfigCalls -> Phases]
        /\ \A h \in ConfigCalls : databases'[h] = IF h = dbPrevious THEN "closed" ELSE databases[h]
    BY <1>1, <2>1
  <2>4. LeaseInv' BY <1>1, <1>2, <2>1, <2>2 DEF LeaseInv, DatabaseRests
  <2>5. DatabaseAt(c)' /\ (step'[c] = "done" => DatabaseRests')
    BY <1>1, <2>1, <2>2, <2>3 DEF DatabaseAt, DatabaseRests, OpenAre, Candidates, UndoSteps,
       LastSteps
  <2> QED BY <1>1, <2>1, <2>2, <2>3, <2>4, <2>5
<1>9. CASE UndoesDatabase(c)
  <2>1. /\ step[c] = "undoDatabase" /\ step'[c] = "done" /\ dbPrevious' = Nothing /\ dbDefault' = dbPrevious
        /\ databases' = [databases EXCEPT ![c] = "closed"]
        /\ UNCHANGED <<dbOwned, borrowed>>
    BY <1>1, <1>9 DEF UndoesDatabase, useVars
  <2>2. /\ dbPrevious = dbOwned /\ OpenAre({dbOwned, c}) /\ dbOwned # c
    BY <1>1, <1>2, <2>1 DEF DatabaseAt, KindInv, Candidates, UndoSteps, LastSteps, FreshInv
  <2>3. /\ databases' \in [ConfigCalls -> Phases]
        /\ \A h \in ConfigCalls : databases'[h] = IF h = c THEN "closed" ELSE databases[h]
    BY <1>1, <2>1
  <2>4. LeaseInv' BY <1>1, <1>2, <2>1, <2>2 DEF LeaseInv, DatabaseRests
  <2>5. DatabaseAt(c)' /\ (step'[c] = "done" => DatabaseRests')
    BY <1>1, <2>1, <2>2, <2>3 DEF DatabaseAt, DatabaseRests, OpenAre, Candidates, UndoSteps,
       LastSteps
  <2> QED BY <1>1, <2>1, <2>2, <2>3, <2>4, <2>5
<1>10. CASE OpensReplacement(c)
  <2>1. /\ step[c] = "open" /\ c \in Changes /\ step'[c] \in {"bind", "install"}
        /\ databases' = [databases EXCEPT ![c] = "open"]
        /\ UNCHANGED <<dbOwned, dbDefault, dbPrevious, borrowed>>
    BY <1>1, <1>10 DEF OpensReplacement, useVars
  <2>2. /\ DatabaseRests /\ dbOwned # c /\ c \notin Loads /\ c \notin Shutdowns
    BY <1>1, <1>2, <2>1 DEF DatabaseAt, FreshInv
  <2>3. /\ databases' \in [ConfigCalls -> Phases]
        /\ \A h \in ConfigCalls : databases'[h] = IF h = c THEN "open" ELSE databases[h]
    BY <1>1, <2>1
  <2>4. LeaseInv' BY <1>1, <1>2, <2>1, <2>2 DEF LeaseInv, DatabaseRests
  <2>5. DatabaseAt(c)' /\ (step'[c] = "done" => DatabaseRests')
    BY <1>1, <2>1, <2>2, <2>3 DEF DatabaseAt, DatabaseRests, OpenAre, Candidates, UndoSteps,
       LastSteps
  <2> QED BY <1>1, <2>1, <2>2, <2>3, <2>4, <2>5
<1>11. CASE BindsWatcher(c)
  <2>1. /\ step[c] = "bind"
        /\ \/ step'[c] = "install" /\ databases' = databases
           \/ step'[c] = "done" /\ databases' = [databases EXCEPT ![c] = "closed"]
        /\ UNCHANGED <<dbOwned, dbDefault, dbPrevious, borrowed>>
    BY <1>1, <1>11 DEF BindsWatcher, useVars
  <2>2. /\ dbDefault = dbOwned /\ dbPrevious = Nothing /\ OpenAre({dbOwned, c}) /\ dbOwned # c
        /\ c \notin Loads /\ c \notin Shutdowns
    BY <1>1, <1>2, <2>1 DEF DatabaseAt, KindInv, Candidates, UndoSteps, LastSteps
  <2>3. /\ databases' \in [ConfigCalls -> Phases]
        /\ \A h \in ConfigCalls : databases'[h] =
              IF h = c /\ step'[c] = "done" THEN "closed" ELSE databases[h]
    BY <1>1, <2>1
  <2>4. LeaseInv' BY <1>1, <1>2, <2>1, <2>2 DEF LeaseInv, DatabaseRests
  <2>5. DatabaseAt(c)' /\ (step'[c] = "done" => DatabaseRests')
    BY <1>1, <2>1, <2>2, <2>3 DEF DatabaseAt, DatabaseRests, OpenAre, Candidates, UndoSteps,
       LastSteps
  <2> QED BY <1>1, <2>1, <2>2, <2>3, <2>4, <2>5
<1>12. CASE Installs(c)
  <2>1. /\ step[c] = "install" /\ step'[c] = "swap" /\ dbDefault' = c
        /\ UNCHANGED <<databases, dbOwned, dbPrevious, borrowed>>
    BY <1>1, <1>12 DEF Installs, useVars
  <2>2. /\ dbPrevious = Nothing /\ OpenAre({dbOwned, c}) /\ dbOwned # c
    BY <1>1, <1>2, <2>1 DEF DatabaseAt, KindInv, Candidates, UndoSteps, LastSteps
  <2>3. databases' = databases BY <2>1
  <2>4. LeaseInv' BY <1>1, <1>2, <2>1, <2>2 DEF LeaseInv, DatabaseRests
  <2>5. DatabaseAt(c)' /\ (step'[c] = "done" => DatabaseRests')
    BY <1>1, <2>1, <2>2, <2>3 DEF DatabaseAt, DatabaseRests, OpenAre, Candidates, UndoSteps,
       LastSteps
  <2> QED BY <1>1, <2>1, <2>2, <2>3, <2>4, <2>5
<1>13. CASE WithdrawsDatabase(c)
  <2>1. /\ step[c] = "endDatabase" /\ dbOwned' = Nothing /\ dbPrevious' = dbOwned
        /\ dbDefault' = IF dbOwned # Nothing /\ dbDefault = dbOwned THEN Nothing ELSE dbDefault
        /\ step'[c] = IF dbOwned # Nothing THEN "drain" ELSE "done"
        /\ UNCHANGED <<databases, borrowed>>
    BY <1>1, <1>13 DEF WithdrawsDatabase, useVars
  <2>2. /\ DatabaseRests
    BY <1>1, <1>2, <2>1 DEF DatabaseAt, KindInv, Candidates, UndoSteps, LastSteps
  <2>3. databases' = databases BY <2>1
  <2>4. LeaseInv' BY <1>1, <1>2, <2>1, <2>2 DEF LeaseInv, DatabaseRests
  <2>5. DatabaseAt(c)' /\ (step'[c] = "done" => DatabaseRests')
    BY <1>1, <2>1, <2>2, <2>3 DEF DatabaseAt, DatabaseRests, OpenAre, Candidates, UndoSteps,
       LastSteps
  <2> QED BY <1>1, <2>1, <2>2, <2>3, <2>4, <2>5
<1> QED
  BY <1>3, <1>4, <1>5, <1>6, <1>7, <1>8, <1>9, <1>10, <1>11, <1>12, <1>13
  DEF ConfigStep, LoadStep, QueueStep

(* The order of the steps of a call, by its kind.                          *)
LEMMA KindStep ==
  ASSUME ConfigInv, NEW c \in ConfigCalls, Begin(c) \/ ConfigStep(c)
  PROVE  /\ c \in Loads => step'[c] \in {"idle", "open", "swap", "drain", "done"} \cup Candidates
         /\ c \in Changes => step'[c] \in {"idle", "open", "bind", "install", "swap", "drain", "done"}
         /\ c \in Shutdowns => step'[c] \in {"idle", "endRuntime", "withdraw", "unbind", "closeQueue",
                                             "drain", "done"} \cup LastSteps
<1> USE ConfigAssumption DEF Stands, Goes, KindInv, Candidates, UndoSteps, LastSteps
<1>1. step \in [ConfigCalls -> Steps] /\ (c \in Loads \/ c \in Changes \/ c \in Shutdowns)
  BY DEF ConfigInv, ConfigTypeOK, ConfigCalls
<1>2. KindInv(c) BY DEF ConfigInv
<1>3. CASE Begin(c)
  BY <1>1, <1>2, <1>3 DEF Begin
<1>4. CASE NothingOpens(c) \/ OpensDatabase(c)
  BY <1>1, <1>2, <1>4 DEF NothingOpens, OpensDatabase
<1>5. CASE PreparesRuntime(c)
  BY <1>1, <1>2, <1>5 DEF PreparesRuntime
<1>6. CASE BuildsQueue(c)
  BY <1>1, <1>2, <1>6 DEF BuildsQueue
<1>7. CASE SwapsRuntime(c) \/ RuntimeCloses(c) \/ RuntimeFails(c) \/ Publishes(c)
  BY <1>1, <1>2, <1>7 DEF SwapsRuntime, RuntimeCloses, RuntimeFails, Publishes
<1>8. CASE UndoesQueue(c) \/ UndoesRuntime(c) \/ UndoesDatabase(c)
  BY <1>1, <1>2, <1>8 DEF UndoesQueue, UndoesRuntime, UndoesDatabase
<1>9. CASE WithdrawsQueue(c)
  BY <1>1, <1>2, <1>9 DEF WithdrawsQueue, IsSet
<1>10. CASE UnbindsQueue(c)
  BY <1>1, <1>2, <1>10 DEF UnbindsQueue, AfterQueue
<1>11. CASE QueueCloses(c)
  BY <1>1, <1>2, <1>11 DEF QueueCloses, AfterQueue
<1>12. CASE QueueTimesOut(c)
  BY <1>1, <1>2, <1>12 DEF QueueTimesOut, GivesUp
<1>13. CASE SwapsDatabase(c) \/ RetiresDatabase(c)
  BY <1>1, <1>2, <1>13 DEF SwapsDatabase, RetiresDatabase
<1>14. CASE OpensReplacement(c) \/ BindsWatcher(c) \/ Installs(c)
  BY <1>1, <1>2, <1>14 DEF OpensReplacement, BindsWatcher, Installs
<1>15. CASE EndsRuntime(c)
  BY <1>1, <1>2, <1>15 DEF EndsRuntime, StopsAtRuntime
<1>16. CASE ClosesStorage(c) \/ StorageDrains(c) \/ WithdrawsDatabase(c)
  BY <1>1, <1>2, <1>16 DEF ClosesStorage, StorageDrains, WithdrawsDatabase
<1> QED
  BY <1>3, <1>4, <1>5, <1>6, <1>7, <1>8, <1>9, <1>10, <1>11, <1>12, <1>13, <1>14, <1>15, <1>16
  DEF ConfigStep, LoadStep, QueueStep

(* What the step of a call does to the queues.                             *)
LEMMA QueueChanges ==
  ASSUME ConfigInv, NEW c \in ConfigCalls, Begin(c) \/ ConfigStep(c)
  PROVE  /\ QueueAt(c)' /\ (step'[c] = "done" => QueueRests') /\ QueuesInv'
         /\ queues' \in [ConfigCalls -> Phases]
         /\ \A d \in ConfigCalls \ {c} : d \notin QueuePointers =>
                queues'[d] = queues[d] /\ d \notin QueuePointers'
         /\ \A d \in ConfigCalls : d \notin Loads => queues'[d] = queues[d]
         /\ step'[c] \in {"open", "runtime", "queue"} => queues'[c] = "none"
         /\ step'[c] = "open" \/ (c \in Loads /\ step'[c] \in Candidates) => c \notin QueuePointers'
<1> USE ConfigAssumption DEF Stands, Goes, Becomes, IsSet
<1>1. /\ step \in [ConfigCalls -> Steps] /\ queues \in [ConfigCalls -> Phases]
      /\ \A p \in {"none", "open", "closing", "dropped", "closed"} : p \in Phases
      /\ c \in Loads \/ c \in Changes \/ c \in Shutdowns
      /\ c # Nothing /\ Loads \subseteq ConfigCalls /\ Nothing \notin ConfigCalls
  BY DEF ConfigInv, ConfigTypeOK, Phases, ConfigCalls
<1>2. KindInv(c) /\ FreshInv(c) /\ QueueAt(c) /\ QueuesInv /\ (Quiet => QueueRests)
  BY DEF ConfigInv
<1>3. QueuePointers \subseteq Loads \cup {Nothing} BY <1>2 DEF QueuesInv
<1> DEFINE Elsewhere ==
      \/ Begin(c) \/ NothingOpens(c) \/ OpensDatabase(c) \/ PreparesRuntime(c)
      \/ SwapsRuntime(c) \/ RuntimeCloses(c) \/ RuntimeFails(c) \/ UndoesRuntime(c)
      \/ UndoesDatabase(c) \/ SwapsDatabase(c) \/ RetiresDatabase(c) \/ OpensReplacement(c)
      \/ BindsWatcher(c) \/ Installs(c) \/ EndsRuntime(c) \/ ClosesStorage(c)
      \/ StorageDrains(c) \/ WithdrawsDatabase(c)
<1> DEFINE Result ==
      /\ QueueAt(c)' /\ (step'[c] = "done" => QueueRests') /\ QueuesInv'
      /\ queues' \in [ConfigCalls -> Phases]
      /\ \A d \in ConfigCalls \ {c} : d \notin QueuePointers =>
             queues'[d] = queues[d] /\ d \notin QueuePointers'
      /\ \A d \in ConfigCalls : d \notin Loads => queues'[d] = queues[d]
      /\ step'[c] \in {"open", "runtime", "queue"} => queues'[c] = "none"
      /\ step'[c] = "open" \/ (c \in Loads /\ step'[c] \in Candidates) => c \notin QueuePointers'
<1>4. ASSUME Elsewhere PROVE Result
  <2>1. UNCHANGED <<queues, queueOwned, queueRetiring, queueCenter>>
    BY <1>4 DEF queueVars, Begin, NothingOpens, OpensDatabase, PreparesRuntime, SwapsRuntime,
       RuntimeCloses,
                RuntimeFails, UndoesRuntime, UndoesDatabase, SwapsDatabase, RetiresDatabase,
                OpensReplacement, BindsWatcher, Installs, EndsRuntime, ClosesStorage,
                StorageDrains,
                WithdrawsDatabase
  <2>2. /\ QueuesInv' /\ queues' \in [ConfigCalls -> Phases] /\ QueuePointers' = QueuePointers
        /\ QueueRests' <=> QueueRests
    BY <1>1, <1>2, <2>1 DEF QueuesInv, OneQueueAtATime, QueuePointers, QueueRests, OpenQueues
  <2> DEFINE Here ==
        /\ QueueAt(c)' /\ (step'[c] = "done" => QueueRests)
        /\ step'[c] \in {"open", "runtime", "queue"} => queues[c] = "none"
        /\ step'[c] = "open" \/ (c \in Loads /\ step'[c] \in Candidates) => c \notin QueuePointers
  <2>3. CASE Begin(c)
    <3>1. step'[c] = (IF c \in Shutdowns THEN "endRuntime" ELSE "open") /\ step[c] = "idle"
      BY <1>1, <2>3 DEF Begin
    <3>2. QueueRests BY <1>2, <2>3 DEF Begin, ReloadIsFree, Quiet
    <3>3. Here BY <1>2, <2>1, <3>1, <3>2 DEF QueueAt, QueueRests, OpenQueues, FreshInv,
         Candidates, UndoSteps, LastSteps
    <3> QED BY <2>1, <2>2, <3>3
  <2>4. CASE NothingOpens(c) \/ OpensDatabase(c)
    <3>1. Here
      BY <1>1, <1>2, <2>1, <2>4 DEF NothingOpens, OpensDatabase,
         QueueRests, OpenQueues, QueuesGone, QueueAt, KindInv, FreshInv, QueuePointers,
         Candidates, UndoSteps, LastSteps
    <3> QED BY <2>1, <2>2, <3>1
  <2>5. CASE PreparesRuntime(c)
    <3>1. Here
      BY <1>1, <1>2, <2>1, <2>5 DEF PreparesRuntime,
         QueueRests, OpenQueues, QueuesGone, QueueAt, KindInv, FreshInv, QueuePointers,
         Candidates, UndoSteps, LastSteps
    <3> QED BY <2>1, <2>2, <3>1
  <2>6. CASE SwapsRuntime(c) \/ RuntimeCloses(c) \/ RuntimeFails(c)
    <3>1. Here
      BY <1>1, <1>2, <2>1, <2>6 DEF SwapsRuntime, RuntimeCloses, RuntimeFails,
         QueueRests, OpenQueues, QueuesGone, QueueAt, KindInv, FreshInv, QueuePointers,
         Candidates, UndoSteps, LastSteps
    <3> QED BY <2>1, <2>2, <3>1
  <2>7. CASE UndoesRuntime(c) \/ UndoesDatabase(c)
    <3>1. Here
      BY <1>1, <1>2, <2>1, <2>7 DEF UndoesRuntime, UndoesDatabase,
         QueueRests, OpenQueues, QueuesGone, QueueAt, KindInv, FreshInv, QueuePointers,
         Candidates, UndoSteps, LastSteps
    <3> QED BY <2>1, <2>2, <3>1
  <2>8. CASE SwapsDatabase(c) \/ RetiresDatabase(c)
    <3>1. Here
      BY <1>1, <1>2, <2>1, <2>8 DEF SwapsDatabase, RetiresDatabase,
         QueueRests, OpenQueues, QueuesGone, QueueAt, KindInv, FreshInv, QueuePointers,
         Candidates, UndoSteps, LastSteps
    <3> QED BY <2>1, <2>2, <3>1
  <2>9. CASE OpensReplacement(c) \/ BindsWatcher(c) \/ Installs(c)
    <3>1. Here
      BY <1>1, <1>2, <2>1, <2>9 DEF OpensReplacement, BindsWatcher, Installs,
         QueueRests, OpenQueues, QueuesGone, QueueAt, KindInv, FreshInv, QueuePointers,
         Candidates, UndoSteps, LastSteps
    <3> QED BY <2>1, <2>2, <3>1
  <2>10. CASE EndsRuntime(c)
    <3>1. Here
      BY <1>1, <1>2, <2>1, <2>10 DEF EndsRuntime, StopsAtRuntime,
         QueueRests, OpenQueues, QueuesGone, QueueAt, KindInv, FreshInv, QueuePointers,
         Candidates, UndoSteps, LastSteps
    <3> QED BY <2>1, <2>2, <3>1
  <2>11. CASE ClosesStorage(c) \/ StorageDrains(c) \/ WithdrawsDatabase(c)
    <3>1. Here
      BY <1>1, <1>2, <2>1, <2>11 DEF ClosesStorage, StorageDrains, WithdrawsDatabase,
         QueueRests, OpenQueues, QueuesGone, QueueAt, KindInv, FreshInv, QueuePointers,
         Candidates, UndoSteps, LastSteps
    <3> QED BY <2>1, <2>2, <3>1
  <2> QED BY <1>4, <2>3, <2>4, <2>5, <2>6, <2>7, <2>8, <2>9, <2>10, <2>11
<1>5. CASE BuildsQueue(c)
  <2>8. step[c] = "queue" /\ UNCHANGED <<queueOwned, queueRetiring, queueCenter>>
    BY <1>5 DEF BuildsQueue
  <2> DEFINE Ends(v) ==
        /\ (queues' = queues /\ v = "none") \/ queues' = [queues EXCEPT ![c] = v]
        /\ \/ step'[c] = "restore" /\ v \in {"none", "open"}
           \/ step'[c] = "undoRuntime" /\ v # "open"
  <2>9. Ends("none") \/ Ends("open") \/ Ends("dropped") \/ Ends("closed")
    BY <1>1, <1>5 DEF BuildsQueue, CloseEnds
  <2>1. /\ step[c] = "queue" /\ UNCHANGED <<queueOwned, queueRetiring, queueCenter>>
        /\ \E v \in {"none", "open", "dropped", "closed"} : Ends(v)
    BY <2>8, <2>9
  <2>2. /\ c \in Loads /\ queues[c] = "none" /\ c \notin QueuePointers
        /\ QueueRests
    BY <1>1, <1>2, <1>3, <2>1 DEF QueueAt, KindInv, FreshInv, QueuePointers, Candidates,
       UndoSteps, LastSteps
  <2>10. PICK v \in {"none", "open", "dropped", "closed"} : Ends(v) BY <2>1
  <2>11. \/ step'[c] = "restore" /\ v \in {"none", "open"}
         \/ step'[c] = "undoRuntime" /\ v # "open"
    BY <2>10
  <2>12. queues' \in [ConfigCalls -> Phases]
    BY <1>1, <2>10
  <2>13. \A h \in ConfigCalls : queues'[h] = IF h = c THEN v ELSE queues[h]
    BY <1>1, <2>2, <2>10
  <2>3. /\ queues' \in [ConfigCalls -> Phases] /\ v \in {"none", "open", "dropped", "closed"}
        /\ \A h \in ConfigCalls : queues'[h] = IF h = c THEN v ELSE queues[h]
        /\ \/ step'[c] = "restore" /\ v \in {"none", "open"}
           \/ step'[c] = "undoRuntime" /\ v # "open"
    BY <2>10, <2>11, <2>12, <2>13
  <2> HIDE DEF Ends
  <2>4. QueuesInv' BY <1>1, <1>2, <2>1, <2>2, <2>3 DEF QueuesInv, QueuePointers,
       OneQueueAtATime, QueuesGone
  <2>5. QueueAt(c)' /\ (step'[c] = "done" => QueueRests')
    BY <1>1, <2>1, <2>2, <2>3 DEF QueueAt, QueueRests, OpenQueues, QueuesGone, Candidates,
       UndoSteps, LastSteps
  <2>6. \A d \in ConfigCalls \ {c} : d \notin QueuePointers =>
           queues'[d] = queues[d] /\ d \notin QueuePointers'
    BY <1>1, <2>1, <2>2, <2>3 DEF QueuePointers, QueuesGone
  <2>7. /\ \A d \in ConfigCalls : d \notin Loads => queues'[d] = queues[d]
        /\ step'[c] \in {"open", "runtime", "queue"} => queues'[c] = "none"
        /\ step'[c] = "open" \/ (c \in Loads /\ step'[c] \in Candidates) => c \notin QueuePointers'
    BY <1>1, <2>1, <2>2, <2>3 DEF QueuePointers, Candidates, UndoSteps
  <2> QED BY <2>3, <2>4, <2>5, <2>6, <2>7
<1>6. CASE WithdrawsQueue(c)
  <2>1. /\ step[c] = IF c \in Shutdowns THEN "withdraw" ELSE "restore"
        /\ queueOwned' = Nothing /\ queueRetiring' = IF queueOwned # Nothing THEN queueOwned ELSE queueRetiring
        /\ step'[c] = "unbind"
        /\ UNCHANGED <<queues, queueCenter>>
    BY <1>1, <1>2, <1>6 DEF WithdrawsQueue, QueuesInv, OneQueueAtATime
  <2>2. /\ queueCenter = queueOwned /\ OpenQueues({queueOwned, c}) /\ queues[c] \in {"none", "open"}
        /\ c \in Loads \/ c \in Shutdowns
        /\ c \notin {queueOwned, queueRetiring}
    BY <1>1, <1>2, <1>3, <2>1 DEF QueueAt, KindInv, FreshInv, QueuePointers, Candidates,
       UndoSteps, LastSteps, QueueRests, OpenQueues
  <2>3. queues' = queues /\ queues' \in [ConfigCalls -> Phases] BY <1>1, <2>1
  <2>4. QueuesInv' BY <1>1, <1>2, <2>1, <2>2, <2>3 DEF QueuesInv, QueuePointers,
       OneQueueAtATime, QueuesGone
  <2>5. QueueAt(c)' /\ (step'[c] = "done" => QueueRests')
    BY <1>1, <2>1, <2>2, <2>3 DEF QueueAt, QueueRests, OpenQueues, QueuesGone, Candidates,
       UndoSteps, LastSteps
  <2>6. \A d \in ConfigCalls \ {c} : d \notin QueuePointers =>
           queues'[d] = queues[d] /\ d \notin QueuePointers'
    BY <1>1, <2>1, <2>2, <2>3 DEF QueuePointers, QueuesGone
  <2>7. /\ \A d \in ConfigCalls : d \notin Loads => queues'[d] = queues[d]
        /\ step'[c] \in {"open", "runtime", "queue"} => queues'[c] = "none"
        /\ step'[c] = "open" \/ (c \in Loads /\ step'[c] \in Candidates) => c \notin QueuePointers'
    BY <1>1, <2>1, <2>2, <2>3 DEF QueuePointers, Candidates, UndoSteps
  <2> QED BY <2>3, <2>4, <2>5, <2>6, <2>7
<1>7. CASE UnbindsQueue(c)
  <2>1. /\ step[c] = "unbind" /\ queueCenter' = Nothing
        /\ step'[c] = IF queueRetiring # Nothing THEN "closeQueue" ELSE IF c \in Shutdowns THEN "endStorage" ELSE "swapRuntime"
        /\ UNCHANGED <<queues, queueOwned, queueRetiring>>
    BY <1>1, <1>2, <1>7 DEF UnbindsQueue, QueueAt, AfterQueue, Unbound
  <2>2. /\ queueOwned = Nothing /\ OpenQueues({queueRetiring, c}) /\ queues[c] \in {"none", "open"}
        /\ c \in Loads \/ (c \in Shutdowns /\ c \notin Loads /\ queues[c] = "none")
        /\ c # queueRetiring
    BY <1>1, <1>2, <1>3, <2>1 DEF QueueAt, KindInv, FreshInv, QueuePointers, Candidates,
       UndoSteps, LastSteps
  <2>3. queues' = queues /\ queues' \in [ConfigCalls -> Phases] BY <1>1, <2>1
  <2>4. QueuesInv' BY <1>1, <1>2, <2>1, <2>2, <2>3 DEF QueuesInv, QueuePointers,
       OneQueueAtATime, QueuesGone
  <2>5. QueueAt(c)' /\ (step'[c] = "done" => QueueRests')
    BY <1>1, <2>1, <2>2, <2>3 DEF QueueAt, QueueRests, OpenQueues, QueuesGone, Candidates,
       UndoSteps, LastSteps
  <2>6. \A d \in ConfigCalls \ {c} : d \notin QueuePointers =>
           queues'[d] = queues[d] /\ d \notin QueuePointers'
    BY <1>1, <2>1, <2>2, <2>3 DEF QueuePointers, QueuesGone
  <2>7. /\ \A d \in ConfigCalls : d \notin Loads => queues'[d] = queues[d]
        /\ step'[c] \in {"open", "runtime", "queue"} => queues'[c] = "none"
        /\ step'[c] = "open" \/ (c \in Loads /\ step'[c] \in Candidates) => c \notin QueuePointers'
    BY <1>1, <2>1, <2>2, <2>3 DEF QueuePointers, Candidates, UndoSteps
  <2> QED BY <2>3, <2>4, <2>5, <2>6, <2>7
<1>8. CASE QueueCloses(c)
  <2>1. /\ step[c] = "closeQueue" /\ queueRetiring' = Nothing
        /\ step'[c] = IF c \in Shutdowns THEN "endStorage" ELSE "swapRuntime"
        /\ queues' = [queues EXCEPT ![queueRetiring] = "closed"]
        /\ UNCHANGED <<queueOwned, queueCenter>>
    BY <1>1, <1>2, <1>8 DEF QueueCloses, QueueAt, AfterQueue
  <2>2. /\ queueOwned = Nothing /\ queueCenter = Nothing /\ OpenQueues({queueRetiring, c}) /\ queues[c] \in {"none", "open"}
        /\ c \in Loads \/ (c \in Shutdowns /\ c \notin Loads /\ queues[c] = "none")
        /\ c # queueRetiring /\ queueRetiring \in Loads
    BY <1>1, <1>2, <1>3, <2>1 DEF QueueAt, KindInv, FreshInv, QueuePointers, Candidates,
       UndoSteps, LastSteps
  <2>3. /\ queues' \in [ConfigCalls -> Phases]
        /\ \A h \in ConfigCalls : queues'[h] = IF h = queueRetiring THEN "closed" ELSE queues[h]
    BY <1>1, <2>1, <2>2
  <2>4. QueuesInv' BY <1>1, <1>2, <2>1, <2>2, <2>3 DEF QueuesInv, QueuePointers,
       OneQueueAtATime, QueuesGone
  <2>5. QueueAt(c)' /\ (step'[c] = "done" => QueueRests')
    BY <1>1, <2>1, <2>2, <2>3 DEF QueueAt, QueueRests, OpenQueues, QueuesGone, Candidates,
       UndoSteps, LastSteps
  <2>6. \A d \in ConfigCalls \ {c} : d \notin QueuePointers =>
           queues'[d] = queues[d] /\ d \notin QueuePointers'
    BY <1>1, <2>1, <2>2, <2>3 DEF QueuePointers, QueuesGone
  <2>7. /\ \A d \in ConfigCalls : d \notin Loads => queues'[d] = queues[d]
        /\ step'[c] \in {"open", "runtime", "queue"} => queues'[c] = "none"
        /\ step'[c] = "open" \/ (c \in Loads /\ step'[c] \in Candidates) => c \notin QueuePointers'
    BY <1>1, <2>1, <2>2, <2>3 DEF QueuePointers, Candidates, UndoSteps
  <2> QED BY <2>3, <2>4, <2>5, <2>6, <2>7
<1>9. CASE QueueTimesOut(c)
  <2>1. /\ step[c] = "closeQueue"
        /\ step'[c] = IF c \in Shutdowns THEN "done" ELSE "undoQueue"
        /\ queues' = [queues EXCEPT ![queueRetiring] = "closing"]
        /\ UNCHANGED <<queueOwned, queueRetiring, queueCenter>>
    BY <1>1, <1>2, <1>9 DEF QueueTimesOut, KeptRetiring, GivesUp
  <2>2. /\ queueOwned = Nothing /\ queueCenter = Nothing /\ OpenQueues({queueRetiring, c}) /\ queues[c] \in {"none", "open"}
        /\ c \in Loads \/ (c \in Shutdowns /\ c \notin Loads /\ queues[c] = "none")
        /\ c # queueRetiring /\ queueRetiring \in Loads
        /\ \A q \in ConfigCalls : queues[q] = "closing" => queueRetiring = q
    BY <1>1, <1>2, <1>3, <2>1 DEF QueueAt, KindInv, FreshInv, QueuePointers, Candidates,
       UndoSteps, LastSteps, QueuesInv
  <2>3. /\ queues' \in [ConfigCalls -> Phases]
        /\ \A h \in ConfigCalls : queues'[h] = IF h = queueRetiring THEN "closing" ELSE queues[h]
    BY <1>1, <2>1, <2>2
  <2>4. QueuesInv' BY <1>1, <1>2, <2>1, <2>2, <2>3 DEF QueuesInv, QueuePointers,
       OneQueueAtATime, QueuesGone
  <2>5. QueueAt(c)' /\ (step'[c] = "done" => QueueRests')
    BY <1>1, <2>1, <2>2, <2>3 DEF QueueAt, QueueRests, OpenQueues, QueuesGone, Candidates,
       UndoSteps, LastSteps
  <2>6. \A d \in ConfigCalls \ {c} : d \notin QueuePointers =>
           queues'[d] = queues[d] /\ d \notin QueuePointers'
    BY <1>1, <2>1, <2>2, <2>3 DEF QueuePointers, QueuesGone
  <2>7. /\ \A d \in ConfigCalls : d \notin Loads => queues'[d] = queues[d]
        /\ step'[c] \in {"open", "runtime", "queue"} => queues'[c] = "none"
        /\ step'[c] = "open" \/ (c \in Loads /\ step'[c] \in Candidates) => c \notin QueuePointers'
    BY <1>1, <2>1, <2>2, <2>3 DEF QueuePointers, Candidates, UndoSteps
  <2> QED BY <2>3, <2>4, <2>5, <2>6, <2>7
<1>10. CASE Publishes(c)
  <2>1. /\ step[c] = "publish" /\ step'[c] = "swap" /\ queueCenter' = queueOwned'
        /\ queueOwned' = IF queues[c] = "open" THEN c ELSE Nothing
        /\ UNCHANGED <<queues, queueRetiring>>
    BY <1>1, <1>2, <1>10 DEF Publishes, Candidate
  <2>2. /\ QueuesGone /\ OpenQueues({c}) /\ c \in Loads
    BY <1>1, <1>2, <1>3, <2>1 DEF QueueAt, KindInv, FreshInv, QueuePointers, Candidates,
       UndoSteps, LastSteps
  <2>3. queues' = queues /\ queues' \in [ConfigCalls -> Phases] BY <1>1, <2>1
  <2>4. QueuesInv' BY <1>1, <1>2, <2>1, <2>2, <2>3 DEF QueuesInv, QueuePointers,
       OneQueueAtATime, QueuesGone
  <2>5. QueueAt(c)' /\ (step'[c] = "done" => QueueRests')
    BY <1>1, <2>1, <2>2, <2>3 DEF QueueAt, QueueRests, OpenQueues, QueuesGone, Candidates,
       UndoSteps, LastSteps
  <2>6. \A d \in ConfigCalls \ {c} : d \notin QueuePointers =>
           queues'[d] = queues[d] /\ d \notin QueuePointers'
    BY <1>1, <2>1, <2>2, <2>3 DEF QueuePointers, QueuesGone
  <2>7. /\ \A d \in ConfigCalls : d \notin Loads => queues'[d] = queues[d]
        /\ step'[c] \in {"open", "runtime", "queue"} => queues'[c] = "none"
        /\ step'[c] = "open" \/ (c \in Loads /\ step'[c] \in Candidates) => c \notin QueuePointers'
    BY <1>1, <2>1, <2>2, <2>3 DEF QueuePointers, Candidates, UndoSteps
  <2> QED BY <2>3, <2>4, <2>5, <2>6, <2>7
<1>11. CASE UndoesQueue(c)
  <2>1. /\ step[c] = "undoQueue" /\ step'[c] = "undoRuntime"
        /\ \E v \in {"none", "dropped", "closed"} :
              \/ queues' = queues /\ v = queues[c]
              \/ queues' = [queues EXCEPT ![c] = v]
        /\ UNCHANGED <<queueOwned, queueRetiring, queueCenter>>
    BY <1>1, <1>2, <1>11 DEF UndoesQueue, CloseEnds, QueueAt
  <2>2. /\ c \in Loads /\ queues[c] \in {"none", "open"} /\ c \notin QueuePointers
        /\ queueCenter = queueOwned /\ OpenQueues({queueOwned, c})
    BY <1>1, <1>2, <1>3, <2>1 DEF QueueAt, KindInv, FreshInv, QueuePointers, Candidates,
       UndoSteps, LastSteps
  <2>3. PICK v \in {"none", "dropped", "closed"} :
          /\ queues' \in [ConfigCalls -> Phases]
          /\ \A h \in ConfigCalls : queues'[h] = IF h = c THEN v ELSE queues[h]
          /\ c \in Loads
    BY <1>1, <2>1, <2>2
  <2>4. QueuesInv' BY <1>1, <1>2, <2>1, <2>2, <2>3 DEF QueuesInv, QueuePointers,
       OneQueueAtATime, QueuesGone
  <2>5. QueueAt(c)' /\ (step'[c] = "done" => QueueRests')
    BY <1>1, <2>1, <2>2, <2>3 DEF QueueAt, QueueRests, OpenQueues, QueuesGone, Candidates,
       UndoSteps, LastSteps
  <2>6. \A d \in ConfigCalls \ {c} : d \notin QueuePointers =>
           queues'[d] = queues[d] /\ d \notin QueuePointers'
    BY <1>1, <2>1, <2>2, <2>3 DEF QueuePointers, QueuesGone
  <2>7. /\ \A d \in ConfigCalls : d \notin Loads => queues'[d] = queues[d]
        /\ step'[c] \in {"open", "runtime", "queue"} => queues'[c] = "none"
        /\ step'[c] = "open" \/ (c \in Loads /\ step'[c] \in Candidates) => c \notin QueuePointers'
    BY <1>1, <2>1, <2>2, <2>3 DEF QueuePointers, Candidates, UndoSteps
  <2> QED BY <2>3, <2>4, <2>5, <2>6, <2>7
<1> QED
  BY <1>4, <1>5, <1>6, <1>7, <1>8, <1>9, <1>10, <1>11
  DEF ConfigStep, LoadStep, QueueStep

(* What the step of a call does to the challenge runtimes.                 *)
LEMMA RuntimeChanges ==
  ASSUME ConfigInv, NEW c \in ConfigCalls, Begin(c) \/ ConfigStep(c)
  PROVE  /\ RuntimeAt(c)' /\ (step'[c] = "done" => RuntimesLive({runtimeOwned})') /\ RuntimesInv'
         /\ runtimes' \in [ConfigCalls -> Phases]
         /\ \A d \in ConfigCalls \ {c} : d \notin RuntimePointers =>
                runtimes'[d] = runtimes[d] /\ d \notin RuntimePointers'
         /\ \A d \in ConfigCalls : d \notin Loads => runtimes'[d] = runtimes[d]
         /\ step'[c] \in {"open", "runtime"} => runtimes'[c] = "none"
         /\ step'[c] = "open" \/ (c \in Loads /\ step'[c] \in Candidates) => c \notin RuntimePointers'
<1> USE ConfigAssumption DEF Stands, Goes, Becomes, IsSet
<1>1. /\ step \in [ConfigCalls -> Steps] /\ runtimes \in [ConfigCalls -> Phases]
      /\ \A p \in {"none", "open", "closing", "dropped", "closed"} : p \in Phases
      /\ c \in Loads \/ c \in Changes \/ c \in Shutdowns
      /\ c # Nothing /\ Loads \subseteq ConfigCalls /\ Nothing \notin ConfigCalls
  BY DEF ConfigInv, ConfigTypeOK, Phases, ConfigCalls
<1>2. KindInv(c) /\ FreshInv(c) /\ RuntimeAt(c) /\ RuntimesInv /\ (Quiet => RuntimesLive({runtimeOwned}))
  BY DEF ConfigInv
<1>3. RuntimePointers \subseteq Loads \cup {Nothing} BY <1>2 DEF RuntimesInv
<1> DEFINE Elsewhere ==
      \/ Begin(c) \/ NothingOpens(c) \/ OpensDatabase(c) \/ BuildsQueue(c) \/ UndoesQueue(c)
      \/ UndoesDatabase(c) \/ WithdrawsQueue(c) \/ UnbindsQueue(c) \/ QueueCloses(c)
      \/ QueueTimesOut(c) \/ SwapsDatabase(c) \/ RetiresDatabase(c) \/ OpensReplacement(c)
      \/ BindsWatcher(c) \/ Installs(c) \/ ClosesStorage(c) \/ StorageDrains(c)
      \/ WithdrawsDatabase(c)
<1> DEFINE Result ==
      /\ RuntimeAt(c)' /\ (step'[c] = "done" => RuntimesLive({runtimeOwned})') /\ RuntimesInv'
      /\ runtimes' \in [ConfigCalls -> Phases]
      /\ \A d \in ConfigCalls \ {c} : d \notin RuntimePointers =>
             runtimes'[d] = runtimes[d] /\ d \notin RuntimePointers'
      /\ \A d \in ConfigCalls : d \notin Loads => runtimes'[d] = runtimes[d]
      /\ step'[c] \in {"open", "runtime"} => runtimes'[c] = "none"
      /\ step'[c] = "open" \/ (c \in Loads /\ step'[c] \in Candidates) => c \notin RuntimePointers'
<1>4. ASSUME Elsewhere PROVE Result
  <2>1. UNCHANGED <<runtimes, runtimeOwned, runtimeCenter, runtimePrevious>>
    BY <1>4 DEF runtimeVars, Begin, NothingOpens, OpensDatabase, BuildsQueue, UndoesQueue,
       UndoesDatabase,
                WithdrawsQueue, UnbindsQueue, QueueCloses, QueueTimesOut, SwapsDatabase,
                RetiresDatabase, OpensReplacement, BindsWatcher, Installs, ClosesStorage,
                StorageDrains, WithdrawsDatabase
  <2>2. /\ RuntimesInv' /\ runtimes' \in [ConfigCalls -> Phases] /\ RuntimePointers' = RuntimePointers
        /\ RuntimesLive({runtimeOwned})' <=> RuntimesLive({runtimeOwned})
    BY <1>1, <1>2, <2>1 DEF RuntimesInv, RuntimePointers, RuntimesLive
  <2> DEFINE Here ==
        /\ RuntimeAt(c)' /\ (step'[c] = "done" => RuntimesLive({runtimeOwned}))
        /\ step'[c] \in {"open", "runtime"} => runtimes[c] = "none"
        /\ step'[c] = "open" \/ (c \in Loads /\ step'[c] \in Candidates) => c \notin RuntimePointers
  <2>3. CASE Begin(c)
    <3>1. step'[c] = (IF c \in Shutdowns THEN "endRuntime" ELSE "open") /\ step[c] = "idle"
      BY <1>1, <2>3 DEF Begin
    <3>2. RuntimesLive({runtimeOwned}) BY <1>2, <2>3 DEF Begin, ReloadIsFree, Quiet
    <3>3. Here BY <1>2, <2>1, <3>1, <3>2 DEF RuntimeAt, RuntimesLive, FreshInv, Candidates,
         UndoSteps, LastSteps
    <3> QED BY <2>1, <2>2, <3>3
  <2>4. CASE NothingOpens(c) \/ OpensDatabase(c)
    <3>1. Here
      BY <1>1, <1>2, <2>1, <2>4 DEF NothingOpens, OpensDatabase,
         RuntimesLive, RuntimeAt, KindInv, FreshInv, RuntimePointers, Candidates, UndoSteps,
         LastSteps
    <3> QED BY <2>1, <2>2, <3>1
  <2>5. CASE BuildsQueue(c)
    <3>1. Here
      BY <1>1, <1>2, <2>1, <2>5 DEF BuildsQueue,
         RuntimesLive, RuntimeAt, KindInv, FreshInv, RuntimePointers, Candidates, UndoSteps,
         LastSteps
    <3> QED BY <2>1, <2>2, <3>1
  <2>6. CASE UndoesQueue(c) \/ UndoesDatabase(c)
    <3>1. Here
      BY <1>1, <1>2, <2>1, <2>6 DEF UndoesQueue, UndoesDatabase,
         RuntimesLive, RuntimeAt, KindInv, FreshInv, RuntimePointers, Candidates, UndoSteps,
         LastSteps
    <3> QED BY <2>1, <2>2, <3>1
  <2>7. CASE WithdrawsQueue(c)
    <3>1. Here
      BY <1>1, <1>2, <2>1, <2>7 DEF WithdrawsQueue,
         RuntimesLive, RuntimeAt, KindInv, FreshInv, RuntimePointers, Candidates, UndoSteps,
         LastSteps
    <3> QED BY <2>1, <2>2, <3>1
  <2>8. CASE UnbindsQueue(c) \/ QueueCloses(c)
    <3>2. /\ step[c] \in {"unbind", "closeQueue"} /\ (c \in Loads \/ c \in Shutdowns)
          /\ \/ step'[c] = "closeQueue"
             \/ c \notin Shutdowns /\ step'[c] = "swapRuntime"
             \/ c \in Shutdowns /\ step'[c] \in {"done", "endStorage"}
      BY <1>1, <1>2, <2>8 DEF UnbindsQueue, QueueCloses, AfterQueue, KindInv, LastSteps,
         Candidates, UndoSteps
    <3>1. Here
      BY <1>1, <1>2, <2>1, <3>2 DEF RuntimesLive, RuntimeAt, KindInv, FreshInv, RuntimePointers,
         Candidates, UndoSteps, LastSteps
    <3> QED BY <2>1, <2>2, <3>1
  <2>9. CASE QueueTimesOut(c)
    <3>1. Here
      BY <1>1, <1>2, <2>1, <2>9 DEF QueueTimesOut, GivesUp,
         RuntimesLive, RuntimeAt, KindInv, FreshInv, RuntimePointers, Candidates, UndoSteps,
         LastSteps
    <3> QED BY <2>1, <2>2, <3>1
  <2>10. CASE SwapsDatabase(c) \/ RetiresDatabase(c)
    <3>1. Here
      BY <1>1, <1>2, <2>1, <2>10 DEF SwapsDatabase, RetiresDatabase,
         RuntimesLive, RuntimeAt, KindInv, FreshInv, RuntimePointers, Candidates, UndoSteps,
         LastSteps
    <3> QED BY <2>1, <2>2, <3>1
  <2>11. CASE OpensReplacement(c) \/ BindsWatcher(c) \/ Installs(c)
    <3>1. Here
      BY <1>1, <1>2, <2>1, <2>11 DEF OpensReplacement, BindsWatcher, Installs,
         RuntimesLive, RuntimeAt, KindInv, FreshInv, RuntimePointers, Candidates, UndoSteps,
         LastSteps
    <3> QED BY <2>1, <2>2, <3>1
  <2>12. CASE ClosesStorage(c) \/ StorageDrains(c) \/ WithdrawsDatabase(c)
    <3>1. Here
      BY <1>1, <1>2, <2>1, <2>12 DEF ClosesStorage, StorageDrains, WithdrawsDatabase,
         RuntimesLive, RuntimeAt, KindInv, FreshInv, RuntimePointers, Candidates, UndoSteps,
         LastSteps
    <3> QED BY <2>1, <2>2, <3>1
  <2> QED BY <1>4, <2>3, <2>4, <2>5, <2>6, <2>7, <2>8, <2>9, <2>10, <2>11, <2>12
<1>5. CASE PreparesRuntime(c)
  <2>1. /\ step[c] = "runtime"
        /\ UNCHANGED <<runtimeOwned, runtimeCenter, runtimePrevious>>
    BY <1>1, <1>2, <1>5 DEF PreparesRuntime
  <2>2. /\ c \in Loads /\ runtimes[c] = "none" /\ c \notin RuntimePointers
        /\ RuntimesLive({runtimeOwned})
    BY <1>1, <1>2, <1>3, <2>1 DEF RuntimeAt, KindInv, FreshInv, RuntimePointers, Candidates,
       UndoSteps, LastSteps
  <2> DEFINE Ends(v) == /\ (runtimes' = runtimes /\ v = runtimes[c]) \/ runtimes' = [runtimes EXCEPT ![c] = v]
                        /\ step'[c] = "queue" \/ (step'[c] = "undoDatabase" /\ v = "none")
  <2>8. Ends("none") \/ Ends("open") BY <1>1, <2>2, <1>5 DEF PreparesRuntime
  <2>9. PICK v \in {"none", "open"} : Ends(v) BY <2>8
  <2>10. runtimes' \in [ConfigCalls -> Phases] BY <1>1, <2>9
  <2>11. \A h \in ConfigCalls : runtimes'[h] = IF h = c THEN v ELSE runtimes[h] BY <1>1, <2>2,
       <2>9
  <2>3. /\ runtimes' \in [ConfigCalls -> Phases] /\ v \in {"none", "open"}
        /\ \A h \in ConfigCalls : runtimes'[h] = IF h = c THEN v ELSE runtimes[h]
        /\ step'[c] = "queue" \/ (step'[c] = "undoDatabase" /\ v = "none")
    BY <2>9, <2>10, <2>11
  <2> HIDE DEF Ends
  <2>4. RuntimesInv' BY <1>1, <1>2, <1>3, <2>1, <2>2, <2>3 DEF RuntimesInv, RuntimePointers
  <2>5. RuntimeAt(c)' /\ (step'[c] = "done" => RuntimesLive({runtimeOwned})')
    BY <1>1, <1>2, <2>1, <2>2, <2>3 DEF RuntimeAt, RuntimesLive, RuntimesInv, Candidates,
       UndoSteps, LastSteps
  <2>6. \A d \in ConfigCalls \ {c} : d \notin RuntimePointers =>
           runtimes'[d] = runtimes[d] /\ d \notin RuntimePointers'
    BY <1>1, <2>1, <2>2, <2>3 DEF RuntimePointers
  <2>7. /\ \A d \in ConfigCalls : d \notin Loads => runtimes'[d] = runtimes[d]
        /\ step'[c] \in {"open", "runtime"} => runtimes'[c] = "none"
        /\ step'[c] = "open" \/ (c \in Loads /\ step'[c] \in Candidates) => c \notin RuntimePointers'
    BY <1>1, <1>3, <2>1, <2>2, <2>3 DEF RuntimePointers, Candidates, UndoSteps
  <2> QED BY <2>3, <2>4, <2>5, <2>6, <2>7
<1>6. CASE SwapsRuntime(c)
  <2>1. /\ step[c] = "swapRuntime" /\ runtimePrevious' = runtimeOwned /\ runtimeOwned' = Nothing
        /\ runtimeCenter' = IF runtimeOwned = Candidate(runtimes, c) THEN runtimeCenter ELSE Nothing
        /\ step'[c] = IF runtimeOwned # Nothing THEN "closeRuntime" ELSE "publish"
        /\ UNCHANGED <<runtimes>>
    BY <1>1, <1>2, <1>6 DEF SwapsRuntime
  <2>2. /\ c \in Loads /\ runtimes[c] \in {"none", "open"} /\ c \notin RuntimePointers /\ RuntimesLive({runtimeOwned, c})
        /\ runtimeCenter' = Nothing
    BY <1>1, <1>2, <1>3, <2>1 DEF RuntimeAt, KindInv, FreshInv, RuntimePointers, Candidates,
       UndoSteps, LastSteps, Candidate, RuntimesInv
  <2>3. runtimes' = runtimes /\ runtimes' \in [ConfigCalls -> Phases] BY <1>1, <2>1
  <2>4. RuntimesInv' BY <1>1, <1>2, <1>3, <2>1, <2>2, <2>3 DEF RuntimesInv, RuntimePointers
  <2>5. RuntimeAt(c)' /\ (step'[c] = "done" => RuntimesLive({runtimeOwned})')
    BY <1>1, <1>2, <2>1, <2>2, <2>3 DEF RuntimeAt, RuntimesLive, RuntimesInv, Candidates,
       UndoSteps, LastSteps
  <2>6. \A d \in ConfigCalls \ {c} : d \notin RuntimePointers =>
           runtimes'[d] = runtimes[d] /\ d \notin RuntimePointers'
    BY <1>1, <2>1, <2>2, <2>3 DEF RuntimePointers
  <2>7. /\ \A d \in ConfigCalls : d \notin Loads => runtimes'[d] = runtimes[d]
        /\ step'[c] \in {"open", "runtime"} => runtimes'[c] = "none"
        /\ step'[c] = "open" \/ (c \in Loads /\ step'[c] \in Candidates) => c \notin RuntimePointers'
    BY <1>1, <1>3, <2>1, <2>2, <2>3 DEF RuntimePointers, Candidates, UndoSteps
  <2> QED BY <2>3, <2>4, <2>5, <2>6, <2>7
<1>7. CASE RuntimeCloses(c)
  <2>1. /\ step[c] = "closeRuntime" /\ step'[c] = "publish"
        /\ runtimes' = [runtimes EXCEPT ![runtimePrevious] = "closed"]
        /\ UNCHANGED <<runtimeOwned, runtimeCenter, runtimePrevious>>
    BY <1>1, <1>2, <1>7 DEF RuntimeCloses
  <2>2. /\ c \in Loads /\ runtimes[c] \in {"none", "open"} /\ c \notin RuntimePointers /\ RuntimesLive({runtimePrevious, c})
        /\ runtimeOwned = Nothing /\ runtimePrevious \in Loads /\ runtimePrevious # c
    BY <1>1, <1>2, <1>3, <2>1 DEF RuntimeAt, KindInv, FreshInv, RuntimePointers, Candidates,
       UndoSteps, LastSteps
  <2>3. /\ runtimes' \in [ConfigCalls -> Phases]
        /\ \A h \in ConfigCalls : runtimes'[h] = IF h = runtimePrevious THEN "closed" ELSE runtimes[h]
    BY <1>1, <2>1, <2>2
  <2>4. RuntimesInv' BY <1>1, <1>2, <1>3, <2>1, <2>2, <2>3 DEF RuntimesInv, RuntimePointers
  <2>5. RuntimeAt(c)' /\ (step'[c] = "done" => RuntimesLive({runtimeOwned})')
    BY <1>1, <1>2, <2>1, <2>2, <2>3 DEF RuntimeAt, RuntimesLive, RuntimesInv, Candidates,
       UndoSteps, LastSteps
  <2>6. \A d \in ConfigCalls \ {c} : d \notin RuntimePointers =>
           runtimes'[d] = runtimes[d] /\ d \notin RuntimePointers'
    BY <1>1, <2>1, <2>2, <2>3 DEF RuntimePointers
  <2>7. /\ \A d \in ConfigCalls : d \notin Loads => runtimes'[d] = runtimes[d]
        /\ step'[c] \in {"open", "runtime"} => runtimes'[c] = "none"
        /\ step'[c] = "open" \/ (c \in Loads /\ step'[c] \in Candidates) => c \notin RuntimePointers'
    BY <1>1, <1>3, <2>1, <2>2, <2>3 DEF RuntimePointers, Candidates, UndoSteps
  <2> QED BY <2>3, <2>4, <2>5, <2>6, <2>7
<1>8. CASE RuntimeFails(c)
  <2>1. /\ step[c] = "closeRuntime" /\ step'[c] = "undoQueue" /\ runtimeOwned' = runtimePrevious
        /\ UNCHANGED <<runtimeCenter, runtimePrevious>>
    BY <1>1, <1>2, <1>8 DEF RuntimeFails
  <2>2. /\ c \in Loads /\ runtimes[c] \in {"none", "open"} /\ c \notin RuntimePointers /\ RuntimesLive({runtimePrevious, c})
        /\ runtimeOwned = Nothing /\ runtimePrevious \in Loads /\ runtimePrevious # c
    BY <1>1, <1>2, <1>3, <2>1 DEF RuntimeAt, KindInv, FreshInv, RuntimePointers, Candidates,
       UndoSteps, LastSteps
  <2> DEFINE Ends(v) == /\ runtimes' = [runtimes EXCEPT ![runtimePrevious] = v]
                        /\ c \in Loads
  <2>8. Ends("closing") \/ Ends("closed") BY <1>1, <2>2, <1>8 DEF RuntimeFails
  <2>9. PICK v \in {"closing", "closed"} : Ends(v) BY <2>8
  <2>10. runtimes' \in [ConfigCalls -> Phases] BY <1>1, <2>9
  <2>11. \A h \in ConfigCalls : runtimes'[h] = IF h = runtimePrevious THEN v ELSE runtimes[h] BY <1>1, <2>2, <2>9
  <2>3. /\ runtimes' \in [ConfigCalls -> Phases] /\ v \in {"closing", "closed"}
        /\ \A h \in ConfigCalls : runtimes'[h] = IF h = runtimePrevious THEN v ELSE runtimes[h]
        /\ c \in Loads
    BY <2>9, <2>10, <2>11
  <2> HIDE DEF Ends
  <2>4. RuntimesInv' BY <1>1, <1>2, <1>3, <2>1, <2>2, <2>3 DEF RuntimesInv, RuntimePointers
  <2>5. RuntimeAt(c)' /\ (step'[c] = "done" => RuntimesLive({runtimeOwned})')
    BY <1>1, <1>2, <2>1, <2>2, <2>3 DEF RuntimeAt, RuntimesLive, RuntimesInv, Candidates,
       UndoSteps, LastSteps
  <2>6. \A d \in ConfigCalls \ {c} : d \notin RuntimePointers =>
           runtimes'[d] = runtimes[d] /\ d \notin RuntimePointers'
    BY <1>1, <2>1, <2>2, <2>3 DEF RuntimePointers
  <2>7. /\ \A d \in ConfigCalls : d \notin Loads => runtimes'[d] = runtimes[d]
        /\ step'[c] \in {"open", "runtime"} => runtimes'[c] = "none"
        /\ step'[c] = "open" \/ (c \in Loads /\ step'[c] \in Candidates) => c \notin RuntimePointers'
    BY <1>1, <1>3, <2>1, <2>2, <2>3 DEF RuntimePointers, Candidates, UndoSteps
  <2> QED BY <2>3, <2>4, <2>5, <2>6, <2>7
<1>9. CASE Publishes(c)
  <2>1. /\ step[c] = "publish" /\ step'[c] = "swap" /\ runtimeOwned' = IF runtimes[c] = "open" THEN c ELSE Nothing
        /\ runtimeCenter' = IF runtimeOwned' # Nothing THEN runtimeOwned' ELSE runtimeCenter
        /\ UNCHANGED <<runtimes, runtimePrevious>>
    BY <1>1, <1>2, <1>9 DEF Publishes, Candidate
  <2>2. /\ c \in Loads /\ runtimes[c] \in {"none", "open"} /\ c \notin RuntimePointers /\ RuntimesLive({c})
        /\ runtimeOwned = Nothing /\ runtimeCenter = Nothing
    BY <1>1, <1>2, <1>3, <2>1 DEF RuntimeAt, KindInv, FreshInv, RuntimePointers, Candidates,
       UndoSteps, LastSteps, RuntimesInv
  <2>3. runtimes' = runtimes /\ runtimes' \in [ConfigCalls -> Phases] BY <1>1, <2>1
  <2>4. RuntimesInv' BY <1>1, <1>2, <1>3, <2>1, <2>2, <2>3 DEF RuntimesInv, RuntimePointers
  <2>5. RuntimeAt(c)' /\ (step'[c] = "done" => RuntimesLive({runtimeOwned})')
    BY <1>1, <1>2, <2>1, <2>2, <2>3 DEF RuntimeAt, RuntimesLive, RuntimesInv, Candidates,
       UndoSteps, LastSteps
  <2>6. \A d \in ConfigCalls \ {c} : d \notin RuntimePointers =>
           runtimes'[d] = runtimes[d] /\ d \notin RuntimePointers'
    BY <1>1, <2>1, <2>2, <2>3 DEF RuntimePointers
  <2>7. /\ \A d \in ConfigCalls : d \notin Loads => runtimes'[d] = runtimes[d]
        /\ step'[c] \in {"open", "runtime"} => runtimes'[c] = "none"
        /\ step'[c] = "open" \/ (c \in Loads /\ step'[c] \in Candidates) => c \notin RuntimePointers'
    BY <1>1, <1>3, <2>1, <2>2, <2>3 DEF RuntimePointers, Candidates, UndoSteps
  <2> QED BY <2>3, <2>4, <2>5, <2>6, <2>7
<1>10. CASE UndoesRuntime(c)
  <2>1. /\ step[c] = "undoRuntime" /\ step'[c] = "undoDatabase"
        /\ UNCHANGED <<runtimeOwned, runtimeCenter, runtimePrevious>>
    BY <1>1, <1>2, <1>10 DEF UndoesRuntime, CloseEnds
  <2>2. /\ c \in Loads /\ runtimes[c] \in {"none", "open"} /\ c \notin RuntimePointers /\ RuntimesLive({runtimeOwned, c})
    BY <1>1, <1>2, <1>3, <2>1 DEF RuntimeAt, KindInv, FreshInv, RuntimePointers, Candidates,
       UndoSteps, LastSteps
  <2> DEFINE Ends(v) == /\ (runtimes' = runtimes /\ v = runtimes[c]) \/ runtimes' = [runtimes EXCEPT ![c] = v]
                        /\ c \in Loads
  <2>8. Ends("none") \/ Ends("dropped") \/ Ends("closed") BY <1>1, <2>2, <1>10
       DEF UndoesRuntime, CloseEnds
  <2>9. PICK v \in {"none", "dropped", "closed"} : Ends(v) BY <2>8
  <2>10. runtimes' \in [ConfigCalls -> Phases] BY <1>1, <2>9
  <2>11. \A h \in ConfigCalls : runtimes'[h] = IF h = c THEN v ELSE runtimes[h] BY <1>1, <2>2,
       <2>9
  <2>3. /\ runtimes' \in [ConfigCalls -> Phases] /\ v \in {"none", "dropped", "closed"}
        /\ \A h \in ConfigCalls : runtimes'[h] = IF h = c THEN v ELSE runtimes[h]
        /\ c \in Loads
    BY <2>9, <2>10, <2>11
  <2> HIDE DEF Ends
  <2>4. RuntimesInv' BY <1>1, <1>2, <1>3, <2>1, <2>2, <2>3 DEF RuntimesInv, RuntimePointers
  <2>5. RuntimeAt(c)' /\ (step'[c] = "done" => RuntimesLive({runtimeOwned})')
    BY <1>1, <1>2, <2>1, <2>2, <2>3 DEF RuntimeAt, RuntimesLive, RuntimesInv, Candidates,
       UndoSteps, LastSteps
  <2>6. \A d \in ConfigCalls \ {c} : d \notin RuntimePointers =>
           runtimes'[d] = runtimes[d] /\ d \notin RuntimePointers'
    BY <1>1, <2>1, <2>2, <2>3 DEF RuntimePointers
  <2>7. /\ \A d \in ConfigCalls : d \notin Loads => runtimes'[d] = runtimes[d]
        /\ step'[c] \in {"open", "runtime"} => runtimes'[c] = "none"
        /\ step'[c] = "open" \/ (c \in Loads /\ step'[c] \in Candidates) => c \notin RuntimePointers'
    BY <1>1, <1>3, <2>1, <2>2, <2>3 DEF RuntimePointers, Candidates, UndoSteps
  <2> QED BY <2>3, <2>4, <2>5, <2>6, <2>7
<1>11. CASE EndsRuntime(c)
  <2>8. /\ step[c] = "endRuntime" /\ runtimeCenter' = Nothing /\ runtimePrevious' = runtimePrevious
        /\ RuntimesLive({runtimeOwned}) /\ c \in Shutdowns /\ c \notin Loads
    BY <1>1, <1>2, <1>11 DEF EndsRuntime, RuntimeAt, KindInv, FreshInv, RuntimePointers,
       Candidates, UndoSteps, LastSteps
  <2>9. CASE runtimeOwned = Nothing /\ step'[c] = "withdraw" /\ UNCHANGED <<runtimes, runtimeOwned>>
    <3>1. RuntimesInv' /\ runtimes' \in [ConfigCalls -> Phases] BY <1>1, <1>2, <2>8, <2>9
         DEF RuntimesInv, RuntimePointers
    <3>2. RuntimeAt(c)' BY <1>1, <2>8, <2>9 DEF RuntimeAt, RuntimesLive, LastSteps
    <3> QED BY <2>8, <2>9, <3>1, <3>2 DEF RuntimePointers
  <2>10. CASE /\ runtimeOwned # Nothing
              /\ \/ /\ runtimes' = [runtimes EXCEPT ![runtimeOwned] = "closed"] /\ runtimeOwned' = Nothing
                    /\ step'[c] = "withdraw"
                 \/ /\ runtimes' = [runtimes EXCEPT ![runtimeOwned] = "closing"]
                    /\ runtimeOwned' = runtimeOwned /\ step'[c] = "done"
    <3>1. runtimeOwned \in Loads BY <1>3, <2>10 DEF RuntimePointers
    <3>2. runtimes' \in [ConfigCalls -> Phases] BY <1>1, <2>10
    <3>3. \A h \in ConfigCalls : IF h = runtimeOwned
             THEN runtimes'[h] = IF step'[c] = "withdraw" THEN "closed" ELSE "closing"
             ELSE runtimes'[h] = runtimes[h]
      BY <1>1, <2>10, <3>1
    <3>4. RuntimesInv' BY <1>2, <2>8, <2>10, <3>1 DEF RuntimesInv, RuntimePointers
    <3>5. RuntimeAt(c)' /\ (step'[c] = "done" => RuntimesLive({runtimeOwned})')
      BY <1>1, <2>8, <2>10, <3>3 DEF RuntimeAt, RuntimesLive, LastSteps
    <3>6. \A d \in ConfigCalls \ {c} : d \notin RuntimePointers =>
             runtimes'[d] = runtimes[d] /\ d \notin RuntimePointers'
      BY <1>1, <2>8, <2>10, <3>3 DEF RuntimePointers
    <3>7. \A d \in ConfigCalls : d \notin Loads => runtimes'[d] = runtimes[d] BY <3>1, <3>3
    <3> QED BY <2>8, <2>10, <3>2, <3>4, <3>5, <3>6, <3>7
  <2> QED BY <1>1, <1>11, <2>9, <2>10 DEF EndsRuntime, StopsAtRuntime
<1> QED
  BY <1>4, <1>5, <1>6, <1>7, <1>8, <1>9, <1>10, <1>11
  DEF ConfigStep, LoadStep, QueueStep

(* Who owns the database, and which handles a step of a call touches.      *)
LEMMA OwnerChanges ==
  ASSUME ConfigInv, NEW c \in ConfigCalls, Begin(c) \/ ConfigStep(c)
  PROVE  /\ dbOwned' \in {dbOwned, c, Nothing}
         /\ dbOwned' = dbOwned \/ step'[c] \in {"drain", "done"}
         /\ \A d \in ConfigCalls : databases[d] = "none" /\ (d = c => step'[c] = "open") => databases'[d] = "none"
         /\ step'[c] = "open" => step[c] = "idle"
         /\ c \in Loads /\ step'[c] \in Candidates => step[c] \in {"open"} \cup Candidates
         /\ borrowed' = borrowed /\ storing' = storing
<1> USE ConfigAssumption DEF Stands, Goes, Becomes
<1>1. /\ step \in [ConfigCalls -> Steps] /\ databases \in [ConfigCalls -> Phases]
      /\ c \in Loads \/ c \in Changes \/ c \in Shutdowns
  BY DEF ConfigInv, ConfigTypeOK, ConfigCalls
<1>2. KindInv(c) /\ DatabaseAt(c) BY DEF ConfigInv
<1>3. CASE Begin(c)
  <2>1. step'[c] = (IF c \in Shutdowns THEN "endRuntime" ELSE "open") /\ step[c] = "idle"
    BY <1>1, <1>3 DEF Begin
  <2> QED BY <1>1, <1>3, <2>1 DEF Begin, dbVars, useVars, Candidates, UndoSteps
<1>4. CASE NothingOpens(c) \/ PreparesRuntime(c) \/ BuildsQueue(c)
  BY <1>1, <1>2, <1>4
  DEF NothingOpens, PreparesRuntime, BuildsQueue, dbVars, useVars, Candidates, UndoSteps, KindInv
<1>5. CASE SwapsRuntime(c) \/ RuntimeCloses(c) \/ RuntimeFails(c) \/ Publishes(c)
  BY <1>1, <1>2, <1>5
  DEF SwapsRuntime, RuntimeCloses, RuntimeFails, Publishes, dbVars, useVars, Candidates,
  UndoSteps, KindInv
<1>6. CASE UndoesQueue(c) \/ UndoesRuntime(c)
  BY <1>1, <1>2, <1>6
  DEF UndoesQueue, UndoesRuntime, dbVars, useVars, Candidates, UndoSteps, KindInv
<1>7. CASE WithdrawsQueue(c)
  BY <1>1, <1>2, <1>7
  DEF WithdrawsQueue, dbVars, useVars, Candidates, UndoSteps, KindInv
<1>8. CASE UnbindsQueue(c) \/ QueueCloses(c) \/ QueueTimesOut(c)
  BY <1>1, <1>2, <1>8
  DEF UnbindsQueue, QueueCloses, QueueTimesOut, AfterQueue, GivesUp, dbVars, useVars,
  Candidates, UndoSteps, KindInv
<1>9. CASE EndsRuntime(c) \/ ClosesStorage(c) \/ StorageDrains(c)
  BY <1>1, <1>2, <1>9
  DEF EndsRuntime, ClosesStorage, StorageDrains, StopsAtRuntime, dbVars, useVars, Candidates,
  UndoSteps, KindInv
<1>10. CASE Installs(c)
  BY <1>1, <1>2, <1>10
  DEF Installs, dbVars, useVars, Candidates, UndoSteps, KindInv
<1>11. CASE OpensDatabase(c)
  BY <1>1, <1>2, <1>11 DEF OpensDatabase, useVars, Candidates, UndoSteps, KindInv
<1>12. CASE UndoesDatabase(c)
  BY <1>1, <1>2, <1>12 DEF UndoesDatabase, useVars, Candidates, UndoSteps, KindInv
<1>13. CASE OpensReplacement(c)
  BY <1>1, <1>2, <1>13 DEF OpensReplacement, useVars, Candidates, UndoSteps, KindInv
<1>14. CASE BindsWatcher(c)
  BY <1>1, <1>2, <1>14 DEF BindsWatcher, useVars, Candidates, UndoSteps, KindInv
<1>15. CASE SwapsDatabase(c)
  BY <1>1, <1>2, <1>15 DEF SwapsDatabase, useVars, Candidates, UndoSteps, KindInv
<1>16. CASE WithdrawsDatabase(c)
  BY <1>1, <1>2, <1>16 DEF WithdrawsDatabase, useVars, Candidates, UndoSteps, KindInv
<1>17. CASE RetiresDatabase(c)
  <2>1. /\ databases' = [databases EXCEPT ![dbPrevious] = "closed"] /\ UNCHANGED <<dbOwned, borrowed, storing>>
        /\ step[c] = "drain" /\ step'[c] = "done"
    BY <1>1, <1>17 DEF RetiresDatabase, useVars
  <2>2. dbPrevious \in ConfigCalls /\ databases[dbPrevious] = "open"
    BY <1>2, <2>1 DEF ConfigInv, ConfigTypeOK, Maybe, DatabaseAt, OpenAre
  <2> QED BY <1>1, <2>1, <2>2 DEF Candidates, UndoSteps
<1> QED
  BY <1>3, <1>4, <1>5, <1>6, <1>7, <1>8, <1>9, <1>10, <1>11, <1>12, <1>13, <1>14, <1>15, <1>16,
     <1>17
  DEF ConfigStep, LoadStep, QueueStep

(* The object storage loses its transport under no operation.              *)
LEMMA StorageStays ==
  ASSUME ConfigInv, NEW c \in ConfigCalls, Begin(c) \/ ConfigStep(c)
  PROVE  /\ StorageInv'
         /\ storage' \in [closing : BOOLEAN, transport : BOOLEAN, root : BOOLEAN, installed : BOOLEAN]
<1>0. /\ storage \in [closing : BOOLEAN, transport : BOOLEAN, root : BOOLEAN, installed : BOOLEAN]
      /\ StorageInv /\ storing' = storing
  BY OwnerChanges DEF ConfigInv, ConfigTypeOK
<1>1. \/ storage' = storage
      \/ StorageIdle /\ storage' = StorageClosed
      \/ storage' = [storage EXCEPT !.closing = TRUE]
  <2>1. CASE ClosesStorage(c) \/ StorageDrains(c) BY <2>1 DEF ClosesStorage, StorageDrains
  <2>2. CASE Begin(c) \/ LoadStep(c)
    BY <2>2 DEF Begin, LoadStep, NothingOpens, OpensDatabase, PreparesRuntime, BuildsQueue,
       SwapsRuntime,
                RuntimeCloses, RuntimeFails, Publishes, UndoesQueue, UndoesRuntime,
                UndoesDatabase, useVars
  <2>3. CASE QueueStep(c)
    BY <2>3 DEF QueueStep, WithdrawsQueue, UnbindsQueue, QueueCloses, QueueTimesOut, useVars
  <2>4. CASE SwapsDatabase(c) \/ RetiresDatabase(c) \/ OpensReplacement(c) \/ BindsWatcher(c) \/ Installs(c)
    BY <2>4 DEF SwapsDatabase, RetiresDatabase, OpensReplacement, BindsWatcher, Installs, useVars
  <2>5. CASE EndsRuntime(c) \/ WithdrawsDatabase(c)
    BY <2>5 DEF EndsRuntime, WithdrawsDatabase, useVars
  <2> QED BY <2>1, <2>2, <2>3, <2>4, <2>5 DEF ConfigStep
<1>2. CASE storage' = storage BY <1>0, <1>2 DEF StorageInv
<1>3. CASE StorageIdle /\ storage' = StorageClosed
  BY <1>0, <1>3 DEF StorageInv, StorageIdle, StorageClosed
<1>4. CASE storage' = [storage EXCEPT !.closing = TRUE] BY <1>0, <1>4 DEF StorageInv
<1> QED BY <1>1, <1>2, <1>3, <1>4

LEMMA CallPreserves ==
  ASSUME ConfigInv, NEW c \in ConfigCalls, Begin(c) \/ ConfigStep(c)
  PROVE  ConfigInv'
<1> USE ConfigAssumption
<1>1. /\ step \in [ConfigCalls -> Steps] /\ step' \in [ConfigCalls -> Steps]
      /\ \A d \in ConfigCalls \ {c} : step[d] \in {"idle", "done"} /\ step'[d] = step[d]
      /\ Quiet' <=> step'[c] = "done"
      /\ step'[c] # "idle"
  BY CallMoves DEF ConfigInv, ConfigTypeOK
<1>2. OneAtATime' BY <1>1 DEF OneAtATime
<1>3. ConfigTypeOK'
  <2>1. databases' \in [ConfigCalls -> Phases] /\ {dbOwned', dbDefault', dbPrevious'} \subseteq Maybe
    BY DatabaseStep
  <2>2. queues' \in [ConfigCalls -> Phases] /\ runtimes' \in [ConfigCalls -> Phases]
    BY QueueChanges, RuntimeChanges
  <2>3. {queueOwned', queueRetiring', queueCenter', runtimeOwned', runtimeCenter', runtimePrevious'}
           \subseteq Maybe
    BY QueueChanges, RuntimeChanges
    DEF QueuesInv, RuntimesInv, QueuePointers, RuntimePointers, Maybe, ConfigCalls
  <2>4. borrowed' = borrowed /\ storing' = storing BY OwnerChanges
  <2>5. storage' \in [closing : BOOLEAN, transport : BOOLEAN, root : BOOLEAN, installed : BOOLEAN]
    BY StorageStays
  <2> QED BY <1>1, <2>1, <2>2, <2>3, <2>4, <2>5 DEF ConfigInv, ConfigTypeOK
<1>4. ASSUME NEW d \in ConfigCalls PROVE KindInv(d)'
  <2>1. KindInv(d) BY DEF ConfigInv
  <2>2. d \notin Loads => queues'[d] = queues[d] /\ runtimes'[d] = runtimes[d]
    BY QueueChanges, RuntimeChanges
  <2>3. CASE d = c BY <2>1, <2>2, <2>3, KindStep DEF KindInv
  <2>4. CASE d # c BY <1>1, <2>1, <2>2, <2>4 DEF KindInv
  <2> QED BY <2>3, <2>4
<1>5. ASSUME NEW d \in ConfigCalls PROVE FreshInv(d)'
  <2>1. FreshInv(d) BY DEF ConfigInv
  <2>2. CASE d # c
    <3>1. CASE step[d] = "done" BY <1>1, <2>2, <3>1 DEF FreshInv, Candidates, UndoSteps
    <3>2. CASE step[d] = "idle"
      <4>1. /\ databases[d] = "none" /\ queues[d] = "none" /\ runtimes[d] = "none"
            /\ d \notin QueuePointers /\ d \notin RuntimePointers /\ d # dbOwned
        BY <2>1, <3>2 DEF FreshInv
      <4>2. queues'[d] = "none" /\ d \notin QueuePointers' BY <2>2, <4>1, QueueChanges
      <4>3. runtimes'[d] = "none" /\ d \notin RuntimePointers' BY <2>2, <4>1, RuntimeChanges
      <4>4. databases'[d] = "none" /\ d # dbOwned' BY <2>2, <4>1, OwnerChanges
      <4> QED BY <1>1, <2>2, <3>2, <4>2, <4>3, <4>4 DEF FreshInv
    <3> QED BY <1>1, <2>2, <3>1, <3>2
  <2>3. CASE d = c
    <3>1. step'[c] = "open" => databases'[c] = "none" BY <2>1, <2>3, OwnerChanges DEF FreshInv
    <3>2. step'[c] = "open" \/ (c \in Loads /\ step'[c] \in Candidates) => c # dbOwned'
      <4>1. step'[c] = "open" => step[c] = "idle" /\ dbOwned' = dbOwned BY OwnerChanges
      <4>2. c \in Loads /\ step'[c] \in Candidates =>
               step[c] \in {"open"} \cup Candidates /\ dbOwned' = dbOwned
        BY OwnerChanges DEF Candidates, UndoSteps
      <4> QED BY <2>1, <2>3, <4>1, <4>2 DEF FreshInv
    <3>3. /\ step'[c] \in {"open", "runtime", "queue"} => queues'[c] = "none"
          /\ step'[c] = "open" \/ (c \in Loads /\ step'[c] \in Candidates) => c \notin QueuePointers'
      BY QueueChanges
    <3>4. /\ step'[c] \in {"open", "runtime"} => runtimes'[c] = "none"
          /\ step'[c] = "open" \/ (c \in Loads /\ step'[c] \in Candidates) => c \notin RuntimePointers'
      BY RuntimeChanges
    <3> QED BY <1>1, <2>3, <3>1, <3>2, <3>3, <3>4 DEF FreshInv
  <2> QED BY <2>2, <2>3
<1>6. ASSUME NEW d \in ConfigCalls PROVE DatabaseAt(d)' /\ QueueAt(d)' /\ RuntimeAt(d)'
  <2>1. CASE d = c BY <2>1, DatabaseStep, QueueChanges, RuntimeChanges
  <2>2. CASE d # c
    <3>1. step'[d] \in {"idle", "done"} BY <1>1, <2>2
    <3> QED BY <3>1 DEF DatabaseAt, QueueAt, RuntimeAt, Candidates, UndoSteps, LastSteps
  <2> QED BY <2>1, <2>2
<1>7. Quiet' => DatabaseRests' /\ QueueRests' /\ RuntimesLive({runtimeOwned})'
  BY <1>1, DatabaseStep, QueueChanges, RuntimeChanges
<1>8. QueuesInv' /\ RuntimesInv' /\ LeaseInv' /\ StorageInv'
  BY DatabaseStep, QueueChanges, RuntimeChanges, StorageStays
<1> QED BY <1>2, <1>3, <1>4, <1>5, <1>6, <1>7, <1>8 DEF ConfigInv

(* A queue whose Close timed out ends beside the call that runs.           *)
LEMMA QueueFinishPreserves ==
  ASSUME ConfigInv, NEW q \in ConfigCalls, QueueFinishes(q)
  PROVE  ConfigInv'
<1> USE ConfigAssumption
<1>1. /\ queues[q] = "closing" /\ queues' = [queues EXCEPT ![q] = "closed"]
      /\ UNCHANGED <<step, dbVars, queueOwned, queueRetiring, queueCenter, runtimeVars, useVars>>
  BY DEF QueueFinishes, Becomes
<1>2. queues \in [ConfigCalls -> Phases] /\ "closed" \in Phases BY DEF ConfigInv, ConfigTypeOK,
     Phases
<1>3. /\ queues' \in [ConfigCalls -> Phases]
      /\ \A h \in ConfigCalls : queues'[h] = IF h = q THEN "closed" ELSE queues[h]
  BY <1>1, <1>2
<1>4. ConfigTypeOK' /\ OneAtATime' /\ RuntimesInv' /\ LeaseInv' /\ StorageInv'
  BY <1>1, <1>3 DEF ConfigInv, ConfigTypeOK, OneAtATime, RuntimesInv, RuntimePointers, LeaseInv,
     StorageInv,
                    dbVars, runtimeVars, useVars
<1>5. QueuesInv'
  BY <1>1, <1>3 DEF ConfigInv, QueuesInv, QueuePointers, OneQueueAtATime, IsSet
<1>6. ASSUME NEW d \in ConfigCalls
      PROVE  KindInv(d)' /\ FreshInv(d)' /\ DatabaseAt(d)' /\ QueueAt(d)' /\ RuntimeAt(d)'
  <2>1. KindInv(d) /\ FreshInv(d) /\ DatabaseAt(d) /\ QueueAt(d) /\ RuntimeAt(d) BY DEF ConfigInv
  <2>2. queues'[d] = queues[d] \/ (d = q /\ queues[d] = "closing") BY <1>1, <1>3
  <2>3. \A h \in ConfigCalls : queues'[h] = "open" => queues[h] = "open" BY <1>3
  <2>4. KindInv(d)' BY <1>1, <2>1, <2>2 DEF KindInv, runtimeVars
  <2>5. FreshInv(d)'
    BY <1>1, <2>1, <2>2 DEF FreshInv, QueuePointers, RuntimePointers, dbVars, runtimeVars
  <2>6. DatabaseAt(d)' BY <1>1, <2>1 DEF DatabaseAt, DatabaseRests, OpenAre, dbVars
  <2>7. QueueAt(d)'
    BY <1>1, <2>1, <2>2, <2>3 DEF QueueAt, QueueRests, OpenQueues, QueuesGone
  <2>8. RuntimeAt(d)' BY <1>1, <2>1 DEF RuntimeAt, RuntimesLive, runtimeVars
  <2> QED BY <2>4, <2>5, <2>6, <2>7, <2>8
<1>7. Quiet' => DatabaseRests' /\ QueueRests' /\ RuntimesLive({runtimeOwned})'
  <2>1. Quiet' <=> Quiet BY <1>1 DEF Quiet
  <2>2. \A h \in ConfigCalls : queues'[h] = "open" => queues[h] = "open" BY <1>3
  <2> QED BY <1>1, <2>1, <2>2 DEF ConfigInv, DatabaseRests, OpenAre, QueueRests, OpenQueues,
       RuntimesLive,
                                 dbVars, runtimeVars
<1> QED BY <1>4, <1>5, <1>6, <1>7 DEF ConfigInv

(* The operations beside the calls.                                        *)
LEMMA UsersPreserve ==
  ASSUME ConfigInv,
         \/ \E u \in DatabaseUsers : Leases(u) \/ EndsLease(u)
         \/ InstallsStorage \/ \E u \in ObjectUsers : StorageStep(u)
         \/ UNCHANGED configVars
  PROVE  ConfigInv'
<1> USE ConfigAssumption
<1>1. UNCHANGED <<step, dbVars, queueVars, runtimeVars>>
  BY DEF Leases, EndsLease, InstallsStorage, StorageStep, ReadsStorage, UsesStorage,
     ReleasesStorage,
         configVars, dbVars, queueVars, runtimeVars
<1>2. UNCHANGED <<step, databases, dbOwned, dbDefault, dbPrevious, queues, queueOwned, queueRetiring, queueCenter,
                  runtimes, runtimeOwned, runtimeCenter, runtimePrevious>>
  BY <1>1 DEF dbVars, queueVars, runtimeVars
<1>3. OneAtATime' /\ QueuesInv' /\ RuntimesInv'
  BY <1>2 DEF ConfigInv, OneAtATime, QueuesInv, RuntimesInv, QueuePointers, RuntimePointers,
     OneQueueAtATime
<1>4. \A c \in ConfigCalls : KindInv(c)' /\ FreshInv(c)'
  BY <1>2 DEF ConfigInv, KindInv, FreshInv, QueuePointers, RuntimePointers
<1>5. \A c \in ConfigCalls : DatabaseAt(c)'
  BY <1>2 DEF ConfigInv, DatabaseAt, DatabaseRests, OpenAre
<1>6. \A c \in ConfigCalls : QueueAt(c)'
  BY <1>2 DEF ConfigInv, QueueAt, QueueRests, OpenQueues, QueuesGone
<1>7. \A c \in ConfigCalls : RuntimeAt(c)'
  BY <1>2 DEF ConfigInv, RuntimeAt, RuntimesLive
<1>8. Quiet' => DatabaseRests' /\ QueueRests' /\ RuntimesLive({runtimeOwned})'
  BY <1>2 DEF ConfigInv, Quiet, DatabaseRests, OpenAre, QueueRests, OpenQueues, RuntimesLive
<1>9. /\ borrowed' \in [DatabaseUsers -> Maybe \cup {"returned"}]
      /\ \A u \in DatabaseUsers : borrowed'[u] \in {borrowed[u], "returned", dbOwned}
  <2>0. borrowed \in [DatabaseUsers -> Maybe \cup {"returned"}] /\ dbOwned \in Maybe
    BY DEF ConfigInv, ConfigTypeOK
  <2>1. ASSUME NEW u \in DatabaseUsers, Leases(u) \/ EndsLease(u)
        PROVE  \E b \in {"returned", dbOwned} : borrowed' = [borrowed EXCEPT ![u] = b]
    BY <2>1 DEF Leases, EndsLease
  <2>2. CASE \E u \in DatabaseUsers : Leases(u) \/ EndsLease(u) BY <2>0, <2>1, <2>2
  <2>3. CASE borrowed' = borrowed BY <2>0, <2>3
  <2> QED BY <2>2, <2>3 DEF InstallsStorage, StorageStep, ReadsStorage, UsesStorage,
       ReleasesStorage, configVars
<1>10. LeaseInv' BY <1>2, <1>9 DEF ConfigInv, LeaseInv
<1>11. /\ StorageInv' /\ storing' \in [ObjectUsers -> {"idle", "read", "using", "done"}]
       /\ storage' \in [closing : BOOLEAN, transport : BOOLEAN, root : BOOLEAN, installed : BOOLEAN]
  <2>0. /\ storage \in [closing : BOOLEAN, transport : BOOLEAN, root : BOOLEAN, installed : BOOLEAN]
        /\ storing \in [ObjectUsers -> {"idle", "read", "using", "done"}] /\ StorageInv
    BY DEF ConfigInv, ConfigTypeOK
  <2>1. CASE UNCHANGED <<storage, storing>> BY <2>0, <2>1 DEF StorageInv
  <2>2. CASE storage' = [storage EXCEPT !.installed = TRUE] /\ storing' = storing
    BY <2>0, <2>2 DEF StorageInv
  <2>3. ASSUME NEW u \in ObjectUsers, ReadsStorage(u) \/ UsesStorage(u)
        PROVE  <1>11!:
    <3>1. /\ storage' = storage
          /\ \/ storing' = [storing EXCEPT ![u] = "using"] /\ ~storage.closing
             \/ storing' = [storing EXCEPT ![u] = "read"]
             \/ storing' = [storing EXCEPT ![u] = "done"]
      BY <2>3 DEF ReadsStorage, UsesStorage, Stores, Refused
    <3> QED BY <2>0, <3>1 DEF StorageInv
  <2>4. ASSUME NEW u \in ObjectUsers, ReleasesStorage(u)
        PROVE  <1>11!:
    <3>1. storing' = [storing EXCEPT ![u] = "done"] /\ storing[u] = "using"
      BY <2>4 DEF ReleasesStorage, Stores
    <3>2. storing' \in [ObjectUsers -> {"idle", "read", "using", "done"}]
          /\ \A v \in ObjectUsers : storing'[v] = "using" => v # u /\ storing[v] = "using"
      BY <2>0, <3>1
    <3>3. CASE LastRetires(u)
      <4>1. storage' = [storage EXCEPT !.transport = FALSE] /\ storage.closing
        BY <2>0, <2>4, <3>3 DEF ReleasesStorage, LastRetires
      <4>2. \A v \in ObjectUsers : storing'[v] # "using" BY <3>2, <3>3 DEF LastRetires
      <4> QED BY <2>0, <3>2, <4>1, <4>2 DEF StorageInv
    <3>4. CASE ~LastRetires(u)
      <4>1. storage' = [storage EXCEPT !.transport = storage.transport]
        BY <2>0, <2>4, <3>4 DEF ReleasesStorage
      <4>2. storage' = storage BY <2>0, <4>1
      <4> QED BY <2>0, <3>2, <4>2 DEF StorageInv
    <3> QED BY <3>3, <3>4
  <2> QED BY <2>1, <2>2, <2>3, <2>4 DEF Leases, EndsLease, InstallsStorage, StorageStep,
       configVars
<1>12. ConfigTypeOK' BY <1>2, <1>9, <1>11 DEF ConfigInv, ConfigTypeOK
<1> QED BY <1>3, <1>4, <1>5, <1>6, <1>7, <1>8, <1>10, <1>11, <1>12 DEF ConfigInv

LEMMA ConfigPreserves == ConfigInv /\ [ConfigNext]_configVars => ConfigInv'
BY CallPreserves, QueueFinishPreserves, UsersPreserve DEF ConfigNext

LEMMA ConfigInvIsSafe == ConfigInv => ConfigTypeOK /\ ConfigIsSafe
<1> SUFFICES ASSUME ConfigInv PROVE ConfigTypeOK /\ ConfigIsSafe
  OBVIOUS
<1> USE ConfigAssumption
<1>1. ConfigTypeOK /\ Nothing \notin ConfigCalls BY DEF ConfigInv
<1>2. \A h \in {dbOwned, dbDefault} \ {Nothing} : databases[h] = "open"
  <2>0. {dbOwned, dbDefault} \ {Nothing} \subseteq ConfigCalls BY <1>1 DEF ConfigTypeOK, Maybe
  <2>1. CASE Quiet BY <2>0, <2>1 DEF ConfigInv, DatabaseRests, OpenAre
  <2>2. CASE ~Quiet
    <3>1. PICK c \in ConfigCalls : step[c] \notin {"idle", "done"} BY <2>2 DEF Quiet
    <3>2. KindInv(c) /\ DatabaseAt(c) BY DEF ConfigInv
    <3>3. c \in Loads \/ c \in Changes \/ c \in Shutdowns BY DEF ConfigCalls
    <3> QED BY <2>0, <3>1, <3>2, <3>3
            DEF KindInv, DatabaseAt, DatabaseRests, OpenAre, Candidates, UndoSteps, LastSteps
  <2> QED BY <2>1, <2>2
<1>3. dbPrevious # Nothing => databases[dbPrevious] = "open"
  <2>0. dbPrevious # Nothing => dbPrevious \in ConfigCalls BY <1>1 DEF ConfigTypeOK, Maybe
  <2>1. CASE Quiet BY <2>1 DEF ConfigInv, DatabaseRests
  <2>2. CASE ~Quiet
    <3>1. PICK c \in ConfigCalls : step[c] \notin {"idle", "done"} BY <2>2 DEF Quiet
    <3>2. KindInv(c) /\ DatabaseAt(c) BY DEF ConfigInv
    <3>3. c \in Loads \/ c \in Changes \/ c \in Shutdowns BY DEF ConfigCalls
    <3> QED BY <2>0, <3>1, <3>2, <3>3
            DEF KindInv, DatabaseAt, DatabaseRests, OpenAre, Candidates, UndoSteps, LastSteps
  <2> QED BY <2>1, <2>2
<1>4. LeasesAreOpen
  <2>1. \A u \in DatabaseUsers : borrowed[u] \in ConfigCalls => databases[borrowed[u]] = "open"
    BY <1>1, <1>2, <1>3 DEF ConfigInv, LeaseInv
  <2> QED BY <2>1 DEF ConfigInv, StorageInv, LeasesAreOpen
<1>5. PublishedIsOpen
  BY <1>2 DEF PublishedIsOpen, ConfigInv, QueuesInv, RuntimesInv, IsSet
<1>6. NothingIsLost
  BY DEF NothingIsLost, ConfigInv, QueuesInv, Quiet, DatabaseRests, OpenAre, QueueRests,
     OpenQueues, RuntimesLive
<1>7. RetiringSeesItsOwn
  BY DEF RetiringSeesItsOwn, ConfigInv, DatabaseAt, Candidates, UndoSteps, ConfigCalls
<1>8. OneQueueAtATime BY DEF ConfigInv, QueuesInv
<1> QED BY <1>1, <1>4, <1>5, <1>6, <1>7, <1>8 DEF ConfigIsSafe

(* Nobody works on a closed database or storage, nothing published is      *)
(* closed, and nothing open is forgotten, for any number of loads, source  *)
(* changes and shutdowns.                                                  *)
THEOREM ConfigSafe == ConfigSpec => [](ConfigTypeOK /\ ConfigIsSafe)
<1> QED BY ConfigInitially, ConfigPreserves, ConfigInvIsSafe, PTL DEF ConfigSpec

LEMMA WithdrawalComesLast ==
  ConfigInv /\ [ConfigNext]_configVars =>
     (dbOwned' = Nothing /\ IsSet(dbOwned) =>
         /\ ~IsSet(runtimeOwned) /\ ~IsSet(queueOwned) /\ ~IsSet(queueRetiring)
         /\ \A c \in ConfigCalls : {queues[c], runtimes[c]} \cap {"open", "closing"} = {})
     \/ UNCHANGED configVars
<1> SUFFICES ASSUME ConfigInv, ConfigNext, dbOwned' = Nothing, IsSet(dbOwned)
             PROVE  /\ ~IsSet(runtimeOwned) /\ ~IsSet(queueOwned) /\ ~IsSet(queueRetiring)
                    /\ \A c \in ConfigCalls : {queues[c], runtimes[c]} \cap {"open", "closing"} = {}
  OBVIOUS
<1> USE ConfigAssumption
<1>1. PICK c \in ConfigCalls : WithdrawsDatabase(c)
  <2>1. dbOwned' # dbOwned BY DEF IsSet
  <2>2. \A c \in ConfigCalls : c # Nothing OBVIOUS
  <2>3. ASSUME NEW c \in ConfigCalls, Begin(c) \/ ConfigStep(c) PROVE WithdrawsDatabase(c)
    <3>1. CASE Begin(c) BY <2>1, <3>1 DEF Begin, dbVars
    <3>2. CASE LoadStep(c)
      BY <2>1, <3>2 DEF LoadStep, NothingOpens, OpensDatabase, PreparesRuntime, BuildsQueue,
         SwapsRuntime,
            RuntimeCloses, RuntimeFails, Publishes, UndoesQueue, UndoesRuntime, UndoesDatabase,
            dbVars
    <3>3. CASE QueueStep(c)
      BY <2>1, <3>3 DEF QueueStep, WithdrawsQueue, UnbindsQueue, QueueCloses, QueueTimesOut,
         dbVars
    <3>4. CASE SwapsDatabase(c) \/ RetiresDatabase(c) \/ OpensReplacement(c) \/ BindsWatcher(c) \/ Installs(c)
      BY <2>1, <2>2, <3>4 DEF SwapsDatabase, RetiresDatabase, OpensReplacement, BindsWatcher,
         Installs
    <3>5. CASE EndsRuntime(c) \/ ClosesStorage(c) \/ StorageDrains(c)
      BY <2>1, <3>5 DEF EndsRuntime, ClosesStorage, StorageDrains, dbVars
    <3> QED BY <2>3, <3>1, <3>2, <3>3, <3>4, <3>5 DEF ConfigStep
  <2>4. ASSUME NEW c \in ConfigCalls, QueueFinishes(c) PROVE FALSE
    BY <2>1, <2>4 DEF QueueFinishes, dbVars
  <2>5. ~\E u \in DatabaseUsers : Leases(u) \/ EndsLease(u) BY <2>1 DEF Leases, EndsLease, dbVars
  <2>6. ~(InstallsStorage \/ \E u \in ObjectUsers : StorageStep(u))
    BY <2>1 DEF InstallsStorage, StorageStep, ReadsStorage, UsesStorage, ReleasesStorage, dbVars
  <2> QED BY <2>3, <2>4, <2>5, <2>6 DEF ConfigNext
<1>2. step[c] = "endDatabase" BY <1>1 DEF WithdrawsDatabase, Stands
<1>3. KindInv(c) /\ QueueAt(c) /\ RuntimeAt(c) /\ QueuesInv BY DEF ConfigInv
<1>4. c \in Shutdowns
  BY <1>2, <1>3 DEF KindInv, ConfigCalls, Candidates, UndoSteps
<1>5. QueuesGone /\ OpenQueues({}) /\ runtimeOwned = Nothing /\ RuntimesLive({})
  BY <1>2, <1>3, <1>4 DEF QueueAt, RuntimeAt, LastSteps
<1>6. \A d \in ConfigCalls : queues[d] \notin {"open", "closing"} /\ runtimes[d] \notin {"open", "closing"}
  BY <1>3, <1>5 DEF QueuesInv, QueuesGone, OpenQueues, RuntimesLive
<1> QED BY <1>5, <1>6 DEF QueuesGone, IsSet

(* A close withdraws the database only when the runtime and the queue that *)
(* may use it are gone, whoever timed out before.                          *)
THEOREM ConfigClosesInOrder == ConfigSpec => DatabaseGoesLast
<1> QED BY ConfigInitially, ConfigPreserves, WithdrawalComesLast, PTL
        DEF ConfigSpec, DatabaseGoesLast
=============================================================================
