----------------------------- MODULE TaskServer -----------------------------
(***************************************************************************)
(* The task server (mss-boot/core/server/task) over the task table of the  *)
(* admin (admin/models/task.go, TaskStorage): which cron entries exist,    *)
(* which schedule the process takes them for, and what the table says.     *)
(* UpdateJob, RemoveJob and the loading of Start hold jobsMu throughout,   *)
(* so each is one step here; the calls of Operate, the deletion of a task  *)
(* and the reconciliation loop (taskE.Run) read the table first and act on *)
(* what they read later.  A storage call works, or fails with or without   *)
(* having taken effect.  Only tasks scheduled in the process are modelled, *)
(* not the Kubernetes ones; the built-in schedules never change.           *)
(***************************************************************************)
EXTENDS Naturals, FiniteSets

CONSTANTS TaskKeys,       \* ids of tasks, as numbers: the order of sort.Strings
          Specs,
          EntryIDs,       \* ids cron gives to entries, > 0
          MaxTroubles,    \* bound: failing storage calls and restarts
          MaxEdits,       \* bound: edits of a task
          NoSpec

ASSUME TaskAssumption ==
    /\ TaskKeys \subseteq Nat /\ EntryIDs \subseteq Nat \ {0}
    /\ IsFiniteSet(TaskKeys) /\ IsFiniteSet(EntryIDs)
    /\ 2 * Cardinality(TaskKeys) <= Cardinality(EntryIDs)
    /\ NoSpec \notin Specs /\ MaxTroubles \in Nat /\ MaxEdits \in Nat

VARIABLES row,            \* the task table
          cron,           \* the entries cron runs
          loaded,         \* loadedSchedules
          serving,        \* Server.started
          due,            \* tasks taskE.Run has read and will update, with the spec read
          operate,        \* the call of Operate or Delete under way
          unsure,         \* tasks whose stored entry id a failed restore left behind
          troubles, edits

taskVars == <<row, cron, loaded, serving, due, operate, unsure, troubles, edits>>

Idle == [op |-> "idle", key |-> 0, spec |-> NoSpec]
Unloaded == [spec |-> NoSpec, entry |-> 0]

TaskTypeOK ==
    /\ row \in [TaskKeys -> [there : BOOLEAN, on : BOOLEAN, spec : Specs,
                             entry : EntryIDs \cup {0}]]
    /\ cron \subseteq [id : EntryIDs, key : TaskKeys, spec : Specs]
    /\ loaded \in [TaskKeys -> [spec : Specs \cup {NoSpec}, entry : EntryIDs \cup {0}]]
    /\ serving \in BOOLEAN
    /\ due \in [TaskKeys -> Specs \cup {NoSpec}]
    /\ operate \in [op : {"idle", "start", "stop", "enable", "disable", "delete", "erase"},
                    key : TaskKeys \cup {0}, spec : Specs \cup {NoSpec}]
    /\ unsure \subseteq TaskKeys
    /\ troubles \in 0..MaxTroubles /\ edits \in 0..MaxEdits

Enabled == {k \in TaskKeys : row[k].there /\ row[k].on}
NothingDue == [k \in TaskKeys |-> NoSpec]

TaskInit ==
    /\ \E s \in Specs :
          row \in [TaskKeys -> [there : {TRUE}, on : BOOLEAN, spec : {s}, entry : {0}]]
    /\ cron = {} /\ loaded = [k \in TaskKeys |-> Unloaded] /\ serving = FALSE
    /\ due = NothingDue /\ operate = Idle
    /\ unsure = {} /\ troubles = 0 /\ edits = 0

Fault == troubles < MaxTroubles /\ troubles' = troubles + 1
Least(S) == CHOOSE x \in S : \A y \in S : x <= y
(* The id of the n-th of several entries added together: cron never gives  *)
(* one that is in use.                                                     *)
FreeIDs == EntryIDs \ {e.id : e \in cron}
NewID(n) == CHOOSE x \in FreeIDs : Cardinality({y \in FreeIDs : y < x}) = n
Entry(i, k, s) == [id |-> i, key |-> k, spec |-> s]
Without(i) == {e \in cron : e.id # i}

-----------------------------------------------------------------------------
(* UpdateJob and RemoveJob                                                 *)

UpdateJobOK(k, s) ==
    /\ UNCHANGED <<unsure, troubles>>
    /\ \/ loaded[k].spec = s /\ UNCHANGED <<row, cron, loaded>>
       \/ /\ loaded[k].spec # s /\ row[k].there
          /\ cron' = Without(loaded[k].entry) \cup {Entry(NewID(0), k, s)}
          /\ row' = [row EXCEPT ![k].entry = NewID(0)]
          /\ loaded' = [loaded EXCEPT ![k] = [spec |-> s, entry |-> NewID(0)]]

(* The table cannot be read, or the new entry id not be stored: the new    *)
(* entry is removed and the stored id restored, which may fail as well.    *)
(* A task without a row is not created (TaskStorage.Set).                  *)
UpdateJobFails(k, s) ==
    /\ UNCHANGED <<loaded, cron>>
    /\ \/ ~row[k].there /\ loaded[k].spec # s /\ UNCHANGED <<row, unsure, troubles>>
       \/ Fault /\ UNCHANGED <<row, unsure>>
       \/ /\ Fault /\ row[k].there /\ loaded[k].spec # s
          /\ row' = [row EXCEPT ![k].entry = NewID(0)]
          /\ unsure' = unsure \cup {k}

KeptRunning(k) == cron
Dropped(k) == Without(loaded[k].entry)
RemoveJobOK(k) ==
    /\ row' = [row EXCEPT ![k].entry = 0]
    /\ cron' = Dropped(k)
    /\ loaded' = [loaded EXCEPT ![k] = Unloaded]
    /\ UNCHANGED <<unsure, troubles>>
RemoveJobFails(k) ==
    /\ Fault
    /\ UNCHANGED <<cron, loaded>>
    /\ \/ UNCHANGED <<row, unsure>>
       \/ row' = [row EXCEPT ![k].entry = 0] /\ unsure' = unsure \cup {k}

-----------------------------------------------------------------------------
(* Start: every enabled task is registered, in the order of the keys, and  *)
(* takes the place of what UpdateJob loaded before.                        *)

Rank(k) == Cardinality({j \in Enabled : j < k})
Registered == {Entry(NewID(Rank(k)), k, row[k].spec) : k \in Enabled}
Replaced == {e \in cron : \E k \in Enabled : e.id = loaded[k].entry}
StartOK ==
    /\ ~serving
    /\ serving' = TRUE
    /\ cron' = (cron \ Replaced) \cup Registered
    /\ row' = [k \in TaskKeys |-> IF k \in Enabled
                                  THEN [row[k] EXCEPT !.entry = NewID(Rank(k))] ELSE row[k]]
    /\ loaded' = [k \in TaskKeys |-> IF k \in Enabled
                                     THEN [spec |-> row[k].spec, entry |-> NewID(Rank(k))]
                                     ELSE loaded[k]]
    /\ unsure' = unsure \ Enabled
    /\ UNCHANGED <<due, operate, troubles, edits>>

(* rollbackSchedules after the failure at key `k`: the entries registered  *)
(* so far go, the stored ids are restored except those whose restore fails.*)
RolledBackBefore(k) == {j \in Enabled : j < k}
RolledBack(k) == {j \in Enabled : j <= k}
StartFails(k) ==
    /\ ~serving /\ k \in Enabled /\ Fault
    /\ cron' = cron \cup {e \in Registered : e.key <= k /\ e.key \notin RolledBack(k)}
    /\ \E S \in SUBSET RolledBack(k) :
          /\ row' = [j \in TaskKeys |-> IF j \in S
                                        THEN [row[j] EXCEPT !.entry = NewID(Rank(j))] ELSE row[j]]
          /\ unsure' = unsure \cup S
    /\ UNCHANGED <<loaded, serving, due, operate, edits>>

(* The process ends; its successor finds the table as it is.               *)
Restart ==
    /\ Fault
    /\ cron' = {} /\ loaded' = [k \in TaskKeys |-> Unloaded] /\ serving' = FALSE
    /\ due' = NothingDue /\ operate' = Idle
    /\ UNCHANGED <<row, unsure, edits>>

-----------------------------------------------------------------------------
(* Operate and the deletion of a task (admin/apis/task.go, models/task.go) *)

(* The task is read and its status checked.                                *)
OperateReads(op, k) ==
    /\ operate.op = "idle" /\ row[k].there
    /\ row[k].on <=> op = "stop"
    /\ operate' = [op |-> op, key |-> k, spec |-> row[k].spec]
    /\ UNCHANGED <<row, cron, loaded, serving, due, unsure, troubles, edits>>

OperateSchedules ==
    LET k == operate.key IN
    /\ \/ /\ operate.op = "start"
          /\ \/ UpdateJobOK(k, operate.spec) /\ operate' = [operate EXCEPT !.op = "enable"]
             \/ UpdateJobFails(k, operate.spec) /\ operate' = Idle
       \/ /\ operate.op = "stop"
          /\ \/ RemoveJobOK(k) /\ operate' = [operate EXCEPT !.op = "disable"]
             \/ RemoveJobFails(k) /\ operate' = Idle
       \/ /\ operate.op = "delete"
          /\ \/ RemoveJobOK(k) /\ operate' = [operate EXCEPT !.op = "erase"]
             \/ RemoveJobFails(k) /\ operate' = Idle
    /\ UNCHANGED <<serving, due, edits>>

(* The status is stored, the row is deleted, or the statement fails.       *)
OperateStores ==
    LET k == operate.key IN
    /\ operate.op \in {"enable", "disable", "erase"}
    /\ operate' = Idle
    /\ \/ Fault /\ UNCHANGED row
       \/ /\ UNCHANGED troubles
          /\ row' = CASE operate.op = "enable" -> [row EXCEPT ![k].on = TRUE]
                      [] operate.op = "disable" -> [row EXCEPT ![k].on = FALSE]
                      [] operate.op = "erase" -> [row EXCEPT ![k].there = FALSE]
    /\ UNCHANGED <<cron, loaded, serving, due, unsure, edits>>

(* PrepareTaskUpdate keeps status and entry id, in the update's transaction.*)
Edit(k, s) ==
    /\ row[k].there /\ row[k].spec # s
    /\ row' = [row EXCEPT ![k].spec = s]
    /\ edits < MaxEdits /\ edits' = edits + 1
    /\ UNCHANGED <<cron, loaded, serving, due, operate, unsure, troubles>>

-----------------------------------------------------------------------------
(* taskE.Run: the enabled tasks that were not checked for a minute, among  *)
(* them every one without entry.                                           *)

NoneUnchecked == {}
NeverChecked == {k \in Enabled : row[k].entry = 0}
ReconcileReads(S) ==
    /\ serving /\ due = NothingDue
    /\ S # {} /\ S \subseteq Enabled /\ NeverChecked \subseteq S
    /\ due' = [k \in TaskKeys |-> IF k \in S THEN row[k].spec ELSE NoSpec]
    /\ UNCHANGED <<row, cron, loaded, serving, operate, unsure, troubles, edits>>

ReconcileUpdates(k) ==
    /\ due[k] # NoSpec
    /\ UpdateJobOK(k, due[k]) \/ UpdateJobFails(k, due[k])
    /\ due' = [due EXCEPT ![k] = NoSpec]
    /\ UNCHANGED <<serving, operate, edits>>

Reconcile == \/ \E S \in SUBSET TaskKeys : ReconcileReads(S)
             \/ \E k \in TaskKeys : ReconcileUpdates(k)

TaskNext ==
    \/ StartOK \/ Restart \/ OperateSchedules \/ OperateStores \/ Reconcile
    \/ \E k \in TaskKeys : \/ StartFails(k)
                           \/ \E op \in {"start", "stop", "delete"} : OperateReads(op, k)
                           \/ \E s \in Specs : Edit(k, s)

(* A started server keeps running its loop, calls of Operate return.       *)
TaskFairness == WF_taskVars(StartOK) /\ WF_taskVars(Reconcile)
                  /\ WF_taskVars(OperateSchedules) /\ WF_taskVars(OperateStores)
TaskSpec == TaskInit /\ [][TaskNext]_taskVars /\ TaskFairness

-----------------------------------------------------------------------------
(* What cron runs is what the process believes it runs: one entry for each *)
(* loaded schedule and none besides, whatever failed on the way, also when *)
(* jobs were updated before Start or Start was rolled back and repeated.   *)
CronMatchesLoaded ==
    cron = {Entry(loaded[k].entry, k, loaded[k].spec) : k \in {j \in TaskKeys : loaded[j] # Unloaded}}

(* The stored entry id is the id of the loaded schedule unless a failed    *)
(* storage call could not be undone; a rollback restores the id of the     *)
(* schedule that goes on.                                                  *)
StoredEntryIsLive ==
    \A k \in TaskKeys \ unsure :
        loaded[k] # Unloaded /\ row[k].there => row[k].entry = loaded[k].entry

TaskIsSound == CronMatchesLoaded /\ StoredEntryIsLive

(* An enabled task that runs nowhere, because its stop did not complete,   *)
(* is scheduled again by the loop or disabled, or the process ends.        *)
EnabledIsScheduled ==
    \A k \in TaskKeys :
        (serving /\ k \in Enabled /\ row[k].entry = 0)
            ~> (loaded[k] # Unloaded \/ k \notin Enabled \/ ~serving)
=============================================================================
