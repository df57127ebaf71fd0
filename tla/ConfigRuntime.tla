--------------------------- MODULE ConfigRuntime ---------------------------
(***************************************************************************)
(* What the configuration owns at run time (admin/config/config.go,        *)
(* runtime_challenge.go, object_storage.go): the database handle, the      *)
(* managed queue, the challenge runtime and the object storage.  A load    *)
(* (InitContext) prepares a candidate of each, retires what it replaces    *)
(* and commits, or undoes itself; a change of the source (OnChange)        *)
(* replaces the database alone; a close withdraws them one after the       *)
(* other.  databaseReload lets one of them run at a time; operations       *)
(* borrow the published database and the storage beside it.                *)
(*   A handle, a queue or a runtime is named by the call that made it.     *)
(***************************************************************************)
EXTENDS Naturals, FiniteSets

CONSTANTS Loads, Changes, Shutdowns,      \* calls of InitContext, OnChange, CloseContext
          DatabaseUsers, ObjectUsers,  \* calls of WithDatabase, WithObjectStorage
          Nothing

ConfigCalls == Loads \cup Changes \cup Shutdowns
ASSUME ConfigAssumption ==
    /\ Loads \cap Changes = {} /\ Loads \cap Shutdowns = {} /\ Changes \cap Shutdowns = {}
    /\ {Nothing, "returned"} \cap ConfigCalls = {}

VARIABLES
    step,            \* where each call stands
    databases,       \* the state of each call's database handle
    queues,          \* ... of its managed queue
    runtimes,        \* ... of its challenge runtime
    dbOwned,         \* databaseHandle: what WithDatabase lends
    dbDefault,       \* the legacy process-wide default
    dbPrevious,      \* what the running call replaces, or must restore
    queueOwned, queueRetiring, queueCenter,   \* managedQueue, retiringQueue, center.GetQueue
    runtimeOwned, runtimeCenter,              \* runtimeOwner, center.GetRuntimeChallenge
    runtimePrevious, \* the owner that replaceChallengeRuntime closes
    borrowed,        \* the handle each database user holds
    storage,         \* the object storage: closing, transport, root, installed
    storing          \* where each object user stands

configVars == <<step, databases, queues, runtimes, dbOwned, dbDefault, dbPrevious, queueOwned,
                queueRetiring, queueCenter, runtimeOwned, runtimeCenter, runtimePrevious,
                borrowed, storage, storing>>
dbVars == <<databases, dbOwned, dbDefault, dbPrevious>>
queueVars == <<queues, queueOwned, queueRetiring, queueCenter>>
runtimeVars == <<runtimes, runtimeOwned, runtimeCenter, runtimePrevious>>
useVars == <<borrowed, storage, storing>>

Maybe == ConfigCalls \cup {Nothing}
Phases == {"none", "open", "closing", "dropped", "closed"}
Steps == {"idle", "open", "runtime", "queue", "restore", "unbind", "closeQueue", "swapRuntime",
          "closeRuntime", "publish", "bind", "install", "swap", "drain", "undoQueue",
          "undoRuntime", "undoDatabase", "endRuntime", "withdraw", "endStorage", "drainStorage",
          "endDatabase", "done"}

ConfigTypeOK ==
    /\ step \in [ConfigCalls -> Steps]
    /\ databases \in [ConfigCalls -> Phases] /\ queues \in [ConfigCalls -> Phases]
    /\ runtimes \in [ConfigCalls -> Phases]
    /\ {dbOwned, dbDefault, dbPrevious, queueOwned, queueRetiring, queueCenter, runtimeOwned,
        runtimeCenter, runtimePrevious} \subseteq Maybe
    /\ borrowed \in [DatabaseUsers -> Maybe \cup {"returned"}]
    /\ storage \in [closing : BOOLEAN, transport : BOOLEAN, root : BOOLEAN, installed : BOOLEAN]
    /\ storing \in [ObjectUsers -> {"idle", "read", "using", "done"}]

ConfigInit ==
    /\ step = [c \in ConfigCalls |-> "idle"]
    /\ databases = [c \in ConfigCalls |-> "none"]
    /\ queues = databases /\ runtimes = databases
    /\ dbOwned = Nothing /\ dbDefault = Nothing /\ dbPrevious = Nothing
    /\ queueOwned = Nothing /\ queueRetiring = Nothing /\ queueCenter = Nothing
    /\ runtimeOwned = Nothing /\ runtimeCenter = Nothing /\ runtimePrevious = Nothing
    /\ borrowed = [u \in DatabaseUsers |-> Nothing]
    /\ storage = [closing |-> FALSE, transport |-> TRUE, root |-> TRUE, installed |-> FALSE]
    /\ storing = [u \in ObjectUsers |-> "idle"]

AlwaysFree == TRUE
(* databaseReload: a call begins only when no other is between its first   *)
(* step and its last.                                                      *)
ReloadIsFree == \A c \in ConfigCalls : step[c] \in {"idle", "done"}
Stands(c, s) == step[c] = s
Goes(c, s) == step' = [step EXCEPT ![c] = s]
IsSet(x) == x # Nothing
Becomes(f, c, p) == [f EXCEPT ![c] = p]

Begin(c) ==
    /\ Stands(c, "idle") /\ ReloadIsFree
    /\ Goes(c, IF c \in Shutdowns THEN "endRuntime" ELSE "open")
    /\ UNCHANGED <<dbVars, queueVars, runtimeVars, useVars>>

-----------------------------------------------------------------------------
(* InitContext: the candidates                                             *)

(* An invalid configuration, or a database that cannot be opened.          *)
NothingOpens(c) ==
    /\ Stands(c, "open") /\ Goes(c, "done")
    /\ UNCHANGED <<dbVars, queueVars, runtimeVars, useVars>>

OpensDatabase(c) ==
    /\ Stands(c, "open") /\ c \in Loads
    /\ databases' = Becomes(databases, c, "open")
    /\ dbPrevious' = dbDefault /\ dbDefault' = c
    /\ Goes(c, "runtime")
    /\ UNCHANGED <<dbOwned, queueVars, runtimeVars, useVars>>

(* prepareChallengeRuntime: a runtime, none (disabled, or unavailable and  *)
(* optional), or a required one that is missing.                           *)
PreparesRuntime(c) ==
    /\ Stands(c, "runtime")
    /\ \/ runtimes' = Becomes(runtimes, c, "open") /\ Goes(c, "queue")
       \/ UNCHANGED runtimes /\ Goes(c, "queue")
       \/ UNCHANGED runtimes /\ Goes(c, "undoDatabase")
    /\ UNCHANGED <<dbVars, queueVars, runtimeOwned, runtimeCenter, runtimePrevious, useVars>>

(* A candidate that is undone is closed, or its Close times out and it is  *)
(* left to drain.                                                          *)
CloseEnds == {"dropped", "closed"}

(* buildOptionalQueue: a candidate whose policy watcher cannot be bound is *)
(* undone at once.                                                         *)
BuildsQueue(c) ==
    /\ Stands(c, "queue")
    /\ \/ queues' = Becomes(queues, c, "open") /\ Goes(c, "restore")
       \/ UNCHANGED queues /\ Goes(c, "restore")
       \/ UNCHANGED queues /\ Goes(c, "undoRuntime")
       \/ \E p \in CloseEnds :
             queues' = Becomes(queues, c, p) /\ Goes(c, "undoRuntime")
    /\ UNCHANGED <<dbVars, queueOwned, queueRetiring, queueCenter, runtimeVars, useVars>>

-----------------------------------------------------------------------------
(* The replaced queue and the replaced runtime.  A close goes through the  *)
(* same steps for its queue.                                               *)

AfterQueue(c) ==
    IF c \notin Shutdowns THEN "swapRuntime" ELSE IF IsSet(queueOwned) THEN "done" ELSE "endStorage"
GivesUp(c) == IF c \in Shutdowns THEN "done" ELSE "undoQueue"

KeepsCandidate(c) == dbDefault
RestoresPrevious(c) == IF c \in Loads THEN dbPrevious ELSE dbDefault
(* Restore the default of the previous snapshot, and mark its queue.       *)
WithdrawsQueue(c) ==
    /\ Stands(c, IF c \in Shutdowns THEN "withdraw" ELSE "restore")
    /\ dbDefault' = RestoresPrevious(c)
    /\ IF IsSet(queueOwned) /\ ~IsSet(queueRetiring)
         THEN queueRetiring' = queueOwned /\ queueOwned' = Nothing
         ELSE UNCHANGED <<queueOwned, queueRetiring>>
    /\ Goes(c, IF IsSet(queueOwned) /\ IsSet(queueRetiring) /\ c \in Loads THEN "undoQueue"
               ELSE "unbind")
    /\ UNCHANGED <<databases, dbOwned, dbPrevious, queues, queueCenter, runtimeVars, useVars>>

StaysBound == queueCenter
Unbound == IF queueCenter = queueRetiring THEN Nothing ELSE queueCenter
UnbindsQueue(c) ==
    /\ Stands(c, "unbind")
    /\ queueCenter' = IF IsSet(queueRetiring) THEN Unbound ELSE queueCenter
    /\ Goes(c, IF IsSet(queueRetiring) THEN "closeQueue" ELSE AfterQueue(c))
    /\ UNCHANGED <<dbVars, queues, queueOwned, queueRetiring, runtimeVars, useVars>>

(* Close of the retiring queue completes, with an error or without, or     *)
(* times out and the owner keeps it for the next call.                     *)
QueueCloses(c) ==
    /\ Stands(c, "closeQueue")
    /\ queues' = Becomes(queues, queueRetiring, "closed")
    /\ queueRetiring' = Nothing
    /\ Goes(c, AfterQueue(c))
    /\ UNCHANGED <<dbVars, queueOwned, queueCenter, runtimeVars, useVars>>
ForgottenQueue == Nothing
KeptRetiring == queueRetiring
QueueTimesOut(c) ==
    /\ Stands(c, "closeQueue")
    /\ queues' = Becomes(queues, queueRetiring, "closing")
    /\ queueRetiring' = KeptRetiring
    /\ Goes(c, GivesUp(c))
    /\ UNCHANGED <<dbVars, queueOwned, queueCenter, runtimeVars, useVars>>
(* A queue whose Close timed out drains on its own.                        *)
QueueFinishes(q) ==
    /\ queues[q] = "closing"
    /\ queues' = Becomes(queues, q, "closed")
    /\ UNCHANGED <<step, dbVars, queueOwned, queueRetiring, queueCenter, runtimeVars, useVars>>

Candidate(f, c) == IF f[c] = "open" THEN c ELSE Nothing
(* replaceChallengeRuntime: the capability goes before its graph closes.   *)
SwapsRuntime(c) ==
    /\ Stands(c, "swapRuntime")
    /\ runtimePrevious' = runtimeOwned /\ runtimeOwned' = Nothing
    /\ runtimeCenter' = IF runtimeOwned = Candidate(runtimes, c) THEN runtimeCenter ELSE Nothing
    /\ Goes(c, IF IsSet(runtimeOwned) THEN "closeRuntime" ELSE "publish")
    /\ UNCHANGED <<runtimes, dbVars, queueVars, useVars>>
RuntimeCloses(c) ==
    /\ Stands(c, "closeRuntime")
    /\ runtimes' = Becomes(runtimes, runtimePrevious, "closed")
    /\ Goes(c, "publish")
    /\ UNCHANGED <<runtimeOwned, runtimeCenter, runtimePrevious, dbVars, queueVars, useVars>>
RuntimeFails(c) ==
    /\ Stands(c, "closeRuntime")
    /\ \E p \in {"closing", "closed"} : runtimes' = Becomes(runtimes, runtimePrevious, p)
    /\ runtimeOwned' = runtimePrevious
    /\ Goes(c, "undoQueue")
    /\ UNCHANGED <<runtimeCenter, runtimePrevious, dbVars, queueVars, useVars>>

-----------------------------------------------------------------------------
(* The commit                                                              *)

Publishes(c) ==
    /\ Stands(c, "publish")
    /\ runtimeOwned' = Candidate(runtimes, c)
    /\ runtimeCenter' = IF IsSet(runtimeOwned') THEN runtimeOwned' ELSE runtimeCenter
    /\ dbDefault' = c
    /\ queueOwned' = Candidate(queues, c) /\ queueCenter' = Candidate(queues, c)
    /\ Goes(c, "swap")
    /\ UNCHANGED <<databases, dbOwned, dbPrevious, queues, queueRetiring, runtimes,
                   runtimePrevious, useVars>>

SwapsDatabase(c) ==
    /\ Stands(c, "swap")
    /\ dbPrevious' = dbOwned /\ dbOwned' = c
    /\ Goes(c, IF IsSet(dbOwned) THEN "drain" ELSE "done")
    /\ UNCHANGED <<databases, dbDefault, queueVars, runtimeVars, useVars>>

LeasesIgnored(h) == TRUE
LeasesEnded(h) == \A u \in DatabaseUsers : borrowed[u] # h
(* retireDatabaseHandle: wait for the leases, then close.                  *)
RetiresDatabase(c) ==
    /\ Stands(c, "drain") /\ LeasesEnded(dbPrevious)
    /\ databases' = Becomes(databases, dbPrevious, "closed")
    /\ dbPrevious' = Nothing
    /\ Goes(c, "done")
    /\ UNCHANGED <<dbOwned, dbDefault, queueVars, runtimeVars, useVars>>

-----------------------------------------------------------------------------
(* The deferred undoing of a load, last prepared first undone              *)

UndoesQueue(c) ==
    /\ Stands(c, "undoQueue")
    /\ IF queues[c] = "open" THEN \E p \in CloseEnds : queues' = Becomes(queues, c, p)
                             ELSE UNCHANGED queues
    /\ Goes(c, "undoRuntime")
    /\ UNCHANGED <<queueOwned, queueRetiring, queueCenter, dbVars, runtimeVars, useVars>>
UndoesRuntime(c) ==
    /\ Stands(c, "undoRuntime")
    /\ IF runtimes[c] = "open" THEN \E p \in CloseEnds : runtimes' = Becomes(runtimes, c, p)
                               ELSE UNCHANGED runtimes
    /\ Goes(c, "undoDatabase")
    /\ UNCHANGED <<runtimeOwned, runtimeCenter, runtimePrevious, dbVars, queueVars, useVars>>
UndoesDatabase(c) ==
    /\ Stands(c, "undoDatabase")
    /\ dbDefault' = dbPrevious /\ dbPrevious' = Nothing
    /\ databases' = Becomes(databases, c, "closed")
    /\ Goes(c, "done")
    /\ UNCHANGED <<dbOwned, queueVars, runtimeVars, useVars>>

-----------------------------------------------------------------------------
(* OnChange: reloadDatabase                                                *)

OpensReplacement(c) ==
    /\ Stands(c, "open") /\ c \in Changes
    /\ databases' = Becomes(databases, c, "open")
    /\ Goes(c, IF IsSet(queueCenter) THEN "bind" ELSE "install")
    /\ UNCHANGED <<dbOwned, dbDefault, dbPrevious, queueVars, runtimeVars, useVars>>
(* The queue may refuse another policy watcher.                            *)
BindsWatcher(c) ==
    /\ Stands(c, "bind")
    /\ \/ Goes(c, "install") /\ UNCHANGED databases
       \/ Goes(c, "done") /\ databases' = Becomes(databases, c, "closed")
    /\ UNCHANGED <<dbOwned, dbDefault, dbPrevious, queueVars, runtimeVars, useVars>>
Installs(c) ==
    /\ Stands(c, "install")
    /\ dbDefault' = c
    /\ Goes(c, "swap")
    /\ UNCHANGED <<databases, dbOwned, dbPrevious, queueVars, runtimeVars, useVars>>

-----------------------------------------------------------------------------
(* CloseContext                                                            *)

PassesRuntime(c) == "withdraw"
(* closeChallengeRuntime: a timeout keeps the owner, and ends the call.    *)
StopsAtRuntime(c) == "done"
EndsRuntime(c) ==
    /\ Stands(c, "endRuntime")
    /\ runtimeCenter' = Nothing
    /\ \/ /\ ~IsSet(runtimeOwned)
          /\ Goes(c, "withdraw") /\ UNCHANGED <<runtimes, runtimeOwned>>
       \/ /\ IsSet(runtimeOwned)
          /\ runtimes' = Becomes(runtimes, runtimeOwned, "closed")
          /\ runtimeOwned' = Nothing /\ Goes(c, "withdraw")
       \/ /\ IsSet(runtimeOwned)
          /\ runtimes' = Becomes(runtimes, runtimeOwned, "closing")
          /\ UNCHANGED runtimeOwned /\ Goes(c, StopsAtRuntime(c))
    /\ UNCHANGED <<runtimePrevious, dbVars, queueVars, useVars>>

StorageAnyway == TRUE
(* closeObjectStorage: it succeeds at once when nobody uses the storage,   *)
(* else when the last one leaves or the deadline passes.  Either way the   *)
(* database is withdrawn next.                                             *)
StorageIdle == \A u \in ObjectUsers : storing[u] # "using"
StorageClosed == [closing |-> TRUE, transport |-> FALSE, root |-> FALSE, installed |-> FALSE]
ClosesStorage(c) ==
    /\ Stands(c, "endStorage")
    /\ storage' = IF ~storage.installed THEN storage
                  ELSE IF StorageIdle THEN StorageClosed ELSE [storage EXCEPT !.closing = TRUE]
    /\ Goes(c, IF storage.installed /\ ~StorageIdle THEN "drainStorage" ELSE "endDatabase")
    /\ UNCHANGED <<dbVars, queueVars, runtimeVars, borrowed, storing>>
StorageDrains(c) ==
    /\ Stands(c, "drainStorage")
    /\ \/ StorageIdle /\ storage' = StorageClosed
       \/ UNCHANGED storage
    /\ Goes(c, "endDatabase")
    /\ UNCHANGED <<dbVars, queueVars, runtimeVars, borrowed, storing>>

WithdrawsDatabase(c) ==
    /\ Stands(c, "endDatabase")
    /\ dbOwned' = Nothing /\ dbPrevious' = dbOwned
    /\ dbDefault' = IF IsSet(dbOwned) /\ dbDefault = dbOwned THEN Nothing ELSE dbDefault
    /\ Goes(c, IF IsSet(dbOwned) THEN "drain" ELSE "done")
    /\ UNCHANGED <<databases, queueVars, runtimeVars, useVars>>

-----------------------------------------------------------------------------
(* Operations                                                              *)

Leases(u) ==
    /\ borrowed[u] = Nothing /\ IsSet(dbOwned)
    /\ borrowed' = [borrowed EXCEPT ![u] = dbOwned]
    /\ UNCHANGED <<step, dbVars, queueVars, runtimeVars, storage, storing>>
EndsLease(u) ==
    /\ borrowed[u] \in ConfigCalls
    /\ borrowed' = [borrowed EXCEPT ![u] = "returned"]
    /\ UNCHANGED <<step, dbVars, queueVars, runtimeVars, storage, storing>>

InstallsStorage ==
    /\ ~storage.installed /\ ~storage.closing
    /\ storage' = [storage EXCEPT !.installed = TRUE]
    /\ UNCHANGED <<step, dbVars, queueVars, runtimeVars, borrowed, storing>>
Stores(u, s) == storing' = [storing EXCEPT ![u] = s]
(* WithObjectStorage reads the handle, then asks it for a lease.           *)
ReadsStorage(u) ==
    /\ storing[u] = "idle"
    /\ Stores(u, IF storage.installed THEN "read" ELSE "done")
    /\ UNCHANGED <<step, dbVars, queueVars, runtimeVars, borrowed, storage>>
NeverRefused == FALSE
Refused == storage.closing
UsesStorage(u) ==
    /\ storing[u] = "read"
    /\ Stores(u, IF Refused THEN "done" ELSE "using")
    /\ UNCHANGED <<step, dbVars, queueVars, runtimeVars, borrowed, storage>>
LastLeaves(u) == FALSE
(* The last lease of a closing handle closes the transport.                *)
LastRetires(u) == storage.closing /\ \A v \in ObjectUsers \ {u} : storing[v] # "using"
ReleasesStorage(u) ==
    /\ storing[u] = "using"
    /\ Stores(u, "done")
    /\ storage' = [storage EXCEPT !.transport = @ /\ ~LastRetires(u)]
    /\ UNCHANGED <<step, dbVars, queueVars, runtimeVars, borrowed>>

LoadStep(c) ==
    \/ NothingOpens(c) \/ OpensDatabase(c) \/ PreparesRuntime(c) \/ BuildsQueue(c)
    \/ SwapsRuntime(c) \/ RuntimeCloses(c) \/ RuntimeFails(c) \/ Publishes(c)
    \/ UndoesQueue(c) \/ UndoesRuntime(c) \/ UndoesDatabase(c)
QueueStep(c) == WithdrawsQueue(c) \/ UnbindsQueue(c) \/ QueueCloses(c) \/ QueueTimesOut(c)
ConfigStep(c) ==
    \/ LoadStep(c) \/ QueueStep(c) \/ SwapsDatabase(c) \/ RetiresDatabase(c)
    \/ OpensReplacement(c) \/ BindsWatcher(c) \/ Installs(c)
    \/ EndsRuntime(c) \/ ClosesStorage(c) \/ StorageDrains(c) \/ WithdrawsDatabase(c)
StorageStep(u) == ReadsStorage(u) \/ UsesStorage(u) \/ ReleasesStorage(u)

ConfigNext ==
    \/ \E c \in ConfigCalls : Begin(c) \/ ConfigStep(c) \/ QueueFinishes(c)
    \/ \E u \in DatabaseUsers : Leases(u) \/ EndsLease(u)
    \/ InstallsStorage \/ \E u \in ObjectUsers : StorageStep(u)

(* Opening, closing and the waits of a call are bounded by its context or  *)
(* by the end of the operations it waits for, which return.                *)
ConfigFairness ==
    /\ \A c \in ConfigCalls : WF_configVars(ConfigStep(c))
    /\ \A u \in DatabaseUsers : WF_configVars(EndsLease(u))
    /\ \A u \in ObjectUsers : WF_configVars(ReleasesStorage(u))
ConfigSpec == ConfigInit /\ [][ConfigNext]_configVars /\ ConfigFairness

-----------------------------------------------------------------------------
(* No operation works on a database whose pool was closed, nor with a      *)
(* storage whose transport or directory was closed under it.               *)
LeasesAreOpen ==
    /\ \A u \in DatabaseUsers : borrowed[u] \in ConfigCalls => databases[borrowed[u]] = "open"
    /\ \A u \in ObjectUsers : storing[u] = "using" => storage.transport /\ storage.root

(* What other parts of the program can reach is open: the lent database,   *)
(* the legacy default, the queue and the challenge capability of center.   *)
PublishedIsOpen ==
    /\ \A h \in {dbOwned, dbDefault} \ {Nothing} : databases[h] = "open"
    /\ IsSet(queueCenter) => queues[queueCenter] = "open"
    /\ IsSet(runtimeCenter) => runtimes[runtimeCenter] = "open"

(* Between calls every open resource has an owner that a later close will  *)
(* find, and a replaced queue or runtime whose Close timed out keeps its   *)
(* owner for a retry.                                                      *)
NothingIsLost ==
    \A c \in ConfigCalls :
        /\ queues[c] = "closing" => queueRetiring = c
        /\ (\A d \in ConfigCalls : step[d] \in {"idle", "done"}) =>
              /\ databases[c] = "open" => dbOwned = c
              /\ queues[c] = "open" => queueOwned = c
              /\ runtimes[c] \in {"open", "closing"} => runtimeOwned = c

(* A replaced queue drains against the snapshot it belongs to: its         *)
(* callbacks reach the previous default, never the uncommitted handle.     *)
RetiringSeesItsOwn ==
    \A c \in Loads : step[c] \in {"unbind", "closeQueue"} => dbDefault = dbPrevious

(* An owner has one queue to close: the retiring one never waits beside a  *)
(* published one.                                                          *)
OneQueueAtATime == ~(IsSet(queueOwned) /\ IsSet(queueRetiring))

(* The database is withdrawn by a close only when the runtime and the      *)
(* queue that may still use it are gone.                                   *)
DatabaseGoesLast ==
    [][dbOwned' = Nothing /\ IsSet(dbOwned) =>
         /\ ~IsSet(runtimeOwned) /\ ~IsSet(queueOwned) /\ ~IsSet(queueRetiring)
         /\ \A c \in ConfigCalls : {queues[c], runtimes[c]} \cap {"open", "closing"} = {}]_configVars

ConfigIsSafe ==
    LeasesAreOpen /\ PublishedIsOpen /\ NothingIsLost /\ RetiringSeesItsOwn /\ OneQueueAtATime

(* Every call returns, and a closing storage loses its transport once the  *)
(* operations on it have returned, whoever timed out meanwhile.            *)
ConfigReturns ==
    /\ \A c \in ConfigCalls : step[c] # "idle" ~> step[c] = "done"
    /\ storage.closing ~> ~storage.transport
=============================================================================
