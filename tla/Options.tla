-------------------------------- MODULE Options --------------------------------
(***************************************************************************)
(* The option dictionaries of the admin (admin/service/option.go): rows    *)
(* that managers create, change and delete, each change naming the version *)
(* its client saw and keeping the row it replaces as an OptionVersion; and *)
(* lookups by name through a cache that lives for five minutes.            *)
(*                                                                         *)
(* Category and name are one name here, the rest of a row is named by its  *)
(* version.  Statements of a transaction that read are one step each; what *)
(* it writes becomes visible, and the conditional update is decided, in the*)
(* last one.  Nothing but the transactions keeps names apart: the tag      *)
(* unique_index of models.Option makes no index.                           *)
(***************************************************************************)
EXTENDS Naturals, Sequences, FiniteSets

CONSTANTS OptionIds,       \* identifiers of rows, a set of numbers: First takes the least
          OptionNames,
          Managers,        \* requests to create, change or delete
          Lookups,         \* calls of GetOption
          MaxOptions,      \* MaxOptionRecords
          MaxLostCommands  \* bound: cache commands that fail

ASSUME OptionsAssumption ==
    /\ OptionIds \subseteq Nat /\ "none" \notin OptionNames
    /\ MaxOptions \in Nat \ {0} /\ MaxLostCommands \in Nat

VARIABLES options,         \* the row of each identifier
          versions,        \* the OptionVersion rows of each
          locked,          \* whose transaction holds the row; nobody's: 0
          rowsLock,        \* whether SELECT ... FOR UPDATE locks on this database
          cachedOption,    \* the cached row of each name
          manager, lookup, \* where each call stands
          lostCommands,    \* cache commands that failed
          committed,       \* history: the rows each identifier has had
          raced,           \* history: two took names, or room, over each other's check
          outdated         \* history: names an old row was cached under, or left cached

optionsVars == <<options, versions, locked, rowsLock, cachedOption, manager, lookup,
                 lostCommands, committed, raced, outdated>>

NoOption == [name |-> "none", version |-> 0, enabled |-> FALSE, builtIn |-> FALSE]
MaxOptionVersion == 1 + Cardinality(Managers)
OptionRows == [name : OptionNames \cup {"none"}, version : 0..MaxOptionVersion,
               enabled : BOOLEAN, builtIn : BOOLEAN]
FreshManager == [stage |-> "idle", op |-> "none", id |-> 0, expected |-> 0, name |-> "none",
                 enabled |-> FALSE, seen |-> NoOption, late |-> FALSE]
FreshLookup == [stage |-> "idle", name |-> "none", row |-> NoOption]

OptionsTypeOK ==
    /\ options \in [OptionIds -> OptionRows]
    /\ versions \in [OptionIds -> Seq(OptionRows)] /\ committed \in [OptionIds -> Seq(OptionRows)]
    /\ locked \in [OptionIds -> Managers \cup {0}] /\ rowsLock \in BOOLEAN
    /\ cachedOption \in [OptionNames -> OptionRows]
    /\ \A m \in Managers :
          /\ manager[m].stage \in {"idle", "lock", "room", "names", "write", "old", "new",
                                   "done", "refused"}
          /\ manager[m].op \in {"none", "create", "update", "delete"}
          /\ manager[m].seen \in OptionRows /\ manager[m].expected \in 0..MaxOptionVersion
    /\ \A l \in Lookups : /\ lookup[l].stage \in {"idle", "load", "fill", "done"}
                          /\ lookup[l].row \in OptionRows
    /\ lostCommands \in 0..MaxLostCommands /\ raced \in BOOLEAN /\ outdated \subseteq OptionNames

OptionsInit ==
    /\ \E b \in BOOLEAN, n \in OptionNames, id \in OptionIds :
          LET row == [name |-> n, version |-> 1, enabled |-> TRUE, builtIn |-> b] IN
          /\ options = [i \in OptionIds |-> IF i = id THEN row ELSE NoOption]
          /\ committed = [i \in OptionIds |-> IF i = id THEN <<row>> ELSE <<>>]
    /\ versions = [i \in OptionIds |-> <<>>]
    /\ locked = [i \in OptionIds |-> 0] /\ rowsLock \in BOOLEAN
    /\ cachedOption = [n \in OptionNames |-> NoOption]
    /\ manager = [m \in Managers |-> FreshManager] /\ lookup = [l \in Lookups |-> FreshLookup]
    /\ lostCommands = 0 /\ raced = FALSE /\ outdated = {}

Present == {i \in OptionIds : options[i] # NoOption}
Store == <<options, versions, locked, committed, raced>>
CacheState == <<cachedOption, lostCommands, outdated>>
AtStage(m, stage) == manager' = [manager EXCEPT ![m].stage = stage]

-----------------------------------------------------------------------------
(* A client asks for a row it has never seen, or names one it saw at some  *)
(* version; it may leave the name as it is, or take another.               *)
AsksFor(m, stage, request) == manager' = [manager EXCEPT ![m] = [request EXCEPT !.stage = stage]]
Requested(m) ==
    /\ manager[m].stage = "idle"
    /\ \/ \E i \in OptionIds, n \in OptionNames :
             /\ committed[i] = <<>>
             /\ \A o \in Managers : manager[o].op = "create" => manager[o].id # i
             /\ AsksFor(m, "room", [FreshManager EXCEPT !.op = "create", !.id = i, !.name = n,
                                                     !.enabled = TRUE])
       \/ \E i \in OptionIds : \E v \in 1..Len(committed[i]), n \in OptionNames, on \in BOOLEAN :
             AsksFor(m, "lock", [FreshManager EXCEPT !.op = "update", !.id = i, !.expected = v,
                                                  !.name = n, !.enabled = on])
       \/ \E i \in OptionIds : \E v \in 1..Len(committed[i]) :
             AsksFor(m, "lock", [FreshManager EXCEPT !.op = "delete", !.id = i, !.expected = v])
    /\ UNCHANGED <<Store, rowsLock, CacheState, lookup>>

(* The row is locked and compared with the version the client saw; what is *)
(* built in is neither renamed nor disabled nor deleted.  A delete refused *)
(* because the option is in use is one that was not asked for.             *)
Allowed(m) ==
    LET row == options[manager[m].id] IN
    /\ row.version = manager[m].expected
    /\ row.builtIn => /\ manager[m].op = "update"
                      /\ manager[m].name = row.name /\ manager[m].enabled = row.enabled
ReadsRow(m) ==
    /\ manager[m].stage = "lock"
    /\ rowsLock => locked[manager[m].id] = 0
    /\ IF Allowed(m)
       THEN /\ manager' = [manager EXCEPT ![m].seen = options[manager[m].id],
                               ![m].stage = IF manager[m].op = "update" THEN "names" ELSE "write"]
            /\ locked' = [locked EXCEPT ![manager[m].id] = IF rowsLock THEN m ELSE 0]
       ELSE AtStage(m, "refused") /\ UNCHANGED locked
    /\ UNCHANGED <<options, versions, committed, raced, rowsLock, CacheState, lookup>>

Room == Cardinality(Present) < MaxOptions
RoomForOneMore == Cardinality(Present) <= MaxOptions
HasRoom == Room
CountsRows(m) ==
    /\ manager[m].stage = "room"
    /\ AtStage(m, IF HasRoom THEN "names" ELSE "refused")
    /\ UNCHANGED <<Store, rowsLock, CacheState, lookup>>

(* No other row has the name.  A check is overtaken by every name that is  *)
(* taken, and every row that is added, before its transaction commits.     *)
Elsewhere(id, n) == {i \in Present \ {id} : options[i].name = n}
ElsewhereEnabled(id, n) == {i \in Present \ {id} : options[i].name = n /\ options[i].enabled}
Duplicates(id, n) == Elsewhere(id, n)
Checked(o) == \/ manager[o].stage = "write"
              \/ manager[o].stage = "names" /\ manager[o].op = "create"
Released(m) == [locked EXCEPT ![manager[m].id] = IF @ = m THEN 0 ELSE @]
CountsNames(m) ==
    /\ manager[m].stage = "names"
    /\ \/ /\ Duplicates(manager[m].id, manager[m].name) = {}
          /\ AtStage(m, "write") /\ UNCHANGED locked
       \/ /\ Duplicates(manager[m].id, manager[m].name) # {}
          /\ AtStage(m, "refused") /\ locked' = Released(m)
    /\ UNCHANGED <<options, versions, committed, raced, rowsLock, CacheState, lookup>>

Takes(m) == \/ manager[m].op = "create"
            \/ manager[m].op = "update" /\ manager[m].name # manager[m].seen.name
Written(m) ==
    CASE manager[m].op = "create" -> [name |-> manager[m].name, version |-> 1,
                                      enabled |-> manager[m].enabled, builtIn |-> FALSE]
      [] manager[m].op = "update" -> [manager[m].seen EXCEPT !.name = manager[m].name,
                                         !.enabled = manager[m].enabled, !.version = @ + 1]
      [] manager[m].op = "delete" -> NoOption
(* The transaction: the replaced row is kept, and the new one takes its    *)
(* place if it still has the version that was read; else nothing happened. *)
SameVersion(m) == options[manager[m].id].version = manager[m].seen.version
StillPresent(m) == options[manager[m].id] # NoOption
Matching(m) == SameVersion(m)
Snapshot(m) == Append(versions[manager[m].id], manager[m].seen)
SnapshotOfNew(m) == Append(versions[manager[m].id], Written(m))
Kept(m) == Snapshot(m)
Transacts(m) ==
    LET id == manager[m].id IN
    /\ manager[m].stage = "write"
    /\ locked' = Released(m)
    /\ \/ /\ manager[m].op = "create" \/ Matching(m)
          /\ options' = [options EXCEPT ![id] = Written(m)]
          /\ versions' = IF manager[m].op = "create" THEN versions
                         ELSE [versions EXCEPT ![id] = Kept(m)]
          /\ committed' = IF manager[m].op = "delete" THEN committed
                          ELSE [committed EXCEPT ![id] = Append(@, Written(m))]
          /\ raced' = (raced \/ (Takes(m) /\ manager[m].late))
          /\ manager' = [o \in Managers |->
                [manager[o] EXCEPT !.stage = IF o = m THEN "old" ELSE @,
                                   !.late = @ \/ (Takes(m) /\ o # m /\ Checked(o))]]
       \/ /\ manager[m].op # "create" /\ ~Matching(m)
          /\ AtStage(m, "refused") /\ UNCHANGED <<options, versions, committed, raced>>
    /\ UNCHANGED <<rowsLock, CacheState, lookup>>

(* After the commit the entry of the old name is removed, and that of the  *)
(* new one if it is another; a removal that fails is only logged.          *)
OldName(m) == IF manager[m].op = "create" THEN manager[m].name ELSE manager[m].seen.name
NewNameOnly(m) == IF manager[m].op = "delete" THEN manager[m].seen.name ELSE manager[m].name
FirstCleared(m) == OldName(m)
RemovesEntry(n) ==
    \/ /\ cachedOption' = [cachedOption EXCEPT ![n] = NoOption]
       /\ outdated' = outdated \ {n} /\ UNCHANGED lostCommands
    \/ /\ lostCommands < MaxLostCommands /\ lostCommands' = lostCommands + 1
       /\ outdated' = outdated \cup {n} /\ UNCHANGED cachedOption
ClearsOld(m) ==
    /\ manager[m].stage = "old" /\ RemovesEntry(FirstCleared(m))
    /\ AtStage(m, IF manager[m].op = "update" /\ Takes(m) THEN "new" ELSE "done")
    /\ UNCHANGED <<Store, rowsLock, lookup>>
ClearsNew(m) ==
    /\ manager[m].stage = "new" /\ RemovesEntry(manager[m].name)
    /\ AtStage(m, "done") /\ UNCHANGED <<Store, rowsLock, lookup>>

-----------------------------------------------------------------------------
(* GetOption: the cached row, or the enabled one the writer database has   *)
(* under this name, which is then cached.                                  *)
Holding(n) == {i \in Present : options[i].name = n /\ options[i].enabled}
CurrentOption(n) ==
    IF Holding(n) = {} THEN NoOption
    ELSE options[CHOOSE i \in Holding(n) : \A j \in Holding(n) : i <= j]
ReadsEntry(l) ==
    /\ lookup[l].stage = "idle"
    /\ \E n \in OptionNames :
          \/ /\ cachedOption[n] # NoOption
             /\ lookup' = [lookup EXCEPT ![l] =
                              [stage |-> "done", name |-> n, row |-> cachedOption[n]]]
             /\ UNCHANGED lostCommands
          \/ /\ lostCommands' = lostCommands + (IF cachedOption[n] = NoOption THEN 0 ELSE 1)
             /\ lostCommands' <= MaxLostCommands
             /\ lookup' = [lookup EXCEPT ![l] = [FreshLookup EXCEPT !.stage = "load", !.name = n]]
    /\ UNCHANGED <<Store, rowsLock, cachedOption, outdated, manager>>
LoadsRow(l) ==
    LET row == CurrentOption(lookup[l].name) IN
    /\ lookup[l].stage = "load"
    /\ lookup' = [lookup EXCEPT ![l].row = row,
                                ![l].stage = IF row = NoOption THEN "done" ELSE "fill"]
    /\ UNCHANGED <<Store, rowsLock, CacheState, manager>>
FillsEntry(l) ==
    LET n == lookup[l].name IN
    /\ lookup[l].stage = "fill"
    /\ \/ /\ cachedOption' = [cachedOption EXCEPT ![n] = lookup[l].row] /\ UNCHANGED lostCommands
          /\ outdated' = IF lookup[l].row = CurrentOption(n) THEN outdated \ {n}
                          ELSE outdated \cup {n}
       \/ /\ lostCommands < MaxLostCommands /\ lostCommands' = lostCommands + 1
          /\ UNCHANGED <<cachedOption, outdated>>
    /\ lookup' = [lookup EXCEPT ![l].stage = "done"]
    /\ UNCHANGED <<Store, rowsLock, manager>>
EntryExpires(n) ==
    /\ cachedOption[n] # NoOption
    /\ cachedOption' = [cachedOption EXCEPT ![n] = NoOption] /\ outdated' = outdated \ {n}
    /\ UNCHANGED <<Store, rowsLock, lostCommands, manager, lookup>>

OptionsNext ==
    \/ \E m \in Managers : \/ Requested(m) \/ ReadsRow(m) \/ CountsRows(m) \/ CountsNames(m)
                           \/ Transacts(m) \/ ClearsOld(m) \/ ClearsNew(m)
    \/ \E l \in Lookups : ReadsEntry(l) \/ LoadsRow(l) \/ FillsEntry(l)
    \/ \E n \in OptionNames : EntryExpires(n)
OptionsSpec == OptionsInit /\ [][OptionsNext]_optionsVars

-----------------------------------------------------------------------------
(* No change is lost, with or without row locks: every row an option has   *)
(* had is kept exactly once, in order, when it is replaced, and each       *)
(* version was made from the row its client saw.                           *)
NoChangeIsLost ==
    /\ \A i \in OptionIds :
          versions[i] = IF options[i] = NoOption THEN committed[i]
                        ELSE SubSeq(committed[i], 1, Len(committed[i]) - 1)
    /\ \A i \in OptionIds : \A v \in 1..Len(committed[i]) : committed[i][v].version = v
    /\ \A m, o \in {k \in Managers : manager[k].stage \in {"old", "new", "done"}} :
          m # o /\ manager[m].id = manager[o].id => manager[m].expected # manager[o].expected

(* Names stay apart, and the limit is kept, unless two transactions each   *)
(* took a name or room after the other had checked (see the README).       *)
NamesStayApart ==
    raced \/ /\ \A i, j \in Present : i # j => options[i].name # options[j].name
             /\ Cardinality(Present) <= MaxOptions

(* A cached row is the one the database has, unless its removal is about to*)
(* come, has failed, or a lookup cached what it read before the last       *)
(* commit: a rename leaves nothing under the old name.                     *)
EntriesFollowCommits ==
    \A n \in OptionNames :
        cachedOption[n] \in {NoOption, CurrentOption(n)}
        \/ n \in outdated
        \/ \E m \in Managers : \/ manager[m].stage = "old" /\ n \in {OldName(m), manager[m].name}
                               \/ manager[m].stage = "new" /\ n = manager[m].name

OptionsAreSound == NoChangeIsLost /\ NamesStayApart /\ EntriesFollowCommits
=============================================================================
