--------------------------- MODULE BusinessRegistry ---------------------------
(***************************************************************************)
(* The registry of business modules (admin/business/registry.go) over the  *)
(* registrations of migrations (mss-boot/pkg/migration/make.go).  Callers  *)
(* add modules and freeze the registry, several at once; a module's        *)
(* Register callback is the module's own code, which may register twice,   *)
(* from another goroutine, call the lifecycle of the view it was given,    *)
(* ignore the errors it gets, fail or panic.                               *)
(*                                                                         *)
(* A registration of a migration is a number and the older numbers, its    *)
(* legacy aliases, it answers to.  Descriptors, routes and presentation    *)
(* definitions go with the entry of the module.                            *)
(***************************************************************************)
EXTENDS Naturals, Sequences, FiniteSets

CONSTANTS Callers,         \* goroutines that call Add or Freeze, once each
          BusinessModules,
          CoreMigrations,  \* the registrations the registry was created with
          Offers,          \* the sets of registrations a module may bring
          NoModule

VARIABLES gate,            \* the caller that holds registrationGate, or nobody
          active,          \* whose transaction is the active one
          frozen,
          entries,         \* the modules published, in order
          business,        \* their registrations of migrations
          adding,          \* where each call stands
          transaction,     \* the registrationTransaction of each Add
          helper,          \* a goroutine of each callback that uses the view as well
          mount            \* Mount: the modules found ready, and those whose routes are there

registryVars == <<gate, active, frozen, entries, business, adding, transaction, helper, mount>>

Workers == {"callback", "helper"}
Ids(set) == {r.id : r \in set}
Aliases(set) == UNION {r.aliases : r \in set}

(* register: no number twice, nor as a number here and an alias there; an  *)
(* alias may be shared, for the old runner kept one row for several.       *)
Distinct(set) == \A r, s \in set : r # s => r.id # s.id
Coherent(set) == Distinct(set) /\ Ids(set) \cap Aliases(set) = {}
Accepted(set) == Coherent(set)

(* The core's registrations were cloned, which validates them.             *)
ASSUME RegistryAssumption ==
    /\ "none" \notin Callers /\ Coherent(CoreMigrations)
    /\ \A set \in Offers \cup {CoreMigrations} :
          IsFiniteSet(set) /\ \A r \in set : r.id \in Nat

NoTransaction == [registering |-> FALSE, entry |-> FALSE, closed |-> FALSE, err |-> FALSE,
                  offended |-> FALSE, staged |-> {}]
RegistryTypeOK ==
    /\ gate \in Callers \cup {"none"} /\ active \in Callers \cup {"none"} /\ frozen \in BOOLEAN
    /\ entries \in Seq(BusinessModules) /\ business \subseteq UNION Offers
    /\ \A c \in Callers :
          /\ adding[c].stage \in {"idle", "begin", "callback", "close", "combine", "publish",
                                  "freeze", "added", "frozen", "failed"}
          /\ adding[c].module \in BusinessModules \cup {NoModule}
          /\ transaction[c] \in [registering : BOOLEAN, entry : BOOLEAN, closed : BOOLEAN,
                                 err : BOOLEAN, offended : BOOLEAN, staged : SUBSET UNION Offers]
          /\ helper[c] \in {"idle", "registering", "over"}
    /\ mount.ready \in 0..Len(entries) /\ mount.routed \in 0..Len(entries)

RegistryInit ==
    /\ gate = "none" /\ active = "none" /\ frozen = FALSE /\ entries = <<>> /\ business = {}
    /\ adding = [c \in Callers |-> [stage |-> "idle", module |-> NoModule, view |-> "idle"]]
    /\ transaction = [c \in Callers |-> NoTransaction]
    /\ helper = [c \in Callers |-> "idle"]
    /\ mount = [mounts |-> <<>>, ready |-> 0, routed |-> 0, failed |-> FALSE]

Shared == <<gate, active, frozen, entries, business>>
Comes(c, stage) == adding' = [adding EXCEPT ![c].stage = stage]
Published(m) == \E n \in 1..Len(entries) : entries[n] = m

-----------------------------------------------------------------------------
(* Add and Freeze try the gate and fail if another holds it.               *)
GateFree == gate = "none"
Enters(c) ==
    /\ adding[c].stage = "idle"
    /\ \/ /\ GateFree /\ gate' = c
          /\ \/ \E m \in BusinessModules :
                   adding' = [adding EXCEPT ![c].stage = "begin", ![c].module = m]
             \/ Comes(c, "freeze")
       \/ ~GateFree /\ Comes(c, "failed") /\ UNCHANGED gate
    /\ UNCHANGED <<active, frozen, entries, business, transaction, helper>>

LeavesGate(c, stage) == gate' = "none" /\ Comes(c, stage)

(* What an Add that fails leaves: its transaction is closed or forgotten,  *)
(* and nothing its view is still used for has an effect.                   *)
Abandons(c) ==
    /\ LeavesGate(c, "failed") /\ active' = "none"
    /\ transaction' = [transaction EXCEPT ![c] = [NoTransaction EXCEPT !.closed = TRUE]]
    /\ helper' = [helper EXCEPT ![c] = "over"]
BeginsAdd(c) ==
    /\ adding[c].stage = "begin"
    /\ \/ /\ frozen \/ Published(adding[c].module)
          /\ LeavesGate(c, "failed") /\ UNCHANGED active
       \/ /\ ~frozen /\ ~Published(adding[c].module)
          /\ active' = c /\ Comes(c, "callback") /\ UNCHANGED gate
    /\ UNCHANGED <<frozen, entries, business, transaction, helper>>

(* The view: one registration, begun under the lock of the transaction,    *)
(* its migrations staged without it, and completed under it again.         *)
View(c, w) == IF w = "callback" THEN adding[c].view ELSE helper[c]
ViewGoes(c, w, to) ==
    IF w = "callback" THEN adding' = [adding EXCEPT ![c].view = to] /\ UNCHANGED helper
    ELSE helper' = [helper EXCEPT ![c] = to] /\ UNCHANGED adding
MayUse(c, w) == /\ View(c, w) = "idle"
                /\ IF w = "callback" THEN adding[c].stage = "callback"
                   ELSE adding[c].stage \in {"callback", "close", "combine", "publish"}
Noted(t) == [t EXCEPT !.err = TRUE]
LeftToModule(t) == t
FirstError(t) == Noted(t)
OnError(t) == IF t.closed THEN t ELSE [FirstError(t) EXCEPT !.offended = TRUE]
Usable(t) == ~t.closed /\ ~t.err /\ ~t.registering /\ ~t.entry
RegisterBegins(c, w) ==
    LET t == transaction[c] IN
    /\ MayUse(c, w)
    /\ \/ /\ Usable(t)
          /\ transaction' = [transaction EXCEPT ![c].registering = TRUE]
          /\ ViewGoes(c, w, "registering")
       \/ /\ ~Usable(t)
          /\ transaction' = [transaction EXCEPT ![c] = OnError(t)]
          /\ ViewGoes(c, w, "over")
    /\ UNCHANGED Shared

(* What the module brings is staged; whether or not its registrar passes   *)
(* the error on, the staged registrations are validated.                   *)
RegisterEnds(c, w) ==
    LET t == transaction[c] IN
    /\ View(c, w) = "registering"
    /\ \E set \in Offers, valid \in BOOLEAN :
          LET staged == IF t.closed THEN t.staged ELSE set
              failed == ~valid \/ ~Accepted(set) IN
          transaction' = [transaction EXCEPT ![c] =
              IF failed THEN OnError([t EXCEPT !.registering = FALSE, !.staged = staged])
              ELSE [t EXCEPT !.registering = FALSE, !.staged = staged,
                             !.entry = @ \/ ~(t.closed \/ t.err)]]
    /\ ViewGoes(c, w, "over")
    /\ UNCHANGED Shared

(* Add, Freeze and the others through the view are refused, and poison it. *)
Reenters(c, w) ==
    /\ MayUse(c, w)
    /\ transaction' = [transaction EXCEPT ![c] = OnError(@)]
    /\ ViewGoes(c, w, "over")
    /\ UNCHANGED Shared

(* The callback returns, with an error or without; or it panics, which the *)
(* deferred functions survive: the gate is left and nothing is active.     *)
CallbackReturns(c) ==
    /\ adding[c].stage = "callback" /\ adding[c].view # "registering"
    /\ \/ /\ Comes(c, "close")
          /\ \/ UNCHANGED transaction
             \/ transaction' = [transaction EXCEPT ![c] = OnError(@)]
          /\ UNCHANGED <<gate, active>>
          /\ UNCHANGED helper
       \/ Abandons(c)
    /\ UNCHANGED <<frozen, entries, business>>

(* close: a registration still under way in another goroutine is an error. *)
Closes(c) ==
    LET t == transaction[c]
        err == t.err \/ t.registering IN
    /\ adding[c].stage = "close"
    /\ \/ (err \/ ~t.entry) /\ Abandons(c)
       \/ /\ ~err /\ t.entry /\ Comes(c, "combine")
          /\ transaction' = [transaction EXCEPT ![c] = [t EXCEPT !.closed = TRUE]]
          /\ UNCHANGED <<gate, active, helper>>
    /\ UNCHANGED <<frozen, entries, business>>

(* The module's migrations must combine with those of the other modules,   *)
(* and all of them with the core's; so must its presentation definitions,  *)
(* which may be refused as well.                                           *)
Combined(c) == business \cup transaction[c].staged
WithCore(c) == Combined(c) \cup CoreMigrations
Apart(c) == Ids(transaction[c].staged) \cap Ids(business \cup CoreMigrations) = {}
Combines(c) ==
    /\ adding[c].stage = "combine"
    /\ \/ /\ Accepted(WithCore(c)) /\ Apart(c)
          /\ Comes(c, "publish") /\ UNCHANGED <<gate, active, transaction, helper>>
       \/ Abandons(c)
    /\ UNCHANGED <<frozen, entries, business>>
Publishes(c) ==
    /\ adding[c].stage = "publish"
    /\ entries' = Append(entries, adding[c].module) /\ business' = Combined(c)
    /\ active' = "none" /\ LeavesGate(c, "added")
    /\ UNCHANGED <<frozen, transaction, helper>>

Freezes(c) ==
    /\ adding[c].stage = "freeze"
    /\ frozen' = (frozen \/ active = "none")
    /\ LeavesGate(c, IF frozen \/ active = "none" THEN "frozen" ELSE "failed")
    /\ UNCHANGED <<active, entries, business, transaction, helper>>

(* Mount takes the entries of a frozen registry, has every module checked  *)
(* and then mounts their routes; a check or a registrar that fails ends it.*)
MountStep ==
    /\ ~mount.failed
    /\ \/ /\ mount.mounts = <<>> /\ frozen /\ entries # <<>>
          /\ mount' = [mount EXCEPT !.mounts = entries]
       \/ /\ mount.ready < Len(mount.mounts)
          /\ mount' \in {[mount EXCEPT !.ready = @ + 1], [mount EXCEPT !.failed = TRUE]}
       \/ /\ mount.ready = Len(mount.mounts) /\ mount.routed < Len(mount.mounts)
          /\ mount' \in {[mount EXCEPT !.routed = @ + 1], [mount EXCEPT !.failed = TRUE]}
    /\ UNCHANGED <<gate, active, frozen, entries, business, adding, transaction, helper>>

CallerSteps ==
    \E c \in Callers :
        \/ Enters(c) \/ BeginsAdd(c) \/ CallbackReturns(c) \/ Closes(c) \/ Combines(c)
        \/ Publishes(c) \/ Freezes(c)
        \/ \E w \in Workers : RegisterBegins(c, w) \/ RegisterEnds(c, w) \/ Reenters(c, w)
RegistryNext == MountStep \/ (CallerSteps /\ UNCHANGED mount)
RegistrySpec == RegistryInit /\ [][RegistryNext]_registryVars

-----------------------------------------------------------------------------
(* Every Add is all or nothing: a module is published once, with an entry  *)
(* it completed and all it staged, although the module may have ignored the*)
(* errors it was given; an Add that failed or panicked left nothing behind.*)
AddIsAtomic ==
    LET adders == {c \in Callers : adding[c].stage = "added"} IN
    /\ {adding[c].module : c \in adders} = {entries[n] : n \in 1..Len(entries)}
    /\ Cardinality(adders) = Len(entries)
    /\ business = UNION {transaction[c].staged : c \in adders}
    /\ \A c \in adders : transaction[c].entry /\ ~transaction[c].offended
    /\ \A c, d \in adders : c # d => adding[c].module # adding[d].module

(* What is run as migrations never has one number for two of them, nor one *)
(* that another would take for its own past.                               *)
MigrationsAreDistinct == Coherent(business \cup CoreMigrations)

(* A frozen registry stays what it was, whatever views are still around,   *)
(* and no route of a module is there before all modules were found ready.  *)
RoutesAreReady == mount.routed > 0 => mount.mounts = entries /\ mount.ready = Len(entries)
FrozenStays == frozen => UNCHANGED <<frozen, entries, business>>
RegistryIsSound == AddIsAtomic /\ MigrationsAreDistinct /\ RoutesAreReady
=============================================================================
