------------------------------- MODULE Migrations -------------------------------
(***************************************************************************)
(* The migrate migrate of an application (admin/internal/cmd/migrate) over *)
(* the runner of mss-boot/pkg/migration: the core's migrations, then those *)
(* of the business modules, each in the order of its numbers, each writing *)
(* its row of the ledger in the transaction that has its effect.  Several  *)
(* commands may run at once - the runner's mutex is one process's - and be *)
(* killed; a database may commit a change of its schema although the       *)
(* transaction around it does not (MySQL), or keep to the transaction.     *)
(***************************************************************************)
EXTENDS BusinessRegistry

CONSTANTS MigrateCommands, NoMigration

VARIABLES phases,          \* the registrations of core and business
          sound,           \* whether every registration was accepted
          transactional,   \* whether a transaction contains changes of the schema
          ledger,          \* whether the table of versions is there, and its rows
          effect,          \* history: how often each migration had its effect
          migrate          \* where each migrate stands

migrationVars == <<phases, sound, transactional, ledger, effect, migrate>>

Registered == phases.core \cup phases.business
FreshCommand == [stage |-> "idle", passed |-> {}, current |-> NoMigration]

MigrationsTypeOK ==
    /\ sound \in BOOLEAN /\ transactional \in BOOLEAN
    /\ ledger.rows \subseteq Ids(Registered) \cup Aliases(Registered)
    /\ effect \in [Registered -> 0..Cardinality(MigrateCommands)]
    /\ \A c \in MigrateCommands :
          /\ migrate[c].stage \in {"idle", "ledger", "next", "run", "record", "verify",
                                   "done", "failed", "killed"}
          /\ migrate[c].passed \subseteq Registered
          /\ migrate[c].current \in Registered \cup {NoMigration}

(* An installation of the old release has rows only under old numbers; its *)
(* migrations have had their effect.                                       *)
HasRow(r, rows) == rows \cap ({r.id} \cup r.aliases) # {}
MigrationsInit ==
    /\ \E set \in Offers : /\ Coherent(set \cup CoreMigrations)
                           /\ Ids(set) \cap Ids(CoreMigrations) = {}
                           /\ phases = [core |-> CoreMigrations, business |-> set]
    /\ sound \in BOOLEAN /\ transactional \in BOOLEAN
    /\ \E old \in SUBSET Aliases(Registered) :
          /\ ledger = [exists |-> old # {}, rows |-> old]
          /\ effect = [r \in Registered |-> IF r.aliases \cap old # {} THEN 1 ELSE 0]
    /\ migrate = [c \in MigrateCommands |-> FreshCommand]

Setting == <<phases, sound, transactional>>
Turns(c, stage) == migrate' = [migrate EXCEPT ![c].stage = stage]

-----------------------------------------------------------------------------
(* The registrations are validated before anything touches the database.   *)
Validated == sound
NotValidated == TRUE
Preflight == Validated
Preflights(c) ==
    /\ migrate[c].stage = "idle"
    /\ Turns(c, IF Preflight THEN "ledger" ELSE "failed")
    /\ UNCHANGED <<Setting, ledger, effect>>
CreatesLedger(c) ==
    /\ migrate[c].stage = "ledger"
    /\ \/ ledger' = [ledger EXCEPT !.exists = TRUE] /\ Turns(c, "next")
       \/ Turns(c, "failed") /\ UNCHANGED ledger
    /\ UNCHANGED <<Setting, effect>>

(* The next one in order, unless the ledger has it under its own number or *)
(* an older one; the lookup may fail, and the context may have ended.      *)
Left(c, set) == set \ migrate[c].passed
CoreFirst(c) == IF Left(c, phases.core) # {} THEN Left(c, phases.core) ELSE Left(c, phases.business)
AllTogether(c) == Left(c, Registered)
Candidates(c) == CoreFirst(c)
Least(set) == CHOOSE r \in set : \A s \in set : r.id <= s.id
ByAnyNumber(r) == HasRow(r, ledger.rows)
ByOwnNumber(r) == r.id \in ledger.rows
MigrationDone(r) == ByAnyNumber(r)
Looks(c) ==
    LET r == Least(Candidates(c)) IN
    /\ migrate[c].stage = "next" /\ Candidates(c) # {}
    /\ \/ /\ MigrationDone(r)
          /\ migrate' = [migrate EXCEPT ![c].passed = @ \cup {r}]
       \/ /\ ~MigrationDone(r)
          /\ migrate' = [migrate EXCEPT ![c].stage = "run", ![c].current = r]
       \/ Turns(c, "failed")
    /\ UNCHANGED <<Setting, ledger, effect>>

(* In a transaction: the effect and the row, or neither; the row's number  *)
(* is the primary key.  Otherwise the effect is there, and then the row.   *)
Passes(c) == migrate' = [migrate EXCEPT ![c].stage = "next", ![c].current = NoMigration,
                                        ![c].passed = @ \cup {migrate[c].current}]
Affects(r) == effect' = [effect EXCEPT ![r] = @ + 1]
FreeKey(r) == r.id \notin ledger.rows
AnyKey(r) == TRUE
Insertable(r) == FreeKey(r)
Performs(c) ==
    LET r == migrate[c].current IN
    /\ migrate[c].stage = "run"
    /\ \/ /\ transactional /\ Insertable(r)
          /\ Affects(r) /\ ledger' = [ledger EXCEPT !.rows = @ \cup {r.id}] /\ Passes(c)
       \/ ~transactional /\ Affects(r) /\ Turns(c, "record") /\ UNCHANGED ledger
       \/ Turns(c, "failed") /\ UNCHANGED <<ledger, effect>>
    /\ UNCHANGED Setting
Records(c) ==
    /\ migrate[c].stage = "record"
    /\ \/ /\ Insertable(migrate[c].current) /\ Passes(c)
          /\ ledger' = [ledger EXCEPT !.rows = @ \cup {migrate[c].current.id}]
       \/ Turns(c, "failed") /\ UNCHANGED ledger
    /\ UNCHANGED <<Setting, effect>>

(* After both phases: the modules' own steps and the check of the schema.  *)
EndsMigrating(c) ==
    /\ migrate[c].stage = "next" /\ Candidates(c) = {}
    /\ \E end \in {"done", "failed"} : Turns(c, end)
    /\ UNCHANGED <<Setting, ledger, effect>>
CommandDies(c) ==
    /\ migrate[c].stage \in {"next", "run", "record"} /\ Turns(c, "killed")
    /\ UNCHANGED <<Setting, ledger, effect>>

MigrationsNext ==
    \E c \in MigrateCommands :
        \/ Preflights(c) \/ CreatesLedger(c) \/ Looks(c) \/ Performs(c) \/ Records(c)
        \/ EndsMigrating(c) \/ CommandDies(c)
MigrationsSpec == MigrationsInit /\ [][MigrationsNext]_migrationVars

-----------------------------------------------------------------------------
(* The ledger tells what was done: whatever it has was applied, and, where *)
(* transactions contain the schema, nothing else was, and nothing twice,   *)
(* by the commands of this release and the old one together.  A migrate    *)
(* that succeeded has left nothing out.                                    *)
LedgerIsTrue ==
    /\ \A r \in Registered : HasRow(r, ledger.rows) => effect[r] > 0
    /\ transactional =>
          \A r \in Registered : effect[r] = (IF HasRow(r, ledger.rows) THEN 1 ELSE 0)
    /\ \A c \in MigrateCommands, r \in Registered :
          migrate[c].stage = "done" => HasRow(r, ledger.rows)

(* A migration finds the effects of all that come before it, whichever     *)
(* migrate had them, and none happens when a registration was refused.     *)
Before(r, s) == \/ r \in phases.core /\ s \in phases.business
                \/ \E p \in {phases.core, phases.business} : {r, s} \subseteq p /\ r.id < s.id
AppliedInOrder ==
    \A s \in Registered :
        effect'[s] # effect[s] => /\ sound /\ ledger.exists
                                  /\ \A r \in Registered : Before(r, s) => effect[r] > 0
NothingUnlessSound == ~sound => UNCHANGED ledger
=============================================================================
