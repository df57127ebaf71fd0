------------------------ MODULE AuthorizationPolicy ------------------------
(***************************************************************************)
(* The role-policy resource of the admin and the enforcers that serve it   *)
(* (admin/service/authorization.go, config_revision.go,                    *)
(* authorization_eventbus.go).  The database holds the rules, one revision *)
(* per role and a global one; a mutation replaces the rules under the      *)
(* revision the client read and advances both revisions in the same        *)
(* transaction.  Every process has an enforcer in memory, which            *)
(* EnsureCurrent reloads when the global revision has moved: before a      *)
(* request is authorized, after a commit through the event bus, and        *)
(* periodically.                                                           *)
(*                                                                         *)
(* One role is modelled.  Its paths are the number of the commit that      *)
(* wrote them, all rules together are the number of commits.  A statement  *)
(* is one step; a transaction's writes become visible at its commit.       *)
(***************************************************************************)
EXTENDS Naturals

CONSTANTS Writers,        \* clients that replace the policy they read, or bind APIs
          Requests,       \* requests that need the Casbin policy
          Loops,          \* the periodic reconciliation of each process
          Processes, At,  \* the process every one of them runs in
          MaxAttempts,    \* authorizationStableReadMaxAttempts
          MaxFailures,    \* bound: database calls that fail
          Nobody

Reconcilers == Writers \cup Requests \cup Loops

ASSUME PolicyAssumption ==
    /\ At \in [Reconcilers -> Processes]
    /\ MaxAttempts \in Nat \ {0} /\ MaxFailures \in Nat
    /\ Writers \cap (Requests \cup Loops) = {}
    /\ Requests \cap Loops = {}
    /\ Nobody \notin Reconcilers

VARIABLES db,             \* the committed state
          rowLocks,       \* whether SELECT ... FOR UPDATE locks on this database
          locked,         \* the writer whose transaction holds the revision rows
          client,         \* what an editor has read, and its stage
          enforcer,       \* the rules in the memory of each process
          lastGlobal,     \* lastGlobal of each process; 0 until initialized
          mutex,          \* reconcileMu of each process
          ensure,         \* the call of EnsureCurrent of each reconciler
          asked,          \* commits before a request arrived
          decided,        \* the rules a request was decided by, or Nobody
          lostUpdate,     \* a replacement overwrote paths its client never saw
          failures

policyVars == <<db, rowLocks, locked, client, enforcer, lastGlobal, mutex, ensure,
                asked, decided, lostUpdate, failures>>

Stages == {"idle", "before", "resource", "after", "ready", "locking", "checked",
           "propagate", "done"}
PolicyTypeOK ==
    /\ db \in [rules : Nat, global : Nat, role : Nat, paths : Nat]
    /\ rowLocks \in BOOLEAN
    /\ locked \in Writers \cup {Nobody}
    /\ client \in [Writers -> [stage : Stages, before : Nat, paths : Nat, revision : Nat,
                               global : Nat, tries : 0..MaxAttempts]]
    /\ enforcer \in [Processes -> Nat] /\ lastGlobal \in [Processes -> Nat]
    /\ mutex \in [Processes -> Reconcilers \cup {Nobody}]
    /\ ensure \in [Reconcilers -> [stage : {"idle", "lock", "before", "load", "after", "current",
                                            "failed"},
                                   before : Nat, tries : 0..MaxAttempts]]
    /\ asked \in [Requests -> Nat] /\ decided \in [Requests -> Nat \cup {Nobody}]
    /\ lostUpdate \in BOOLEAN /\ failures \in 0..MaxFailures

Unread(st) == [stage |-> st, before |-> 0, paths |-> 0, revision |-> 0, global |-> 0, tries |-> 0]
(* The row of the global revision exists; a revision of 1 is the first.    *)
(* Some processes have loaded it, others have just begun.                  *)
PolicyInit ==
    /\ db = [rules |-> 1, global |-> 1, role |-> 1, paths |-> 1]
    /\ rowLocks \in BOOLEAN /\ locked = Nobody
    /\ client = [w \in Writers |-> Unread("idle")]
    /\ enforcer = [p \in Processes |-> 1] 
    /\ lastGlobal \in [Processes -> {0, 1}]
    /\ mutex = [p \in Processes |-> Nobody]
    /\ ensure = [r \in Reconcilers |-> [stage |-> "idle", before |-> 0, tries |-> 0]]
    /\ asked = [q \in Requests |-> 0] /\ decided = [q \in Requests |-> Nobody]
    /\ lostUpdate = FALSE /\ failures = 0

Fails == failures < MaxFailures /\ failures' = failures + 1

-----------------------------------------------------------------------------
(* ReadRole: revision, paths, revision.                                    *)

clientRest == <<db, rowLocks, locked, enforcer, lastGlobal, mutex, ensure, asked, decided,
                lostUpdate>>
Client(e, to) == client' = [client EXCEPT ![e] = to]

ReadBefore(e) ==
    /\ client[e].stage = "idle"
    /\ Client(e, [client[e] EXCEPT !.stage = "resource", !.before = db.role])
    /\ UNCHANGED <<clientRest, failures>>
ReadResource(e) ==
    /\ client[e].stage = "resource"
    /\ Client(e, [client[e] EXCEPT !.stage = "after", !.paths = db.paths])
    /\ UNCHANGED <<clientRest, failures>>
Unmoved(seen, now) == seen = now
AlwaysUnmoved(seen, now) == TRUE
StableRead(seen, now) == Unmoved(seen, now)
ReadAfter(e) ==
    LET c == client[e] IN
    /\ c.stage = "after"
    /\ \/ /\ StableRead(c.before, db.role)
          /\ Client(e, [Unread("ready") EXCEPT !.paths = c.paths, !.revision = db.role])
       \/ /\ ~StableRead(c.before, db.role) /\ c.tries + 1 < MaxAttempts
          /\ Client(e, [Unread("idle") EXCEPT !.tries = c.tries + 1])
       \/ /\ ~StableRead(c.before, db.role) /\ c.tries + 1 >= MaxAttempts
          /\ Client(e, Unread("done"))
    /\ UNCHANGED <<clientRest, failures>>

-----------------------------------------------------------------------------
(* replaceRolePolicy and BindMenuAPIs                                      *)

(* BindMenuAPIs recomputes the API rules of the role without reading it:   *)
(* its client has no paths and expects no revision.                        *)
Binds(w) == client[w].paths = 0
BindMenuAPIs(w) ==
    /\ client[w].stage = "idle" /\ client[w].tries = 0
    /\ Client(w, Unread("ready"))
    /\ UNCHANGED <<clientRest, failures>>

writerRest == <<rowLocks, enforcer, lastGlobal, mutex, asked, decided>>

(* lockConfigRevision of the global and of the role's revision, and, for a *)
(* replacement, the comparison with the expected one.                      *)
Expected(w) == Binds(w) \/ client[w].revision = db.role
BeginTx(w) ==
    /\ client[w].stage = "ready"
    /\ rowLocks => locked = Nobody
    /\ IF Expected(w)
       THEN /\ Client(w, [client[w] EXCEPT !.stage = "checked", !.revision = db.role,
                                           !.global = db.global])
            /\ locked' = IF rowLocks THEN w ELSE Nobody
       ELSE Client(w, Unread("done")) /\ UNCHANGED locked
    /\ UNCHANGED <<db, writerRest, ensure, lostUpdate, failures>>

(* advanceConfigRevision updates the row only where it still has the       *)
(* revision read; the last one and the rules are committed together.       *)
AdvancesAnyway(w) == TRUE
Advances(w) == db.role = client[w].revision /\ db.global = client[w].global
GlobalKept == db.global
GlobalAdvanced == db.global + 1
CommitTx(w) ==
    /\ client[w].stage = "checked"
    /\ locked' = Nobody
    /\ \/ /\ Advances(w)
          /\ db' = [rules |-> db.rules + 1, global |-> GlobalAdvanced, role |-> db.role + 1,
                    paths |-> IF ~Binds(w) THEN db.rules + 1 ELSE db.paths]
          /\ lostUpdate' = (lostUpdate \/ (~Binds(w) /\ db.paths # client[w].paths))
          /\ Client(w, Unread("propagate"))
          /\ ensure' = [ensure EXCEPT ![w].stage = "lock"]
          /\ UNCHANGED failures
       \/ /\ ~Advances(w)
          /\ Client(w, Unread("done"))
          /\ UNCHANGED <<db, lostUpdate, ensure, failures>>
       \/ /\ Fails
          /\ Client(w, Unread("done"))
          /\ UNCHANGED <<db, lostUpdate, ensure>>
    /\ UNCHANGED writerRest

(* The mutation answers: saved, or saved with a propagation error.         *)
Propagated(w) ==
    /\ client[w].stage = "propagate" /\ ensure[w].stage \in {"current", "failed"}
    /\ Client(w, Unread("done"))
    /\ UNCHANGED <<db, locked, writerRest, ensure, lostUpdate, failures>>

-----------------------------------------------------------------------------
(* EnsureCurrent                                                           *)

ensureRest == <<db, rowLocks, locked, client, asked, decided, lostUpdate>>
Ensure(r, to) == ensure' = [ensure EXCEPT ![r] = to]
Leave(r, how) == /\ Ensure(r, [stage |-> how, before |-> 0, tries |-> 0])
                 /\ mutex' = [mutex EXCEPT ![At[r]] = Nobody]

(* The revision is compared under the lock and read again before the load: *)
(* it only grows, so one step reads both.                                  *)
EnsureEnters(r) ==
    /\ ensure[r].stage = "lock" /\ mutex[At[r]] = Nobody
    /\ IF lastGlobal[At[r]] = db.global
       THEN Ensure(r, [ensure[r] EXCEPT !.stage = "current"]) /\ UNCHANGED mutex
       ELSE /\ Ensure(r, [stage |-> "load", before |-> db.global, tries |-> 0])
            /\ mutex' = [mutex EXCEPT ![At[r]] = r]
    /\ UNCHANGED <<ensureRest, enforcer, lastGlobal, failures>>
EnsureRetries(r) ==
    /\ ensure[r].stage = "before"
    /\ Ensure(r, [ensure[r] EXCEPT !.stage = "load", !.before = db.global])
    /\ UNCHANGED <<ensureRest, mutex, enforcer, lastGlobal, failures>>
EnsureLoad(r) ==
    /\ ensure[r].stage = "load"
    /\ enforcer' = [enforcer EXCEPT ![At[r]] = db.rules]
    /\ Ensure(r, [ensure[r] EXCEPT !.stage = "after"])
    /\ UNCHANGED <<ensureRest, mutex, lastGlobal, failures>>
Settled(seen, now) == Unmoved(seen, now)
EnsureAfter(r) ==
    LET c == ensure[r] IN
    /\ c.stage = "after"
    /\ \/ /\ Settled(c.before, db.global)
          /\ lastGlobal' = [lastGlobal EXCEPT ![At[r]] = db.global]
          /\ Leave(r, "current")
       \/ /\ ~Settled(c.before, db.global) /\ c.tries + 1 < MaxAttempts
          /\ Ensure(r, [c EXCEPT !.stage = "before", !.tries = @ + 1])
          /\ UNCHANGED <<mutex, lastGlobal>>
       \/ /\ ~Settled(c.before, db.global) /\ c.tries + 1 >= MaxAttempts
          /\ Leave(r, "failed") /\ UNCHANGED lastGlobal
    /\ UNCHANGED <<ensureRest, enforcer, failures>>
EnsureFails(r) ==
    /\ ensure[r].stage \in {"before", "load", "after"} /\ Fails
    /\ Leave(r, "failed")
    /\ UNCHANGED <<ensureRest, enforcer, lastGlobal>>

EnsureStep(r) == EnsureEnters(r) \/ EnsureRetries(r) \/ EnsureLoad(r) \/ EnsureAfter(r)

-----------------------------------------------------------------------------
(* Requests (middleware, authorizeCurrentPolicyRequest) and the loop       *)

Arrive(q) ==
    /\ ensure[q].stage = "idle"
    /\ asked' = [asked EXCEPT ![q] = db.rules]
    /\ ensure' = [ensure EXCEPT ![q].stage = "lock"]
    /\ UNCHANGED <<db, rowLocks, locked, client, enforcer, lastGlobal, mutex, decided,
                   lostUpdate, failures>>
(* Enforce runs after reconcileMu was released; a failed reconciliation    *)
(* answers 503 and decides nothing.                                        *)
Decide(q) ==
    /\ ensure[q].stage = "current" /\ decided[q] = Nobody
    /\ decided' = [decided EXCEPT ![q] = enforcer[At[q]]]
    /\ UNCHANGED <<db, rowLocks, locked, client, enforcer, lastGlobal, mutex, ensure, asked,
                   lostUpdate, failures>>
(* Start of the event runtime: one reconciliation after another.           *)
Tick(l) ==
    /\ ensure[l].stage \in {"idle", "current", "failed"}
    /\ lastGlobal[At[l]] # db.global
    /\ ensure' = [ensure EXCEPT ![l].stage = "lock"]
    /\ UNCHANGED <<db, rowLocks, locked, client, enforcer, lastGlobal, mutex, asked, decided,
                   lostUpdate, failures>>

ReadStep(e) == ReadBefore(e) \/ ReadResource(e) \/ ReadAfter(e)
WriterStep(w) == BeginTx(w) \/ CommitTx(w) \/ Propagated(w)
PolicyNext ==
    \/ \E w \in Writers : ReadStep(w) \/ BindMenuAPIs(w) \/ WriterStep(w)
    \/ \E r \in Reconcilers : EnsureStep(r) \/ EnsureFails(r)
    \/ \E q \in Requests : Arrive(q) \/ Decide(q)
    \/ \E l \in Loops : Tick(l)
PolicyFairness ==
    /\ \A w \in Writers : WF_policyVars(WriterStep(w))
    /\ \A r \in Reconcilers : WF_policyVars(EnsureStep(r))
    /\ \A l \in Loops : WF_policyVars(Tick(l))
PolicySpec == PolicyInit /\ [][PolicyNext]_policyVars /\ PolicyFairness

-----------------------------------------------------------------------------
(* A process never takes its rules for those of a revision they are older  *)
(* than, whatever was committed while they were loaded.                    *)
ReloadIsHonest == \A p \in Processes : lastGlobal[p] <= enforcer[p]

(* A request is decided by rules that hold every commit made before it     *)
(* arrived, in every process and while others reload.                      *)
DecisionsAreFresh ==
    \A q \in Requests : decided[q] # Nobody => decided[q] >= asked[q]

(* A replacement succeeds only over the paths its client saw: what ReadRole*)
(* returned was one committed state, and the revision still named it.      *)
NoLostUpdate == ~lostUpdate

PolicyIsSound == ReloadIsHonest /\ DecisionsAreFresh /\ NoLostUpdate

(* Every process ends up with the rules of the last commit, also when its  *)
(* own reconciliation after the commit failed.                             *)
EveryProcessConverges ==
    \A l \in Loops : (db.rules > lastGlobal[At[l]]) ~> (enforcer[At[l]] = db.rules)
=============================================================================
