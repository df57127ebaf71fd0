-------------------------- MODULE MessagingProofs ---------------------------
(***************************************************************************)
(* Who is told, and by whom: the authorization policy and the runtime that *)
(* announces it, the WebSocket hub and the managed Kafka queue, for any    *)
(* processes, connections, registrations and calls.                        *)
(***************************************************************************)
EXTENDS AuthorizationPolicy, EventRuntime, Hub, KafkaQueue, TLAPS

-----------------------------------------------------------------------------
(* The authorization policy.                                               *)

\* Rules and global revision are committed together; an enforcer never holds
\* more than what was committed, and never less than it is taken for.
ReloadInv ==
  /\ db.rules = db.global
  /\ \A p \in Processes : enforcer[p] <= db.rules
  /\ ReloadIsHonest

\* A reload under way began at a revision that was committed, and once the rules
\* are loaded they are those of that revision or later ones.
EnsureInv ==
  \A r \in Reconcilers :
    /\ ensure[r].stage \in {"load", "after"} => ensure[r].before <= db.global
    /\ ensure[r].stage = "after" => ensure[r].before <= enforcer[At[r]]

\* Whoever was told that its process is current finds what was committed when it
\* arrived.
DecisionInv ==
  \A q \in Requests :
    /\ asked[q] <= db.rules
    /\ ensure[q].stage = "current" => asked[q] <= enforcer[At[q]]
    /\ decided[q] # Nobody => ensure[q].stage = "current" /\ asked[q] <= decided[q]

\* What a client has read is the state of the role as long as the revision it read
\* it under is the role's.
PolicyClientInv ==
  \A w \in Writers :
    /\ client[w].stage \in {"resource", "after"} => client[w].before <= db.role
    /\ client[w].stage = "after" /\ client[w].before = db.role =>
         client[w].paths = db.paths
    /\ client[w].stage \in {"ready", "checked"} /\ ~Binds(w) =>
         /\ client[w].revision <= db.role
         /\ client[w].revision = db.role => client[w].paths = db.paths

\* The types of a client's place and of a call of EnsureCurrent.
ClientState == [stage : Stages, before : Nat, paths : Nat, revision : Nat, global : Nat,
                tries : 0..MaxAttempts]
EnsureState == [stage : {"idle", "lock", "before", "load", "after", "current", "failed"},
                before : Nat, tries : 0..MaxAttempts]

\* What PolicyClientInv says of a client that is at c.
Holds(c) ==
  /\ c.stage \in {"resource", "after"} => c.before <= db.role
  /\ c.stage = "after" /\ c.before = db.role => c.paths = db.paths
  /\ c.stage \in {"ready", "checked"} /\ c.paths # 0 =>
       c.revision <= db.role /\ (c.revision = db.role => c.paths = db.paths)

PolicyInv ==
  /\ PolicyTypeOK /\ ReloadInv /\ EnsureInv /\ DecisionInv /\ PolicyClientInv /\ NoLostUpdate
-----------------------------------------------------------------------------
(* The invariant is inductive. *)

\* The processes that have loaded the rules and those that have just begun.
LEMMA PolicyInitially == PolicyInit => PolicyInv
<1> SUFFICES ASSUME PolicyInit PROVE PolicyInv
  OBVIOUS
<1> USE PolicyAssumption DEF PolicyInit
<1>1. PolicyTypeOK
  <2>1. [stage |-> "idle", before |-> 0, tries |-> 0] \in EnsureState /\ Unread("idle") \in ClientState
    BY DEF EnsureState, ClientState, Unread, Stages
  <2>2. client \in [Writers -> ClientState] /\ ensure \in [Reconcilers -> EnsureState]
    BY <2>1
  <2>3. /\ db \in [rules : Nat, global : Nat, role : Nat, paths : Nat]
        /\ enforcer \in [Processes -> Nat] /\ lastGlobal \in [Processes -> Nat]
        /\ mutex \in [Processes -> Reconcilers \cup {Nobody}]
        /\ asked \in [Requests -> Nat] /\ decided \in [Requests -> Nat \cup {Nobody}]
        /\ failures \in 0..MaxFailures
    OBVIOUS
  <2> QED BY <2>2, <2>3 DEF PolicyTypeOK, EnsureState, ClientState
<1>2. ReloadInv BY DEF ReloadInv, ReloadIsHonest
<1>3. EnsureInv /\ DecisionInv BY DEF EnsureInv, DecisionInv, Reconcilers
<1>4. PolicyClientInv /\ NoLostUpdate BY DEF PolicyClientInv, NoLostUpdate, Unread
<1> QED BY <1>1, <1>2, <1>3, <1>4 DEF PolicyInv

\* What a client reads: revision, paths, revision.
LEMMA PolicyReadPreserves ==
  ASSUME PolicyInv, NEW w \in Writers, ReadStep(w) \/ BindMenuAPIs(w)
  PROVE  PolicyInv'
<1> USE PolicyAssumption DEF clientRest, Client, Unread
<1>1. /\ client \in [Writers -> ClientState]
      /\ db \in [rules : Nat, global : Nat, role : Nat, paths : Nat]
  BY DEF PolicyInv, PolicyTypeOK, ClientState, EnsureState
<1>2. UNCHANGED <<db, rowLocks, locked, enforcer, lastGlobal, mutex, ensure, asked, decided,
                  lostUpdate, failures>>
  BY DEF ReadStep, ReadBefore, ReadResource, ReadAfter, BindMenuAPIs
<1>3. PICK c \in ClientState : client' = [client EXCEPT ![w] = c] /\ Holds(c)
  <2> DEFINE v == client[w]
  <2>1. v \in ClientState BY <1>1
  <2>2. CASE ReadBefore(w)
    <3> DEFINE c == [v EXCEPT !.stage = "resource", !.before = db.role]
    <3>1. c \in ClientState /\ c.stage = "resource" /\ c.before = db.role
      BY <1>1, <2>1 DEF ClientState, Stages
    <3>2. client' = [client EXCEPT ![w] = c] BY <2>2 DEF ReadBefore
    <3> HIDE DEF c
    <3>3. db.role \in Nat BY <1>1
    <3>4. Holds(c) BY <3>1, <3>3 DEF Holds
    <3> QED BY <3>1, <3>2, <3>4
  <2>3. CASE ReadResource(w)
    <3> DEFINE c == [v EXCEPT !.stage = "after", !.paths = db.paths]
    <3>1. c \in ClientState /\ c.stage = "after" /\ c.paths = db.paths /\ c.before = v.before
      BY <1>1, <2>1 DEF ClientState, Stages
    <3>2. v.before <= db.role BY <2>3 DEF ReadResource, PolicyInv, PolicyClientInv
    <3>3. client' = [client EXCEPT ![w] = c] BY <2>3 DEF ReadResource
    <3> HIDE DEF c
    <3>4. Holds(c) BY <3>1, <3>2 DEF Holds
    <3> QED BY <3>1, <3>3, <3>4
  <2>4. CASE ReadAfter(w)
    <3>1. CASE StableRead(v.before, db.role)
               /\ Client(w, [Unread("ready") EXCEPT !.paths = v.paths, !.revision = db.role])
      <4> DEFINE c == [stage |-> "ready", before |-> 0, paths |-> v.paths,
                       revision |-> db.role, global |-> 0, tries |-> 0]
      <4>1. /\ c \in ClientState /\ c.stage = "ready" /\ c.paths = v.paths
            /\ c.revision = db.role
        BY <1>1, <2>1 DEF ClientState, Stages
      <4>3. client' = [client EXCEPT ![w] = c]
        <5>1. [Unread("ready") EXCEPT !.paths = v.paths] =
                [stage |-> "ready", before |-> 0, paths |-> v.paths,
                 revision |-> 0, global |-> 0, tries |-> 0]
          OBVIOUS
        <5>2. [[stage |-> "ready", before |-> 0, paths |-> v.paths,
                revision |-> 0, global |-> 0, tries |-> 0] EXCEPT !.revision = db.role] = c
          OBVIOUS
        <5> QED BY <3>1, <5>1, <5>2
      <4>2. v.paths = db.paths
        BY <2>4, <3>1 DEF ReadAfter, StableRead, Unmoved, PolicyInv, PolicyClientInv
      <4> HIDE DEF c
      <4>5. db.role \in Nat BY <1>1
      <4>6. Holds(c) BY <4>1, <4>2, <4>5 DEF Holds
      <4> QED BY <4>1, <4>3, <4>6
    <3>2. CASE v.tries + 1 < MaxAttempts
               /\ Client(w, [Unread("idle") EXCEPT !.tries = v.tries + 1])
      <4> DEFINE c == [Unread("idle") EXCEPT !.tries = v.tries + 1]
      <4>1. c \in ClientState /\ c.stage = "idle"
        BY <2>1, <3>2 DEF ClientState, Stages
      <4> QED BY <3>2, <4>1 DEF Holds
    <3>3. CASE Client(w, Unread("done"))
      <4>1. Unread("done") \in ClientState /\ Unread("done").stage = "done"
        BY DEF ClientState, Stages
      <4> QED BY <3>3, <4>1 DEF Holds
    <3> QED BY <2>4, <3>1, <3>2, <3>3 DEF ReadAfter
  <2>5. CASE BindMenuAPIs(w)
    <3>1. /\ Unread("ready") \in ClientState /\ Unread("ready").stage = "ready"
          /\ Unread("ready").paths = 0
      BY DEF ClientState, Stages
    <3> QED BY <2>5, <3>1 DEF BindMenuAPIs, Holds
  <2> QED BY <2>2, <2>3, <2>4, <2>5 DEF ReadStep
<1>4. PolicyTypeOK' BY <1>1, <1>2, <1>3 DEF PolicyInv, PolicyTypeOK, ClientState
<1>5. ReloadInv' BY <1>2 DEF PolicyInv, ReloadInv, ReloadIsHonest
<1>6. EnsureInv' BY <1>2 DEF PolicyInv, EnsureInv
<1>7. DecisionInv' BY <1>2 DEF PolicyInv, DecisionInv
<1>8. PolicyClientInv' BY <1>1, <1>2, <1>3 DEF PolicyInv, PolicyClientInv, Binds, Holds
<1>9. NoLostUpdate' BY <1>2 DEF PolicyInv, NoLostUpdate
<1> QED BY <1>4, <1>5, <1>6, <1>7, <1>8, <1>9 DEF PolicyInv

\* A transaction: only a commit changes the database, and it moves every revision.
LEMMA WritePreserves ==
  ASSUME PolicyInv, NEW w \in Writers, WriterStep(w)
  PROVE  PolicyInv'
<1> USE PolicyAssumption DEF writerRest, Client, Unread
<1>1. /\ client \in [Writers -> ClientState]
      /\ db \in [rules : Nat, global : Nat, role : Nat, paths : Nat]
      /\ ensure \in [Reconcilers -> EnsureState]
      /\ enforcer \in [Processes -> Nat] /\ lastGlobal \in [Processes -> Nat]
      /\ asked \in [Requests -> Nat]
  BY DEF PolicyInv, PolicyTypeOK, ClientState, EnsureState
<1>2. UNCHANGED <<rowLocks, enforcer, lastGlobal, mutex, asked, decided>>
  BY DEF WriterStep, BeginTx, CommitTx, Propagated
<1>3. CASE db' = db /\ ensure' = ensure /\ lostUpdate' = lostUpdate
  <2>1. PICK c \in ClientState :
          client' = [client EXCEPT ![w] = c] /\ Holds(c) /\ c.stage \in {"done", "checked"}
    <3>1. Unread("done") \in ClientState /\ Unread("done").stage = "done"
      BY DEF ClientState, Stages
    <3>2. CASE Client(w, Unread("done")) BY <3>1, <3>2 DEF Holds
    <3>3. CASE BeginTx(w) /\ Expected(w)
      <4> DEFINE v == client[w]
                 c == [v EXCEPT !.stage = "checked", !.revision = db.role, !.global = db.global]
      <4>0. v \in ClientState BY <1>1
      <4>1. /\ c \in ClientState /\ c.stage = "checked" /\ c.revision = db.role
            /\ c.paths = v.paths
        <5> HIDE DEF v
        <5> QED BY <1>1, <4>0 DEF ClientState, Stages
      <4>2. c.paths # 0 => c.paths = db.paths
        BY <3>3, <4>1 DEF BeginTx, Expected, Binds, PolicyInv, PolicyClientInv
      <4>3. client' = [client EXCEPT ![w] = c] BY <3>3 DEF BeginTx
      <4> HIDE DEF c
      <4>5. db.role \in Nat BY <1>1
      <4>6. Holds(c) BY <4>1, <4>2, <4>5 DEF Holds
      <4> QED BY <4>1, <4>3, <4>6
    <3>4. db'.role # db.role + 1 BY <1>1, <1>3
    <3> QED BY <3>2, <3>3, <3>4 DEF WriterStep, BeginTx, CommitTx, Propagated
  <2>2. locked' \in Writers \cup {Nobody} /\ failures' \in 0..MaxFailures
    BY DEF WriterStep, BeginTx, CommitTx, Propagated, Fails, PolicyInv, PolicyTypeOK
  <2>3. PolicyTypeOK' BY <1>1, <1>2, <1>3, <2>1, <2>2 DEF PolicyInv, PolicyTypeOK, ClientState
  <2>4. ReloadInv' BY <1>2, <1>3 DEF PolicyInv, ReloadInv, ReloadIsHonest
  <2>5. EnsureInv' BY <1>2, <1>3 DEF PolicyInv, EnsureInv
  <2>6. DecisionInv' BY <1>2, <1>3 DEF PolicyInv, DecisionInv
  <2>7. PolicyClientInv' BY <1>1, <1>3, <2>1 DEF PolicyInv, PolicyClientInv, Binds, Holds
  <2>8. NoLostUpdate' BY <1>3 DEF PolicyInv, NoLostUpdate
  <2> QED BY <2>3, <2>4, <2>5, <2>6, <2>7, <2>8 DEF PolicyInv
<1>4. CASE /\ CommitTx(w) /\ Advances(w)
           /\ db' = [rules |-> db.rules + 1, global |-> GlobalAdvanced, role |-> db.role + 1,
                     paths |-> IF ~Binds(w) THEN db.rules + 1 ELSE db.paths]
           /\ lostUpdate' = (lostUpdate \/ (~Binds(w) /\ db.paths # client[w].paths))
           /\ client' = [client EXCEPT ![w] = Unread("propagate")]
           /\ ensure' = [ensure EXCEPT ![w].stage = "lock"]
           /\ UNCHANGED failures
  <2>1. /\ db' \in [rules : Nat, global : Nat, role : Nat, paths : Nat]
        /\ db'.rules = db.rules + 1 /\ db'.global = db.global + 1 /\ db'.role = db.role + 1
    BY <1>1, <1>4 DEF GlobalAdvanced
  <2>2. locked' = Nobody BY <1>4 DEF CommitTx
  <2>3. /\ \A r \in Reconcilers : r # w => ensure'[r] = ensure[r]
        /\ ensure'[w].stage = "lock"
    BY <1>1, <1>4 DEF Reconcilers
  <2>4. ~lostUpdate'
    BY <1>1, <1>4 DEF CommitTx, Advances, PolicyInv, PolicyClientInv, NoLostUpdate
  <2>5. PolicyTypeOK'
    <3>1. client' \in [Writers -> ClientState]
      BY <1>1, <1>4 DEF Stages, ClientState
    <3>2. ensure' \in [Reconcilers -> EnsureState]
      BY <1>1, <1>4 DEF Reconcilers, EnsureState
    <3>3. lostUpdate' \in BOOLEAN BY <2>4, <1>4
    <3> QED BY <1>2, <1>4, <2>1, <2>2, <3>1, <3>2, <3>3 DEF PolicyInv, PolicyTypeOK,
         ClientState, EnsureState
  <2>6. ReloadInv' BY <1>1, <1>2, <2>1 DEF PolicyInv, ReloadInv, ReloadIsHonest
  <2>7. EnsureInv'
    <3>1. ASSUME NEW r \in Reconcilers
          PROVE  /\ ensure'[r].stage \in {"load", "after"} => ensure'[r].before <= db'.global
                 /\ ensure'[r].stage = "after" => ensure'[r].before <= enforcer[At[r]]
      <4>1. CASE r = w BY <2>3, <4>1
      <4>2. CASE r # w
        <5>1. ensure'[r] = ensure[r] /\ ensure[r].before \in Nat /\ db.global \in Nat
          BY <1>1, <2>3, <4>2 DEF EnsureState
        <5>2. /\ ensure[r].stage \in {"load", "after"} => ensure[r].before <= db.global
              /\ ensure[r].stage = "after" => ensure[r].before <= enforcer[At[r]]
          BY DEF PolicyInv, EnsureInv
        <5>3. db'.global = db.global + 1 BY <2>1
        <5> QED BY <5>1, <5>2, <5>3
      <4> QED BY <4>1, <4>2
    <3> QED BY <1>2, <3>1 DEF EnsureInv
  <2>8. DecisionInv'
    BY <1>1, <1>2, <2>1, <2>3 DEF PolicyInv, DecisionInv, Reconcilers
  <2>9. PolicyClientInv'
    <3>1. \A o \in Writers : o # w => client'[o] = client[o]
          /\ client[o].before \in Nat /\ client[o].revision \in Nat
      BY <1>1, <1>4 DEF ClientState
    <3>2. client'[w].stage = "propagate" BY <1>1, <1>4
    <3>3. db.role \in Nat BY <1>1
    <3> QED BY <2>1, <3>1, <3>2, <3>3 DEF PolicyInv, PolicyClientInv, Binds
  <2> QED BY <2>4, <2>5, <2>6, <2>7, <2>8, <2>9 DEF PolicyInv, NoLostUpdate
<1> QED BY <1>3, <1>4 DEF WriterStep, BeginTx, CommitTx, Propagated

\* EnsureCurrent: what is loaded is what is committed, and is taken for the revision
\* it was found at before and after.
LEMMA EnsurePreserves ==
  ASSUME PolicyInv, NEW r \in Reconcilers, EnsureStep(r) \/ EnsureFails(r)
  PROVE  PolicyInv'
<1> USE PolicyAssumption DEF ensureRest, Ensure, Leave
<1>1. /\ db \in [rules : Nat, global : Nat, role : Nat, paths : Nat]
      /\ ensure \in [Reconcilers -> EnsureState]
      /\ enforcer \in [Processes -> Nat] /\ lastGlobal \in [Processes -> Nat]
      /\ mutex \in [Processes -> Reconcilers \cup {Nobody}]
      /\ asked \in [Requests -> Nat] /\ failures \in 0..MaxFailures
      /\ At[r] \in Processes
  BY DEF PolicyInv, PolicyTypeOK, ClientState, EnsureState
<1>2. UNCHANGED <<db, rowLocks, locked, client, asked, decided, lostUpdate>>
  BY DEF EnsureStep, EnsureEnters, EnsureRetries, EnsureLoad, EnsureAfter, EnsureFails
<1>3. ensure[r].stage \notin {"idle", "current", "failed"}
  BY DEF EnsureStep, EnsureEnters, EnsureRetries, EnsureLoad, EnsureAfter, EnsureFails
<1> DEFINE v == ensure[r]
<1>4. v \in EnsureState BY <1>1
<1>5. PICK e \in EnsureState :
        /\ ensure' = [ensure EXCEPT ![r] = e]
        /\ e.stage \in {"load", "after"} => e.before <= db.global
        /\ e.stage = "after" => e.before <= enforcer'[At[r]]
        /\ e.stage = "current" => db.global <= enforcer'[At[r]]
  <2>1. CASE EnsureEnters(r)
    <3>1. CASE lastGlobal[At[r]] = db.global
      <4> DEFINE e == [v EXCEPT !.stage = "current"]
      <4>1. e \in EnsureState /\ e.stage = "current" BY <1>4 DEF EnsureState
      <4>2. db.global <= enforcer'[At[r]]
        BY <1>1, <2>1, <3>1 DEF EnsureEnters, PolicyInv, ReloadInv, ReloadIsHonest
      <4> QED BY <2>1, <3>1, <4>1, <4>2 DEF EnsureEnters
    <3>2. CASE lastGlobal[At[r]] # db.global
      <4> DEFINE e == [stage |-> "load", before |-> db.global, tries |-> 0]
      <4>1. e \in EnsureState /\ e.stage = "load" /\ e.before = db.global
        BY <1>1 DEF EnsureState
      <4> QED BY <1>1, <2>1, <3>2, <4>1 DEF EnsureEnters
    <3> QED BY <3>1, <3>2
  <2>2. CASE EnsureRetries(r)
    <3> DEFINE e == [v EXCEPT !.stage = "load", !.before = db.global]
    <3>1. e \in EnsureState /\ e.stage = "load" /\ e.before = db.global
      BY <1>1, <1>4 DEF EnsureState
    <3>2. ensure' = [ensure EXCEPT ![r] = e] BY <2>2 DEF EnsureRetries
    <3> HIDE DEF e
    <3>3. db.global \in Nat BY <1>1
    <3>4. e.before <= db.global BY <3>1, <3>3
    <3> QED BY <3>1, <3>2, <3>4
  <2>3. CASE EnsureLoad(r)
    <3> DEFINE e == [v EXCEPT !.stage = "after"]
    <3>1. e \in EnsureState /\ e.stage = "after" /\ e.before = v.before
      BY <1>4 DEF EnsureState
    <3>2. v.before <= db.global /\ db.global = enforcer'[At[r]]
      BY <1>1, <2>3 DEF EnsureLoad, PolicyInv, ReloadInv, EnsureInv
    <3> QED BY <2>3, <3>1, <3>2 DEF EnsureLoad
  <2>4. CASE EnsureAfter(r)
    <3>1. CASE Settled(v.before, db.global) /\ Leave(r, "current")
      <4> DEFINE e == [stage |-> "current", before |-> 0, tries |-> 0]
      <4>1. e \in EnsureState /\ e.stage = "current" BY DEF EnsureState
      <4>2. db.global <= enforcer'[At[r]]
        BY <2>4, <3>1 DEF EnsureAfter, Settled, Unmoved, PolicyInv, EnsureInv
      <4> QED BY <3>1, <4>1, <4>2
    <3>2. CASE v.tries + 1 < MaxAttempts
               /\ Ensure(r, [v EXCEPT !.stage = "before", !.tries = @ + 1])
      <4> DEFINE e == [v EXCEPT !.stage = "before", !.tries = @ + 1]
      <4>1. e \in EnsureState /\ e.stage = "before"
        <5>1. v.tries \in 0..MaxAttempts BY <1>4 DEF EnsureState
        <5>2. v.tries + 1 \in 0..MaxAttempts BY <3>2, <5>1
        <5> HIDE DEF v
        <5> QED BY <1>4, <5>2 DEF EnsureState
      <4>2. ensure' = [ensure EXCEPT ![r] = e] BY <3>2
      <4> HIDE DEF e
      <4> QED BY <4>1, <4>2
    <3>3. CASE Leave(r, "failed")
      <4> DEFINE e == [stage |-> "failed", before |-> 0, tries |-> 0]
      <4>1. e \in EnsureState /\ e.stage = "failed" BY DEF EnsureState
      <4> QED BY <3>3, <4>1
    <3> QED BY <2>4, <3>1, <3>2, <3>3 DEF EnsureAfter
  <2>5. CASE EnsureFails(r)
    <3> DEFINE e == [stage |-> "failed", before |-> 0, tries |-> 0]
    <3>1. e \in EnsureState /\ e.stage = "failed" BY DEF EnsureState
    <3> QED BY <2>5, <3>1 DEF EnsureFails
  <2> QED BY <2>1, <2>2, <2>3, <2>4, <2>5 DEF EnsureStep
<1>6. /\ \/ lastGlobal' = lastGlobal
         \/ /\ lastGlobal' = [lastGlobal EXCEPT ![At[r]] = db.global]
            /\ db.global <= enforcer'[At[r]]
      /\ enforcer' = enforcer \/ enforcer' = [enforcer EXCEPT ![At[r]] = db.rules]
  BY <1>1 DEF EnsureStep, EnsureEnters, EnsureRetries, EnsureLoad, EnsureAfter, EnsureFails,
              Settled, Unmoved, PolicyInv, EnsureInv
<1>7. mutex' \in [Processes -> Reconcilers \cup {Nobody}] /\ failures' \in 0..MaxFailures
  BY <1>1 DEF EnsureStep, EnsureEnters, EnsureRetries, EnsureLoad, EnsureAfter, EnsureFails, Fails
<1>8. /\ enforcer' \in [Processes -> Nat]
      /\ \A p \in Processes : enforcer[p] <= enforcer'[p] /\ enforcer'[p] <= db.rules
  BY <1>1, <1>6 DEF PolicyInv, ReloadInv
<1>9. PolicyTypeOK'
  BY <1>1, <1>2, <1>5, <1>6, <1>7, <1>8 DEF PolicyInv, PolicyTypeOK, EnsureState
<1>10. ReloadInv'
  BY <1>1, <1>2, <1>6, <1>8 DEF PolicyInv, ReloadInv, ReloadIsHonest
<1>11. EnsureInv'
  <2>1. ASSUME NEW o \in Reconcilers
        PROVE  /\ ensure'[o].stage \in {"load", "after"} => ensure'[o].before <= db.global
               /\ ensure'[o].stage = "after" => ensure'[o].before <= enforcer'[At[o]]
    <3>1. CASE o = r BY <1>1, <1>5, <3>1
    <3>2. CASE o # r
      <4>1. /\ ensure'[o] = ensure[o] /\ ensure[o].before \in Nat /\ At[o] \in Processes
            /\ enforcer[At[o]] \in Nat /\ enforcer'[At[o]] \in Nat
            /\ enforcer[At[o]] <= enforcer'[At[o]]
        <5>1. At[o] \in Processes OBVIOUS
        <5> QED BY <1>1, <1>5, <1>8, <3>2, <5>1 DEF EnsureState
      <4> QED BY <4>1 DEF PolicyInv, EnsureInv
    <3> QED BY <3>1, <3>2
  <2> QED BY <1>2, <2>1 DEF EnsureInv
<1>12. DecisionInv'
  <2>1. db.global = db.rules BY DEF PolicyInv, ReloadInv
  <2>2. ASSUME NEW q \in Requests
        PROVE  /\ ensure'[q].stage = "current" => asked[q] <= enforcer'[At[q]]
               /\ decided[q] # Nobody => ensure'[q].stage = "current"
    <3>1. /\ asked[q] \in Nat /\ asked[q] <= db.rules /\ q \in Reconcilers /\ At[q] \in Processes
          /\ ensure[q].stage = "current" => asked[q] <= enforcer[At[q]]
          /\ decided[q] # Nobody => ensure[q].stage = "current"
      BY <1>1 DEF PolicyInv, DecisionInv, Reconcilers
    <3>2. CASE q = r BY <1>1, <1>3, <1>5, <1>8, <2>1, <3>1, <3>2
    <3>3. CASE q # r BY <1>1, <1>5, <1>8, <3>1, <3>3
    <3> QED BY <3>2, <3>3
  <2> QED BY <1>2, <2>2 DEF PolicyInv, DecisionInv
<1>13. PolicyClientInv' /\ NoLostUpdate'
  BY <1>2 DEF PolicyInv, PolicyClientInv, Binds, NoLostUpdate
<1> QED BY <1>9, <1>10, <1>11, <1>12, <1>13 DEF PolicyInv

\* A request or a tick asks for a reconciliation; a decision uses what it left.
LEMMA AskPreserves ==
  ASSUME PolicyInv, (\E q \in Requests : Arrive(q) \/ Decide(q)) \/ \E l \in Loops : Tick(l)
  PROVE  PolicyInv'
<1> USE PolicyAssumption
<1>1. /\ db \in [rules : Nat, global : Nat, role : Nat, paths : Nat]
      /\ ensure \in [Reconcilers -> EnsureState]
      /\ enforcer \in [Processes -> Nat]
      /\ asked \in [Requests -> Nat] /\ decided \in [Requests -> Nat \cup {Nobody}]
      /\ \A q \in Requests : At[q] \in Processes /\ q \in Reconcilers
      /\ Loops \subseteq Reconcilers /\ Requests \cap Loops = {}
  BY DEF PolicyInv, PolicyTypeOK, Reconcilers, EnsureState
<1>2. UNCHANGED <<db, rowLocks, locked, client, enforcer, lastGlobal, mutex, lostUpdate, failures>>
  BY DEF Arrive, Decide, Tick
<1>3. ReloadInv' BY <1>2 DEF PolicyInv, ReloadInv, ReloadIsHonest
<1>4. PolicyClientInv' /\ NoLostUpdate' BY <1>2 DEF PolicyInv, PolicyClientInv, Binds,
     NoLostUpdate
<1>5. ASSUME NEW q \in Requests, Arrive(q) PROVE PolicyTypeOK' /\ EnsureInv' /\ DecisionInv'
  <2>1. PolicyTypeOK'
    <3>1. /\ ensure' = [ensure EXCEPT ![q].stage = "lock"]
          /\ asked' = [asked EXCEPT ![q] = db.rules] /\ UNCHANGED decided
      BY <1>5 DEF Arrive
    <3>2. ensure' \in [Reconcilers -> EnsureState] BY ONLY <1>1, <3>1 DEF EnsureState
    <3>3. asked' \in [Requests -> Nat] BY ONLY <1>1, <3>1
    <3> QED BY <1>2, <3>1, <3>2, <3>3 DEF PolicyInv, PolicyTypeOK, EnsureState
  <2>2. EnsureInv' BY <1>1, <1>2, <1>5 DEF Arrive, PolicyInv, EnsureInv
  <2>3. DecisionInv' BY <1>1, <1>2, <1>5 DEF Arrive, PolicyInv, DecisionInv
  <2> QED BY <2>1, <2>2, <2>3
<1>6. ASSUME NEW q \in Requests, Decide(q) PROVE PolicyTypeOK' /\ EnsureInv' /\ DecisionInv'
  <2>1. PolicyTypeOK' BY <1>1, <1>2, <1>6 DEF Decide, PolicyInv, PolicyTypeOK
  <2>2. EnsureInv' BY <1>2, <1>6 DEF Decide, PolicyInv, EnsureInv
  <2>3. DecisionInv' BY <1>1, <1>2, <1>6 DEF Decide, PolicyInv, DecisionInv
  <2> QED BY <2>1, <2>2, <2>3
<1>7. ASSUME NEW l \in Loops, Tick(l) PROVE PolicyTypeOK' /\ EnsureInv' /\ DecisionInv'
  <2>1. PolicyTypeOK'
    <3>1. /\ ensure' = [ensure EXCEPT ![l].stage = "lock"]
          /\ UNCHANGED asked /\ UNCHANGED decided
      BY <1>7 DEF Tick
    <3>2. ensure' \in [Reconcilers -> EnsureState] BY ONLY <1>1, <3>1 DEF EnsureState
    <3>3. asked' \in [Requests -> Nat] BY ONLY <1>1, <3>1
    <3> QED BY <1>2, <3>1, <3>2, <3>3 DEF PolicyInv, PolicyTypeOK, EnsureState
  <2>2. EnsureInv' BY <1>1, <1>2, <1>7 DEF Tick, PolicyInv, EnsureInv
  <2>3. DecisionInv' BY <1>1, <1>2, <1>7 DEF Tick, PolicyInv, DecisionInv
  <2> QED BY <2>1, <2>2, <2>3
<1> QED BY <1>3, <1>4, <1>5, <1>6, <1>7 DEF PolicyInv

\* Every step of the policy preserves the inductive invariant.
LEMMA PolicyStepPreserves == PolicyInv /\ [PolicyNext]_policyVars => PolicyInv'
<1> SUFFICES ASSUME PolicyInv, [PolicyNext]_policyVars PROVE PolicyInv'
  OBVIOUS
<1>1. CASE UNCHANGED policyVars
  BY <1>1 DEF policyVars, PolicyInv, PolicyTypeOK, ReloadInv, ReloadIsHonest, EnsureInv,
              DecisionInv, PolicyClientInv, Binds, NoLostUpdate
<1>2. CASE PolicyNext
  BY <1>2, PolicyReadPreserves, WritePreserves, EnsurePreserves, AskPreserves DEF PolicyNext
<1> QED BY <1>1, <1>2

\* The inductive invariant holds in every reachable state.
LEMMA PolicyInvariance == PolicySpec => []PolicyInv
<1> QED BY PolicyInitially, PolicyStepPreserves, PTL DEF PolicySpec

\* Every reachable state of the policy, its clients and its processes is well typed.
THEOREM PolicyTypeCorrect == PolicySpec => []PolicyTypeOK
<1> PolicyInv => PolicyTypeOK BY DEF PolicyInv
<1> QED BY PolicyInvariance, PTL

\* Whoever commits while others reload, and whatever fails: a process never takes
\* its rules for newer than they are, a request is decided by rules that hold every
\* commit made before it arrived, and a replacement only overwrites what its client
\* saw - with row locks or without.
THEOREM PolicySoundness == PolicySpec => []PolicyIsSound
<1> PolicyInv => PolicyIsSound
  BY DEF PolicyInv, PolicyIsSound, ReloadInv, DecisionInv, DecisionsAreFresh
<1> QED BY PolicyInvariance, PTL

-----------------------------------------------------------------------------
(* The runtime of the policy's event bus.                                  *)

(* One call at a time is in a transition of a runtime.                     *)
TransitionsAlone ==
    \A c, d \in EventCalls :
        InTransition(c) /\ InTransition(d) /\ Owner(c) = Owner(d) => c = d
(* What a call in a transition has established.                            *)
PhaseInv(c) ==
    LET r == Owner(c) s == eventCall[c] IN
    /\ s \in {"start", "reconcile", "bind", "opened"} => ~eventFlags[r].closed /\ ~eventFlags[r].opened
    /\ s \in {"reconcile", "bind", "opened"} => eventBus[r] = "started"
    /\ s = "opened" => publisher = r
    /\ s \in {"cancel", "wait", "unbind", "closeBus", "mark"} => ~eventFlags[r].closed
    /\ s \in {"closeBus", "mark"} => publisher # r /\ r \notin subscribed
    /\ s = "mark" => eventBus[r] = "closed"
    /\ c \in Shuts /\ s \in {"unbind", "closeBus", "mark", "nil"} /\ seen[c] = "a loop"
           => loop[r] = "ended"
RuntimeInv(r) ==
    /\ publisher = r => /\ eventBus[r] = "started"
                        /\ \/ eventFlags[r].opened
                           \/ \E c \in EventCalls : Owner(c) = r /\ eventCall[c] = "opened"
    /\ eventFlags[r].opened /\ r \in subscribed => publisher = r
    /\ eventFlags[r].closed =>
           publisher # r /\ r \notin subscribed /\ eventBus[r] = "closed" /\ ~eventFlags[r].opened
    /\ loop[r] # "none" => eventFlags[r].attempted
EventInv ==
    /\ EventTypeOK /\ TransitionsAlone
    /\ \A c \in EventCalls : PhaseInv(c)
    /\ \A r \in Runtimes : RuntimeInv(r)

LEMMA EventInitially == EventInit => EventInv
<1> SUFFICES ASSUME EventInit PROVE EventInv
  OBVIOUS
<1> USE EventAssumption DEF EventCalls
<1>1. EventTypeOK BY DEF EventInit, EventTypeOK
<1>2. \A c \in EventCalls : eventCall[c] = "idle" BY DEF EventInit
<1>3. TransitionsAlone BY <1>2 DEF TransitionsAlone, InTransition
<1>4. \A c \in EventCalls : PhaseInv(c) BY <1>2 DEF PhaseInv
<1>5. \A r \in Runtimes : RuntimeInv(r) BY DEF EventInit, RuntimeInv
<1> QED BY <1>1, <1>3, <1>4, <1>5 DEF EventInv

(* Nothing of runtime q changes; nor what a transition of r relies on.     *)
SameRuntime(q) ==
    /\ eventFlags'[q] = eventFlags[q] /\ eventBus'[q] = eventBus[q] /\ loop'[q] = loop[q]
    /\ publisher' = q <=> publisher = q
    /\ q \in subscribed' <=> q \in subscribed
SameOpening(r) ==
    /\ eventFlags'[r].opened = eventFlags[r].opened /\ eventFlags'[r].closed = eventFlags[r].closed
    /\ eventBus'[r] = eventBus[r]
    /\ publisher' = publisher /\ subscribed' = subscribed
Others(c) == \A d \in EventCalls \ {c} :
                 eventCall'[d] = eventCall[d] /\ (d \in Shuts \cup EventLoops => seen'[d] = seen[d])
Alone(c) == \A d \in EventCalls \ {c} : Owner(d) = Owner(c) => ~InTransition(d)

(* A step of one call about its runtime, by a call alone in its transition *)
(* or by one that a transition need not notice.                            *)
LEMMA EventStepKeeps ==
  ASSUME EventInv, EventTypeOK', NEW c \in EventCalls, Others(c),
         \A q \in Runtimes \ {Owner(c)} : SameRuntime(q),
         loop[Owner(c)] = "ended" => loop'[Owner(c)] = "ended",
         Alone(c) \/ (~InTransition(c)' /\ SameOpening(Owner(c))),
         PhaseInv(c)', RuntimeInv(Owner(c))'
  PROVE  EventInv'
<1> USE EventAssumption DEF EventInv
<1>1. \A d \in EventCalls \ {c} : InTransition(d)' <=> InTransition(d)
  BY DEF Others, InTransition
<1>2. TransitionsAlone' BY <1>1 DEF TransitionsAlone, Alone
<1>3. ASSUME NEW d \in EventCalls PROVE PhaseInv(d)'
  <2>1. CASE d = c BY <2>1
  <2>2. CASE d # c /\ Owner(d) # Owner(c)
    BY <2>2 DEF PhaseInv, Others, SameRuntime
  <2>3. CASE d # c /\ Owner(d) = Owner(c) /\ Alone(c)
    BY <2>3 DEF PhaseInv, Others, Alone, InTransition
  <2>4. CASE d # c /\ Owner(d) = Owner(c) /\ SameOpening(Owner(c))
    BY <2>4 DEF PhaseInv, Others, SameOpening
  <2> QED BY <2>1, <2>2, <2>3, <2>4
<1>4. ASSUME NEW q \in Runtimes PROVE RuntimeInv(q)'
  <2>1. CASE q = Owner(c) BY <2>1
  <2>2. CASE q # Owner(c)
    <3>1. \A d \in EventCalls : Owner(d) = q => eventCall'[d] = eventCall[d]
      BY <2>2 DEF Others
    <3> QED BY <2>2, <3>1 DEF RuntimeInv, SameRuntime
  <2> QED BY <2>1, <2>2
<1> QED BY <1>2, <1>3, <1>4

(* What a step of c does to the call itself.                               *)
LEMMA Proceeds ==
  ASSUME EventTypeOK, NEW c \in EventCalls, NEW s, Proceed(c, s)
  PROVE  /\ eventCall'[c] = s /\ \A d \in EventCalls \ {c} : eventCall'[d] = eventCall[d]
         /\ s \in {"idle", "start", "reconcile", "bind", "opened", "cancel", "wait", "unbind",
                   "closeBus", "mark", "nil", "error", "runs", "shut"}
              => eventCall' \in [EventCalls -> {"idle", "start", "reconcile", "bind", "opened", "cancel",
                                     "wait", "unbind", "closeBus", "mark", "nil", "error", "runs", "shut"}]
  BY DEF Proceed, EventTypeOK

LEMMA AloneInTransition ==
  ASSUME EventInv, NEW c \in EventCalls, InTransition(c)
  PROVE  Alone(c)
  BY DEF EventInv, TransitionsAlone, Alone

LEMMA BusSets ==
  ASSUME EventTypeOK, NEW r \in Runtimes, NEW b \in {"built", "started", "closed"}, BusBecomes(r, b)
  PROVE  /\ eventBus' \in [Runtimes -> {"built", "started", "closed"}]
         /\ eventBus'[r] = b
         /\ \A q \in Runtimes \ {r} : eventBus'[q] = eventBus[q]
<1>1. eventBus \in [Runtimes -> {"built", "started", "closed"}] BY DEF EventTypeOK
<1> QED BY <1>1 DEF BusBecomes

LEMMA LoopSets ==
  ASSUME EventTypeOK, NEW r \in Runtimes, NEW s \in {"none", "live", "cancelled", "ended"},
         loop' = [loop EXCEPT ![r] = s]
  PROVE  /\ loop' \in [Runtimes -> {"none", "live", "cancelled", "ended"}]
         /\ loop'[r] = s
         /\ \A q \in Runtimes \ {r} : loop'[q] = loop[q]
<1>1. loop \in [Runtimes -> {"none", "live", "cancelled", "ended"}] BY DEF EventTypeOK
<1> QED BY <1>1

LEMMA FlagsOf ==
  ASSUME EventTypeOK, NEW r \in Runtimes
  PROVE  eventFlags[r] \in [opened : BOOLEAN, attempted : BOOLEAN, closed : BOOLEAN, degraded : BOOLEAN]
BY DEF EventTypeOK

(* Flag replaces the flags of one runtime.                                 *)
LEMMA FlagSets ==
  ASSUME EventTypeOK, NEW r \in Runtimes,
         NEW n \in [opened : BOOLEAN, attempted : BOOLEAN, closed : BOOLEAN, degraded : BOOLEAN],
         Flag(r, n)
  PROVE  /\ eventFlags' \in [Runtimes -> [opened : BOOLEAN, attempted : BOOLEAN, closed : BOOLEAN,
                                          degraded : BOOLEAN]]
         /\ eventFlags'[r] = n
         /\ \A q \in Runtimes \ {r} : eventFlags'[q] = eventFlags[q]
<1> DEFINE FlagSet == [opened : BOOLEAN, attempted : BOOLEAN, closed : BOOLEAN, degraded : BOOLEAN]
<1>1. eventFlags \in [Runtimes -> FlagSet] /\ n \in FlagSet BY DEF EventTypeOK
<1> HIDE DEF FlagSet
<1>2. eventFlags' \in [Runtimes -> FlagSet] BY <1>1 DEF Flag
<1>3. eventFlags'[r] = n /\ \A q \in Runtimes \ {r} : eventFlags'[q] = eventFlags[q]
  BY <1>1 DEF Flag
<1> QED BY <1>2, <1>3 DEF FlagSet

LEMMA OpenPreserves ==
  ASSUME EventInv, NEW c \in Opens, OpenEnters(c) \/ OpenStep(c)
  PROVE  EventInv'
<1> DEFINE r == Owner(c)
<1> USE EventAssumption DEF EventCalls, EventInv
<1>0. c \in EventCalls /\ r \in Runtimes /\ c \notin Shuts /\ RuntimeInv(r) /\ PhaseInv(c)
  OBVIOUS
<1>1. CASE OpenEnters(c)
  <2>1. \E s \in {"error", "nil", "start"} : Proceed(c, s)
            /\ (s = "start" => ~eventFlags[r].closed /\ ~eventFlags[r].opened)
    BY <1>1 DEF OpenEnters
  <2>2. UNCHANGED <<eventFlags, eventBus, subscribed, loop, publisher, seen>>
    BY <1>1 DEF OpenEnters
  <2>3. EventTypeOK' /\ Others(c) /\ eventCall'[c] \in {"error", "nil", "start"}
    BY <1>0, <2>1, <2>2, Proceeds DEF Others, EventTypeOK
  <2>4. \A q \in Runtimes : SameRuntime(q) BY <2>2 DEF SameRuntime
  <2>5. Alone(c) BY <1>1 DEF OpenEnters, TransitionFree, Alone
  <2>6. PhaseInv(c)'
    <3>1. eventCall'[c] = "start" => ~eventFlags[r].closed /\ ~eventFlags[r].opened
      BY <1>0, <2>1, Proceeds
    <3> QED BY <1>0, <2>2, <2>3, <3>1 DEF PhaseInv
  <2>7. RuntimeInv(r)'
    <3>1. eventCall[c] = "idle" BY <1>1 DEF OpenEnters
    <3>2. \A d \in EventCalls : eventCall[d] = "opened" => eventCall'[d] = "opened"
      BY <2>3, <3>1 DEF Others
    <3> QED BY <1>0, <2>2, <3>2 DEF RuntimeInv
  <2> QED BY <1>0, <2>2, <2>3, <2>4, <2>5, <2>6, <2>7, EventStepKeeps
<1>2. ASSUME eventCall[c] \in {"start", "reconcile", "bind", "opened"},
             EventTypeOK', Others(c), \A q \in Runtimes \ {r} : SameRuntime(q), loop' = loop,
             PhaseInv(c)', RuntimeInv(r)'
      PROVE  EventInv'
  <2>1. Alone(c) BY <1>0, <1>2, AloneInTransition DEF InTransition
  <2> QED BY <1>0, <1>2, <2>1, EventStepKeeps
<1>3. CASE OpenStartsBus(c)
  <2>1. eventCall[c] = "start" /\ UNCHANGED <<eventFlags, subscribed, loop, publisher, seen>>
    BY <1>3 DEF OpenStartsBus
  <2>2. Alone(c) /\ ~eventFlags[r].closed /\ ~eventFlags[r].opened
    BY <1>0, <2>1, AloneInTransition DEF PhaseInv, InTransition
  <2>3. publisher # r
    BY <1>0, <2>1, <2>2 DEF RuntimeInv, Alone, InTransition
  <2>4. \/ BusBecomes(r, "started") /\ Proceed(c, "reconcile")
        \/ UNCHANGED eventBus /\ Proceed(c, "error")
    BY <1>3 DEF OpenStartsBus
  <2>5. /\ eventBus' \in [Runtimes -> {"built", "started", "closed"}]
        /\ \A q \in Runtimes \ {r} : eventBus'[q] = eventBus[q]
        /\ eventCall'[c] = "error" \/ (eventCall'[c] = "reconcile" /\ eventBus'[r] = "started")
    <3>1. CASE BusBecomes(r, "started") /\ Proceed(c, "reconcile") BY <1>0, <3>1, BusSets,
         Proceeds
    <3>2. CASE UNCHANGED eventBus /\ Proceed(c, "error")
      <4>1. eventBus \in [Runtimes -> {"built", "started", "closed"}] BY <1>0 DEF EventTypeOK
      <4> QED BY <1>0, <3>2, <4>1, Proceeds
    <3> QED BY <2>4, <3>1, <3>2
  <2>6. EventTypeOK' /\ Others(c)
    BY <1>0, <2>1, <2>4, <2>5, Proceeds DEF Others, EventTypeOK
  <2>7. \A q \in Runtimes \ {r} : SameRuntime(q) BY <2>1, <2>5 DEF SameRuntime
  <2>8. PhaseInv(c)' BY <1>0, <2>1, <2>2, <2>5 DEF PhaseInv
  <2>9. RuntimeInv(r)' BY <1>0, <2>1, <2>2, <2>3 DEF RuntimeInv
  <2> QED BY <1>2, <2>1, <2>6, <2>7, <2>8, <2>9
<1>4. ASSUME NEW b \in {eventBus[r], "closed"}, NEW s \in {"bind", "error"},
             eventCall[c] \in {"reconcile", "bind"}, publisher # r,
             eventBus' = [eventBus EXCEPT ![r] = b], s = "bind" => b = eventBus[r],
             Proceed(c, s), UNCHANGED <<eventFlags, subscribed, loop, publisher, seen>>
      PROVE  EventInv'
  <2>1. /\ ~eventFlags[r].closed /\ ~eventFlags[r].opened /\ eventBus[r] = "started"
    BY <1>0, <1>4 DEF PhaseInv
  <2>2. /\ eventBus' \in [Runtimes -> {"built", "started", "closed"}] /\ eventBus'[r] = b
        /\ \A q \in Runtimes \ {r} : eventBus'[q] = eventBus[q]
    BY <1>0, <1>4 DEF EventTypeOK
  <2>3. EventTypeOK' /\ Others(c) /\ eventCall'[c] = s
    BY <1>0, <1>4, <2>2, Proceeds DEF Others, EventTypeOK
  <2>4. \A q \in Runtimes \ {r} : SameRuntime(q) BY <1>4, <2>2 DEF SameRuntime
  <2>5. PhaseInv(c)' BY <1>0, <1>4, <2>1, <2>2, <2>3 DEF PhaseInv
  <2>6. RuntimeInv(r)' BY <1>0, <1>4, <2>1 DEF RuntimeInv
  <2> QED BY <1>2, <1>4, <2>3, <2>4, <2>5, <2>6
<1>5. CASE OpenReconciles(c)
  <2>1. eventCall[c] = "reconcile" /\ UNCHANGED <<eventFlags, subscribed, loop, publisher, seen>>
    BY <1>5 DEF OpenReconciles
  <2>2. Alone(c) BY <1>0, <2>1, AloneInTransition DEF InTransition
  <2>3. publisher # r BY <1>0, <2>1, <2>2 DEF PhaseInv, RuntimeInv, Alone, InTransition
  <2>4. CASE BusBecomes(r, "closed") /\ Proceed(c, "error")
    BY <1>4, <2>1, <2>3, <2>4 DEF BusBecomes
  <2>5. CASE UNCHANGED eventBus /\ Proceed(c, "bind")
    <3>1. eventBus' = [eventBus EXCEPT ![r] = eventBus[r]] BY <2>5 DEF EventTypeOK
    <3> QED BY <1>4, <2>1, <2>3, <2>5, <3>1
  <2> QED BY <1>5, <2>4, <2>5 DEF OpenReconciles
<1>6. CASE OpenBinds(c)
  <2>1. eventCall[c] = "bind" /\ UNCHANGED <<eventFlags, subscribed, loop, seen>>
    BY <1>6 DEF OpenBinds
  <2>2. CASE ~MayBind(r)
    BY <1>4, <1>6, <2>1, <2>2 DEF OpenBinds, MayBind, BusBecomes
  <2>3. CASE MayBind(r)
    <3>1. /\ publisher \in {NoRuntime, r} /\ publisher' = r /\ Proceed(c, "opened")
          /\ UNCHANGED eventBus
      BY <1>6, <2>3 DEF OpenBinds, MayBind
    <3>2. ~eventFlags[r].closed /\ ~eventFlags[r].opened /\ eventBus[r] = "started"
      BY <1>0, <2>1 DEF PhaseInv
    <3>3. EventTypeOK' /\ Others(c) /\ eventCall'[c] = "opened"
      BY <1>0, <2>1, <3>1, Proceeds DEF Others, EventTypeOK
    <3>4. \A q \in Runtimes \ {r} : SameRuntime(q) BY <2>1, <3>1 DEF SameRuntime
    <3>5. PhaseInv(c)' BY <1>0, <2>1, <3>1, <3>2, <3>3 DEF PhaseInv
    <3>6. RuntimeInv(r)' BY <1>0, <2>1, <3>1, <3>2, <3>3 DEF RuntimeInv
    <3> QED BY <1>2, <2>1, <3>3, <3>4, <3>5, <3>6
  <2> QED BY <2>2, <2>3
<1>7. CASE OpenEnds(c)
  <2>1. /\ eventCall[c] = "opened" /\ Proceed(c, "nil")
        /\ eventFlags' = [eventFlags EXCEPT ![r] = [eventFlags[r] EXCEPT !.opened = TRUE, !.degraded = FALSE]]
        /\ UNCHANGED <<eventBus, subscribed, loop, publisher, seen>>
    BY <1>7 DEF OpenEnds, Flag
  <2>2. ~eventFlags[r].closed /\ eventBus[r] = "started" /\ publisher = r
    BY <1>0, <2>1 DEF PhaseInv
  <2> DEFINE n == [eventFlags[r] EXCEPT !.opened = TRUE, !.degraded = FALSE]
  <2>8. /\ n \in [opened : BOOLEAN, attempted : BOOLEAN, closed : BOOLEAN, degraded : BOOLEAN]
        /\ n.opened /\ n.attempted = eventFlags[r].attempted /\ n.closed = eventFlags[r].closed
    BY <1>0, FlagsOf
  <2>9. Flag(r, n) BY <2>1 DEF Flag
  <2> HIDE DEF n
  <2>3. /\ eventFlags' \in [Runtimes -> [opened : BOOLEAN, attempted : BOOLEAN, closed : BOOLEAN,
                                         degraded : BOOLEAN]]
        /\ eventFlags'[r].opened /\ ~eventFlags'[r].closed
        /\ eventFlags'[r].attempted = eventFlags[r].attempted
        /\ \A q \in Runtimes \ {r} : eventFlags'[q] = eventFlags[q]
    BY <1>0, <2>2, <2>8, <2>9, FlagSets
  <2>4. EventTypeOK' /\ Others(c) /\ eventCall'[c] = "nil"
    <3>1. Proceed(c, "nil") /\ UNCHANGED <<eventBus, subscribed, loop, publisher, seen>> BY <2>1
    <3>2. /\ eventCall'[c] = "nil" /\ \A d \in EventCalls \ {c} : eventCall'[d] = eventCall[d]
          /\ eventCall' \in [EventCalls -> {"idle", "start", "reconcile", "bind", "opened",
                                 "cancel", "wait", "unbind", "closeBus", "mark", "nil", "error",
                                 "runs", "shut"}]
      BY <1>0, <3>1, Proceeds
    <3>3. EventTypeOK' BY <1>0, <2>3, <3>1, <3>2 DEF EventTypeOK
    <3> QED BY <3>1, <3>2, <3>3 DEF Others
  <2>5. \A q \in Runtimes \ {r} : SameRuntime(q) BY <2>1, <2>3 DEF SameRuntime
  <2>6. PhaseInv(c)' BY <1>0, <2>4 DEF PhaseInv
  <2>7. RuntimeInv(r)' BY <1>0, <2>1, <2>2, <2>3 DEF RuntimeInv
  <2> QED BY <1>2, <2>1, <2>4, <2>5, <2>6, <2>7
<1> QED BY <1>1, <1>3, <1>5, <1>6, <1>7 DEF OpenStep

LEMMA LoopPreserves ==
  ASSUME EventInv, NEW c \in EventLoops,
         LoopStarts(c) \/ Cycle(c) \/ CallerStopsLoop(c) \/ LoopEnds(c)
  PROVE  EventInv'
<1> DEFINE r == Owner(c)
<1> USE EventAssumption DEF EventCalls, EventInv
<1>0. c \in EventCalls /\ r \in Runtimes /\ c \notin Shuts /\ RuntimeInv(r) /\ PhaseInv(c)
  OBVIOUS
<1>1. ASSUME EventTypeOK', Others(c), \A q \in Runtimes \ {r} : SameRuntime(q), SameOpening(r),
             eventCall[c] \in {"idle", "runs"}, eventCall'[c] \in {"error", "runs", "shut"},
             loop[r] = "ended" => loop'[r] = "ended",
             loop'[r] = "none" \/ eventFlags'[r].attempted
      PROVE  EventInv'
  <2>1. ~InTransition(c)' /\ PhaseInv(c)' BY <1>0, <1>1 DEF InTransition, PhaseInv
  <2>2. \A d \in EventCalls : eventCall[d] = "opened" => eventCall'[d] = "opened"
    BY <1>1 DEF Others
  <2>3. RuntimeInv(r)' BY <1>0, <1>1, <2>2 DEF RuntimeInv, SameOpening
  <2> QED BY <1>0, <1>1, <2>1, <2>3, EventStepKeeps
<1>2. CASE LoopStarts(c)
  <2>1. eventCall[c] = "idle" /\ UNCHANGED <<eventBus, subscribed, publisher, seen>>
    BY <1>2 DEF LoopStarts
  <2>2. CASE Proceed(c, "error") /\ UNCHANGED <<eventFlags, loop>>
    <3>1. EventTypeOK' /\ Others(c) /\ eventCall'[c] = "error"
      BY <1>0, <2>1, <2>2, Proceeds DEF Others, EventTypeOK
    <3>2. \A q \in Runtimes : SameRuntime(q) /\ SameOpening(q)
      BY <2>1, <2>2 DEF SameRuntime, SameOpening
    <3> QED BY <1>0, <1>1, <2>1, <2>2, <3>1, <3>2 DEF RuntimeInv
  <2>3. CASE /\ eventFlags' = [eventFlags EXCEPT ![r] = [eventFlags[r] EXCEPT !.attempted = TRUE]]
             /\ loop' = [loop EXCEPT ![r] = "live"] /\ Proceed(c, "runs")
             /\ ~eventFlags[r].attempted
    <3> DEFINE n == [eventFlags[r] EXCEPT !.attempted = TRUE]
    <3>5. /\ n \in [opened : BOOLEAN, attempted : BOOLEAN, closed : BOOLEAN, degraded : BOOLEAN]
          /\ n.attempted /\ n.opened = eventFlags[r].opened /\ n.closed = eventFlags[r].closed
      BY <1>0, FlagsOf
    <3>6. Flag(r, n) BY <2>3 DEF Flag
    <3> HIDE DEF n
    <3>1. /\ eventFlags' \in [Runtimes -> [opened : BOOLEAN, attempted : BOOLEAN, closed : BOOLEAN,
                                           degraded : BOOLEAN]]
          /\ eventFlags'[r].attempted /\ eventFlags'[r].opened = eventFlags[r].opened
          /\ eventFlags'[r].closed = eventFlags[r].closed
          /\ \A q \in Runtimes \ {r} : eventFlags'[q] = eventFlags[q]
      BY <1>0, <3>5, <3>6, FlagSets
    <3>2. /\ loop' \in [Runtimes -> {"none", "live", "cancelled", "ended"}]
          /\ \A q \in Runtimes \ {r} : loop'[q] = loop[q]
      BY <1>0, <2>3 DEF EventTypeOK
    <3>7. loop[r] = "none" BY <1>0, <2>3 DEF RuntimeInv
    <3>8. eventCall'[c] = "runs" /\ Others(c)
      BY <1>0, <2>1, <2>3, Proceeds DEF Others
    <3>9. eventCall' \in [EventCalls -> {"idle", "start", "reconcile", "bind", "opened", "cancel",
                                     "wait", "unbind", "closeBus", "mark", "nil", "error", "runs", "shut"}]
      BY <1>0, <2>3 DEF EventTypeOK, Proceed
    <3>3. EventTypeOK' BY <2>1, <3>1, <3>2, <3>9 DEF EventTypeOK
    <3>4. SameOpening(r) /\ \A q \in Runtimes \ {r} : SameRuntime(q)
      BY <2>1, <3>1, <3>2 DEF SameRuntime, SameOpening
    <3> QED BY <1>0, <1>1, <2>1, <3>1, <3>2, <3>3, <3>4, <3>7, <3>8
  <2> QED BY <1>2, <2>2, <2>3 DEF LoopStarts, Flag
<1>3. CASE Cycle(c)
  <2> DEFINE Outcomes == IF eventFlags[r].opened /\ eventBus[r] = "started" THEN BOOLEAN ELSE {FALSE}
  <2>0. \E ok \in Outcomes : Flag(r, [eventFlags[r] EXCEPT !.degraded = ~ok])
    BY <1>3 DEF Cycle
  <2>7. \A ok \in Outcomes : ok \in BOOLEAN OBVIOUS
  <2> HIDE DEF Outcomes
  <2>1. PICK ok \in Outcomes : Flag(r, [eventFlags[r] EXCEPT !.degraded = ~ok])
    BY <2>0
  <2>2. eventCall[c] = "runs" /\ UNCHANGED <<eventBus, subscribed, loop, publisher, eventCall, seen>>
    BY <1>3 DEF Cycle
  <2>3. (~ok) \in BOOLEAN BY <2>7
  <2> DEFINE m == ~ok
           n == [eventFlags[r] EXCEPT !.degraded = m]
  <2>8. m \in BOOLEAN /\ Flag(r, n) BY <2>1, <2>3
  <2> HIDE DEF m
  <2>9. /\ n \in [opened : BOOLEAN, attempted : BOOLEAN, closed : BOOLEAN, degraded : BOOLEAN]
        /\ n.attempted = eventFlags[r].attempted /\ n.opened = eventFlags[r].opened
        /\ n.closed = eventFlags[r].closed
    BY <1>0, <2>8, FlagsOf
  <2> HIDE DEF n
  <2>4. /\ eventFlags' \in [Runtimes -> [opened : BOOLEAN, attempted : BOOLEAN, closed : BOOLEAN,
                                         degraded : BOOLEAN]]
        /\ eventFlags'[r].attempted = eventFlags[r].attempted
        /\ eventFlags'[r].opened = eventFlags[r].opened
        /\ eventFlags'[r].closed = eventFlags[r].closed
        /\ \A q \in Runtimes \ {r} : eventFlags'[q] = eventFlags[q]
    BY <1>0, <2>8, <2>9, FlagSets
  <2>5. EventTypeOK' /\ Others(c) BY <2>2, <2>4 DEF EventTypeOK, Others
  <2>6. SameOpening(r) /\ \A q \in Runtimes \ {r} : SameRuntime(q)
    BY <2>2, <2>4 DEF SameRuntime, SameOpening
  <2> QED BY <1>0, <1>1, <2>2, <2>4, <2>5, <2>6 DEF RuntimeInv
<1>4. CASE CallerStopsLoop(c) \/ LoopEnds(c)
  <2>1. /\ eventCall[c] = "runs" /\ loop[r] \in {"live", "cancelled"}
        /\ \E s \in {"cancelled", "ended"} : loop' = [loop EXCEPT ![r] = s]
        /\ UNCHANGED <<eventFlags, eventBus, subscribed, publisher, seen>>
        /\ Proceed(c, "shut") \/ UNCHANGED eventCall
    BY <1>4 DEF CallerStopsLoop, LoopEnds
  <2>2. /\ loop' \in [Runtimes -> {"none", "live", "cancelled", "ended"}]
        /\ \A q \in Runtimes \ {r} : loop'[q] = loop[q]
    BY <1>0, <2>1, LoopSets
  <2>3. EventTypeOK' /\ Others(c) /\ eventCall'[c] \in {"runs", "shut"}
    BY <1>0, <2>1, <2>2, Proceeds DEF Others, EventTypeOK
  <2>4. SameOpening(r) /\ \A q \in Runtimes \ {r} : SameRuntime(q)
    BY <2>1, <2>2 DEF SameRuntime, SameOpening
  <2>5. eventFlags'[r].attempted BY <1>0, <2>1 DEF RuntimeInv
  <2> QED BY <1>1, <2>1, <2>3, <2>4, <2>5
<1> QED BY <1>2, <1>3, <1>4

LEMMA ShutPreserves ==
  ASSUME EventInv, NEW c \in Shuts \cup EventLoops, CloseEnters(c) \/ ShutStep(c)
  PROVE  EventInv'
<1> DEFINE r == Owner(c)
<1> USE EventAssumption DEF EventCalls, EventInv
<1>0. c \in EventCalls /\ r \in Runtimes /\ RuntimeInv(r) /\ PhaseInv(c)
  OBVIOUS
<1>8. c \in Shuts \cup EventLoops OBVIOUS
<1>1. CASE CloseEnters(c)
  <2>1. /\ eventCall[c] \in {"idle", "shut"}
        /\ seen' = [seen EXCEPT ![c] = IF ~eventFlags[r].closed /\ loop[r] \in {"live", "cancelled"}
                                        THEN "a loop" ELSE "nothing"]
        /\ Proceed(c, IF eventFlags[r].closed THEN "nil" ELSE "cancel")
        /\ UNCHANGED <<eventFlags, eventBus, subscribed, loop, publisher>>
    BY <1>1 DEF CloseEnters
  <2>2. /\ seen' \in [Shuts \cup EventLoops -> {"nothing", "a loop"}]
        /\ \A d \in (Shuts \cup EventLoops) \ {c} : seen'[d] = seen[d]
        /\ eventFlags[r].closed => seen'[c] = "nothing"
    <3> DEFINE v == IF ~eventFlags[r].closed /\ loop[r] \in {"live", "cancelled"}
                      THEN "a loop" ELSE "nothing"
    <3>1. v \in {"nothing", "a loop"} /\ (eventFlags[r].closed => v = "nothing") OBVIOUS
    <3>2. seen' = [seen EXCEPT ![c] = v] BY <2>1
    <3> HIDE DEF v
    <3>3. seen \in [Shuts \cup EventLoops -> {"nothing", "a loop"}] BY DEF EventTypeOK
    <3>4. seen' \in [Shuts \cup EventLoops -> {"nothing", "a loop"}] BY <3>1, <3>2, <3>3
    <3>5. seen'[c] = v BY <1>0, <3>2, <3>3
    <3>6. \A d \in (Shuts \cup EventLoops) \ {c} : seen'[d] = seen[d] BY <3>2, <3>3
    <3> QED BY <3>1, <3>4, <3>5, <3>6
  <2>3. eventCall'[c] = IF eventFlags[r].closed THEN "nil" ELSE "cancel"
    BY <1>0, <2>1, Proceeds
  <2>4. EventTypeOK' /\ Others(c) BY <1>0, <2>1, <2>2, Proceeds DEF Others, EventTypeOK
  <2>5. \A q \in Runtimes : SameRuntime(q) BY <2>1 DEF SameRuntime
  <2>6. Alone(c) BY <1>1 DEF CloseEnters, TransitionFree, Alone
  <2>7. PhaseInv(c)' BY <1>0, <2>1, <2>2, <2>3 DEF PhaseInv
  <2>8. RuntimeInv(r)'
    <3>1. \A d \in EventCalls : eventCall[d] = "opened" => eventCall'[d] = "opened"
      BY <2>1, <2>4 DEF Others
    <3> QED BY <1>0, <2>1, <3>1 DEF RuntimeInv
  <2> QED BY <1>0, <2>1, <2>4, <2>5, <2>6, <2>7, <2>8, EventStepKeeps
<1>2. ASSUME eventCall[c] \in {"cancel", "wait", "unbind", "closeBus", "mark"},
             EventTypeOK', Others(c), \A q \in Runtimes \ {r} : SameRuntime(q),
             loop[r] = "ended" => loop'[r] = "ended", PhaseInv(c)',
             eventFlags[r].attempted => eventFlags'[r].attempted,
             loop[r] = "none" => loop'[r] = "none",
             publisher' = r => publisher = r /\ eventBus'[r] = eventBus[r]
                                 /\ eventFlags'[r].opened = eventFlags[r].opened,
             eventFlags'[r].opened /\ r \in subscribed' =>
                 eventFlags[r].opened /\ r \in subscribed /\ publisher' = publisher,
             eventFlags'[r].closed =>
                 publisher' # r /\ r \notin subscribed' /\ eventBus'[r] = "closed"
                 /\ ~eventFlags'[r].opened
      PROVE  EventInv'
  <2>1. Alone(c) BY <1>0, <1>2, AloneInTransition DEF InTransition
  <2>2. \A d \in EventCalls : Owner(d) = r => eventCall[d] # "opened"
    BY <1>2, <2>1 DEF Alone, InTransition
  <2>3. RuntimeInv(r)' BY <1>0, <1>2, <2>2 DEF RuntimeInv
  <2> QED BY <1>0, <1>2, <2>1, <2>3, EventStepKeeps
<1>3. CASE CloseCancels(c)
  <2>1. /\ eventCall[c] = "cancel" /\ Proceed(c, "wait")
        /\ loop' = loop \/ (loop[r] = "live" /\ loop' = [loop EXCEPT ![r] = "cancelled"])
        /\ UNCHANGED <<eventFlags, eventBus, subscribed, publisher, seen>>
    BY <1>3 DEF CloseCancels, CancelsLoop
  <2>2. /\ loop' \in [Runtimes -> {"none", "live", "cancelled", "ended"}]
        /\ \A q \in Runtimes \ {r} : loop'[q] = loop[q]
        /\ loop[r] = "ended" => loop'[r] = "ended"
        /\ loop[r] = "none" => loop'[r] = "none"
    BY <1>0, <2>1 DEF EventTypeOK
  <2>3. EventTypeOK' /\ Others(c) /\ eventCall'[c] = "wait"
    BY <1>0, <2>1, <2>2, Proceeds DEF Others, EventTypeOK
  <2>4. \A q \in Runtimes \ {r} : SameRuntime(q) BY <2>1, <2>2 DEF SameRuntime
  <2>5. PhaseInv(c)' BY <1>0, <2>1, <2>3 DEF PhaseInv
  <2>6. ~eventFlags[r].closed BY <1>0, <2>1 DEF PhaseInv
  <2> QED BY <1>2, <2>1, <2>2, <2>3, <2>4, <2>5, <2>6
<1>4. CASE CloseWaits(c)
  <2>1. /\ eventCall[c] = "wait"
        /\ \/ Proceed(c, "unbind") /\ LoopSeenEnded(c)
           \/ Proceed(c, "error")
        /\ UNCHANGED <<eventFlags, eventBus, subscribed, loop, publisher, seen>>
    BY <1>4 DEF CloseWaits
  <2>2. /\ EventTypeOK' /\ Others(c)
        /\ eventCall'[c] = "error" \/ (eventCall'[c] = "unbind" /\ LoopSeenEnded(c))
    BY <1>0, <2>1, Proceeds DEF Others, EventTypeOK
  <2>3. \A q \in Runtimes \ {r} : SameRuntime(q) BY <2>1 DEF SameRuntime
  <2>4. ~eventFlags[r].closed BY <1>0, <2>1 DEF PhaseInv
  <2>5. PhaseInv(c)' BY <1>0, <2>1, <2>2, <2>4 DEF PhaseInv, LoopSeenEnded
  <2> QED BY <1>2, <2>1, <2>2, <2>3, <2>4, <2>5
<1>5. CASE CloseUnbinds(c)
  <2>1. /\ eventCall[c] = "unbind" /\ Proceed(c, "closeBus")
        /\ publisher' = IF publisher = r THEN NoRuntime ELSE publisher
        /\ subscribed' = subscribed \ {r}
        /\ UNCHANGED <<eventFlags, eventBus, loop, seen>>
    BY <1>5 DEF CloseUnbinds
  <2>2. EventTypeOK' /\ Others(c) /\ eventCall'[c] = "closeBus"
    BY <1>0, <2>1, Proceeds DEF Others, EventTypeOK
  <2>3. \A q \in Runtimes \ {r} : SameRuntime(q) BY <2>1 DEF SameRuntime
  <2>4. ~eventFlags[r].closed /\ publisher' # r BY <1>0, <2>1 DEF PhaseInv
  <2>5. PhaseInv(c)' BY <1>0, <2>1, <2>2, <2>4 DEF PhaseInv
  <2> QED BY <1>2, <2>1, <2>2, <2>3, <2>4, <2>5
<1>6. CASE CloseClosesBus(c)
  <2>1. /\ eventCall[c] = "closeBus"
        /\ \/ BusBecomes(r, "closed") /\ Proceed(c, "mark")
           \/ UNCHANGED eventBus /\ Proceed(c, "error")
        /\ UNCHANGED <<eventFlags, subscribed, loop, publisher, seen>>
    BY <1>6 DEF CloseClosesBus
  <2>2. publisher # r /\ r \notin subscribed /\ ~eventFlags[r].closed BY <1>0, <2>1 DEF PhaseInv
  <2>3. /\ eventBus' \in [Runtimes -> {"built", "started", "closed"}]
        /\ \A q \in Runtimes \ {r} : eventBus'[q] = eventBus[q]
        /\ eventCall'[c] = "error" \/ (eventCall'[c] = "mark" /\ eventBus'[r] = "closed")
    <3>1. CASE BusBecomes(r, "closed") /\ Proceed(c, "mark") BY <1>0, <3>1, BusSets, Proceeds
    <3>2. CASE UNCHANGED eventBus /\ Proceed(c, "error")
      <4>1. eventBus \in [Runtimes -> {"built", "started", "closed"}] BY <1>0 DEF EventTypeOK
      <4> QED BY <1>0, <3>2, <4>1, Proceeds
    <3> QED BY <2>1, <3>1, <3>2
  <2>4. EventTypeOK' /\ Others(c) BY <1>0, <2>1, <2>3, Proceeds DEF Others, EventTypeOK
  <2>5. \A q \in Runtimes \ {r} : SameRuntime(q) BY <2>1, <2>3 DEF SameRuntime
  <2>6. PhaseInv(c)' BY <1>0, <2>1, <2>2, <2>3 DEF PhaseInv
  <2> QED BY <1>2, <2>1, <2>2, <2>4, <2>5, <2>6
<1>7. CASE CloseMarks(c)
  <2>1. /\ eventCall[c] = "mark" /\ Proceed(c, "nil")
        /\ eventFlags' = [eventFlags EXCEPT ![r] = [eventFlags[r] EXCEPT !.closed = TRUE, !.opened = FALSE]]
        /\ UNCHANGED <<eventBus, subscribed, loop, publisher, seen>>
    BY <1>7 DEF CloseMarks, Flag
  <2>2. publisher # r /\ r \notin subscribed /\ eventBus[r] = "closed" BY <1>0, <2>1 DEF PhaseInv
  <2>3. /\ eventFlags' \in [Runtimes -> [opened : BOOLEAN, attempted : BOOLEAN, closed : BOOLEAN,
                                         degraded : BOOLEAN]]
        /\ ~eventFlags'[r].opened /\ eventFlags'[r].closed
        /\ eventFlags'[r].attempted = eventFlags[r].attempted
        /\ \A q \in Runtimes \ {r} : eventFlags'[q] = eventFlags[q]
    <3> DEFINE n == [eventFlags[r] EXCEPT !.closed = TRUE, !.opened = FALSE]
    <3>1. Flag(r, n) BY <2>1 DEF Flag
    <3>2. /\ n \in [opened : BOOLEAN, attempted : BOOLEAN, closed : BOOLEAN, degraded : BOOLEAN]
          /\ ~n.opened /\ n.closed /\ n.attempted = eventFlags[r].attempted
      BY <1>0, FlagsOf
    <3> HIDE DEF n
    <3> QED BY <1>0, <3>1, <3>2, FlagSets
  <2>4. EventTypeOK' /\ Others(c) /\ eventCall'[c] = "nil"
    <3>1. Proceed(c, "nil") /\ UNCHANGED <<eventBus, subscribed, loop, publisher, seen>> BY <2>1
    <3>2. /\ eventCall'[c] = "nil" /\ \A d \in EventCalls \ {c} : eventCall'[d] = eventCall[d]
          /\ eventCall' \in [EventCalls -> {"idle", "start", "reconcile", "bind", "opened",
                                 "cancel", "wait", "unbind", "closeBus", "mark", "nil", "error",
                                 "runs", "shut"}]
      BY <1>0, <3>1, Proceeds
    <3>3. EventTypeOK' BY <1>0, <2>3, <3>1, <3>2 DEF EventTypeOK
    <3> QED BY <3>1, <3>2, <3>3 DEF Others
  <2>5. \A q \in Runtimes \ {r} : SameRuntime(q) BY <2>1, <2>3 DEF SameRuntime
  <2>6. PhaseInv(c)' BY <1>0, <2>1, <2>4 DEF PhaseInv
  <2> QED BY <1>2, <2>1, <2>2, <2>3, <2>4, <2>5, <2>6
<1> QED BY <1>1, <1>3, <1>4, <1>5, <1>6, <1>7 DEF ShutStep

LEMMA EventStepPreserves == EventInv /\ [EventNext]_eventVars => EventInv'
<1> SUFFICES ASSUME EventInv, [EventNext]_eventVars PROVE EventInv'
  OBVIOUS
<1>1. CASE UNCHANGED eventVars
  <2>1. /\ eventFlags' = eventFlags /\ eventBus' = eventBus /\ subscribed' = subscribed
        /\ loop' = loop /\ publisher' = publisher /\ eventCall' = eventCall /\ seen' = seen
    BY <1>1 DEF eventVars
  <2>2. EventTypeOK' BY <2>1 DEF EventInv, EventTypeOK
  <2>3. TransitionsAlone' BY <2>1 DEF EventInv, TransitionsAlone, InTransition
  <2>4. \A c \in EventCalls : PhaseInv(c)' BY <2>1 DEF EventInv, PhaseInv
  <2>5. \A r \in Runtimes : RuntimeInv(r)' BY <2>1 DEF EventInv, RuntimeInv
  <2> QED BY <2>2, <2>3, <2>4, <2>5 DEF EventInv
<1> QED BY <1>1, OpenPreserves, LoopPreserves, ShutPreserves DEF EventNext

LEMMA EventInvIsSound == EventInv => EventTypeOK /\ EventRuntimeIsSound
<1> SUFFICES ASSUME EventInv PROVE EventTypeOK /\ EventRuntimeIsSound
  OBVIOUS
<1> USE EventAssumption DEF EventInv, EventCalls
<1>1. PublisherIsOpen BY DEF PublisherIsOpen, RuntimeInv, EventTypeOK
<1>2. ClosedIsWithdrawn BY DEF ClosedIsWithdrawn, RuntimeInv
<1>3. CloseAwaitsItsLoop BY DEF CloseAwaitsItsLoop, PhaseInv
<1> QED BY <1>1, <1>2, <1>3 DEF EventRuntimeIsSound

(* The policy publishes only to a started bus, a closed one is withdrawn,  *)
(* and a Close that succeeded awaited the loop it found, for any runtimes  *)
(* and any calls of them.                                                  *)
THEOREM EventRuntimeSafe == EventSpec => [](EventTypeOK /\ EventRuntimeIsSound)
<1> QED BY EventInitially, EventStepPreserves, EventInvIsSound, PTL DEF EventSpec

-----------------------------------------------------------------------------
(* The WebSocket hub.                                                      *)

(* What a connection is, and that only a queued one is known to the hub.   *)
Connections == [stage : {"none", "upgraded", "queued"}, closed : BOOLEAN,
                buffer : Seq(Signals), reads : BOOLEAN, writes : BOOLEAN, alive : BOOLEAN]
Queued(c) == connection[c].stage = "queued"
HubInv ==
    /\ HubTypeOK
    /\ connection \in [Clients -> Connections]
    /\ \A n \in 1..Len(registerQueue) : Queued(registerQueue[n])
    /\ \A c \in registered : Queued(c)
    /\ HubIsSafe

LEMMA HubInitially == HubInit => HubInv
<1> SUFFICES ASSUME HubInit PROVE HubInv
  OBVIOUS
<1>1. QueueSize \in Nat \ {0} /\ BufferSize \in Nat \ {0} BY HubAssumption
<1>2. connection \in [Clients -> Connections] BY DEF HubInit, NotConnected, Connections
<1>3. HubTypeOK
  <2>1. \A c \in Clients : connection[c].stage = "none" /\ connection[c].buffer = <<>>
    BY DEF HubInit, NotConnected
  <2> QED BY <1>1, <2>1 DEF HubInit, HubTypeOK
<1> QED BY <1>2, <1>3 DEF HubInv, HubInit, HubIsSafe

(* A step that leaves the queues alone and changes one connection, which   *)
(* keeps its stage or goes on to the next, within the buffer's bound.      *)
LEMMA ConnectionChanges ==
  ASSUME HubInv, NEW c \in Clients, NEW k \in Connections,
         connection' = [connection EXCEPT ![c] = k],
         Queued(c) => k.stage = "queued", Len(k.buffer) <= BufferSize,
         UNCHANGED <<registerQueue, broadcastQueue, registered, unsent>>,
         senders' \subseteq senders, panicked' = FALSE
  PROVE  HubInv'
<1>1. connection' \in [Clients -> Connections] BY DEF HubInv
<1>2. \A d \in Clients : /\ Queued(d) => Queued(d)'
                         /\ connection'[d].stage \in {"none", "upgraded", "queued"}
                         /\ Len(connection'[d].buffer) <= BufferSize
  BY DEF HubInv, HubTypeOK, Queued, Connections
<1>3. HubTypeOK' BY <1>2 DEF HubInv, HubTypeOK
<1>4. \A n \in 1..Len(registerQueue) : registerQueue[n] \in Clients
  BY DEF HubInv, HubTypeOK
<1>5. \A s \in senders' : s[1] \in Clients /\ Queued(s[1]) BY DEF HubInv, HubTypeOK, HubIsSafe,
     Queued
<1>6. HubIsSafe' BY <1>2, <1>5 DEF HubIsSafe, Queued
<1> QED BY <1>1, <1>2, <1>3, <1>4, <1>6 DEF HubInv, HubTypeOK

LEMMA HubStepPreserves == HubInv /\ [HubNext]_hubVars => HubInv'
<1> SUFFICES ASSUME HubInv, [HubNext]_hubVars PROVE HubInv'
  OBVIOUS
<1> USE HubAssumption
<1>0. QueueSize \in Nat /\ BufferSize \in Nat OBVIOUS
<1>1. CASE RunRegisters
  <2>1. Head(registerQueue) \in Clients /\ Queued(Head(registerQueue))
    BY <1>1 DEF RunRegisters, HubInv, HubTypeOK
  <2>2. /\ Tail(registerQueue) \in Seq(Clients)
        /\ Len(Tail(registerQueue)) = Len(registerQueue) - 1
        /\ \A n \in 1..Len(Tail(registerQueue)) : Tail(registerQueue)[n] = registerQueue[n + 1]
    BY <1>1 DEF RunRegisters, HubInv, HubTypeOK
  <2>3. HubTypeOK' BY <1>1, <2>1, <2>2 DEF RunRegisters, HubInv, HubTypeOK
  <2> QED BY <1>1, <2>1, <2>2, <2>3 DEF RunRegisters, HubInv, Queued, HubIsSafe, HubTypeOK
<1>2. CASE RunBroadcasts
  <2>1. Head(broadcastQueue) \in Signals /\ Tail(broadcastQueue) \in Seq(Signals)
        /\ Len(Tail(broadcastQueue)) <= QueueSize
    BY <1>2 DEF RunBroadcasts, HubInv, HubTypeOK
  <2>2. \A s \in senders' \ senders : s \in Clients \X Signals /\ s[1] \in registered
    BY <1>2, <2>1 DEF RunBroadcasts, HubInv, HubTypeOK
  <2>3. HubTypeOK' BY <1>2, <2>1, <2>2 DEF RunBroadcasts, HubInv, HubTypeOK
  <2>4. HubIsSafe' BY <1>2, <2>2 DEF RunBroadcasts, HubInv, HubIsSafe, Queued
  <2> QED BY <1>2, <2>3, <2>4 DEF RunBroadcasts, HubInv, Queued
<1>3. ASSUME NEW m \in Signals, SendDirect(m) PROVE HubInv'
  <2>1. \A s \in senders' \ senders : s \in Clients \X Signals /\ s[1] \in registered
    BY <1>3 DEF SendDirect, HubInv, HubTypeOK
  <2>2. HubTypeOK' BY <1>3, <2>1 DEF SendDirect, HubInv, HubTypeOK
  <2>3. HubIsSafe' BY <1>3, <2>1 DEF SendDirect, HubInv, HubIsSafe, Queued
  <2> QED BY <1>3, <2>2, <2>3 DEF SendDirect, HubInv, Queued
<1>4. ASSUME NEW m \in Signals, TryBroadcast(m) PROVE HubInv'
  <2>1. broadcastQueue' \in Seq(Signals) /\ Len(broadcastQueue') <= QueueSize
    BY <1>4, <1>0 DEF TryBroadcast, HubInv, HubTypeOK
  <2>2. HubTypeOK' BY <1>4, <2>1 DEF TryBroadcast, HubInv, HubTypeOK
  <2> QED BY <1>4, <2>2 DEF TryBroadcast, HubInv, HubIsSafe, Queued
<1>5. ASSUME NEW c \in Clients, Register(c) PROVE HubInv'
  <2>0. connection[c] \in Connections BY DEF HubInv
  <2>1. /\ connection' \in [Clients -> Connections] /\ connection'[c].stage = "queued"
        /\ \A d \in Clients : connection'[d].buffer = connection[d].buffer
        /\ \A d \in Clients \ {c} : connection'[d] = connection[d]
    BY <1>5, <2>0 DEF Register, HubInv, Connections
  <2>2. /\ registerQueue' \in Seq(Clients) /\ Len(registerQueue') = Len(registerQueue) + 1
        /\ \A n \in 1..Len(registerQueue) : registerQueue'[n] = registerQueue[n]
        /\ registerQueue'[Len(registerQueue) + 1] = c
    BY <1>5 DEF Register, HubInv, HubTypeOK
  <2>3. HubTypeOK'
    BY <1>0, <1>5, <2>1, <2>2 DEF Register, HubInv, HubTypeOK
  <2>4. ASSUME NEW n \in 1..Len(registerQueue') PROVE connection'[registerQueue'[n]].stage = "queued"
    <3>1. CASE n = Len(registerQueue) + 1 BY <2>1, <2>2, <3>1
    <3>2. CASE n \in 1..Len(registerQueue)
      <4>1. registerQueue[n] \in Clients /\ connection[registerQueue[n]].stage = "queued"
        BY <3>2 DEF HubInv, HubTypeOK, Queued
      <4> QED BY <2>1, <2>2, <3>2, <4>1
    <3> QED BY <2>2, <3>1, <3>2 DEF HubInv, HubTypeOK
  <2>5. HubIsSafe' BY <1>5, <2>1 DEF Register, HubInv, HubIsSafe, HubTypeOK
  <2> QED BY <1>5, <2>1, <2>3, <2>4, <2>5 DEF Register, HubInv, HubTypeOK, Queued
<1>6. ASSUME NEW c \in Clients, NEW k \in Connections,
             connection' = [connection EXCEPT ![c] = k],
             k.stage = connection[c].stage, Len(k.buffer) <= BufferSize,
             UNCHANGED <<registerQueue, broadcastQueue, registered, unsent>>,
             senders' \subseteq senders, panicked' = FALSE
      PROVE  HubInv'
  BY <1>6, ConnectionChanges DEF Queued
<1>7. ASSUME NEW c \in Clients,
             Upgrade(c) \/ Breaks(c) \/ ReadPumpEnds(c) \/ WritePump(c) \/ CleansUp(c)
                        \/ \E m \in Signals : SendMsg(c, m)
      PROVE  HubInv'
  <2> DEFINE k == connection[c]
  <2>1. k \in Connections /\ Len(k.buffer) <= BufferSize /\ panicked = FALSE
    BY DEF HubInv, HubTypeOK, HubIsSafe
  <2>2. CASE Upgrade(c)
    <3> DEFINE n == [k EXCEPT !.stage = "upgraded", !.alive = TRUE]
    <3>1. n \in Connections /\ Len(n.buffer) <= BufferSize BY <2>1 DEF Connections
    <3>2. connection' = [connection EXCEPT ![c] = n] BY <2>2, <2>1 DEF Upgrade, Connections,
         HubInv
    <3>3. ~Queued(c) BY <2>2 DEF Upgrade, Queued
    <3> HIDE DEF n
    <3> QED BY <2>1, <2>2, <3>1, <3>2, <3>3, ConnectionChanges DEF Upgrade
  <2>3. CASE Breaks(c)
    <3> DEFINE n == [k EXCEPT !.alive = FALSE]
    <3>1. n \in Connections /\ Len(n.buffer) <= BufferSize /\ n.stage = k.stage
      BY <2>1 DEF Connections
    <3>2. connection' = [connection EXCEPT ![c] = n] BY <2>3 DEF Breaks
    <3> HIDE DEF n
    <3> QED BY <1>6, <2>1, <2>3, <3>1, <3>2 DEF Breaks
  <2>4. ASSUME NEW pumps \in Connections, Closes(c, pumps), pumps.stage = k.stage,
               Len(pumps.buffer) <= BufferSize,
               UNCHANGED <<registerQueue, broadcastQueue, registered, senders, unsent>>
        PROVE  HubInv'
    <3> DEFINE n == [pumps EXCEPT !.closed = TRUE, !.alive = FALSE]
    <3>1. n \in Connections /\ Len(n.buffer) <= BufferSize /\ n.stage = k.stage
      BY <2>4 DEF Connections
    <3>2. connection' = [connection EXCEPT ![c] = n] /\ panicked' = FALSE
      BY <2>1, <2>4 DEF Closes, MayClose
    <3> HIDE DEF n
    <3> QED BY <1>6, <2>4, <3>1, <3>2
  <2>5. CASE ReadPumpEnds(c)
    <3> DEFINE pumps == [k EXCEPT !.reads = FALSE]
    <3>1. pumps \in Connections /\ pumps.stage = k.stage /\ pumps.buffer = k.buffer
      BY <2>1 DEF Connections
    <3>2. Closes(c, pumps) BY <2>5 DEF ReadPumpEnds
    <3> HIDE DEF pumps
    <3> QED BY <2>1, <2>4, <2>5, <3>1, <3>2 DEF ReadPumpEnds
  <2>6. CASE CleansUp(c) BY <2>1, <2>4, <2>6 DEF CleansUp
  <2>7. CASE WritePump(c)
    <3>1. ASSUME NEW b \in Seq(Signals), Len(b) <= BufferSize, WriteEnds(c, b) PROVE HubInv'
      <4> DEFINE pumps == [k EXCEPT !.writes = FALSE, !.buffer = b]
      <4>1. pumps \in Connections /\ pumps.stage = k.stage /\ pumps.buffer = b
        BY <2>1 DEF Connections
      <4>2. Closes(c, pumps) BY <3>1 DEF WriteEnds
      <4> HIDE DEF pumps
      <4> QED BY <2>4, <2>7, <3>1, <4>1, <4>2 DEF WritePump
    <3>2. k.buffer \in Seq(Signals) /\ k.buffer # <<>> =>
            Tail(k.buffer) \in Seq(Signals) /\ Len(Tail(k.buffer)) <= BufferSize
      BY <1>0, <2>1 DEF Connections
    <3>3. CASE k.buffer # <<>> /\ connection' = [connection EXCEPT ![c].buffer = Tail(@)]
               /\ UNCHANGED panicked
      <4> DEFINE n == [k EXCEPT !.buffer = Tail(@)]
      <4>1. n \in Connections /\ Len(n.buffer) <= BufferSize /\ n.stage = k.stage
        BY <2>1, <3>2, <3>3 DEF Connections
      <4>2. connection' = [connection EXCEPT ![c] = n] BY <3>3
      <4> HIDE DEF n
      <4> QED BY <1>6, <2>1, <2>7, <3>3, <4>1, <4>2 DEF WritePump
    <3>4. k.buffer \in Seq(Signals) BY <2>1 DEF Connections
    <3> QED BY <2>1, <2>7, <3>1, <3>2, <3>3, <3>4 DEF WritePump
  <2>8. ASSUME NEW m \in Signals, SendMsg(c, m) PROVE HubInv'
    <3>1. CASE MaySend(c)
      <4> DEFINE b == IF Len(k.buffer) < BufferSize THEN Append(k.buffer, m) ELSE k.buffer
                 n == [k EXCEPT !.buffer = b]
      <4>1. b \in Seq(Signals) /\ Len(b) <= BufferSize BY <1>0, <2>1 DEF Connections
      <4>2. n \in Connections /\ n.buffer = b /\ n.stage = k.stage
        BY <2>1, <4>1 DEF Connections
      <4>3. connection' = [connection EXCEPT ![c] = n] /\ panicked' = FALSE
        BY <2>1, <2>8, <3>1 DEF SendMsg, MaySend
      <4> HIDE DEF n, b
      <4> QED BY <1>6, <2>8, <4>1, <4>2, <4>3 DEF SendMsg
    <3>2. CASE ~MaySend(c)
      BY <2>8, <3>2 DEF SendMsg, HubInv, HubTypeOK, HubIsSafe, Queued
    <3> QED BY <3>1, <3>2
  <2> QED BY <1>7, <2>2, <2>3, <2>5, <2>6, <2>7, <2>8
<1>8. CASE UNCHANGED hubVars
  BY <1>8 DEF hubVars, HubInv, HubTypeOK, HubIsSafe, Queued
<1> QED BY <1>1, <1>2, <1>3, <1>4, <1>5, <1>7, <1>8 DEF HubNext

(* However pumps, cleanup and senders interleave, nobody sends on a closed *)
(* channel or closes it twice, for any clients and any size of the buffers.*)
THEOREM HubSafe == HubSpec => [](HubTypeOK /\ HubIsSafe)
<1>1. HubInv => HubTypeOK /\ HubIsSafe BY DEF HubInv
<1> QED BY <1>1, HubInitially, HubStepPreserves, PTL DEF HubSpec

-----------------------------------------------------------------------------
(* The managed Kafka queue.                                                *)

(* One registration: its group, its place among the consumers, what its    *)
(* caller was told and how far its consumer came.                          *)
RegistrationInv(r) ==
    /\ registration[r] \in {"idle", "dialing"} => group[r] = "none"
    /\ registration[r] = "rejecting" => group[r] = "open"
    /\ registration[r] = "accepted" =>
           group[r] = IF finisher \in {"none", "groups"} THEN "open" ELSE "closed"
    /\ registration[r] = "over" => group[r] \in {"none", "closed"}
    /\ r \in consumers <=> registration[r] = "accepted" /\ finisher # "done"
    /\ registrant[r] = "withdrawn" => r \in abandoned
    /\ r \in abandoned => registration[r] # "accepted"
    /\ registrant[r] = "ok" => registration[r] = "accepted"
    /\ runner[r] # "none" <=> running /\ registration[r] = "accepted"
    /\ running => registration[r] # "dialing"
(* A consumer is where its mark is, and has handled what comes before.     *)
ClaimInv(r) == claim[r].next = claim[r].marked /\ 1..(claim[r].marked - 1) \subseteq claim[r].handled
(* What a close has awaited does not come back.                            *)
FinishInv ==
    /\ closing <=> finisher # "none"
    /\ finisher \in {"ends", "done"} => RegistrationsOver /\ RunnersOver
    /\ producer = "closed" => closing /\ OperationsOver
KeysInv == \A r, q \in consumers \cup Pending : KeyOf(r) = KeyOf(q) => r = q
KafkaInv ==
    /\ KafkaTypeOK /\ FinishInv /\ KeysInv
    /\ \A r \in Registrations : RegistrationInv(r) /\ ClaimInv(r)

LEMMA KafkaInitially == KafkaInit => KafkaInv
<1> SUFFICES ASSUME KafkaInit PROVE KafkaInv
  OBVIOUS
<1>1. Offsets \in Nat /\ ErrorSlots \in Nat BY KafkaAssumption
<1>2. claim \in [Registrations ->
                    [next : 1..(Offsets + 1), marked : 1..(Offsets + 1), handled : SUBSET (1..Offsets)]]
  BY <1>1 DEF KafkaInit
<1>3. errorCh \in [queued : 0..ErrorSlots, closed : BOOLEAN] BY <1>1 DEF KafkaInit
<1>4. KafkaTypeOK BY <1>2, <1>3 DEF KafkaInit, KafkaTypeOK
<1>5. FinishInv BY DEF KafkaInit, FinishInv
<1>6. KeysInv BY DEF KafkaInit, KeysInv, Pending
<1>7. ASSUME NEW r \in Registrations PROVE RegistrationInv(r) /\ ClaimInv(r)
  <2>1. RegistrationInv(r) BY DEF KafkaInit, RegistrationInv
  <2>2. claim[r].next = 1 /\ claim[r].marked = 1 BY DEF KafkaInit
  <2>3. ClaimInv(r) BY <2>2 DEF ClaimInv
  <2> QED BY <2>1, <2>3
<1> QED BY <1>4, <1>5, <1>6, <1>7 DEF KafkaInv

(* The variables typed by records, and the others.                         *)
RecordsType ==
    /\ claim \in [Registrations ->
                    [next : 1..(Offsets + 1), marked : 1..(Offsets + 1), handled : SUBSET (1..Offsets)]]
    /\ errorCh \in [queued : 0..ErrorSlots, closed : BOOLEAN]
PhasesType ==
    /\ running \in BOOLEAN /\ closing \in BOOLEAN /\ runCtx \in {"none", "live", "ended"}
    /\ registration \in [Registrations -> {"idle", "dialing", "rejecting", "accepted", "over"}]
    /\ registrant \in [Registrations -> {"idle", "waiting", "ok", "refused", "withdrawn"}]
    /\ abandoned \subseteq Registrations /\ consumers \subseteq Registrations
    /\ group \in [Registrations -> {"none", "open", "closed", "closed twice"}]
    /\ runner \in [Registrations -> {"none", "runs", "failed", "ended"}]
    /\ producer \in {"open", "closed"}
    /\ append \in [Appends -> {"idle", "sending", "over"}]
    /\ finisher \in {"none", "groups", "waits", "ends", "done"}
    /\ queueCloser \in [QueueClosers -> {"idle", "waits", "over"}]
    /\ start \in {"idle", "selects", "waits", "over"}
    /\ runnable \in {"idle", "selects", "stops", "over"}
LEMMA TypingSplits ==
  (KafkaTypeOK <=> PhasesType /\ RecordsType) /\ (KafkaTypeOK' <=> PhasesType' /\ RecordsType')
BY DEF KafkaTypeOK, PhasesType, RecordsType
LEMMA RecordsStay ==
  ASSUME RecordsType, claim' = claim, errorCh' = errorCh
  PROVE  RecordsType'
BY Zenon DEF RecordsType
LEMMA PhasesChange ==
  ASSUME PhasesType,
         registration' \in [Registrations -> {"idle", "dialing", "rejecting", "accepted", "over"}],
         registrant' \in [Registrations -> {"idle", "waiting", "ok", "refused", "withdrawn"}],
         abandoned' \subseteq Registrations, consumers' \subseteq Registrations,
         group' \in [Registrations -> {"none", "open", "closed", "closed twice"}],
         runner' \in [Registrations -> {"none", "runs", "failed", "ended"}],
         UNCHANGED <<flagVars, producer, append, endVars>>
  PROVE  PhasesType'
<1>1. running' \in BOOLEAN /\ closing' \in BOOLEAN /\ runCtx' \in {"none", "live", "ended"}
  BY DEF PhasesType, flagVars
<1>2. /\ producer' \in {"open", "closed"} /\ append' \in [Appends -> {"idle", "sending", "over"}]
  BY DEF PhasesType
<1>3. /\ finisher' \in {"none", "groups", "waits", "ends", "done"}
      /\ queueCloser' \in [QueueClosers -> {"idle", "waits", "over"}]
      /\ start' \in {"idle", "selects", "waits", "over"}
      /\ runnable' \in {"idle", "selects", "stops", "over"}
  BY DEF PhasesType, endVars
<1> QED BY <1>1, <1>2, <1>3, Zenon DEF PhasesType
LEMMA PhasesStay ==
  ASSUME PhasesType,
         UNCHANGED <<flagVars, registerVars, group, runner, producer, append, endVars>>
  PROVE  PhasesType'
<1>1. /\ registration' \in [Registrations -> {"idle", "dialing", "rejecting", "accepted", "over"}]
      /\ registrant' \in [Registrations -> {"idle", "waiting", "ok", "refused", "withdrawn"}]
      /\ abandoned' \subseteq Registrations /\ consumers' \subseteq Registrations
  BY DEF PhasesType, registerVars
<1>2. /\ group' \in [Registrations -> {"none", "open", "closed", "closed twice"}]
      /\ runner' \in [Registrations -> {"none", "runs", "failed", "ended"}]
  BY DEF PhasesType
<1> QED BY <1>1, <1>2, PhasesChange
LEMMA RecordsTyped == KafkaTypeOK => PhasesType /\ RecordsType
BY TypingSplits

(* A step of registration r: the others stay, and the queue is not over.   *)
LEMMA RegistrationChanges ==
  ASSUME KafkaInv, NEW r \in Registrations, registration[r] \in {"idle", "dialing", "rejecting"},
         UNCHANGED <<flagVars, consumeVars, producer, append, endVars, errorCh>>,
         registrant' = registrant \/ registrant' = [registrant EXCEPT ![r] = "waiting"]
            \/ registrant' = [registrant EXCEPT ![r] = "refused"]
            \/ (registrant' = [registrant EXCEPT ![r] = "withdrawn"] /\ abandoned' = abandoned \cup {r}),
         abandoned' \in {abandoned, abandoned \cup {r}},
         NEW s \in {"idle", "dialing", "rejecting", "accepted", "over"},
         registration' = [registration EXCEPT ![r] = s],
         s = "idle" => registration[r] = "idle",
         s = "dialing" => registration[r] \in {"idle", "dialing"},
         registration[r] = "idle" /\ s = "dialing" => ~closing /\ ~running /\ ~KeyTaken(r),
         s = "accepted" => registration[r] = "dialing" /\ ~Unwanted(r) /\ abandoned' = abandoned,
         consumers' = IF s = "accepted" THEN consumers \cup {r} ELSE consumers,
         NEW g \in {"none", "open", "closed"},
         group' = [group EXCEPT ![r] = g],
         s \in {"idle", "dialing"} => g = "none", s \in {"rejecting", "accepted"} => g = "open",
         s = "over" => g # "open",
         registration[r] \in {"rejecting"} \/ s \in {"dialing", "idle"} \/ registration[r] = "dialing"
  PROVE  KafkaInv'
<1> USE DEF KafkaInv, flagVars, consumeVars, endVars
<1>0. RegistrationInv(r) OBVIOUS
<1>1. \A q \in Registrations \ {r} :
         /\ registration'[q] = registration[q] /\ registrant'[q] = registrant[q]
         /\ group'[q] = group[q] /\ (q \in abandoned' <=> q \in abandoned)
         /\ (q \in consumers' <=> q \in consumers)
  <2>1. registration \in [Registrations -> {"idle", "dialing", "rejecting", "accepted", "over"}]
    BY DEF KafkaTypeOK
  <2>2. registrant \in [Registrations -> {"idle", "waiting", "ok", "refused", "withdrawn"}]
    BY DEF KafkaTypeOK
  <2>3. group \in [Registrations -> {"none", "open", "closed", "closed twice"}] BY DEF KafkaTypeOK
  <2>4. \A q \in Registrations \ {r} : registration'[q] = registration[q] /\ registrant'[q] = registrant[q]
    BY <2>1, <2>2
  <2>5. \A q \in Registrations \ {r} : group'[q] = group[q] BY <2>3
  <2>6. \A q \in Registrations \ {r} : (q \in abandoned' <=> q \in abandoned) /\ (q \in consumers' <=> q \in consumers)
    OBVIOUS
  <2> QED BY <2>4, <2>5, <2>6
<1>2. registration'[r] = s /\ group'[r] = g /\ (r \in consumers' <=> s = "accepted")
  <2>1. registration \in [Registrations -> {"idle", "dialing", "rejecting", "accepted", "over"}]
    BY DEF KafkaTypeOK
  <2>2. group \in [Registrations -> {"none", "open", "closed", "closed twice"}] BY DEF KafkaTypeOK
  <2>3. registration'[r] = s BY <2>1
  <2>4. group'[r] = g BY <2>2
  <2>5. r \in consumers' <=> s = "accepted" BY <1>0 DEF RegistrationInv
  <2> QED BY <2>3, <2>4, <2>5
<1>3. KafkaTypeOK'
  <2>1. registration' \in [Registrations -> {"idle", "dialing", "rejecting", "accepted", "over"}]
    BY DEF KafkaTypeOK
  <2>2. registrant' \in [Registrations -> {"idle", "waiting", "ok", "refused", "withdrawn"}]
    BY DEF KafkaTypeOK
  <2>3. abandoned' \subseteq Registrations /\ consumers' \subseteq Registrations BY
       DEF KafkaTypeOK
  <2>4. group' \in [Registrations -> {"none", "open", "closed", "closed twice"}] BY
       DEF KafkaTypeOK
  <2>5. /\ running' = running /\ closing' = closing /\ runCtx' = runCtx /\ runner' = runner
        /\ claim' = claim /\ producer' = producer /\ append' = append /\ finisher' = finisher
        /\ queueCloser' = queueCloser /\ start' = start /\ runnable' = runnable /\ errorCh' = errorCh
    OBVIOUS
  <2>6. PhasesType'
    <3>1. PhasesType BY RecordsTyped
    <3>2. runner' \in [Registrations -> {"none", "runs", "failed", "ended"}] BY ONLY <3>1,
         <2>5 DEF PhasesType
    <3> QED BY <3>1, <3>2, <2>1, <2>2, <2>3, <2>4, <2>5, PhasesChange DEF flagVars, endVars
  <2>7. RecordsType' BY ONLY KafkaTypeOK, RecordsTyped, <2>5, RecordsStay
  <2> QED BY <2>6, <2>7, TypingSplits
<1>4. s = "dialing" => ~running BY <1>0 DEF RegistrationInv
<1>5. s = "accepted" => ~closing /\ ~running BY DEF Unwanted
<1>6. FinishInv'
  <2>1. finisher \in {"ends", "done"} =>
           registration[r] = "idle" /\ \A q \in Registrations : registration[q] \notin {"dialing", "rejecting"}
    BY DEF FinishInv, RegistrationsOver
  <2>2. finisher \in {"ends", "done"} => s = "idle" BY <2>1 DEF FinishInv
  <2>3. finisher \in {"ends", "done"} => RegistrationsOver'
    BY <1>1, <1>2, <2>1, <2>2 DEF RegistrationsOver
  <2> QED BY <2>3 DEF FinishInv, RunnersOver, OperationsOver
<1>7. KeysInv'
  <2>1. consumers' \cup Pending' \subseteq consumers \cup Pending \cup {r}
    BY <1>1 DEF Pending
  <2>2. CASE r \in consumers \cup Pending BY <2>1, <2>2 DEF KeysInv
  <2>3. CASE r \notin consumers \cup Pending
    <3>1. s # "accepted" BY <2>3 DEF Pending
    <3>2. CASE s # "dialing"
      <4>1. consumers' \cup Pending' \subseteq consumers \cup Pending BY <1>1, <1>2, <3>1,
           <3>2 DEF Pending
      <4> QED BY <4>1 DEF KeysInv
    <3>3. CASE s = "dialing"
      <4>1. ~KeyTaken(r) BY <2>3, <3>3 DEF Pending
      <4>2. \A q \in consumers \cup Pending : KeyOf(q) # KeyOf(r) BY <4>1 DEF KeyTaken
      <4> QED BY <2>1, <4>2 DEF KeysInv
    <3> QED BY <3>2, <3>3
  <2> QED BY <2>2, <2>3
<1>8. RegistrationInv(r)'
  <2>1. runner[r] = "none" BY <1>0 DEF RegistrationInv
  <2>5. registrant \in [Registrations -> {"idle", "waiting", "ok", "refused", "withdrawn"}] BY DEF KafkaTypeOK
  <2>6. registrant[r] # "ok" /\ (registrant[r] = "withdrawn" => r \in abandoned)
    BY <1>0 DEF RegistrationInv
  <2>7. \/ registrant'[r] \in {registrant[r], "waiting", "refused"}
        \/ registrant'[r] = "withdrawn" /\ abandoned' = abandoned \cup {r}
    BY <2>5
  <2>2. registrant'[r] # "ok" /\ (registrant'[r] = "withdrawn" => r \in abandoned')
    BY <2>6, <2>7
  <2>3. r \in abandoned' => s # "accepted" BY DEF Unwanted
  <2>4. s = "accepted" => finisher = "none" BY <1>5 DEF FinishInv
  <2> QED BY <1>2, <1>4, <1>5, <2>1, <2>2, <2>3, <2>4 DEF RegistrationInv
<1>9. \A q \in Registrations \ {r} : RegistrationInv(q)' BY <1>1 DEF RegistrationInv
<1>10. \A q \in Registrations : ClaimInv(q)' BY DEF ClaimInv
<1> QED BY <1>3, <1>6, <1>7, <1>8, <1>9, <1>10

LEMMA RegistrationPreserves ==
  ASSUME KafkaInv, NEW r \in Registrations,
         RegisterCall(r) \/ RegistrationStep(r) \/ Withdraws(r)
  PROVE  KafkaInv'
<1>0. /\ RegistrationInv(r) /\ KafkaTypeOK
      /\ registration = [registration EXCEPT ![r] = registration[r]]
      /\ group = [group EXCEPT ![r] = group[r]]
  BY DEF KafkaInv, KafkaTypeOK
<1>1. CASE RegisterCall(r)
  <2>1. CASE closing \/ running \/ KeyTaken(r)
    <3>1. group[r] = "none" /\ registration[r] = "idle" BY <1>0, <1>1 DEF RegistrationInv,
         RegisterCall
    <3> QED BY <1>0, <1>1, <2>1, <3>1, RegistrationChanges DEF RegisterCall
  <2>2. CASE ~(closing \/ running \/ KeyTaken(r))
    <3>1. group[r] = "none" /\ registration[r] = "idle" BY <1>0, <1>1 DEF RegistrationInv,
         RegisterCall
    <3> QED BY <1>0, <1>1, <2>2, <3>1, RegistrationChanges DEF RegisterCall
  <2> QED BY <2>1, <2>2
<1>2. CASE DialFails(r)
  <2>1. group[r] = "none" /\ registration[r] = "dialing" BY <1>0, <1>2 DEF RegistrationInv,
       DialFails
  <2> QED BY <1>0, <1>2, <2>1, RegistrationChanges DEF DialFails
<1>3. CASE DialEnds(r)
  <2>1. CASE Unwanted(r) BY <1>0, <1>3, <2>1, RegistrationChanges DEF DialEnds
  <2>2. CASE ~Unwanted(r) BY <1>0, <1>3, <2>2, RegistrationChanges DEF DialEnds
  <2> QED BY <2>1, <2>2
<1>4. CASE Rejects(r)
  <2>1. group[r] = "open" /\ registration[r] = "rejecting" BY <1>0, <1>4 DEF RegistrationInv,
       Rejects
  <2>2. group' = [group EXCEPT ![r] = "closed"] BY <1>4, <2>1 DEF Rejects, Closed
  <2> QED BY <1>0, <1>4, <2>1, <2>2, RegistrationChanges DEF Rejects
<1>5. CASE Withdraws(r)
  <2>1. registration[r] \in {"idle", "dialing", "rejecting"} BY <1>0, <1>5 DEF Withdraws,
       Completed, KafkaTypeOK
  <2>2. group[r] \in {"none", "open", "closed"} /\ (registration[r] \in {"idle", "dialing"} => group[r] = "none")
        /\ (registration[r] = "rejecting" => group[r] = "open")
    BY <1>0, <2>1 DEF RegistrationInv
  <2> QED BY <1>0, <1>5, <2>1, <2>2, RegistrationChanges DEF Withdraws
<1>6. CASE Hears(r)
  <2>1. /\ registrant' = [registrant EXCEPT ![r] = IF registration[r] = "accepted" THEN "ok" ELSE "refused"]
        /\ UNCHANGED <<flagVars, registration, abandoned, consumers, group, consumeVars, producer,
                       append, endVars, errorCh>>
    BY <1>6 DEF Hears
  <2>2. KafkaTypeOK'
    <3>0. PhasesType /\ RecordsType BY <1>0, RecordsTyped
    <3>3. registrant' \in [Registrations -> {"idle", "waiting", "ok", "refused", "withdrawn"}]
      BY ONLY <3>0, <2>1 DEF PhasesType
    <3>4. /\ registration' \in [Registrations -> {"idle", "dialing", "rejecting", "accepted", "over"}]
          /\ abandoned' \subseteq Registrations /\ consumers' \subseteq Registrations
          /\ group' \in [Registrations -> {"none", "open", "closed", "closed twice"}]
          /\ runner' \in [Registrations -> {"none", "runs", "failed", "ended"}]
      BY ONLY <3>0, <2>1 DEF PhasesType, consumeVars
    <3>1. PhasesType' BY <3>0, <3>3, <3>4, <2>1, PhasesChange
    <3>2. RecordsType' BY <3>0, <2>1, RecordsStay DEF consumeVars
    <3> QED BY <3>1, <3>2, TypingSplits
  <2>3. FinishInv' /\ KeysInv'
    BY <2>1 DEF KafkaInv, FinishInv, KeysInv, Pending, RegistrationsOver, RunnersOver,
       OperationsOver,
                flagVars, consumeVars, endVars
  <2>4. ASSUME NEW q \in Registrations PROVE RegistrationInv(q)' /\ ClaimInv(q)'
    <3>1. registrant'[q] = registrant[q] \/ (registrant'[q] = "ok" /\ registration[q] = "accepted")
          \/ registrant'[q] = "refused"
      BY <1>0, <2>1 DEF KafkaTypeOK
    <3> QED BY <2>1, <3>1 DEF KafkaInv, RegistrationInv, ClaimInv, flagVars, consumeVars, endVars
  <2> QED BY <2>2, <2>3, <2>4 DEF KafkaInv
<1> QED BY <1>1, <1>2, <1>3, <1>4, <1>5, <1>6 DEF RegistrationStep

(* What reportError leaves on the channel.                                 *)
LEMMA ReportedIsTyped ==
  ASSUME KafkaTypeOK
  PROVE  /\ Reported \in [queued : 0..ErrorSlots, closed : BOOLEAN]
         /\ errorCh.closed => Reported = errorCh
         /\ Reported.closed = errorCh.closed
<1> USE KafkaAssumption
<1>1. errorCh \in [queued : 0..ErrorSlots, closed : BOOLEAN] BY DEF KafkaTypeOK
<1>2. CASE Reportable /\ errorCh.queued < ErrorSlots
  <2>1. errorCh.queued + 1 \in 0..ErrorSlots BY <1>1, <1>2
  <2>2. Reported = [errorCh EXCEPT !.queued = errorCh.queued + 1] BY <1>2 DEF Reported
  <2> QED BY <1>1, <1>2, <2>1, <2>2 DEF Reportable
<1>3. CASE ~(Reportable /\ errorCh.queued < ErrorSlots) BY <1>1, <1>3 DEF Reported
<1> QED BY <1>2, <1>3

LEMMA ConsumerPreserves ==
  ASSUME KafkaInv, NEW r \in Registrations, HandlesMessage(r) \/ ConsumerFails(r) \/ ConsumerEnds(r)
  PROVE  KafkaInv'
<1> USE KafkaAssumption DEF KafkaInv, flagVars, registerVars, endVars
<1>0. RegistrationInv(r) /\ ClaimInv(r) OBVIOUS
<1>1. CASE HandlesMessage(r)
  <2> DEFINE Claims == [next : 1..(Offsets + 1), marked : 1..(Offsets + 1), handled : SUBSET (1..Offsets)]
             k == claim[r]
  <2>13. k \in Claims BY DEF KafkaTypeOK
  <2>14. k.next = k.marked /\ 1..(k.marked - 1) \subseteq k.handled BY <1>0 DEF ClaimInv
  <2>15. k.next <= Offsets BY <1>1 DEF HandlesMessage
  <2>1. k \in Claims /\ k.next \in 1..Offsets /\ k.marked = k.next /\ 1..(k.next - 1) \subseteq k.handled
    <3> HIDE DEF k
    <3> QED BY <2>13, <2>14, <2>15
  <2>2. \E m \in {MarksAfterSuccess(k), MarksNothing(k), ResumesAtMark(k)} : claim' = [claim EXCEPT ![r] = m]
    BY <1>1 DEF HandlesMessage
  <2>3. ASSUME NEW m \in {MarksAfterSuccess(k), MarksNothing(k), ResumesAtMark(k)}
        PROVE  m \in Claims /\ m.next = m.marked /\ 1..(m.marked - 1) \subseteq m.handled
    <3> HIDE DEF k
    <3>1. CASE m = MarksAfterSuccess(k)
      <4>1. m = [next |-> k.next + 1, marked |-> k.next + 1, handled |-> k.handled \cup {k.next}]
        BY <3>1 DEF MarksAfterSuccess
      <4>2. k.next + 1 \in 1..(Offsets + 1) /\ k.handled \cup {k.next} \in SUBSET (1..Offsets) BY <2>1
      <4>3. 1..k.next \subseteq k.handled \cup {k.next} BY <2>1
      <4>4. m.marked - 1 = k.next BY <2>1, <4>1
      <4> QED BY <4>1, <4>2, <4>3, <4>4
    <3>2. CASE m = MarksNothing(k)
      <4>1. /\ m = [k EXCEPT !.next = k.marked, !.handled = k.handled \cup {k.next}]
            /\ k.handled \cup {k.next} \in SUBSET (1..Offsets)
        BY <2>1, <3>2 DEF MarksNothing
      <4>2. /\ m \in Claims /\ m.next = k.marked /\ m.marked = k.marked
            /\ m.handled = k.handled \cup {k.next}
        BY <2>1, <4>1
      <4> QED BY <2>1, <4>2
    <3>3. CASE m = ResumesAtMark(k)
      <4>1. m \in Claims /\ m.next = k.marked /\ m.marked = k.marked /\ m.handled = k.handled
        BY <2>1, <3>3 DEF ResumesAtMark
      <4> QED BY <2>1, <4>1
    <3> QED BY <3>1, <3>2, <3>3
  <2>4. PICK m : /\ m \in Claims /\ m.next = m.marked /\ 1..(m.marked - 1) \subseteq m.handled
                 /\ claim' = [claim EXCEPT ![r] = m]
    BY <2>2, <2>3
  <2>5. claim \in [Registrations -> Claims] BY DEF KafkaTypeOK
  <2>6. errorCh' \in {errorCh, Reported} BY <1>1 DEF HandlesMessage
  <2> HIDE DEF Claims, k
  <2>7. /\ claim' \in [Registrations -> Claims] /\ claim'[r] = m
        /\ \A q \in Registrations \ {r} : claim'[q] = claim[q]
    BY <2>4, <2>5
  <2>8. \A q \in Registrations : ClaimInv(q)' BY <2>4, <2>7 DEF ClaimInv
  <2>9. errorCh' \in [queued : 0..ErrorSlots, closed : BOOLEAN] BY <2>6, ReportedIsTyped
       DEF KafkaTypeOK
  <2>10. KafkaTypeOK' BY <1>1, <2>7, <2>9 DEF HandlesMessage, KafkaTypeOK, Claims
  <2>11. FinishInv' /\ KeysInv'
    BY <1>1 DEF HandlesMessage, FinishInv, KeysInv, Pending, RegistrationsOver, RunnersOver,
       OperationsOver
  <2>12. \A q \in Registrations : RegistrationInv(q)' BY <1>1 DEF HandlesMessage, RegistrationInv
  <2> QED BY <2>8, <2>10, <2>11, <2>12
<1>2. CASE ConsumerFails(r) \/ ConsumerEnds(r)
  <2>1. /\ runner[r] = "runs"
        /\ \E s \in {"failed", "ended"} : runner' = [runner EXCEPT ![r] = s]
        /\ UNCHANGED <<flagVars, registerVars, group, claim, producer, append, endVars, errorCh>>
    BY <1>2 DEF ConsumerFails, ConsumerEnds
  <2>8. runner \in [Registrations -> {"none", "runs", "failed", "ended"}] BY DEF KafkaTypeOK
  <2>7. runner' \in [Registrations -> {"none", "runs", "failed", "ended"}] BY <2>1, <2>8
  <2>2. runner'[r] \in {"failed", "ended"} /\ \A q \in Registrations \ {r} : runner'[q] = runner[q]
    BY <2>1, <2>8
  <2>3. KafkaTypeOK'
    <3>0. PhasesType /\ RecordsType BY RecordsTyped
    <3>4. /\ registration' \in [Registrations -> {"idle", "dialing", "rejecting", "accepted", "over"}]
          /\ registrant' \in [Registrations -> {"idle", "waiting", "ok", "refused", "withdrawn"}]
          /\ abandoned' \subseteq Registrations /\ consumers' \subseteq Registrations
          /\ group' \in [Registrations -> {"none", "open", "closed", "closed twice"}]
      BY ONLY <3>0, <2>1 DEF PhasesType, registerVars
    <3>1. PhasesType' BY <3>0, <3>4, <2>1, <2>7, PhasesChange
    <3>2. RecordsType' BY <3>0, <2>1, RecordsStay
    <3> QED BY <3>1, <3>2, TypingSplits
  <2>4. FinishInv' /\ KeysInv'
    BY <2>1, <2>2 DEF FinishInv, KeysInv, Pending, RegistrationsOver, RunnersOver, OperationsOver
  <2>5. \A q \in Registrations : RegistrationInv(q)' BY <2>1, <2>2 DEF RegistrationInv
  <2>6. \A q \in Registrations : ClaimInv(q)' BY <2>1 DEF ClaimInv
  <2> QED BY <2>3, <2>4, <2>5, <2>6
<1> QED BY <1>1, <1>2

(* A step that registers and consumes nothing, and ends no more than it    *)
(* may: it begins a close or leaves the close where it is.                 *)
LEMMA QueueKeeps ==
  ASSUME KafkaInv, UNCHANGED <<running, registerVars, group, consumeVars, producer>>,
         \/ closing' = closing /\ finisher' = finisher
         \/ closing' = TRUE /\ finisher' = BeginsClose,
         producer = "closed" => \A a \in Appends : append'[a] = "sending" => append[a] = "sending",
         append' \in [Appends -> {"idle", "sending", "over"}],
         runCtx' \in {"none", "live", "ended"},
         queueCloser' \in [QueueClosers -> {"idle", "waits", "over"}],
         start' \in {"idle", "selects", "waits", "over"},
         runnable' \in {"idle", "selects", "stops", "over"},
         errorCh' \in [queued : 0..ErrorSlots, closed : BOOLEAN]
  PROVE  KafkaInv'
<1> USE DEF KafkaInv, registerVars, consumeVars
<1>1. /\ closing => closing' /\ finisher' = finisher
      /\ ~closing => finisher = "none" /\ finisher' \in {"none", "groups"}
      /\ closing' <=> finisher' # "none"
      /\ closing' \in BOOLEAN
      /\ finisher' \in {"none", "groups", "waits", "ends", "done"}
  <2>1. closing \in BOOLEAN /\ finisher \in {"none", "groups", "waits", "ends", "done"} BY
       DEF KafkaTypeOK
  <2>2. closing <=> finisher # "none" BY DEF FinishInv
  <2>3. CASE closing' = closing /\ finisher' = finisher BY <2>1, <2>2, <2>3
  <2>4. CASE closing' = TRUE /\ finisher' = BeginsClose BY <2>1, <2>2, <2>4 DEF BeginsClose
  <2> QED BY <2>3, <2>4
<1>2. KafkaTypeOK' BY <1>1 DEF KafkaTypeOK
<1>3. FinishInv'
  <2>1. finisher' \in {"ends", "done"} => RegistrationsOver' /\ RunnersOver'
    BY <1>1 DEF FinishInv, RegistrationsOver, RunnersOver
  <2>2. producer' = "closed" => closing' /\ OperationsOver'
    BY <1>1 DEF FinishInv, OperationsOver
  <2> QED BY <1>1, <2>1, <2>2 DEF FinishInv
<1>4. KeysInv' BY DEF KeysInv, Pending
<1>5. \A r \in Registrations : RegistrationInv(r)' BY <1>1 DEF RegistrationInv
<1>6. \A r \in Registrations : ClaimInv(r)' BY DEF ClaimInv
<1> QED BY <1>2, <1>3, <1>4, <1>5, <1>6

LEMMA KafkaStepPreserves == KafkaInv /\ [KafkaNext]_kafkaVars => KafkaInv'
<1> SUFFICES ASSUME KafkaInv, [KafkaNext]_kafkaVars PROVE KafkaInv'
  OBVIOUS
<1> USE KafkaAssumption
<1>0. KafkaTypeOK /\ Reported \in [queued : 0..ErrorSlots, closed : BOOLEAN]
      /\ errorCh \in [queued : 0..ErrorSlots, closed : BOOLEAN]
      /\ append \in [Appends -> {"idle", "sending", "over"}]
      /\ queueCloser \in [QueueClosers -> {"idle", "waits", "over"}]
      /\ runCtx \in {"none", "live", "ended"} /\ start \in {"idle", "selects", "waits", "over"}
      /\ runnable \in {"idle", "selects", "stops", "over"}
  BY ReportedIsTyped DEF KafkaInv, KafkaTypeOK
<1>1. ASSUME NEW a \in Appends, AppendCall(a) PROVE KafkaInv'
  <2>1. producer = "closed" => \A b \in Appends : append'[b] = "sending" => append[b] = "sending"
    BY <1>0, <1>1 DEF AppendCall
  <2>2. append' \in [Appends -> {"idle", "sending", "over"}] BY <1>0, <1>1 DEF AppendCall
  <2> QED BY <1>0, <1>1, <2>1, <2>2, QueueKeeps DEF AppendCall, flagVars, endVars
<1>2. ASSUME NEW a \in Appends, AppendEnds(a) PROVE KafkaInv'
  <2>1. \A b \in Appends : append'[b] = "sending" => append[b] = "sending"
    BY <1>0, <1>2 DEF AppendEnds
  <2>2. append' \in [Appends -> {"idle", "sending", "over"}] BY <1>0, <1>2 DEF AppendEnds
  <2>3. errorCh' \in [queued : 0..ErrorSlots, closed : BOOLEAN] BY <1>0, <1>2 DEF AppendEnds
  <2> QED BY <1>0, <1>2, <2>1, <2>2, <2>3, QueueKeeps DEF AppendEnds, flagVars, endVars
<1>3. CASE RunnableStarts
  <2>1. CASE closing \/ running \/ Pending # {}
    BY <1>0, <1>3, <2>1, QueueKeeps DEF RunnableStarts, consumeVars
  <2>2. CASE ~(closing \/ running \/ Pending # {})
    <3>1. /\ start' = "selects" /\ running' = TRUE /\ runCtx' = "live" /\ runnable' = "selects"
          /\ runner' = [r \in Registrations |-> IF r \in consumers THEN "runs" ELSE "none"]
          /\ UNCHANGED <<closing, registerVars, group, claim, producer, append, finisher,
                         queueCloser, errorCh>>
      BY <1>3, <2>2 DEF RunnableStarts
    <3>2. KafkaTypeOK' BY <3>1 DEF KafkaInv, KafkaTypeOK, registerVars
    <3>3. finisher = "none" /\ producer # "closed" BY <2>2 DEF KafkaInv, FinishInv
    <3>4. FinishInv' BY <3>1, <3>3 DEF KafkaInv, FinishInv
    <3>5. KeysInv' BY <3>1 DEF KafkaInv, KeysInv, Pending, registerVars
    <3>6. ASSUME NEW r \in Registrations PROVE RegistrationInv(r)' /\ ClaimInv(r)'
      <4>1. RegistrationInv(r) /\ ClaimInv(r) /\ registration[r] # "dialing"
        BY <2>2 DEF KafkaInv, Pending
      <4>2. runner'[r] = IF r \in consumers THEN "runs" ELSE "none" BY <3>1
      <4> QED BY <3>1, <3>3, <4>1, <4>2 DEF RegistrationInv, ClaimInv, registerVars
    <3> QED BY <3>2, <3>4, <3>5, <3>6 DEF KafkaInv
  <2> QED BY <2>1, <2>2
<1>4. CASE StartStops
  <2>1. errorCh' \in [queued : 0..ErrorSlots, closed : BOOLEAN] BY <1>0, <1>4 DEF StartStops
  <2> QED BY <1>0, <1>4, <2>1, QueueKeeps DEF StartStops
<1>5. CASE StartReturns BY <1>0, <1>5, QueueKeeps DEF StartReturns, flagVars
<1>6. CASE CallerEndsRun BY <1>0, <1>6, QueueKeeps DEF CallerEndsRun, endVars
<1>7. CASE RunnableHears
  <2>1. errorCh' \in [queued : 0..ErrorSlots, closed : BOOLEAN]
    <3>1. errorCh.queued - 1 \in 0..ErrorSlots BY <1>0, <1>7 DEF RunnableHears
    <3>2. errorCh' = [errorCh EXCEPT !.queued = errorCh.queued - 1] BY <1>7 DEF RunnableHears
    <3> QED BY <1>0, <3>1, <3>2
  <2> QED BY <1>0, <1>7, <2>1, QueueKeeps DEF RunnableHears
<1>8. CASE RunnableReturns
  <2>1. errorCh' \in [queued : 0..ErrorSlots, closed : BOOLEAN] BY <1>0, <1>8 DEF RunnableReturns
  <2> QED BY <1>0, <1>8, <2>1, QueueKeeps DEF RunnableReturns, flagVars
<1>9. ASSUME NEW c \in QueueClosers, KafkaCloseCall(c) PROVE KafkaInv'
  <2>1. queueCloser' \in [QueueClosers -> {"idle", "waits", "over"}] BY <1>0, <1>9
       DEF KafkaCloseCall
  <2>2. runCtx' \in {"none", "live", "ended"} BY <1>0, <1>9 DEF KafkaCloseCall
  <2> QED BY <1>0, <1>9, <2>1, <2>2, QueueKeeps DEF KafkaCloseCall
<1>10. ASSUME NEW c \in QueueClosers, CloseReturns(c) PROVE KafkaInv'
  <2>1. queueCloser' \in [QueueClosers -> {"idle", "waits", "over"}] BY <1>0, <1>10
       DEF CloseReturns
  <2> QED BY <1>0, <1>10, <2>1, QueueKeeps DEF CloseReturns, flagVars
<1>11. CASE ClosesGroups
  <2>1. /\ finisher = "groups" /\ finisher' = "waits"
        /\ group' = [r \in Registrations |-> IF r \in consumers THEN Closed(group[r]) ELSE group[r]]
        /\ UNCHANGED <<flagVars, registerVars, consumeVars, producer, append, queueCloser, start,
                       runnable, errorCh>>
    BY <1>11 DEF ClosesGroups
  <2>2. \A r \in Registrations :
           group'[r] = IF registration[r] = "accepted" THEN "closed" ELSE group[r]
    BY <2>1 DEF KafkaInv, RegistrationInv, Closed
  <2>3. KafkaTypeOK'
    <3>1. group' \in [Registrations -> {"none", "open", "closed", "closed twice"}]
      BY <2>1, <2>2 DEF KafkaInv, KafkaTypeOK
    <3> QED BY <2>1, <3>1 DEF KafkaInv, KafkaTypeOK, flagVars, registerVars, consumeVars
  <2>4. FinishInv' /\ KeysInv'
    BY <2>1 DEF KafkaInv, FinishInv, KeysInv, Pending, OperationsOver, flagVars, registerVars,
       consumeVars
  <2>5. \A r \in Registrations : RegistrationInv(r)'
    BY <2>1, <2>2 DEF KafkaInv, RegistrationInv, flagVars, registerVars, consumeVars
  <2>6. \A r \in Registrations : ClaimInv(r)' BY <2>1 DEF KafkaInv, ClaimInv, consumeVars
  <2> QED BY <2>3, <2>4, <2>5, <2>6 DEF KafkaInv
<1>12. CASE ClosesProducer
  <2>1. KafkaTypeOK' BY <1>12 DEF ClosesProducer, KafkaInv, KafkaTypeOK, flagVars, registerVars,
       consumeVars
  <2>2. FinishInv'
    BY <1>12 DEF ClosesProducer, KafkaInv, FinishInv, RegistrationsOver, RunnersOver,
       OperationsOver,
                 flagVars, registerVars, consumeVars
  <2>3. KeysInv' BY <1>12 DEF ClosesProducer, KafkaInv, KeysInv, Pending, registerVars
  <2>4. \A r \in Registrations : RegistrationInv(r)' /\ ClaimInv(r)'
    BY <1>12 DEF ClosesProducer, KafkaInv, RegistrationInv, ClaimInv, flagVars, registerVars,
       consumeVars
  <2> QED BY <2>1, <2>2, <2>3, <2>4 DEF KafkaInv
<1>13. CASE FinishesClose
  <2>1. /\ finisher = "ends" /\ finisher' = "done" /\ consumers' = {}
        /\ UNCHANGED <<flagVars, registration, registrant, abandoned, group, consumeVars, producer,
                       append, queueCloser, start, runnable>>
    BY <1>13 DEF FinishesClose
  <2>2. errorCh' \in [queued : 0..ErrorSlots, closed : BOOLEAN]
    <3>1. PICK e \in {errorCh, Reported} : errorCh' = [e EXCEPT !.closed = TRUE]
      BY <1>13 DEF FinishesClose
    <3> QED BY <1>0, <3>1
  <2>3. KafkaTypeOK' BY <2>1, <2>2 DEF KafkaInv, KafkaTypeOK, flagVars, consumeVars
  <2>4. FinishInv'
    BY <2>1 DEF KafkaInv, FinishInv, RegistrationsOver, RunnersOver, OperationsOver, flagVars,
       consumeVars
  <2>5. KeysInv' BY <2>1 DEF KafkaInv, KeysInv, Pending
  <2>6. \A r \in Registrations : RegistrationInv(r)' /\ ClaimInv(r)'
    BY <2>1 DEF KafkaInv, RegistrationInv, ClaimInv, flagVars, consumeVars
  <2> QED BY <2>3, <2>4, <2>5, <2>6 DEF KafkaInv
<1>14. CASE LegacyReports
  BY <1>0, <1>14, QueueKeeps DEF LegacyReports, flagVars, endVars
<1>15. CASE UNCHANGED kafkaVars
  <2>1. KafkaTypeOK'
    <3>1. PhasesType /\ RecordsType BY RecordsTyped DEF KafkaInv
    <3>3. PhasesType' BY <1>15, <3>1, PhasesStay DEF flagVars, registerVars, endVars, kafkaVars
    <3>2. RecordsType' BY <1>15, <3>1, RecordsStay DEF kafkaVars
    <3> QED BY <3>2, <3>3, TypingSplits
  <2>2. FinishInv' /\ KeysInv'
    BY <1>15 DEF KafkaInv, kafkaVars, FinishInv, KeysInv, Pending, RegistrationsOver,
       RunnersOver, OperationsOver
  <2>3. \A r \in Registrations : RegistrationInv(r)' /\ ClaimInv(r)'
    BY <1>15 DEF KafkaInv, kafkaVars, RegistrationInv, ClaimInv
  <2> QED BY <2>1, <2>2, <2>3 DEF KafkaInv
<1> QED
  BY <1>1, <1>2, <1>3, <1>4, <1>5, <1>6, <1>7, <1>8, <1>9, <1>10, <1>11, <1>12, <1>13, <1>14,
     <1>15,
     RegistrationPreserves, ConsumerPreserves DEF KafkaNext, FinishStep

LEMMA KafkaInvIsSafe == KafkaInv => KafkaTypeOK /\ KafkaIsSafe
<1> SUFFICES ASSUME KafkaInv PROVE KafkaTypeOK /\ KafkaIsSafe
  OBVIOUS
<1>1. CloseIsComplete
  BY DEF KafkaInv, FinishInv, RegistrationInv, KafkaTypeOK, CloseIsComplete, RegistrationsOver,
         RunnersOver, OperationsOver
<1>2. OutcomeIsTrue BY DEF KafkaInv, RegistrationInv, OutcomeIsTrue
<1>3. ConsumersAreUnique
  <2>1. consumers \subseteq Registrations BY DEF KafkaInv, KafkaTypeOK
  <2>2. \A r, q \in consumers : KeyOf(r) = KeyOf(q) => r = q BY DEF KafkaInv, KeysInv
  <2>3. running => \A r \in consumers : runner[r] # "none" BY <2>1 DEF KafkaInv, RegistrationInv
  <2> QED BY <2>2, <2>3 DEF ConsumersAreUnique
<1>4. MarksFollowHandling BY DEF KafkaInv, ClaimInv, MarksFollowHandling
<1> QED BY <1>1, <1>2, <1>3, <1>4 DEF KafkaInv, KafkaIsSafe

(* A closed queue is complete, a caller was told the truth, a topic has    *)
(* one consumer, and a mark follows the handling, for any registrations.   *)
THEOREM KafkaSafe == KafkaSpec => [](KafkaTypeOK /\ KafkaIsSafe)
<1> QED BY KafkaInitially, KafkaStepPreserves, KafkaInvIsSafe, PTL DEF KafkaSpec

(* reportError drops what a closed channel would be sent.                  *)
LEMMA KafkaStepRespectsChannel ==
  KafkaInv /\ [KafkaNext]_kafkaVars
     => (errorCh.closed => errorCh'.queued <= errorCh.queued) \/ UNCHANGED kafkaVars
<1> SUFFICES ASSUME KafkaInv, KafkaNext, errorCh.closed PROVE errorCh'.queued <= errorCh.queued
  OBVIOUS
<1>1. errorCh \in [queued : 0..ErrorSlots, closed : BOOLEAN] /\ Reported = errorCh
  BY ReportedIsTyped DEF KafkaInv, KafkaTypeOK
<1>2. errorCh.queued \in Nat BY <1>1, KafkaAssumption
<1>3. \/ errorCh' = errorCh
      \/ errorCh' = [errorCh EXCEPT !.queued = errorCh.queued - 1]
      \/ errorCh' = [errorCh EXCEPT !.queued = 0]
      \/ errorCh' = [errorCh EXCEPT !.closed = TRUE]
  <2>1. ASSUME NEW r \in Registrations,
               RegisterCall(r) \/ RegistrationStep(r) \/ Withdraws(r) \/ ConsumerFails(r) \/ ConsumerEnds(r)
        PROVE  errorCh' = errorCh
    BY <2>1 DEF RegisterCall, RegistrationStep, DialFails, DialEnds, Rejects, Hears, Withdraws,
                ConsumerFails, ConsumerEnds
  <2>2. ASSUME NEW r \in Registrations, HandlesMessage(r) PROVE errorCh' = errorCh
    BY <1>1, <2>2 DEF HandlesMessage
  <2>3. ASSUME NEW a \in Appends, AppendCall(a) \/ AppendEnds(a) PROVE errorCh' = errorCh
    BY <1>1, <2>3 DEF AppendCall, AppendEnds
  <2>4. CASE RunnableStarts \/ StartStops \/ StartReturns \/ CallerEndsRun \/ LegacyReports
    BY <1>1, <2>4 DEF RunnableStarts, StartStops, StartReturns, CallerEndsRun, LegacyReports
  <2>5. CASE RunnableHears BY <2>5 DEF RunnableHears
  <2>6. CASE RunnableReturns BY <2>6 DEF RunnableReturns
  <2>7. ASSUME NEW c \in QueueClosers, KafkaCloseCall(c) \/ CloseReturns(c) PROVE errorCh' = errorCh
    BY <2>7 DEF KafkaCloseCall, CloseReturns
  <2>8. CASE FinishStep BY <1>1, <2>8 DEF FinishStep, ClosesGroups, ClosesProducer, FinishesClose
  <2> QED BY <2>1, <2>2, <2>3, <2>4, <2>5, <2>6, <2>7, <2>8 DEF KafkaNext
<1> QED BY <1>1, <1>2, <1>3

(* Nothing is sent on the error channel once it is closed, however long it *)
(* is and whoever reports late.                                            *)
THEOREM KafkaChannelSafe == KafkaSpec => ErrorChannelIsRespected
<1> QED BY KafkaInitially, KafkaStepPreserves, KafkaStepRespectsChannel, PTL
        DEF KafkaSpec, ErrorChannelIsRespected
=============================================================================
