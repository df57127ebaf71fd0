--------------------------- MODULE RedisResource ---------------------------
(***************************************************************************)
(* One runtime Redis resource (mss-boot/runtime/redisresource): the single *)
(* client Start constructs and verifies, the callbacks Use lends it to     *)
(* under a lease, the inspections of Ready and Health, and the shutdown    *)
(* that any number of Close calls share.                                   *)
(*                                                                         *)
(* `life` is what lifecycleState.mu protects; every step of a caller is    *)
(* one critical section, one wait or one call of the provider.  The        *)
(* counters active and inFlight are the numbers of callers and commands    *)
(* between their increment and their decrement.  A context may end at any  *)
(* wait of an Impatient caller.  Values, keys and key capabilities are     *)
(* left out: a refused key never reaches the state below.                  *)
(***************************************************************************)
EXTENDS Naturals, FiniteSets

CONSTANTS Starters,       \* calls of Start
          Users,          \* calls of Use
          Probes,         \* calls of Ready and of Health
          Closers,        \* calls of Close
          Commands,       \* commands submitted through a lease
          UserOf,         \* the Use call whose lease a command goes through
          Inside,         \* the callback a Close is called from, or NoUser
          Impatient,      \* callers whose context may end while they wait
          NoUser

Borrowers == Users \cup Probes
Callers == Starters \cup Borrowers \cup Closers

ASSUME RedisAssumption ==
    /\ IsFiniteSet(Borrowers) /\ IsFiniteSet(Commands)
    /\ UserOf \in [Commands -> Users]
    /\ NoUser \notin Users
    /\ Inside \in [Closers -> Users \cup {NoUser}]
    /\ Impatient \subseteq Callers
    /\ Starters \cap (Borrowers \cup Closers) = {}
    /\ Closers \cap Borrowers = {}
    /\ Users \cap Probes = {}

VARIABLES life,           \* lifecycleState
          provider,       \* the client: "none", "open", "closing", "closed"
          closeCalls,     \* how often Close of the client was called
          stage,          \* where each call stands
          outcome,        \* what each call returned, or will return
          lease,          \* the lease of each Use: "none", "active", "expired"
          command         \* "idle", "running", "done" or "refused"

redisVars == <<life, provider, closeCalls, stage, outcome, lease, command>>

RedisTypeOK ==
    /\ life \in [attempted : BOOLEAN, startDone : BOOLEAN, started : BOOLEAN,
                 closing : BOOLEAN, closed : BOOLEAN, client : BOOLEAN,
                 closeMade : BOOLEAN, closeErr : {"ok", "failed"}]
    /\ provider \in {"none", "open", "closing", "closed"}
    /\ closeCalls \in Nat
    /\ stage \in [Callers -> {"idle", "construct", "publish", "ping", "confirm",
                              "abandon", "borrowed", "draining", "startWait",
                              "drain", "join", "done"}]
    /\ outcome \in [Callers -> {"none", "ok", "failed", "closing", "rejected",
                                "notStarted", "unavailable", "detached",
                                "gaveUp"}]
    /\ lease \in [Users -> {"none", "active", "expired"}]
    /\ command \in [Commands -> {"idle", "running", "done", "refused"}]

Active == {b \in Borrowers : stage[b] \in {"borrowed", "draining"}}
InFlight(u) == {c \in Commands : UserOf[c] = u /\ command[c] = "running"}
Returned(p) == stage[p] = "done"

(* The stage and the outcome of one call change.                           *)
Goto(p, st) == /\ stage' = [stage EXCEPT ![p] = st]
               /\ UNCHANGED outcome
Return(p, res) == /\ stage' = [stage EXCEPT ![p] = "done"]
                  /\ outcome' = [outcome EXCEPT ![p] = res]
Continue(p, st, res) == /\ stage' = [stage EXCEPT ![p] = st]
                        /\ outcome' = [outcome EXCEPT ![p] = res]

RedisInit ==
    /\ life = [attempted |-> FALSE, startDone |-> FALSE, started |-> FALSE,
               closing |-> FALSE, closed |-> FALSE, client |-> FALSE,
               closeMade |-> FALSE, closeErr |-> "ok"]
    /\ provider = "none"
    /\ closeCalls = 0
    /\ stage = [p \in Callers |-> "idle"]
    /\ outcome = [p \in Callers |-> "none"]
    /\ lease = [u \in Users |-> "none"]
    /\ command = [c \in Commands |-> "idle"]

-----------------------------------------------------------------------------
(* ensureCloseGenerationLocked on the lifecycle `l`: the first caller that *)
(* finds a client launches the goroutine that closes it, every later one   *)
(* joins; a resource without client is closed at once.                     *)
OnlyIfClosed(l) == l.closed
CloseUnderWay(l) == l.closed \/ l.closeMade
EnsureClose(l) ==
    IF CloseUnderWay(l)
    THEN /\ life' = l
         /\ UNCHANGED <<provider, closeCalls>>
    ELSE IF ~l.client
    THEN /\ life' = [l EXCEPT !.closed = TRUE, !.started = FALSE]
         /\ UNCHANGED <<provider, closeCalls>>
    ELSE /\ life' = [l EXCEPT !.closeMade = TRUE]
         /\ provider' = "closing"
         /\ closeCalls' = closeCalls + 1

(* The goroutine of ensureCloseGenerationLocked: the client's Close has    *)
(* returned.                                                               *)
ProviderClose(err) ==
    /\ provider = "closing"
    /\ provider' = "closed"
    /\ life' = [life EXCEPT !.closeErr = err, !.closed = TRUE, !.started = FALSE]
    /\ UNCHANGED <<closeCalls, stage, outcome, lease, command>>

-----------------------------------------------------------------------------
(* Start                                                                   *)

StartCall(p) ==
    /\ stage[p] = "idle"
    /\ \/ /\ life.closing
          /\ Return(p, "closing")
          /\ UNCHANGED life
       \/ /\ ~life.closing /\ life.attempted
          /\ Return(p, "rejected")
          /\ UNCHANGED life
       \/ /\ ~life.closing /\ ~life.attempted
          /\ life' = [life EXCEPT !.attempted = TRUE]
          /\ Goto(p, "construct")
    /\ UNCHANGED <<provider, closeCalls, lease, command>>

(* r.factory.New, and finishFailedStart without a client.                  *)
Construct(p) ==
    /\ stage[p] = "construct"
    /\ \/ /\ provider' = "open"
          /\ Goto(p, "publish")
          /\ UNCHANGED life
       \/ /\ life' = [life EXCEPT !.closing = TRUE, !.closed = TRUE,
                                  !.startDone = TRUE]
          /\ Return(p, "failed")
          /\ UNCHANGED provider
    /\ UNCHANGED <<closeCalls, lease, command>>

(* The client becomes visible to Close; `closing` is read with it.         *)
Publish(p) ==
    /\ stage[p] = "publish"
    /\ life' = [life EXCEPT !.client = TRUE]
    /\ IF life.closing THEN Continue(p, "abandon", "closing") ELSE Goto(p, "ping")
    /\ UNCHANGED <<provider, closeCalls, lease, command>>

StartPing(p) ==
    /\ stage[p] = "ping"
    /\ \/ Goto(p, "confirm")
       \/ Continue(p, "abandon", "unavailable")
    /\ UNCHANGED <<life, provider, closeCalls, lease, command>>

Confirm(p) ==
    /\ stage[p] = "confirm"
    /\ IF life.closing
       THEN Continue(p, "abandon", "closing") /\ UNCHANGED life
       ELSE /\ life' = [life EXCEPT !.started = TRUE, !.startDone = TRUE]
            /\ Return(p, "ok")
    /\ UNCHANGED <<provider, closeCalls, lease, command>>

(* finishFailedStart with the client, up to its wait.                      *)
Abandon(p) ==
    /\ stage[p] = "abandon"
    /\ EnsureClose([life EXCEPT !.closing = TRUE, !.started = FALSE,
                                !.startDone = TRUE])
    /\ Goto(p, IF life.closed THEN "done" ELSE "join")
    /\ UNCHANGED <<lease, command>>

StartJoin(p) ==
    /\ p \in Starters /\ stage[p] = "join"
    /\ life.closed \/ p \in Impatient
    /\ Goto(p, "done")
    /\ UNCHANGED <<life, provider, closeCalls, lease, command>>

-----------------------------------------------------------------------------
(* Use, Ready and Health                                                   *)

(* ctx.Err at entry, then beginActive.                                     *)
Borrow(b) ==
    /\ stage[b] = "idle"
    /\ \/ b \in Impatient /\ Return(b, "unavailable") /\ UNCHANGED lease
       \/ /\ life.closing \/ life.closed
          /\ Return(b, "closing")
          /\ UNCHANGED lease
       \/ /\ ~life.closing /\ ~life.closed /\ ~life.started
          /\ Return(b, "notStarted")
          /\ UNCHANGED lease
       \/ /\ ~life.closing /\ ~life.closed /\ life.started
          /\ Goto(b, "borrowed")
          /\ lease' = [u \in Users |-> IF u = b THEN "active" ELSE lease[u]]
    /\ UNCHANGED <<life, provider, closeCalls, command>>

(* The ping of Ready or Health has returned; release runs.                 *)
ProbeReturn(b) ==
    /\ b \in Probes /\ stage[b] = "borrowed"
    /\ \E res \in {"ok", "unavailable"} : Return(b, res)
    /\ UNCHANGED <<life, provider, closeCalls, lease, command>>

(* A callback whose own Close call is under way cannot return.             *)
CallbackReturn(u) ==
    /\ stage[u] = "borrowed"
    /\ \A c \in Closers : Inside[c] = u => stage[c] \in {"idle", "done"}
    /\ lease' = [lease EXCEPT ![u] = "expired"]
    /\ IF InFlight(u) # {}
       THEN Continue(u, "draining", "detached")
       ELSE \E res \in {"ok", "rejected"} : Continue(u, "draining", res)
    /\ UNCHANGED <<life, provider, closeCalls, command>>

(* The wait of expireCancelAndWait ends and release runs.                  *)
NotAwaited(u) == TRUE
Drained(u) == InFlight(u) = {}
Release(u) ==
    /\ stage[u] = "draining"
    /\ Drained(u)
    /\ Goto(u, "done")
    /\ UNCHANGED <<life, provider, closeCalls, lease, command>>

(* beginCommand of Get, Set, Delete, Exists or RedisBridgeRun: called by   *)
(* the callback, or by anything it handed the lease to.                    *)
BeginCommand(c) ==
    /\ command[c] = "idle"
    /\ lease[UserOf[c]] # "none"
    /\ command' = [command EXCEPT ![c] =
                     IF lease[UserOf[c]] = "active" THEN "running" ELSE "refused"]
    /\ UNCHANGED <<life, provider, closeCalls, stage, outcome, lease>>

(* The provider has answered, for each key of a cluster in turn.           *)
EndCommand(c) ==
    /\ command[c] = "running"
    /\ command' = [command EXCEPT ![c] = "done"]
    /\ UNCHANGED <<life, provider, closeCalls, stage, outcome, lease>>

-----------------------------------------------------------------------------
(* Close                                                                   *)

CloseCall(c) ==
    /\ stage[c] = "idle"
    /\ Inside[c] # NoUser => stage[Inside[c]] = "borrowed"
    /\ \/ /\ life.closed
          /\ life' = [life EXCEPT !.closing = TRUE]
          /\ Return(c, life.closeErr)
       \/ /\ ~life.closed /\ ~life.attempted
          /\ life' = [life EXCEPT !.closing = TRUE, !.closed = TRUE]
          /\ Return(c, "ok")
       \/ /\ ~life.closed /\ life.attempted
          /\ life' = [life EXCEPT !.closing = TRUE]
          /\ Goto(c, "startWait")
    /\ UNCHANGED <<provider, closeCalls, lease, command>>

CloseStartDone(c) ==
    /\ stage[c] = "startWait"
    /\ life.startDone
    /\ Goto(c, "drain")
    /\ UNCHANGED <<life, provider, closeCalls, lease, command>>

(* One turn of the loop of Close; while callers are active it waits.       *)
NothingAsked == TRUE
NothingBorrowed == Active = {}
CloseDrain(c) ==
    /\ stage[c] = "drain"
    /\ \/ /\ life.closed
          /\ Return(c, life.closeErr)
          /\ UNCHANGED <<life, provider, closeCalls>>
       \/ /\ ~life.closed /\ NothingBorrowed
          /\ EnsureClose(life)
          /\ IF life.closeMade \/ life.client
             THEN Goto(c, "join") ELSE Return(c, life.closeErr)
    /\ UNCHANGED <<lease, command>>

CloseJoin(c) ==
    /\ c \in Closers /\ stage[c] = "join"
    /\ life.closed
    /\ Return(c, life.closeErr)
    /\ UNCHANGED <<life, provider, closeCalls, lease, command>>

CloseGivesUp(c) ==
    /\ c \in Closers \cap Impatient
    /\ stage[c] \in {"startWait", "drain", "join"}
    /\ Return(c, "gaveUp")
    /\ UNCHANGED <<life, provider, closeCalls, lease, command>>

-----------------------------------------------------------------------------
StartStep(p) == Construct(p) \/ Publish(p) \/ StartPing(p) \/ Confirm(p)
                  \/ Abandon(p) \/ StartJoin(p)
CloseStep(c) == CloseStartDone(c) \/ CloseDrain(c) \/ CloseJoin(c)

RedisNext ==
    \/ \E err \in {"ok", "failed"} : ProviderClose(err)
    \/ \E p \in Starters : StartCall(p) \/ StartStep(p)
    \/ \E b \in Borrowers : Borrow(b)
    \/ \E b \in Probes : ProbeReturn(b)
    \/ \E u \in Users : CallbackReturn(u) \/ Release(u)
    \/ \E c \in Commands : BeginCommand(c) \/ EndCommand(c)
    \/ \E c \in Closers : CloseCall(c) \/ CloseStep(c) \/ CloseGivesUp(c)

(* What the scheduler, the provider and the callbacks owe: goroutines run, *)
(* client calls and callbacks return, and the context of a Close made from *)
(* within a callback ends.                                                 *)
RedisFairness ==
    /\ WF_redisVars(\E err \in {"ok", "failed"} : ProviderClose(err))
    /\ \A p \in Starters : WF_redisVars(StartStep(p))
    /\ \A b \in Probes : WF_redisVars(ProbeReturn(b))
    /\ \A u \in Users : WF_redisVars(CallbackReturn(u) \/ Release(u))
    /\ \A c \in Commands : WF_redisVars(EndCommand(c))
    /\ \A c \in Closers : WF_redisVars(CloseStep(c))
    /\ \A c \in Closers : Inside[c] # NoUser => WF_redisVars(CloseGivesUp(c))

RedisSpec == RedisInit /\ [][RedisNext]_redisVars /\ RedisFairness

-----------------------------------------------------------------------------
(* However many Start and Close calls reach the end of the client, they    *)
(* share one call of its Close (lifecycle.go, ensureCloseGenerationLocked).*)
ClientClosedOnce == closeCalls <= 1

(* From the moment the client's Close is called nobody uses it: no command *)
(* is in flight, no inspection pings it, no lease is valid; and a Use that *)
(* has returned left no command behind, the detached ones included.        *)
ClosedClientIsUnused ==
    /\ closeCalls > 0 => /\ \A c \in Commands : command[c] # "running"
                         /\ \A b \in Probes : stage[b] # "borrowed"
                         /\ \A u \in Users : lease[u] # "active"
    /\ \A u \in Users : Returned(u) => InFlight(u) = {} /\ lease[u] # "active"

(* A Close that did not give up found the client released: closed, or      *)
(* never constructed, with no borrower left, and all of them report one    *)
(* result.  One made from within a callback waits for itself and ends with *)
(* its context only.                                                       *)
CloseMeansReleased ==
    \A c \in Closers :
        /\ outcome[c] \in {"ok", "failed"} =>
              /\ life.closed /\ Active = {} /\ provider \in {"none", "closed"}
              /\ outcome[c] = life.closeErr
        /\ Inside[c] # NoUser => outcome[c] \in {"none", "gaveUp"}

(* A client once constructed is never lost: when no Start is under way it  *)
(* is known to the resource, and it is being closed unless Start succeeded.*)
ClientIsOwned ==
    provider # "none" /\ (\A p \in Starters : stage[p] \in {"idle", "join", "done"})
        => /\ life.client
           /\ provider = "open" => life.started

(* The resource hands its client to whoever may have it and ends it once,  *)
(* in any order of Start, Use, commands, inspections and Close calls.      *)
RedisIsSound ==
    ClientClosedOnce /\ ClosedClientIsUnused /\ CloseMeansReleased /\ ClientIsOwned

(* Every Close returns, the nested ones included, and one with patience    *)
(* completes the shutdown an earlier caller abandoned in the middle.       *)
RedisCloseReturns ==
    \A c \in Closers :
        /\ (stage[c] = "startWait") ~> Returned(c)
        /\ c \notin Impatient =>
              ((stage[c] # "idle") ~> (life.closed /\ provider \in {"none", "closed"}))
=============================================================================
