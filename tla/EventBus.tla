------------------------------- MODULE EventBus -------------------------------
(***************************************************************************)
(* One event bus of mss-boot/runtime/eventbus: the delivery core, and the  *)
(* Memory and Redis providers around it.  A bus notifies its subscribers   *)
(* of committed revisions; notifications may be lost, repeated or late,    *)
(* and reconciliation with the authoritative source repairs what they      *)
(* missed.                                                                 *)
(*                                                                         *)
(* A caller makes one call with a context of its own.  Every lock region,  *)
(* provider command, source read and handler invocation is one step.  The  *)
(* other replicas are the environment: their Publishes, each a Get and a   *)
(* Set, may leave any committed revision in the shared key at any moment,  *)
(* so a read of the key returns any of them, or none, and what a Set of    *)
(* this bus leaves there is not kept.  An event is its revision.           *)
(***************************************************************************)
EXTENDS Integers, FiniteSets

CONSTANTS
  Redis,        \* TRUE: a Redis bus; FALSE: a Memory bus
  Subs,         \* subscriptions, in the order of their identifiers
  Callers,      \* the calls, one each
  Call,         \* what a caller calls
  Impatient,    \* callers whose context may end
  Nobody,       \* holds the delivery token when no call does
  MaxRevision,  \* bound on the committed revisions
  MaxFaults     \* bound on failures of the provider, the source and the handlers

Methods == {"start", "run", "publish", "poll", "reconcile", "inspect", "close"}
\* Run, PollOnce and their provider belong to the Redis bus.
ASSUME SubsAssumption == Subs \subseteq Nat \ {0}
ASSUME CallAssumption == Call \in [Callers -> Methods]
ASSUME RedisAssumption == Redis \in BOOLEAN /\
                          (~Redis => \A o \in Callers : Call[o] \notin {"run", "poll"})
ASSUME NobodyAssumption == Nobody \notin Callers
ASSUME BoundsAssumption == MaxRevision \in Nat /\ MaxFaults \in Nat

VARIABLES
  committed,    \* the authoritative revision, 0 before the first commit
  faults,       \* failures so far
  startState,   \* startAttempted and startDone: "new", "open", "closed"
  started,
  runState,     \* runAttempted and runDone: "new", "open", "closed"
  closing, closed,
  active,       \* the admitted calls (the code keeps their number)
  status,       \* of a subscription: "new", "registered", "gone"
  acked,        \* subscriber.revision
  lastRevision,
  deliveryErr, pollErr, reconcileErr,    \* TRUE for an error
  token,        \* the call that holds the delivery token
  pc, ctx,      \* where a call is; its context is live
  late,         \* the bounded context of its reconciliation has timed out
  event,        \* the revision a call delivers, 0 for none
  observed,     \* the last revision its reconciliation started from
  reconciling,  \* it delivers in reconciliation mode
  providerBad,  \* its provider commands failed
  bad,          \* a handler failed in its delivery
  failed,       \* its reconciliation failed
  current,      \* the subscribers its delivery set out to notify
  left,         \* those it has still to invoke
  target,       \* the one it is invoking, or 0
  heard,        \* history: the revision a handler was last invoked with
  abandoned,    \* history: subscribers a delivery dropped when its context ended
  since, present \* history: the commit and the subscribers a reconciliation met

life == <<startState, started, runState, closing, closed>>
core == <<status, acked, lastRevision, deliveryErr, token>>
health == <<pollErr, reconcileErr>>
delivery == <<bad, current, left, target>>
local == <<late, event, observed, reconciling, providerBad, failed, delivery>>
history == <<heard, abandoned, since, present>>
vars == <<committed, faults, life, active, core, health, pc, ctx, local, history>>

Registered == {s \in Subs : status[s] = "registered"}
Live(o) == ctx[o] /\ ~late[o]
Goto(o, label) == pc' = [pc EXCEPT ![o] = label]

\* Something fails by itself, or because the caller's context has ended.
Fault == faults < MaxFaults /\ faults' = faults + 1
FailsIf(ended) == Fault \/ (ended /\ UNCHANGED faults)

Built ==
  /\ committed = 0 /\ faults = 0
  /\ startState = "new" /\ started = FALSE /\ runState = "new"
  /\ closing = FALSE /\ closed = FALSE /\ active = {}
  /\ status = [s \in Subs |-> "new"] /\ acked = [s \in Subs |-> 0]
  /\ lastRevision = 0 /\ token = Nobody
  /\ deliveryErr = FALSE /\ pollErr = FALSE /\ reconcileErr = FALSE
  /\ ctx = [o \in Callers |-> TRUE]
  /\ late = [o \in Callers |-> FALSE] /\ event = [o \in Callers |-> 0]
  /\ observed = [o \in Callers |-> 0] /\ reconciling = [o \in Callers |-> FALSE]
  /\ providerBad = [o \in Callers |-> FALSE] /\ failed = [o \in Callers |-> FALSE]
  /\ bad = [o \in Callers |-> FALSE]
  /\ current = [o \in Callers |-> {}] /\ left = [o \in Callers |-> {}]
  /\ target = [o \in Callers |-> 0]
  /\ heard = [s \in Subs |-> 0] /\ abandoned = {}
  /\ since = [o \in Callers |-> 0] /\ present = [o \in Callers |-> {}]
Init == Built /\ pc = [o \in Callers |-> "idle"]

-----------------------------------------------------------------------------
(* beginActive and its release *)

Admits == started /\ ~closing /\ ~closed

\* What a call does first once it is admitted.
Entry(o) == CASE Call[o] = "publish" -> IF Redis THEN "get" ELSE "acquire"
              [] Call[o] \in {"poll", "run"} -> "load"
              [] Call[o] = "reconcile" -> "observe"
              [] OTHER -> IF Redis THEN "probe" ELSE "finish"

Operations == {"publish", "poll", "reconcile", "inspect"}

\* A publisher announces a revision committed before, not always the last one.
Begins(o) ==
  /\ \/ pc[o] = "idle" /\ Call[o] \in Operations
     \/ pc[o] = "tick"
  /\ ctx[o] /\ Admits
  /\ IF Call[o] = "publish" THEN \E r \in 1..committed : event' = [event EXCEPT ![o] = r]
                            ELSE UNCHANGED event
  /\ active' = active \cup {o}
  /\ Goto(o, Entry(o))
  /\ UNCHANGED <<committed, faults, life, core, health, ctx, late, observed,
                 reconciling, providerBad, failed, delivery, history>>

Rejected(o) ==
  /\ pc[o] = "idle" /\ Call[o] \in Operations
  /\ ~ctx[o] \/ ~Admits
  /\ Goto(o, "returned")
  /\ UNCHANGED <<committed, faults, life, active, core, health, ctx, local,
                 history>>

\* The deferred release.  Run waits for its next tick.
Ends(o) ==
  /\ pc[o] = "finish"
  /\ active' = active \ {o}
  /\ Goto(o, IF Call[o] = "run" THEN "tick" ELSE "returned")
  /\ late' = [late EXCEPT ![o] = FALSE] /\ event' = [event EXCEPT ![o] = 0]
  /\ reconciling' = [reconciling EXCEPT ![o] = FALSE]
  /\ providerBad' = [providerBad EXCEPT ![o] = FALSE]
  /\ UNCHANGED <<committed, faults, life, core, health, ctx, observed, failed,
                 delivery, history>>

-----------------------------------------------------------------------------
(* deliverActive *)

Reconciles(o) == IF Redis THEN "noteReconcile" ELSE "finish"

\* Where a call goes when deliverActive returns.
AfterDeliveryUnrepaired(o) == IF reconciling[o] THEN Reconciles(o) ELSE "finish"
AfterDelivery(o) ==
  IF reconciling[o] THEN Reconciles(o)
  ELSE IF Call[o] = "publish" /\ ~(providerBad[o] /\ ctx[o]) THEN "finish"
  ELSE "observe"

TokenIgnored == TRUE
TokenFree == token = Nobody

SupersededByRepeat(o) == event[o] = lastRevision /\ ~reconciling[o]
Superseded(o) == \/ event[o] < lastRevision
                 \/ event[o] = lastRevision /\ ~reconciling[o]

DropsEvent(o) ==
  /\ pc[o] = "acquire" /\ TokenFree /\ Superseded(o)
  /\ Goto(o, AfterDelivery(o))
  /\ UNCHANGED <<committed, faults, life, active, core, health, ctx, local,
                 history>>

AcceptsEvent(o) ==
  /\ pc[o] = "acquire" /\ TokenFree /\ ~Superseded(o)
  /\ token' = o
  /\ lastRevision' = event[o]
  /\ current' = [current EXCEPT ![o] = {s \in Registered : acked[s] < event[o]}]
  /\ left' = [left EXCEPT ![o] = {s \in Registered : acked[s] < event[o]}]
  /\ Goto(o, "deliver")
  /\ UNCHANGED <<committed, faults, life, active, status, acked, deliveryErr,
                 health, ctx, late, event, observed, reconciling, providerBad,
                 failed, bad, target, history>>

\* The context ends first in the select for the token.
GivesUpToken(o) ==
  /\ pc[o] = "acquire" /\ ~Live(o)
  /\ failed' = [failed EXCEPT ![o] = TRUE]
  /\ Goto(o, AfterDelivery(o))
  /\ UNCHANGED <<committed, faults, life, active, core, health, ctx, late, event,
                 observed, reconciling, providerBad, delivery, history>>

\* The targets are notified in the order of their identifiers.
FirstLeft(o, s) == s \in left[o] /\ \A t \in left[o] : s <= t

Invokes(o) ==
  /\ pc[o] = "deliver" /\ Live(o)
  /\ \E s \in Subs :
       /\ FirstLeft(o, s)
       /\ target' = [target EXCEPT ![o] = s]
       /\ left' = [left EXCEPT ![o] = @ \ {s}]
       /\ heard' = [heard EXCEPT ![s] = event[o]]
  /\ Goto(o, "handling")
  /\ UNCHANGED <<committed, faults, life, active, core, health, ctx, late, event,
                 observed, reconciling, providerBad, failed, bad, current,
                 abandoned, since, present>>

\* A subscription cancelled meanwhile is left alone.
HandlerSucceeds(o) ==
  /\ pc[o] = "handling"
  /\ acked' = IF target[o] \in Registered THEN [acked EXCEPT ![target[o]] = event[o]]
                                          ELSE acked
  /\ abandoned' = abandoned \ {target[o]}
  /\ target' = [target EXCEPT ![o] = 0]
  /\ Goto(o, "deliver")
  /\ UNCHANGED <<committed, faults, life, active, status, lastRevision, deliveryErr,
                 token, health, ctx, late, event, observed, reconciling,
                 providerBad, failed, bad, current, left, heard, since, present>>

\* The handler returns an error or panics; the next one is invoked all the same.
HandlerFails(o) ==
  /\ pc[o] = "handling" /\ FailsIf(~Live(o))
  /\ bad' = [bad EXCEPT ![o] = TRUE]
  /\ target' = [target EXCEPT ![o] = 0]
  /\ Goto(o, "deliver")
  /\ UNCHANGED <<committed, life, active, core, health, ctx, late, event, observed,
                 reconciling, providerBad, failed, current, left, history>>

\* The loop over the targets breaks when the context has ended.
Abandons(o) ==
  /\ pc[o] = "deliver" /\ left[o] # {} /\ ~Live(o)
  /\ failed' = [failed EXCEPT ![o] = TRUE]
  /\ left' = [left EXCEPT ![o] = {}]
  /\ abandoned' = abandoned \cup left[o]
  /\ UNCHANGED <<committed, faults, life, active, core, health, pc, ctx, late,
                 event, observed, reconciling, providerBad, bad, current, target,
                 heard, since, present>>

\* deliveryErr is decided under the lock, and the token goes back.
SettledIfReconciling(o) == IF reconciling[o] THEN bad[o] ELSE deliveryErr
Settled(o) == IF bad[o] THEN TRUE
              ELSE IF reconciling[o] \/ current[o] # {} THEN FALSE ELSE deliveryErr

Settles(o) ==
  /\ pc[o] = "deliver" /\ left[o] = {}
  /\ deliveryErr' = Settled(o)
  /\ token' = Nobody
  /\ failed' = [failed EXCEPT ![o] = @ \/ bad[o]]
  /\ bad' = [bad EXCEPT ![o] = FALSE] /\ current' = [current EXCEPT ![o] = {}]
  /\ Goto(o, AfterDelivery(o))
  /\ UNCHANGED <<committed, faults, life, active, status, acked, lastRevision,
                 health, ctx, late, event, observed, reconciling, providerBad, left,
                 target, history>>

-----------------------------------------------------------------------------
(* reconcileActive of the Redis bus, and Reconcile of the Memory bus *)

Observes(o) ==
  /\ pc[o] = "observe"
  /\ observed' = [observed EXCEPT ![o] = lastRevision]
  /\ reconciling' = [reconciling EXCEPT ![o] = TRUE]
  /\ failed' = [failed EXCEPT ![o] = FALSE]
  /\ since' = [since EXCEPT ![o] = committed]
  /\ present' = [present EXCEPT ![o] = Registered]
  /\ Goto(o, "source")
  /\ UNCHANGED <<committed, faults, life, active, core, health, ctx, late, event,
                 providerBad, delivery, heard, abandoned>>

\* An equal revision remains eligible.
EligibleIfNewer(o) == committed > observed[o]
Eligible(o) == committed > 0 /\ committed >= observed[o]

SourceReads(o) ==
  /\ pc[o] = "source" /\ Live(o)
  /\ event' = [event EXCEPT ![o] = IF Eligible(o) THEN committed ELSE 0]
  /\ observed' = [observed EXCEPT ![o] = 0]
  /\ Goto(o, IF Eligible(o) THEN "acquire" ELSE Reconciles(o))
  /\ UNCHANGED <<committed, faults, life, active, core, health, ctx, late,
                 reconciling, providerBad, failed, delivery, history>>

SourceFails(o) ==
  /\ pc[o] = "source" /\ FailsIf(~Live(o))
  /\ failed' = [failed EXCEPT ![o] = TRUE]
  /\ observed' = [observed EXCEPT ![o] = 0]
  /\ Goto(o, Reconciles(o))
  /\ UNCHANGED <<committed, life, active, core, health, ctx, late, event,
                 reconciling, providerBad, delivery, history>>

NotesReconcile(o) ==
  /\ pc[o] = "noteReconcile"
  /\ reconcileErr' = failed[o]
  /\ failed' = [failed EXCEPT ![o] = FALSE]
  /\ since' = [since EXCEPT ![o] = 0] /\ present' = [present EXCEPT ![o] = {}]
  /\ Goto(o, "finish")
  /\ UNCHANGED <<committed, faults, life, active, core, pollErr, ctx, late, event,
                 observed, reconciling, providerBad, delivery, heard, abandoned>>

\* The pollTimeout of the reconciliation elapses.
TimesOut(o) ==
  /\ Redis /\ reconciling[o] /\ ~late[o] /\ Fault
  /\ pc[o] \in {"source", "acquire", "deliver", "handling"}
  /\ late' = [late EXCEPT ![o] = TRUE]
  /\ UNCHANGED <<committed, life, active, core, health, pc, ctx, event, observed,
                 reconciling, providerBad, failed, delivery, history>>

-----------------------------------------------------------------------------
(* The Redis key: storeLatest under publishMu, and loadLatest *)

ProviderStep(o, isBad, label) ==
  /\ providerBad' = [providerBad EXCEPT ![o] = isBad]
  /\ Goto(o, label)
  /\ UNCHANGED <<committed, life, active, core, health, ctx, late, observed,
                 reconciling, failed, delivery, history>>

PublishUnlocked == \A p \in Callers : pc[p] # "set"

\* What the key holds: the event another replica left there, or nothing.
StoredBefore == (committed - 1)..committed
Stored == 0..committed

StoreReads(o) ==
  /\ pc[o] = "get" /\ PublishUnlocked
  /\ \E r \in Stored :
       IF r >= event[o]
         THEN event' = [event EXCEPT ![o] = r] /\ ProviderStep(o, FALSE, "notePoll")
         ELSE UNCHANGED event /\ ProviderStep(o, FALSE, "set")
  /\ UNCHANGED faults

\* Encoding, reading or decoding fails.
StoreReadFails(o) ==
  /\ pc[o] = "get" /\ PublishUnlocked /\ FailsIf(~ctx[o])
  /\ ProviderStep(o, TRUE, "notePoll")
  /\ UNCHANGED event

StoreWrites(o) ==
  /\ pc[o] = "set"
  /\ ProviderStep(o, FALSE, "notePoll")
  /\ UNCHANGED <<faults, event>>

StoreWriteFails(o) ==
  /\ pc[o] = "set" /\ FailsIf(~ctx[o])
  /\ ProviderStep(o, TRUE, "notePoll")
  /\ UNCHANGED event

LoadReads(o) ==
  /\ pc[o] = "load"
  /\ \E r \in Stored : event' = [event EXCEPT ![o] = r]
  /\ ProviderStep(o, FALSE, "notePoll")
  /\ UNCHANGED faults

LoadFails(o) ==
  /\ pc[o] = "load" /\ FailsIf(~ctx[o])
  /\ ProviderStep(o, TRUE, "notePoll")
  /\ UNCHANGED event

\* setPollError, and what Publish and pollActive do next.
NotesPoll(o) ==
  /\ pc[o] = "notePoll"
  /\ pollErr' = providerBad[o]
  /\ Goto(o, IF Call[o] = "publish" \/ (~providerBad[o] /\ event[o] > 0) THEN "acquire"
             ELSE "observe")
  /\ UNCHANGED <<committed, faults, life, active, core, reconcileErr, ctx, local,
                 history>>

\* scope.Ready, at the head of Ready and Health, which then only read.
ProbeSucceeds(o) ==
  /\ pc[o] = "probe"
  /\ Goto(o, "finish")
  /\ UNCHANGED <<committed, faults, life, active, core, health, ctx, local,
                 history>>

ProbeFails(o) ==
  /\ pc[o] = "probe" /\ FailsIf(~ctx[o])
  /\ pollErr' = TRUE
  /\ Goto(o, "finish")
  /\ UNCHANGED <<committed, life, active, core, reconcileErr, ctx, local, history>>

-----------------------------------------------------------------------------
(* Start, Run and Close *)

StartAdmitted(o) == ctx[o] /\ ~closing /\ startState = "new"
RunAdmitted(o) == ctx[o] /\ ~closing /\ started /\ runState = "new"

StartBegins(o) ==
  /\ pc[o] = "idle" /\ Call[o] = "start" /\ StartAdmitted(o)
  /\ startState' = "open"
  /\ Goto(o, "starting")
  /\ UNCHANGED <<committed, faults, started, runState, closing, closed, active,
                 core, health, ctx, local, history>>

\* Redis.Start notes the error of a rejected start, too.
LifeRejected(o) ==
  /\ pc[o] = "idle"
  /\ \/ /\ Call[o] = "start" /\ ~StartAdmitted(o)
        /\ pollErr' = (pollErr \/ Redis)
     \/ /\ Call[o] = "run" /\ ~RunAdmitted(o)
        /\ UNCHANGED pollErr
  /\ Goto(o, "returned")
  /\ UNCHANGED <<committed, faults, life, active, core, reconcileErr, ctx, local,
                 history>>

\* The probe returns; a Close requested meanwhile wins.
StartFinishes(o) ==
  /\ pc[o] = "starting"
  /\ startState' = "closed"
  /\ \/ started' = ~closing /\ UNCHANGED faults
     \/ Redis /\ FailsIf(~ctx[o]) /\ UNCHANGED started
  /\ providerBad' = [providerBad EXCEPT ![o] = ~started']
  /\ Goto(o, IF Redis THEN "noteStart" ELSE "returned")
  /\ UNCHANGED <<committed, runState, closing, closed, active, core, health, ctx,
                 late, event, observed, reconciling, failed, delivery, history>>

NotesStart(o) ==
  /\ pc[o] = "noteStart"
  /\ pollErr' = providerBad[o]
  /\ Goto(o, "returned")
  /\ UNCHANGED <<committed, faults, life, active, core, reconcileErr, ctx, local,
                 history>>

RunBegins(o) ==
  /\ pc[o] = "idle" /\ Call[o] = "run" /\ RunAdmitted(o)
  /\ runState' = "open"
  /\ Goto(o, "tick")
  /\ UNCHANGED <<committed, faults, startState, started, closing, closed, active,
                 core, health, ctx, local, history>>

\* PollOnce is refused once Close has begun; Run waits for its context.
PollRefused(o) == pc[o] = "tick" /\ ctx[o] /\ ~Admits /\ UNCHANGED vars

RunReturns(o) ==
  /\ pc[o] = "tick" /\ ~ctx[o]
  /\ runState' = "closed"
  /\ Goto(o, "returned")
  /\ UNCHANGED <<committed, faults, startState, started, closing, closed, active,
                 core, health, ctx, local, history>>

CloseBegins(c) ==
  /\ pc[c] = "idle" /\ Call[c] = "close"
  /\ closing' = (closing \/ ~closed)
  /\ Goto(c, IF closed THEN "returned" ELSE "cancel")
  /\ UNCHANGED <<committed, faults, startState, started, runState, closed, active,
                 core, health, ctx, local, history>>

\* startCancel and runCancel
CancelsNobody(o) == FALSE
Cancels(o) == \/ Call[o] = "start" /\ pc[o] = "starting"
              \/ Call[o] = "run" /\ pc[o] \notin {"idle", "returned"}

CloseCancels(c) ==
  /\ pc[c] = "cancel"
  /\ ctx' = [o \in Callers |-> ctx[o] /\ ~Cancels(o)]
  /\ Goto(c, "awaitStart")
  /\ UNCHANGED <<committed, faults, life, active, core, health, local, history>>

CloseAwaits(c) ==
  /\ \/ pc[c] = "awaitStart" /\ startState # "open" /\ Goto(c, "awaitRun")
     \/ pc[c] = "awaitRun" /\ runState # "open" /\ Goto(c, "drain")
  /\ UNCHANGED <<committed, faults, life, active, core, health, ctx, local,
                 history>>

NothingRuns == runState # "open"
NothingActive == active = {}

CloseFinishes(c) ==
  /\ pc[c] = "drain" /\ NothingActive
  /\ closed' = TRUE /\ started' = FALSE
  /\ status' = [s \in Subs |-> IF status[s] = "registered" THEN "gone" ELSE status[s]]
  /\ Goto(c, "returned")
  /\ UNCHANGED <<committed, faults, startState, runState, closing, active, acked,
                 lastRevision, deliveryErr, token, health, ctx, local, history>>

CloseExpires(c) ==
  /\ pc[c] \in {"awaitStart", "awaitRun", "drain"} /\ ~ctx[c]
  /\ Goto(c, "returned")
  /\ UNCHANGED <<committed, faults, life, active, core, health, ctx, local,
                 history>>

-----------------------------------------------------------------------------
(* Subscribers and the environment *)

Subscribes(s) ==
  /\ status[s] = "new" /\ ~closing
  /\ \A t \in Subs : t < s => status[t] # "new"
  /\ status' = [status EXCEPT ![s] = "registered"]
  /\ UNCHANGED <<committed, faults, life, active, acked, lastRevision, deliveryErr,
                 token, health, pc, ctx, local, history>>

\* Subscription.Cancel
Unsubscribes(s) ==
  /\ status[s] = "registered"
  /\ status' = [status EXCEPT ![s] = "gone"]
  /\ UNCHANGED <<committed, faults, life, active, acked, lastRevision, deliveryErr,
                 token, health, pc, ctx, local, history>>

Commit ==
  /\ committed < MaxRevision
  /\ committed' = committed + 1
  /\ UNCHANGED <<faults, life, active, core, health, pc, ctx, local, history>>

ContextEnds(o) ==
  /\ o \in Impatient /\ ctx[o] /\ pc[o] # "returned"
  /\ ctx' = [ctx EXCEPT ![o] = FALSE]
  /\ UNCHANGED <<committed, faults, life, active, core, health, pc, local, history>>

-----------------------------------------------------------------------------
Terminated == (\A o \in Callers : pc[o] = "returned") /\ UNCHANGED vars

DeliveryStep(o) ==
  \/ DropsEvent(o) \/ AcceptsEvent(o) \/ GivesUpToken(o) \/ Invokes(o)
  \/ HandlerSucceeds(o) \/ HandlerFails(o) \/ Abandons(o) \/ Settles(o)
ReconcileStep(o) ==
  \/ Observes(o) \/ SourceReads(o) \/ SourceFails(o) \/ NotesReconcile(o)
KeyStep(o) ==
  \/ StoreReads(o) \/ StoreReadFails(o) \/ StoreWrites(o) \/ StoreWriteFails(o)
  \/ LoadReads(o) \/ LoadFails(o) \/ NotesPoll(o) \/ ProbeSucceeds(o) \/ ProbeFails(o)
LifeStep(o) ==
  \/ StartBegins(o) \/ LifeRejected(o) \/ StartFinishes(o) \/ NotesStart(o)
  \/ RunBegins(o) \/ PollRefused(o) \/ RunReturns(o)
CloseStep(c) ==
  \/ CloseBegins(c) \/ CloseCancels(c) \/ CloseAwaits(c) \/ CloseFinishes(c)
  \/ CloseExpires(c)
CallStep(o) ==
  \/ Begins(o) \/ Rejected(o) \/ Ends(o)
  \/ DeliveryStep(o) \/ ReconcileStep(o) \/ KeyStep(o) \/ LifeStep(o) \/ CloseStep(o)
Environment ==
  \/ Commit
  \/ \E o \in Callers : TimesOut(o) \/ ContextEnds(o)
  \/ \E s \in Subs : Subscribes(s) \/ Unsubscribes(s)

Next == (\E o \in Callers : CallStep(o)) \/ Environment \/ Terminated

Spec == Init /\ [][Next]_vars

\* A call that was made goes on: commands, reads and handlers return, the token is
\* handed to a call that waits, and the ticker of Run fires.
Fairness == \A o \in Callers : WF_vars(pc[o] # "idle" /\ CallStep(o))
FairSpec == Spec /\ Fairness

-----------------------------------------------------------------------------
(* Properties *)

Labels == {"idle", "get", "set", "load", "notePoll", "acquire", "deliver", "handling",
           "observe", "source", "noteReconcile", "probe", "finish", "tick", "starting",
           "noteStart", "cancel", "awaitStart", "awaitRun", "drain", "returned"}

\* Every variable has its type.
TypeOK ==
  /\ committed \in Nat /\ faults \in Nat
  /\ startState \in {"new", "open", "closed"} /\ runState \in {"new", "open", "closed"}
  /\ started \in BOOLEAN /\ closing \in BOOLEAN /\ closed \in BOOLEAN
  /\ active \in SUBSET Callers
  /\ status \in [Subs -> {"new", "registered", "gone"}]
  /\ acked \in [Subs -> Nat] /\ lastRevision \in Nat
  /\ deliveryErr \in BOOLEAN /\ pollErr \in BOOLEAN /\ reconcileErr \in BOOLEAN
  /\ token \in Callers \cup {Nobody}
  /\ pc \in [Callers -> Labels] /\ ctx \in [Callers -> BOOLEAN]
  /\ late \in [Callers -> BOOLEAN] /\ event \in [Callers -> Nat]
  /\ observed \in [Callers -> Nat] /\ reconciling \in [Callers -> BOOLEAN]
  /\ providerBad \in [Callers -> BOOLEAN] /\ bad \in [Callers -> BOOLEAN]
  /\ failed \in [Callers -> BOOLEAN]
  /\ current \in [Callers -> SUBSET Subs] /\ left \in [Callers -> SUBSET Subs]
  /\ target \in [Callers -> Subs \cup {0}]
  /\ heard \in [Subs -> Nat] /\ abandoned \in SUBSET Subs
  /\ since \in [Callers -> Nat] /\ present \in [Callers -> SUBSET Subs]

\* Publishes, polls and reconciliations that overlap never invoke a handler with a
\* revision it has already handled, and always with the one accepted for delivery.
HandledOnceInOrder ==
  \A o \in Callers : pc[o] = "handling" =>
    /\ acked[target[o]] < event[o]
    /\ heard[target[o]] = event[o]

\* No handler is ever invoked with a revision older than it was invoked with before.
NeverBackwards == [][\A s \in Subs : heard'[s] >= heard[s]]_heard

\* A handler's failure stays visible until it has handled that revision or a later
\* one (event.go:25), unless a later delivery lost its context before it came to it.
FailureIsVisible ==
  token = Nobody /\ ~deliveryErr =>
    \A s \in Registered : heard[s] = acked[s] \/ s \in abandoned

\* A reconciliation that succeeds has told every subscriber it met about every
\* commit it met, though publishes overtake it (doc.go: live replicas converge).
ReconcileInforms ==
  \A o \in Callers : pc[o] = "noteReconcile" /\ ~failed[o] =>
    \A s \in present[o] \cap Registered : heard[s] >= since[o] \/ s \in abandoned

\* Nothing is delivered, polled or reconciled once Close has returned nil.
ClosedIsQuiet ==
  closed => active = {} /\ token = Nobody /\ Registered = {}
            /\ startState # "open" /\ runState # "open"

Polling == \E o \in Callers : Call[o] = "run" /\ ctx[o] /\ pc[o] \notin {"idle", "returned"}

\* While Run polls, a subscriber comes to handle every commit, whatever became of
\* its notification.
Convergence ==
  \A s \in Subs : \A r \in 1..MaxRevision :
    (s \in Registered /\ committed >= r) ~> (s \notin Registered \/ acked[s] >= r \/ ~Polling)

\* Close returns: it ends Run, and what it waits for ends by itself.
CloseReturns == \A c \in Callers : pc[c] = "cancel" ~> pc[c] = "returned"

\* Both: the bus delivers while it runs and ends when it is told to.
BusIsLive == Convergence /\ CloseReturns
=============================================================================
