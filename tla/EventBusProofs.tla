--------------------------- MODULE EventBusProofs ---------------------------
(***************************************************************************)
(* Theorems about EventBus, for every number of subscribers, calls,        *)
(* revisions and failures, and for both the Redis and the Memory bus.      *)
(***************************************************************************)
EXTENDS EventBus, TLAPS

Delivering == {"deliver", "handling"}

\* Only the holder of the token delivers, the last accepted revision.
HolderInv ==
  /\ \A o \in Callers : pc[o] \in Delivering => token = o /\ event[o] = lastRevision
  /\ token \in Callers => pc[token] \in Delivering
  /\ \A o \in Callers : left[o] # {} => pc[o] \in Delivering

\* Whom it has still to invoke, and whom it is invoking.
TargetInv ==
  /\ \A o \in Callers : \A s \in left[o] : acked[s] < event[o] /\ status[s] # "new"
  /\ \A o \in Callers : pc[o] = "handling" =>
       /\ target[o] \in Subs \ left[o] /\ status[target[o]] # "new"
       /\ acked[target[o]] < event[o] /\ heard[target[o]] = event[o]

\* A subscriber has heard what it acknowledges, and no more than was accepted.
HeardInv ==
  /\ \A s \in Subs : acked[s] <= heard[s] /\ heard[s] <= lastRevision
  /\ \A s \in Subs : status[s] = "new" => heard[s] = 0

\* A failure that is not visible yet will be when the delivery settles.
Pending(s) == /\ token \in Callers
              /\ \/ s \in left[token] \/ bad[token]
                 \/ pc[token] = "handling" /\ target[token] = s
FailureInv ==
  \A s \in Registered : \/ heard[s] = acked[s] \/ s \in abandoned \/ Pending(s)
                        \/ token = Nobody /\ deliveryErr

DeliverInv == TypeOK /\ HolderInv /\ TargetInv /\ HeardInv /\ FailureInv

\* What keeps a closed bus quiet: the admitted calls are counted, and a Close waits
\* in turn for Start, Run and them, none of which can begin any more.
ActiveLabels == {"get", "set", "load", "notePoll", "acquire", "deliver", "handling",
                 "observe", "source", "noteReconcile", "probe", "finish"}
CloseInv ==
  /\ \A o \in Callers : pc[o] \in ActiveLabels => o \in active
  /\ \A c \in Callers : pc[c] \in {"cancel", "awaitStart", "awaitRun", "drain"} => closing
  /\ \A c \in Callers : pc[c] \in {"awaitRun", "drain"} => startState # "open"
  /\ \A c \in Callers : pc[c] = "drain" => runState # "open"
  /\ closed => closing /\ active = {} /\ Registered = {}
               /\ startState # "open" /\ runState # "open"

\* The subscriber was, or is about to be, told of the last accepted revision.
Told(s) == \/ heard[s] = lastRevision \/ s \in abandoned
           \/ token \in Callers /\ s \in left[token]

Met(o) == present[o] \cap Registered

\* What a reconciliation knows on its way.  If another delivery overtakes it, that
\* one tells the subscribers it met.
Knows(o) ==
  /\ event[o] <= committed
  /\ reconciling[o] =>
       pc[o] \in {"source", "acquire", "deliver", "handling", "noteReconcile", "finish"}
  /\ \A s \in present[o] : status[s] # "new"
  /\ pc[o] = "source" =>
       /\ reconciling[o] /\ ~failed[o] /\ since[o] <= committed /\ observed[o] <= lastRevision
       /\ observed[o] < lastRevision => \A s \in Met(o) : Told(s)
  /\ pc[o] = "acquire" /\ reconciling[o] =>
       /\ since[o] <= event[o]
       /\ event[o] < lastRevision => \A s \in Met(o) : Told(s)
  /\ pc[o] \in Delivering /\ reconciling[o] =>
       /\ since[o] <= event[o]
       /\ \A s \in Met(o) : heard[s] >= since[o] \/ s \in abandoned \/ s \in left[o]
  /\ pc[o] = "noteReconcile" /\ ~failed[o] =>
       /\ since[o] <= lastRevision
       /\ \A s \in Met(o) : heard[s] >= since[o] \/ s \in abandoned

ReconcileInv == lastRevision <= committed /\ \A o \in Callers : Knows(o)

-----------------------------------------------------------------------------
(* Type correctness *)

LEMMA InitTyped == Init => TypeOK
<1> SUFFICES ASSUME Init PROVE TypeOK
  OBVIOUS
<1> USE DEF Init, Built
<1>1. pc \in [Callers -> Labels] BY DEF Labels
<1>2. /\ committed \in Nat /\ faults \in Nat
      /\ startState \in {"new", "open", "closed"} /\ runState \in {"new", "open", "closed"}
      /\ started \in BOOLEAN /\ closing \in BOOLEAN /\ closed \in BOOLEAN
      /\ active \in SUBSET Callers /\ lastRevision \in Nat
      /\ deliveryErr \in BOOLEAN /\ pollErr \in BOOLEAN /\ reconcileErr \in BOOLEAN
      /\ token \in Callers \cup {Nobody} /\ abandoned \in SUBSET Subs
  OBVIOUS
<1> QED BY <1>1, <1>2 DEF TypeOK

LEMMA CallTyped ==
  ASSUME NEW o \in Callers, TypeOK, Begins(o) \/ Rejected(o) \/ Ends(o)
  PROVE  TypeOK'
<1> USE SubsAssumption, CallAssumption, BoundsAssumption
    DEF life, core, health, delivery, local, history, Goto
<1>1. CASE Begins(o)
  <2>1. Entry(o) \in Labels
    BY <1>1 DEF Entry, Labels
  <2> QED BY <1>1, <2>1 DEF TypeOK, Begins
<1>2. CASE Rejected(o) BY <1>2 DEF TypeOK, Rejected, Labels
<1>3. CASE Ends(o)     BY <1>3 DEF TypeOK, Ends, Labels
<1> QED BY <1>1, <1>2, <1>3

LEMMA DeliveryTyped ==
  ASSUME NEW o \in Callers, TypeOK, DeliveryStep(o)
  PROVE  TypeOK'
<1> USE SubsAssumption, CallAssumption, BoundsAssumption
    DEF life, core, health, delivery, local, history, Goto, Fault, FailsIf, Registered
<1>0. AfterDelivery(o) \in Labels
  BY DEF AfterDelivery, Reconciles, Labels
<1>1. CASE DropsEvent(o)       BY <1>0, <1>1 DEF TypeOK, DropsEvent
<1>2. CASE AcceptsEvent(o)
  <2>1. pc' \in [Callers -> Labels] BY <1>2 DEF TypeOK, AcceptsEvent, Labels
  <2> QED BY <1>2, <2>1 DEF TypeOK, AcceptsEvent
<1>3. CASE GivesUpToken(o)     BY <1>0, <1>3 DEF TypeOK, GivesUpToken
<1>4. CASE Invokes(o)
  <2>1. pc' \in [Callers -> Labels] BY <1>4 DEF TypeOK, Invokes, Labels
  <2>2. /\ target' \in [Callers -> Subs \cup {0}]
        /\ left' \in [Callers -> SUBSET Subs] /\ heard' \in [Subs -> Nat]
    <3>1. PICK s \in Subs : /\ target' = [target EXCEPT ![o] = s]
                            /\ left' = [left EXCEPT ![o] = @ \ {s}]
                            /\ heard' = [heard EXCEPT ![s] = event[o]]
      BY <1>4 DEF Invokes
    <3> QED BY <3>1 DEF TypeOK
  <2> QED BY <1>4, <2>1, <2>2 DEF TypeOK, Invokes
<1>5. CASE HandlerSucceeds(o)
  <2>1. pc' \in [Callers -> Labels] BY <1>5 DEF TypeOK, HandlerSucceeds, Labels
  <2> QED BY <1>5, <2>1 DEF TypeOK, HandlerSucceeds
<1>6. CASE HandlerFails(o)
  <2>1. pc' \in [Callers -> Labels] BY <1>6 DEF TypeOK, HandlerFails, Labels
  <2> QED BY <1>6, <2>1 DEF TypeOK, HandlerFails
<1>7. CASE Abandons(o)
  <2>1. /\ failed' \in [Callers -> BOOLEAN] /\ left' \in [Callers -> SUBSET Subs]
        /\ abandoned' \in SUBSET Subs
    BY <1>7 DEF TypeOK, Abandons
  <2> QED BY <1>7, <2>1 DEF TypeOK, Abandons
<1>8. CASE Settles(o)          BY <1>0, <1>8 DEF TypeOK, Settles, Settled
<1> QED BY <1>1, <1>2, <1>3, <1>4, <1>5, <1>6, <1>7, <1>8 DEF DeliveryStep

LEMMA ReconcileTyped ==
  ASSUME NEW o \in Callers, TypeOK, ReconcileStep(o)
  PROVE  TypeOK'
<1> USE SubsAssumption, CallAssumption, BoundsAssumption
    DEF life, core, health, delivery, local, history, Goto, Fault, FailsIf, Registered
<1>0. Reconciles(o) \in Labels
  BY DEF Reconciles, Labels
<1>1. CASE Observes(o)       BY <1>1 DEF TypeOK, Observes, Labels
<1>2. CASE SourceReads(o)    BY <1>0, <1>2 DEF TypeOK, SourceReads, Labels
<1>3. CASE SourceFails(o)    BY <1>0, <1>3 DEF TypeOK, SourceFails
<1>4. CASE NotesReconcile(o) BY <1>4 DEF TypeOK, NotesReconcile, Labels
<1> QED BY <1>1, <1>2, <1>3, <1>4 DEF ReconcileStep

LEMMA KeyTyped ==
  ASSUME NEW o \in Callers, TypeOK, KeyStep(o)
  PROVE  TypeOK'
<1> USE BoundsAssumption
    DEF life, core, health, delivery, local, history, Goto, Fault, FailsIf, ProviderStep
<1>0. /\ "notePoll" \in Labels /\ "set" \in Labels /\ "finish" \in Labels
      /\ "acquire" \in Labels /\ "observe" \in Labels
  BY DEF Labels
<1>1. CASE StoreReads(o)
  <2>1. event' \in [Callers -> Nat] /\ faults' = faults
    BY <1>1 DEF TypeOK, StoreReads, Stored
  <2>2. /\ pc' \in [Callers -> Labels]
        /\ providerBad' \in [Callers -> BOOLEAN]
        /\ UNCHANGED <<committed, life, active, core, health, ctx, late, observed,
                       reconciling, failed, delivery, history>>
    <3>1. ProviderStep(o, FALSE, "notePoll") \/ ProviderStep(o, FALSE, "set")
      BY <1>1, Zenon DEF StoreReads
    <3>2. pc \in [Callers -> Labels] /\ providerBad \in [Callers -> BOOLEAN]
      BY DEF TypeOK
    <3>3. CASE ProviderStep(o, FALSE, "notePoll") BY <1>0, <3>2, <3>3
    <3>4. CASE ProviderStep(o, FALSE, "set")      BY <1>0, <3>2, <3>4
    <3> QED BY <3>1, <3>3, <3>4
  <2> QED BY <2>1, <2>2 DEF TypeOK
<1>2. CASE StoreReadFails(o)  BY <1>0, <1>2 DEF TypeOK, StoreReadFails
<1>3. CASE StoreWrites(o)     BY <1>0, <1>3 DEF TypeOK, StoreWrites
<1>4. CASE StoreWriteFails(o) BY <1>0, <1>4 DEF TypeOK, StoreWriteFails
<1>5. CASE LoadReads(o)       BY <1>0, <1>5 DEF TypeOK, LoadReads, Stored
<1>6. CASE LoadFails(o)       BY <1>0, <1>6 DEF TypeOK, LoadFails
<1>7. CASE NotesPoll(o)     BY <1>0, <1>7 DEF TypeOK, NotesPoll
<1>8. CASE ProbeSucceeds(o) BY <1>0, <1>8 DEF TypeOK, ProbeSucceeds
<1>9. CASE ProbeFails(o)    BY <1>0, <1>9 DEF TypeOK, ProbeFails
<1> QED BY <1>1, <1>2, <1>3, <1>4, <1>5, <1>6, <1>7, <1>8, <1>9 DEF KeyStep

LEMMA LifeTyped ==
  ASSUME NEW o \in Callers, TypeOK, LifeStep(o)
  PROVE  TypeOK'
<1> USE RedisAssumption, BoundsAssumption
    DEF life, core, health, delivery, local, history, Goto, Fault, FailsIf, Labels
<1>1. CASE StartBegins(o)   BY <1>1 DEF TypeOK, StartBegins
<1>2. CASE LifeRejected(o)  BY <1>2 DEF TypeOK, LifeRejected
<1>3. CASE StartFinishes(o)
  <2>0. started' \in BOOLEAN
    BY <1>3, Zenon DEF TypeOK, StartFinishes
  <2>1. faults' \in Nat
    BY <1>3 DEF TypeOK, StartFinishes
  <2>2. /\ providerBad' \in [Callers -> BOOLEAN]
        /\ pc' \in [Callers -> Labels]
    BY <1>3 DEF TypeOK, StartFinishes
  <2> QED BY <1>3, <2>0, <2>1, <2>2 DEF TypeOK, StartFinishes
<1>4. CASE NotesStart(o)    BY <1>4 DEF TypeOK, NotesStart
<1>5. CASE RunBegins(o)     BY <1>5 DEF TypeOK, RunBegins
<1>6. CASE PollRefused(o)   BY <1>6 DEF TypeOK, PollRefused, vars
<1>7. CASE RunReturns(o)    BY <1>7 DEF TypeOK, RunReturns
<1> QED BY <1>1, <1>2, <1>3, <1>4, <1>5, <1>6, <1>7 DEF LifeStep

LEMMA CloseTyped ==
  ASSUME NEW o \in Callers, TypeOK, CloseStep(o)
  PROVE  TypeOK'
<1> USE DEF life, core, health, delivery, local, history, Goto, Labels
<1>1. CASE CloseBegins(o)   BY <1>1 DEF TypeOK, CloseBegins
<1>2. CASE CloseCancels(o)  BY <1>2 DEF TypeOK, CloseCancels, Cancels
<1>3. CASE CloseAwaits(o)   BY <1>3 DEF TypeOK, CloseAwaits
<1>4. CASE CloseFinishes(o) BY <1>4 DEF TypeOK, CloseFinishes
<1>5. CASE CloseExpires(o)  BY <1>5 DEF TypeOK, CloseExpires
<1> QED BY <1>1, <1>2, <1>3, <1>4, <1>5 DEF CloseStep

LEMMA EnvironmentTyped ==
  ASSUME TypeOK, Environment \/ UNCHANGED vars
  PROVE  TypeOK'
<1> USE BoundsAssumption DEF life, core, health, delivery, local, history, Fault
<1>1. CASE Commit
  BY <1>1 DEF TypeOK, Commit
<1>2. ASSUME NEW o \in Callers, TimesOut(o) PROVE TypeOK'
  BY <1>2 DEF TypeOK, TimesOut
<1>3. ASSUME NEW o \in Callers, ContextEnds(o) PROVE TypeOK'
  BY <1>3 DEF TypeOK, ContextEnds
<1>4. ASSUME NEW s \in Subs, Subscribes(s) PROVE TypeOK'
  BY <1>4 DEF TypeOK, Subscribes
<1>5. ASSUME NEW s \in Subs, Unsubscribes(s) PROVE TypeOK'
  BY <1>5 DEF TypeOK, Unsubscribes
<1>6. CASE UNCHANGED vars
  BY <1>6 DEF TypeOK, vars
<1> QED BY <1>1, <1>2, <1>3, <1>4, <1>5, <1>6 DEF Environment

\* Every reachable state is well typed.
THEOREM BusTypeCorrect == Spec => []TypeOK
<1>1. TypeOK /\ [Next]_vars => TypeOK'
  BY CallTyped, DeliveryTyped, ReconcileTyped, KeyTyped, LifeTyped, CloseTyped,
     EnvironmentTyped DEF Next, CallStep, Terminated
<1> QED BY InitTyped, <1>1, PTL DEF Spec

-----------------------------------------------------------------------------
(* Delivery *)

\* What the steps outside a delivery have in common.
Aside ==
  /\ \A p \in Callers : \/ pc'[p] = pc[p] /\ event'[p] = event[p]
                        \/ pc[p] \notin Delivering /\ pc'[p] \notin Delivering
  /\ \A s \in Subs : \/ status'[s] = status[s]
                     \/ status[s] = "registered" /\ status'[s] = "gone"
                     \/ status[s] = "new" /\ status'[s] = "registered"
  /\ UNCHANGED <<acked, lastRevision, deliveryErr, token, heard, abandoned,
                 bad, left, target>>

LEMMA AsideKeeps ==
  ASSUME DeliverInv, TypeOK', Aside
  PROVE  DeliverInv'
<1> USE DEF DeliverInv, Aside
<1>1. HolderInv'
  BY DEF HolderInv, Delivering, TypeOK
<1>2. TargetInv'
  <2>1. ASSUME NEW o \in Callers, NEW s \in left[o]
        PROVE  acked[s] < event'[o] /\ status'[s] # "new"
    BY DEF HolderInv, TargetInv, TypeOK
  <2>2. ASSUME NEW o \in Callers, pc'[o] = "handling"
        PROVE  /\ target[o] \in Subs \ left[o] /\ status'[target[o]] # "new"
               /\ acked[target[o]] < event'[o] /\ heard[target[o]] = event'[o]
    BY <2>2 DEF TargetInv, Delivering
  <2> QED BY <2>1, <2>2 DEF TargetInv
<1>3. HeardInv'
  BY DEF HeardInv
<1>4. FailureInv'
  <2>1. ASSUME NEW s \in Subs, status'[s] = "registered"
        PROVE  \/ heard[s] = acked[s] \/ s \in abandoned \/ Pending(s)
               \/ token = Nobody /\ deliveryErr
    <3>1. CASE status[s] = "new"
      BY <3>1 DEF HeardInv, TypeOK
    <3>2. CASE status[s] = "registered"
      BY <3>2 DEF FailureInv, Registered
    <3> QED BY <2>1, <3>1, <3>2
  <2>2. ASSUME NEW s, Pending(s) PROVE Pending(s)'
    BY <2>2 DEF Pending, HolderInv, Delivering
  <2> QED BY <2>1, <2>2 DEF FailureInv, Registered
<1> QED BY <1>1, <1>2, <1>3, <1>4

LEMMA OutsideIsAside ==
  ASSUME NEW o \in Callers, TypeOK,
         \/ Begins(o) \/ Rejected(o) \/ Ends(o) \/ DropsEvent(o) \/ GivesUpToken(o)
         \/ ReconcileStep(o) \/ KeyStep(o) \/ LifeStep(o) \/ CloseStep(o)
  PROVE  Aside
<1> USE DEF life, core, health, delivery, local, history, Goto, Delivering, Aside
<1>1. pc \in [Callers -> Labels] /\ event \in [Callers -> Nat]
  BY DEF TypeOK
<1>2. /\ AfterDelivery(o) \notin Delivering /\ Reconciles(o) \notin Delivering
      /\ Entry(o) \notin Delivering
  BY DEF AfterDelivery, Reconciles, Entry
<1>3. CASE Begins(o)       BY <1>1, <1>2, <1>3 DEF Begins
<1>4. CASE Rejected(o)     BY <1>1, <1>4 DEF Rejected
<1>5. CASE Ends(o)         BY <1>1, <1>5 DEF Ends
<1>6. CASE DropsEvent(o)   BY <1>1, <1>2, <1>6 DEF DropsEvent
<1>7. CASE GivesUpToken(o) BY <1>1, <1>2, <1>7 DEF GivesUpToken
<1>8. CASE ReconcileStep(o)
  <2>1. CASE Observes(o)       BY <1>1, <2>1 DEF Observes
  <2>2. CASE SourceReads(o)    BY <1>1, <1>2, <2>2 DEF SourceReads
  <2>3. CASE SourceFails(o)    BY <1>1, <1>2, <2>3 DEF SourceFails
  <2>4. CASE NotesReconcile(o) BY <1>1, <2>4 DEF NotesReconcile
  <2> QED BY <1>8, <2>1, <2>2, <2>3, <2>4 DEF ReconcileStep
<1>9. CASE KeyStep(o)
  <2> USE DEF ProviderStep
  <2>1. CASE StoreReads(o)
    <3>1. PICK r \in Stored : \/ event' = [event EXCEPT ![o] = r]
                             \/ event' = event
      BY <2>1, Zenon DEF StoreReads
    <3>2. ProviderStep(o, FALSE, "notePoll") \/ ProviderStep(o, FALSE, "set")
      BY <2>1, Zenon DEF StoreReads
    <3>3. CASE ProviderStep(o, FALSE, "notePoll")
      BY <1>1, <2>1, <3>1, <3>3 DEF StoreReads
    <3>4. CASE ProviderStep(o, FALSE, "set")
      BY <1>1, <2>1, <3>1, <3>4 DEF StoreReads
    <3> QED BY <3>2, <3>3, <3>4
  <2>2. CASE StoreReadFails(o)  BY <1>1, <2>2 DEF StoreReadFails
  <2>3. CASE StoreWrites(o)     BY <1>1, <2>3 DEF StoreWrites
  <2>4. CASE StoreWriteFails(o) BY <1>1, <2>4 DEF StoreWriteFails
  <2>5. CASE LoadReads(o)       BY <1>1, <2>5 DEF LoadReads
  <2>6. CASE LoadFails(o)       BY <1>1, <2>6 DEF LoadFails
  <2>7. CASE NotesPoll(o)       BY <1>1, <2>7 DEF NotesPoll
  <2>8. CASE ProbeSucceeds(o)   BY <1>1, <2>8 DEF ProbeSucceeds
  <2>9. CASE ProbeFails(o)      BY <1>1, <2>9 DEF ProbeFails
  <2> QED BY <1>9, <2>1, <2>2, <2>3, <2>4, <2>5, <2>6, <2>7, <2>8, <2>9 DEF KeyStep
<1>10. CASE LifeStep(o)
  <2>1. CASE StartBegins(o)   BY <1>1, <2>1 DEF StartBegins
  <2>2. CASE LifeRejected(o)  BY <1>1, <2>2 DEF LifeRejected
  <2>3. CASE StartFinishes(o) BY <1>1, <2>3 DEF StartFinishes
  <2>4. CASE NotesStart(o)    BY <1>1, <2>4 DEF NotesStart
  <2>5. CASE RunBegins(o)     BY <1>1, <2>5 DEF RunBegins
  <2>6. CASE PollRefused(o)   BY <2>6 DEF PollRefused, vars
  <2>7. CASE RunReturns(o)    BY <1>1, <2>7 DEF RunReturns
  <2> QED BY <1>10, <2>1, <2>2, <2>3, <2>4, <2>5, <2>6, <2>7 DEF LifeStep
<1>11. CASE CloseStep(o)
  <2>1. CASE CloseBegins(o)   BY <1>1, <2>1 DEF CloseBegins
  <2>2. CASE CloseCancels(o)  BY <1>1, <2>2 DEF CloseCancels
  <2>3. CASE CloseAwaits(o)   BY <1>1, <2>3 DEF CloseAwaits
  <2>4. CASE CloseFinishes(o) BY <1>1, <2>4 DEF CloseFinishes
  <2>5. CASE CloseExpires(o)  BY <1>1, <2>5 DEF CloseExpires
  <2> QED BY <1>11, <2>1, <2>2, <2>3, <2>4, <2>5 DEF CloseStep
<1> QED BY <1>3, <1>4, <1>5, <1>6, <1>7, <1>8, <1>9, <1>10, <1>11

LEMMA EnvironmentIsAside ==
  ASSUME TypeOK, Environment \/ UNCHANGED vars
  PROVE  Aside
<1> USE DEF life, core, health, delivery, local, history, Aside
<1>1. CASE Commit BY <1>1 DEF Commit
<1>2. ASSUME NEW o \in Callers, TimesOut(o) \/ ContextEnds(o) PROVE Aside
  BY <1>2 DEF TimesOut, ContextEnds
<1>3. ASSUME NEW s \in Subs, Subscribes(s) PROVE Aside
  BY <1>3 DEF Subscribes, TypeOK
<1>4. ASSUME NEW s \in Subs, Unsubscribes(s) PROVE Aside
  BY <1>4 DEF Unsubscribes, TypeOK
<1>5. CASE UNCHANGED vars BY <1>5 DEF vars
<1> QED BY <1>1, <1>2, <1>3, <1>4, <1>5 DEF Environment

\* The holder of the token is the only call in its delivery.
LEMMA AcceptsEventKeeps ==
  ASSUME NEW o \in Callers, DeliverInv, TypeOK', AcceptsEvent(o)
  PROVE  DeliverInv'
<1> USE NobodyAssumption DEF DeliverInv, Delivering
<1>1. /\ token = Nobody /\ token' = o /\ pc[o] = "acquire"
      /\ event[o] >= lastRevision /\ lastRevision' = event[o]
      /\ pc' = [pc EXCEPT ![o] = "deliver"]
      /\ left' = [left EXCEPT ![o] = {s \in Registered : acked[s] < event[o]}]
      /\ UNCHANGED <<status, acked, event, heard, bad, target, abandoned>>
  BY DEF AcceptsEvent, TokenFree, Superseded, Goto, TypeOK, history
<1>2. \A p \in Callers : pc[p] \notin Delivering /\ left[p] = {}
  BY <1>1 DEF HolderInv
<1>3. HolderInv'
  BY <1>1, <1>2 DEF HolderInv, TypeOK
<1>4. TargetInv'
  BY <1>1, <1>2 DEF TargetInv, TypeOK, Registered
<1>5. HeardInv'
  BY <1>1 DEF HeardInv, TypeOK
<1>6. FailureInv'
  <2>1. ASSUME NEW s \in Subs, status[s] = "registered", heard[s] # acked[s]
        PROVE  Pending(s)'
    <3>0. acked[s] \in Nat /\ heard[s] \in Nat /\ lastRevision \in Nat /\ event[o] \in Nat
      BY DEF TypeOK
    <3>1. acked[s] < event[o]
      BY <1>1, <2>1, <3>0 DEF HeardInv
    <3>2. s \in left'[o]
      BY <1>1, <2>1, <3>1 DEF Registered, TypeOK
    <3> QED BY <1>1, <3>2 DEF Pending
  <2> QED BY <1>1, <2>1 DEF FailureInv, Registered
<1> QED BY <1>3, <1>4, <1>5, <1>6

LEMMA InvokesKeeps ==
  ASSUME NEW o \in Callers, DeliverInv, TypeOK', Invokes(o)
  PROVE  DeliverInv'
<1> USE NobodyAssumption DEF DeliverInv, Delivering
<1>1. PICK s \in Subs :
        /\ s \in left[o]
        /\ target' = [target EXCEPT ![o] = s]
        /\ left' = [left EXCEPT ![o] = left[o] \ {s}]
        /\ heard' = [heard EXCEPT ![s] = event[o]]
  BY DEF Invokes, FirstLeft
<1>2. /\ pc[o] = "deliver" /\ pc' = [pc EXCEPT ![o] = "handling"]
      /\ UNCHANGED <<status, acked, lastRevision, deliveryErr, token, event, bad, abandoned>>
  BY DEF Invokes, Goto, core
<1>3. /\ token = o /\ event[o] = lastRevision
      /\ \A p \in Callers \ {o} : pc[p] \notin Delivering /\ left[p] = {}
  BY <1>2 DEF HolderInv
<1>4. acked[s] < event[o] /\ status[s] # "new"
  BY <1>1 DEF TargetInv
<1>5. HolderInv'
  BY <1>1, <1>2, <1>3 DEF HolderInv, TypeOK
<1>6. TargetInv'
  BY <1>1, <1>2, <1>3, <1>4 DEF TargetInv, TypeOK
<1>7. HeardInv'
  BY <1>1, <1>2, <1>3, <1>4 DEF HeardInv, TypeOK
<1>8. FailureInv'
  <2> SUFFICES ASSUME NEW t \in Subs, status[t] = "registered"
               PROVE  \/ heard'[t] = acked[t] \/ t \in abandoned \/ Pending(t)'
    BY <1>2 DEF FailureInv, Registered
  <2>1. CASE t = s
    BY <1>1, <1>2, <1>3, <2>1 DEF Pending, TypeOK
  <2>2. CASE t # s
    <3>1. heard'[t] = heard[t] /\ (Pending(t) => Pending(t)')
      BY <1>1, <1>2, <1>3, <2>2 DEF Pending, TypeOK
    <3> QED BY <1>3, <3>1 DEF FailureInv, Registered
  <2> QED BY <2>1, <2>2
<1> QED BY <1>5, <1>6, <1>7, <1>8

LEMMA HandlerSucceedsKeeps ==
  ASSUME NEW o \in Callers, DeliverInv, TypeOK', HandlerSucceeds(o)
  PROVE  DeliverInv'
<1> USE NobodyAssumption DEF DeliverInv, Delivering
<1>1. /\ pc[o] = "handling" /\ pc' = [pc EXCEPT ![o] = "deliver"]
      /\ acked' = IF target[o] \in Registered THEN [acked EXCEPT ![target[o]] = event[o]]
                                              ELSE acked
      /\ abandoned' = abandoned \ {target[o]}
      /\ target' = [target EXCEPT ![o] = 0]
      /\ UNCHANGED <<status, lastRevision, deliveryErr, token, event, bad, left, heard>>
  BY DEF HandlerSucceeds, Goto
<1>2. /\ token = o /\ event[o] = lastRevision
      /\ \A p \in Callers \ {o} : pc[p] \notin Delivering /\ left[p] = {}
  BY <1>1 DEF HolderInv
<1>3. target[o] \in Subs \ left[o] /\ acked[target[o]] < event[o] /\ heard[target[o]] = event[o]
  BY <1>1 DEF TargetInv
<1>4. HolderInv'
  BY <1>1, <1>2 DEF HolderInv, TypeOK
<1>5. TargetInv'
  <2>1. ASSUME NEW s \in left[o] PROVE acked'[s] = acked[s]
    BY <1>1, <1>3 DEF TypeOK
  <2> QED BY <1>1, <1>2, <2>1 DEF TargetInv, TypeOK
<1>6. HeardInv'
  BY <1>1, <1>2, <1>3 DEF HeardInv, TypeOK
<1>7. FailureInv'
  <2> SUFFICES ASSUME NEW t \in Subs, status[t] = "registered"
               PROVE  \/ heard[t] = acked'[t] \/ t \in abandoned' \/ Pending(t)'
    BY <1>1 DEF FailureInv, Registered
  <2>1. CASE t = target[o]
    BY <1>1, <1>3, <2>1 DEF Registered, TypeOK
  <2>2. CASE t # target[o]
    <3>1. /\ acked'[t] = acked[t] /\ (Pending(t) => Pending(t)')
          /\ t \in abandoned => t \in abandoned'
      BY <1>1, <1>2, <2>2 DEF Pending, TypeOK
    <3> QED BY <1>2, <3>1 DEF FailureInv, Registered
  <2> QED BY <2>1, <2>2
<1> QED BY <1>4, <1>5, <1>6, <1>7

LEMMA HandlerFailsKeeps ==
  ASSUME NEW o \in Callers, DeliverInv, TypeOK', HandlerFails(o)
  PROVE  DeliverInv'
<1> USE NobodyAssumption DEF DeliverInv, Delivering
<1>1. /\ pc[o] = "handling" /\ pc' = [pc EXCEPT ![o] = "deliver"]
      /\ bad' = [bad EXCEPT ![o] = TRUE]
      /\ target' = [target EXCEPT ![o] = 0]
      /\ UNCHANGED <<status, acked, lastRevision, deliveryErr, token, event, left, heard,
                     abandoned>>
  BY DEF HandlerFails, Goto, core, history
<1>2. /\ token = o
      /\ \A p \in Callers \ {o} : pc[p] \notin Delivering
  BY <1>1 DEF HolderInv
<1>3. HolderInv'
  BY <1>1, <1>2 DEF HolderInv, TypeOK
<1>4. TargetInv'
  BY <1>1, <1>2 DEF TargetInv, TypeOK
<1>5. HeardInv'
  BY <1>1 DEF HeardInv
<1>6. FailureInv'
  <2>1. bad'[o]
    BY <1>1 DEF TypeOK
  <2> QED BY <1>1, <1>2, <2>1 DEF FailureInv, Pending
<1> QED BY <1>3, <1>4, <1>5, <1>6

LEMMA AbandonsKeeps ==
  ASSUME NEW o \in Callers, DeliverInv, TypeOK', Abandons(o)
  PROVE  DeliverInv'
<1> USE NobodyAssumption DEF DeliverInv, Delivering
<1>1. /\ pc[o] = "deliver" /\ left' = [left EXCEPT ![o] = {}]
      /\ abandoned' = abandoned \cup left[o]
      /\ UNCHANGED <<status, acked, lastRevision, deliveryErr, token, event, bad, heard,
                     target, pc>>
  BY DEF Abandons, core
<1>2. token = o
  BY <1>1 DEF HolderInv
<1>3. HolderInv' /\ TargetInv' /\ HeardInv'
  BY <1>1 DEF HolderInv, TargetInv, HeardInv, TypeOK
<1>4. FailureInv'
  <2>1. ASSUME NEW s \in Subs, Pending(s) PROVE s \in abandoned' \/ Pending(s)'
    BY <1>1, <1>2, <2>1 DEF Pending
  <2> QED BY <1>1, <2>1 DEF FailureInv, Registered
<1> QED BY <1>3, <1>4

LEMMA SettlesKeeps ==
  ASSUME NEW o \in Callers, DeliverInv, TypeOK', Settles(o)
  PROVE  DeliverInv'
<1> USE NobodyAssumption DEF DeliverInv, Delivering
<1>1. /\ pc[o] = "deliver" /\ left[o] = {} /\ token' = Nobody
      /\ bad[o] => deliveryErr'
      /\ pc' = [pc EXCEPT ![o] = AfterDelivery(o)]
      /\ bad' = [bad EXCEPT ![o] = FALSE]
      /\ UNCHANGED <<status, acked, lastRevision, event, left, heard, target, abandoned>>
  BY DEF Settles, Settled, Goto, history
<1>2. AfterDelivery(o) \notin Delivering
  BY DEF AfterDelivery, Reconciles
<1>3. /\ token = o
      /\ \A p \in Callers \ {o} : pc[p] \notin Delivering
  BY <1>1 DEF HolderInv
<1>4. HolderInv'
  BY <1>1, <1>2, <1>3 DEF HolderInv, TypeOK
<1>5. TargetInv'
  BY <1>1, <1>2, <1>3 DEF TargetInv, TypeOK
<1>6. HeardInv'
  BY <1>1 DEF HeardInv
<1>7. FailureInv'
  <2>1. ASSUME NEW s \in Subs, Pending(s) PROVE deliveryErr'
    BY <1>1, <1>3, <2>1 DEF Pending
  <2> QED BY <1>1, <1>3, <2>1 DEF FailureInv, Registered
<1> QED BY <1>4, <1>5, <1>6, <1>7

LEMMA DeliverInvariance == Spec => []DeliverInv
<1>1. Init => DeliverInv
  <2> SUFFICES ASSUME Init PROVE DeliverInv
    OBVIOUS
  <2>1. HolderInv
    BY NobodyAssumption DEF Init, Built, HolderInv, Delivering
  <2>2. TargetInv /\ HeardInv /\ FailureInv
    BY DEF Init, Built, TargetInv, HeardInv, FailureInv, Registered
  <2> QED BY <2>1, <2>2, InitTyped DEF DeliverInv
<1>2. DeliverInv /\ TypeOK' /\ [Next]_vars => DeliverInv'
  <2> SUFFICES ASSUME DeliverInv, TypeOK', [Next]_vars PROVE DeliverInv'
    OBVIOUS
  <2>1. TypeOK
    BY DEF DeliverInv
  <2>2. CASE \E o \in Callers : CallStep(o)
    <3>1. PICK o \in Callers : CallStep(o)
      BY <2>2
    <3>2. CASE DeliveryStep(o)
      BY <2>1, <3>2, OutsideIsAside, AsideKeeps, AcceptsEventKeeps, InvokesKeeps,
         HandlerSucceedsKeeps, HandlerFailsKeeps, AbandonsKeeps, SettlesKeeps
         DEF DeliveryStep
    <3> QED BY <2>1, <3>1, <3>2, OutsideIsAside, AsideKeeps DEF CallStep
  <2> QED BY <2>1, <2>2, EnvironmentIsAside, AsideKeeps DEF Next, Terminated
<1> QED BY <1>1, <1>2, BusTypeCorrect, PTL DEF Spec

\* Whatever publishes, polls and reconciliations overlap, a handler is invoked only
\* with a revision newer than it has handled (core.go:234).
THEOREM DeliveredOnceInOrder == Spec => []HandledOnceInOrder
<1>1. DeliverInv => HandledOnceInOrder
  BY DEF DeliverInv, TargetInv, HandledOnceInOrder
<1> QED BY <1>1, DeliverInvariance, PTL

\* A handler's failure stays visible until it is repaired (core.go:273).
THEOREM FailuresStayVisible == Spec => []FailureIsVisible
<1>1. DeliverInv => FailureIsVisible
  BY NobodyAssumption DEF DeliverInv, FailureInv, Pending, FailureIsVisible
<1> QED BY <1>1, DeliverInvariance, PTL

\* No step takes a subscriber back to an older revision.
THEOREM NoStepGoesBack == Spec => NeverBackwards
<1>1. DeliverInv /\ [Next]_vars => [\A s \in Subs : heard'[s] >= heard[s]]_heard
  <2> SUFFICES ASSUME DeliverInv, [Next]_vars, heard' # heard
               PROVE  \A s \in Subs : heard'[s] >= heard[s]
    OBVIOUS
  <2>1. TypeOK
    BY DEF DeliverInv
  <2>2. ~Aside
    BY DEF Aside
  <2>3. PICK o \in Callers : DeliveryStep(o)
    BY <2>1, <2>2, OutsideIsAside, EnvironmentIsAside DEF Next, CallStep, Terminated
  <2>4. Invokes(o)
    BY <2>1, <2>2, <2>3, OutsideIsAside
       DEF DeliveryStep, AcceptsEvent, HandlerSucceeds, HandlerFails, Abandons, Settles, history
  <2>5. /\ event[o] = lastRevision
        /\ \E s \in Subs : heard' = [heard EXCEPT ![s] = event[o]]
    BY <2>4 DEF Invokes, DeliverInv, HolderInv, Delivering
  <2>6. \A s \in Subs : heard[s] \in Nat /\ heard[s] <= lastRevision
    BY DEF DeliverInv, HeardInv, TypeOK
  <2>7. heard \in [Subs -> Nat]
    BY <2>1 DEF TypeOK
  <2> QED BY <2>5, <2>6, <2>7
<1> QED BY <1>1, DeliverInvariance, PTL DEF Spec, NeverBackwards

-----------------------------------------------------------------------------
(* Close *)

\* What the steps of an admitted call have in common.
Works(o) ==
  /\ pc[o] \in ActiveLabels /\ pc'[o] \in ActiveLabels
  /\ \A p \in Callers \ {o} : pc'[p] = pc[p]
  /\ UNCHANGED <<life, active, status>>

LEMMA WorksKeeps ==
  ASSUME NEW o \in Callers, CloseInv, Works(o)
  PROVE  CloseInv'
BY DEF CloseInv, Works, life, Registered, ActiveLabels

LEMMA AdmittedWorks ==
  ASSUME NEW o \in Callers, TypeOK, DeliveryStep(o) \/ ReconcileStep(o) \/ KeyStep(o)
  PROVE  Works(o)
<1> USE DEF life, core, health, delivery, local, history, Goto, ActiveLabels, Works
<1>1. pc \in [Callers -> Labels]
  BY DEF TypeOK
<1>2. AfterDelivery(o) \in ActiveLabels /\ Reconciles(o) \in ActiveLabels
  BY DEF AfterDelivery, Reconciles
<1>3. CASE DeliveryStep(o)
  <2>1. CASE DropsEvent(o)      BY <1>1, <1>2, <2>1 DEF DropsEvent
  <2>2. CASE AcceptsEvent(o)    BY <1>1, <2>2 DEF AcceptsEvent
  <2>3. CASE GivesUpToken(o)    BY <1>1, <1>2, <2>3 DEF GivesUpToken
  <2>4. CASE Invokes(o)         BY <1>1, <2>4 DEF Invokes
  <2>5. CASE HandlerSucceeds(o) BY <1>1, <2>5 DEF HandlerSucceeds
  <2>6. CASE HandlerFails(o)    BY <1>1, <2>6 DEF HandlerFails
  <2>7. CASE Abandons(o)        BY <1>1, <2>7 DEF Abandons
  <2>8. CASE Settles(o)         BY <1>1, <1>2, <2>8 DEF Settles
  <2> QED BY <1>3, <2>1, <2>2, <2>3, <2>4, <2>5, <2>6, <2>7, <2>8 DEF DeliveryStep
<1>4. CASE ReconcileStep(o)
  <2>1. CASE Observes(o)       BY <1>1, <2>1 DEF Observes
  <2>2. CASE SourceReads(o)    BY <1>1, <1>2, <2>2 DEF SourceReads
  <2>3. CASE SourceFails(o)    BY <1>1, <1>2, <2>3 DEF SourceFails
  <2>4. CASE NotesReconcile(o) BY <1>1, <2>4 DEF NotesReconcile
  <2> QED BY <1>4, <2>1, <2>2, <2>3, <2>4 DEF ReconcileStep
<1>5. CASE KeyStep(o)
  <2> USE DEF ProviderStep
  <2>1. CASE StoreReads(o)
    <3>1. ProviderStep(o, FALSE, "notePoll") \/ ProviderStep(o, FALSE, "set")
      BY <2>1, Zenon DEF StoreReads
    <3>2. pc[o] = "get"
      BY <2>1, Zenon DEF StoreReads
    <3>3. CASE ProviderStep(o, FALSE, "notePoll") BY <1>1, <3>2, <3>3
    <3>4. CASE ProviderStep(o, FALSE, "set")      BY <1>1, <3>2, <3>4
    <3> QED BY <3>1, <3>3, <3>4
  <2>2. CASE StoreReadFails(o)  BY <1>1, <2>2 DEF StoreReadFails
  <2>3. CASE StoreWrites(o)     BY <1>1, <2>3 DEF StoreWrites
  <2>4. CASE StoreWriteFails(o) BY <1>1, <2>4 DEF StoreWriteFails
  <2>5. CASE LoadReads(o)       BY <1>1, <2>5 DEF LoadReads
  <2>6. CASE LoadFails(o)       BY <1>1, <2>6 DEF LoadFails
  <2>7. CASE NotesPoll(o)       BY <1>1, <2>7 DEF NotesPoll
  <2>8. CASE ProbeSucceeds(o)   BY <1>1, <2>8 DEF ProbeSucceeds
  <2>9. CASE ProbeFails(o)      BY <1>1, <2>9 DEF ProbeFails
  <2> QED BY <1>5, <2>1, <2>2, <2>3, <2>4, <2>5, <2>6, <2>7, <2>8, <2>9 DEF KeyStep
<1> QED BY <1>3, <1>4, <1>5

LEMMA CallCloses ==
  ASSUME NEW o \in Callers, TypeOK, CloseInv, Begins(o) \/ Rejected(o) \/ Ends(o)
  PROVE  CloseInv'
<1> USE DEF life, core, Goto, CloseInv, Registered
<1>1. pc \in [Callers -> Labels]
  BY DEF TypeOK
<1>2. CASE Begins(o)
  <2>1. Entry(o) \in ActiveLabels
    BY DEF Entry, ActiveLabels
  <2>2. pc'[o] = Entry(o) /\ active' = active \cup {o} /\ ~closed /\ UNCHANGED <<life, status>>
    BY <1>1, <1>2 DEF Begins, Admits
  <2>3. \A p \in Callers \ {o} : pc'[p] = pc[p]
    BY <1>1, <1>2 DEF Begins
  <2> QED BY <2>1, <2>2, <2>3 DEF ActiveLabels
<1>3. CASE Rejected(o)
  BY <1>1, <1>3 DEF Rejected, ActiveLabels
<1>4. CASE Ends(o)
  BY <1>1, <1>4 DEF Ends, ActiveLabels
<1> QED BY <1>2, <1>3, <1>4

LEMMA LifeCloses ==
  ASSUME NEW o \in Callers, TypeOK, CloseInv, LifeStep(o)
  PROVE  CloseInv'
<1> USE DEF life, core, Goto, CloseInv, Registered, ActiveLabels
<1>1. pc \in [Callers -> Labels]
  BY DEF TypeOK
<1>2. CASE StartBegins(o)   BY <1>1, <1>2 DEF StartBegins, StartAdmitted
<1>3. CASE LifeRejected(o)  BY <1>1, <1>3 DEF LifeRejected
<1>4. CASE StartFinishes(o) BY <1>1, <1>4 DEF StartFinishes
<1>5. CASE NotesStart(o)    BY <1>1, <1>5 DEF NotesStart
<1>6. CASE RunBegins(o)     BY <1>1, <1>6 DEF RunBegins, RunAdmitted
<1>7. CASE PollRefused(o)   BY <1>7 DEF PollRefused, vars
<1>8. CASE RunReturns(o)    BY <1>1, <1>8 DEF RunReturns
<1> QED BY <1>2, <1>3, <1>4, <1>5, <1>6, <1>7, <1>8 DEF LifeStep

LEMMA CloseCloses ==
  ASSUME NEW o \in Callers, TypeOK, CloseInv, CloseStep(o)
  PROVE  CloseInv'
<1> USE DEF life, core, Goto, CloseInv, Registered, ActiveLabels
<1>1. pc \in [Callers -> Labels] /\ status \in [Subs -> {"new", "registered", "gone"}]
  BY DEF TypeOK
<1>2. CASE CloseBegins(o)   BY <1>1, <1>2 DEF CloseBegins
<1>3. CASE CloseCancels(o)  BY <1>1, <1>3 DEF CloseCancels
<1>4. CASE CloseAwaits(o)   BY <1>1, <1>4 DEF CloseAwaits
<1>5. CASE CloseFinishes(o)
  <2>1. Registered' = {}
    BY <1>1, <1>5 DEF CloseFinishes
  <2> QED BY <1>1, <1>5, <2>1 DEF CloseFinishes, NothingActive
<1>6. CASE CloseExpires(o)  BY <1>1, <1>6 DEF CloseExpires
<1> QED BY <1>2, <1>3, <1>4, <1>5, <1>6 DEF CloseStep

LEMMA EnvironmentCloses ==
  ASSUME TypeOK, CloseInv, Environment \/ UNCHANGED vars
  PROVE  CloseInv'
<1> USE DEF life, core, CloseInv, Registered
<1>1. CASE Commit BY <1>1 DEF Commit
<1>2. ASSUME NEW o \in Callers, TimesOut(o) \/ ContextEnds(o) PROVE CloseInv'
  BY <1>2 DEF TimesOut, ContextEnds
<1>3. ASSUME NEW s \in Subs, Subscribes(s) \/ Unsubscribes(s) PROVE CloseInv'
  BY <1>3 DEF Subscribes, Unsubscribes, TypeOK
<1>4. CASE UNCHANGED vars BY <1>4 DEF vars
<1> QED BY <1>1, <1>2, <1>3, <1>4 DEF Environment

LEMMA CloseInvariance == Spec => []CloseInv
<1>1. Init => CloseInv
  BY DEF Init, Built, CloseInv, ActiveLabels
<1>2. TypeOK /\ CloseInv /\ [Next]_vars => CloseInv'
  BY CallCloses, AdmittedWorks, WorksKeeps, LifeCloses, CloseCloses, EnvironmentCloses
     DEF Next, CallStep, Terminated
<1> QED BY <1>1, <1>2, BusTypeCorrect, PTL DEF Spec

\* Once a Close has returned nil nothing runs, polls or is delivered, and nobody is
\* subscribed (core.go:354).
THEOREM ClosedStaysQuiet == Spec => []ClosedIsQuiet
<1>1. DeliverInv /\ CloseInv => ClosedIsQuiet
  <2> SUFFICES ASSUME DeliverInv, CloseInv PROVE ClosedIsQuiet
    OBVIOUS
  <2>1. token \in Callers => token \in active
    BY DEF DeliverInv, HolderInv, Delivering, CloseInv, ActiveLabels
  <2>2. token \in Callers \cup {Nobody}
    BY DEF DeliverInv, TypeOK
  <2> QED BY <2>1, <2>2 DEF CloseInv, ClosedIsQuiet
<1> QED BY <1>1, DeliverInvariance, CloseInvariance, PTL

-----------------------------------------------------------------------------
(* Reconciliation *)

\* What no step undoes: a subscriber told of the last accepted revision stays so, and
\* a newer one is accepted with all who are registered about to be told.
Progress ==
  /\ committed <= committed' /\ lastRevision <= lastRevision'
  /\ lastRevision' <= committed'
  /\ \A s \in Subs : \/ status'[s] = status[s]
                     \/ status[s] = "registered" /\ status'[s] = "gone"
                     \/ status[s] = "new" /\ status'[s] = "registered"
  /\ \A s \in Registered : Told(s) => Told(s)'
  /\ lastRevision' # lastRevision => \A s \in Registered : Told(s)'
  /\ \A s \in Registered : \A n \in 0..lastRevision :
       heard[s] >= n \/ s \in abandoned => heard'[s] >= n \/ s \in abandoned'

\* Nothing of the call itself changes.
Same(p) ==
  /\ pc'[p] = pc[p] /\ event'[p] = event[p] /\ reconciling'[p] = reconciling[p]
  /\ since'[p] = since[p] /\ observed'[p] = observed[p] /\ present'[p] = present[p]
  /\ failed'[p] = failed[p]
  /\ pc[p] \in Delivering => UNCHANGED <<heard, abandoned, left>>

LEMMA SameKnows ==
  ASSUME NEW p \in Callers, TypeOK, TypeOK', Knows(p), Progress, Same(p)
  PROVE  Knows(p)'
<1>1. /\ committed \in Nat /\ committed' \in Nat /\ lastRevision \in Nat /\ lastRevision' \in Nat
      /\ event[p] \in Nat /\ observed[p] \in Nat /\ since[p] \in Nat
      /\ present[p] \subseteq Subs
  BY DEF TypeOK
<1>2. \A s \in present[p] : status'[s] # "new"
  BY <1>1 DEF Knows, Progress
<1>3. Met(p)' \subseteq Met(p)
  BY <1>1 DEF Knows, Progress, Same, Met, Registered
<1>4. Met(p) \subseteq Registered
  BY DEF Met
<1>5. ASSUME NEW n \in Nat, n < lastRevision => \A s \in Met(p) : Told(s)
      PROVE  n < lastRevision' => \A s \in Met(p)' : Told(s)'
  <2>1. CASE lastRevision' = lastRevision
    <3>1. \A s \in Registered : Told(s) => Told(s)'
      BY DEF Progress
    <3> QED BY <1>3, <1>4, <1>5, <2>1, <3>1
  <2>2. CASE lastRevision' # lastRevision
    <3>1. \A s \in Registered : Told(s)'
      BY <2>2 DEF Progress
    <3> QED BY <1>3, <1>4, <3>1
  <2> QED BY <2>1, <2>2
<1>6. /\ committed <= committed' /\ lastRevision <= lastRevision'
      /\ \A s \in Registered : \A n \in 0..lastRevision :
           heard[s] >= n \/ s \in abandoned => heard'[s] >= n \/ s \in abandoned'
  BY DEF Progress
<1>7. /\ event'[p] <= committed'
      /\ reconciling'[p] =>
           pc'[p] \in {"source", "acquire", "deliver", "handling", "noteReconcile", "finish"}
      /\ \A s \in present'[p] : status'[s] # "new"
  BY <1>1, <1>2, <1>6 DEF Knows, Same
<1>8. ASSUME pc'[p] = "source"
      PROVE  /\ reconciling'[p] /\ ~failed'[p] /\ since'[p] <= committed'
             /\ observed'[p] <= lastRevision'
             /\ observed'[p] < lastRevision' => \A s \in Met(p)' : Told(s)'
  <2>1. pc[p] = "source"
    BY <1>8 DEF Same
  <2>2. observed[p] < lastRevision' => \A s \in Met(p)' : Told(s)'
    BY <1>1, <1>5, <2>1 DEF Knows
  <2> QED BY <1>1, <1>6, <2>1, <2>2 DEF Knows, Same
<1>9. ASSUME pc'[p] = "acquire" /\ reconciling'[p]
      PROVE  /\ since'[p] <= event'[p]
             /\ event'[p] < lastRevision' => \A s \in Met(p)' : Told(s)'
  <2>1. pc[p] = "acquire" /\ reconciling[p]
    BY <1>9 DEF Same
  <2>2. event[p] < lastRevision' => \A s \in Met(p)' : Told(s)'
    BY <1>1, <1>5, <2>1 DEF Knows
  <2> QED BY <2>1, <2>2 DEF Knows, Same
<1>10. ASSUME pc'[p] \in Delivering /\ reconciling'[p]
       PROVE  /\ since'[p] <= event'[p]
              /\ \A s \in Met(p)' : heard'[s] >= since'[p] \/ s \in abandoned' \/ s \in left'[p]
  <2>1. pc[p] \in Delivering /\ reconciling[p]
    BY <1>10 DEF Same
  <2> QED BY <1>3, <2>1 DEF Knows, Same
<1>11. ASSUME pc'[p] = "noteReconcile" /\ ~failed'[p]
       PROVE  /\ since'[p] <= lastRevision'
              /\ \A s \in Met(p)' : heard'[s] >= since'[p] \/ s \in abandoned'
  <2>1. pc[p] = "noteReconcile" /\ ~failed[p]
    BY <1>11 DEF Same
  <2>2. /\ since[p] <= lastRevision
        /\ \A s \in Met(p) : heard[s] >= since[p] \/ s \in abandoned
    BY <2>1 DEF Knows
  <2> QED BY <1>1, <1>3, <1>4, <1>6, <2>2 DEF Same
<1> QED BY <1>7, <1>8, <1>9, <1>10, <1>11 DEF Knows

LEMMA AsideProgresses ==
  ASSUME TypeOK, TypeOK', lastRevision <= committed, committed <= committed', Aside
  PROVE  Progress
<1>1. committed \in Nat /\ committed' \in Nat /\ lastRevision \in Nat
  BY DEF TypeOK
<1>2. \A s \in Registered : Told(s) => Told(s)'
  BY DEF Aside, Told
<1> QED BY <1>1, <1>2 DEF Aside, Progress

OthersSame(o) == \A p \in Callers \ {o} : Same(p)

\* The step of a call that is not, or no longer, about a reconciliation.
Leaves(o) ==
  /\ ~reconciling'[o] \/ pc'[o] = "finish"
  /\ pc'[o] \notin {"source", "noteReconcile"}
  /\ event'[o] <= committed' /\ present'[o] \subseteq present[o]
  /\ \A s \in Subs : status[s] # "new" => status'[s] # "new"

LEMMA LeavesKnows ==
  ASSUME NEW o \in Callers, TypeOK, Knows(o), Leaves(o)
  PROVE  Knows(o)'
<1>1. present[o] \subseteq Subs
  BY DEF TypeOK
<1> QED BY <1>1 DEF Knows, Leaves, Delivering

LEMMA BystanderLeaves ==
  ASSUME NEW o \in Callers, TypeOK, Knows(o),
         \/ Begins(o) \/ Rejected(o) \/ Ends(o) \/ NotesReconcile(o)
         \/ KeyStep(o) \/ LifeStep(o) \/ CloseStep(o)
  PROVE  Same(o) \/ Leaves(o)
<1> USE DEF life, core, health, delivery, local, history, Goto, Leaves
<1>1. /\ pc \in [Callers -> Labels] /\ event \in [Callers -> Nat]
      /\ reconciling \in [Callers -> BOOLEAN] /\ present \in [Callers -> SUBSET Subs]
      /\ committed \in Nat
  BY DEF TypeOK
<1>2. /\ event[o] <= committed
      /\ reconciling[o] =>
           pc[o] \in {"source", "acquire", "deliver", "handling", "noteReconcile", "finish"}
  BY DEF Knows
<1>3. Entry(o) \notin {"source", "noteReconcile"}
  BY DEF Entry
<1>4. CASE Begins(o)         BY <1>1, <1>2, <1>3, <1>4 DEF Begins
<1>5. CASE Rejected(o)       BY <1>1, <1>2, <1>5 DEF Rejected
<1>6. CASE Ends(o)           BY <1>1, <1>2, <1>6 DEF Ends
<1>7. CASE NotesReconcile(o) BY <1>1, <1>2, <1>7 DEF NotesReconcile
<1>8. CASE KeyStep(o)
  <2> USE DEF ProviderStep
  <2>1. CASE StoreReads(o)
    <3>1. PICK r \in Stored : event' = [event EXCEPT ![o] = r] \/ event' = event
      BY <2>1, Zenon DEF StoreReads
    <3>2. pc[o] = "get"
      BY <2>1, Zenon DEF StoreReads
    <3>3. ProviderStep(o, FALSE, "notePoll") \/ ProviderStep(o, FALSE, "set")
      BY <2>1, Zenon DEF StoreReads
    <3>4. event'[o] <= committed
      BY <1>1, <1>2, <3>1 DEF Stored
    <3>5. CASE ProviderStep(o, FALSE, "notePoll") BY <1>1, <1>2, <3>2, <3>4, <3>5
    <3>6. CASE ProviderStep(o, FALSE, "set")      BY <1>1, <1>2, <3>2, <3>4, <3>6
    <3> QED BY <3>3, <3>5, <3>6
  <2>2. CASE StoreReadFails(o)  BY <1>1, <1>2, <2>2 DEF StoreReadFails
  <2>3. CASE StoreWrites(o)     BY <1>1, <1>2, <2>3 DEF StoreWrites
  <2>4. CASE StoreWriteFails(o) BY <1>1, <1>2, <2>4 DEF StoreWriteFails
  <2>5. CASE LoadReads(o)       BY <1>1, <1>2, <2>5 DEF LoadReads, Stored
  <2>6. CASE LoadFails(o)       BY <1>1, <1>2, <2>6 DEF LoadFails
  <2>7. CASE NotesPoll(o)       BY <1>1, <1>2, <2>7 DEF NotesPoll
  <2>8. CASE ProbeSucceeds(o)   BY <1>1, <1>2, <2>8 DEF ProbeSucceeds
  <2>9. CASE ProbeFails(o)      BY <1>1, <1>2, <2>9 DEF ProbeFails
  <2> QED BY <1>8, <2>1, <2>2, <2>3, <2>4, <2>5, <2>6, <2>7, <2>8, <2>9 DEF KeyStep
<1>9. CASE LifeStep(o)
  <2>1. CASE StartBegins(o)   BY <1>1, <1>2, <2>1 DEF StartBegins
  <2>2. CASE LifeRejected(o)  BY <1>1, <1>2, <2>2 DEF LifeRejected
  <2>3. CASE StartFinishes(o) BY <1>1, <1>2, <2>3 DEF StartFinishes
  <2>4. CASE NotesStart(o)    BY <1>1, <1>2, <2>4 DEF NotesStart
  <2>5. CASE RunBegins(o)     BY <1>1, <1>2, <2>5 DEF RunBegins
  <2>6. CASE PollRefused(o)   BY <2>6 DEF PollRefused, vars, Same
  <2>7. CASE RunReturns(o)    BY <1>1, <1>2, <2>7 DEF RunReturns
  <2> QED BY <1>9, <2>1, <2>2, <2>3, <2>4, <2>5, <2>6, <2>7 DEF LifeStep
<1>10. CASE CloseStep(o)
  <2>0. status \in [Subs -> {"new", "registered", "gone"}]
    BY DEF TypeOK
  <2>1. CASE CloseBegins(o)   BY <1>1, <1>2, <2>1 DEF CloseBegins
  <2>2. CASE CloseCancels(o)  BY <1>1, <1>2, <2>2 DEF CloseCancels
  <2>3. CASE CloseAwaits(o)   BY <1>1, <1>2, <2>3 DEF CloseAwaits
  <2>4. CASE CloseFinishes(o) BY <1>1, <1>2, <2>0, <2>4 DEF CloseFinishes
  <2>5. CASE CloseExpires(o)  BY <1>1, <1>2, <2>5 DEF CloseExpires
  <2> QED BY <1>10, <2>1, <2>2, <2>3, <2>4, <2>5 DEF CloseStep
<1> QED BY <1>4, <1>5, <1>6, <1>7, <1>8, <1>9, <1>10

\* A step of a call changes nothing of another call's own.
LEMMA StepIsLocal ==
  ASSUME NEW o \in Callers, DeliverInv, CallStep(o)
  PROVE  OthersSame(o) /\ committed' = committed
<1> USE DEF life, core, health, delivery, local, history, Goto, OthersSame, Same, Delivering
<1>1. /\ pc \in [Callers -> Labels] /\ event \in [Callers -> Nat]
      /\ reconciling \in [Callers -> BOOLEAN] /\ present \in [Callers -> SUBSET Subs]
      /\ since \in [Callers -> Nat] /\ observed \in [Callers -> Nat]
      /\ failed \in [Callers -> BOOLEAN]
  BY DEF DeliverInv, TypeOK
<1>2. \A p, q \in Callers : pc[p] \in Delivering /\ pc[q] \in Delivering => p = q
  BY DEF DeliverInv, HolderInv
<1>3. \A p \in Callers : pc[p] \in Delivering => token # Nobody
  BY NobodyAssumption DEF DeliverInv, HolderInv
<1>4. CASE Begins(o) BY <1>1, <1>4 DEF Begins
<1>5. CASE Rejected(o) BY <1>1, <1>5 DEF Rejected
<1>6. CASE Ends(o) BY <1>1, <1>6 DEF Ends
<1>7. CASE DeliveryStep(o)
  <2>1. CASE DropsEvent(o) BY <1>1, <1>2, <1>3, <2>1 DEF DropsEvent
  <2>2. CASE AcceptsEvent(o) BY <1>1, <1>2, <1>3, <2>2 DEF AcceptsEvent, TokenFree
  <2>3. CASE GivesUpToken(o) BY <1>1, <1>2, <1>3, <2>3 DEF GivesUpToken
  <2>4. CASE Invokes(o) BY <1>1, <1>2, <1>3, <2>4 DEF Invokes
  <2>5. CASE HandlerSucceeds(o) BY <1>1, <1>2, <1>3, <2>5 DEF HandlerSucceeds
  <2>6. CASE HandlerFails(o) BY <1>1, <1>2, <1>3, <2>6 DEF HandlerFails
  <2>7. CASE Abandons(o) BY <1>1, <1>2, <1>3, <2>7 DEF Abandons
  <2>8. CASE Settles(o) BY <1>1, <1>2, <1>3, <2>8 DEF Settles
  <2> QED BY <1>7, <2>1, <2>2, <2>3, <2>4, <2>5, <2>6, <2>7, <2>8 DEF DeliveryStep
<1>8. CASE ReconcileStep(o)
  <2>1. CASE Observes(o) BY <1>1, <2>1 DEF Observes
  <2>2. CASE SourceReads(o) BY <1>1, <2>2 DEF SourceReads
  <2>3. CASE SourceFails(o) BY <1>1, <2>3 DEF SourceFails
  <2>4. CASE NotesReconcile(o) BY <1>1, <2>4 DEF NotesReconcile
  <2> QED BY <1>8, <2>1, <2>2, <2>3, <2>4 DEF ReconcileStep
<1>9. CASE KeyStep(o)
  <2> USE DEF ProviderStep
  <2>1. CASE StoreReads(o)
    <3>1. PICK r \in Stored : event' = [event EXCEPT ![o] = r] \/ event' = event
      BY <2>1, Zenon DEF StoreReads
    <3>2. ProviderStep(o, FALSE, "notePoll") \/ ProviderStep(o, FALSE, "set")
      BY <2>1, Zenon DEF StoreReads
    <3>3. CASE ProviderStep(o, FALSE, "notePoll") BY <1>1, <3>1, <3>3
    <3>4. CASE ProviderStep(o, FALSE, "set")      BY <1>1, <3>1, <3>4
    <3> QED BY <3>2, <3>3, <3>4
  <2>2. CASE StoreReadFails(o) BY <1>1, <2>2 DEF StoreReadFails
  <2>3. CASE StoreWrites(o) BY <1>1, <2>3 DEF StoreWrites
  <2>4. CASE StoreWriteFails(o) BY <1>1, <2>4 DEF StoreWriteFails
  <2>5. CASE LoadReads(o) BY <1>1, <2>5 DEF LoadReads
  <2>6. CASE LoadFails(o) BY <1>1, <2>6 DEF LoadFails
  <2>7. CASE NotesPoll(o) BY <1>1, <2>7 DEF NotesPoll
  <2>8. CASE ProbeSucceeds(o) BY <1>1, <2>8 DEF ProbeSucceeds
  <2>9. CASE ProbeFails(o) BY <1>1, <2>9 DEF ProbeFails
  <2> QED BY <1>9, <2>1, <2>2, <2>3, <2>4, <2>5, <2>6, <2>7, <2>8, <2>9 DEF KeyStep
<1>10. CASE LifeStep(o)
  <2>1. CASE StartBegins(o) BY <1>1, <2>1 DEF StartBegins
  <2>2. CASE LifeRejected(o) BY <1>1, <2>2 DEF LifeRejected
  <2>3. CASE StartFinishes(o) BY <1>1, <2>3 DEF StartFinishes
  <2>4. CASE NotesStart(o) BY <1>1, <2>4 DEF NotesStart
  <2>5. CASE RunBegins(o) BY <1>1, <2>5 DEF RunBegins
  <2>6. CASE PollRefused(o) BY <1>1, <2>6 DEF PollRefused, vars
  <2>7. CASE RunReturns(o) BY <1>1, <2>7 DEF RunReturns
  <2> QED BY <1>10, <2>1, <2>2, <2>3, <2>4, <2>5, <2>6, <2>7 DEF LifeStep
<1>11. CASE CloseStep(o)
  <2>1. CASE CloseBegins(o) BY <1>1, <2>1 DEF CloseBegins
  <2>2. CASE CloseCancels(o) BY <1>1, <2>2 DEF CloseCancels
  <2>3. CASE CloseAwaits(o) BY <1>1, <2>3 DEF CloseAwaits
  <2>4. CASE CloseFinishes(o) BY <1>1, <2>4 DEF CloseFinishes
  <2>5. CASE CloseExpires(o) BY <1>1, <2>5 DEF CloseExpires
  <2> QED BY <1>11, <2>1, <2>2, <2>3, <2>4, <2>5 DEF CloseStep
<1> QED BY <1>4, <1>5, <1>6, <1>7, <1>8, <1>9, <1>10, <1>11 DEF CallStep

\* The types the own knowledge of a call rests on.
LEMMA CallTypes ==
  ASSUME NEW o \in Callers, TypeOK
  PROVE  /\ pc \in [Callers -> Labels] /\ event \in [Callers -> Nat]
         /\ reconciling \in [Callers -> BOOLEAN] /\ present \in [Callers -> SUBSET Subs]
         /\ since \in [Callers -> Nat] /\ observed \in [Callers -> Nat]
         /\ failed \in [Callers -> BOOLEAN] /\ left \in [Callers -> SUBSET Subs]
         /\ target \in [Callers -> Subs \cup {0}]
         /\ committed \in Nat /\ lastRevision \in Nat
         /\ heard \in [Subs -> Nat] /\ acked \in [Subs -> Nat]
BY DEF TypeOK

LEMMA DropsEventKnows ==
  ASSUME NEW o \in Callers, TypeOK, HeardInv, ReconcileInv, DropsEvent(o)
  PROVE  Knows(o)'
<1> USE NobodyAssumption, CallTypes
<1>1. /\ pc[o] = "acquire" /\ token = Nobody
      /\ reconciling[o] => event[o] < lastRevision
      /\ pc' = [pc EXCEPT ![o] = AfterDelivery(o)]
      /\ UNCHANGED <<committed, status, lastRevision, heard, abandoned, token, left,
                     event, reconciling, since, observed, present, failed>>
  BY DEF DropsEvent, TokenFree, Superseded, Goto, core, local, history, delivery
<1>2. Knows(o)
  BY DEF ReconcileInv
<1>3. CASE reconciling[o]
  <2>1. pc'[o] \in {"noteReconcile", "finish"}
    BY <1>1, <1>3 DEF AfterDelivery, Reconciles
  <2>2. since[o] <= lastRevision
    BY <1>1, <1>2, <1>3 DEF Knows
  <2>3. \A s \in Met(o) : Told(s)
    BY <1>1, <1>2, <1>3 DEF Knows
  <2>4. \A s \in Met(o) : heard[s] >= since[o] \/ s \in abandoned
    BY <1>1, <2>2, <2>3 DEF Told
  <2>5. Met(o)' = Met(o)
    BY <1>1 DEF Met, Registered
  <2> QED BY <1>1, <1>2, <2>1, <2>2, <2>4, <2>5 DEF Knows, Delivering
<1>4. CASE ~reconciling[o]
  <2>1. pc'[o] \in {"observe", "finish"}
    BY <1>1, <1>4 DEF AfterDelivery
  <2> QED BY <1>1, <1>2, <1>4, <2>1 DEF Knows, Delivering
<1> QED BY <1>3, <1>4

LEMMA GivesUpTokenKnows ==
  ASSUME NEW o \in Callers, TypeOK, ReconcileInv, GivesUpToken(o)
  PROVE  Knows(o)'
<1> USE CallTypes
<1>1. /\ pc[o] = "acquire" /\ failed'[o]
      /\ pc' = [pc EXCEPT ![o] = AfterDelivery(o)]
      /\ UNCHANGED <<committed, status, event, reconciling, present>>
  BY DEF GivesUpToken, Goto, core, history
<1>2. /\ reconciling[o] => pc'[o] \in {"noteReconcile", "finish"}
      /\ ~reconciling[o] => pc'[o] \in {"observe", "finish"}
  BY <1>1 DEF AfterDelivery, Reconciles
<1>3. Knows(o)
  BY DEF ReconcileInv
<1> QED BY <1>1, <1>2, <1>3 DEF Knows, Delivering

LEMMA ObservesKnows ==
  ASSUME NEW o \in Callers, TypeOK, ReconcileInv, Observes(o)
  PROVE  Knows(o)'
<1> USE CallTypes
<1>1. /\ pc'[o] = "source" /\ reconciling'[o] /\ ~failed'[o]
      /\ since'[o] = committed /\ observed'[o] = lastRevision /\ present'[o] = Registered
      /\ UNCHANGED <<committed, status, event, lastRevision>>
  BY DEF Observes, Goto, core, Registered
<1>2. Knows(o)
  BY DEF ReconcileInv
<1> QED BY <1>1, <1>2 DEF Knows, Registered, Delivering

LEMMA SourceReadsKnows ==
  ASSUME NEW o \in Callers, TypeOK, ReconcileInv, SourceReads(o)
  PROVE  Knows(o)'
<1> USE CallTypes
<1>1. /\ pc[o] = "source"
      /\ event' = [event EXCEPT ![o] = IF Eligible(o) THEN committed ELSE 0]
      /\ pc' = [pc EXCEPT ![o] = IF Eligible(o) THEN "acquire" ELSE Reconciles(o)]
      /\ UNCHANGED <<committed, status, lastRevision, heard, abandoned, reconciling,
                     since, present, failed>>
  BY DEF SourceReads, Goto, core, history
<1>2. /\ reconciling[o] /\ since[o] <= committed /\ observed[o] <= lastRevision
      /\ \A s \in present[o] : status[s] # "new"
      /\ lastRevision <= committed
  BY <1>1 DEF ReconcileInv, Knows
<1>3. CASE Eligible(o)
  BY <1>1, <1>2, <1>3 DEF Knows, Delivering
<1>4. CASE ~Eligible(o)
  <2>1. committed = 0 /\ since[o] = 0
    BY <1>2, <1>4 DEF Eligible
  <2>2. pc'[o] \in {"noteReconcile", "finish"} /\ event'[o] = 0
    BY <1>1, <1>4 DEF Reconciles
  <2>3. \A s \in Subs : heard[s] >= 0
    OBVIOUS
  <2>4. Met(o)' \subseteq Subs
    BY <1>1 DEF Met
  <2> QED BY <1>1, <1>2, <2>1, <2>2, <2>3, <2>4 DEF Knows, Delivering
<1> QED BY <1>3, <1>4

LEMMA SourceFailsKnows ==
  ASSUME NEW o \in Callers, TypeOK, ReconcileInv, SourceFails(o)
  PROVE  Knows(o)'
<1> USE CallTypes
<1>1. /\ failed'[o] /\ pc'[o] \in {"noteReconcile", "finish"}
      /\ UNCHANGED <<committed, status, event, reconciling, present>>
  BY DEF SourceFails, Goto, core, history, Reconciles
<1>2. Knows(o)
  BY DEF ReconcileInv
<1> QED BY <1>1, <1>2 DEF Knows, Delivering

\* The steps of a delivery bring it on, and its own call knows it.
LEMMA AcceptsEventProgresses ==
  ASSUME NEW o \in Callers, DeliverInv, ReconcileInv, AcceptsEvent(o)
  PROVE  Progress /\ Knows(o)'
<1>0. TypeOK
  BY DEF DeliverInv
<1> USE <1>0, CallTypes
<1>1. /\ pc[o] = "acquire" /\ token' = o
      /\ event[o] >= lastRevision /\ lastRevision' = event[o]
      /\ pc' = [pc EXCEPT ![o] = "deliver"]
      /\ left' = [left EXCEPT ![o] = {s \in Registered : acked[s] < event[o]}]
      /\ UNCHANGED <<committed, status, acked, heard, abandoned, event, reconciling, since,
                     present>>
  BY DEF AcceptsEvent, Superseded, Goto, history
<1>2. Knows(o) /\ lastRevision <= committed
  BY DEF ReconcileInv
<1>3. \A s \in Subs : acked[s] <= heard[s] /\ heard[s] <= lastRevision
  BY DEF DeliverInv, HeardInv
<1>4. \A s \in Registered : heard[s] = event[o] \/ s \in left'[o]
  <2> SUFFICES ASSUME NEW s \in Registered, heard[s] # event[o]
               PROVE  acked[s] < event[o]
    BY <1>1
  <2>1. s \in Subs /\ heard[s] \in Nat /\ acked[s] \in Nat /\ event[o] \in Nat
    BY DEF Registered
  <2> QED BY <1>1, <1>3, <2>1
<1>5. \A s \in Registered : Told(s)'
  BY <1>1, <1>4 DEF Told
<1>6. event[o] <= committed
  BY <1>2 DEF Knows
<1>7. Progress
  BY <1>1, <1>5, <1>6 DEF Progress
<1>8. reconciling[o] => since[o] <= event[o]
  BY <1>1, <1>2 DEF Knows
<1>9. reconciling[o] =>
        \A s \in Met(o)' : heard[s] >= since[o] \/ s \in left'[o]
  BY <1>1, <1>4, <1>8 DEF Met, Registered
<1> QED BY <1>1, <1>2, <1>7, <1>8, <1>9 DEF Knows, Delivering

LEMMA InvokesProgresses ==
  ASSUME NEW o \in Callers, DeliverInv, ReconcileInv, Invokes(o)
  PROVE  Progress /\ Knows(o)'
<1>0. TypeOK
  BY DEF DeliverInv
<1> USE <1>0, CallTypes, NobodyAssumption
<1>1. PICK s \in Subs :
        /\ s \in left[o]
        /\ left' = [left EXCEPT ![o] = left[o] \ {s}]
        /\ heard' = [heard EXCEPT ![s] = event[o]]
  BY DEF Invokes, FirstLeft
<1>2. /\ pc[o] = "deliver" /\ pc' = [pc EXCEPT ![o] = "handling"]
      /\ UNCHANGED <<committed, status, lastRevision, token, abandoned, event, reconciling,
                     since, present>>
  BY DEF Invokes, Goto, core
<1>3. token = o /\ event[o] = lastRevision
  BY <1>2 DEF DeliverInv, HolderInv, Delivering
<1>4. Knows(o) /\ lastRevision <= committed
  BY DEF ReconcileInv
<1>5. \A t \in Registered : Told(t) => Told(t)'
  <2> SUFFICES ASSUME NEW t \in Registered, Told(t) PROVE Told(t)'
    OBVIOUS
  <2>1. CASE t = s
    BY <1>1, <1>2, <1>3, <2>1 DEF Told
  <2>2. CASE t # s
    BY <1>1, <1>2, <1>3, <2>2 DEF Told, Registered
  <2> QED BY <2>1, <2>2
<1>6. \A t \in Registered : \A n \in 0..lastRevision : heard[t] >= n => heard'[t] >= n
  BY <1>1, <1>3 DEF Registered
<1>7. Progress
  BY <1>2, <1>4, <1>5, <1>6 DEF Progress
<1>8. reconciling[o] =>
        /\ since[o] <= event[o]
        /\ \A t \in Met(o) : heard[t] >= since[o] \/ t \in abandoned \/ t \in left[o]
  BY <1>2, <1>4 DEF Knows, Delivering
<1>9. reconciling[o] =>
        \A t \in Met(o) : heard'[t] >= since[o] \/ t \in abandoned \/ t \in left'[o]
  <2> SUFFICES ASSUME reconciling[o], NEW t \in Met(o)
               PROVE  heard'[t] >= since[o] \/ t \in abandoned \/ t \in left'[o]
    OBVIOUS
  <2>1. t \in Subs
    BY DEF Met
  <2> QED BY <1>1, <1>8, <2>1
<1>10. Met(o)' = Met(o)
  BY <1>2 DEF Met, Registered
<1> QED BY <1>2, <1>4, <1>7, <1>8, <1>9, <1>10 DEF Knows, Delivering

LEMMA HandlerSucceedsProgresses ==
  ASSUME NEW o \in Callers, DeliverInv, ReconcileInv, HandlerSucceeds(o)
  PROVE  Progress /\ Knows(o)'
<1>0. TypeOK
  BY DEF DeliverInv
<1> USE <1>0, CallTypes, NobodyAssumption
<1>1. /\ pc[o] = "handling" /\ pc' = [pc EXCEPT ![o] = "deliver"]
      /\ abandoned' = abandoned \ {target[o]}
      /\ UNCHANGED <<committed, status, lastRevision, token, left, heard, event,
                     reconciling, since, present>>
  BY DEF HandlerSucceeds, Goto
<1>2. event[o] = lastRevision /\ heard[target[o]] = lastRevision
  BY <1>1 DEF DeliverInv, HolderInv, TargetInv, Delivering
<1>3. Knows(o) /\ lastRevision <= committed
  BY DEF ReconcileInv
<1>4. \A t \in Registered : Told(t) => Told(t)'
  BY <1>1, <1>2 DEF Told
<1>5. Progress
  BY <1>1, <1>2, <1>3, <1>4 DEF Progress
<1>6. reconciling[o] =>
        /\ since[o] <= event[o]
        /\ \A t \in Met(o) : heard[t] >= since[o] \/ t \in abandoned' \/ t \in left[o]
  <2> SUFFICES ASSUME reconciling[o]
               PROVE  /\ since[o] <= event[o]
                      /\ \A t \in Met(o) : \/ heard[t] >= since[o] \/ t \in abandoned'
                                          \/ t \in left[o]
    OBVIOUS
  <2>1. /\ since[o] <= event[o]
        /\ \A t \in Met(o) : heard[t] >= since[o] \/ t \in abandoned \/ t \in left[o]
    BY <1>1, <1>3 DEF Knows, Delivering
  <2> QED BY <1>1, <1>2, <2>1
<1>7. Met(o)' = Met(o)
  BY <1>1 DEF Met, Registered
<1> QED BY <1>1, <1>3, <1>5, <1>6, <1>7 DEF Knows, Delivering

LEMMA HandlerFailsProgresses ==
  ASSUME NEW o \in Callers, DeliverInv, ReconcileInv, HandlerFails(o)
  PROVE  Progress /\ Knows(o)'
<1>0. TypeOK
  BY DEF DeliverInv
<1> USE <1>0, CallTypes
<1>1. /\ pc[o] = "handling" /\ pc' = [pc EXCEPT ![o] = "deliver"]
      /\ UNCHANGED <<committed, status, lastRevision, token, abandoned, left, heard, event,
                     reconciling, since, present>>
  BY DEF HandlerFails, Goto, core, history
<1>2. Knows(o) /\ lastRevision <= committed
  BY DEF ReconcileInv
<1>3. Progress
  BY <1>1, <1>2 DEF Progress, Told
<1>4. Met(o)' = Met(o)
  BY <1>1 DEF Met, Registered
<1> QED BY <1>1, <1>2, <1>3, <1>4 DEF Knows, Delivering

LEMMA AbandonsProgresses ==
  ASSUME NEW o \in Callers, DeliverInv, ReconcileInv, Abandons(o)
  PROVE  Progress /\ Knows(o)'
<1>0. TypeOK
  BY DEF DeliverInv
<1> USE <1>0, CallTypes
<1>1. /\ pc[o] = "deliver" /\ pc' = pc
      /\ left' = [left EXCEPT ![o] = {}] /\ abandoned' = abandoned \cup left[o]
      /\ UNCHANGED <<committed, status, lastRevision, token, heard, event, reconciling,
                     since, present>>
  BY DEF Abandons, core
<1>2. token = o
  BY <1>1 DEF DeliverInv, HolderInv, Delivering
<1>3. Knows(o) /\ lastRevision <= committed
  BY DEF ReconcileInv
<1>4. Progress
  BY <1>1, <1>2, <1>3 DEF Progress, Told
<1>5. Met(o)' = Met(o)
  BY <1>1 DEF Met, Registered
<1> QED BY <1>1, <1>3, <1>4, <1>5 DEF Knows, Delivering

LEMMA SettlesProgresses ==
  ASSUME NEW o \in Callers, DeliverInv, ReconcileInv, Settles(o)
  PROVE  Progress /\ Knows(o)'
<1>0. TypeOK
  BY DEF DeliverInv
<1> USE <1>0, CallTypes, NobodyAssumption
<1>1. /\ pc[o] = "deliver" /\ left[o] = {} /\ token' = Nobody
      /\ pc' = [pc EXCEPT ![o] = AfterDelivery(o)]
      /\ UNCHANGED <<committed, status, lastRevision, left, heard, abandoned, event,
                     reconciling, since, present>>
  BY DEF Settles, Goto, history
<1>2. token = o /\ event[o] = lastRevision
  BY <1>1 DEF DeliverInv, HolderInv, Delivering
<1>3. Knows(o) /\ lastRevision <= committed
  BY DEF ReconcileInv
<1>4. Progress
  BY <1>1, <1>2, <1>3 DEF Progress, Told
<1>5. Met(o)' = Met(o)
  BY <1>1 DEF Met, Registered
<1>6. CASE reconciling[o]
  <2>1. pc'[o] \in {"noteReconcile", "finish"}
    BY <1>1, <1>6 DEF AfterDelivery, Reconciles
  <2>2. /\ since[o] <= lastRevision
        /\ \A s \in Met(o) : heard[s] >= since[o] \/ s \in abandoned
    BY <1>1, <1>2, <1>3, <1>6 DEF Knows, Delivering
  <2> QED BY <1>1, <1>3, <1>4, <1>5, <2>1, <2>2 DEF Knows, Delivering
<1>7. CASE ~reconciling[o]
  <2>1. pc'[o] \in {"observe", "finish"}
    BY <1>1, <1>7 DEF AfterDelivery
  <2> QED BY <1>1, <1>3, <1>4, <1>7, <2>1 DEF Knows, Delivering
<1> QED BY <1>6, <1>7

LEMMA DeliveryReconciles ==
  ASSUME NEW o \in Callers, DeliverInv, TypeOK', ReconcileInv, DeliveryStep(o)
  PROVE  Progress /\ Knows(o)'
<1>1. TypeOK /\ HeardInv
  BY DEF DeliverInv
<1>2. CASE DropsEvent(o) \/ GivesUpToken(o)
  <2>1. Aside
    BY <1>1, <1>2, OutsideIsAside
  <2>2. committed' = committed /\ lastRevision <= committed /\ committed \in Nat
    BY <1>1, <1>2, CallTypes DEF DropsEvent, GivesUpToken, ReconcileInv
  <2> QED BY <1>1, <1>2, <2>1, <2>2, AsideProgresses, DropsEventKnows, GivesUpTokenKnows
<1>3. CASE ~(DropsEvent(o) \/ GivesUpToken(o))
  BY <1>3, AcceptsEventProgresses, InvokesProgresses, HandlerSucceedsProgresses,
     HandlerFailsProgresses, AbandonsProgresses, SettlesProgresses DEF DeliveryStep
<1> QED BY <1>2, <1>3

LEMMA OtherReconciles ==
  ASSUME NEW o \in Callers, DeliverInv, TypeOK', ReconcileInv, CallStep(o), ~DeliveryStep(o)
  PROVE  Progress /\ Knows(o)'
<1>1. TypeOK /\ HeardInv
  BY DEF DeliverInv
<1>2. Aside
  BY <1>1, OutsideIsAside DEF CallStep
<1>3. committed' = committed /\ lastRevision <= committed /\ committed \in Nat
  BY <1>1, StepIsLocal, CallTypes DEF ReconcileInv
<1>4. Progress
  BY <1>1, <1>2, <1>3, AsideProgresses
<1>5. Knows(o)
  BY DEF ReconcileInv
<1>6. CASE Observes(o) \/ SourceReads(o) \/ SourceFails(o)
  BY <1>1, <1>4, <1>6, ObservesKnows, SourceReadsKnows, SourceFailsKnows
<1>7. CASE ~(Observes(o) \/ SourceReads(o) \/ SourceFails(o))
  <2>1. Same(o) \/ Leaves(o)
    BY <1>1, <1>5, <1>7, BystanderLeaves DEF CallStep, ReconcileStep
  <2> QED BY <1>1, <1>4, <1>5, <2>1, SameKnows, LeavesKnows
<1> QED BY <1>6, <1>7

LEMMA EnvironmentReconciles ==
  ASSUME TypeOK, TypeOK', ReconcileInv, Environment \/ UNCHANGED vars
  PROVE  ReconcileInv'
<1>1. Aside
  BY EnvironmentIsAside
<1>2. committed <= committed' /\ \A p \in Callers : Same(p)
  <2> USE DEF life, core, health, delivery, local, history, Same
  <2>0. committed \in Nat
    BY DEF TypeOK
  <2>1. CASE Commit BY <2>0, <2>1 DEF Commit
  <2>2. ASSUME NEW o \in Callers, TimesOut(o) \/ ContextEnds(o)
        PROVE  committed <= committed' /\ \A p \in Callers : Same(p)
    BY <2>0, <2>2 DEF TimesOut, ContextEnds
  <2>3. ASSUME NEW s \in Subs, Subscribes(s) \/ Unsubscribes(s)
        PROVE  committed <= committed' /\ \A p \in Callers : Same(p)
    BY <2>0, <2>3 DEF Subscribes, Unsubscribes
  <2>4. CASE UNCHANGED vars BY <2>0, <2>4 DEF vars
  <2> QED BY <2>1, <2>2, <2>3, <2>4 DEF Environment
<1>3. Progress
  BY <1>1, <1>2, AsideProgresses DEF ReconcileInv
<1> QED BY <1>2, <1>3, SameKnows DEF ReconcileInv, Progress

LEMMA ReconcileInvariance == Spec => []ReconcileInv
<1>1. Init => ReconcileInv
  BY DEF Init, Built, ReconcileInv, Knows, Delivering
<1>2. DeliverInv /\ TypeOK' /\ ReconcileInv /\ [Next]_vars => ReconcileInv'
  <2> SUFFICES ASSUME DeliverInv, TypeOK', ReconcileInv, [Next]_vars PROVE ReconcileInv'
    OBVIOUS
  <2>1. TypeOK
    BY DEF DeliverInv
  <2>2. ASSUME NEW o \in Callers, CallStep(o) PROVE ReconcileInv'
    <3>1. Progress /\ Knows(o)'
      BY <2>2, DeliveryReconciles, OtherReconciles
    <3>2. ASSUME NEW p \in Callers \ {o} PROVE Knows(p)'
      <4>1. Same(p) /\ Knows(p)
        BY <2>2, StepIsLocal DEF OthersSame, ReconcileInv
      <4> QED BY <2>1, <3>1, <4>1, SameKnows
    <3> QED BY <3>1, <3>2 DEF ReconcileInv, Progress
  <2> QED BY <2>1, <2>2, EnvironmentReconciles DEF Next, Terminated
<1> QED BY <1>1, <1>2, BusTypeCorrect, DeliverInvariance, PTL DEF Spec

\* Although publishes and other reconciliations may overtake it at every step, a
\* reconciliation of the Redis bus that succeeds leaves no subscriber it met behind a
\* commit it met, unless a delivery was cut short (redis.go:188).
THEOREM ReconciliationInforms == Spec => []ReconcileInforms
<1>1. ReconcileInv => ReconcileInforms
  BY DEF ReconcileInv, Knows, Met, ReconcileInforms
<1> QED BY <1>1, ReconcileInvariance, PTL
=============================================================================
