---------------------------- MODULE EventRuntime ----------------------------
(***************************************************************************)
(* The runtime that owns the authorization event bus                       *)
(* (admin/service/authorization_eventbus.go): Open starts the bus, brings  *)
(* it to the committed revision and makes it the publisher of the policy   *)
(* service, Start reconciles periodically, Close stops the loop, withdraws *)
(* the publisher and closes the bus.  transitionMu serialises Open and     *)
(* Close; Start runs beside both.  Two runtimes may be built over one      *)
(* policy service.  The bus is that of EventBus, seen from outside.        *)
(***************************************************************************)
EXTENDS Naturals, FiniteSets

CONSTANTS Runtimes,
          Opens, EventLoops, Shuts,     \* calls of Open, Start and Close
          Owner(_),                \* the runtime each call is about
          NoRuntime

EventCalls == Opens \cup EventLoops \cup Shuts
ASSUME EventAssumption ==
    /\ NoRuntime \notin Runtimes /\ \A c \in EventCalls : Owner(c) \in Runtimes
    /\ Opens \cap Shuts = {} /\ Opens \cap EventLoops = {} /\ EventLoops \cap Shuts = {}

VARIABLES
    eventFlags,   \* per runtime: opened, attempted, closed, and whether lastErr is set
    eventBus,     \* the bus of each runtime: "built", "started" or "closed"
    subscribed,   \* runtimes whose subscription is live
    loop,         \* per runtime: "none", "live", "cancelled" or "ended"
    publisher,    \* the runtime whose bus the policy service publishes to
    eventCall,    \* where each call stands
    seen          \* what a Close read: "nothing" or "a loop"

eventVars == <<eventFlags, eventBus, subscribed, loop, publisher, eventCall, seen>>

EventTypeOK ==
    /\ eventFlags \in [Runtimes -> [opened : BOOLEAN, attempted : BOOLEAN, closed : BOOLEAN,
                                    degraded : BOOLEAN]]
    /\ eventBus \in [Runtimes -> {"built", "started", "closed"}]
    /\ subscribed \subseteq Runtimes
    /\ loop \in [Runtimes -> {"none", "live", "cancelled", "ended"}]
    /\ publisher \in Runtimes \cup {NoRuntime}
    /\ eventCall \in [EventCalls -> {"idle", "start", "reconcile", "bind", "opened", "cancel",
                                     "wait", "unbind", "closeBus", "mark", "nil", "error", "runs", "shut"}]
    /\ seen \in [Shuts \cup EventLoops -> {"nothing", "a loop"}]

EventInit ==
    /\ eventFlags = [r \in Runtimes |->
          [opened |-> FALSE, attempted |-> FALSE, closed |-> FALSE, degraded |-> FALSE]]
    /\ eventBus = [r \in Runtimes |-> "built"]
    /\ subscribed = Runtimes
    /\ loop = [r \in Runtimes |-> "none"]
    /\ publisher = NoRuntime
    /\ eventCall = [c \in EventCalls |-> "idle"]
    /\ seen = [c \in Shuts \cup EventLoops |-> "nothing"]

(* transitionMu *)
InTransition(c) == eventCall[c] \notin {"idle", "nil", "error", "runs", "shut"}
TransitionIgnored(r) == TRUE
TransitionFree(r) == \A c \in EventCalls : Owner(c) = r => ~InTransition(c)
Proceed(c, s) == eventCall' = [eventCall EXCEPT ![c] = s]
Flag(r, f) == eventFlags' = [eventFlags EXCEPT ![r] = f]
BusBecomes(r, s) == eventBus' = [eventBus EXCEPT ![r] = s]

-----------------------------------------------------------------------------
(* Open                                                                    *)

OpenEnters(c) ==
    LET r == Owner(c) IN
    /\ eventCall[c] = "idle" /\ TransitionFree(r)
    /\ Proceed(c, IF eventFlags[r].closed THEN "error"
                  ELSE IF eventFlags[r].opened THEN "nil" ELSE "start")
    /\ UNCHANGED <<eventFlags, eventBus, subscribed, loop, publisher, seen>>

(* A bus that was closed never starts again.                               *)
OpenStartsBus(c) ==
    LET r == Owner(c) IN
    /\ eventCall[c] = "start"
    /\ \/ /\ eventBus[r] # "closed"
          /\ BusBecomes(r, "started") /\ Proceed(c, "reconcile")
       \/ UNCHANGED eventBus /\ Proceed(c, "error")
    /\ UNCHANGED <<eventFlags, subscribed, loop, publisher, seen>>

OpenReconciles(c) ==
    LET r == Owner(c) IN
    /\ eventCall[c] = "reconcile"
    /\ \/ UNCHANGED eventBus /\ Proceed(c, "bind")
       \/ BusBecomes(r, "closed") /\ Proceed(c, "error")
    /\ UNCHANGED <<eventFlags, subscribed, loop, publisher, seen>>

BindsOver(r) == TRUE
(* bindAuthorizationEventBus: the policy service has one publisher.        *)
MayBind(r) == publisher \in {NoRuntime, r}
OpenBinds(c) ==
    LET r == Owner(c) IN
    /\ eventCall[c] = "bind"
    /\ IF MayBind(r)
         THEN publisher' = r /\ Proceed(c, "opened") /\ UNCHANGED eventBus
         ELSE BusBecomes(r, "closed") /\ Proceed(c, "error") /\ UNCHANGED publisher
    /\ UNCHANGED <<eventFlags, subscribed, loop, seen>>

OpenEnds(c) ==
    LET r == Owner(c) IN
    /\ eventCall[c] = "opened"
    /\ Flag(r, [eventFlags[r] EXCEPT !.opened = TRUE, !.degraded = FALSE])
    /\ Proceed(c, "nil")
    /\ UNCHANGED <<eventBus, subscribed, loop, publisher, seen>>

-----------------------------------------------------------------------------
(* Start                                                                   *)

LoopStarts(c) ==
    LET r == Owner(c) IN
    /\ eventCall[c] = "idle"
    /\ IF ~eventFlags[r].opened \/ eventFlags[r].closed \/ eventFlags[r].attempted
         THEN Proceed(c, "error") /\ UNCHANGED <<eventFlags, loop>>
         ELSE /\ Flag(r, [eventFlags[r] EXCEPT !.attempted = TRUE])
              /\ loop' = [loop EXCEPT ![r] = "live"] /\ Proceed(c, "runs")
    /\ UNCHANGED <<eventBus, subscribed, publisher, seen>>

(* A cycle reads the flags, reconciles, and records how that went.         *)
Cycle(c) ==
    LET r == Owner(c) IN
    /\ eventCall[c] = "runs" /\ loop[r] = "live"
    /\ \E ok \in IF eventFlags[r].opened /\ eventBus[r] = "started" THEN BOOLEAN ELSE {FALSE} :
          Flag(r, [eventFlags[r] EXCEPT !.degraded = ~ok])
    /\ UNCHANGED <<eventBus, subscribed, loop, publisher, eventCall, seen>>

(* The loop ends with its context, and its deferred part closes the        *)
(* runtime: a Close of its own.                                            *)
CallerStopsLoop(c) ==
    LET r == Owner(c) IN
    /\ eventCall[c] = "runs" /\ loop[r] = "live"
    /\ loop' = [loop EXCEPT ![r] = "cancelled"]
    /\ UNCHANGED <<eventFlags, eventBus, subscribed, publisher, eventCall, seen>>
LoopEnds(c) ==
    LET r == Owner(c) IN
    /\ eventCall[c] = "runs" /\ loop[r] = "cancelled"
    /\ loop' = [loop EXCEPT ![r] = "ended"] /\ Proceed(c, "shut")
    /\ UNCHANGED <<eventFlags, eventBus, subscribed, publisher, seen>>

-----------------------------------------------------------------------------
(* Close                                                                   *)

CloseEnters(c) ==
    LET r == Owner(c) IN
    /\ eventCall[c] = (IF c \in EventLoops THEN "shut" ELSE "idle") /\ TransitionFree(r)
    /\ Proceed(c, IF eventFlags[r].closed THEN "nil" ELSE "cancel")
    /\ seen' = [seen EXCEPT ![c] =
          IF ~eventFlags[r].closed /\ loop[r] \in {"live", "cancelled"} THEN "a loop" ELSE "nothing"]
    /\ UNCHANGED <<eventFlags, eventBus, subscribed, loop, publisher>>

NeverCancels(c) == FALSE
CancelsLoop(c) == seen[c] = "a loop" /\ loop[Owner(c)] = "live"
CloseCancels(c) ==
    LET r == Owner(c) IN
    /\ eventCall[c] = "cancel"
    /\ loop' = IF CancelsLoop(c) THEN [loop EXCEPT ![r] = "cancelled"] ELSE loop
    /\ Proceed(c, "wait")
    /\ UNCHANGED <<eventFlags, eventBus, subscribed, publisher, seen>>

NotWaited(c) == TRUE
LoopSeenEnded(c) == seen[c] = "nothing" \/ loop[Owner(c)] = "ended"
CloseWaits(c) ==
    /\ eventCall[c] = "wait"
    /\ \/ LoopSeenEnded(c) /\ Proceed(c, "unbind")
       \/ Proceed(c, "error")
    /\ UNCHANGED <<eventFlags, eventBus, subscribed, loop, publisher, seen>>

CloseUnbinds(c) ==
    LET r == Owner(c) IN
    /\ eventCall[c] = "unbind"
    /\ publisher' = IF publisher = r THEN NoRuntime ELSE publisher
    /\ subscribed' = subscribed \ {r}
    /\ Proceed(c, "closeBus")
    /\ UNCHANGED <<eventFlags, eventBus, loop, seen>>
CloseClosesBus(c) ==
    LET r == Owner(c) IN
    /\ eventCall[c] = "closeBus"
    /\ \/ BusBecomes(r, "closed") /\ Proceed(c, "mark")
       \/ UNCHANGED eventBus /\ Proceed(c, "error")
    /\ UNCHANGED <<eventFlags, subscribed, loop, publisher, seen>>
CloseMarks(c) ==
    LET r == Owner(c) IN
    /\ eventCall[c] = "mark"
    /\ Flag(r, [eventFlags[r] EXCEPT !.closed = TRUE, !.opened = FALSE])
    /\ Proceed(c, "nil")
    /\ UNCHANGED <<eventBus, subscribed, loop, publisher, seen>>

OpenStep(c) == OpenStartsBus(c) \/ OpenReconciles(c) \/ OpenBinds(c) \/ OpenEnds(c)
ShutStep(c) == CloseCancels(c) \/ CloseWaits(c) \/ CloseUnbinds(c) \/ CloseClosesBus(c) \/ CloseMarks(c)
EventNext ==
    \/ \E c \in Opens : OpenEnters(c) \/ OpenStep(c)
    \/ \E c \in EventLoops : LoopStarts(c) \/ Cycle(c) \/ CallerStopsLoop(c) \/ LoopEnds(c)
    \/ \E c \in Shuts \cup EventLoops : CloseEnters(c) \/ ShutStep(c)

EventFairness ==
    /\ \A c \in Opens : WF_eventVars(OpenStep(c))
    /\ \A c \in Shuts \cup EventLoops : WF_eventVars(ShutStep(c))
    /\ \A c \in EventLoops : WF_eventVars(LoopEnds(c)) /\ SF_eventVars(eventCall[c] = "shut" /\ CloseEnters(c))
EventSpec == EventInit /\ [][EventNext]_eventVars /\ EventFairness

-----------------------------------------------------------------------------
(* The policy service publishes only to a bus that is started, and to that *)
(* of an opened runtime until a Close withdraws it, whatever other runtime *)
(* tries to take its place.                                                *)
PublisherIsOpen ==
    /\ publisher # NoRuntime => eventBus[publisher] = "started"
    /\ \A r \in subscribed : eventFlags[r].opened => publisher = r

(* A closed runtime publishes nothing, hears nothing and does not come     *)
(* back.                                                                   *)
ClosedIsWithdrawn ==
    \A r \in Runtimes : eventFlags[r].closed =>
        /\ publisher # r /\ r \notin subscribed /\ eventBus[r] = "closed"
        /\ ~eventFlags[r].opened

(* A Close that succeeded has awaited the loop it found; one admitted      *)
(* after it looked keeps running until its own context ends.               *)
CloseAwaitsItsLoop ==
    \A c \in Shuts : eventCall[c] = "nil" /\ seen[c] = "a loop" => loop[Owner(c)] = "ended"

EventRuntimeIsSound == PublisherIsOpen /\ ClosedIsWithdrawn /\ CloseAwaitsItsLoop

(* A Close that found the loop makes it end, and a loop that ends closes   *)
(* what it ran on, unless that Close fails.                                *)
EventCallsReturn ==
    /\ \A c \in Shuts : (eventCall[c] = "wait" /\ seen[c] = "a loop") ~> loop[Owner(c)] = "ended"
    /\ \A c \in EventLoops : (eventCall[c] = "runs" /\ loop[Owner(c)] = "cancelled")
                                ~> eventCall[c] \in {"nil", "error"}
=============================================================================
