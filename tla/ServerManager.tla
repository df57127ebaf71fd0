--------------------------- MODULE ServerManager ---------------------------
(***************************************************************************)
(* The server manager (mss-boot/core/server/server.go): Start runs every   *)
(* component in a goroutine, the first exit or the caller's cancellation   *)
(* ends them all, and the results are collected until all have arrived or  *)
(* the grace period is over.  The components are the managed HTTP listener *)
(* and the task server: each serves until the shared context ends and then *)
(* drains, within its own timeout, the requests or jobs it still runs.     *)
(***************************************************************************)
EXTENDS Naturals, Sequences, FiniteSets

CONSTANTS Components,
          Stuck           \* components whose work may outlast every timeout

ASSUME ServerAssumption ==
    IsFiniteSet(Components) /\ Stuck \subseteq Components

VARIABLES graceful,       \* whether gracefulShutdownTimeout is positive
          ctxErr,         \* how the caller's context ended, or "none"
          cancelled,      \* the manager called cancel()
          component,      \* the goroutine of each component
          result,         \* what its Start returned
          results,        \* the channel of results
          manager,        \* where Start stands
          received,       \* the results it has taken
          reported,       \* components Start's error speaks of, and how
          timedOut        \* ErrGracefulShutdownTimeout is part of it

serverVars == <<graceful, ctxErr, cancelled, component, result, results, manager, received,
                reported, timedOut>>

Ended == {"nil", "canceled", "deadline", "failed"}
ServerTypeOK ==
    /\ graceful \in BOOLEAN
    /\ ctxErr \in {"none", "canceled", "deadline"} /\ cancelled \in BOOLEAN
    /\ component \in [Components -> {"idle", "serving", "stopping", "returned", "sent"}]
    /\ result \in [Components -> Ended \cup {"none"}]
    /\ results \in Seq(Components) /\ Len(results) <= Cardinality(Components)
    /\ manager \in {"idle", "select", "waiting", "complete", "partial", "done"}
    /\ received \subseteq Components
    /\ reported \subseteq Components \X {"running", "shutdown"}
    /\ timedOut \in BOOLEAN

RunEnded == cancelled \/ ctxErr # "none"      \* runCtx.Err() # nil
Items(s) == {s[n] : n \in 1..Len(s)}

ServerInit ==
    /\ graceful \in BOOLEAN /\ ctxErr = "none" /\ cancelled = FALSE
    /\ component = [c \in Components |-> "idle"]
    /\ result = [c \in Components |-> "none"]
    /\ results = <<>> /\ manager = "idle" /\ received = {}
    /\ reported = {} /\ timedOut = FALSE

ManagerStart ==
    /\ manager = "idle"
    /\ manager' = "select"
    /\ component' = [c \in Components |-> "serving"]
    /\ UNCHANGED <<graceful, ctxErr, cancelled, result, results, received, reported, timedOut>>

(* The choice of a result and cancel() are one step here; the caller's     *)
(* context may end between them and still decide runCtx.Err().             *)
CallerEnds(e) ==
    /\ ctxErr = "none" /\ manager \in {"select", "waiting"}
    /\ ctxErr' = e
    /\ UNCHANGED <<graceful, cancelled, component, result, results, manager, received,
                   reported, timedOut>>

-----------------------------------------------------------------------------
(* Components                                                              *)

Returns(c, e) ==
    /\ component' = [component EXCEPT ![c] = "returned"]
    /\ result' = [result EXCEPT ![c] = e]
    /\ UNCHANGED <<graceful, ctxErr, cancelled, results, manager, received, reported, timedOut>>

(* The listener fails, or a component just returns.                        *)
ExitsAlone(c) ==
    /\ component[c] = "serving"
    /\ \E e \in {"nil", "failed"} : Returns(c, e)

StopsServing(c) ==
    /\ component[c] = "serving" /\ RunEnded
    /\ component' = [component EXCEPT ![c] = "stopping"]
    /\ UNCHANGED <<graceful, ctxErr, cancelled, result, results, manager, received,
                   reported, timedOut>>

(* shutdownWithTimeout: the work drains, or its timeout ends the wait.     *)
Drains(c) == /\ component[c] = "stopping" /\ c \notin Stuck
             /\ \E e \in {"nil", "canceled", "failed"} : Returns(c, e)
ShutdownTimesOut(c) == component[c] = "stopping" /\ Returns(c, "deadline")

Sends(c) ==
    /\ component[c] = "returned"
    /\ component' = [component EXCEPT ![c] = "sent"]
    /\ results' = Append(results, c)
    /\ UNCHANGED <<graceful, ctxErr, cancelled, result, manager, received, reported, timedOut>>

-----------------------------------------------------------------------------
(* Start                                                                   *)

(* shutdownResultError: nil and the matching context error are normal.     *)
CancellationErr == IF ctxErr # "none" THEN ctxErr ELSE "canceled"
NormalWhenDraining(e) == e \in {"nil", "canceled", "deadline"}
Normal(e) == e \in {"nil", "canceled", CancellationErr}
ShutdownErrors(S) == {<<c, "shutdown">> : c \in {d \in S : ~Normal(result[d])}}

CancelsNothing == cancelled
Cancels == TRUE
SelectsCancellation ==
    /\ manager = "select" /\ ctxErr # "none"
    /\ manager' = "waiting" /\ cancelled' = Cancels
    /\ UNCHANGED <<graceful, ctxErr, component, result, results, received, reported, timedOut>>

FirstErrors(c) == IF RunEnded THEN ShutdownErrors({c}) ELSE {<<c, "running">>}
SelectsResult ==
    /\ manager = "select" /\ results # <<>>
    /\ reported' = FirstErrors(Head(results))
    /\ received' = {Head(results)}
    /\ results' = Tail(results)
    /\ manager' = "waiting" /\ cancelled' = Cancels
    /\ UNCHANGED <<graceful, ctxErr, component, result, timedOut>>

(* waitForRunnables                                                        *)
WaitCompletes ==
    /\ manager = "waiting" /\ \A c \in Components : component[c] = "sent"
    /\ manager' = "complete"
    /\ UNCHANGED <<graceful, ctxErr, cancelled, component, result, results, received,
                   reported, timedOut>>
WaitTimesOut ==
    /\ manager = "waiting" /\ graceful
    /\ manager' = "partial" /\ timedOut' = TRUE
    /\ UNCHANGED <<graceful, ctxErr, cancelled, component, result, results, received, reported>>

CollectsNothing(S) == {}
CollectedErrors(S) == ShutdownErrors(S)
(* collectShutdownResults takes what is in the channel.                    *)
Collects ==
    /\ manager \in {"complete", "partial"}
    /\ reported' = reported \cup CollectedErrors(Items(results))
    /\ received' = received \cup Items(results)
    /\ results' = <<>>
    /\ manager' = "done"
    /\ UNCHANGED <<graceful, ctxErr, cancelled, component, result, timedOut>>

ManagerStep == SelectsCancellation \/ SelectsResult \/ WaitCompletes \/ Collects
ComponentStops(c) == StopsServing(c) \/ Drains(c) \/ ShutdownTimesOut(c) \/ Sends(c)
ServerNext ==
    \/ ManagerStart \/ ManagerStep \/ WaitTimesOut
    \/ \E e \in {"canceled", "deadline"} : CallerEnds(e)
    \/ \E c \in Components : ExitsAlone(c) \/ ComponentStops(c)

(* Goroutines run, timers fire; a Stuck component has no timeout of its    *)
(* own that is sure to end it.                                             *)
ServerFairness ==
    /\ WF_serverVars(ManagerStep) /\ WF_serverVars(WaitTimesOut)
    /\ \A c \in Components \ Stuck : WF_serverVars(ComponentStops(c))
ServerSpec == ServerInit /\ [][ServerNext]_serverVars /\ ServerFairness

-----------------------------------------------------------------------------
(* A failure whose result reached the manager before it concluded is part  *)
(* of the error of Start, also when the grace period ran out, and so is a  *)
(* component's own shutdown timeout unless the caller's deadline passed    *)
(* too; nobody is blamed who ended normally after the stop had begun.      *)
FailuresAreReported ==
    manager = "done" => \A c \in Components :
        LET blamed == {<<c, "running">>, <<c, "shutdown">>} \cap reported # {} IN
        /\ c \in received /\ (result[c] = "failed" \/ (result[c] = "deadline" /\ ctxErr # "deadline"))
               => blamed
        /\ <<c, "shutdown">> \in reported => result[c] \in {"failed", "deadline"}

(* Start returns with every component ended and heard, or says that the    *)
(* grace period was exceeded.                                              *)
NothingIsLeftBehind ==
    manager = "done" /\ ~timedOut =>
        received = Components /\ \A c \in Components : component[c] = "sent"

ServerIsSound == FailuresAreReported /\ NothingIsLeftBehind

(* The exit of one component, whatever its result, and the end of the      *)
(* caller's context both end Start and every component that can stop.      *)
FirstExitStopsAll ==
    (manager = "select" /\ (ctxErr # "none" \/ \E c \in Components : component[c] = "sent"))
        ~> /\ manager = "done" \/ (~graceful /\ Stuck # {})
           /\ \A c \in Components \ Stuck : component[c] = "sent"
=============================================================================
