---------------------------- MODULE ResourceGraph ----------------------------
(***************************************************************************)
(* The lifecycle of mss-boot/runtime/resource.Graph: Start, Run, Health,   *)
(* Ready and Close, called concurrently on one graph whose nodes are       *)
(* already sorted by Build (module ResourceOrder).                         *)
(*                                                                         *)
(* A process is one CALL of one of these methods, with a context of its    *)
(* own that the environment may cancel at any moment.  What Graph.mu       *)
(* protects is read and written in one step; everything between two        *)
(* critical sections, and every provider call, is a step of its own.       *)
(***************************************************************************)
EXTENDS Integers, FiniteSets

CONSTANTS
    N,            \* number of nodes; node i is the i-th in topological order
    Deps,         \* [Nodes -> SUBSET Nodes], the dependencies of each node
    Required,     \* nodes declared Required: Start also waits for Ready
    Runners,      \* nodes whose resource implements Runner
    Starters,     \* calls of Start
    RunCallers,   \* calls of Run
    Inspectors,   \* calls of Health or Ready
    Closers,      \* calls of Close
    NoGeneration  \* the nil *closeGeneration

Nodes     == 1..N
Releasers == Starters \cup Closers
Calls     == Starters \cup RunCallers \cup Inspectors \cup Closers

ASSUME NAssumption == N \in Nat
\* What Build guarantees: dependencies precede their dependents.
ASSUME DepsAssumption ==
    Deps \in [Nodes -> SUBSET Nodes] /\ \A i \in Nodes : \A d \in Deps[i] : d < i
ASSUME KindsAssumption == Required \subseteq Nodes /\ Runners \subseteq Nodes
ASSUME CallsAssumption ==
    /\ Starters \cap RunCallers = {} /\ Starters \cap Inspectors = {}
    /\ Starters \cap Closers = {}    /\ RunCallers \cap Inspectors = {}
    /\ RunCallers \cap Closers = {}  /\ Inspectors \cap Closers = {}
    /\ NoGeneration \notin Calls

VARIABLES
    startDone,       \* channel: "nil" before beginStart, "open", "closed"
    startSucceeded,
    startCancelled,  \* the start context was cancelled by startCancel
    runDone,
    runCancelled,
    closeRequested,
    closed,
    activeClose,     \* the Close call that owns the active generation
    inspections,     \* the admitted inspections (the code keeps their number)
    acquired,        \* nodes whose Start was invoked
    closedNodes,     \* nodes whose Close returned nil
    established,     \* history: Start, and Ready if required, returned nil
    runner,          \* [Runners -> state of the goroutine around Runner.Run]
    runnerErr,       \* [Runners -> what Run returned]
    runnerCtxErr,    \* [Runners -> runCtx.Err() /= nil when it was reported]
    pc, ctx,         \* per call: where it is; its context is live
    at,              \* per call: the node its loop is at
    todo,            \* per call: nodes closeIndexes has still to visit
    failed,          \* per call: the result holds an error
    joined,          \* per call: the generation it waits for
    rollbackLive     \* the rollback context has not timed out

startVars == <<startDone, startSucceeded, startCancelled, established>>
runVars   == <<runDone, runCancelled, runner, runnerErr, runnerCtxErr>>
closeVars == <<closeRequested, closed, activeClose>>
nodeVars  == <<acquired, closedNodes>>
graphVars == <<startVars, runVars, closeVars, nodeVars, inspections>>
envVars   == <<ctx, rollbackLive>>
callVars  == <<at, todo, failed, joined>>
vars == <<graphVars, envVars, callVars, pc>>

\* A call reaches a label, or returns with or without an error.
Goto(p, label)   == pc' = [pc EXCEPT ![p] = label]
Return(p, error) == Goto(p, "done") /\ failed' = [failed EXCEPT ![p] = @ \/ error]

\* A loop over the nodes has one left.
InLoopOnePastTheEnd(p) == at[p] \in 1..(N + 1)
InLoop(p) == at[p] \in Nodes

StartCtx(s) == ctx[s] /\ ~startCancelled
RunCtx      == ~runCancelled /\ \A r \in RunCallers : pc[r] = "collect" => ctx[r]
\* The context closeIndexes works under: the rollback's own, or the caller's.
ReleaseCtx(p) == IF p \in Starters THEN rollbackLive ELSE ctx[p]

Open      == acquired \ closedNodes      \* openIndexesLocked
AllClosed == Open = {}                   \* allClosedLocked

Init ==
    /\ startDone = "nil" /\ startSucceeded = FALSE /\ startCancelled = FALSE
    /\ runDone = "nil" /\ runCancelled = FALSE
    /\ closeRequested = FALSE /\ closed = FALSE /\ activeClose = NoGeneration
    /\ inspections = {} /\ acquired = {} /\ closedNodes = {} /\ established = {}
    /\ runner = [i \in Runners |-> "idle"]
    /\ runnerErr = [i \in Runners |-> "nil"]
    /\ runnerCtxErr = [i \in Runners |-> FALSE]
    /\ pc = [p \in Calls |-> "idle"]
    /\ ctx = [p \in Calls |-> TRUE]
    /\ at = [p \in Calls |-> 0]
    /\ todo = [p \in Calls |-> {}]
    /\ failed = [p \in Calls |-> FALSE]
    /\ joined = [p \in Calls |-> NoGeneration]
    /\ rollbackLive = TRUE

-----------------------------------------------------------------------------
(* Start *)

StartAdmittedAfterClose(s) == ctx[s] /\ startDone = "nil"
StartAdmitted(s) == ctx[s] /\ startDone = "nil" /\ ~closeRequested /\ ~closed

StartBegin(s) ==
    /\ pc[s] = "idle" /\ StartAdmitted(s)
    /\ startDone' = "open"
    /\ Goto(s, "next") /\ at' = [at EXCEPT ![s] = 1]
    /\ UNCHANGED <<startSucceeded, startCancelled, established, runVars,
                   closeVars, nodeVars, inspections, envVars, todo, failed,
                   joined>>

StartReject(s) ==
    /\ pc[s] = "idle" /\ ~StartAdmitted(s)
    /\ Return(s, TRUE)
    /\ UNCHANGED <<graphVars, envVars, at, todo, joined>>

\* rollbackStartup: closeIndexes over everything acquired.
Rollback(s) ==
    /\ Goto(s, "release")
    /\ todo' = [todo EXCEPT ![s] = acquired]
    /\ failed' = [failed EXCEPT ![s] = TRUE]

\* The node becomes acquired immediately before its Start is invoked.
StartNode(s) ==
    /\ pc[s] = "next" /\ InLoop(s) /\ StartCtx(s)
    /\ acquired' = acquired \cup {at[s]}
    /\ Goto(s, "starting")
    /\ UNCHANGED <<startVars, runVars, closeVars, closedNodes, inspections,
                   envVars, callVars>>

\* Start of a required node returned nil: its Ready is called next.
StartNeverAwaitsReady(s) ==
    /\ pc[s] = "starting" /\ at[s] \in Required
    /\ Goto(s, "next") /\ at' = [at EXCEPT ![s] = @ + 1]
    /\ UNCHANGED <<graphVars, envVars, todo, failed, joined>>

StartAwaitsReady(s) ==
    /\ pc[s] = "starting" /\ at[s] \in Required
    /\ Goto(s, "readying")
    /\ UNCHANGED <<graphVars, envVars, callVars>>

\* Start, or Ready if the node is required, returned nil.
StartEstablishes(s) ==
    /\ pc[s] = IF at[s] \in Required THEN "readying" ELSE "starting"
    /\ established' = established \cup {at[s]}
    /\ Goto(s, "next") /\ at' = [at EXCEPT ![s] = @ + 1]
    /\ UNCHANGED <<startDone, startSucceeded, startCancelled, runVars,
                   closeVars, nodeVars, inspections, envVars, todo, failed,
                   joined>>

\* resource.Start or readiness.Ready returned an error.
StartFails(s) ==
    /\ pc[s] \in {"starting", "readying"}
    /\ Rollback(s)
    /\ UNCHANGED <<graphVars, envVars, at, joined>>

\* The start context is cancelled, or every node is up but Close came first.
StartAborts(s) ==
    /\ pc[s] = "next"
    /\ ~StartCtx(s) \/ (at[s] = N + 1 /\ closeRequested)
    /\ Rollback(s)
    /\ UNCHANGED <<graphVars, envVars, at, joined>>

\* Every node is up: success is decided under the lock, against closeRequested.
StartAlwaysWins == TRUE
StartWins       == ~closeRequested

StartSucceeds(s) ==
    /\ pc[s] = "next" /\ at[s] = N + 1 /\ StartCtx(s) /\ StartWins
    /\ startSucceeded' = TRUE
    /\ Goto(s, "finish")
    /\ UNCHANGED <<startDone, startCancelled, established, runVars, closeVars,
                   nodeVars, inspections, envVars, callVars>>

\* The deferred cancel and finishStart.
StartFinish(s) ==
    /\ pc[s] = "finish"
    /\ startSucceeded' = ~failed[s]
    /\ startCancelled' = TRUE
    /\ startDone' = "closed"
    /\ Return(s, FALSE)
    /\ UNCHANGED <<established, runVars, closeVars, nodeVars, inspections,
                   envVars, at, todo, joined>>
-----------------------------------------------------------------------------
(* closeIndexes, run by a Start that rolls back and by an owner of a Close   *)
(* generation: reverse order, best effort while the context is live.         *)

TopologicallyFirst(p, i) == \A j \in todo[p] : i <= j
TopologicallyLast(p, i)  == \A j \in todo[p] : j <= i

ReleaseNode(p) ==
    /\ pc[p] = "release" /\ ReleaseCtx(p)
    /\ \E i \in todo[p] :
         /\ TopologicallyLast(p, i)
         /\ todo' = [todo EXCEPT ![p] = @ \ {i}]
         /\ at' = [at EXCEPT ![p] = i]
         /\ Goto(p, IF i \in closedNodes THEN "release" ELSE "closing")
    /\ UNCHANGED <<graphVars, envVars, failed, joined>>

\* Where a pass goes after a provider's Close returned.
AfterFailFast(p, error) == IF ReleaseCtx(p) /\ ~error THEN "release" ELSE "finish"
After(p, error)         == IF ReleaseCtx(p) THEN "release" ELSE "finish"

\* resource.Close returned; an expired context ends the pass with its error.
ReleaseReturns(p, error) ==
    /\ pc[p] = "closing"
    /\ closedNodes' = IF error THEN closedNodes ELSE closedNodes \cup {at[p]}
    /\ failed' = [failed EXCEPT ![p] = @ \/ error \/ ~ReleaseCtx(p)]
    /\ Goto(p, After(p, error))
    /\ UNCHANGED <<startVars, runVars, closeVars, acquired, inspections,
                   envVars, at, todo, joined>>

\* The loop ends: nothing is left, or the context has expired between nodes.
ReleaseEnds(p) ==
    /\ pc[p] = "release" /\ (todo[p] = {} \/ ~ReleaseCtx(p))
    /\ failed' = [failed EXCEPT ![p] = @ \/ todo[p] # {}]
    /\ Goto(p, "finish")
    /\ UNCHANGED <<graphVars, envVars, at, todo, joined>>
-----------------------------------------------------------------------------
(* Run: one collector and one goroutine per Runner. *)

RunAdmitted(r) ==
    ctx[r] /\ startSucceeded /\ ~closeRequested /\ ~closed /\ runDone = "nil"

RunBegin(r) ==
    /\ pc[r] = "idle" /\ RunAdmitted(r)
    /\ runDone' = "open"
    /\ runner' = [i \in Runners |-> "running"]
    /\ Goto(r, "collect")
    /\ UNCHANGED <<startVars, runCancelled, runnerErr, runnerCtxErr, closeVars,
                   nodeVars, inspections, envVars, callVars>>

RunReject(r) ==
    /\ pc[r] = "idle" /\ ~RunAdmitted(r)
    /\ Return(r, TRUE)
    /\ UNCHANGED <<graphVars, envVars, at, todo, joined>>

\* Runner.Run returns nil, an error that is only the context's, or a fault.
RunnerReturns(i, err) ==
    /\ runner[i] = "running"
    /\ err = "ctx" => ~RunCtx
    /\ runner' = [runner EXCEPT ![i] = "returned"]
    /\ runnerErr' = [runnerErr EXCEPT ![i] = err]
    /\ UNCHANGED <<startVars, runDone, runCancelled, runnerCtxErr, closeVars,
                   nodeVars, inspections, pc, envVars, callVars>>

\* The goroutine samples runCtx.Err() after Run returned, and sends both.
RunnerReports(i) ==
    /\ runner[i] = "returned"
    /\ runner' = [runner EXCEPT ![i] = "sent"]
    /\ runnerCtxErr' = [runnerCtxErr EXCEPT ![i] = ~RunCtx]
    /\ UNCHANGED <<startVars, runDone, runCancelled, runnerErr, closeVars,
                   nodeVars, inspections, pc, envVars, callVars>>

\* nil after cancellation, and a pure context error, are a normal stop.
UnexpectedNil(i) == runnerErr[i] \in {"fault", "nil"}
Unexpected(i) == runnerErr[i] = "fault" \/ (runnerErr[i] = "nil" /\ ~runnerCtxErr[i])

\* The results channel is buffered: reports may be taken in any order they
\* were sent in, and Run joins them, so the order is not kept.
CancelNoPeer(i) == UNCHANGED runCancelled
CancelPeers(i)  == runCancelled' = (runCancelled \/ Unexpected(i))

RunCollect(r, i) ==
    /\ pc[r] = "collect" /\ runner[i] = "sent"
    /\ runner' = [runner EXCEPT ![i] = "collected"]
    /\ failed' = [failed EXCEPT ![r] = @ \/ Unexpected(i)]
    /\ CancelPeers(i)
    /\ UNCHANGED <<startVars, runDone, runnerErr, runnerCtxErr, closeVars,
                   nodeVars, inspections, pc, envVars, at, todo, joined>>

\* The deferred cancel and finishRun, after the last result.
RunFinish(r) ==
    /\ pc[r] = "collect" /\ \A i \in Runners : runner[i] = "collected"
    /\ runDone' = "closed" /\ runCancelled' = TRUE
    /\ Return(r, ~ctx[r] /\ Runners # {})
    /\ UNCHANGED <<startVars, runner, runnerErr, runnerCtxErr, closeVars,
                   nodeVars, inspections, envVars, at, todo, joined>>
-----------------------------------------------------------------------------
(* Health and Ready: the same loop over every node. *)

InspectAdmitted(q) == ctx[q] /\ startSucceeded /\ ~closeRequested /\ ~closed

InspectBegin(q) ==
    /\ pc[q] = "idle" /\ InspectAdmitted(q)
    /\ inspections' = inspections \cup {q}
    /\ Goto(q, "inspect") /\ at' = [at EXCEPT ![q] = 1]
    /\ UNCHANGED <<startVars, runVars, closeVars, nodeVars, envVars, todo,
                   failed, joined>>

InspectReject(q) ==
    /\ pc[q] = "idle" /\ ~InspectAdmitted(q)
    /\ Return(q, TRUE)
    /\ UNCHANGED <<graphVars, envVars, at, todo, joined>>

InspectNode(q, error) ==
    /\ pc[q] = "inspect" /\ InLoop(q) /\ ctx[q]
    /\ failed' = [failed EXCEPT ![q] = @ \/ error]
    /\ at' = [at EXCEPT ![q] = @ + 1]
    /\ UNCHANGED <<graphVars, pc, envVars, todo, joined>>

FinishUnlessExpired(q) == inspections' = IF ctx[q] THEN inspections \ {q} ELSE inspections
FinishInspection(q)    == inspections' = inspections \ {q}

InspectEnd(q) ==
    /\ pc[q] = "inspect" /\ (at[q] = N + 1 \/ ~ctx[q])
    /\ FinishInspection(q)
    /\ Return(q, ~ctx[q])
    /\ UNCHANGED <<startVars, runVars, closeVars, nodeVars, envVars, at, todo,
                   joined>>
-----------------------------------------------------------------------------
(* Close *)

CloseAgain(c) ==
    /\ pc[c] = "idle" /\ closed
    /\ Return(c, FALSE)
    /\ UNCHANGED <<graphVars, envVars, at, todo, joined>>

CloseRequest(c) ==
    /\ pc[c] = "idle" /\ ~closed
    /\ closeRequested' = TRUE
    /\ Goto(c, "cancel")
    /\ UNCHANGED <<startVars, runVars, closed, activeClose, nodeVars,
                   inspections, envVars, callVars>>

CancelNoRun == UNCHANGED runCancelled
CancelRun   == runCancelled' = (runCancelled \/ runDone = "open")

\* startCancel and runCancel, then the first look at the caller's context.
CloseCancel(c) ==
    /\ pc[c] = "cancel"
    /\ startCancelled' = (startCancelled \/ startDone = "open")
    /\ CancelRun
    /\ Goto(c, IF ctx[c] THEN "awaitStart" ELSE "done")
    /\ failed' = [failed EXCEPT ![c] = ~ctx[c]]
    /\ UNCHANGED <<startDone, startSucceeded, established, runDone, runner,
                   runnerErr, runnerCtxErr, closeVars, nodeVars, inspections,
                   envVars, at, todo, joined>>

\* One of waitForLifecycle(startDone), waitForLifecycle(runDone) and
\* waitForInspections comes to its end.
Await(c, label, over, nextLabel) ==
    /\ pc[c] = label /\ over
    /\ Goto(c, nextLabel)
    /\ UNCHANGED <<graphVars, envVars, callVars>>

CloseSkipsRun(c) == Await(c, "awaitRun", TRUE, "awaitInspections")
CloseAwaitStart(c) == Await(c, "awaitStart", startDone # "open", "awaitRun")
CloseAwaitRun(c)   == Await(c, "awaitRun", runDone # "open", "awaitInspections")
CloseAwaitInspections(c) == Await(c, "awaitInspections", inspections = {}, "claim")

\* The caller's context expires first in one of the four selects.
SelectsWithoutInspections == {"awaitStart", "awaitRun", "join"}
SelectsWithoutJoin == {"awaitStart", "awaitRun", "awaitInspections"}
Selects == {"awaitStart", "awaitRun", "awaitInspections", "join"}

CloseExpires(c) ==
    /\ pc[c] \in Selects /\ ~ctx[c]
    /\ Return(c, TRUE)
    /\ UNCHANGED <<graphVars, envVars, at, todo, joined>>

CloseNothingOpen(c) ==
    /\ pc[c] = "claim" /\ AllClosed
    /\ closed' = TRUE
    /\ Return(c, FALSE)
    /\ UNCHANGED <<startVars, runVars, closeRequested, activeClose, nodeVars,
                   inspections, envVars, at, todo, joined>>

CloseJoin(c) ==
    /\ pc[c] = "claim" /\ ~AllClosed /\ activeClose # NoGeneration
    /\ joined' = [joined EXCEPT ![c] = activeClose]
    /\ Goto(c, "join")
    /\ UNCHANGED <<graphVars, envVars, at, todo, failed>>

\* A generation of its own, when there is no active one.
MayClaimAlways == ~AllClosed
MayClaim       == ~AllClosed /\ activeClose = NoGeneration

CloseClaim(c) ==
    /\ pc[c] = "claim" /\ MayClaim
    /\ activeClose' = c
    /\ todo' = [todo EXCEPT ![c] = Open]
    /\ Goto(c, "release")
    /\ UNCHANGED <<startVars, runVars, closeRequested, closed, nodeVars,
                   inspections, envVars, at, failed, joined>>

\* The owner publishes the result of its generation and closes done.
ClosePublish(c) ==
    /\ pc[c] = "finish"
    /\ closed' = (closed \/ AllClosed)
    /\ activeClose' = NoGeneration
    /\ Return(c, FALSE)
    /\ UNCHANGED <<startVars, runVars, closeRequested, nodeVars, inspections,
                   envVars, at, todo, joined>>

\* waitForCloseGeneration: the joiner returns the owner's result.
NilResult(c)  == FALSE
JoinResult(c) == failed[joined[c]]

CloseJoined(c) ==
    /\ pc[c] = "join" /\ pc[joined[c]] = "done"
    /\ Return(c, JoinResult(c))
    /\ UNCHANGED <<graphVars, envVars, at, todo, joined>>
-----------------------------------------------------------------------------
(* The environment: contexts expire. *)

CancelCtx(p) ==
    /\ ctx[p] /\ pc[p] # "done"
    /\ ctx' = [ctx EXCEPT ![p] = FALSE]
    /\ UNCHANGED <<graphVars, pc, callVars, rollbackLive>>

\* The defaultRollbackTimeout elapses.
RollbackTimeout ==
    /\ rollbackLive /\ \E s \in Starters : pc[s] \in {"release", "closing"}
    /\ rollbackLive' = FALSE
    /\ UNCHANGED <<graphVars, pc, ctx, callVars>>

\* Every call has returned.
Terminated == (\A p \in Calls : pc[p] = "done") /\ UNCHANGED vars

StartStep(s) ==
    \/ StartBegin(s) \/ StartReject(s) \/ StartNode(s) \/ StartAwaitsReady(s)
    \/ StartEstablishes(s) \/ StartFails(s) \/ StartAborts(s)
    \/ StartSucceeds(s) \/ StartFinish(s)

ReleaseStep(p) ==
    \/ ReleaseNode(p) \/ ReleaseEnds(p)
    \/ \E error \in BOOLEAN : ReleaseReturns(p, error)

RunStep(r) ==
    \/ RunBegin(r) \/ RunReject(r) \/ RunFinish(r)
    \/ \E i \in Runners : RunCollect(r, i)

RunnerStep(i) ==
    \/ \E err \in {"nil", "ctx", "fault"} : RunnerReturns(i, err)
    \/ RunnerReports(i)

InspectStep(q) ==
    \/ InspectBegin(q) \/ InspectReject(q) \/ InspectEnd(q)
    \/ \E error \in BOOLEAN : InspectNode(q, error)

CloseStep(c) ==
    \/ CloseAgain(c) \/ CloseRequest(c) \/ CloseCancel(c)
    \/ CloseAwaitStart(c) \/ CloseAwaitRun(c) \/ CloseAwaitInspections(c)
    \/ CloseExpires(c) \/ CloseNothingOpen(c) \/ CloseJoin(c) \/ CloseClaim(c)
    \/ ClosePublish(c) \/ CloseJoined(c)

Next ==
    \/ \E s \in Starters : StartStep(s)
    \/ \E p \in Releasers : ReleaseStep(p)
    \/ \E r \in RunCallers : RunStep(r)
    \/ \E i \in Runners : RunnerStep(i)
    \/ \E q \in Inspectors : InspectStep(q)
    \/ \E c \in Closers : CloseStep(c)
    \/ \E p \in Calls : CancelCtx(p)
    \/ RollbackTimeout
    \/ Terminated

Spec == Init /\ [][Next]_vars

-----------------------------------------------------------------------------
(* Fairness.  The goroutine of an admitted call keeps running, timers fire,  *)
(* and a provider honours its context (the doc comments of Starter, Runner   *)
(* and Closer require it): a provider call returns once its context is       *)
(* cancelled.  Nothing makes a provider return while its context is live,    *)
(* nothing makes a call happen and nothing makes a context expire.           *)

CloseFairness(c) ==
    /\ WF_vars(pc[c] # "idle" /\ CloseStep(c))
    /\ WF_vars(ReleaseNode(c) \/ ReleaseEnds(c))
    /\ WF_vars(~ctx[c] /\ \E error \in BOOLEAN : ReleaseReturns(c, error))

StartFairness(s) ==
    /\ WF_vars(StartNode(s) \/ StartAborts(s) \/ StartSucceeds(s) \/ StartFinish(s))
    /\ WF_vars(/\ ~StartCtx(s)
               /\ StartAwaitsReady(s) \/ StartEstablishes(s) \/ StartFails(s))
    /\ WF_vars(ReleaseNode(s) \/ ReleaseEnds(s))
    /\ WF_vars(~rollbackLive /\ \E error \in BOOLEAN : ReleaseReturns(s, error))

RunFairness ==
    /\ \A r \in RunCallers : WF_vars(pc[r] = "collect" /\ RunStep(r))
    /\ \A i \in Runners :
         /\ WF_vars(RunnerReports(i))
         /\ WF_vars(~RunCtx /\ \E err \in {"nil", "ctx", "fault"} : RunnerReturns(i, err))

Fairness ==
    /\ \A c \in Closers : CloseFairness(c)
    /\ \A s \in Starters : StartFairness(s)
    /\ RunFairness
    /\ WF_vars(RollbackTimeout)

FairSpec == Spec /\ Fairness

\* In addition, the environment's providers always return in the end.
ProvidersReturn ==
    /\ \A p \in Releasers :
         WF_vars(\E error \in BOOLEAN : ReleaseReturns(p, error))
    /\ \A s \in Starters :
         WF_vars(StartAwaitsReady(s) \/ StartEstablishes(s) \/ StartFails(s))
    /\ \A q \in Inspectors : WF_vars(pc[q] = "inspect" /\ InspectStep(q))
-----------------------------------------------------------------------------
(* Properties *)

StartLabels == {"idle", "next", "starting", "readying", "release", "closing",
                "finish", "done"}
CloseLabels == {"idle", "cancel", "awaitStart", "awaitRun", "awaitInspections",
                "claim", "join", "release", "closing", "finish", "done"}
RunLabels     == {"idle", "collect", "done"}
InspectLabels == {"idle", "inspect", "done"}
Labels == StartLabels \cup CloseLabels \cup RunLabels \cup InspectLabels

\* Every variable has its type.
TypeOK ==
    /\ startDone \in {"nil", "open", "closed"} /\ runDone \in {"nil", "open", "closed"}
    /\ startSucceeded \in BOOLEAN /\ startCancelled \in BOOLEAN
    /\ runCancelled \in BOOLEAN /\ rollbackLive \in BOOLEAN
    /\ closeRequested \in BOOLEAN /\ closed \in BOOLEAN
    /\ activeClose \in Closers \cup {NoGeneration}
    /\ inspections \subseteq Inspectors
    /\ acquired \subseteq Nodes /\ closedNodes \subseteq Nodes
    /\ established \subseteq Nodes
    /\ runner \in [Runners -> {"idle", "running", "returned", "sent", "collected"}]
    /\ runnerErr \in [Runners -> {"nil", "ctx", "fault"}]
    /\ runnerCtxErr \in [Runners -> BOOLEAN]
    /\ pc \in [Calls -> Labels]
    /\ \A s \in Starters : pc[s] \in StartLabels
    /\ \A r \in RunCallers : pc[r] \in RunLabels
    /\ \A q \in Inspectors : pc[q] \in InspectLabels
    /\ \A c \in Closers : pc[c] \in CloseLabels
    /\ ctx \in [Calls -> BOOLEAN]
    /\ at \in [Calls -> 0..(N + 1)]
    /\ todo \in [Calls -> SUBSET Nodes]
    /\ failed \in [Calls -> BOOLEAN]
    /\ joined \in [Calls -> Closers \cup {NoGeneration}]

\* The graph is releasing resources, from the first provider Close of a pass to
\* the publication of its result.
Releasing(p) == p \in Releasers /\ pc[p] \in {"release", "closing", "finish"}

\* A provider is inside Start, Ready, Run or Health.
InUse ==
    \/ \E s \in Starters : pc[s] \in {"starting", "readying"}
    \/ \E i \in Runners : runner[i] \in {"running", "returned", "sent"}
    \/ inspections # {}

\* While one pass closes providers no other pass does, and no provider is inside
\* Start, Ready, Run or an inspection: the waits of Close, the refusals of
\* beginStart, beginRun and beginInspection after closeRequested, and the
\* single active generation together exclude them.
ReleaseIsExclusive ==
    \A p \in Releasers : pc[p] = "closing" =>
        /\ ~InUse
        /\ \A other \in Releasers \ {p} : pc[other] # "closing"

\* A dependency is closed only after every acquired dependent was closed or at
\* least attempted by this pass: closeIndexes goes in reverse topological order.
DependentsCloseFirst ==
    \A p \in Releasers : pc[p] = "closing" =>
        \A d \in acquired : at[p] \in Deps[d] => d \notin todo[p]

\* A resource is started only when its dependencies are started and, if they are
\* required, ready; and nothing is reported started while a node is not.
DependenciesAreUp ==
    /\ \A i \in acquired : Deps[i] \subseteq established
    /\ startSucceeded => established = Nodes

\* A Close that returned nil left nothing acquired and nothing in use, then and
\* for good: it waited for the Start, the Run and the inspections it raced.
NilCloseMeansReleased ==
    (\E c \in Closers : pc[c] = "done" /\ ~failed[c]) =>
        AllClosed /\ ~InUse /\ startDone # "open" /\ runDone # "open"

\* A pass visits every node it set out to close, whatever the providers answer,
\* unless its context expired: one failing Close does not leak the others.
PassIsComplete ==
    \A p \in Releasers : pc[p] = "finish" => todo[p] = {} \/ ~ReleaseCtx(p)

\* Cancellation initiated by Close, or by a peer, is a normal shutdown: if no
\* Run call that returned succeeded although a run took place, then a runner
\* failed, a runner stopped while the run context was live, or a caller's own
\* context was cancelled.
RunErrorIsJustified ==
    (runDone = "closed" /\ \A r \in RunCallers : pc[r] = "done" => failed[r]) =>
        \/ \E r \in RunCallers : ~ctx[r]
        \/ \E i \in Runners : \/ runnerErr[i] = "fault"
                              \/ runnerErr[i] = "nil" /\ ~runnerCtxErr[i]

\* Successful nodes are never closed again, by this pass, by a pass that runs at
\* the same time or by a later retry.
OnlyOpenNodesClose ==
    \A p \in Releasers : pc[p] = "closing" => at[p] \in Open

\* Starting and releasing go by the graph: upwards on what is up, and in a pass
\* every node once, those that are still open and no other.
PassesAreOrderly == DependenciesAreUp /\ PassIsComplete /\ OnlyOpenNodesClose

\* Once Close has been requested nothing new begins: no Start, Run or inspection
\* is admitted, and a Start that was admitted before can no longer succeed.
CloseIsIrreversible ==
    [][closeRequested =>
        /\ closeRequested'
        /\ startDone = "nil" => startDone' = "nil"
        /\ runDone = "nil" => runDone' = "nil"
        /\ inspections' \subseteq inspections
        /\ startSucceeded' => startSucceeded]_vars

\* A Close whose context expires returns, wherever it waits: on a Start, a Run,
\* an inspection, another caller's generation or a provider.
CloseHonoursContext ==
    \A c \in Closers :
        (pc[c] # "idle" /\ ~ctx[c]) ~> pc[c] = "done"

\* Close cancels what is active: a requested Close ends the Start and the Run in
\* progress even if the caller that requested it gives up.
CloseDrains == closeRequested ~> (startDone # "open" /\ runDone # "open")

\* A runner that fails stops every peer, and Run then returns.
RunnerExitStopsPeers ==
    \A i \in Runners :
        (runner[i] = "sent" /\ runnerErr[i] = "fault") ~> runDone = "closed"

\* If providers return, every Close returns even if no context expires: waits and
\* joins never form a cycle.
CloseReturns ==
    ProvidersReturn => \A c \in Closers : pc[c] = "cancel" ~> pc[c] = "done"

\* Close ends what is active, whatever becomes of the caller, and returns.
CloseIsLive == CloseDrains /\ CloseHonoursContext /\ CloseReturns

\* The refinement mapping.  The graph drains from the first Close request, or
\* from the moment its Start fails.
Stage ==
    IF closed THEN "closed"
    ELSE IF \/ closeRequested
            \/ \E s \in Starters : startDone = "open" /\ Releasing(s) /\ failed[s]
            \/ startDone = "closed" /\ ~startSucceeded THEN "draining"
    ELSE IF startSucceeded THEN "serving"
    ELSE IF startDone = "open" THEN "starting" ELSE "new"

Ownership == INSTANCE ResourceOwnership
                 WITH stage <- Stage, owned <- Open, released <- closedNodes

\* The graph acquires, then releases, and never mixes the two: a Close that
\* races a Start does not release what that Start is still acquiring.
ImplementsOwnership == Ownership!Spec
=============================================================================
