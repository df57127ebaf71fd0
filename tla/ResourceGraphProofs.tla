------------------------- MODULE ResourceGraphProofs -------------------------
(***************************************************************************)
(* Theorems about ResourceGraph, for every acyclic graph and every set of  *)
(* callers.                                                                *)
(***************************************************************************)
EXTENDS ResourceGraph, TLAPS

Acquiring == {"next", "starting", "readying"}

\* A loop over the nodes is at a node where it uses one.
LoopInv ==
    /\ \A s \in Starters : pc[s] = "next" => at[s] \in 1..(N + 1)
    /\ \A s \in Starters : pc[s] \in {"starting", "readying"} => at[s] \in Nodes
    /\ \A p \in Releasers : pc[p] = "closing" =>
         at[p] \in Nodes /\ \A i \in todo[p] : i < at[p]

\* One Start is active, while startDone is open; it holds no error until it
\* rolls back, and startSucceeded is TRUE only once it has nothing left to do.
StartInv ==
    /\ \A s \in Starters : pc[s] \notin {"idle", "done"} => startDone = "open"
    /\ \A s, t \in Starters :
         pc[s] \notin {"idle", "done"} /\ pc[t] \notin {"idle", "done"} => s = t
    /\ \A s \in Starters :
         /\ pc[s] \in Acquiring \cup {"idle"} => ~failed[s]
         /\ pc[s] \in {"release", "closing"} => failed[s]
         /\ pc[s] = "finish" /\ ~failed[s] => startSucceeded
    /\ startSucceeded =>
         /\ startDone # "nil"
         /\ \A s \in Starters : /\ pc[s] \notin Acquiring \cup {"release", "closing"}
                                /\ pc[s] = "finish" => ~failed[s]

\* What uses resources was admitted after the Start succeeded.
UseInv ==
    /\ \A i \in Runners : runner[i] \in {"running", "returned", "sent"} => runDone = "open"
    /\ \A r \in RunCallers : pc[r] = "collect" => runDone # "nil"
    /\ runDone # "nil" => startSucceeded
    /\ inspections # {} => startSucceeded

\* How far a Close has come tells what has ended; since closeRequested none of
\* it begins again.  The pass under way is that of the active generation.
CloseInv ==
    /\ \A c \in Closers : pc[c] \notin {"idle", "done"} => closeRequested
    /\ \A c \in Closers :
         pc[c] \notin {"idle", "done", "cancel", "awaitStart"} => startDone # "open"
    /\ \A c \in Closers :
         pc[c] \notin {"idle", "done", "cancel", "awaitStart", "awaitRun"} =>
            runDone # "open"
    /\ \A c \in Closers :
         pc[c] \in {"claim", "join", "release", "closing", "finish"} => inspections = {}
    /\ \A c \in Closers :
         pc[c] \in {"release", "closing", "finish"} => activeClose = c

\* A pass without an error so far has closed what it no longer has to visit, so
\* that a Close without an error leaves the graph closed.
PassInv ==
    /\ closed => /\ AllClosed /\ closeRequested
                 /\ startDone # "open" /\ runDone # "open" /\ inspections = {}
    /\ \A c \in Closers : pc[c] = "done" /\ ~failed[c] => closed
    /\ \A c \in Closers : pc[c] = "release" /\ ~failed[c] => Open \subseteq todo[c]
    /\ \A c \in Closers : pc[c] = "closing" /\ ~failed[c] =>
         Open \subseteq todo[c] \cup {at[c]}
    /\ \A c \in Closers : pc[c] = "finish" /\ ~failed[c] => AllClosed
    /\ \A c \in Closers : pc[c] = "join" => joined[c] \in Closers

\* Start has established every node before the one it is at.
UpInv ==
    /\ \A s \in Starters : pc[s] \in Acquiring => 1..(at[s] - 1) \subseteq established
    /\ DependenciesAreUp

IInv == TypeOK /\ LoopInv /\ StartInv /\ UseInv /\ CloseInv /\ PassInv /\ UpInv
-----------------------------------------------------------------------------
(* The invariant is inductive. *)

\* A step of a Start preserves the invariant.
LEMMA StartPreserves ==
    ASSUME NEW s \in Starters, IInv, StartStep(s)
    PROVE  IInv'
<1> USE NAssumption, DepsAssumption, KindsAssumption, CallsAssumption
    DEF Nodes, Calls, Releasers, vars, graphVars, envVars, callVars, startVars,
        runVars, closeVars, nodeVars
<1>1. CASE StartBegin(s)
  <2>1. TypeOK' /\ LoopInv'
    BY <1>1 DEF IInv, TypeOK, LoopInv, Labels, StartLabels, CloseLabels,
       RunLabels, InspectLabels, StartBegin, StartAdmitted, Goto
  <2>2. StartInv' /\ UseInv' /\ CloseInv'
    BY <1>1 DEF IInv, TypeOK, StartInv, Acquiring, UseInv, CloseInv,
       StartBegin, StartAdmitted, Goto
  <2>3. PassInv' /\ UpInv'
    BY <1>1 DEF IInv, TypeOK, StartInv, CloseInv, PassInv, AllClosed, Open,
       Acquiring, LoopInv, UpInv, DependenciesAreUp, StartBegin, StartAdmitted,
       Goto
  <2> QED BY <2>1, <2>2, <2>3 DEF IInv
<1>2. CASE StartReject(s)
  <2>1. TypeOK' /\ LoopInv'
    BY <1>2 DEF IInv, TypeOK, LoopInv, Labels, StartLabels, CloseLabels,
       RunLabels, InspectLabels, StartReject, StartAdmitted, Return, Goto
  <2>2. StartInv' /\ UseInv' /\ CloseInv'
    BY <1>2 DEF IInv, TypeOK, StartInv, Acquiring, UseInv, CloseInv,
       StartReject, StartAdmitted, Return, Goto
  <2>3. PassInv' /\ UpInv'
    BY <1>2 DEF IInv, TypeOK, StartInv, CloseInv, PassInv, AllClosed, Open,
       Acquiring, LoopInv, UpInv, DependenciesAreUp, StartReject, StartAdmitted,
       Return, Goto
  <2> QED BY <2>1, <2>2, <2>3 DEF IInv
<1>3. CASE StartNode(s)
  <2>0. /\ pc' = [pc EXCEPT ![s] = "starting"] /\ acquired' = acquired \cup {at[s]}
        /\ at[s] \in Nodes /\ pc \in [Calls -> Labels]
        /\ UNCHANGED <<startVars, runVars, closeVars, closedNodes, inspections,
                       envVars, callVars>>
    BY <1>3 DEF IInv, TypeOK, StartNode, InLoop, Goto
  <2>1. TypeOK' /\ LoopInv'
    <3>1. "starting" \in Labels /\ "starting" \in StartLabels
      BY DEF Labels, StartLabels
    <3>2. TypeOK'
      BY <2>0, <3>1 DEF IInv, TypeOK
    <3>3. LoopInv'
      BY <2>0 DEF IInv, LoopInv
    <3> QED BY <3>2, <3>3
  <2>2. StartInv' /\ UseInv' /\ CloseInv'
    BY <1>3 DEF IInv, TypeOK, StartInv, Acquiring, UseInv, CloseInv,
       StartNode, InLoop, Goto
  <2>3. UpInv'
    <3>1. Deps[at[s]] \subseteq established
      BY <1>3 DEF IInv, TypeOK, LoopInv, UpInv, Acquiring, StartNode, InLoop
    <3>2. pc' = [pc EXCEPT ![s] = "starting"] BY <1>3 DEF StartNode, Goto
    <3> QED BY <1>3, <3>1, <3>2
        DEF IInv, TypeOK, UpInv, DependenciesAreUp, Acquiring, StartNode
  <2>4. PassInv'
    BY <1>3 DEF IInv, TypeOK, StartInv, CloseInv, PassInv, AllClosed, Open,
       Acquiring, StartNode, InLoop, Goto
  <2> QED BY <2>1, <2>2, <2>3, <2>4 DEF IInv
<1>4. CASE StartAwaitsReady(s)
  <2>1. TypeOK' /\ LoopInv'
    BY <1>4 DEF IInv, TypeOK, LoopInv, Labels, StartLabels, CloseLabels,
       RunLabels, InspectLabels, StartAwaitsReady, Goto
  <2>2. StartInv' /\ UseInv' /\ CloseInv'
    BY <1>4 DEF IInv, TypeOK, StartInv, Acquiring, UseInv, CloseInv,
       StartAwaitsReady, Goto
  <2>3. PassInv' /\ UpInv'
    BY <1>4 DEF IInv, TypeOK, StartInv, CloseInv, PassInv, AllClosed, Open,
       Acquiring, LoopInv, UpInv, DependenciesAreUp, StartAwaitsReady, Goto
  <2> QED BY <2>1, <2>2, <2>3 DEF IInv
<1>5. CASE StartEstablishes(s)
  <2>1. TypeOK'
    <3>1. at[s] \in Nodes BY <1>5 DEF IInv, LoopInv, StartEstablishes
    <3>2. established' \subseteq Nodes BY <1>5, <3>1 DEF IInv, TypeOK, StartEstablishes
    <3>3. at' \in [Calls -> 0..(N + 1)] BY <1>5, <3>1 DEF IInv, TypeOK, StartEstablishes
    <3>4. pc' = [pc EXCEPT ![s] = "next"] BY <1>5 DEF StartEstablishes, Goto
    <3> QED BY <1>5, <3>2, <3>3, <3>4
      DEF IInv, TypeOK, Labels, StartLabels, CloseLabels, RunLabels, InspectLabels,
          StartEstablishes
  <2>2. LoopInv'
    BY <1>5 DEF IInv, TypeOK, LoopInv, StartEstablishes, Goto
  <2>3. StartInv' /\ UseInv' /\ CloseInv'
    BY <1>5 DEF IInv, TypeOK, StartInv, Acquiring, UseInv, CloseInv,
       StartEstablishes, Goto
  <2>4. PassInv' /\ UpInv'
    BY <1>5 DEF IInv, TypeOK, StartInv, CloseInv, PassInv, AllClosed, Open,
       Acquiring, LoopInv, UpInv, DependenciesAreUp, StartEstablishes, Goto
  <2> QED BY <2>1, <2>2, <2>3, <2>4 DEF IInv
<1>6. CASE StartFails(s)
  <2>1. TypeOK' /\ LoopInv'
    BY <1>6 DEF IInv, TypeOK, LoopInv, Labels, StartLabels, CloseLabels,
       RunLabels, InspectLabels, StartFails, Rollback, Goto
  <2>2. StartInv' /\ UseInv' /\ CloseInv'
    BY <1>6 DEF IInv, TypeOK, StartInv, Acquiring, UseInv, CloseInv,
       StartFails, Rollback, Goto
  <2>3. PassInv' /\ UpInv'
    BY <1>6 DEF IInv, TypeOK, StartInv, CloseInv, PassInv, AllClosed, Open,
       Acquiring, LoopInv, UpInv, DependenciesAreUp, StartFails, Rollback, Goto
  <2> QED BY <2>1, <2>2, <2>3 DEF IInv
<1>7. CASE StartAborts(s)
  <2>1. TypeOK' /\ LoopInv'
    BY <1>7 DEF IInv, TypeOK, LoopInv, Labels, StartLabels, CloseLabels,
       RunLabels, InspectLabels, StartAborts, Rollback, Goto
  <2>2. StartInv' /\ UseInv' /\ CloseInv'
    BY <1>7 DEF IInv, TypeOK, StartInv, Acquiring, UseInv, CloseInv,
       StartAborts, Rollback, Goto
  <2>3. PassInv' /\ UpInv'
    BY <1>7 DEF IInv, TypeOK, StartInv, CloseInv, PassInv, AllClosed, Open,
       Acquiring, LoopInv, UpInv, DependenciesAreUp, StartAborts, Rollback, Goto
  <2> QED BY <2>1, <2>2, <2>3 DEF IInv
<1>8. CASE StartSucceeds(s)
  <2>1. TypeOK' /\ LoopInv'
    BY <1>8 DEF IInv, TypeOK, LoopInv, Labels, StartLabels, CloseLabels,
       RunLabels, InspectLabels, StartSucceeds, StartWins, Goto
  <2>2. StartInv' /\ UseInv' /\ CloseInv'
    BY <1>8 DEF IInv, TypeOK, StartInv, Acquiring, UseInv, CloseInv,
       StartSucceeds, StartWins, Goto
  <2>3. UpInv'
    <3>1. established = Nodes
      <4>1. at[s] - 1 = N BY <1>8 DEF StartSucceeds
      <4>2. 1..(at[s] - 1) \subseteq established
        BY <1>8 DEF IInv, UpInv, Acquiring, StartSucceeds
      <4> QED BY <4>1, <4>2 DEF IInv, TypeOK
    <3>2. pc' = [pc EXCEPT ![s] = "finish"] BY <1>8 DEF StartSucceeds, Goto
    <3> QED BY <1>8, <3>1, <3>2
        DEF IInv, TypeOK, UpInv, DependenciesAreUp, Acquiring, StartSucceeds
  <2>4. PassInv'
    BY <1>8 DEF IInv, TypeOK, StartInv, CloseInv, PassInv, AllClosed, Open,
       Acquiring, StartSucceeds, StartWins, Goto
  <2> QED BY <2>1, <2>2, <2>3, <2>4 DEF IInv
<1>9. CASE StartFinish(s)
  <2>1. TypeOK' /\ LoopInv'
    BY <1>9 DEF IInv, TypeOK, LoopInv, Labels, StartLabels, CloseLabels,
       RunLabels, InspectLabels, StartFinish, Return, Goto
  <2>2. StartInv' /\ UseInv' /\ CloseInv'
    BY <1>9 DEF IInv, TypeOK, StartInv, Acquiring, UseInv, CloseInv,
       StartFinish, Return, Goto
  <2>3. PassInv' /\ UpInv'
    BY <1>9 DEF IInv, TypeOK, StartInv, CloseInv, PassInv, AllClosed, Open,
       Acquiring, LoopInv, UpInv, DependenciesAreUp, StartFinish, Return, Goto
  <2> QED BY <2>1, <2>2, <2>3 DEF IInv
<1> QED BY <1>1, <1>2, <1>3, <1>4, <1>5, <1>6, <1>7, <1>8, <1>9 DEF StartStep

\* A step of closeIndexes preserves the invariant.
LEMMA ReleasePreserves ==
    ASSUME NEW p \in Releasers, IInv, ReleaseStep(p)
    PROVE  IInv'
<1> USE NAssumption, DepsAssumption, KindsAssumption, CallsAssumption
    DEF Nodes, Calls, Releasers, vars, graphVars, envVars, callVars, startVars,
        runVars, closeVars, nodeVars
<1>1. CASE ReleaseNode(p)
  <2>1. TypeOK' /\ LoopInv'
    <3>1. PICK i \in todo[p] :
            /\ TopologicallyLast(p, i)
            /\ todo' = [todo EXCEPT ![p] = @ \ {i}]
            /\ at' = [at EXCEPT ![p] = i]
            /\ Goto(p, IF i \in closedNodes THEN "release" ELSE "closing")
      BY <1>1 DEF ReleaseNode
    <3>2. i \in Nodes BY DEF IInv, TypeOK
    <3>3. PICK label \in {"release", "closing"} : pc' = [pc EXCEPT ![p] = label]
      BY <3>1 DEF Goto
    <3>4. TypeOK'
      BY <1>1, <3>1, <3>2, <3>3 DEF IInv, TypeOK, Labels, StartLabels, CloseLabels,
         RunLabels, InspectLabels, ReleaseNode
    <3>5. LoopInv'
      BY <1>1, <3>1, <3>2, <3>3 DEF IInv, TypeOK, LoopInv, TopologicallyLast, ReleaseNode
    <3> QED BY <3>4, <3>5
  <2>2. StartInv' /\ UseInv' /\ CloseInv'
    BY <1>1 DEF IInv, TypeOK, StartInv, Acquiring, UseInv, CloseInv,
       ReleaseNode, TopologicallyLast, Goto
  <2>3. PassInv' /\ UpInv'
    BY <1>1 DEF IInv, TypeOK, StartInv, CloseInv, PassInv, AllClosed, Open,
       Acquiring, LoopInv, UpInv, DependenciesAreUp, ReleaseNode,
       TopologicallyLast, Goto
  <2> QED BY <2>1, <2>2, <2>3 DEF IInv
<1>2. CASE ReleaseEnds(p)
  <2>1. TypeOK' /\ LoopInv'
    BY <1>2 DEF IInv, TypeOK, LoopInv, Labels, StartLabels, CloseLabels,
       RunLabels, InspectLabels, ReleaseEnds, Goto
  <2>2. StartInv' /\ UseInv' /\ CloseInv'
    BY <1>2 DEF IInv, TypeOK, StartInv, Acquiring, UseInv, CloseInv,
       ReleaseEnds, Goto
  <2>3. PassInv'
    BY <1>2 DEF IInv, TypeOK, StartInv, CloseInv, PassInv, AllClosed, Open,
       LoopInv, ReleaseEnds, Goto
  <2>4. UpInv'
    <3>1. /\ pc' = [pc EXCEPT ![p] = "finish"]
          /\ UNCHANGED <<established, startSucceeded, acquired, at>>
      BY <1>2 DEF ReleaseEnds, Goto
    <3> QED BY <3>1 DEF IInv, TypeOK, Acquiring, UpInv, DependenciesAreUp
  <2> QED BY <2>1, <2>2, <2>3, <2>4 DEF IInv
<1>3. ASSUME NEW error \in BOOLEAN, ReleaseReturns(p, error)
      PROVE  IInv'
  <2>1. TypeOK'
    <3>1. closedNodes' \subseteq Nodes
      <4>1. at[p] \in Nodes BY <1>3 DEF IInv, LoopInv, ReleaseReturns
      <4> QED BY <1>3, <4>1 DEF IInv, TypeOK, ReleaseReturns
    <3>2. failed' \in [Calls -> BOOLEAN]
      BY <1>3 DEF IInv, TypeOK, ReleaseReturns
    <3>3. PICK label \in {"release", "finish"} : pc' = [pc EXCEPT ![p] = label]
      BY <1>3 DEF ReleaseReturns, After, Goto
    <3> QED BY <1>3, <3>1, <3>2, <3>3
        DEF IInv, TypeOK, Labels, StartLabels, CloseLabels, RunLabels, InspectLabels,
            ReleaseReturns
  <2>2. LoopInv'
    BY <1>3 DEF IInv, TypeOK, LoopInv, ReleaseReturns, After, Goto
  <2>3. StartInv' /\ UseInv' /\ CloseInv'
    BY <1>3 DEF IInv, TypeOK, StartInv, Acquiring, UseInv, CloseInv,
       ReleaseReturns, After, Goto
  <2>4. PassInv' /\ UpInv'
    BY <1>3 DEF IInv, TypeOK, StartInv, CloseInv, PassInv, AllClosed, Open,
       Acquiring, LoopInv, UpInv, DependenciesAreUp, ReleaseReturns, After, Goto
  <2> QED BY <2>1, <2>2, <2>3, <2>4 DEF IInv
<1> QED BY <1>1, <1>2, <1>3 DEF ReleaseStep

\* A step of Run, the collector, preserves the invariant.
LEMMA RunPreserves ==
    ASSUME NEW r \in RunCallers, IInv, RunStep(r)
    PROVE  IInv'
<1> USE NAssumption, DepsAssumption, KindsAssumption, CallsAssumption
    DEF Nodes, Calls, Releasers, vars, graphVars, envVars, callVars, startVars,
        runVars, closeVars, nodeVars
<1>1. CASE RunBegin(r)
  <2>1. TypeOK' /\ LoopInv'
    BY <1>1 DEF IInv, TypeOK, LoopInv, Labels, StartLabels, CloseLabels,
       RunLabels, InspectLabels, RunBegin, RunAdmitted, Goto
  <2>2. StartInv' /\ UseInv' /\ CloseInv'
    BY <1>1 DEF IInv, TypeOK, StartInv, Acquiring, UseInv, CloseInv, RunBegin,
       RunAdmitted, Goto
  <2>3. PassInv' /\ UpInv'
    BY <1>1 DEF IInv, TypeOK, StartInv, CloseInv, PassInv, AllClosed, Open,
       Acquiring, LoopInv, UpInv, DependenciesAreUp, RunBegin, RunAdmitted, Goto
  <2> QED BY <2>1, <2>2, <2>3 DEF IInv
<1>2. CASE RunReject(r)
  <2>1. TypeOK' /\ LoopInv'
    BY <1>2 DEF IInv, TypeOK, LoopInv, Labels, StartLabels, CloseLabels,
       RunLabels, InspectLabels, RunReject, Return, Goto
  <2>2. StartInv' /\ UseInv' /\ CloseInv'
    BY <1>2 DEF IInv, TypeOK, StartInv, Acquiring, UseInv, CloseInv,
       RunReject, Return, Goto
  <2>3. PassInv' /\ UpInv'
    BY <1>2 DEF IInv, TypeOK, StartInv, CloseInv, PassInv, AllClosed, Open,
       Acquiring, LoopInv, UpInv, DependenciesAreUp, RunReject, Return, Goto
  <2> QED BY <2>1, <2>2, <2>3 DEF IInv
<1>3. CASE RunFinish(r)
  <2>1. TypeOK' /\ LoopInv'
    BY <1>3 DEF IInv, TypeOK, LoopInv, Labels, StartLabels, CloseLabels,
       RunLabels, InspectLabels, RunFinish, Return, Goto
  <2>2. StartInv' /\ UseInv' /\ CloseInv'
    BY <1>3 DEF IInv, TypeOK, StartInv, Acquiring, UseInv, CloseInv,
       RunFinish, Return, Goto
  <2>3. PassInv' /\ UpInv'
    BY <1>3 DEF IInv, TypeOK, StartInv, CloseInv, PassInv, AllClosed, Open,
       Acquiring, LoopInv, UpInv, DependenciesAreUp, RunFinish, Return, Goto
  <2> QED BY <2>1, <2>2, <2>3 DEF IInv
<1>4. ASSUME NEW i \in Runners, RunCollect(r, i)
      PROVE  IInv'
  <2>1. TypeOK' /\ LoopInv'
    BY <1>4 DEF IInv, TypeOK, LoopInv, Labels, StartLabels, CloseLabels,
       RunLabels, InspectLabels, RunCollect, CancelPeers, Unexpected
  <2>2. StartInv' /\ UseInv' /\ CloseInv'
    BY <1>4 DEF IInv, TypeOK, StartInv, Acquiring, UseInv, CloseInv,
       RunCollect, CancelPeers, Unexpected
  <2>3. PassInv' /\ UpInv'
    BY <1>4 DEF IInv, TypeOK, StartInv, CloseInv, PassInv, AllClosed, Open,
       Acquiring, LoopInv, UpInv, DependenciesAreUp, RunCollect, CancelPeers,
       Unexpected
  <2> QED BY <2>1, <2>2, <2>3 DEF IInv
<1> QED BY <1>1, <1>2, <1>3, <1>4 DEF RunStep

\* A step of the goroutine around a Runner preserves the invariant.
LEMMA RunnerPreserves ==
    ASSUME NEW i \in Runners, IInv, RunnerStep(i)
    PROVE  IInv'
<1> USE NAssumption, DepsAssumption, KindsAssumption, CallsAssumption
    DEF Nodes, Calls, Releasers, vars, graphVars, envVars, callVars, startVars,
        runVars, closeVars, nodeVars
<1>1. ASSUME NEW err \in {"nil", "ctx", "fault"}, RunnerReturns(i, err)
      PROVE  IInv'
  <2>1. TypeOK' /\ LoopInv'
    BY <1>1 DEF IInv, TypeOK, LoopInv, Labels, StartLabels, CloseLabels,
       RunLabels, InspectLabels, RunnerReturns
  <2>2. StartInv' /\ UseInv' /\ CloseInv'
    BY <1>1 DEF IInv, TypeOK, StartInv, Acquiring, UseInv, CloseInv,
       RunnerReturns
  <2>3. PassInv' /\ UpInv'
    BY <1>1 DEF IInv, TypeOK, StartInv, CloseInv, PassInv, AllClosed, Open,
       Acquiring, LoopInv, UpInv, DependenciesAreUp, RunnerReturns
  <2> QED BY <2>1, <2>2, <2>3 DEF IInv
<1>2. CASE RunnerReports(i)
  <2>1. TypeOK' /\ LoopInv'
    BY <1>2 DEF IInv, TypeOK, LoopInv, Labels, StartLabels, CloseLabels,
       RunLabels, InspectLabels, RunnerReports, RunCtx
  <2>2. StartInv' /\ UseInv' /\ CloseInv'
    BY <1>2 DEF IInv, TypeOK, StartInv, Acquiring, UseInv, CloseInv,
       RunnerReports, RunCtx
  <2>3. PassInv' /\ UpInv'
    BY <1>2 DEF IInv, TypeOK, StartInv, CloseInv, PassInv, AllClosed, Open,
       Acquiring, LoopInv, UpInv, DependenciesAreUp, RunnerReports, RunCtx
  <2> QED BY <2>1, <2>2, <2>3 DEF IInv
<1> QED BY <1>1, <1>2 DEF RunnerStep

\* A step of Health or Ready preserves the invariant.
LEMMA InspectPreserves ==
    ASSUME NEW q \in Inspectors, IInv, InspectStep(q)
    PROVE  IInv'
<1> USE NAssumption, DepsAssumption, KindsAssumption, CallsAssumption
    DEF Nodes, Calls, Releasers, vars, graphVars, envVars, callVars, startVars,
        runVars, closeVars, nodeVars
<1>1. CASE InspectBegin(q)
  <2>1. TypeOK' /\ LoopInv'
    BY <1>1 DEF IInv, TypeOK, LoopInv, Labels, StartLabels, CloseLabels,
       RunLabels, InspectLabels, InspectBegin, InspectAdmitted, Goto
  <2>2. CloseInv'
    <3>1. \A c \in Closers : pc[c] \in {"idle", "done"}
      BY <1>1 DEF IInv, CloseInv, InspectBegin, InspectAdmitted
    <3>2. \A c \in Closers : pc'[c] = pc[c]
      BY <1>1 DEF IInv, TypeOK, InspectBegin, Goto
    <3> QED BY <1>1, <3>1, <3>2 DEF IInv, CloseInv, InspectBegin
  <2>3. StartInv' /\ UseInv'
    BY <1>1 DEF IInv, TypeOK, StartInv, Acquiring, UseInv, InspectBegin,
       InspectAdmitted, Goto
  <2>4. PassInv' /\ UpInv'
    BY <1>1 DEF IInv, TypeOK, StartInv, CloseInv, PassInv, AllClosed, Open,
       Acquiring, LoopInv, UpInv, DependenciesAreUp, InspectBegin,
       InspectAdmitted, Goto
  <2> QED BY <2>1, <2>2, <2>3, <2>4 DEF IInv
<1>2. CASE InspectReject(q)
  <2>1. TypeOK' /\ LoopInv'
    BY <1>2 DEF IInv, TypeOK, LoopInv, Labels, StartLabels, CloseLabels,
       RunLabels, InspectLabels, InspectReject, Return, Goto
  <2>2. StartInv' /\ UseInv' /\ CloseInv'
    BY <1>2 DEF IInv, TypeOK, StartInv, Acquiring, UseInv, CloseInv,
       InspectReject, Return, Goto
  <2>3. PassInv' /\ UpInv'
    BY <1>2 DEF IInv, TypeOK, StartInv, CloseInv, PassInv, AllClosed, Open,
       Acquiring, LoopInv, UpInv, DependenciesAreUp, InspectReject, Return, Goto
  <2> QED BY <2>1, <2>2, <2>3 DEF IInv
<1>3. CASE InspectEnd(q)
  <2>1. TypeOK' /\ LoopInv'
    BY <1>3 DEF IInv, TypeOK, LoopInv, Labels, StartLabels, CloseLabels,
       RunLabels, InspectLabels, InspectEnd, FinishInspection, Return, Goto
  <2>2. StartInv' /\ UseInv' /\ CloseInv'
    BY <1>3 DEF IInv, TypeOK, StartInv, Acquiring, UseInv, CloseInv,
       InspectEnd, FinishInspection, Return, Goto
  <2>3. PassInv' /\ UpInv'
    BY <1>3 DEF IInv, TypeOK, StartInv, CloseInv, PassInv, AllClosed, Open,
       Acquiring, LoopInv, UpInv, DependenciesAreUp, InspectEnd,
       FinishInspection, Return, Goto
  <2> QED BY <2>1, <2>2, <2>3 DEF IInv
<1>4. ASSUME NEW error \in BOOLEAN, InspectNode(q, error)
      PROVE  IInv'
  <2>1. TypeOK' /\ LoopInv'
    BY <1>4 DEF IInv, TypeOK, LoopInv, Labels, StartLabels, CloseLabels,
       RunLabels, InspectLabels, InspectNode, InLoop
  <2>2. StartInv' /\ UseInv' /\ CloseInv'
    BY <1>4 DEF IInv, TypeOK, StartInv, Acquiring, UseInv, CloseInv,
       InspectNode, InLoop
  <2>3. PassInv' /\ UpInv'
    BY <1>4 DEF IInv, TypeOK, StartInv, CloseInv, PassInv, AllClosed, Open,
       Acquiring, LoopInv, UpInv, DependenciesAreUp, InspectNode, InLoop
  <2> QED BY <2>1, <2>2, <2>3 DEF IInv
<1> QED BY <1>1, <1>2, <1>3, <1>4 DEF InspectStep

\* A step of Close preserves the invariant.
LEMMA ClosePreserves ==
    ASSUME NEW c \in Closers, IInv, CloseStep(c)
    PROVE  IInv'
<1> USE NAssumption, DepsAssumption, KindsAssumption, CallsAssumption
    DEF Nodes, Calls, Releasers, vars, graphVars, envVars, callVars, startVars,
        runVars, closeVars, nodeVars
<1>1. CASE CloseAgain(c)
  <2>1. TypeOK' /\ LoopInv'
    BY <1>1 DEF IInv, TypeOK, LoopInv, Labels, StartLabels, CloseLabels,
       RunLabels, InspectLabels, CloseAgain, Return, Goto
  <2>2. StartInv' /\ UseInv' /\ CloseInv'
    BY <1>1 DEF IInv, TypeOK, StartInv, Acquiring, UseInv, CloseInv,
       CloseAgain, Return, Goto
  <2>3. PassInv' /\ UpInv'
    BY <1>1 DEF IInv, TypeOK, StartInv, CloseInv, PassInv, AllClosed, Open,
       Acquiring, LoopInv, UpInv, DependenciesAreUp, CloseAgain, Return, Goto
  <2> QED BY <2>1, <2>2, <2>3 DEF IInv
<1>2. CASE CloseRequest(c)
  <2>1. TypeOK' /\ LoopInv'
    BY <1>2 DEF IInv, TypeOK, LoopInv, Labels, StartLabels, CloseLabels,
       RunLabels, InspectLabels, CloseRequest, Return, Goto
  <2>2. StartInv' /\ UseInv' /\ CloseInv'
    BY <1>2 DEF IInv, TypeOK, StartInv, Acquiring, UseInv, CloseInv,
       CloseRequest, Return, Goto
  <2>3. PassInv' /\ UpInv'
    BY <1>2 DEF IInv, TypeOK, StartInv, CloseInv, PassInv, AllClosed, Open,
       Acquiring, LoopInv, UpInv, DependenciesAreUp, CloseRequest, Return, Goto
  <2> QED BY <2>1, <2>2, <2>3 DEF IInv
<1>3. CASE CloseCancel(c)
  <2>1. TypeOK' /\ LoopInv'
    BY <1>3 DEF IInv, TypeOK, LoopInv, Labels, StartLabels, CloseLabels,
       RunLabels, InspectLabels, CloseCancel, CancelRun, Return, Goto
  <2>2. StartInv' /\ UseInv' /\ CloseInv'
    BY <1>3 DEF IInv, TypeOK, StartInv, Acquiring, UseInv, CloseInv,
       CloseCancel, CancelRun, Return, Goto
  <2>3. PassInv' /\ UpInv'
    BY <1>3 DEF IInv, TypeOK, StartInv, CloseInv, PassInv, AllClosed, Open,
       Acquiring, LoopInv, UpInv, DependenciesAreUp, CloseCancel, CancelRun,
       Return, Goto
  <2> QED BY <2>1, <2>2, <2>3 DEF IInv
<1>4. CASE CloseAwaitStart(c)
  <2>1. TypeOK' /\ LoopInv'
    BY <1>4 DEF IInv, TypeOK, LoopInv, Labels, StartLabels, CloseLabels,
       RunLabels, InspectLabels, CloseAwaitStart, Await, Goto
  <2>2. StartInv' /\ UseInv' /\ CloseInv'
    BY <1>4 DEF IInv, TypeOK, StartInv, Acquiring, UseInv, CloseInv,
       CloseAwaitStart, Await, Goto
  <2>3. PassInv' /\ UpInv'
    BY <1>4 DEF IInv, TypeOK, StartInv, CloseInv, PassInv, AllClosed, Open,
       Acquiring, LoopInv, UpInv, DependenciesAreUp, CloseAwaitStart, Await, Goto
  <2> QED BY <2>1, <2>2, <2>3 DEF IInv
<1>5. CASE CloseAwaitRun(c)
  <2>1. TypeOK' /\ LoopInv'
    BY <1>5 DEF IInv, TypeOK, LoopInv, Labels, StartLabels, CloseLabels,
       RunLabels, InspectLabels, CloseAwaitRun, Await, Goto
  <2>2. StartInv' /\ UseInv' /\ CloseInv'
    BY <1>5 DEF IInv, TypeOK, StartInv, Acquiring, UseInv, CloseInv,
       CloseAwaitRun, Await, Goto
  <2>3. PassInv' /\ UpInv'
    BY <1>5 DEF IInv, TypeOK, StartInv, CloseInv, PassInv, AllClosed, Open,
       Acquiring, LoopInv, UpInv, DependenciesAreUp, CloseAwaitRun, Await, Goto
  <2> QED BY <2>1, <2>2, <2>3 DEF IInv
<1>6. CASE CloseAwaitInspections(c)
  <2>1. TypeOK' /\ LoopInv'
    BY <1>6 DEF IInv, TypeOK, LoopInv, Labels, StartLabels, CloseLabels,
       RunLabels, InspectLabels, CloseAwaitInspections, Await, Goto
  <2>2. StartInv' /\ UseInv' /\ CloseInv'
    BY <1>6 DEF IInv, TypeOK, StartInv, Acquiring, UseInv, CloseInv,
       CloseAwaitInspections, Await, Goto
  <2>3. PassInv' /\ UpInv'
    BY <1>6 DEF IInv, TypeOK, StartInv, CloseInv, PassInv, AllClosed, Open,
       Acquiring, LoopInv, UpInv, DependenciesAreUp, CloseAwaitInspections,
       Await, Goto
  <2> QED BY <2>1, <2>2, <2>3 DEF IInv
<1>7. CASE CloseExpires(c)
  <2>1. TypeOK' /\ LoopInv'
    BY <1>7 DEF IInv, TypeOK, LoopInv, Labels, StartLabels, CloseLabels,
       RunLabels, InspectLabels, CloseExpires, Selects, Return, Goto
  <2>2. StartInv' /\ UseInv' /\ CloseInv'
    BY <1>7 DEF IInv, TypeOK, StartInv, Acquiring, UseInv, CloseInv,
       CloseExpires, Selects, Return, Goto
  <2>3. PassInv' /\ UpInv'
    BY <1>7 DEF IInv, TypeOK, StartInv, CloseInv, PassInv, AllClosed, Open,
       Acquiring, LoopInv, UpInv, DependenciesAreUp, CloseExpires, Selects,
       Return, Goto
  <2> QED BY <2>1, <2>2, <2>3 DEF IInv
<1>8. CASE CloseNothingOpen(c)
  <2>1. TypeOK' /\ LoopInv'
    BY <1>8 DEF IInv, TypeOK, LoopInv, Labels, StartLabels, CloseLabels,
       RunLabels, InspectLabels, CloseNothingOpen, Return, Goto
  <2>2. StartInv' /\ UseInv' /\ CloseInv'
    BY <1>8 DEF IInv, TypeOK, StartInv, Acquiring, UseInv, CloseInv,
       CloseNothingOpen, Return, Goto
  <2>3. PassInv' /\ UpInv'
    BY <1>8 DEF IInv, TypeOK, StartInv, CloseInv, PassInv, AllClosed, Open,
       Acquiring, LoopInv, UpInv, DependenciesAreUp, CloseNothingOpen, Return,
       Goto
  <2> QED BY <2>1, <2>2, <2>3 DEF IInv
<1>9. CASE CloseJoin(c)
  <2>1. TypeOK' /\ LoopInv'
    BY <1>9 DEF IInv, TypeOK, LoopInv, Labels, StartLabels, CloseLabels,
       RunLabels, InspectLabels, CloseJoin, Goto
  <2>2. StartInv' /\ UseInv' /\ CloseInv'
    BY <1>9 DEF IInv, TypeOK, StartInv, Acquiring, UseInv, CloseInv,
       CloseJoin, Goto
  <2>3. PassInv' /\ UpInv'
    BY <1>9 DEF IInv, TypeOK, StartInv, CloseInv, PassInv, AllClosed, Open,
       Acquiring, LoopInv, UpInv, DependenciesAreUp, CloseJoin, Goto
  <2> QED BY <2>1, <2>2, <2>3 DEF IInv
<1>10. CASE CloseClaim(c)
  <2>1. TypeOK'
    <3>1. todo' \in [Calls -> SUBSET Nodes]
      BY <1>10 DEF IInv, TypeOK, Open, CloseClaim, MayClaim
    <3>2. pc' = [pc EXCEPT ![c] = "release"] BY <1>10 DEF CloseClaim, Goto
    <3> QED BY <1>10, <3>1, <3>2
        DEF IInv, TypeOK, Labels, StartLabels, CloseLabels, RunLabels, InspectLabels,
            CloseClaim, MayClaim
  <2>2. LoopInv'
    BY <1>10 DEF IInv, TypeOK, LoopInv, CloseClaim, MayClaim, Goto
  <2>3. StartInv' /\ UseInv' /\ CloseInv'
    BY <1>10 DEF IInv, TypeOK, StartInv, Acquiring, UseInv, CloseInv,
       CloseClaim, MayClaim, Goto
  <2>4. PassInv' /\ UpInv'
    BY <1>10 DEF IInv, TypeOK, StartInv, CloseInv, PassInv, AllClosed, Open,
       Acquiring, LoopInv, UpInv, DependenciesAreUp, CloseClaim, MayClaim, Goto
  <2> QED BY <2>1, <2>2, <2>3, <2>4 DEF IInv
<1>11. CASE ClosePublish(c)
  <2>1. TypeOK' /\ LoopInv'
    BY <1>11 DEF IInv, TypeOK, LoopInv, Labels, StartLabels, CloseLabels,
       RunLabels, InspectLabels, ClosePublish, Return, Goto
  <2>2. StartInv' /\ UseInv' /\ CloseInv'
    BY <1>11 DEF IInv, TypeOK, StartInv, Acquiring, UseInv, CloseInv,
       ClosePublish, Return, Goto
  <2>3. PassInv' /\ UpInv'
    BY <1>11 DEF IInv, TypeOK, StartInv, CloseInv, PassInv, AllClosed, Open,
       Acquiring, LoopInv, UpInv, DependenciesAreUp, ClosePublish, Return, Goto
  <2> QED BY <2>1, <2>2, <2>3 DEF IInv
<1>12. CASE CloseJoined(c)
  <2>1. TypeOK' /\ LoopInv'
    BY <1>12 DEF IInv, TypeOK, LoopInv, Labels, StartLabels, CloseLabels,
       RunLabels, InspectLabels, CloseJoined, JoinResult, Return, Goto
  <2>2. StartInv' /\ UseInv' /\ CloseInv'
    BY <1>12 DEF IInv, TypeOK, StartInv, Acquiring, UseInv, CloseInv,
       CloseJoined, JoinResult, Return, Goto
  <2>3. PassInv' /\ UpInv'
    BY <1>12 DEF IInv, TypeOK, StartInv, CloseInv, PassInv, AllClosed, Open,
       Acquiring, LoopInv, UpInv, DependenciesAreUp, CloseJoined, JoinResult,
       Return, Goto
  <2> QED BY <2>1, <2>2, <2>3 DEF IInv
<1> QED BY <1>1, <1>2, <1>3, <1>4, <1>5, <1>6, <1>7, <1>8, <1>9, <1>10, <1>11,
       <1>12 DEF CloseStep

\* Neither a context that expires, nor the end, nor a stutter disturbs it.
LEMMA EnvironmentPreserves ==
    ASSUME IInv, (\E p \in Calls : CancelCtx(p)) \/ RollbackTimeout \/ UNCHANGED vars
    PROVE  IInv'
<1> USE NAssumption, DepsAssumption, KindsAssumption, CallsAssumption
    DEF AllClosed, Open, DependenciesAreUp, Nodes, Calls, Releasers, vars, graphVars, envVars, callVars, startVars,
        runVars, closeVars, nodeVars, Labels, StartLabels, CloseLabels, RunLabels,
        InspectLabels, Acquiring
<1>1. ASSUME NEW p \in Calls, CancelCtx(p)
      PROVE  IInv'
  <2>1. TypeOK' /\ LoopInv' /\ StartInv'
    BY <1>1 DEF IInv, TypeOK, LoopInv, StartInv, CancelCtx
  <2>2. UseInv' /\ CloseInv'
    BY <1>1 DEF IInv, TypeOK, UseInv, CloseInv, CancelCtx
  <2>3. PassInv' /\ UpInv'
    BY <1>1 DEF IInv, TypeOK, PassInv, UpInv, CancelCtx
  <2> QED BY <2>1, <2>2, <2>3 DEF IInv
<1>2. CASE RollbackTimeout
  <2>1. UNCHANGED <<graphVars, callVars, pc, ctx>> /\ rollbackLive' \in BOOLEAN
    BY <1>2 DEF RollbackTimeout
  <2>2. TypeOK' /\ LoopInv' /\ StartInv'
    BY <2>1 DEF IInv, TypeOK, LoopInv, StartInv
  <2>3. UseInv' /\ CloseInv'
    BY <2>1 DEF IInv, UseInv, CloseInv
  <2>4. PassInv' /\ UpInv'
    BY <2>1 DEF IInv, PassInv, UpInv
  <2> QED BY <2>2, <2>3, <2>4 DEF IInv
<1>3. CASE UNCHANGED vars
  BY <1>3 DEF IInv, TypeOK, LoopInv, StartInv, UseInv, CloseInv, PassInv, UpInv
<1> QED BY <1>1, <1>2, <1>3

\* The initial states satisfy the invariant.
LEMMA InitEstablishes == Init => IInv
<1> USE NAssumption, KindsAssumption, CallsAssumption
    DEF Init, Nodes, Calls, Releasers, Labels, StartLabels, CloseLabels, RunLabels,
        InspectLabels, Acquiring, AllClosed, Open, DependenciesAreUp
<1> SUFFICES ASSUME Init PROVE IInv
  OBVIOUS
<1>1. TypeOK
  <2>1. pc \in [Calls -> Labels] /\ \A p \in Calls : pc[p] = "idle"
    OBVIOUS
  <2>2. /\ ctx \in [Calls -> BOOLEAN] /\ at \in [Calls -> 0..(N + 1)]
        /\ todo \in [Calls -> SUBSET Nodes] /\ failed \in [Calls -> BOOLEAN]
        /\ joined \in [Calls -> Closers \cup {NoGeneration}]
    OBVIOUS
  <2> QED BY <2>1, <2>2 DEF TypeOK
<1>2. LoopInv /\ StartInv BY DEF LoopInv, StartInv
<1>3. UseInv /\ CloseInv BY DEF UseInv, CloseInv
<1>4. PassInv /\ UpInv BY DEF PassInv, UpInv
<1> QED BY <1>1, <1>2, <1>3, <1>4 DEF IInv

\* Every step preserves it.
LEMMA NextPreserves == IInv /\ [Next]_vars => IInv'
<1> SUFFICES ASSUME IInv, [Next]_vars PROVE IInv'
  OBVIOUS
<1>1. CASE \E s \in Starters : StartStep(s)    BY <1>1, StartPreserves
<1>2. CASE \E p \in Releasers : ReleaseStep(p) BY <1>2, ReleasePreserves
<1>3. CASE \E r \in RunCallers : RunStep(r)    BY <1>3, RunPreserves
<1>4. CASE \E i \in Runners : RunnerStep(i)    BY <1>4, RunnerPreserves
<1>5. CASE \E q \in Inspectors : InspectStep(q) BY <1>5, InspectPreserves
<1>6. CASE \E c \in Closers : CloseStep(c)     BY <1>6, ClosePreserves
<1>7. CASE (\E p \in Calls : CancelCtx(p)) \/ RollbackTimeout \/ UNCHANGED vars
  BY <1>7, EnvironmentPreserves
<1> QED BY <1>1, <1>2, <1>3, <1>4, <1>5, <1>6, <1>7 DEF Next, Terminated

LEMMA Invariance == Spec => []IInv
BY InitEstablishes, NextPreserves, PTL DEF Spec
-----------------------------------------------------------------------------
(* What follows from it. *)

\* Every reachable state of a resource graph is well typed; in particular no
\* loop of Start, Close or an inspection leaves the range of its nodes.
THEOREM TypeCorrect == Spec => []TypeOK
<1>1. IInv => TypeOK BY DEF IInv
<1> QED BY <1>1, Invariance, PTL

\* The heart of the design: whatever callers do and however providers answer, a
\* provider's Close never overlaps another provider's Close, nor a Start, Ready,
\* Run, Health or Ready of any provider of the graph.
THEOREM ReleaseExclusion == Spec => []ReleaseIsExclusive
<1>1. IInv => ReleaseIsExclusive
  <2> SUFFICES ASSUME IInv, NEW p \in Releasers, pc[p] = "closing"
               PROVE  /\ ~InUse
                      /\ \A other \in Releasers \ {p} : pc[other] # "closing"
    BY DEF ReleaseIsExclusive
  <2>1. CASE p \in Starters
    <3>1. ~startSucceeded /\ startDone = "open"
      BY <2>1 DEF IInv, StartInv
    <3>2. \A s \in Starters : s # p => pc[s] \in {"idle", "done"}
      BY <2>1 DEF IInv, StartInv
    <3>3. \A c \in Closers : pc[c] # "closing"
      BY <3>1 DEF IInv, CloseInv
    <3> QED BY <2>1, <3>1, <3>2, <3>3 DEF IInv, UseInv, InUse, Releasers
  <2>2. CASE p \in Closers
    <3>1. startDone # "open" /\ runDone # "open" /\ inspections = {} /\ activeClose = p
      BY <2>2 DEF IInv, CloseInv
    <3>2. \A s \in Starters : pc[s] \in {"idle", "done"}
      BY <3>1 DEF IInv, StartInv
    <3>3. \A c \in Closers : pc[c] = "closing" => c = p
      BY <3>1 DEF IInv, CloseInv
    <3> QED BY <2>2, <3>1, <3>2, <3>3 DEF IInv, UseInv, InUse, Releasers
  <2> QED BY <2>1, <2>2 DEF Releasers
<1> QED BY <1>1, Invariance, PTL

\* However a Close races a Start, a Run, inspections and other Closes, its nil
\* result is a verdict on the whole graph: all of it is released.
THEOREM NilCloseVerdict == Spec => []NilCloseMeansReleased
<1>1. IInv => NilCloseMeansReleased
  <2> SUFFICES ASSUME IInv, closed
               PROVE  AllClosed /\ ~InUse /\ startDone # "open" /\ runDone # "open"
    BY DEF NilCloseMeansReleased, IInv, PassInv
  <2>1. /\ AllClosed /\ startDone # "open" /\ runDone # "open" /\ inspections = {}
    BY DEF IInv, PassInv
  <2> QED BY <2>1 DEF IInv, StartInv, UseInv, InUse
<1> QED BY <1>1, Invariance, PTL

\* The two orders a dependency graph is for: a node is started on top of
\* dependencies that are up, and closed only after its dependents.
THEOREM DependencyOrder == Spec => [](DependenciesAreUp /\ DependentsCloseFirst)
<1>1. IInv => DependenciesAreUp BY DEF IInv, UpInv
<1>2. IInv => DependentsCloseFirst
  <2> SUFFICES ASSUME IInv, NEW p \in Releasers, pc[p] = "closing",
                      NEW d \in acquired, at[p] \in Deps[d]
               PROVE  d \notin todo[p]
    BY DEF DependentsCloseFirst
  <2>1. d \in Nodes BY DEF IInv, TypeOK
  <2>2. at[p] < d BY <2>1, DepsAssumption
  <2>3. \A i \in todo[p] : i < at[p] BY DEF IInv, LoopInv
  <2>4. at[p] \in Nodes BY DEF IInv, LoopInv
  <2> QED BY <2>1, <2>2, <2>3, <2>4, NAssumption DEF Nodes
<1> QED BY <1>1, <1>2, Invariance, PTL

\* After a Close request no step of any caller begins a Start, a Run or an
\* inspection, and the Start in progress can only fail.
THEOREM CloseIrreversibility == Spec => CloseIsIrreversible
<1> DEFINE Irreversible ==
      closeRequested =>
        /\ closeRequested'
        /\ startDone = "nil" => startDone' = "nil"
        /\ runDone = "nil" => runDone' = "nil"
        /\ inspections' \subseteq inspections
        /\ startSucceeded' => startSucceeded
<1>1. IInv /\ [Next]_vars => Irreversible
  <2> SUFFICES ASSUME IInv, [Next]_vars, closeRequested PROVE Irreversible
    OBVIOUS
  <2> USE DEF vars, graphVars, envVars, callVars, startVars, runVars, closeVars, nodeVars
  <2>1. ASSUME NEW s \in Starters, StartStep(s) PROVE Irreversible
    <3>1. CASE StartFinish(s)
      BY <3>1 DEF IInv, TypeOK, StartInv, Calls, StartFinish
    <3>2. CASE ~StartFinish(s)
      BY <2>1, <3>2 DEF StartStep, StartBegin, StartAdmitted, StartReject, StartNode,
         StartAwaitsReady, StartEstablishes, StartFails, StartAborts, StartSucceeds,
         StartWins
    <3> QED BY <3>1, <3>2
  <2>2. ASSUME NEW p \in Releasers, ReleaseStep(p) PROVE Irreversible
    BY <2>2 DEF ReleaseStep, ReleaseNode, ReleaseEnds, ReleaseReturns
  <2>3. ASSUME NEW r \in RunCallers, RunStep(r) PROVE Irreversible
    BY <2>3 DEF RunStep, RunBegin, RunAdmitted, RunReject, RunFinish, RunCollect,
       CancelPeers, IInv, UseInv
  <2>4. ASSUME NEW i \in Runners, RunnerStep(i) PROVE Irreversible
    BY <2>4 DEF RunnerStep, RunnerReturns, RunnerReports
  <2>5. ASSUME NEW q \in Inspectors, InspectStep(q) PROVE Irreversible
    BY <2>5 DEF InspectStep, InspectBegin, InspectAdmitted, InspectReject, InspectEnd,
       FinishInspection, InspectNode
  <2>6. ASSUME NEW c \in Closers, CloseStep(c) PROVE Irreversible
    BY <2>6 DEF CloseStep, CloseAgain, CloseRequest, CloseCancel, CloseAwaitStart,
       CloseAwaitRun, CloseAwaitInspections, Await, CloseExpires, CloseNothingOpen,
       CloseJoin, CloseClaim, ClosePublish, CloseJoined, CancelRun
  <2>7. CASE (\E p \in Calls : CancelCtx(p)) \/ RollbackTimeout \/ UNCHANGED vars
    BY <2>7 DEF CancelCtx, RollbackTimeout
  <2> QED BY <2>1, <2>2, <2>3, <2>4, <2>5, <2>6, <2>7 DEF Next, Terminated
<1>2. []IInv /\ [][Next]_vars => [][Irreversible]_vars
  BY <1>1, PTL
<1> QED BY <1>2, Invariance, PTL DEF Spec, CloseIsIrreversible

-----------------------------------------------------------------------------
(* Passes, errors of Run, and the refinement of ResourceOwnership.         *)


\* What Stage calls draining, whether or not the graph is closed.
Draining ==
    \/ closeRequested
    \/ \E s \in Starters : startDone = "open" /\ Releasing(s) /\ failed[s]
    \/ startDone = "closed" /\ ~startSucceeded

\* A Start has acquired the nodes up to the one it is at, and nothing is
\* released while it still acquires.
PhaseInv ==
    /\ startDone = "nil" => acquired = {}
    /\ \A s \in Starters : pc[s] \in Acquiring => closedNodes = {}
    /\ \A s \in Starters : pc[s] \in Acquiring \cup {"idle"} => todo[s] = {}
    /\ \A s \in Starters : pc[s] = "next" => acquired = 1..(at[s] - 1)
    /\ \A s \in Starters : pc[s] \in {"starting", "readying"} => acquired = 1..at[s]
    /\ closedNodes \subseteq acquired /\ established \subseteq acquired
    /\ closedNodes # {} => Draining

\* A pass visits acquired nodes, closes open ones, and ends with nothing left
\* to visit unless its context expired.
VisitInv ==
    /\ \A p \in Releasers : pc[p] \in {"release", "closing"} => todo[p] \subseteq acquired
    /\ OnlyOpenNodesClose
    /\ PassIsComplete

\* A runner ended against the contract of Run, and the collector has seen it.
Broken == \E i \in Runners : runner[i] = "collected" /\ Unexpected(i)

\* A collector holds an error only because of such a runner; the Run that ended
\* ended with an error only because of one, or because its caller gave up.
RunInv ==
    /\ \A r \in RunCallers : pc[r] = "idle" => ~failed[r]
    /\ \A r \in RunCallers : pc[r] = "collect" /\ failed[r] => Broken
    /\ runDone = "closed" =>
         \E r \in RunCallers : pc[r] = "done" /\ (~failed[r] \/ ~ctx[r] \/ Broken)

OrderInv == PhaseInv /\ VisitInv /\ RunInv
-----------------------------------------------------------------------------
(* What a step leaves alone. *)

\* The phase only depends on what the Starts do and what is owned.
LEMMA PhaseFrame ==
    ASSUME PhaseInv,
           UNCHANGED <<startDone, startSucceeded, acquired, closedNodes, established>>,
           closeRequested => closeRequested',
           \A s \in Starters : /\ at'[s] = at[s] /\ todo'[s] = todo[s]
                               /\ \/ pc'[s] = pc[s] /\ failed'[s] = failed[s]
                                  \/ pc[s] = "idle" /\ pc'[s] = "done"
    PROVE  PhaseInv'
<1>1. Draining => Draining' BY DEF Draining, Releasing
<1> QED BY <1>1 DEF PhaseInv, Acquiring

\* The passes only depend on the calls that release and on their contexts.
LEMMA VisitFrame ==
    ASSUME VisitInv, acquired \subseteq acquired', closedNodes' = closedNodes,
           rollbackLive' => rollbackLive,
           \A p \in Releasers :
             /\ ctx'[p] => ctx[p]
             /\ \/ pc'[p] \notin {"release", "closing", "finish"}
                \/ pc'[p] = pc[p] /\ at'[p] = at[p] /\ todo'[p] = todo[p]
    PROVE  VisitInv'
BY DEF VisitInv, OnlyOpenNodesClose, PassIsComplete, Open, ReleaseCtx

\* The results of Run only depend on the runners and on the calls of Run.
LEMMA RunFrame ==
    ASSUME RunInv, UNCHANGED <<runDone, runner, runnerErr, runnerCtxErr>>,
           \A r \in RunCallers : /\ pc'[r] = pc[r] /\ failed'[r] = failed[r]
                                 /\ ctx'[r] => ctx[r]
    PROVE  RunInv'
<1>1. Broken => Broken' BY DEF Broken, Unexpected
<1> QED BY <1>1 DEF RunInv

\* The same of a call that is not a Run: no result of Run changes.
LEMMA OtherCallFrame ==
    ASSUME IInv, RunInv, UNCHANGED <<runDone, runner, runnerErr, runnerCtxErr, ctx>>,
           NEW p \in Calls \ RunCallers,
           \/ pc' = pc
           \/ \E label : pc' = [pc EXCEPT ![p] = label],
           \/ failed' = failed
           \/ \E error : failed' = [failed EXCEPT ![p] = error]
    PROVE  RunInv'
<1>1. \A r \in RunCallers : pc'[r] = pc[r] /\ failed'[r] = failed[r]
  BY DEF IInv, TypeOK, Calls
<1> QED BY <1>1, RunFrame
-----------------------------------------------------------------------------
(* The invariant is inductive. *)

\* A step of a Start preserves it.
LEMMA StartKeepsOrder ==
    ASSUME NEW s \in Starters, IInv, OrderInv, StartStep(s)
    PROVE  OrderInv'
<1> USE NAssumption, CallsAssumption
    DEF Nodes, Calls, Releasers, vars, graphVars, envVars, callVars, startVars,
        runVars, closeVars, nodeVars
<1>1. /\ pc \in [Calls -> Labels] /\ at \in [Calls -> 0..(N + 1)]
      /\ todo \in [Calls -> SUBSET Nodes] /\ failed \in [Calls -> BOOLEAN]
      /\ acquired \subseteq Nodes /\ closedNodes \subseteq Nodes
  BY DEF IInv, TypeOK
<1>2. \A t \in Starters : t # s /\ pc[s] \notin {"idle", "done"} => pc[t] \in {"idle", "done"}
  BY DEF IInv, StartInv
<1>3. RunInv'
  BY OtherCallFrame DEF OrderInv, StartStep, StartBegin, StartReject, StartNode,
     StartAwaitsReady, StartEstablishes, StartFails, StartAborts, StartSucceeds,
     StartFinish, Rollback, Goto, Return
<1>4. CASE StartBegin(s)
  <2>1. \A t \in Starters : pc[t] \in {"idle", "done"}
    BY <1>4 DEF IInv, StartInv, StartBegin, StartAdmitted
  <2>2. acquired = {} /\ closedNodes = {} /\ established = {}
    BY <1>4 DEF OrderInv, PhaseInv, StartBegin, StartAdmitted
  <2>3. PhaseInv'
    <3>1. pc'[s] = "next" /\ at'[s] = 1 /\ \A t \in Starters : t # s => pc'[t] = pc[t]
      BY <1>1, <1>4 DEF StartBegin, Goto
    <3>2. /\ acquired' = {} /\ closedNodes' = {} /\ established' = {} /\ todo' = todo
          /\ 1..(at'[s] - 1) = {}
      BY <1>4, <2>2, <3>1 DEF StartBegin
    <3>3. startDone' = "open" /\ pc[s] = "idle" BY <1>4 DEF StartBegin
    <3> QED BY <2>1, <3>1, <3>2, <3>3 DEF OrderInv, PhaseInv, Acquiring
  <2>4. VisitInv'
    BY <1>1, <1>4, VisitFrame DEF OrderInv, StartBegin, Goto
  <2> QED BY <1>3, <2>3, <2>4 DEF OrderInv
<1>5. CASE StartReject(s)
  <2>1. PhaseInv'
    BY <1>1, <1>5, PhaseFrame DEF OrderInv, StartReject, Return, Goto
  <2>2. VisitInv'
    BY <1>1, <1>5, VisitFrame DEF OrderInv, StartReject, Return, Goto
  <2> QED BY <1>3, <2>1, <2>2 DEF OrderInv
<1>6. CASE StartNode(s)
  <2>1. acquired = 1..(at[s] - 1) /\ acquired' = 1..at[s] /\ closedNodes = {}
    <3>1. acquired = 1..(at[s] - 1) /\ closedNodes = {}
      BY <1>6 DEF OrderInv, PhaseInv, Acquiring, StartNode
    <3>2. at[s] \in 1..N BY <1>6 DEF StartNode, InLoop
    <3> QED BY <1>6, <3>1, <3>2 DEF StartNode
  <2>2. PhaseInv'
    <3>1. pc'[s] = "starting" /\ \A t \in Starters : t # s => pc'[t] \in {"idle", "done"}
      BY <1>1, <1>2, <1>6 DEF StartNode, Goto
    <3>2. /\ UNCHANGED <<startDone, established, todo, at, closedNodes>>
          /\ startDone = "open" /\ acquired \subseteq acquired'
      BY <1>6 DEF StartNode, IInv, StartInv
    <3>3. \A t \in Starters : pc[t] \in Acquiring \cup {"idle"} => todo[t] = {}
      BY DEF OrderInv, PhaseInv
    <3>4. pc[s] \in Acquiring /\ \A t \in Starters : t # s => pc'[t] = pc[t]
      BY <1>1, <1>6 DEF StartNode, Goto, Acquiring
    <3> QED BY <2>1, <3>1, <3>2, <3>3, <3>4 DEF OrderInv, PhaseInv, Acquiring
  <2>3. VisitInv'
    BY <1>1, <1>6, VisitFrame DEF OrderInv, StartNode, Goto
  <2> QED BY <1>3, <2>2, <2>3 DEF OrderInv
<1>7. CASE StartAwaitsReady(s)
  <2>1. PhaseInv'
    <3>1. Draining => Draining'
      BY <1>1, <1>7 DEF Draining, Releasing, StartAwaitsReady, Goto
    <3> QED BY <1>1, <1>7, <3>1 DEF OrderInv, PhaseInv, Acquiring, StartAwaitsReady, Goto
  <2>2. VisitInv'
    BY <1>1, <1>7, VisitFrame DEF OrderInv, StartAwaitsReady, Goto
  <2> QED BY <1>3, <2>1, <2>2 DEF OrderInv
<1>8. CASE StartEstablishes(s)
  <2>1. acquired = 1..at[s] /\ closedNodes = {} /\ at[s] \in Nodes
    BY <1>8 DEF OrderInv, PhaseInv, Acquiring, StartEstablishes, IInv, LoopInv
  <2>2. at'[s] = at[s] + 1 /\ acquired' = 1..(at'[s] - 1)
    BY <1>1, <1>8, <2>1 DEF StartEstablishes
  <2>3. established' \subseteq acquired'
    <3>1. at[s] \in acquired BY <2>1
    <3> QED BY <1>8, <3>1 DEF OrderInv, PhaseInv, StartEstablishes
  <2>4. PhaseInv'
    BY <1>1, <1>2, <1>8, <2>1, <2>2, <2>3
       DEF OrderInv, PhaseInv, Acquiring, StartEstablishes, Goto
  <2>5. VisitInv'
    <3>1. at' = [at EXCEPT ![s] = at[s] + 1] BY <1>8 DEF StartEstablishes
    <3> QED BY <1>1, <1>8, <3>1 DEF OrderInv, VisitInv, OnlyOpenNodesClose,
       PassIsComplete, Open, ReleaseCtx, StartEstablishes, Goto
  <2> QED BY <1>3, <2>4, <2>5 DEF OrderInv
<1>9. CASE StartFails(s) \/ StartAborts(s)
  <2>1. /\ pc[s] \in Acquiring /\ closedNodes = {}
        /\ pc' = [pc EXCEPT ![s] = "release"] /\ todo' = [todo EXCEPT ![s] = acquired]
        /\ UNCHANGED <<startDone, startSucceeded, closeRequested, nodeVars,
                       established, envVars, at>>
    BY <1>9 DEF OrderInv, PhaseInv, Acquiring, StartFails, StartAborts, Rollback, Goto
  <2>2. PhaseInv'
    BY <1>1, <1>2, <2>1 DEF OrderInv, PhaseInv, Acquiring
  <2>3. VisitInv'
    BY <1>1, <2>1 DEF OrderInv, VisitInv, OnlyOpenNodesClose, PassIsComplete, Open,
       ReleaseCtx
  <2> QED BY <1>3, <2>2, <2>3 DEF OrderInv
<1>10. CASE StartSucceeds(s)
  <2>1. closedNodes = {} /\ todo[s] = {}
    BY <1>10 DEF OrderInv, PhaseInv, Acquiring, StartSucceeds
  <2>2. PhaseInv'
    BY <1>1, <1>10, <2>1 DEF OrderInv, PhaseInv, Acquiring, StartSucceeds, Goto
  <2>3. VisitInv'
    BY <1>1, <1>10, <2>1 DEF OrderInv, VisitInv, OnlyOpenNodesClose, PassIsComplete,
       Open, ReleaseCtx, StartSucceeds, Goto
  <2> QED BY <1>3, <2>2, <2>3 DEF OrderInv
<1>11. CASE StartFinish(s)
  <2>1. pc' = [pc EXCEPT ![s] = "done"] /\ startDone' = "closed"
    BY <1>11 DEF StartFinish, Return, Goto
  <2>2. \A t \in Starters : pc[t] \notin Acquiring
    BY <1>2, <1>11 DEF StartFinish, Acquiring
  <2>3. Draining => Draining'
    <3>1. CASE closeRequested BY <1>11, <3>1 DEF Draining, StartFinish
    <3>2. CASE startDone = "open" /\ ~closeRequested /\ Draining
      <4>1. PICK t \in Starters : Releasing(t) /\ failed[t] BY <3>2 DEF Draining
      <4>2. t = s BY <1>2, <1>11, <4>1 DEF StartFinish, Releasing
      <4> QED BY <1>11, <4>1, <4>2 DEF Draining, StartFinish
    <3>3. startDone = "open" BY <1>11 DEF IInv, StartInv, StartFinish
    <3> QED BY <3>1, <3>2, <3>3
  <2>4. PhaseInv'
    BY <1>1, <1>11, <2>1, <2>2, <2>3 DEF OrderInv, PhaseInv, Acquiring, StartFinish
  <2>5. VisitInv'
    BY <1>1, <1>11, <2>1, VisitFrame DEF OrderInv, StartFinish
  <2> QED BY <1>3, <2>4, <2>5 DEF OrderInv
<1> QED BY <1>4, <1>5, <1>6, <1>7, <1>8, <1>9, <1>10, <1>11 DEF StartStep, StartAdmitted

\* A step of closeIndexes preserves it: no other pass takes the node away that
\* this one is closing.
LEMMA ReleaseKeepsOrder ==
    ASSUME NEW p \in Releasers, IInv, OrderInv, ReleaseStep(p)
    PROVE  OrderInv'
<1> USE NAssumption, CallsAssumption
    DEF Nodes, Calls, Releasers, vars, graphVars, envVars, callVars, startVars,
        runVars, closeVars, nodeVars
<1>1. /\ pc \in [Calls -> Labels] /\ at \in [Calls -> 0..(N + 1)]
      /\ todo \in [Calls -> SUBSET Nodes] /\ failed \in [Calls -> BOOLEAN]
      /\ acquired \subseteq Nodes /\ closedNodes \subseteq Nodes
  BY DEF IInv, TypeOK
<1>2. pc[p] \in {"release", "closing"}
  BY DEF ReleaseStep, ReleaseNode, ReleaseEnds, ReleaseReturns
<1>3. \A t \in Starters : pc[t] \notin Acquiring
  <2>1. CASE p \in Starters BY <1>2, <2>1 DEF IInv, StartInv, Acquiring
  <2>2. CASE p \in Closers
    <3>1. startDone # "open" BY <1>2, <2>2 DEF IInv, CloseInv
    <3> QED BY <3>1 DEF IInv, StartInv, Acquiring
  <2> QED BY <2>1, <2>2
<1>4. \A q \in Releasers : q # p => pc[q] # "closing"
  <2>1. CASE p \in Starters
    <3>1. startDone = "open" BY <1>2, <2>1 DEF IInv, StartInv
    <3> QED BY <1>2, <2>1, <3>1 DEF IInv, StartInv, CloseInv
  <2>2. CASE p \in Closers
    <3>1. startDone # "open" /\ activeClose = p BY <1>2, <2>2 DEF IInv, CloseInv
    <3> QED BY <3>1 DEF IInv, StartInv, CloseInv
  <2> QED BY <2>1, <2>2
<1>5. Draining
  <2>1. CASE p \in Starters BY <1>2, <2>1 DEF IInv, StartInv, Draining, Releasing
  <2>2. CASE p \in Closers BY <1>2, <2>2 DEF IInv, CloseInv, Draining
  <2> QED BY <2>1, <2>2
<1>6. RunInv'
  BY OtherCallFrame DEF OrderInv, ReleaseStep, ReleaseNode, ReleaseEnds,
     ReleaseReturns, Goto
<1>7. \A i \in todo[p] : i \in acquired BY <1>2 DEF OrderInv, VisitInv
<1>8. PICK label \in {"release", "closing", "finish"} : pc' = [pc EXCEPT ![p] = label]
  BY DEF ReleaseStep, ReleaseNode, ReleaseEnds, ReleaseReturns, After, Goto
<1>9. Draining'
  <2>1. UNCHANGED <<startDone, startSucceeded, closeRequested>>
    BY DEF ReleaseStep, ReleaseNode, ReleaseEnds, ReleaseReturns
  <2>2. \A s \in Starters : Releasing(s) /\ failed[s] => Releasing(s)' /\ failed'[s]
    BY <1>1, <1>8 DEF Releasing, ReleaseStep, ReleaseNode, ReleaseEnds, ReleaseReturns
  <2> QED BY <1>5, <2>1, <2>2 DEF Draining
<1>10. PhaseInv'
  <2>1. closedNodes' \subseteq acquired
    <3>1. pc[p] = "closing" => at[p] \in acquired
      BY DEF OrderInv, VisitInv, OnlyOpenNodesClose, Open
    <3>2. \/ closedNodes' = closedNodes
          \/ pc[p] = "closing" /\ closedNodes' = closedNodes \cup {at[p]}
      BY DEF ReleaseStep, ReleaseNode, ReleaseEnds, ReleaseReturns
    <3> QED BY <3>1, <3>2 DEF OrderInv, PhaseInv
  <2>2. \A t \in Starters : pc'[t] \notin Acquiring \cup {"idle"} \/ (t # p /\ pc'[t] = pc[t])
    BY <1>1, <1>8 DEF Acquiring
  <2>3. /\ UNCHANGED <<startDone, acquired, established>>
        /\ \A t \in Starters : t # p => todo'[t] = todo[t]
    BY <1>1 DEF ReleaseStep, ReleaseNode, ReleaseEnds, ReleaseReturns
  <2> QED BY <1>3, <1>9, <2>1, <2>2, <2>3 DEF OrderInv, PhaseInv, Acquiring
<1>11. CASE ReleaseNode(p)
  <2>1. PICK i \in todo[p] :
          /\ todo' = [todo EXCEPT ![p] = @ \ {i}] /\ at' = [at EXCEPT ![p] = i]
          /\ pc' = [pc EXCEPT ![p] = IF i \in closedNodes THEN "release" ELSE "closing"]
    BY <1>11 DEF ReleaseNode, Goto
  <2>2. i \in acquired BY <1>7
  <2>3. VisitInv'
    BY <1>1, <1>11, <2>1, <2>2 DEF OrderInv, VisitInv, OnlyOpenNodesClose,
       PassIsComplete, Open, ReleaseCtx, ReleaseNode
  <2> QED BY <1>6, <1>10, <2>3 DEF OrderInv
<1>12. CASE ReleaseEnds(p)
  <2>1. VisitInv'
    BY <1>1, <1>12 DEF OrderInv, VisitInv, OnlyOpenNodesClose, PassIsComplete, Open,
       ReleaseCtx, ReleaseEnds, Goto
  <2> QED BY <1>6, <1>10, <2>1 DEF OrderInv
<1>13. ASSUME NEW error \in BOOLEAN, ReleaseReturns(p, error)
       PROVE  VisitInv'
  BY <1>1, <1>4, <1>13 DEF OrderInv, VisitInv, OnlyOpenNodesClose, PassIsComplete,
     Open, ReleaseCtx, ReleaseReturns, After, Goto
<1> QED BY <1>6, <1>10, <1>11, <1>12, <1>13 DEF OrderInv, ReleaseStep

\* A step of Run, the collector, preserves it: an error it takes up is one of a
\* runner that broke the contract, and it adds its own context's at the end.
LEMMA RunKeepsOrder ==
    ASSUME NEW r \in RunCallers, IInv, OrderInv, RunStep(r)
    PROVE  OrderInv'
<1> USE CallsAssumption
    DEF Calls, Releasers, vars, graphVars, envVars, callVars, startVars, runVars,
        closeVars, nodeVars
<1>1. /\ pc \in [Calls -> Labels] /\ failed \in [Calls -> BOOLEAN]
      /\ runner \in [Runners -> {"idle", "running", "returned", "sent", "collected"}]
  BY DEF IInv, TypeOK
<1>2. /\ UNCHANGED <<startDone, startSucceeded, closeRequested, acquired, closedNodes,
                     established, at, todo, ctx, rollbackLive>>
      /\ \A p \in Releasers : pc'[p] = pc[p] /\ failed'[p] = failed[p]
  BY <1>1 DEF RunStep, RunBegin, RunReject, RunFinish, RunCollect, Goto, Return
<1>3. PhaseInv' /\ VisitInv'
  BY <1>2, PhaseFrame, VisitFrame DEF OrderInv
<1>4. CASE RunBegin(r)
  <2>1. \A q \in RunCallers : pc[q] # "collect"
    BY <1>4 DEF IInv, UseInv, RunBegin, RunAdmitted
  <2>2. runDone' = "open" /\ failed' = failed /\ pc[r] = "idle"
        /\ pc' = [pc EXCEPT ![r] = "collect"]
    BY <1>4 DEF RunBegin, Goto
  <2>3. RunInv' BY <1>1, <2>1, <2>2 DEF OrderInv, RunInv
  <2> QED BY <1>3, <2>3 DEF OrderInv
<1>5. CASE RunReject(r)
  <2>1. /\ pc[r] = "idle" /\ pc' = [pc EXCEPT ![r] = "done"]
        /\ failed' = [failed EXCEPT ![r] = @ \/ TRUE]
        /\ UNCHANGED <<runDone, ctx, runner, runnerErr, runnerCtxErr>>
    BY <1>5 DEF RunReject, Return, Goto
  <2>2. Broken' = Broken BY <2>1 DEF Broken, Unexpected
  <2>3. RunInv' BY <1>1, <2>1, <2>2 DEF OrderInv, RunInv
  <2> QED BY <1>3, <2>3 DEF OrderInv
<1>6. CASE RunFinish(r)
  <2>1. /\ pc[r] = "collect" /\ pc' = [pc EXCEPT ![r] = "done"]
        /\ failed' = [failed EXCEPT ![r] = @ \/ (~ctx[r] /\ Runners # {})]
        /\ UNCHANGED <<ctx, runner, runnerErr, runnerCtxErr>>
    BY <1>6 DEF RunFinish, Return, Goto
  <2>2. Broken' = Broken BY <2>1 DEF Broken, Unexpected
  <2>3. ~failed'[r] \/ ~ctx'[r] \/ Broken'
    BY <1>1, <2>1, <2>2 DEF OrderInv, RunInv
  <2>4. \A q \in RunCallers : q # r => pc'[q] = pc[q] /\ failed'[q] = failed[q]
    BY <1>1, <2>1
  <2>5. RunInv' BY <1>1, <2>1, <2>2, <2>3, <2>4 DEF OrderInv, RunInv
  <2> QED BY <1>3, <2>5 DEF OrderInv
<1>7. ASSUME NEW i \in Runners, RunCollect(r, i)
      PROVE  OrderInv'
  <2>1. /\ pc' = pc /\ runner[i] = "sent" /\ runner' = [runner EXCEPT ![i] = "collected"]
        /\ failed' = [failed EXCEPT ![r] = @ \/ Unexpected(i)]
        /\ UNCHANGED <<runDone, ctx, runnerErr, runnerCtxErr>>
    BY <1>7 DEF RunCollect
  <2>2. Broken => Broken'
    BY <1>1, <2>1 DEF Broken, Unexpected
  <2>3. Unexpected(i) => Broken'
    BY <1>1, <2>1 DEF Broken, Unexpected
  <2>4. failed'[r] => failed[r] \/ Unexpected(i)
    BY <1>1, <2>1
  <2>5. \A q \in RunCallers : q # r => failed'[q] = failed[q]
    BY <1>1, <2>1
  <2>6. pc[r] = "collect" BY <1>7 DEF RunCollect
  <2>7. RunInv' BY <2>1, <2>2, <2>3, <2>4, <2>5, <2>6 DEF OrderInv, RunInv
  <2> QED BY <1>3, <2>7 DEF OrderInv
<1> QED BY <1>4, <1>5, <1>6, <1>7 DEF RunStep

\* A step of the goroutine around a Runner preserves it: what it reports is
\* settled before the collector takes it.
LEMMA RunnerKeepsOrder ==
    ASSUME NEW i \in Runners, IInv, OrderInv, RunnerStep(i)
    PROVE  OrderInv'
<1> USE DEF vars, graphVars, envVars, callVars, startVars, runVars, closeVars, nodeVars
<1>1. /\ runner \in [Runners -> {"idle", "running", "returned", "sent", "collected"}]
      /\ runnerErr \in [Runners -> {"nil", "ctx", "fault"}]
      /\ runnerCtxErr \in [Runners -> BOOLEAN]
  BY DEF IInv, TypeOK
<1>2. UNCHANGED <<pc, ctx, at, todo, failed, rollbackLive, startDone, startSucceeded,
                  closeRequested, acquired, closedNodes, established, runDone>>
  BY DEF RunnerStep, RunnerReturns, RunnerReports
<1>3. PhaseInv' /\ VisitInv'
  BY <1>2, PhaseFrame, VisitFrame DEF OrderInv
<1>4. \A j \in Runners : runner[j] = "collected" =>
         runner'[j] = "collected" /\ runnerErr'[j] = runnerErr[j]
                                 /\ runnerCtxErr'[j] = runnerCtxErr[j]
  BY <1>1 DEF RunnerStep, RunnerReturns, RunnerReports
<1>5. Broken => Broken' BY <1>4 DEF Broken, Unexpected
<1>6. RunInv' BY <1>2, <1>5 DEF OrderInv, RunInv
<1> QED BY <1>3, <1>6 DEF OrderInv

\* A step of Health or Ready preserves it.
LEMMA InspectKeepsOrder ==
    ASSUME NEW q \in Inspectors, IInv, OrderInv, InspectStep(q)
    PROVE  OrderInv'
<1> USE CallsAssumption
    DEF Calls, Releasers, vars, graphVars, envVars, callVars, startVars, runVars,
        closeVars, nodeVars
<1>1. /\ pc \in [Calls -> Labels] /\ failed \in [Calls -> BOOLEAN]
      /\ at \in [Calls -> 0..(N + 1)]
  BY DEF IInv, TypeOK
<1>2. /\ UNCHANGED <<startDone, startSucceeded, closeRequested, acquired, closedNodes,
                     established, todo, ctx, rollbackLive>>
      /\ \A p \in Releasers : /\ pc'[p] = pc[p] /\ failed'[p] = failed[p]
                              /\ at'[p] = at[p]
  BY <1>1 DEF InspectStep, InspectBegin, InspectReject, InspectEnd, InspectNode, Goto,
     Return
<1>3. PhaseInv' /\ VisitInv'
  BY <1>2, PhaseFrame, VisitFrame DEF OrderInv
<1>4. RunInv'
  BY OtherCallFrame DEF OrderInv, InspectStep, InspectBegin, InspectReject, InspectEnd,
     InspectNode, Goto, Return
<1> QED BY <1>3, <1>4 DEF OrderInv

\* A step of Close preserves it: it claims exactly what is open, and no Start is
\* acquiring then.
LEMMA CloseKeepsOrder ==
    ASSUME NEW c \in Closers, IInv, OrderInv, CloseStep(c)
    PROVE  OrderInv'
<1> USE CallsAssumption
    DEF Calls, Releasers, vars, graphVars, envVars, callVars, startVars, runVars,
        closeVars, nodeVars
<1>1. /\ pc \in [Calls -> Labels] /\ failed \in [Calls -> BOOLEAN]
      /\ todo \in [Calls -> SUBSET Nodes]
  BY DEF IInv, TypeOK
<1>2. RunInv'
  <2>1. CASE CloseCancel(c)
    <3>1. UNCHANGED <<runDone, runner, runnerErr, runnerCtxErr, ctx>>
      BY <2>1 DEF CloseCancel
    <3>2. \A r \in RunCallers : pc'[r] = pc[r] /\ failed'[r] = failed[r]
      BY <1>1, <2>1 DEF CloseCancel, Goto
    <3> QED BY <3>1, <3>2, RunFrame DEF OrderInv
  <2>2. CASE ~CloseCancel(c)
    BY <2>2, OtherCallFrame DEF OrderInv, CloseStep, CloseAgain, CloseRequest,
       CloseAwaitStart, CloseAwaitRun, CloseAwaitInspections, Await, CloseExpires,
       CloseNothingOpen, CloseJoin, CloseClaim, ClosePublish, CloseJoined, Goto, Return
  <2> QED BY <2>1, <2>2
<1>3. /\ UNCHANGED <<startDone, startSucceeded, acquired, closedNodes, established, at,
                     ctx, rollbackLive>>
      /\ closeRequested => closeRequested'
      /\ \A s \in Starters : /\ pc'[s] = pc[s] /\ failed'[s] = failed[s]
                             /\ todo'[s] = todo[s]
  BY <1>1 DEF CloseStep, CloseAgain, CloseRequest, CloseCancel, CloseAwaitStart,
     CloseAwaitRun, CloseAwaitInspections, Await, CloseExpires, CloseNothingOpen,
     CloseJoin, CloseClaim, ClosePublish, CloseJoined, Goto, Return
<1>4. PhaseInv' BY <1>3, PhaseFrame DEF OrderInv
<1>5. CASE CloseClaim(c)
  <2>1. todo' = [todo EXCEPT ![c] = Open] /\ pc' = [pc EXCEPT ![c] = "release"]
    BY <1>5 DEF CloseClaim, Goto
  <2>2. VisitInv'
    BY <1>1, <1>3, <2>1 DEF OrderInv, VisitInv, OnlyOpenNodesClose, PassIsComplete,
       Open, ReleaseCtx
  <2> QED BY <1>2, <1>4, <2>2 DEF OrderInv
<1>6. CASE ~CloseClaim(c)
  <2>1. /\ todo' = todo
        /\ \A p \in Releasers : pc'[p] = pc[p]
                              \/ pc'[p] \notin {"release", "closing", "finish"}
    BY <1>1, <1>6 DEF CloseStep, CloseAgain, CloseRequest, CloseCancel, CloseAwaitStart,
       CloseAwaitRun, CloseAwaitInspections, Await, CloseExpires, CloseNothingOpen,
       CloseJoin, ClosePublish, CloseJoined, Goto, Return
  <2>2. VisitInv' BY <1>3, <2>1, VisitFrame DEF OrderInv
  <2> QED BY <1>2, <1>4, <2>2 DEF OrderInv
<1> QED BY <1>5, <1>6

\* A context that expires, like a stutter, preserves it: contexts never revive.
LEMMA EnvironmentKeepsOrder ==
    ASSUME IInv, OrderInv,
           (\E p \in Calls : CancelCtx(p)) \/ RollbackTimeout \/ UNCHANGED vars
    PROVE  OrderInv'
<1> USE DEF vars, graphVars, envVars, callVars, startVars, runVars, closeVars, nodeVars
<1>1. /\ UNCHANGED <<graphVars, pc, callVars>>
      /\ rollbackLive' => rollbackLive
      /\ \A p \in Calls : ctx'[p] => ctx[p]
  BY DEF CancelCtx, RollbackTimeout, IInv, TypeOK
<1>2. PhaseInv' BY <1>1, PhaseFrame DEF OrderInv
<1>3. VisitInv' BY <1>1, VisitFrame DEF OrderInv, Calls, Releasers
<1>4. RunInv' BY <1>1, RunFrame DEF OrderInv, Calls
<1> QED BY <1>2, <1>3, <1>4 DEF OrderInv

\* The two invariants together are inductive.
LEMMA OrderInvariance == Spec => [](IInv /\ OrderInv)
<1>1. Init => OrderInv
  <2> SUFFICES ASSUME Init PROVE OrderInv
    OBVIOUS
  <2> USE CallsAssumption DEF Init, Calls, Releasers
  <2>1. PhaseInv BY DEF PhaseInv, Acquiring
  <2>2. VisitInv BY DEF VisitInv, OnlyOpenNodesClose, PassIsComplete
  <2>3. RunInv BY DEF RunInv
  <2> QED BY <2>1, <2>2, <2>3 DEF OrderInv
<1>2. IInv /\ OrderInv /\ [Next]_vars => OrderInv'
  <2> SUFFICES ASSUME IInv, OrderInv, [Next]_vars PROVE OrderInv'
    OBVIOUS
  <2>1. CASE \E s \in Starters : StartStep(s)    BY <2>1, StartKeepsOrder
  <2>2. CASE \E p \in Releasers : ReleaseStep(p) BY <2>2, ReleaseKeepsOrder
  <2>3. CASE \E r \in RunCallers : RunStep(r)    BY <2>3, RunKeepsOrder
  <2>4. CASE \E i \in Runners : RunnerStep(i)    BY <2>4, RunnerKeepsOrder
  <2>5. CASE \E q \in Inspectors : InspectStep(q) BY <2>5, InspectKeepsOrder
  <2>6. CASE \E c \in Closers : CloseStep(c)     BY <2>6, CloseKeepsOrder
  <2>7. CASE (\E p \in Calls : CancelCtx(p)) \/ RollbackTimeout \/ UNCHANGED vars
    BY <2>7, EnvironmentKeepsOrder
  <2> QED BY <2>1, <2>2, <2>3, <2>4, <2>5, <2>6, <2>7 DEF Next, Terminated
<1> QED BY <1>1, <1>2, Invariance, PTL DEF Spec
-----------------------------------------------------------------------------
(* What follows from it. *)

\* Start goes upwards on what is up; a pass visits every node that is open, none
\* twice and none that another pass has released, until nothing is left or its
\* context expires.
THEOREM OrderlyPasses == Spec => []PassesAreOrderly
<1>1. IInv /\ OrderInv => PassesAreOrderly
  BY DEF IInv, UpInv, OrderInv, VisitInv, PassesAreOrderly
<1> QED BY <1>1, OrderInvariance, PTL

\* A cancellation that Close or a peer initiates is a normal end: Run fails only
\* because a runner broke its contract or because a caller gave up.
THEOREM JustifiedRunErrors == Spec => []RunErrorIsJustified
<1>1. OrderInv => RunErrorIsJustified
  BY DEF OrderInv, RunInv, RunErrorIsJustified, Broken, Unexpected
<1> QED BY <1>1, OrderInvariance, PTL
-----------------------------------------------------------------------------
(* The refinement. *)

\* The stage of a graph tells only whether it is closed, draining, or how far
\* its Start has come.
LEMMA StageCases ==
    /\ closed => Stage = "closed"
    /\ ~closed /\ Draining => Stage = "draining"
    /\ ~closed /\ ~Draining /\ startSucceeded => Stage = "serving"
    /\ ~closed /\ ~Draining /\ ~startSucceeded /\ startDone = "open" => Stage = "starting"
    /\ ~closed /\ ~Draining /\ ~startSucceeded /\ startDone # "open" => Stage = "new"
BY DEF Stage, Draining

\* The same after a step.
LEMMA NextStageCases ==
    /\ closed' => Stage' = "closed"
    /\ ~closed' /\ Draining' => Stage' = "draining"
    /\ ~closed' /\ ~Draining' /\ startSucceeded' => Stage' = "serving"
    /\ ~closed' /\ ~Draining' /\ ~startSucceeded' /\ startDone' = "open" =>
         Stage' = "starting"
    /\ ~closed' /\ ~Draining' /\ ~startSucceeded' /\ startDone' # "open" => Stage' = "new"
BY DEF Stage, Draining

\* A step that changes neither how far the graph is nor what it owns is a
\* stutter of the abstract specification.
LEMMA Stutters ==
    ASSUME UNCHANGED <<startDone, startSucceeded, closed, acquired, closedNodes>>,
           Draining' = Draining
    PROVE  UNCHANGED Ownership!vars
<1>1. Stage' = Stage
  <2>1. CASE closed BY <2>1, StageCases, NextStageCases
  <2>2. CASE ~closed /\ Draining BY <2>2, StageCases, NextStageCases
  <2>3. CASE ~closed /\ ~Draining BY <2>3, StageCases, NextStageCases
  <2> QED BY <2>1, <2>2, <2>3
<1>2. Open' = Open BY DEF Open
<1> QED BY <1>1, <1>2 DEF Ownership!vars

\* Whether it drains depends on the Close requests and on the Starts.
LEMMA DrainingFrame ==
    ASSUME UNCHANGED <<startDone, startSucceeded, closeRequested>>,
           \A s \in Starters : (Releasing(s) /\ failed[s])' = (Releasing(s) /\ failed[s])
    PROVE  Draining' = Draining
<1>1. Draining => Draining' BY DEF Draining
<1>2. Draining' => Draining BY DEF Draining
<1> QED BY <1>1, <1>2 DEF Draining

\* A Start begins, acquires a node, serves, drains, or changes nothing that the
\* abstract specification tells.
LEMMA StartImplements ==
    ASSUME NEW s \in Starters, IInv, OrderInv, StartStep(s)
    PROVE  Ownership!Next \/ UNCHANGED Ownership!vars
<1> USE NAssumption, DepsAssumption, CallsAssumption
    DEF Nodes, Calls, Releasers, vars, graphVars, envVars, callVars, startVars,
        runVars, closeVars, nodeVars
<1>1. /\ pc \in [Calls -> Labels] /\ at \in [Calls -> 0..(N + 1)]
      /\ failed \in [Calls -> BOOLEAN] /\ startSucceeded \in BOOLEAN
  BY DEF IInv, TypeOK
<1>2. \A t \in Starters : t # s /\ pc[s] \notin {"idle", "done"} => pc[t] \in {"idle", "done"}
  BY DEF IInv, StartInv
<1>3. pc[s] \notin {"idle", "done"} => startDone = "open" /\ ~closed
  BY DEF IInv, StartInv, PassInv
<1>4. pc[s] \in Acquiring => ~startSucceeded /\ closedNodes = {}
  BY DEF IInv, StartInv, OrderInv, PhaseInv, Acquiring
<1>5. CASE StartBegin(s)
  <2>1. ~closed /\ ~closeRequested /\ startDone = "nil" /\ ~startSucceeded
    BY <1>5 DEF StartBegin, StartAdmitted, IInv, StartInv
  <2>2. Stage = "new" BY <2>1, StageCases DEF Draining
  <2>3. ~closed' /\ ~closeRequested' /\ startDone' = "open" /\ ~startSucceeded'
    BY <1>5, <2>1 DEF StartBegin
  <2>4. \A t \in Starters : ~Releasing(t)'
    BY <1>1, <1>5, <2>1 DEF IInv, StartInv, StartBegin, Goto, Releasing
  <2>5. Stage' = "starting" BY <2>3, <2>4, NextStageCases DEF Draining
  <2>6. Open' = Open /\ closedNodes' = closedNodes BY <1>5 DEF StartBegin, Open
  <2> QED BY <2>2, <2>5, <2>6 DEF Ownership!Next, Ownership!Begin
<1>6. CASE StartReject(s)
  <2>1. pc[s] = "idle" /\ pc'[s] = "done"
        /\ \A t \in Starters : t # s => pc'[t] = pc[t] /\ failed'[t] = failed[t]
    BY <1>1, <1>6 DEF StartReject, Return, Goto
  <2>2. Draining' = Draining
    BY <1>6, <2>1, DrainingFrame DEF StartReject, Releasing
  <2> QED BY <1>6, <2>2, Stutters DEF StartReject
<1>7. CASE StartNode(s)
  <2>1. /\ pc[s] = "next" /\ pc'[s] = "starting" /\ failed' = failed
        /\ \A t \in Starters : t # s => pc'[t] = pc[t]
    BY <1>1, <1>7 DEF StartNode, Goto
  <2>2. Draining' = Draining
    BY <1>7, <2>1, DrainingFrame DEF StartNode, Releasing
  <2>3. Stage \in {"starting", "draining"}
    BY <1>3, <1>4, <2>1, StageCases DEF Acquiring
  <2>4. UNCHANGED <<closed, startDone, startSucceeded>> BY <1>7 DEF StartNode
  <2>5. Stage' = Stage
    <3>1. CASE Draining BY <1>3, <2>1, <2>2, <2>4, <3>1, StageCases, NextStageCases
    <3>2. CASE ~Draining
      BY <1>3, <1>4, <2>1, <2>2, <2>4, <3>2, StageCases, NextStageCases DEF Acquiring
    <3> QED BY <3>1, <3>2
  <2>6. closedNodes = {} /\ closedNodes' = {} /\ Open = acquired /\ Open' = Open \cup {at[s]}
    BY <1>4, <1>7, <2>1 DEF StartNode, Acquiring, Open
  <2>7. acquired = 1..(at[s] - 1) /\ at[s] \in 1..N
    BY <1>7 DEF OrderInv, PhaseInv, StartNode, InLoop
  <2>8. at[s] \notin Open BY <2>6, <2>7
  <2>9. Deps[at[s]] \subseteq Open
    <3>1. \A d \in Deps[at[s]] : d \in 1..N /\ d < at[s] BY <2>7
    <3> QED BY <2>6, <2>7, <3>1
  <2>10. Ownership!Acquire(at[s])
    BY <2>3, <2>5, <2>6, <2>8, <2>9 DEF Ownership!Acquire
  <2> QED BY <2>7, <2>10 DEF Ownership!Next
<1>8. CASE StartAwaitsReady(s) \/ StartEstablishes(s)
  <2>1. /\ pc[s] \in Acquiring /\ pc'[s] \in Acquiring /\ failed' = failed
        /\ \A t \in Starters : t # s => pc'[t] = pc[t]
    BY <1>1, <1>8 DEF StartAwaitsReady, StartEstablishes, Goto, Acquiring
  <2>2. UNCHANGED <<startDone, startSucceeded, closeRequested, closed, acquired, closedNodes>>
    BY <1>8 DEF StartAwaitsReady, StartEstablishes
  <2>3. Draining' = Draining
    BY <2>1, <2>2, DrainingFrame DEF Releasing, Acquiring
  <2> QED BY <2>2, <2>3, Stutters
<1>9. CASE StartFails(s) \/ StartAborts(s)
  <2>1. /\ pc[s] \in Acquiring /\ pc'[s] = "release" /\ failed'[s]
        /\ UNCHANGED <<startDone, startSucceeded, closed, acquired, closedNodes>>
    BY <1>1, <1>9 DEF StartFails, StartAborts, Rollback, Goto, Acquiring
  <2>2. startDone = "open" /\ ~closed /\ ~startSucceeded
    BY <1>3, <1>4, <2>1 DEF Acquiring
  <2>3. Draining'
    BY <2>1, <2>2 DEF Draining, Releasing
  <2>4. Stage' = "draining" BY <2>1, <2>2, <2>3, NextStageCases
  <2>5. Stage \in {"starting", "draining"} BY <2>2, StageCases
  <2>6. Open' = Open BY <2>1 DEF Open
  <2> QED BY <2>1, <2>4, <2>5, <2>6 DEF Ownership!Next, Ownership!Drain, Ownership!vars
<1>10. CASE StartSucceeds(s)
  <2>1. /\ pc[s] = "next" /\ at[s] = N + 1 /\ ~closeRequested
        /\ pc'[s] = "finish" /\ startSucceeded' /\ failed' = failed
        /\ \A t \in Starters : t # s => pc'[t] = pc[t]
        /\ UNCHANGED <<startDone, closeRequested, closed, acquired, closedNodes>>
    BY <1>1, <1>10 DEF StartSucceeds, StartWins, Goto
  <2>2. startDone = "open" /\ ~closed /\ ~startSucceeded /\ closedNodes = {}
    BY <1>3, <1>4, <2>1 DEF Acquiring
  <2>3. ~failed[s] BY <2>1 DEF IInv, StartInv, Acquiring
  <2>4. ~Draining BY <1>2, <2>1, <2>2 DEF Draining, Releasing
  <2>5. ~Draining' BY <1>2, <2>1, <2>2, <2>3 DEF Draining, Releasing
  <2>6. Stage = "starting" BY <2>2, <2>4, StageCases
  <2>7. Stage' = "serving" BY <2>1, <2>2, <2>5, NextStageCases
  <2>8. acquired = 1..N
    <3>1. acquired = 1..(at[s] - 1) BY <2>1 DEF OrderInv, PhaseInv
    <3>2. at[s] - 1 = N BY <2>1
    <3> QED BY <3>1, <3>2
  <2>9. Open = 1..N /\ Open' = Open BY <2>1, <2>2, <2>8 DEF Open
  <2> QED BY <2>1, <2>6, <2>7, <2>9 DEF Ownership!Next, Ownership!Serve
<1>11. CASE StartFinish(s)
  <2>1. /\ pc[s] = "finish" /\ pc'[s] = "done" /\ startDone' = "closed"
        /\ startSucceeded' = ~failed[s]
        /\ \A t \in Starters : t # s => pc'[t] = pc[t]
        /\ UNCHANGED <<closeRequested, closed, acquired, closedNodes>>
    BY <1>1, <1>11 DEF StartFinish, Return, Goto
  <2>2. startDone = "open" /\ ~closed BY <1>3, <2>1
  <2>3. Stage' = Stage
    <3>1. CASE failed[s]
      <4>1. Draining /\ Draining' BY <2>1, <2>2, <3>1 DEF Draining, Releasing
      <4> QED BY <2>1, <2>2, <4>1, StageCases, NextStageCases
    <3>2. CASE ~failed[s]
      <4>1. startSucceeded /\ startSucceeded' BY <2>1, <3>2 DEF IInv, StartInv
      <4>2. Draining <=> closeRequested BY <1>2, <2>1, <2>2, <3>2 DEF Draining, Releasing
      <4>3. Draining' <=> closeRequested BY <2>1, <4>1 DEF Draining
      <4> QED BY <2>1, <2>2, <4>1, <4>2, <4>3, StageCases, NextStageCases
    <3> QED BY <3>1, <3>2
  <2>4. Open' = Open BY <2>1 DEF Open
  <2> QED BY <2>1, <2>3, <2>4 DEF Ownership!vars
<1> QED BY <1>5, <1>6, <1>7, <1>8, <1>9, <1>10, <1>11 DEF StartStep

\* closeIndexes releases the node whose Close returned nil, while the graph
\* drains, or changes nothing.
LEMMA ReleaseImplements ==
    ASSUME NEW p \in Releasers, IInv, OrderInv, ReleaseStep(p)
    PROVE  Ownership!Next \/ UNCHANGED Ownership!vars
<1> USE CallsAssumption
    DEF Calls, Releasers, vars, graphVars, envVars, callVars, startVars, runVars,
        closeVars, nodeVars
<1>1. /\ pc \in [Calls -> Labels] /\ failed \in [Calls -> BOOLEAN]
      /\ closedNodes \subseteq Nodes /\ acquired \subseteq Nodes
  BY DEF IInv, TypeOK
<1>2. pc[p] \in {"release", "closing"}
  BY DEF ReleaseStep, ReleaseNode, ReleaseEnds, ReleaseReturns
<1>3. PICK label \in {"release", "closing", "finish"} : pc' = [pc EXCEPT ![p] = label]
  BY DEF ReleaseStep, ReleaseNode, ReleaseEnds, ReleaseReturns, After, Goto
<1>4. /\ UNCHANGED <<startDone, startSucceeded, closeRequested, closed, acquired>>
      /\ failed[p] => failed'[p]
      /\ \A t \in Starters : t # p => failed'[t] = failed[t]
  BY <1>1 DEF ReleaseStep, ReleaseNode, ReleaseEnds, ReleaseReturns
<1>5. p \in Starters => failed[p] /\ startDone = "open"
  BY <1>2 DEF IInv, StartInv
<1>6. Draining' = Draining
  <2>1. \A s \in Starters : (Releasing(s) /\ failed[s])' = (Releasing(s) /\ failed[s])
    BY <1>1, <1>2, <1>3, <1>4, <1>5 DEF Releasing
  <2> QED BY <1>4, <2>1, DrainingFrame
<1>7. Draining
  BY <1>2, <1>5 DEF IInv, CloseInv, Draining, Releasing
<1>8. CASE closedNodes' = closedNodes
  BY <1>4, <1>6, <1>8, Stutters
<1>9. CASE closedNodes' # closedNodes
  <2>1. pc[p] = "closing" /\ closedNodes' = closedNodes \cup {at[p]}
    BY <1>9 DEF ReleaseStep, ReleaseNode, ReleaseEnds, ReleaseReturns
  <2>2. at[p] \in Open BY <2>1 DEF OrderInv, VisitInv, OnlyOpenNodesClose
  <2>3. ~closed BY <2>2 DEF IInv, PassInv, AllClosed
  <2>4. Stage = "draining" /\ Stage' = "draining"
    BY <1>4, <1>6, <1>7, <2>3, StageCases, NextStageCases
  <2>5. Open' = Open \ {at[p]} BY <1>4, <2>1 DEF Open
  <2>6. Ownership!Release(at[p])
    BY <2>1, <2>2, <2>4, <2>5 DEF Ownership!Release
  <2>7. at[p] \in Nodes BY <1>1, <2>2 DEF Open
  <2> QED BY <2>6, <2>7 DEF Ownership!Next
<1> QED BY <1>8, <1>9

\* A Close asks the graph to drain, finds it released, or changes nothing.
LEMMA CloseImplements ==
    ASSUME NEW c \in Closers, IInv, OrderInv, CloseStep(c)
    PROVE  Ownership!Next \/ UNCHANGED Ownership!vars
<1> USE CallsAssumption
    DEF Calls, Releasers, vars, graphVars, envVars, callVars, startVars, runVars,
        closeVars, nodeVars
<1>1. /\ pc \in [Calls -> Labels] /\ failed \in [Calls -> BOOLEAN]
      /\ startDone \in {"nil", "open", "closed"}
  BY DEF IInv, TypeOK
<1>2. /\ UNCHANGED <<startDone, startSucceeded, acquired, closedNodes>>
      /\ \A s \in Starters : pc'[s] = pc[s] /\ failed'[s] = failed[s]
  BY <1>1 DEF CloseStep, CloseAgain, CloseRequest, CloseCancel, CloseAwaitStart,
     CloseAwaitRun, CloseAwaitInspections, Await, CloseExpires, CloseNothingOpen,
     CloseJoin, CloseClaim, ClosePublish, CloseJoined, Goto, Return
<1>3. Open' = Open BY <1>2 DEF Open
<1>4. closeRequested' = closeRequested => Draining' = Draining
  BY <1>2, DrainingFrame DEF Releasing
<1>5. CASE CloseRequest(c)
  <2>1. ~closed /\ ~closed' /\ Draining' BY <1>5 DEF CloseRequest, Draining
  <2>2. Stage' = "draining" BY <2>1, NextStageCases
  <2>3. Stage \in {"new", "starting", "serving", "draining"} BY <2>1, StageCases
  <2> QED BY <1>2, <1>3, <2>2, <2>3 DEF Ownership!Next, Ownership!Drain, Ownership!vars
<1>6. CASE CloseNothingOpen(c) \/ ClosePublish(c)
  <2>1. pc[c] \in {"claim", "finish"} /\ closeRequested' = closeRequested
        /\ closed' \in {closed, TRUE} /\ (closed' => closed \/ AllClosed)
    BY <1>6 DEF CloseNothingOpen, ClosePublish, IInv, TypeOK
  <2>2. Draining BY <2>1 DEF IInv, CloseInv, Draining
  <2>3. CASE closed' = closed BY <1>2, <1>4, <2>1, <2>3, Stutters
  <2>4. CASE ~closed /\ closed'
    <3>1. Stage = "draining" /\ Stage' = "closed"
      BY <2>2, <2>4, StageCases, NextStageCases
    <3>2. Open = {} BY <2>1, <2>4 DEF AllClosed
    <3> QED BY <1>2, <1>3, <3>1, <3>2 DEF Ownership!Next, Ownership!Close
  <2> QED BY <2>1, <2>3, <2>4 DEF IInv, TypeOK
<1>7. CASE ~CloseRequest(c) /\ ~CloseNothingOpen(c) /\ ~ClosePublish(c)
  <2>1. UNCHANGED <<closeRequested, closed>>
    BY <1>7 DEF CloseStep, CloseAgain, CloseCancel, CloseAwaitStart, CloseAwaitRun,
       CloseAwaitInspections, Await, CloseExpires, CloseJoin, CloseClaim, CloseJoined
  <2> QED BY <1>2, <1>4, <2>1, Stutters
<1> QED BY <1>5, <1>6, <1>7

\* What Run, the runners, the inspections and expiring contexts do is invisible.
LEMMA OthersStutter ==
    ASSUME IInv,
           \/ \E r \in RunCallers : RunStep(r)
           \/ \E i \in Runners : RunnerStep(i)
           \/ \E q \in Inspectors : InspectStep(q)
           \/ \E p \in Calls : CancelCtx(p)
           \/ RollbackTimeout
           \/ UNCHANGED vars
    PROVE  UNCHANGED Ownership!vars
<1> USE CallsAssumption
    DEF Calls, vars, graphVars, envVars, callVars, startVars, runVars, closeVars, nodeVars
<1>1. pc \in [Calls -> Labels] /\ failed \in [Calls -> BOOLEAN]
  BY DEF IInv, TypeOK
<1>2. UNCHANGED <<startDone, startSucceeded, closeRequested, closed, acquired, closedNodes>>
  BY DEF RunStep, RunBegin, RunReject, RunFinish, RunCollect, RunnerStep, RunnerReturns,
     RunnerReports, InspectStep, InspectBegin, InspectReject, InspectEnd, InspectNode,
     CancelCtx, RollbackTimeout
<1>3. \A s \in Starters : pc'[s] = pc[s] /\ failed'[s] = failed[s]
  BY <1>1 DEF RunStep, RunBegin, RunReject, RunFinish, RunCollect, RunnerStep,
     RunnerReturns, RunnerReports, InspectStep, InspectBegin, InspectReject, InspectEnd,
     InspectNode, CancelCtx, RollbackTimeout, Goto, Return
<1>4. Draining' = Draining BY <1>2, <1>3, DrainingFrame DEF Releasing
<1> QED BY <1>2, <1>4, Stutters

\* The graph acquires, then releases, and never mixes the two, whatever its
\* callers, its providers and their contexts do.
THEOREM Refinement == Spec => ImplementsOwnership
<1>1. Init => Ownership!Init
  <2> SUFFICES ASSUME Init PROVE Ownership!Init
    OBVIOUS
  <2>1. ~closed /\ ~Draining /\ ~startSucceeded /\ startDone # "open"
    BY DEF Init, Draining
  <2>2. Stage = "new" BY <2>1, StageCases
  <2> QED BY <2>2 DEF Init, Ownership!Init, Open
<1>2. IInv /\ OrderInv /\ [Next]_vars => [Ownership!Next]_Ownership!vars
  <2> SUFFICES ASSUME IInv, OrderInv, [Next]_vars
               PROVE  Ownership!Next \/ UNCHANGED Ownership!vars
    OBVIOUS
  <2>1. CASE \E s \in Starters : StartStep(s)    BY <2>1, StartImplements
  <2>2. CASE \E p \in Releasers : ReleaseStep(p) BY <2>2, ReleaseImplements
  <2>3. CASE \E c \in Closers : CloseStep(c)     BY <2>3, CloseImplements
  <2>4. CASE \/ \E r \in RunCallers : RunStep(r)
             \/ \E i \in Runners : RunnerStep(i)
             \/ \E q \in Inspectors : InspectStep(q)
             \/ \E p \in Calls : CancelCtx(p)
             \/ RollbackTimeout
             \/ UNCHANGED vars
    BY <2>4, OthersStutter
  <2> QED BY <2>1, <2>2, <2>3, <2>4 DEF Next, Terminated
<1> QED BY <1>1, <1>2, OrderInvariance, PTL DEF Spec, ImplementsOwnership, Ownership!Spec
=============================================================================
