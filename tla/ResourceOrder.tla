---------------------------- MODULE ResourceOrder ----------------------------
(***************************************************************************)
(* Build of mss-boot/runtime/resource: validation of the declared          *)
(* dependencies and topologicalOrder, for every declaration over Names.    *)
(* Names are natural numbers ordered as the code's strings are.  A slice   *)
(* the code keeps sorted is a set, read in order.                          *)
(***************************************************************************)
EXTENDS Integers, FiniteSets, Sequences

CONSTANT Names
ASSUME NamesAssumption == Names \subseteq Nat /\ IsFiniteSet(Names)

VARIABLES
    deps,      \* what is declared: [declared names -> dependency names]
    indegree,  \* unplaced dependencies of each name, counted
    ready,     \* names with no unplaced dependency
    order,     \* the order so far
    verdict    \* "none", "sorting", "ok", "invalid", "cycle"

vars == <<deps, indegree, ready, order, verdict>>

declared == DOMAIN deps
Placed   == {order[k] : k \in DOMAIN order}
Dependents(name) == {d \in declared : name \in deps[d]}

Init ==
    /\ deps \in UNION {[D -> SUBSET Names] : D \in SUBSET Names}
    /\ indegree = [n \in declared |-> 0]
    /\ ready = {} /\ order = <<>> /\ verdict = "none"

\* No name depends on itself or on a name that is not declared.
Valid == \A n \in declared : n \notin deps[n] /\ deps[n] \subseteq declared

Reject ==
    /\ verdict = "none" /\ ~Valid
    /\ verdict' = "invalid"
    /\ UNCHANGED <<deps, indegree, ready, order>>

Count ==
    /\ verdict = "none" /\ Valid
    /\ indegree' = [n \in declared |-> Cardinality(deps[n])]
    /\ ready' = {n \in declared : deps[n] = {}}
    /\ verdict' = "sorting"
    /\ UNCHANGED <<deps, order>>

LastReady(name)  == \A other \in ready : other <= name
FirstReady(name) == \A other \in ready : name <= other

FreedButOne(name) == {d \in Dependents(name) : indegree[d] <= 2}
Freed(name) == {d \in Dependents(name) : indegree[d] = 1}

UncountEverything(name) == [d \in declared |-> indegree[d] - 1]
Uncount(name) ==
    [d \in declared |-> IF d \in Dependents(name) THEN indegree[d] - 1 ELSE indegree[d]]

Place(name) ==
    /\ verdict = "sorting" /\ name \in ready /\ FirstReady(name)
    /\ order' = Append(order, name)
    /\ indegree' = Uncount(name)
    /\ ready' = (ready \ {name}) \cup Freed(name)
    /\ UNCHANGED <<deps, verdict>>

NoCycleCheck == "ok"
Outcome == IF Len(order) = Cardinality(declared) THEN "ok" ELSE "cycle"

Finish ==
    /\ verdict = "sorting" /\ ready = {}
    /\ verdict' = Outcome
    /\ UNCHANGED <<deps, indegree, ready, order>>

Done == verdict \in {"ok", "invalid", "cycle"} /\ UNCHANGED vars

Next == Reject \/ Count \/ (\E name \in Names : Place(name)) \/ Finish \/ Done

Spec == Init /\ [][Next]_vars
-----------------------------------------------------------------------------
(* Properties *)

\* No count ever drops below zero or exceeds the declared dependencies.
TypeOK ==
    /\ indegree \in [declared -> 0..Cardinality(declared)]
    /\ ready \subseteq declared /\ order \in Seq(declared)
    /\ verdict \in {"none", "sorting", "ok", "invalid", "cycle"}

\* Every name comes once, after all its dependencies: with this order, node
\* indexes satisfy DepsAssumption of ResourceGraph.
OrderIsTopological ==
    \A j \in DOMAIN order :
        /\ \A d \in deps[order[j]] : \E i \in 1..(j - 1) : order[i] = d
        /\ \A i \in 1..(j - 1) : order[i] # order[j]

\* The order depends on the declarations only, not on the iteration of Go maps:
\* it is the topological order that always takes the smallest possible name.
OrderIsCanonical ==
    \A j \in DOMAIN order :
        \A name \in declared :
            /\ name < order[j]
            /\ \A i \in 1..(j - 1) : order[i] # name
            => ~ (deps[name] \subseteq {order[i] : i \in 1..(j - 1)})

\* A set of names each of which waits for another of the set.
Cyclic == \E S \in SUBSET declared : S # {} /\ \A n \in S : deps[n] \cap S # {}

\* Build accepts exactly the acyclic declarations, and then orders all of them.
VerdictIsExact ==
    /\ verdict = "ok" => ~Cyclic /\ Placed = declared
    /\ verdict = "cycle" => Cyclic

\* One order for every declaration that has one, whatever map iteration does, and
\* every node after its dependencies.
OrderIsCorrect == OrderIsTopological /\ OrderIsCanonical /\ VerdictIsExact
=============================================================================
