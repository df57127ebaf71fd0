-------------------------- MODULE ResourceOwnership --------------------------
(***************************************************************************)
(* What a resource graph promises about ownership, whoever calls it and    *)
(* however providers fail: it first acquires, dependencies before their    *)
(* dependents, and then releases; the two phases never mix, a released     *)
(* resource is never taken again, and "closed" means nothing is owned.     *)
(* ResourceGraph implements it.                                            *)
(***************************************************************************)
CONSTANTS Nodes, Deps

VARIABLES
    stage,     \* "new", "starting", "serving", "draining", "closed"
    owned,     \* resources the graph must still release
    released   \* resources it has released

vars == <<stage, owned, released>>

Init == stage = "new" /\ owned = {} /\ released = {}

Begin == stage = "new" /\ stage' = "starting" /\ UNCHANGED <<owned, released>>

\* Close may have been requested already, but nothing has been released yet.
Acquire(i) ==
    /\ stage \in {"starting", "draining"} /\ released = {}
    /\ i \notin owned /\ Deps[i] \subseteq owned
    /\ owned' = owned \cup {i}
    /\ UNCHANGED <<stage, released>>

Serve ==
    /\ stage = "starting" /\ owned = Nodes
    /\ stage' = "serving"
    /\ UNCHANGED <<owned, released>>

Drain ==
    /\ stage \in {"new", "starting", "serving"}
    /\ stage' = "draining"
    /\ UNCHANGED <<owned, released>>

Release(i) ==
    /\ stage = "draining" /\ i \in owned
    /\ owned' = owned \ {i} /\ released' = released \cup {i}
    /\ UNCHANGED stage

Close ==
    /\ stage = "draining" /\ owned = {}
    /\ stage' = "closed"
    /\ UNCHANGED <<owned, released>>

Next ==
    \/ Begin \/ Serve \/ Drain \/ Close
    \/ \E i \in Nodes : Acquire(i) \/ Release(i)

Spec == Init /\ [][Next]_vars
=============================================================================
