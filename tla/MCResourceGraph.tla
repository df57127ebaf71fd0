---------------------------- MODULE MCResourceGraph ---------------------------
(* Instances of ResourceGraph for TLC. *)
EXTENDS ResourceGraph

\* Two nodes, the second depending on the first.
ChainDeps == <<{}, {1}>>
\* Three nodes: 3 depends on 1 and 2.
JoinDeps == <<{}, {}, {1, 2}>>

\* Beside Start and one Close, one more caller appears, with a call or with a context
\* that has ended before it: a Run, an inspection or another Close, which comes second.
\* Whoever does not call keeps none of the others waiting.
CONSTANT First
Appears(p) == pc[p] # "idle" \/ ~ctx[p]
OneMoreCaller ==
    /\ Cardinality({p \in (RunCallers \cup Inspectors \cup Closers) \ {First} : Appears(p)}) <= 1
    /\ (\E c \in Closers : pc[c] # "idle") => pc[First] # "idle"
LiveSpec == Init /\ [][Next /\ OneMoreCaller']_vars /\ Fairness
=============================================================================
