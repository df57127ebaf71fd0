--------------------------- MODULE MCDerivedCache ---------------------------
(* Instances of DerivedCache for TLC.  A caller is named by a string. *)
EXTENDS DerivedCache, TLC

CallOf(loads, invalidates, others) ==
  [c \in loads |-> "load"] @@ [c \in invalidates |-> "invalidate"] @@ others
NoOthers == [c \in {} |-> "close"]

\* One invalidation, and two loads of its instance, or one of each instance, or two
\* of the other one (l4 follows l3 there: they are interchangeable).
FreshCall == CallOf({"l1", "l2", "l3", "l4"}, {"i1"}, NoOthers)
PeerAt == [c \in Callers |-> IF c \in {"i1", "l1", "l2"} THEN 1 ELSE 2]
Apart(loads, others) ==
  (\A c \in loads : pc[c] = "idle") \/ (\A c \in others : pc[c] = "idle")
HereOrThere == /\ Apart({"l2"}, {"l3", "l4"}) /\ Apart({"l1"}, {"l4"})
               /\ (pc["l3"] = "idle" => pc["l4"] = "idle")

\* Close of an instance that loads, invalidates and serves a transaction.
ShutCall == CallOf({"l1"}, {"i1"}, ("t1" :> "bypass") @@ ("c1" :> "close"))

\* Loads that share flights.
ShareCall == CallOf({"l1", "l2", "l3"}, {}, NoOthers)

\* Two invalidations of one instance, one after the other or not.
RepairCall == CallOf({"l1", "l2"}, {"i1", "i2"}, NoOthers)

OneInstance == [c \in Callers |-> 1]
OneQuery == [c \in Callers |-> "q"]
=============================================================================
