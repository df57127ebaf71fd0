------------------------------ MODULE MCEventBus ------------------------------
(* Instances of EventBus for TLC.  A caller is named by a string. *)
EXTENDS EventBus, TLC

\* Run beside a Publish, Start and Close.
OverlapCall == ("start" :> "start") @@ ("run" :> "run") @@ ("pub" :> "publish")
               @@ ("close" :> "close")
\* Run or an inspection, beside Start and Close.
LifeCall == ("start" :> "start") @@ ("run" :> "run") @@ ("look" :> "inspect")
            @@ ("close" :> "close")

\* Beside Start and Close either Run is called or an inspection: the other was called
\* before Start, which left everything as it was.
RunOrLook == \E o \in {"run", "look"} : pc = [[p \in Callers |-> "idle"] EXCEPT ![o] = "returned"]
LiveInit == Built /\ RunOrLook
LiveSpec == LiveInit /\ [][Next]_vars /\ Fairness
=============================================================================
