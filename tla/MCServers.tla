------------------------------ MODULE MCServers -------------------------------
(***************************************************************************)
(* The concurrent services of the runtime and of the servers in one run.   *)
(* They share no state: the initial state chooses the one whose steps the  *)
(* behaviour shows, and the others rest where they have nothing to do.     *)
(***************************************************************************)
EXTENDS RedisResource, ServerManager, TaskServer, Hub, AuthorizationPolicy,
        Challenge, ConfigRuntime, KafkaQueue, EventRuntime

CONSTANT Subjects

VARIABLE subject
serversVars == <<subject, redisVars, serverVars, taskVars, hubVars, policyVars, challengeVars,
                 configVars, kafkaVars, eventVars>>

MCUserOf == [d \in Commands |-> "use"]
MCInside == [c \in Closers |-> IF c = "nested" THEN "use" ELSE NoUser]
MCAt == [r \in Reconcilers |-> IF r \in {"w1", "q1", "l1"} THEN 1 ELSE 2]

MCCodeOf == [v \in Verifications |-> "second"]
MCKeyOf(r) == IF r = "other" THEN "second" ELSE "first"
MCOwner(c) == IF c \in {"open2", "close2"} THEN "spare" ELSE "main"
MCCallerOf == [i \in Issues |-> "caller"]

(* A server whose tasks are all disabled.                                  *)
TaskRests ==
    /\ row = [k \in TaskKeys |-> [there |-> TRUE, on |-> FALSE, spec |-> "daily", entry |-> 0]]
    /\ cron = {} /\ loaded = [k \in TaskKeys |-> Unloaded] /\ serving = TRUE
    /\ due = NothingDue /\ operate = Idle
    /\ unsure = {} /\ troubles = 0 /\ edits = 0

ServersInit ==
    /\ subject \in Subjects
    /\ RedisInit
    /\ ServerInit /\ (subject # "manager" => graceful)
    /\ IF subject = "tasks" THEN TaskInit ELSE TaskRests
    /\ HubInit
    /\ PolicyInit
    /\ subject # "policy" => rowLocks /\ lastGlobal = [p \in Processes |-> 1]
    /\ ChallengeInit
    /\ ConfigInit /\ KafkaInit /\ EventInit

ServersNext ==
    \/ /\ subject = "redis" /\ RedisNext
       /\ UNCHANGED <<subject, serverVars, taskVars, hubVars, policyVars, challengeVars,
                      configVars, kafkaVars, eventVars>>
    \/ /\ subject = "manager" /\ ServerNext
       /\ UNCHANGED <<subject, redisVars, taskVars, hubVars, policyVars, challengeVars,
                      configVars, kafkaVars, eventVars>>
    \/ /\ subject = "tasks" /\ TaskNext
       /\ UNCHANGED <<subject, redisVars, serverVars, hubVars, policyVars, challengeVars,
                      configVars, kafkaVars, eventVars>>
    \/ /\ subject = "hub" /\ HubNext
       /\ UNCHANGED <<subject, redisVars, serverVars, taskVars, policyVars, challengeVars,
                      configVars, kafkaVars, eventVars>>
    \/ /\ subject = "policy" /\ PolicyNext
       /\ UNCHANGED <<subject, redisVars, serverVars, taskVars, hubVars, challengeVars,
                      configVars, kafkaVars, eventVars>>
    \/ /\ subject = "challenge" /\ ChallengeNext
       /\ UNCHANGED <<subject, redisVars, serverVars, taskVars, hubVars, policyVars,
                      configVars, kafkaVars, eventVars>>
    \/ /\ subject = "config" /\ ConfigNext
       /\ UNCHANGED <<subject, redisVars, serverVars, taskVars, hubVars, policyVars,
                      challengeVars, kafkaVars, eventVars>>
    \/ /\ subject = "kafka" /\ KafkaNext
       /\ UNCHANGED <<subject, redisVars, serverVars, taskVars, hubVars, policyVars,
                      challengeVars, configVars, eventVars>>
    \/ /\ subject = "events" /\ EventNext
       /\ UNCHANGED <<subject, redisVars, serverVars, taskVars, hubVars, policyVars,
                      challengeVars, configVars, kafkaVars>>

ServersSafeSpec == ServersInit /\ [][ServersNext]_serversVars
(* What does not act has no enabled action under fairness.                 *)
ServersSpec == /\ ServersInit /\ [][ServersNext]_serversVars
               /\ RedisFairness /\ ServerFairness /\ TaskFairness /\ HubFairness
               /\ PolicyFairness /\ ConfigFairness /\ KafkaFairness /\ EventFairness

(* The type invariant of the one that acts; the others stay where they are.*)
ServersTypeOK ==
    /\ subject = "redis" => RedisTypeOK
    /\ subject = "manager" => ServerTypeOK
    /\ subject = "tasks" => TaskTypeOK
    /\ subject = "hub" => HubTypeOK
    /\ subject = "policy" => PolicyTypeOK
    /\ subject = "challenge" => ChallengeTypeOK
    /\ subject = "config" => ConfigTypeOK
    /\ subject = "kafka" => KafkaTypeOK
    /\ subject = "events" => EventTypeOK

(* Nothing in use is closed and nothing ended goes unheard or unowned: the *)
(* server manager with its components, and what the configuration owns.    *)
LifecycleIsSafe == ServerIsSound /\ ConfigIsSafe
(* A connection's hub, a queue's groups and producer, and what announces   *)
(* the policy are used while they are open and closed in order.            *)
MessagingIsSafe == HubIsSafe /\ KafkaIsSafe /\ EventRuntimeIsSound

(* What no step of a component may do: a challenge beyond its limits, a    *)
(* database withdrawn before what uses it, an error sent on a closed       *)
(* channel.                                                                *)
StepsAreSound == ChallengeIsSound /\ DatabaseGoesLast /\ ErrorChannelIsRespected

(* What each of them owes in the end, under its own fairness.              *)
ServersProgress ==
    /\ RedisCloseReturns /\ FirstExitStopsAll /\ EnabledIsScheduled /\ ConnectionsEnd
    /\ ConfigReturns /\ KafkaStops /\ EventCallsReturn
    /\ subject = "policy" => EveryProcessConverges
=============================================================================
