----------------------------- MODULE KafkaQueue -----------------------------
(***************************************************************************)
(* The managed Kafka queue (mss-boot/pkg/config/storage/queue/kafka.go)    *)
(* and the runnable that runs it (admin/internal/cmd/server/server.go).    *)
(* Consumers are registered before Start, each registration dialing the    *)
(* brokers beside its caller, who may give up first; Start runs every      *)
(* registered consumer until one fails or the queue is closed; Append      *)
(* borrows the producer; one worker closes everything, for as many closers *)
(* as there are.  The Sarama client is external.                           *)
(***************************************************************************)
EXTENDS Naturals, FiniteSets

CONSTANTS Registrations, KeyOf(_),   \* calls of RegisterContext, and their topic and group
          Withdrawn,                 \* those whose context may end
          Appends,                   \* calls of Append
          QueueClosers,              \* calls of Close beside that of the runnable
          Offsets,                   \* the messages of a topic are 1..Offsets
          ErrorSlots                 \* capacity of the error channel

ASSUME KafkaAssumption == Offsets \in Nat /\ ErrorSlots \in Nat

VARIABLES
    running, closing,     \* the flags of the queue
    runCtx,               \* the context of Start: "none", "live" or "ended"
    registration,         \* the goroutine of each registration
    registrant,           \* its caller
    abandoned,            \* registrations whose caller gave up
    consumers,            \* accepted registrations, by name
    group,                \* the consumer group each registration built
    runner,               \* its runConsumer
    claim,                \* per registration: next message, marked offset, handled ones
    producer,
    append,               \* where each Append stands
    finisher,             \* finishClose
    queueCloser,          \* where each closer stands
    start, runnable,      \* Kafka.Start and managedQueueRuntime.Start
    errorCh               \* queued errors, and whether the channel is closed

kafkaVars == <<running, closing, runCtx, registration, registrant, abandoned, consumers, group,
               runner, claim, producer, append, finisher, queueCloser, start, runnable, errorCh>>
flagVars == <<running, closing, runCtx>>
registerVars == <<registration, registrant, abandoned, consumers>>
consumeVars == <<runner, claim>>
endVars == <<finisher, queueCloser, start, runnable>>

KafkaTypeOK ==
    /\ running \in BOOLEAN /\ closing \in BOOLEAN /\ runCtx \in {"none", "live", "ended"}
    /\ registration \in [Registrations -> {"idle", "dialing", "rejecting", "accepted", "over"}]
    /\ registrant \in [Registrations -> {"idle", "waiting", "ok", "refused", "withdrawn"}]
    /\ abandoned \subseteq Registrations /\ consumers \subseteq Registrations
    /\ group \in [Registrations -> {"none", "open", "closed", "closed twice"}]
    /\ runner \in [Registrations -> {"none", "runs", "failed", "ended"}]
    /\ claim \in [Registrations ->
                    [next : 1..(Offsets + 1), marked : 1..(Offsets + 1), handled : SUBSET (1..Offsets)]]
    /\ producer \in {"open", "closed"}
    /\ append \in [Appends -> {"idle", "sending", "over"}]
    /\ finisher \in {"none", "groups", "waits", "ends", "done"}
    /\ queueCloser \in [QueueClosers -> {"idle", "waits", "over"}]
    /\ start \in {"idle", "selects", "waits", "over"}
    /\ runnable \in {"idle", "selects", "stops", "over"}
    /\ errorCh \in [queued : 0..ErrorSlots, closed : BOOLEAN]

KafkaInit ==
    /\ running = FALSE /\ closing = FALSE /\ runCtx = "none"
    /\ registration = [r \in Registrations |-> "idle"]
    /\ registrant = [r \in Registrations |-> "idle"]
    /\ abandoned = {} /\ consumers = {}
    /\ group = [r \in Registrations |-> "none"]
    /\ runner = [r \in Registrations |-> "none"]
    /\ claim = [r \in Registrations |-> [next |-> 1, marked |-> 1, handled |-> {}]]
    /\ producer = "open" /\ append = [a \in Appends |-> "idle"]
    /\ finisher = "none" /\ queueCloser = [c \in QueueClosers |-> "idle"]
    /\ start = "idle" /\ runnable = "idle"
    /\ errorCh = [queued |-> 0, closed |-> FALSE]

AlwaysReportable == TRUE
(* reportError: a full or closed channel drops the error.                  *)
Reportable == ~errorCh.closed
Reported ==
    IF Reportable /\ errorCh.queued < ErrorSlots
      THEN [errorCh EXCEPT !.queued = @ + 1] ELSE errorCh
Pending == {r \in Registrations : registration[r] = "dialing"}

-----------------------------------------------------------------------------
(* RegisterContext                                                         *)

KeyAccepted(r) == \E q \in consumers : KeyOf(q) = KeyOf(r)
KeyTaken(r) == \E q \in consumers \cup Pending : KeyOf(q) = KeyOf(r)
RegisterCall(r) ==
    /\ registration[r] = "idle" /\ registrant[r] = "idle"
    /\ IF closing \/ running \/ KeyTaken(r)
         THEN /\ registrant' = [registrant EXCEPT ![r] = "refused"]
              /\ UNCHANGED registration
         ELSE /\ registrant' = [registrant EXCEPT ![r] = "waiting"]
              /\ registration' = [registration EXCEPT ![r] = "dialing"]
    /\ UNCHANGED <<flagVars, abandoned, consumers, group, consumeVars, producer, append, endVars,
                   errorCh>>

(* The factory fails, and the caller will hear of it.                      *)
DialFails(r) ==
    /\ registration[r] = "dialing"
    /\ registration' = [registration EXCEPT ![r] = "over"]
    /\ UNCHANGED <<flagVars, registrant, abandoned, consumers, group, consumeVars, producer,
                   append, endVars, errorCh>>

UnwantedByQueue(r) == closing \/ running
(* The group arrives late: it is refused, closed, and only then the        *)
(* registration is over.                                                   *)
Unwanted(r) == r \in abandoned \/ closing \/ running
DialEnds(r) ==
    /\ registration[r] = "dialing"
    /\ group' = [group EXCEPT ![r] = "open"]
    /\ IF Unwanted(r)
         THEN /\ registration' = [registration EXCEPT ![r] = "rejecting"]
              /\ UNCHANGED consumers
         ELSE /\ registration' = [registration EXCEPT ![r] = "accepted"]
              /\ consumers' = consumers \cup {r}
    /\ UNCHANGED <<flagVars, registrant, abandoned, consumeVars, producer, append, endVars, errorCh>>

Closed(g) == IF g = "open" THEN "closed" ELSE "closed twice"
Rejects(r) ==
    /\ registration[r] = "rejecting"
    /\ group' = [group EXCEPT ![r] = Closed(@)]
    /\ registration' = [registration EXCEPT ![r] = "over"]
    /\ UNCHANGED <<flagVars, registrant, abandoned, consumers, consumeVars, producer, append,
                   endVars, errorCh>>

NeverCompleted(r) == FALSE
(* The caller sees the outcome, also when its context ended meanwhile.     *)
Completed(r) == registration[r] \in {"accepted", "over"}
Hears(r) ==
    /\ registrant[r] = "waiting" /\ registration[r] \in {"accepted", "over"}
    /\ registrant' = [registrant EXCEPT ![r] = IF registration[r] = "accepted" THEN "ok" ELSE "refused"]
    /\ UNCHANGED <<flagVars, registration, abandoned, consumers, group, consumeVars, producer,
                   append, endVars, errorCh>>
Withdraws(r) ==
    /\ registrant[r] = "waiting" /\ r \in Withdrawn /\ ~Completed(r)
    /\ registrant' = [registrant EXCEPT ![r] = "withdrawn"]
    /\ abandoned' = abandoned \cup {r}
    /\ UNCHANGED <<flagVars, registration, consumers, group, consumeVars, producer, append,
                   endVars, errorCh>>

-----------------------------------------------------------------------------
(* Append                                                                  *)

AppendCall(a) ==
    /\ append[a] = "idle"
    /\ append' = [append EXCEPT ![a] = IF closing \/ producer = "closed" THEN "over" ELSE "sending"]
    /\ UNCHANGED <<flagVars, registerVars, group, consumeVars, producer, endVars, errorCh>>
AppendEnds(a) ==
    /\ append[a] = "sending"
    /\ append' = [append EXCEPT ![a] = "over"]
    /\ errorCh' \in {errorCh, Reported}
    /\ UNCHANGED <<flagVars, registerVars, group, consumeVars, producer, endVars>>

-----------------------------------------------------------------------------
(* Start and its consumers                                                 *)

(* The runnable calls Start in a goroutine.                                *)
RunnableStarts ==
    /\ runnable = "idle" /\ start = "idle"
    /\ runnable' = "selects"
    /\ IF closing \/ running \/ Pending # {}
         THEN start' = "over" /\ UNCHANGED <<running, runCtx, runner>>
         ELSE /\ start' = "selects" /\ running' = TRUE /\ runCtx' = "live"
              /\ runner' = [r \in Registrations |-> IF r \in consumers THEN "runs" ELSE "none"]
    /\ UNCHANGED <<closing, registerVars, group, claim, producer, append, finisher, queueCloser,
                   errorCh>>

(* ConsumeClaim hands one message over and marks it when that succeeded    *)
(* within the session; a failure or the session's end makes the next one   *)
(* resume at the mark.                                                     *)
MarksAfterSuccess(k) == [next |-> k.next + 1, marked |-> k.next + 1, handled |-> k.handled \cup {k.next}]
MarksNothing(k) == [k EXCEPT !.next = k.marked, !.handled = @ \cup {k.next}]
SkipsFailed(k) == [k EXCEPT !.next = @ + 1]
ResumesAtMark(k) == [k EXCEPT !.next = k.marked]
HandlesMessage(r) ==
    /\ runner[r] = "runs" /\ runCtx = "live" /\ claim[r].next <= Offsets
    /\ \/ claim' = [claim EXCEPT ![r] = MarksAfterSuccess(@)] /\ UNCHANGED errorCh
       \/ claim' = [claim EXCEPT ![r] = MarksNothing(@)] /\ UNCHANGED errorCh
       \/ claim' = [claim EXCEPT ![r] = ResumesAtMark(@)] /\ errorCh' = Reported
    /\ UNCHANGED <<flagVars, registerVars, group, runner, producer, append, endVars>>

ConsumerFails(r) ==
    /\ runner[r] = "runs" /\ runCtx = "live"
    /\ runner' = [runner EXCEPT ![r] = "failed"]
    /\ UNCHANGED <<flagVars, registerVars, group, claim, producer, append, endVars, errorCh>>
ConsumerEnds(r) ==
    /\ runner[r] = "runs" /\ (runCtx = "ended" \/ group[r] # "open")
    /\ runner' = [runner EXCEPT ![r] = "ended"]
    /\ UNCHANGED <<flagVars, registerVars, group, claim, producer, append, endVars, errorCh>>

BeginsClose == IF finisher = "none" THEN "groups" ELSE finisher
(* Start hears of its context's end or of a result, and closes the queue.  *)
StartStops ==
    /\ start = "selects"
    /\ \/ runCtx = "ended" /\ UNCHANGED errorCh
       \/ \E r \in consumers : runner[r] = "failed" /\ errorCh' = Reported
       \/ \E r \in Registrations : runner[r] = "ended" /\ UNCHANGED errorCh
    /\ start' = "waits" /\ runCtx' = "ended"
    /\ closing' = TRUE /\ finisher' = BeginsClose
    /\ UNCHANGED <<running, registerVars, group, consumeVars, producer, append, queueCloser, runnable>>
(* Start returns when the close is done, or after ten seconds of it.       *)
StartReturns ==
    /\ start = "waits"
    /\ start' = "over"
    /\ UNCHANGED <<flagVars, registerVars, group, consumeVars, producer, append, finisher,
                   queueCloser, runnable, errorCh>>

(* managedQueueRuntime.Start: the caller's context ends, an error of the   *)
(* queue arrives, or Start returned.                                       *)
CallerEndsRun ==
    /\ runnable = "selects" /\ runCtx = "live"
    /\ runCtx' = "ended"
    /\ UNCHANGED <<running, closing, registerVars, group, consumeVars, producer, append, endVars,
                   errorCh>>
RunnableHears ==
    /\ runnable = "selects" /\ errorCh.queued > 0
    /\ errorCh' = [errorCh EXCEPT !.queued = @ - 1]
    /\ runnable' = "stops"
    /\ runCtx' = IF runCtx = "live" THEN "ended" ELSE runCtx
    /\ closing' = TRUE /\ finisher' = BeginsClose
    /\ UNCHANGED <<running, registerVars, group, consumeVars, producer, append, queueCloser, start>>
RunnableReturns ==
    /\ \/ runnable = "selects" /\ start = "over"
       \/ runnable = "stops"
    /\ runnable' = "over"
    /\ errorCh' = IF runnable = "selects" THEN [errorCh EXCEPT !.queued = 0] ELSE errorCh
    /\ UNCHANGED <<flagVars, registerVars, group, consumeVars, producer, append, finisher,
                   queueCloser, start>>

-----------------------------------------------------------------------------
(* Close                                                                   *)

KafkaCloseCall(c) ==
    /\ queueCloser[c] = "idle"
    /\ queueCloser' = [queueCloser EXCEPT ![c] = "waits"]
    /\ closing' = TRUE /\ finisher' = BeginsClose
    /\ runCtx' = IF runCtx = "live" /\ finisher = "none" THEN "ended" ELSE runCtx
    /\ UNCHANGED <<running, registerVars, group, consumeVars, producer, append, start, runnable,
                   errorCh>>
(* Close returns when it is done, or with its context.                     *)
CloseReturns(c) ==
    /\ queueCloser[c] = "waits"
    /\ queueCloser' = [queueCloser EXCEPT ![c] = "over"]
    /\ UNCHANGED <<flagVars, registerVars, group, consumeVars, producer, append, finisher, start,
                   runnable, errorCh>>

ClosesGroups ==
    /\ finisher = "groups"
    /\ group' = [r \in Registrations |-> IF r \in consumers THEN Closed(group[r]) ELSE group[r]]
    /\ finisher' = "waits"
    /\ UNCHANGED <<flagVars, registerVars, consumeVars, producer, append, queueCloser, start,
                   runnable, errorCh>>

NotCounted == TRUE
RegistrationsOver == \A r \in Registrations : registration[r] \notin {"dialing", "rejecting"}
OperationsOver == \A a \in Appends : append[a] # "sending"
RunnersOver == \A r \in Registrations : runner[r] # "runs"
ClosesProducer ==
    /\ finisher = "waits" /\ RegistrationsOver /\ RunnersOver /\ OperationsOver
    /\ producer' = "closed" /\ finisher' = "ends"
    /\ UNCHANGED <<flagVars, registerVars, group, consumeVars, append, queueCloser, start, runnable,
                   errorCh>>
FinishesClose ==
    /\ finisher = "ends"
    /\ finisher' = "done" /\ consumers' = {}
    /\ \E e \in {errorCh, Reported} : errorCh' = [e EXCEPT !.closed = TRUE]
    /\ UNCHANGED <<flagVars, registration, registrant, abandoned, group, consumeVars, producer,
                   append, queueCloser, start, runnable>>

(* Register, the legacy form, reports the refusal to the error channel     *)
(* whatever the state of the queue.                                        *)
LegacyReports ==
    /\ closing /\ errorCh' = Reported /\ errorCh' # errorCh
    /\ UNCHANGED <<flagVars, registerVars, group, consumeVars, producer, append, endVars>>

RegistrationStep(r) == DialFails(r) \/ DialEnds(r) \/ Rejects(r) \/ Hears(r)
FinishStep == ClosesGroups \/ ClosesProducer \/ FinishesClose

KafkaNext ==
    \/ \E r \in Registrations :
          \/ RegisterCall(r) \/ RegistrationStep(r) \/ Withdraws(r)
          \/ HandlesMessage(r) \/ ConsumerFails(r) \/ ConsumerEnds(r)
    \/ \E a \in Appends : AppendCall(a) \/ AppendEnds(a)
    \/ RunnableStarts \/ StartStops \/ StartReturns
    \/ CallerEndsRun \/ RunnableHears \/ RunnableReturns
    \/ \E c \in QueueClosers : KafkaCloseCall(c) \/ CloseReturns(c)
    \/ FinishStep \/ LegacyReports

(* Goroutines run; the dialing of a group, a send and a session under an   *)
(* ended context end.                                                      *)
KafkaFairness ==
    /\ \A r \in Registrations :
          /\ WF_kafkaVars(DialFails(r) \/ DialEnds(r)) /\ WF_kafkaVars(Rejects(r))
          /\ WF_kafkaVars(Hears(r)) /\ WF_kafkaVars(ConsumerEnds(r))
    /\ \A a \in Appends : WF_kafkaVars(AppendEnds(a))
    /\ \A c \in QueueClosers : WF_kafkaVars(CloseReturns(c))
    /\ WF_kafkaVars(StartStops) /\ WF_kafkaVars(StartReturns)
    /\ WF_kafkaVars(RunnableHears) /\ WF_kafkaVars(RunnableReturns) /\ WF_kafkaVars(FinishStep)
KafkaSpec == KafkaInit /\ [][KafkaNext]_kafkaVars /\ KafkaFairness

-----------------------------------------------------------------------------
(* The producer is never closed under a message being sent, and a close    *)
(* that is done leaves no runner, no dialing registration and no group     *)
(* open; no group is closed twice.                                         *)
CloseIsComplete ==
    /\ producer = "closed" => \A a \in Appends : append[a] # "sending"
    /\ finisher = "done" => \A r \in Registrations :
          /\ group[r] # "open" /\ runner[r] # "runs"
          /\ registration[r] \notin {"dialing", "rejecting"}
    /\ \A r \in Registrations : group[r] # "closed twice"

(* A caller told of its own cancellation left no consumer behind, and one  *)
(* told of success has the group it asked for until the queue closes.      *)
OutcomeIsTrue ==
    \A r \in Registrations :
        /\ registrant[r] = "withdrawn" => r \notin consumers
        /\ registrant[r] = "ok" => r \in consumers \/ finisher = "done"

(* One topic and group has one consumer; a running queue runs every        *)
(* consumer it accepted.                                                   *)
ConsumersAreUnique ==
    /\ \A r, q \in consumers : KeyOf(r) = KeyOf(q) => r = q
    /\ running => \A r \in consumers : runner[r] # "none"

(* An offset is committed only when every message before it was handled.   *)
MarksFollowHandling ==
    \A r \in Registrations : 1..(claim[r].marked - 1) \subseteq claim[r].handled

KafkaIsSafe == CloseIsComplete /\ OutcomeIsTrue /\ ConsumersAreUnique /\ MarksFollowHandling

(* Nothing is sent on the error channel once it is closed.                 *)
ErrorChannelIsRespected ==
    [][errorCh.closed => errorCh'.queued <= errorCh.queued]_kafkaVars

(* A close that began is done in the end, and a queue whose consumer       *)
(* failed or whose context ended stops its runnable.                       *)
KafkaStops ==
    /\ closing ~> finisher = "done"
    /\ (start = "selects" /\ \E r \in Registrations : runner[r] = "failed") ~> runnable = "over"
    /\ (runnable = "selects" /\ runCtx = "ended") ~> (runnable = "over" /\ finisher = "done")
=============================================================================
