------------------------------ MODULE DevManager ------------------------------
(***************************************************************************)
(* mss dev start and stop (internal/mss/dev/manager.go): commands that     *)
(* launch, watch and stop the services of a repository.  What they know of *)
(* one another is a state file per service, with the process id and its    *)
(* start identity, and a lifecycle lock under which all but the watching   *)
(* happens.  Processes exit on their own, their ids are used again by      *)
(* processes of others, and a command may be killed at any step.           *)
(*                                                                         *)
(* A process is named by its id and the number of its launch, which stands *)
(* for the start identity the system reports.  A signal and the check of   *)
(* the identity before it are one step.                                    *)
(***************************************************************************)
EXTENDS Integers, Sequences, FiniteSets

CONSTANTS Commands,
          Services,               \* 1..n in dependency order
          Pids,
          MaxLaunches,            \* bound: processes started, ours and others'
          MaxMishaps              \* bound: exits, failed writes, kills, refused checks

ASSUME DevAssumption ==
    /\ IsFiniteSet(Services) /\ Services # {} /\ Services = 1..Cardinality(Services)
    /\ Pids \subseteq Nat \ {0} /\ "none" \notin Commands /\ {MaxLaunches, MaxMishaps} \subseteq Nat

VARIABLES process,                \* what runs under each process id
          stateFile,              \* the state file of each service
          lifecycle,              \* the command that holds the lifecycle lock
          command,
          launches, mishaps,
          strangers,              \* history: processes of others that were signalled
          lost                    \* history: launched by a command killed before it wrote it down

devVars == <<process, stateFile, lifecycle, command, launches, mishaps, strangers, lost>>

NoProcess == [service |-> 0, token |-> 0, asked |-> FALSE]
NoState == [service |-> 0, pid |-> 0, token |-> 0]
Identity == [service : Services, pid : Pids, token : 1..MaxLaunches]
NotIssued == [does |-> "none", stage |-> "idle", next |-> 1, job |-> NoState, started |-> <<>>,
              todo |-> <<>>, watches |-> {}, told |-> FALSE]
NoCommand == "none"

DevTypeOK ==
    /\ process \in [Pids -> [service : Services \cup {0}, token : 0..MaxLaunches, asked : BOOLEAN]]
    /\ stateFile \in [Services -> Identity \cup {NoState}]
    /\ lifecycle \in Commands \cup {NoCommand}
    /\ launches \in 0..MaxLaunches /\ mishaps \in 0..MaxMishaps /\ strangers \cup lost \subseteq 1..MaxLaunches
    /\ \A c \in Commands :
          /\ command[c].does \in {"none", "foreground", "detached", "stop"}
          /\ command[c].stage \in {"idle", "start", "launched", "ready", "stop", "signal", "wait",
                                   "watch", "done"}
          /\ command[c].job \in Identity \cup {NoState}
          /\ command[c].started \in Seq(Identity) /\ command[c].todo \in Seq(Identity)
          /\ command[c].watches \subseteq Identity

DevInit ==
    /\ process = [p \in Pids |-> NoProcess] /\ stateFile = [s \in Services |-> NoState]
    /\ lifecycle = NoCommand /\ command = [c \in Commands |-> NotIssued]
    /\ launches = 0 /\ mishaps = 0 /\ strangers = {} /\ lost = {}

Runs(id) == process[id.pid].token = id.token
Gone(id) == process[id.pid].token = 0
Held(c, stage) == lifecycle = c /\ command[c].stage = stage
Mishap == mishaps < MaxMishaps /\ mishaps' = mishaps + 1
NoMishap == UNCHANGED mishaps
Set(c, record) == command' = [command EXCEPT ![c] = record]
CommandEnds(c) == command' = [command EXCEPT ![c] = [NotIssued EXCEPT !.stage = "done"]]
(* From here a command stops what it lists, in that order.                 *)
Stopping(c, list) == Set(c, [command[c] EXCEPT !.stage = "stop", !.todo = list, !.job = NoState])
(* removeStateIfMatchingLocked.                                            *)
Matches(id) == stateFile[id.service] = id
Removes(id) == stateFile' = IF Matches(id) THEN [stateFile EXCEPT ![id.service] = NoState] ELSE stateFile

-----------------------------------------------------------------------------
(* A command takes the lifecycle lock: start goes through the services in  *)
(* order, stop through the state files in reverse.                         *)
Last == CHOOSE s \in Services : \A t \in Services : t <= s
IssueCommand(c, does) ==
    /\ command[c].stage = "idle" /\ lifecycle = NoCommand /\ lifecycle' = c
    /\ Set(c, IF does = "stop" THEN [NotIssued EXCEPT !.does = does, !.stage = "stop", !.next = Last]
              ELSE [NotIssued EXCEPT !.does = does, !.stage = "start"])
    /\ UNCHANGED <<process, stateFile, launches, mishaps, strangers, lost>>

(* startService, when the service has a state file: a dead process's is    *)
(* removed, a live one's is enough if it is healthy, and one whose process *)
(* id now is another's fails the command.                                  *)
Recorded(c) ==
    LET s == command[c].next  id == stateFile[s] IN
    /\ Held(c, "start") /\ s \in Services /\ id # NoState
    /\ \/ Gone(id) /\ Removes(id) /\ UNCHANGED command /\ NoMishap
       \/ Runs(id) /\ Set(c, [command[c] EXCEPT !.next = s + 1]) /\ UNCHANGED stateFile /\ NoMishap
       \/ /\ Runs(id) /\ Stopping(c, command[c].started) /\ UNCHANGED stateFile /\ Mishap
       \/ ~Runs(id) /\ ~Gone(id) /\ Stopping(c, command[c].started) /\ UNCHANGED stateFile /\ NoMishap
    /\ UNCHANGED <<process, lifecycle, launches, strangers, lost>>
(* It may not be launched: its health address answers already, its log or  *)
(* its command does not open, the command was cancelled.                   *)
Refuses(c) ==
    /\ Held(c, "start") /\ command[c].next \in Services /\ stateFile[command[c].next] = NoState
    /\ Mishap /\ Stopping(c, command[c].started)
    /\ UNCHANGED <<process, stateFile, lifecycle, launches, strangers, lost>>
(* The launch itself.                                                      *)
Launch(c, p) ==
    LET s == command[c].next IN
    /\ Held(c, "start") /\ s \in Services /\ stateFile[s] = NoState
    /\ process[p] = NoProcess /\ launches < MaxLaunches /\ launches' = launches + 1
    /\ process' = [process EXCEPT ![p] = [service |-> s, token |-> launches', asked |-> FALSE]]
    /\ Set(c, [command[c] EXCEPT !.stage = "launched",
                                 !.job = [service |-> s, pid |-> p, token |-> launches']])
    /\ UNCHANGED <<stateFile, lifecycle, mishaps, strangers, lost>>
(* It is written down; if that fails, it is killed again, by force.        *)
LeavesRunning(id) == UNCHANGED process
Killing(id) == process' = IF Runs(id) THEN [process EXCEPT ![id.pid] = NoProcess] ELSE process
WriteState(c) ==
    LET id == command[c].job IN
    /\ Held(c, "launched")
    /\ \/ /\ stateFile' = [stateFile EXCEPT ![id.service] = id] /\ UNCHANGED process /\ NoMishap
          /\ Set(c, [command[c] EXCEPT !.stage = "ready"])
       \/ /\ Killing(id) /\ UNCHANGED stateFile /\ Mishap
          /\ Stopping(c, command[c].started)
    /\ UNCHANGED <<lifecycle, launches, strangers, lost>>
(* waitForHealth; a service that does not get ready is stopped, and then   *)
(* those started before it.                                                *)
Ready(c) ==
    LET id == command[c].job IN
    /\ Held(c, "ready")
    /\ \/ /\ Runs(id) /\ NoMishap
          /\ Set(c, [command[c] EXCEPT !.stage = "start", !.next = id.service + 1, !.job = NoState,
                                       !.started = Append(@, id)])
       \/ Runs(id) /\ Mishap /\ Stopping(c, <<id>> \o command[c].started)
       \/ ~Runs(id) /\ NoMishap /\ Stopping(c, <<id>> \o command[c].started)
    /\ UNCHANGED <<process, stateFile, lifecycle, launches, strangers, lost>>
(* All are up: the lock goes; a foreground command watches what it started.*)
Started(c) ==
    /\ Held(c, "start") /\ command[c].next \notin Services /\ lifecycle' = NoCommand
    /\ IF command[c].does = "foreground" /\ command[c].started # <<>>
       THEN Set(c, [command[c] EXCEPT !.stage = "watch",
                       !.watches = {command[c].started[i] : i \in DOMAIN command[c].started}])
       ELSE CommandEnds(c)
    /\ UNCHANGED <<process, stateFile, launches, mishaps, strangers, lost>>

(* The watcher of one process removes its state file once it has exited;   *)
(* it takes the lock for that, but not for ever.  The first exit, or an    *)
(* interrupt, makes the command stop everything it started.                *)
WatchExit(c, id) ==
    /\ command[c].stage = "watch" /\ id \in command[c].watches /\ ~Runs(id)
    /\ \/ lifecycle = NoCommand /\ Removes(id) /\ NoMishap
       \/ lifecycle # NoCommand /\ UNCHANGED stateFile /\ Mishap
    /\ command' = [command EXCEPT ![c].watches = @ \ {id}, ![c].told = TRUE]
    /\ UNCHANGED <<process, lifecycle, launches, strangers, lost>>
WatchEnds(c) ==
    /\ command[c].stage = "watch" /\ lifecycle = NoCommand /\ lifecycle' = c
    /\ IF command[c].told THEN NoMishap ELSE Mishap
    /\ Stopping(c, command[c].started)
    /\ UNCHANGED <<process, stateFile, launches, strangers, lost>>

-----------------------------------------------------------------------------
(* stopManagedStateLocked for the first in the list.                       *)
Subject(c) == Head(command[c].todo)
Stopped(c) == [command[c] EXCEPT !.stage = "stop", !.todo = Tail(@)]
StopNext(c) ==
    LET s == command[c].next IN
    /\ Held(c, "stop") /\ command[c].todo = <<>> /\ command[c].does = "stop" /\ s \in Services
    /\ Set(c, [command[c] EXCEPT !.next = s - 1,
                   !.todo = IF stateFile[s] = NoState THEN <<>> ELSE <<stateFile[s]>>])
    /\ UNCHANGED <<process, stateFile, lifecycle, launches, mishaps, strangers, lost>>
StopEnds(c) ==
    /\ Held(c, "stop") /\ command[c].todo = <<>>
    /\ command[c].does = "stop" => command[c].next \notin Services
    /\ lifecycle' = NoCommand /\ CommandEnds(c)
    /\ UNCHANGED <<process, stateFile, launches, mishaps, strangers, lost>>
Inspect(c) ==
    LET id == Subject(c) IN
    /\ (Held(c, "stop") \/ Held(c, "wait"))
    /\ command[c].todo # <<>>
    /\ \/ Gone(id) /\ Removes(id) /\ Set(c, Stopped(c)) /\ NoMishap
       \/ ~Gone(id) /\ ~Runs(id) /\ UNCHANGED stateFile /\ Set(c, Stopped(c)) /\ NoMishap
       \/ UNCHANGED stateFile /\ Set(c, Stopped(c)) /\ Mishap      \* not verified, not removed
       \/ /\ command[c].stage = "stop" /\ Runs(id) /\ UNCHANGED stateFile /\ NoMishap
          /\ Set(c, [command[c] EXCEPT !.stage = "signal"])
    /\ UNCHANGED <<process, lifecycle, launches, strangers, lost>>
(* signalManagedProcess checks the identity again: the process may have    *)
(* exited, and its id been used again, since it was inspected.             *)
SignalsPid(id) == ~Gone(id)
MaySignal(id) == Runs(id)
Signal(c) ==
    LET id == Subject(c) IN
    /\ Held(c, "signal")
    /\ IF MaySignal(id)
       THEN /\ process' = [process EXCEPT ![id.pid].asked = (process[id.pid].token # 0)]
            /\ strangers' = IF Runs(id) THEN strangers ELSE strangers \cup ({process[id.pid].token} \ {0})
            /\ Set(c, [command[c] EXCEPT !.stage = "wait"])
       ELSE /\ Set(c, IF Gone(id) THEN [command[c] EXCEPT !.stage = "wait"] ELSE Stopped(c))
            /\ UNCHANGED <<process, strangers, lost>>
    /\ UNCHANGED <<stateFile, lifecycle, launches, mishaps, lost>>
(* It has not exited in time: it is killed, or the stop fails.             *)
StopTimesOut(c) ==
    LET id == Subject(c) IN
    /\ Held(c, "wait") /\ Runs(id)
    /\ \/ Killing(id) /\ UNCHANGED command /\ NoMishap
       \/ UNCHANGED process /\ Set(c, Stopped(c)) /\ Mishap
    /\ UNCHANGED <<stateFile, lifecycle, launches, strangers, lost>>

-----------------------------------------------------------------------------
(* A service exits when asked, or on its own.                              *)
Exits(p) ==
    /\ process[p].service # 0 /\ process' = [process EXCEPT ![p] = NoProcess]
    /\ IF process[p].asked THEN NoMishap ELSE Mishap
    /\ UNCHANGED <<stateFile, lifecycle, command, launches, strangers, lost>>
(* Somebody else's process gets the id.                                    *)
Reused(p) ==
    /\ process[p] = NoProcess /\ launches < MaxLaunches /\ launches' = launches + 1
    /\ process' = [process EXCEPT ![p] = [NoProcess EXCEPT !.token = launches']]
    /\ UNCHANGED <<stateFile, lifecycle, command, mishaps, strangers, lost>>
(* A command is killed; what it started goes on.                           *)
CommandKilled(c) ==
    /\ command[c].stage \notin {"idle", "done"} /\ Mishap /\ CommandEnds(c)
    /\ lifecycle' = IF lifecycle = c THEN NoCommand ELSE lifecycle
    /\ lost' = IF command[c].stage = "launched" THEN lost \cup {command[c].job.token} ELSE lost
    /\ UNCHANGED <<process, stateFile, launches, strangers>>

DevNext ==
    \/ \E c \in Commands :
          \/ \E does \in {"foreground", "detached", "stop"} : IssueCommand(c, does)
          \/ Recorded(c) \/ Refuses(c) \/ WriteState(c) \/ Ready(c) \/ Started(c)
          \/ WatchEnds(c) \/ StopNext(c) \/ StopEnds(c) \/ Inspect(c) \/ Signal(c)
          \/ StopTimesOut(c) \/ CommandKilled(c)
          \/ \E p \in Pids : Launch(c, p)
          \/ \E id \in command[c].watches : WatchExit(c, id)
    \/ \E p \in Pids : Exits(p) \/ Reused(p)

DevSpec == DevInit /\ [][DevNext]_devVars

-----------------------------------------------------------------------------
(* No signal goes to a process that is not the service's, however process  *)
(* ids are used again.                                                     *)
OnlyOursAreSignalled == strangers = {}
(* A state file goes, or is replaced, only when the process it names has   *)
(* exited: two commands and the watchers of a third never lose track of a  *)
(* running service, nor run it twice.                                      *)
RunningStaysRecorded ==
    \A s \in Services : LET id == stateFile[s] IN
        id # NoState /\ stateFile'[s] # id => ~Runs(id)
(* A service that runs is recorded, or just launched by a command that     *)
(* holds the lock; only a command killed there leaves one unknown.         *)
RunningIsKnown ==
    \A p \in Pids : process[p].service # 0 =>
        LET id == [service |-> process[p].service, pid |-> p, token |-> process[p].token] IN
        \/ stateFile[id.service] = id \/ id.token \in lost
        \/ \E c \in Commands : Held(c, "launched") /\ command[c].job = id
=============================================================================
