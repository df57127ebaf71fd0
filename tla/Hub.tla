--------------------------------- MODULE Hub ---------------------------------
(***************************************************************************)
(* The WebSocket hub of one process (admin/center/websocket: manager.go,   *)
(* client.go, handler.go).  One goroutine, Run, takes connections to       *)
(* register, messages to broadcast and messages to one user from bounded   *)
(* channels, and hands each message to a goroutine per client.  A client   *)
(* has a bounded buffer and two pumps; whoever first finds the connection  *)
(* gone closes it.                                                         *)
(*                                                                         *)
(* Run is started, and the hub created, when the package of apis/ws.go is  *)
(* initialised, before any Redis client exists: the cluster mode is never  *)
(* on and is not modelled.  Nothing in the program calls Unregister.       *)
(***************************************************************************)
EXTENDS Naturals, Sequences, FiniteSets

CONSTANTS Clients, Signals,       \* connections; messages
          QueueSize, BufferSize   \* of the hub's channels, of a client's

ASSUME HubAssumption == {QueueSize, BufferSize} \subseteq Nat \ {0}

VARIABLES registerQueue, broadcastQueue,
          registered,             \* the clients the hub knows
          connection,             \* pumps and buffer of each client
          senders,                \* goroutines about to call SendMsg, as <<client, message>>
          unsent,                 \* messages not yet offered to the hub
          panicked                \* a send on a closed channel, or a second close

hubVars == <<registerQueue, broadcastQueue, registered, connection, senders, unsent, panicked>>

NotConnected == [stage |-> "none", closed |-> FALSE, buffer |-> <<>>, reads |-> FALSE,
                 writes |-> FALSE, alive |-> FALSE]

HubTypeOK ==
    /\ registerQueue \in Seq(Clients) /\ Len(registerQueue) <= QueueSize
    /\ broadcastQueue \in Seq(Signals) /\ Len(broadcastQueue) <= QueueSize
    /\ registered \subseteq Clients
    /\ \A c \in Clients : /\ connection[c].stage \in {"none", "upgraded", "queued"}
                          /\ Len(connection[c].buffer) <= BufferSize
    /\ senders \subseteq Clients \X Signals /\ unsent \subseteq Signals

HubInit ==
    /\ registerQueue = <<>> /\ broadcastQueue = <<>> /\ registered = {}
    /\ connection = [c \in Clients |-> NotConnected]
    /\ senders = {} /\ unsent = Signals /\ panicked = FALSE

(* HandleWebSocket: upgrade, then Register, which waits for room in the    *)
(* queue, then both pumps start.                                           *)
Upgrade(c) ==
    /\ connection[c].stage = "none"
    /\ connection' = [connection EXCEPT ![c].stage = "upgraded", ![c].alive = TRUE]
    /\ UNCHANGED <<registerQueue, broadcastQueue, registered, senders, unsent, panicked>>
Register(c) ==
    /\ connection[c].stage = "upgraded" /\ Len(registerQueue) < QueueSize
    /\ registerQueue' = Append(registerQueue, c)
    /\ connection' = [connection EXCEPT ![c].stage = "queued", ![c].reads = TRUE, ![c].writes = TRUE]
    /\ UNCHANGED <<broadcastQueue, registered, senders, unsent, panicked>>

(* TryBroadcast gives up when the queue is full; Broadcast would wait.     *)
TryBroadcast(m) ==
    /\ m \in unsent /\ unsent' = unsent \ {m}
    /\ broadcastQueue' = IF Len(broadcastQueue) < QueueSize
                         THEN Append(broadcastQueue, m) ELSE broadcastQueue
    /\ UNCHANGED <<registerQueue, registered, connection, senders, panicked>>

(* Run's cases: its select takes whichever is ready.                       *)
RunRegisters ==
    /\ registerQueue # <<>> /\ registerQueue' = Tail(registerQueue)
    /\ registered' = registered \cup {Head(registerQueue)}
    /\ UNCHANGED <<broadcastQueue, connection, senders, unsent, panicked>>
RunBroadcasts ==
    /\ broadcastQueue # <<>> /\ broadcastQueue' = Tail(broadcastQueue)
    /\ senders' = senders \cup {<<c, Head(broadcastQueue)>> : c \in registered}
    /\ UNCHANGED <<registerQueue, registered, connection, unsent, panicked>>
(* SendToUserDirect sends from the caller's goroutine, under the read lock.*)
SendDirect(m) ==
    /\ m \in unsent /\ unsent' = unsent \ {m}
    /\ senders' = senders \cup {<<c, m>> : c \in registered}
    /\ UNCHANGED <<registerQueue, broadcastQueue, registered, connection, panicked>>

(* SendMsg: under the client's mutex, only while it is open, and dropped   *)
(* when the buffer is full.                                                *)
SendsAlways(c) == TRUE
MaySend(c) == ~connection[c].closed
SendMsg(c, m) ==
    /\ <<c, m>> \in senders /\ senders' = senders \ {<<c, m>>}
    /\ IF MaySend(c)
       THEN /\ panicked' = (panicked \/ connection[c].closed)
            /\ connection' = [connection EXCEPT ![c].buffer =
                                 IF Len(@) < BufferSize THEN Append(@, m) ELSE @]
       ELSE UNCHANGED <<connection, panicked>>
    /\ UNCHANGED <<registerQueue, broadcastQueue, registered, unsent>>

(* Client.Close, by a pump that ends or by the hub's cleanup.              *)
ClosesAgain(c) == TRUE
MayClose(c) == ~connection[c].closed
Closes(c, pumps) ==
    /\ panicked' = (panicked \/ (MayClose(c) /\ connection[c].closed))
    /\ connection' = [connection EXCEPT ![c] = [pumps EXCEPT !.closed = TRUE, !.alive = FALSE]]

(* The connection breaks; the read pump's next read fails.                 *)
Breaks(c) ==
    /\ connection[c].alive /\ connection' = [connection EXCEPT ![c].alive = FALSE]
    /\ UNCHANGED <<registerQueue, broadcastQueue, registered, senders, unsent, panicked>>
ReadPumpEnds(c) ==
    /\ connection[c].reads /\ ~connection[c].alive 
    /\ Closes(c, [connection[c] EXCEPT !.reads = FALSE])
    /\ UNCHANGED <<registerQueue, broadcastQueue, registered, senders, unsent>>
(* The write pump sends what is buffered and pings now and then; it ends   *)
(* when either fails and when the buffer of a closed client has run empty. *)
LoopsOn(c, buffer) == connection' = [connection EXCEPT ![c].buffer = buffer] /\ UNCHANGED panicked
WriteEnds(c, buffer) == Closes(c, [connection[c] EXCEPT !.writes = FALSE, !.buffer = buffer])
WritePump(c) ==
    LET buffer == connection[c].buffer IN
    /\ connection[c].writes
    /\ \/ /\ buffer # <<>> /\ connection[c].alive
          /\ connection' = [connection EXCEPT ![c].buffer = Tail(@)] /\ UNCHANGED panicked
       \/ buffer # <<>> /\ ~connection[c].alive /\ WriteEnds(c, Tail(buffer))
       \/ buffer = <<>> /\ (connection[c].closed \/ ~connection[c].alive) /\ WriteEnds(c, buffer)
    /\ UNCHANGED <<registerQueue, broadcastQueue, registered, senders, unsent>>
(* cleanupStaleConnections closes a client whose heartbeat is old.         *)
CleansUp(c) ==
    /\ c \in registered /\ ~connection[c].closed /\ Closes(c, connection[c])
    /\ UNCHANGED <<registerQueue, broadcastQueue, registered, senders, unsent>>

HubNext ==
    \/ RunRegisters \/ RunBroadcasts
    \/ \E c \in Clients : \/ Upgrade(c) \/ Register(c) \/ Breaks(c) \/ ReadPumpEnds(c)
                          \/ WritePump(c) \/ CleansUp(c)
                          \/ \E m \in Signals : SendMsg(c, m)
    \/ \E m \in Signals : TryBroadcast(m) \/ SendDirect(m)

(* Go runs every goroutine that can go on.                                 *)
HubFairness ==
    /\ WF_hubVars(RunRegisters) /\ WF_hubVars(RunBroadcasts)
    /\ \A c \in Clients : WF_hubVars(Register(c)) /\ WF_hubVars(ReadPumpEnds(c)) /\ WF_hubVars(WritePump(c))
HubSpec == HubInit /\ [][HubNext]_hubVars /\ HubFairness

-----------------------------------------------------------------------------
(* Nobody sends on a client's channel after it is closed, or closes it     *)
(* twice, though two pumps, the hub's cleanup and any number of message    *)
(* goroutines reach the client in any order; and nothing reaches a client  *)
(* before it was registered.                                               *)
HubIsSafe == ~panicked /\ \A s \in senders : connection[s[1]].stage = "queued"
(* A connection that breaks, or that the cleanup closes, ends: it is       *)
(* closed and both its pumps have returned.                                *)
ConnectionsEnd ==
    \A c \in Clients :
        (connection[c].stage = "queued" /\ ~connection[c].alive)
            ~> (connection[c].closed /\ ~connection[c].reads /\ ~connection[c].writes)
=============================================================================
