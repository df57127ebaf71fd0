--------------------------- MODULE ServersProofs ----------------------------
(***************************************************************************)
(* The runtime Redis resource and the challenge service, for any callers,  *)
(* and what all the services of MCServers keep, from the theorems of each. *)
(***************************************************************************)
EXTENDS MCServers, LifecycleProofs, MessagingProofs

-----------------------------------------------------------------------------
(* The runtime Redis resource.                                             *)

\* The type of the lifecycle.
Lives == [attempted : BOOLEAN, startDone : BOOLEAN, started : BOOLEAN,
          closing : BOOLEAN, closed : BOOLEAN, client : BOOLEAN,
          closeMade : BOOLEAN, closeErr : {"ok", "failed"}]

\* A Start that has been admitted and is not yet decided.
Underway == {"construct", "publish", "ping", "confirm", "abandon"}
Starting == \E p \in Starters : stage[p] \in Underway

\* Each kind of call has stages of its own.
RedisKindInv ==
  /\ \A p \in Starters : stage[p] \in Underway \cup {"idle", "join", "done"}
  /\ \A b \in Probes : stage[b] \in {"idle", "borrowed", "done"}
  /\ \A u \in Users : stage[u] \in {"idle", "borrowed", "draining", "done"}
  /\ \A c \in Closers : stage[c] \in {"idle", "startWait", "drain", "join", "done"}

\* One Start at most is under way, the first; until it is decided nothing is
\* borrowed and nothing closes, and the client is known from Publish on.
StartInv ==
  /\ \A p, q \in Starters : stage[p] \in Underway /\ stage[q] \in Underway => p = q
  /\ Starting => /\ life.attempted /\ ~life.startDone /\ ~life.started
                 /\ ~life.closed /\ ~life.closeMade
                 /\ Active = {}
  /\ \A p \in Starters :
       /\ stage[p] = "construct" => provider = "none" /\ ~life.client
       /\ stage[p] = "publish" => provider = "open" /\ ~life.client
       /\ stage[p] \in {"ping", "confirm", "abandon"} => provider = "open" /\ life.client
  /\ ~life.attempted => /\ ~life.startDone /\ ~life.started /\ ~life.client
                        /\ ~life.closeMade
                        /\ provider = "none" /\ Active = {}

\* After the Start was decided a client is known, and in use if it is open.
RedisClientInv ==
  ~Starting /\ provider # "none" => life.client /\ (provider = "open" => life.started)

\* Nothing is borrowed from the moment the shutdown takes the client; it takes
\* it once.
ShutdownInv ==
  /\ life.closed \/ life.closeMade => life.closing /\ Active = {}
  /\ life.closed => provider \in {"none", "closed"}
  /\ provider = "closing" => life.closeMade /\ ~life.closed
  /\ closeCalls = IF life.closeMade THEN 1 ELSE 0
  /\ ~life.closeMade => life.closeErr = "ok"

\* What a callback is lent it has while it runs.
RedisLeaseInv ==
  /\ \A u \in Users : lease[u] = "active" => stage[u] = "borrowed"
  /\ \A c \in Commands : command[c] = "running" => stage[UserOf[c]] \in {"borrowed", "draining"}

\* How far a Close has come tells what has ended; one made from within a
\* callback keeps the callback from returning.
CloseInv ==
  /\ \A c \in Closers : stage[c] \in {"startWait", "drain", "join"} =>
       life.closing /\ life.attempted
  /\ \A c \in Closers : stage[c] \in {"drain", "join"} => life.startDone
  /\ \A c \in Closers : stage[c] # "done" => outcome[c] = "none"
  /\ \A c \in Closers : outcome[c] \in {"ok", "failed"} =>
       life.closed /\ outcome[c] = life.closeErr
  /\ \A c \in Closers : Inside[c] # NoUser =>
       /\ outcome[c] \in {"none", "gaveUp"}
       /\ stage[c] \notin {"idle", "done"} => stage[Inside[c]] = "borrowed"

RedisInv == /\ RedisTypeOK /\ RedisKindInv /\ StartInv /\ RedisClientInv /\ ShutdownInv
            /\ RedisLeaseInv /\ CloseInv
-----------------------------------------------------------------------------
(* The invariant is inductive. *)

\* A resource that nobody has called yet satisfies it.
LEMMA RedisInitially == RedisInit => RedisInv
<1> USE RedisAssumption DEF Callers, Borrowers
<1> SUFFICES ASSUME RedisInit PROVE RedisInv
  OBVIOUS
<1>1. RedisTypeOK BY DEF RedisInit, RedisTypeOK
<1>2. Active = {} /\ ~Starting /\ \A p \in Callers : stage[p] = "idle" /\ outcome[p] = "none"
  BY DEF RedisInit, Active, Starting, Underway
<1>3. RedisKindInv /\ StartInv /\ RedisClientInv /\ ShutdownInv
  BY <1>2 DEF RedisInit, RedisKindInv, StartInv, RedisClientInv, ShutdownInv, Underway
<1>4. RedisLeaseInv /\ CloseInv BY <1>2 DEF RedisInit, RedisLeaseInv, CloseInv
<1> QED BY <1>1, <1>3, <1>4 DEF RedisInv

\* A call that takes a step leaves the others where they are.
LEMMA StageMoves ==
  ASSUME RedisTypeOK, NEW p \in Callers, NEW st, NEW res,
         st \in {"construct", "publish", "ping", "confirm", "abandon", "borrowed",
                "draining", "startWait", "drain", "join", "done"},
         res \in {"none", "ok", "failed", "closing", "rejected", "notStarted",
                 "unavailable", "detached", "gaveUp"},
         stage' = [stage EXCEPT ![p] = st], outcome' = [outcome EXCEPT ![p] = res]
  PROVE  /\ stage' \in [Callers -> {"idle", "construct", "publish", "ping", "confirm",
                                   "abandon", "borrowed", "draining", "startWait",
                                   "drain", "join", "done"}]
         /\ outcome' \in [Callers -> {"none", "ok", "failed", "closing", "rejected",
                                     "notStarted", "unavailable", "detached", "gaveUp"}]
         /\ stage'[p] = st /\ outcome'[p] = res
         /\ \A q \in Callers \ {p} : stage'[q] = stage[q] /\ outcome'[q] = outcome[q]
BY DEF RedisTypeOK

\* The client's own Close returns.
LEMMA ProviderPreserves ==
  ASSUME RedisInv, NEW err \in {"ok", "failed"}, ProviderClose(err)
  PROVE  RedisInv'
<1> USE RedisAssumption DEF Callers, Borrowers, ProviderClose
<1>1. RedisTypeOK' BY DEF RedisInv, RedisTypeOK
<1>2. RedisKindInv' /\ RedisLeaseInv' BY DEF RedisInv, RedisKindInv, RedisLeaseInv
<1>3. StartInv' /\ RedisClientInv' /\ ShutdownInv'
  BY DEF RedisInv, RedisTypeOK, StartInv, RedisClientInv, ShutdownInv, Starting, Active
<1>4. CloseInv' BY DEF RedisInv, RedisTypeOK, ShutdownInv, CloseInv
<1> QED BY <1>1, <1>2, <1>3, <1>4 DEF RedisInv

\* A step of a Start.
LEMMA RedisStartPreserves ==
  ASSUME RedisInv, NEW p \in Starters, StartCall(p) \/ StartStep(p)
  PROVE  RedisInv'
<1> USE RedisAssumption DEF Callers, Borrowers
<1>0. /\ \A b \in Borrowers : b # p
      /\ \A c \in Closers : c # p
      /\ p \in Callers
  OBVIOUS
<1>1. CASE StartCall(p)
  <2>0. stage[p] = "idle" /\ UNCHANGED <<provider, closeCalls, lease, command>>
    BY <1>1 DEF StartCall
  <2>1. ASSUME NEW res \in {"closing", "rejected"}, Return(p, res), life' = life
        PROVE  RedisInv'
    <3>1. /\ \A q \in Callers \ {p} : stage'[q] = stage[q] /\ outcome'[q] = outcome[q]
          /\ stage'[p] = "done"
      BY <2>1, StageMoves DEF Return, RedisInv, RedisTypeOK
    <3>2. RedisTypeOK' BY <2>0, <2>1, StageMoves DEF RedisInv, RedisTypeOK, Return
    <3>3. RedisKindInv' BY <3>1 DEF RedisInv, RedisKindInv, Underway
    <3>4. Active' = Active BY <1>0, <3>1 DEF Active
    <3>5. StartInv' /\ RedisClientInv' /\ ShutdownInv'
      BY <2>0, <2>1, <3>1, <3>4 DEF RedisInv, StartInv, RedisClientInv, ShutdownInv, Starting,
         Underway
    <3>6. RedisLeaseInv' /\ CloseInv' BY <1>0, <2>0, <2>1, <3>1 DEF RedisInv, RedisLeaseInv,
         CloseInv
    <3> QED BY <3>2, <3>3, <3>5, <3>6 DEF RedisInv
  <2>2. CASE /\ ~life.closing /\ ~life.attempted
             /\ life' = [life EXCEPT !.attempted = TRUE] /\ Goto(p, "construct")
    <3>1. /\ \A q \in Callers \ {p} : stage'[q] = stage[q] /\ outcome' = outcome
          /\ stage'[p] = "construct"
      BY <2>2 DEF Goto, RedisInv, RedisTypeOK
    <3>2. RedisTypeOK' BY <2>0, <2>2 DEF RedisInv, RedisTypeOK, Goto
    <3>3. RedisKindInv' BY <3>1 DEF RedisInv, RedisKindInv, Underway
    <3>4. Active' = Active BY <1>0, <3>1 DEF Active
    <3>5. StartInv' /\ RedisClientInv' /\ ShutdownInv'
      BY <2>0, <2>2, <3>1, <3>4 DEF RedisInv, RedisTypeOK, StartInv, RedisClientInv, ShutdownInv,
         Starting, Underway
    <3>6. RedisLeaseInv' /\ CloseInv'
      BY <1>0, <2>0, <2>2, <3>1 DEF RedisInv, RedisTypeOK, RedisLeaseInv, CloseInv
    <3> QED BY <3>2, <3>3, <3>5, <3>6 DEF RedisInv
  <2> QED BY <1>1, <2>1, <2>2 DEF StartCall
<1>2. CASE Construct(p)
  <2>0. /\ stage[p] = "construct" /\ UNCHANGED <<closeCalls, lease, command>>
        /\ Starting
    BY <1>2 DEF Construct, Starting, Underway
  <2>1. CASE provider' = "open" /\ Goto(p, "publish") /\ UNCHANGED life
    <3>1. /\ \A q \in Callers \ {p} : stage'[q] = stage[q] /\ outcome' = outcome
          /\ stage'[p] = "publish"
      BY <2>1 DEF Goto, RedisInv, RedisTypeOK
    <3>2. RedisTypeOK' BY <2>0, <2>1 DEF RedisInv, RedisTypeOK, Goto
    <3>3. RedisKindInv' BY <3>1 DEF RedisInv, RedisKindInv, Underway
    <3>4. Active' = Active BY <1>0, <3>1 DEF Active
    <3>5. StartInv' /\ RedisClientInv' /\ ShutdownInv'
      BY <2>0, <2>1, <3>1, <3>4 DEF RedisInv, StartInv, RedisClientInv, ShutdownInv, Starting,
         Underway
    <3>6. RedisLeaseInv' /\ CloseInv' BY <1>0, <2>0, <2>1, <3>1 DEF RedisInv, RedisLeaseInv,
         CloseInv
    <3> QED BY <3>2, <3>3, <3>5, <3>6 DEF RedisInv
  <2>2. CASE /\ life' = [life EXCEPT !.closing = TRUE, !.closed = TRUE, !.startDone = TRUE]
             /\ Return(p, "failed") /\ UNCHANGED provider
    <3>1. /\ \A q \in Callers \ {p} : stage'[q] = stage[q] /\ outcome'[q] = outcome[q]
          /\ stage'[p] = "done"
      BY <2>2, StageMoves DEF Return, RedisInv, RedisTypeOK
    <3>2. RedisTypeOK'
      <4>1. life' \in Lives
        BY <2>2 DEF RedisInv, RedisTypeOK, Lives
      <4> QED BY <2>0, <2>2, <4>1, StageMoves DEF RedisInv, RedisTypeOK, Return, Lives
    <3>3. RedisKindInv' BY <3>1 DEF RedisInv, RedisKindInv, Underway
    <3>4. Active' = Active BY <1>0, <3>1 DEF Active
    <3>7. ~Starting' BY <2>0, <3>1 DEF RedisInv, StartInv, Starting, Underway
    <3>8. /\ life'.attempted = life.attempted /\ life'.closeMade = life.closeMade
          /\ life'.closing /\ life'.closed /\ life'.closeErr = life.closeErr
          /\ life'.startDone /\ life'.started = life.started
      BY <2>2 DEF RedisInv, RedisTypeOK
    <3>9. life.attempted /\ ~life.closed /\ ~life.closeMade /\ Active = {} /\ provider = "none"
      BY <2>0 DEF RedisInv, StartInv
    <3>5. StartInv' /\ RedisClientInv' /\ ShutdownInv'
      BY <2>0, <2>2, <3>1, <3>4, <3>7, <3>8, <3>9 DEF RedisInv, StartInv, RedisClientInv,
         ShutdownInv,
         Starting, Underway
    <3>6. RedisLeaseInv' /\ CloseInv'
      BY <1>0, <2>0, <3>1, <3>8, <3>9 DEF RedisInv, RedisLeaseInv, CloseInv
    <3> QED BY <3>2, <3>3, <3>5, <3>6 DEF RedisInv
  <2> QED BY <1>2, <2>1, <2>2 DEF Construct
<1>3. CASE Publish(p)
  <2>0. life' \in Lives BY <1>3 DEF Publish, RedisInv, RedisTypeOK, Lives
  <2>1. RedisTypeOK' /\ RedisKindInv'
    BY <1>3, <2>0 DEF RedisInv, RedisTypeOK, RedisKindInv, Publish, Continue, Goto, Underway,
       Lives
  <2>2. Active' = Active BY <1>3, <1>0 DEF RedisInv, RedisTypeOK, Publish, Continue, Goto, Active
  <2>3. StartInv' /\ RedisClientInv'
    BY <1>3, <2>2 DEF RedisInv, RedisTypeOK, StartInv, RedisClientInv, ShutdownInv, Starting,
       Publish, Continue, Goto, Underway
  <2>4. ShutdownInv' BY <1>3, <2>2 DEF RedisInv, RedisTypeOK, ShutdownInv, Publish
  <2>5. RedisLeaseInv' /\ CloseInv'
    BY <1>3, <1>0 DEF RedisInv, RedisTypeOK, RedisLeaseInv, CloseInv, Publish, Continue, Goto
  <2> QED BY <2>1, <2>3, <2>4, <2>5 DEF RedisInv
<1>4. CASE StartPing(p)
  <2>1. RedisTypeOK' /\ RedisKindInv'
    BY <1>4 DEF RedisInv, RedisTypeOK, RedisKindInv, StartPing, Continue, Goto, Underway
  <2>2. Active' = Active BY <1>4, <1>0 DEF RedisInv, RedisTypeOK, StartPing, Continue, Goto,
       Active
  <2>3. StartInv' /\ RedisClientInv'
    BY <1>4, <2>2 DEF RedisInv, RedisTypeOK, StartInv, RedisClientInv, ShutdownInv, Starting,
       StartPing, Continue, Goto, Underway
  <2>4. ShutdownInv' BY <1>4, <2>2 DEF RedisInv, RedisTypeOK, ShutdownInv, StartPing
  <2>5. RedisLeaseInv' /\ CloseInv'
    BY <1>4, <1>0 DEF RedisInv, RedisTypeOK, RedisLeaseInv, CloseInv, StartPing, Continue, Goto
  <2> QED BY <2>1, <2>3, <2>4, <2>5 DEF RedisInv
<1>5. CASE Confirm(p)
  <2>0. /\ stage[p] = "confirm" /\ UNCHANGED <<provider, closeCalls, lease, command>>
        /\ Starting /\ p \in Starters
    BY <1>5 DEF Confirm, Starting, Underway
  <2>1. CASE Continue(p, "abandon", "closing") /\ UNCHANGED life
    <3>1. /\ \A q \in Callers \ {p} : stage'[q] = stage[q] /\ outcome'[q] = outcome[q]
          /\ stage'[p] = "abandon"
      BY <2>1, StageMoves DEF Continue, RedisInv, RedisTypeOK
    <3>2. RedisTypeOK' BY <2>0, <2>1, StageMoves DEF RedisInv, RedisTypeOK, Continue
    <3>3. RedisKindInv' BY <3>1 DEF RedisInv, RedisKindInv, Underway
    <3>4. Active' = Active BY <1>0, <3>1 DEF Active
    <3>5. StartInv' /\ RedisClientInv' /\ ShutdownInv'
      BY <2>0, <2>1, <3>1, <3>4 DEF RedisInv, StartInv, RedisClientInv, ShutdownInv, Starting,
         Underway
    <3>6. RedisLeaseInv' /\ CloseInv' BY <1>0, <2>0, <2>1, <3>1 DEF RedisInv, RedisLeaseInv,
         CloseInv
    <3> QED BY <3>2, <3>3, <3>5, <3>6 DEF RedisInv
  <2>2. CASE /\ life' = [life EXCEPT !.started = TRUE, !.startDone = TRUE]
             /\ Return(p, "ok")
    <3>1. /\ \A q \in Callers \ {p} : stage'[q] = stage[q] /\ outcome'[q] = outcome[q]
          /\ stage'[p] = "done"
      BY <2>2, StageMoves DEF Return, RedisInv, RedisTypeOK
    <3>2. RedisTypeOK'
      <4>1. life' \in Lives
        BY <2>2 DEF RedisInv, RedisTypeOK, Lives
      <4> QED BY <2>0, <2>2, <4>1, StageMoves DEF RedisInv, RedisTypeOK, Return, Lives
    <3>3. RedisKindInv' BY <3>1 DEF RedisInv, RedisKindInv, Underway
    <3>4. Active' = Active BY <1>0, <3>1 DEF Active
    <3>7. ~Starting' BY <2>0, <3>1 DEF RedisInv, StartInv, Starting, Underway
    <3>8. /\ life'.attempted = life.attempted /\ life'.closeMade = life.closeMade
          /\ life'.closing = life.closing /\ life'.closed = life.closed
          /\ life'.closeErr = life.closeErr /\ life'.client = life.client
          /\ life'.startDone /\ life'.started
      BY <2>2 DEF RedisInv, RedisTypeOK
    <3>9. life.attempted /\ life.client /\ provider = "open"
      BY <2>0 DEF RedisInv, StartInv
    <3>5. StartInv' /\ RedisClientInv' /\ ShutdownInv'
      BY <2>0, <2>2, <3>1, <3>4, <3>7, <3>8, <3>9 DEF RedisInv, StartInv, RedisClientInv,
         ShutdownInv,
         Starting, Underway
    <3>6. RedisLeaseInv' /\ CloseInv'
      BY <1>0, <2>0, <3>1, <3>8 DEF RedisInv, RedisLeaseInv, CloseInv
    <3> QED BY <3>2, <3>3, <3>5, <3>6 DEF RedisInv
  <2> QED BY <1>5, <2>1, <2>2 DEF Confirm
<1>6. CASE Abandon(p)
  <2>0. /\ ~life.closed /\ ~life.closeMade /\ life.client /\ Active = {}
        /\ life' = [life EXCEPT !.closing = TRUE, !.started = FALSE, !.startDone = TRUE,
                                !.closeMade = TRUE]
        /\ provider' = "closing" /\ closeCalls' = closeCalls + 1
        /\ stage' = [stage EXCEPT ![p] = "join"] /\ outcome' = outcome
    BY <1>6 DEF RedisInv, RedisTypeOK, StartInv, Starting, Underway, Abandon, EnsureClose,
       CloseUnderWay, Goto
  <2>6. life' \in Lives BY <2>0 DEF RedisInv, RedisTypeOK, Lives
  <2>7. RedisKindInv' BY <1>6, <2>0 DEF RedisInv, RedisTypeOK, RedisKindInv, Underway
  <2>1. RedisTypeOK' BY <1>6, <2>0, <2>6 DEF RedisInv, RedisTypeOK, Abandon, Lives
  <2>2. Active' = Active BY <2>0, <1>0 DEF RedisInv, RedisTypeOK, Active
  <2>3. StartInv' /\ RedisClientInv'
    BY <1>6, <2>0, <2>2 DEF RedisInv, RedisTypeOK, StartInv, RedisClientInv, Starting, Underway,
       Abandon
  <2>4. ShutdownInv' BY <1>6, <2>0, <2>2 DEF RedisInv, RedisTypeOK, ShutdownInv
  <2>5. RedisLeaseInv' /\ CloseInv'
    BY <1>6, <2>0, <1>0 DEF RedisInv, RedisTypeOK, RedisLeaseInv, CloseInv, Abandon
  <2> QED BY <2>1, <2>3, <2>4, <2>5, <2>7 DEF RedisInv
<1>7. CASE StartJoin(p)
  <2>1. RedisTypeOK' /\ RedisKindInv'
    BY <1>7 DEF RedisInv, RedisTypeOK, RedisKindInv, StartJoin, Goto
  <2>2. Active' = Active BY <1>7, <1>0 DEF RedisInv, RedisTypeOK, StartJoin, Goto, Active
  <2>3. StartInv' /\ RedisClientInv'
    BY <1>7, <2>2 DEF RedisInv, RedisTypeOK, StartInv, RedisClientInv, Starting,
       StartJoin, Goto, Underway
  <2>4. ShutdownInv' BY <1>7, <2>2 DEF RedisInv, RedisTypeOK, ShutdownInv, StartJoin
  <2>5. RedisLeaseInv' /\ CloseInv'
    BY <1>7, <1>0 DEF RedisInv, RedisTypeOK, RedisLeaseInv, CloseInv, StartJoin, Goto
  <2> QED BY <2>1, <2>3, <2>4, <2>5 DEF RedisInv
<1> QED BY <1>1, <1>2, <1>3, <1>4, <1>5, <1>6, <1>7 DEF StartStep

\* A step of a Use, a Ready or a Health.
LEMMA BorrowerPreserves ==
  ASSUME RedisInv, NEW b \in Borrowers,
         \/ Borrow(b)
         \/ b \in Probes /\ ProbeReturn(b)
         \/ b \in Users /\ (CallbackReturn(b) \/ Release(b))
  PROVE  RedisInv'
<1> USE RedisAssumption DEF Callers, Borrowers
<1>0. /\ \A p \in Starters : p # b
      /\ \A c \in Closers : c # b
      /\ b \in Callers
  OBVIOUS
<1>1. ASSUME \A p \in Starters : stage'[p] = stage[p],
             Active' \subseteq Active, UNCHANGED <<life, provider, closeCalls>>
      PROVE  StartInv' /\ RedisClientInv' /\ ShutdownInv'
  <2>1. Starting' = Starting BY <1>1 DEF Starting
  <2>2. StartInv' BY <1>1, <2>1 DEF RedisInv, StartInv
  <2>3. RedisClientInv' BY <1>1, <2>1 DEF RedisInv, RedisClientInv
  <2>4. ShutdownInv' BY <1>1, <2>1 DEF RedisInv, ShutdownInv
  <2> QED BY <2>2, <2>3, <2>4
<1>2. CASE Borrow(b)
  <2>1. RedisTypeOK' /\ RedisKindInv'
    BY <1>2 DEF RedisInv, RedisTypeOK, RedisKindInv, Borrow, Return, Goto
  <2>2. UNCHANGED <<life, provider, closeCalls>> BY <1>2 DEF Borrow
  <2>3. RedisLeaseInv' /\ CloseInv'
    BY <1>2, <1>0 DEF RedisInv, RedisTypeOK, RedisLeaseInv, CloseInv, Borrow, Return, Goto
  <2>4. CASE stage' = [stage EXCEPT ![b] = "done"]
    <3>1. Active' \subseteq Active BY <1>2, <2>4 DEF RedisInv, RedisTypeOK, Borrow, Active
    <3>2. \A p \in Starters : stage'[p] = stage[p]
      BY <1>0, <2>4 DEF RedisInv, RedisTypeOK
    <3> QED BY <1>1, <2>1, <2>2, <2>3, <3>1, <3>2 DEF RedisInv
  <2>5. CASE /\ ~life.closing /\ ~life.closed /\ life.started
             /\ stage' = [stage EXCEPT ![b] = "borrowed"]
    <3>1. \A p \in Starters : stage'[p] = stage[p]
      BY <1>0, <2>5 DEF RedisInv, RedisTypeOK
    <3>2. ~Starting /\ life.attempted /\ ~life.closeMade
      BY <2>5 DEF RedisInv, StartInv, ShutdownInv
    <3>3. ~Starting' BY <3>1, <3>2 DEF Starting
    <3>4. StartInv' BY <2>2, <3>1, <3>2, <3>3 DEF RedisInv, StartInv
    <3>5. RedisClientInv' BY <2>2, <2>5 , <3>2 DEF RedisInv, RedisClientInv
    <3>6. ShutdownInv' BY <2>2, <2>5, <3>2 DEF RedisInv, ShutdownInv
    <3> QED BY <2>1, <2>3, <3>4, <3>5, <3>6 DEF RedisInv
  <2>6. \/ stage' = [stage EXCEPT ![b] = "done"]
        \/ /\ ~life.closing /\ ~life.closed /\ life.started
           /\ stage' = [stage EXCEPT ![b] = "borrowed"]
    BY <1>2 DEF Borrow, Return, Goto
  <2> QED BY <2>4, <2>5, <2>6
<1>3. CASE b \in Probes /\ ProbeReturn(b)
  <2>1. RedisTypeOK' /\ RedisKindInv'
    BY <1>3 DEF RedisInv, RedisTypeOK, RedisKindInv, ProbeReturn, Return
  <2>2. Active' \subseteq Active
    BY <1>3 DEF RedisInv, RedisTypeOK, ProbeReturn, Return, Active
  <2>3. /\ \A p \in Starters : stage'[p] = stage[p]
        /\ UNCHANGED <<life, provider, closeCalls>>
    BY <1>0, <1>3, <2>2 DEF RedisInv, RedisTypeOK, ProbeReturn, Return
  <2>4. StartInv' /\ RedisClientInv' /\ ShutdownInv' BY <1>1, <2>2, <2>3
  <2>5. RedisLeaseInv' /\ CloseInv'
    BY <1>3, <1>0 DEF RedisInv, RedisTypeOK, RedisLeaseInv, CloseInv, ProbeReturn, Return
  <2> QED BY <2>1, <2>4, <2>5 DEF RedisInv
<1>4. CASE b \in Users /\ CallbackReturn(b)
  <2>0. PICK res \in {"detached", "ok", "rejected"} : Continue(b, "draining", res)
    BY <1>4 DEF CallbackReturn
  <2>1. RedisTypeOK' /\ RedisKindInv'
    BY <1>4, <2>0 DEF RedisInv, RedisTypeOK, RedisKindInv, CallbackReturn, Continue
  <2>2. Active' \subseteq Active
    BY <1>4, <2>0 DEF RedisInv, RedisTypeOK, CallbackReturn, Continue, Active
  <2>3. /\ \A p \in Starters : stage'[p] = stage[p]
        /\ UNCHANGED <<life, provider, closeCalls>>
    BY <1>0, <1>4, <2>0, <2>2 DEF RedisInv, RedisTypeOK, CallbackReturn, Continue
  <2>4. StartInv' /\ RedisClientInv' /\ ShutdownInv' BY <1>1, <2>2, <2>3
  <2>5. RedisLeaseInv' /\ CloseInv'
    BY <1>4, <2>0, <1>0 DEF RedisInv, RedisTypeOK, RedisLeaseInv, CloseInv, CallbackReturn,
       Continue
  <2> QED BY <2>1, <2>4, <2>5 DEF RedisInv
<1>5. CASE b \in Users /\ Release(b)
  <2>1. RedisTypeOK' /\ RedisKindInv'
    BY <1>5 DEF RedisInv, RedisTypeOK, RedisKindInv, Release, Goto
  <2>2. Active' \subseteq Active BY <1>5 DEF RedisInv, RedisTypeOK, Release, Goto, Active
  <2>3. /\ \A p \in Starters : stage'[p] = stage[p]
        /\ UNCHANGED <<life, provider, closeCalls>>
    BY <1>0, <1>5, <2>2 DEF RedisInv, RedisTypeOK, Release, Goto
  <2>4. StartInv' /\ RedisClientInv' /\ ShutdownInv' BY <1>1, <2>2, <2>3
  <2>5. RedisLeaseInv' /\ CloseInv'
    BY <1>5, <1>0 DEF RedisInv, RedisTypeOK, RedisLeaseInv, CloseInv, Release, Goto, Drained,
       InFlight
  <2> QED BY <2>1, <2>4, <2>5 DEF RedisInv
<1> QED BY <1>2, <1>3, <1>4, <1>5

\* A command begins or ends.
LEMMA CommandPreserves ==
  ASSUME RedisInv, NEW c \in Commands, BeginCommand(c) \/ EndCommand(c)
  PROVE  RedisInv'
<1> USE RedisAssumption DEF Callers, Borrowers, BeginCommand, EndCommand
<1>1. RedisTypeOK' BY DEF RedisInv, RedisTypeOK
<1>2. RedisKindInv' /\ CloseInv' BY DEF RedisInv, RedisKindInv, CloseInv
<1>3. StartInv' /\ RedisClientInv' /\ ShutdownInv'
  BY DEF RedisInv, StartInv, RedisClientInv, ShutdownInv, Starting, Active
<1>4. RedisLeaseInv' BY DEF RedisInv, RedisTypeOK, RedisLeaseInv
<1> QED BY <1>1, <1>2, <1>3, <1>4 DEF RedisInv

\* A step of a Close.
LEMMA ClosePreserves ==
  ASSUME RedisInv, NEW c \in Closers, CloseCall(c) \/ CloseStep(c) \/ CloseGivesUp(c)
  PROVE  RedisInv'
<1> USE RedisAssumption DEF Callers, Borrowers
<1>0. /\ \A p \in Starters : p # c
      /\ \A b \in Borrowers : b # c
      /\ c \in Callers
      /\ Inside[c] # NoUser => Inside[c] \in Borrowers
  OBVIOUS
<1>1. CASE CloseCall(c)
  <2>0. /\ stage[c] = "idle" /\ UNCHANGED <<provider, closeCalls, lease, command>>
        /\ Inside[c] # NoUser => stage[Inside[c]] = "borrowed"
    BY <1>1 DEF CloseCall
  <2>1. Inside[c] # NoUser => Active # {} BY <1>0, <2>0 DEF Active
  <2>2. CASE /\ life.closed \/ ~life.attempted
             /\ life' = [life EXCEPT !.closing = TRUE, !.closed = TRUE]
             /\ Return(c, life.closeErr)
    <3>0. Active = {} /\ Inside[c] = NoUser
      BY <2>1, <2>2 DEF RedisInv, StartInv, ShutdownInv
    <3>1. /\ \A q \in Callers \ {c} : stage'[q] = stage[q] /\ outcome'[q] = outcome[q]
          /\ stage'[c] = "done" /\ outcome'[c] = life.closeErr
      BY <2>2, StageMoves DEF Return, RedisInv, RedisTypeOK
    <3>2. RedisTypeOK'
      <4>1. life' \in Lives
        BY <2>2 DEF RedisInv, RedisTypeOK, Lives
      <4> QED BY <2>0, <2>2, <4>1, StageMoves DEF RedisInv, RedisTypeOK, Return, Lives
    <3>3. RedisKindInv' BY <1>0, <3>1 DEF RedisInv, RedisKindInv, Underway
    <3>4. Active' = Active BY <1>0, <3>1 DEF Active
    <3>7. Starting' = Starting /\ (Starting => ~life.closed /\ life.attempted)
      BY <1>0, <3>1 DEF RedisInv, StartInv, Starting, Underway
    <3>8. /\ life'.attempted = life.attempted /\ life'.closeMade = life.closeMade
          /\ life'.closing /\ life'.closed /\ life'.client = life.client
          /\ life'.closeErr = life.closeErr
          /\ life'.startDone = life.startDone /\ life'.started = life.started
      BY <2>2 DEF RedisInv, RedisTypeOK
    <3>5. StartInv' /\ RedisClientInv' /\ ShutdownInv'
      BY <1>0, <2>0, <2>2, <3>0, <3>1, <3>4, <3>7, <3>8 DEF RedisInv, StartInv, RedisClientInv,
         ShutdownInv
    <3>6. RedisLeaseInv' /\ CloseInv'
      BY <1>0, <2>0, <2>2, <3>0, <3>1, <3>8 DEF RedisInv, RedisLeaseInv, CloseInv
    <3> QED BY <3>2, <3>3, <3>5, <3>6 DEF RedisInv
  <2>3. CASE /\ ~life.closed /\ life.attempted
             /\ life' = [life EXCEPT !.closing = TRUE] /\ Goto(c, "startWait")
    <3>1. /\ outcome' = outcome /\ \A q \in Callers \ {c} : stage'[q] = stage[q]
          /\ stage'[c] = "startWait"
      BY <2>3 DEF Goto, RedisInv, RedisTypeOK
    <3>2. RedisTypeOK'
      <4>1. life' \in Lives
        BY <2>3 DEF RedisInv, RedisTypeOK, Lives
      <4> QED BY <2>0, <2>3, <4>1 DEF RedisInv, RedisTypeOK, Goto, Lives
    <3>3. RedisKindInv' BY <1>0, <3>1 DEF RedisInv, RedisKindInv, Underway
    <3>4. Active' = Active BY <1>0, <3>1 DEF Active
    <3>7. Starting' = Starting BY <1>0, <3>1 DEF Starting, Underway
    <3>8. /\ life'.attempted = life.attempted /\ life'.closeMade = life.closeMade
          /\ life'.closing /\ life'.closed = life.closed /\ life'.client = life.client
          /\ life'.closeErr = life.closeErr
          /\ life'.startDone = life.startDone /\ life'.started = life.started
      BY <2>3 DEF RedisInv, RedisTypeOK
    <3>5. StartInv' /\ RedisClientInv' /\ ShutdownInv'
      BY <1>0, <2>0, <3>1, <3>4, <3>7, <3>8 DEF RedisInv, StartInv, RedisClientInv, ShutdownInv
    <3>6. RedisLeaseInv' BY <1>0, <2>0, <3>1 DEF RedisInv, RedisLeaseInv
    <3>9. \A d \in Closers : Inside[d] # NoUser =>
             stage'[Inside[d]] = stage[Inside[d]]
      BY <1>0, <3>1
    <3>10. /\ \A d \in Closers : stage'[d] \in {"startWait", "drain", "join"} =>
                life'.closing /\ life'.attempted
           /\ \A d \in Closers : stage'[d] \in {"drain", "join"} => life'.startDone
      BY <1>0, <2>0, <2>3, <3>1, <3>8 DEF RedisInv, CloseInv
    <3>11. /\ \A d \in Closers : stage'[d] # "done" => outcome'[d] = "none"
           /\ \A d \in Closers : outcome'[d] \in {"ok", "failed"} =>
                life'.closed /\ outcome'[d] = life'.closeErr
      BY <1>0, <2>0, <3>1, <3>8 DEF RedisInv, CloseInv
    <3>12. \A d \in Closers : Inside[d] # NoUser =>
             /\ outcome'[d] \in {"none", "gaveUp"}
             /\ stage'[d] \notin {"idle", "done"} => stage'[Inside[d]] = "borrowed"
      BY <1>0, <2>0, <3>1, <3>9 DEF RedisInv, CloseInv
    <3>13. CloseInv' BY <3>10, <3>11, <3>12 DEF CloseInv
    <3> QED BY <3>2, <3>3, <3>5, <3>6, <3>13 DEF RedisInv
  <2>4. \/ /\ life.closed \/ ~life.attempted
           /\ life' = [life EXCEPT !.closing = TRUE, !.closed = TRUE]
           /\ Return(c, life.closeErr)
        \/ /\ ~life.closed /\ life.attempted
           /\ life' = [life EXCEPT !.closing = TRUE] /\ Goto(c, "startWait")
    <3>1. CASE life.closed
      <4>1. [life EXCEPT !.closing = TRUE] = [life EXCEPT !.closing = TRUE, !.closed = TRUE]
        BY <3>1 DEF RedisInv, RedisTypeOK
      <4> QED BY <1>1, <3>1, <4>1 DEF CloseCall
    <3>2. CASE ~life.closed /\ ~life.attempted
      <4>1. life.closeErr = "ok" BY <3>2 DEF RedisInv, StartInv, ShutdownInv
      <4> QED BY <1>1, <3>2, <4>1 DEF CloseCall
    <3>3. CASE ~life.closed /\ life.attempted BY <1>1, <3>3 DEF CloseCall
    <3> QED BY <3>1, <3>2, <3>3
  <2> QED BY <2>2, <2>3, <2>4
<1>2. CASE CloseStartDone(c)
  <2>1. RedisTypeOK' /\ RedisKindInv'
    BY <1>2 DEF RedisInv, RedisTypeOK, RedisKindInv, CloseStartDone, Goto
  <2>2. Active' = Active BY <1>2, <1>0 DEF RedisInv, RedisTypeOK, CloseStartDone, Goto, Active
  <2>3. StartInv' /\ RedisClientInv' /\ ShutdownInv'
    BY <1>0, <1>2, <2>2 DEF RedisInv, RedisTypeOK, StartInv, RedisClientInv, ShutdownInv,
       Starting, CloseStartDone, Goto
  <2>4. RedisLeaseInv' /\ CloseInv'
    BY <1>0, <1>2 DEF RedisInv, RedisTypeOK, RedisLeaseInv, CloseInv, CloseStartDone, Goto
  <2> QED BY <2>1, <2>3, <2>4 DEF RedisInv
<1>3. CASE CloseDrain(c)
  <2>0. ~Starting /\ life.closing /\ life.attempted
    BY <1>3 DEF CloseDrain, RedisInv, CloseInv, StartInv
  <2>1. CASE life.closed
    <3>0. /\ stage' = [stage EXCEPT ![c] = "done"]
          /\ outcome' = [outcome EXCEPT ![c] = life.closeErr]
          /\ UNCHANGED <<life, provider, closeCalls, lease, command>>
      BY <1>3, <2>1 DEF CloseDrain, Return
    <3>1. RedisTypeOK' /\ RedisKindInv' BY <3>0 DEF RedisInv, RedisTypeOK, RedisKindInv
    <3>2. Active' = Active BY <3>0, <1>0 DEF RedisInv, RedisTypeOK, Active
    <3>3. StartInv' /\ RedisClientInv' /\ ShutdownInv'
      BY <1>0, <3>0, <3>2 DEF RedisInv, RedisTypeOK, StartInv, RedisClientInv, ShutdownInv,
         Starting
    <3>4. Inside[c] = NoUser
      BY <1>0, <1>3, <2>1 DEF CloseDrain, RedisInv, ShutdownInv, CloseInv, Active
    <3>5. RedisLeaseInv' /\ CloseInv'
      BY <1>0, <2>1, <3>0, <3>4 DEF RedisInv, RedisTypeOK, RedisLeaseInv, CloseInv
    <3> QED BY <3>1, <3>3, <3>5 DEF RedisInv
  <2>2. CASE ~life.closed /\ life.closeMade
    <3>0. /\ stage' = [stage EXCEPT ![c] = "join"]
          /\ UNCHANGED <<life, provider, closeCalls, outcome, lease, command>>
      BY <1>3, <2>2 DEF CloseDrain, EnsureClose, CloseUnderWay, Goto
    <3>1. RedisTypeOK' /\ RedisKindInv' BY <3>0 DEF RedisInv, RedisTypeOK, RedisKindInv
    <3>2. Active' = Active BY <3>0, <1>0 DEF RedisInv, RedisTypeOK, Active
    <3>3. StartInv' /\ RedisClientInv' /\ ShutdownInv'
      BY <1>0, <3>0, <3>2 DEF RedisInv, RedisTypeOK, StartInv, RedisClientInv, ShutdownInv,
         Starting
    <3>4. RedisLeaseInv' /\ CloseInv'
      BY <1>0, <1>3, <3>0 DEF CloseDrain, RedisInv, RedisTypeOK, RedisLeaseInv, CloseInv
    <3> QED BY <3>1, <3>3, <3>4 DEF RedisInv
  <2>3. CASE ~life.closed /\ ~life.closeMade /\ life.client
    <3>0. /\ stage' = [stage EXCEPT ![c] = "join"]
          /\ life' = [life EXCEPT !.closeMade = TRUE]
          /\ provider' = "closing" /\ closeCalls' = closeCalls + 1
          /\ Active = {}
          /\ UNCHANGED <<outcome, lease, command>>
      BY <1>3, <2>3 DEF CloseDrain, EnsureClose, CloseUnderWay, NothingBorrowed, Goto
    <3>6. life' \in Lives BY <3>0 DEF RedisInv, RedisTypeOK, Lives
    <3>1. RedisTypeOK' /\ RedisKindInv' BY <3>0, <3>6 DEF RedisInv, RedisTypeOK, RedisKindInv,
         Lives
    <3>2. Active' = Active BY <3>0, <1>0 DEF RedisInv, RedisTypeOK, Active
    <3>3. ~Starting' BY <1>0, <2>0, <3>0 DEF Starting, Underway, RedisInv, RedisTypeOK
    <3>4. StartInv' /\ RedisClientInv' /\ ShutdownInv'
      BY <2>0, <2>3, <3>0, <3>2, <3>3 DEF RedisInv, RedisTypeOK, StartInv, RedisClientInv,
         ShutdownInv, Starting, Underway
    <3>5. RedisLeaseInv' /\ CloseInv'
      BY <1>0, <1>3, <3>0 DEF CloseDrain, RedisInv, RedisTypeOK, RedisLeaseInv, CloseInv
    <3> QED BY <3>1, <3>4, <3>5 DEF RedisInv
  <2>4. CASE ~life.closed /\ ~life.closeMade /\ ~life.client
    <3>0. /\ stage' = [stage EXCEPT ![c] = "done"]
          /\ outcome' = [outcome EXCEPT ![c] = life.closeErr]
          /\ life' = [life EXCEPT !.closed = TRUE, !.started = FALSE]
          /\ Active = {}
          /\ UNCHANGED <<provider, closeCalls, lease, command>>
      BY <1>3, <2>4 DEF CloseDrain, EnsureClose, CloseUnderWay, NothingBorrowed, Return
    <3>1. RedisTypeOK' /\ RedisKindInv' BY <3>0 DEF RedisInv, RedisTypeOK, RedisKindInv
    <3>2. Active' = Active BY <3>0, <1>0 DEF RedisInv, RedisTypeOK, Active
    <3>3. ~Starting' BY <1>0, <2>0, <3>0 DEF Starting, Underway, RedisInv, RedisTypeOK
    <3>6. provider = "none" BY <2>0, <2>4 DEF RedisInv, RedisClientInv
    <3>4. StartInv' /\ RedisClientInv' /\ ShutdownInv'
      BY <2>0, <2>4, <3>0, <3>2, <3>3, <3>6 DEF RedisInv, RedisTypeOK, StartInv, RedisClientInv,
         ShutdownInv, Starting, Underway
    <3>7. Inside[c] = NoUser
      BY <1>0, <1>3, <3>0 DEF CloseDrain, RedisInv, CloseInv, Active
    <3>5. RedisLeaseInv' /\ CloseInv'
      BY <1>0, <2>4, <3>0, <3>7 DEF RedisInv, RedisTypeOK, RedisLeaseInv, CloseInv
    <3> QED BY <3>1, <3>4, <3>5 DEF RedisInv
  <2> QED BY <2>1, <2>2, <2>3, <2>4 DEF RedisInv, RedisTypeOK
<1>4. CASE CloseJoin(c)
  <2>1. RedisTypeOK' /\ RedisKindInv'
    BY <1>4 DEF RedisInv, RedisTypeOK, RedisKindInv, CloseJoin, Return
  <2>2. Active' = Active BY <1>4, <1>0 DEF RedisInv, RedisTypeOK, CloseJoin, Return, Active
  <2>3. StartInv' /\ RedisClientInv' /\ ShutdownInv'
    BY <1>0, <1>4, <2>2 DEF RedisInv, RedisTypeOK, StartInv, RedisClientInv, ShutdownInv,
       Starting, CloseJoin, Return
  <2>4. Inside[c] = NoUser
    BY <1>0, <1>4 DEF CloseJoin, RedisInv, ShutdownInv, CloseInv, Active
  <2>5. RedisLeaseInv' /\ CloseInv'
    BY <1>0, <1>4, <2>4 DEF RedisInv, RedisTypeOK, RedisLeaseInv, CloseInv, CloseJoin, Return
  <2> QED BY <2>1, <2>3, <2>5 DEF RedisInv
<1>5. CASE CloseGivesUp(c)
  <2>1. RedisTypeOK' /\ RedisKindInv'
    BY <1>5 DEF RedisInv, RedisTypeOK, RedisKindInv, CloseGivesUp, Return
  <2>2. Active' = Active BY <1>5, <1>0 DEF RedisInv, RedisTypeOK, CloseGivesUp, Return, Active
  <2>3. StartInv' /\ RedisClientInv' /\ ShutdownInv'
    BY <1>0, <1>5, <2>2 DEF RedisInv, RedisTypeOK, StartInv, RedisClientInv, ShutdownInv,
       Starting, CloseGivesUp, Return
  <2>4. RedisLeaseInv' /\ CloseInv'
    BY <1>0, <1>5 DEF RedisInv, RedisTypeOK, RedisLeaseInv, CloseInv, CloseGivesUp, Return
  <2> QED BY <2>1, <2>3, <2>4 DEF RedisInv
<1> QED BY <1>1, <1>2, <1>3, <1>4, <1>5 DEF CloseStep

\* Every step of the specification preserves it.
LEMMA RedisStepPreserves == RedisInv /\ [RedisNext]_redisVars => RedisInv'
<1> SUFFICES ASSUME RedisInv, [RedisNext]_redisVars PROVE RedisInv'
  OBVIOUS
<1>1. CASE \E err \in {"ok", "failed"} : ProviderClose(err)
  BY <1>1, ProviderPreserves
<1>2. CASE \E p \in Starters : StartCall(p) \/ StartStep(p)
  BY <1>2, RedisStartPreserves
<1>3. CASE \/ \E b \in Borrowers : Borrow(b)
           \/ \E b \in Probes : ProbeReturn(b)
           \/ \E u \in Users : CallbackReturn(u) \/ Release(u)
  BY <1>3, BorrowerPreserves DEF Borrowers
<1>4. CASE \E c \in Commands : BeginCommand(c) \/ EndCommand(c)
  BY <1>4, CommandPreserves
<1>5. CASE \E c \in Closers : CloseCall(c) \/ CloseStep(c) \/ CloseGivesUp(c)
  BY <1>5, ClosePreserves
<1>6. CASE UNCHANGED redisVars
  BY <1>6 DEF redisVars, RedisInv, RedisTypeOK, RedisKindInv, StartInv, RedisClientInv,
     ShutdownInv,
     RedisLeaseInv, CloseInv, Starting, Active
<1> QED BY <1>1, <1>2, <1>3, <1>4, <1>5, <1>6 DEF RedisNext

\* It holds in every reachable state.
LEMMA RedisInvariance == RedisSpec => []RedisInv
BY RedisInitially, RedisStepPreserves, PTL DEF RedisSpec
-----------------------------------------------------------------------------
(* What follows from it. *)

\* Every reachable state of a Redis resource is well typed.
THEOREM RedisTypeCorrect == RedisSpec => []RedisTypeOK
<1>1. RedisInv => RedisTypeOK BY DEF RedisInv
<1> QED BY <1>1, RedisInvariance, PTL

\* However Start, Use, Ready, Health, commands and Close calls interleave, the
\* client is closed at most once and used by nobody from then on; a Close with a
\* verdict found it released, and a client once constructed is never lost.
THEOREM RedisSoundness == RedisSpec => []RedisIsSound
<1>1. RedisInv => ClientClosedOnce
  BY DEF RedisInv, RedisTypeOK, ShutdownInv, ClientClosedOnce
<1>2. RedisInv => ClosedClientIsUnused
  <2> SUFFICES ASSUME RedisInv PROVE ClosedClientIsUnused
    OBVIOUS
  <2>1. ASSUME closeCalls > 0
        PROVE  /\ \A c \in Commands : command[c] # "running"
               /\ \A b \in Probes : stage[b] # "borrowed"
               /\ \A u \in Users : lease[u] # "active"
    <3>1. Active = {} BY <2>1 DEF RedisInv, RedisTypeOK, ShutdownInv
    <3> QED BY <3>1, RedisAssumption DEF RedisInv, RedisLeaseInv, Active, Borrowers
  <2>2. \A u \in Users : Returned(u) => InFlight(u) = {} /\ lease[u] # "active"
    BY DEF RedisInv, RedisLeaseInv, Returned, InFlight
  <2> QED BY <2>1, <2>2 DEF ClosedClientIsUnused
<1>3. RedisInv => CloseMeansReleased
  BY DEF RedisInv, ShutdownInv, CloseInv, CloseMeansReleased
<1>4. RedisInv => ClientIsOwned
  <2> SUFFICES ASSUME RedisInv, provider # "none",
                      \A p \in Starters : stage[p] \in {"idle", "join", "done"}
               PROVE  life.client /\ (provider = "open" => life.started)
    BY DEF ClientIsOwned
  <2>1. ~Starting BY DEF Starting, Underway
  <2> QED BY <2>1 DEF RedisInv, RedisClientInv
<1> QED BY <1>1, <1>2, <1>3, <1>4, RedisInvariance, PTL DEF RedisIsSound

-----------------------------------------------------------------------------
(* The challenge service.                                                  *)

(* What an issue that never became active, or once did, has left behind.   *)
IssueInv(i) ==
    /\ phase[i] \in {"idle", "rate", "begin", "send"} => activatedAt[i] = 0
    /\ pending.id = i => activatedAt[i] = 0 /\ phase[i] \notin {"idle", "rate"}
    /\ active.id = i => activatedAt[i] # 0 /\ active.attempts = Cardinality(charged[i])
    /\ activatedAt[i] = 0 => charged[i] = {}
    /\ activatedAt[i] # 0 => activatedAt[i] + Cooldown <= cooldownUntil
    /\ reservedAt[i] <= quotaAt[i] /\ quotaAt[i] <= now
    /\ Cardinality(charged[i]) <= MaxGuesses

(* A verification told of its success, or that will be if it asks again.   *)
Won(v) == phase[v] = "verified" \/ (ops[v] # <<>> /\ ops[v][2] = "SUCCESS")
WinnerInv(v) ==
    Won(v) => /\ expected[v] \in Issues /\ expected[v] = CodeOf[v]
              /\ active.id # expected[v] /\ activatedAt[expected[v]] # 0
VerdictInv(v) ==
    /\ ops[v] # <<>> => /\ ops[v][1] = expected[v] /\ phase[v] \notin {"idle", "read"}
                        /\ ops[v][2] = "LOCKED" => Cardinality(charged[expected[v]]) = MaxGuesses
    /\ phase[v] = "verified" => expected[v] # None

(* A guess charged to the active code is remembered for as long as the     *)
(* client repeats it.                                                      *)
GuessInv(v, i) ==
    v \in charged[i] =>
        /\ expected[v] = i /\ phase[v] \notin {"idle", "read"}
        /\ phase[v] = "complete" /\ active.id = i =>
             /\ tries[v] > 0 /\ opsUntil >= firstRun[v] + IdempotencyTTL
             /\ now <= firstRun[v] + RepeatWithin => ops[v] # <<>>

LimitsInv ==
    /\ pending.id # None => cooldownUntil <= now
    /\ opsUntil <= now + IdempotencyTTL /\ \A p \in Calls : firstRun[p] <= now
    /\ Cardinality(Members(quotaAt, QuotaWindow, Issues)) <= MaxIssues
    /\ RatesAreKept

ChallengeInv ==
    /\ ChallengeTypeOK /\ LimitsInv
    /\ \A i \in Issues : IssueInv(i)
    /\ \A v \in Verifications : WinnerInv(v) /\ VerdictInv(v) /\ \A i \in Issues : GuessInv(v, i)
    /\ \A v, w \in Verifications : Won(v) /\ Won(w) /\ expected[v] = expected[w] => v = w

-----------------------------------------------------------------------------
(* Counting the members of a window.                                       *)

LEMMA OneMore ==
  ASSUME NEW S, NEW T, IsFiniteSet(S), NEW i, T \subseteq S \cup {i}, NEW limit \in Nat,
         ~AtLimit(S, limit)
  PROVE  Cardinality(T) <= limit
<1>1. IsFiniteSet(S \cup {i}) /\ Cardinality(S) \in Nat BY FS_AddElement, FS_CardinalityType
<1>2. Cardinality(S \cup {i}) <= Cardinality(S) + 1 BY <1>1, FS_AddElement
<1>3. Cardinality(T) <= Cardinality(S \cup {i}) /\ IsFiniteSet(T) BY <1>1, FS_Subset
<1>4. Cardinality(T) \in Nat /\ Cardinality(S \cup {i}) \in Nat BY <1>1, <1>3, FS_CardinalityType
<1>5. Cardinality(S) < limit BY <1>1 DEF AtLimit
<1> QED BY <1>1, <1>2, <1>3, <1>4, <1>5

LEMMA NoMore ==
  ASSUME NEW S, NEW T, IsFiniteSet(S), T \subseteq S, NEW limit \in Nat, Cardinality(S) <= limit
  PROVE  Cardinality(T) <= limit
<1>1. Cardinality(T) <= Cardinality(S) /\ IsFiniteSet(T) BY FS_Subset
<1>2. Cardinality(T) \in Nat /\ Cardinality(S) \in Nat BY <1>1, FS_CardinalityType
<1> QED BY <1>1, <1>2

LEMMA NumbersAreNatural ==
  /\ {PendingTTL, CodeTTL, Cooldown, IdempotencyTTL, QuotaWindow, MaxIssues,
      CallerWindow, CallerLimit, GlobalWindow, GlobalLimit, MaxGuesses,
      MaxTries, RepeatWithin, Start, MaxTime} \subseteq Nat \ {0}
  /\ RepeatWithin < IdempotencyTTL
  /\ QuotaWindow < Start /\ CallerWindow < Start /\ GlobalWindow < Start
BY ChallengeAssumption

LEMMA MembersAreFinite ==
  ASSUME NEW at, NEW window, NEW S \in SUBSET Issues
  PROVE  IsFiniteSet(Members(at, window, S)) /\ IsFiniteSet(Members(at, window, S))'
<1>1. IsFiniteSet(S) BY ChallengeAssumption, FS_Subset
<1>2. Members(at, window, S) \subseteq S /\ Members(at, window, S)' \subseteq S BY DEF Members
<1> QED BY <1>1, <1>2, FS_Subset

LEMMA ChallengeInitially == ChallengeInit => ChallengeInv
<1> SUFFICES ASSUME ChallengeInit PROVE ChallengeInv
  OBVIOUS
<1> USE NumbersAreNatural
<1>1. now = Start /\ Start \in Nat /\ Start <= MaxTime /\ MaxTime \in Nat /\ now \in Start..MaxTime
  BY ChallengeAssumption DEF ChallengeInit
<1>2. ChallengeTypeOK
  <2>1. /\ pending \in [id : Issues \cup {None}, until : Nat]
        /\ active \in [id : Issues \cup {None}, expires : Nat, attempts : 0..(MaxGuesses - 1)]
    <3>1. 0 \in 0..(MaxGuesses - 1) /\ 0 \in Nat
      <4>1. MaxGuesses \in Nat \ {0} OBVIOUS
      <4> QED BY ONLY <4>1
    <3> QED BY ONLY <3>1, ChallengeInit DEF ChallengeInit, NoPending, NoActive
  <2>2. {quotaAt, rateAt, activatedAt, reservedAt} \subseteq [Issues -> Nat]
    BY DEF ChallengeInit
  <2>3. ops \in [Verifications -> {<<>>} \cup (Issues \X Verdicts)] BY DEF ChallengeInit
  <2>4. charged \in [Issues -> SUBSET Verifications] BY DEF ChallengeInit
  <2>5. /\ phase \in [Calls -> {"idle", "rate", "begin", "send", "commit", "abort",
                            "read", "complete", "done", "limited", "verified"}]
        /\ tries \in [Calls -> 0..(MaxTries - 1)] /\ firstRun \in [Calls -> Nat]
        /\ expected \in [Verifications -> Issues \cup {None}]
    <3>1. 0 \in 0..(MaxTries - 1) /\ 0 \in Nat
      <4>1. MaxTries \in Nat \ {0} OBVIOUS
      <4> QED BY ONLY <4>1
    <3> QED BY ONLY <3>1, ChallengeInit DEF ChallengeInit
  <2>6. cooldownUntil \in Nat /\ opsUntil \in Nat /\ lastAbort \in Issues \cup {None}
    BY DEF ChallengeInit
  <2> QED BY <1>1, <2>1, <2>2, <2>3, <2>4, <2>5, <2>6 DEF ChallengeTypeOK
<1>3. /\ \A i \in Issues : phase[i] = "idle" /\ charged[i] = {} /\ activatedAt[i] = 0
                           /\ quotaAt[i] = 0 /\ reservedAt[i] = 0 /\ rateAt[i] = 0
      /\ \A v \in Verifications : phase[v] = "idle" /\ ops[v] = <<>>
      /\ \A p \in Calls : firstRun[p] = 0
      /\ pending.id = None /\ active.id = None /\ cooldownUntil = 0 /\ opsUntil = 0
  BY DEF ChallengeInit, Calls, NoPending, NoActive
<1>4. \A i \in Issues : IssueInv(i)
  <2>1. Cardinality({}) = 0 BY FS_EmptySet
  <2>2. MaxGuesses \in Nat /\ None \notin Issues BY ChallengeAssumption
  <2> SUFFICES ASSUME NEW i \in Issues PROVE IssueInv(i) OBVIOUS
  <2>3. Cardinality(charged[i]) = 0 /\ pending.id # i /\ active.id # i BY <1>3, <2>1, <2>2
  <2> QED BY <1>1, <1>3, <2>2, <2>3 DEF IssueInv
<1>5. LimitsInv
  <2>1. ASSUME NEW S \in SUBSET Issues, NEW w \in {QuotaWindow, CallerWindow, GlobalWindow}
        PROVE  Members(quotaAt, w, S) = {} /\ Members(rateAt, w, S) = {}
    <3>1. w \in Nat /\ ~(0 > now - w) BY <1>1, NumbersAreNatural
    <3>2. \A i \in S : quotaAt[i] = 0 /\ rateAt[i] = 0 BY <1>3
    <3> QED BY <3>1, <3>2 DEF Members, InWindow
  <2>2. Cardinality({}) = 0 BY FS_EmptySet
  <2>3. \A i \in Issues : SameCaller(i) \subseteq Issues BY DEF SameCaller
  <2>6. CallerLimit \in Nat /\ GlobalLimit \in Nat /\ MaxIssues \in Nat /\ IdempotencyTTL \in Nat
    BY ChallengeAssumption
  <2>7. ASSUME NEW i \in Issues PROVE Cardinality(Members(rateAt, CallerWindow, SameCaller(i))) <= CallerLimit
    <3>1. Members(rateAt, CallerWindow, SameCaller(i)) = {} BY <2>1, <2>3
    <3> QED BY <2>2, <2>6, <3>1
  <2>8. /\ Cardinality(Members(rateAt, GlobalWindow, Issues)) <= GlobalLimit
        /\ Cardinality(Members(quotaAt, QuotaWindow, Issues)) <= MaxIssues
    <3>1. Members(rateAt, GlobalWindow, Issues) = {} /\ Members(quotaAt, QuotaWindow, Issues) = {}
      BY <2>1
    <3> QED BY <2>2, <2>6, <3>1
  <2>4. RatesAreKept BY <1>3, <2>7, <2>8 DEF RatesAreKept
  <2>5. \A p \in Calls : firstRun[p] <= now BY <1>1, <1>3
  <2> QED BY <1>1, <1>3, <2>4, <2>5, <2>6, <2>8 DEF LimitsInv
<1>6. \A v \in Verifications : ~Won(v) BY <1>3 DEF Won
<1>7. \A v \in Verifications : VerdictInv(v) /\ \A i \in Issues : GuessInv(v, i)
  BY <1>3 DEF VerdictInv, GuessInv
<1> QED BY <1>2, <1>4, <1>5, <1>6, <1>7 DEF ChallengeInv, WinnerInv
-----------------------------------------------------------------------------
(* One call takes a step: its script answers, or runs to be run again.     *)

CallPhases == {"idle", "rate", "begin", "send", "commit", "abort", "read", "complete", "done",
               "limited", "verified"}
ProcsType ==
    /\ phase \in [Calls -> CallPhases] /\ tries \in [Calls -> 0..(MaxTries - 1)]
    /\ firstRun \in [Calls -> Nat] /\ expected \in [Verifications -> Issues \cup {None}]
CountsType ==
    /\ quotaAt \in [Issues -> Nat] /\ rateAt \in [Issues -> Nat]
    /\ activatedAt \in [Issues -> Nat] /\ reservedAt \in [Issues -> Nat]
    /\ charged \in [Issues -> SUBSET Verifications]
VerdictsType == ops \in [Verifications -> {<<>>} \cup (Issues \X Verdicts)] /\ opsUntil \in Nat
CodesType ==
    /\ pending \in [id : Issues \cup {None}, until : Nat]
    /\ active \in [id : Issues \cup {None}, expires : Nat, attempts : 0..(MaxGuesses - 1)]
    /\ cooldownUntil \in Nat /\ lastAbort \in Issues \cup {None}
LEMMA ChallengeTyping ==
  /\ ChallengeTypeOK <=> now \in Start..MaxTime /\ ProcsType /\ CountsType /\ VerdictsType /\ CodesType
  /\ ChallengeTypeOK' <=> now' \in Start..MaxTime /\ ProcsType' /\ CountsType' /\ VerdictsType' /\ CodesType'
BY DEF ChallengeTypeOK, ProcsType, CountsType, VerdictsType, CodesType, CallPhases

Turns(p, st) ==
    /\ \A q \in Calls \ {p} : phase'[q] = phase[q] /\ tries'[q] = tries[q] /\ firstRun'[q] = firstRun[q]
    /\ \/ phase'[p] = st /\ tries'[p] = 0 /\ firstRun'[p] = 0
       \/ /\ phase'[p] = phase[p] /\ tries'[p] > 0
          /\ tries[p] > 0 => firstRun'[p] = firstRun[p]
          /\ tries[p] = 0 => firstRun'[p] = now
    /\ now' = now
ProcsTurn ==
    /\ phase' \in [Calls -> CallPhases] /\ tries' \in [Calls -> 0..(MaxTries - 1)]
    /\ firstRun' \in [Calls -> Nat]

LEMMA AnswersTurns ==
  ASSUME now \in Nat, ProcsType, NEW p \in Calls, NEW st \in CallPhases, Answers(p, st)
  PROVE  Turns(p, st) /\ ProcsTurn /\ (tries[p] > 0 => now <= firstRun[p] + RepeatWithin)
<1>0. MaxTries \in Nat \ {0} BY NumbersAreNatural
<1>1. now' = now /\ (tries[p] > 0 => now <= firstRun[p] + RepeatWithin) BY DEF Answers
<1>2. CASE /\ phase' = [phase EXCEPT ![p] = st]
           /\ tries' = [tries EXCEPT ![p] = 0] /\ firstRun' = [firstRun EXCEPT ![p] = 0]
  <2>1. phase' \in [Calls -> CallPhases] /\ phase'[p] = st /\ \A q \in Calls \ {p} : phase'[q] = phase[q]
    BY <1>2 DEF ProcsType
  <2>2. /\ tries' \in [Calls -> 0..(MaxTries - 1)] /\ tries'[p] = 0
        /\ \A q \in Calls \ {p} : tries'[q] = tries[q]
    BY <1>0, <1>2 DEF ProcsType
  <2>3. firstRun' \in [Calls -> Nat] /\ firstRun'[p] = 0 /\ \A q \in Calls \ {p} : firstRun'[q] = firstRun[q]
    BY <1>2 DEF ProcsType
  <2> QED BY <1>1, <2>1, <2>2, <2>3 DEF Turns, ProcsTurn
<1>3. CASE /\ tries[p] + 1 < MaxTries /\ tries' = [tries EXCEPT ![p] = @ + 1]
           /\ firstRun' = [firstRun EXCEPT ![p] = IF tries[p] = 0 THEN now ELSE @]
           /\ UNCHANGED phase
  <2>1. phase' \in [Calls -> CallPhases] /\ phase'[p] = phase[p] /\ \A q \in Calls \ {p} : phase'[q] = phase[q]
    BY <1>3 DEF ProcsType
  <2>2. tries[p] \in 0..(MaxTries - 1) BY DEF ProcsType
  <2>3. tries[p] + 1 \in 0..(MaxTries - 1) /\ tries[p] + 1 > 0 BY <1>0, <1>3, <2>2
  <2>4. /\ tries' \in [Calls -> 0..(MaxTries - 1)] /\ tries'[p] > 0
        /\ \A q \in Calls \ {p} : tries'[q] = tries[q]
    BY <1>3, <2>3 DEF ProcsType
  <2>5. firstRun[p] \in Nat BY DEF ProcsType
  <2>6. (IF tries[p] = 0 THEN now ELSE firstRun[p]) \in Nat BY <2>5
  <2>7. /\ firstRun' \in [Calls -> Nat] /\ firstRun'[p] = (IF tries[p] = 0 THEN now ELSE firstRun[p])
        /\ \A q \in Calls \ {p} : firstRun'[q] = firstRun[q]
    BY <1>3, <2>6 DEF ProcsType
  <2>8. tries[p] > 0 => tries[p] # 0 BY <2>2
  <2> QED BY <1>1, <2>1, <2>4, <2>7, <2>8 DEF Turns, ProcsTurn
<1> QED BY <1>2, <1>3 DEF Answers

LEMMA MovesTurns ==
  ASSUME ProcsType, NEW p \in Calls, NEW st \in CallPhases, Moves(p, st)
  PROVE  Turns(p, st) /\ ProcsTurn
<1>0. MaxTries \in Nat \ {0} BY NumbersAreNatural
<1>1. phase' \in [Calls -> CallPhases] /\ phase'[p] = st /\ \A q \in Calls \ {p} : phase'[q] = phase[q]
  BY DEF ProcsType, Moves
<1>2. /\ tries' \in [Calls -> 0..(MaxTries - 1)] /\ tries'[p] = 0
      /\ \A q \in Calls \ {p} : tries'[q] = tries[q]
  BY <1>0 DEF ProcsType, Moves
<1>3. firstRun' \in [Calls -> Nat] /\ firstRun'[p] = 0 /\ \A q \in Calls \ {p} : firstRun'[q] = firstRun[q]
  BY DEF ProcsType, Moves
<1> QED BY <1>1, <1>2, <1>3 DEF Turns, ProcsTurn, Moves

(* The verdicts and guesses, when no verification moves and no code does.  *)
GuessesInv ==
    /\ \A v \in Verifications : WinnerInv(v) /\ VerdictInv(v) /\ \A i \in Issues : GuessInv(v, i)
    /\ \A v, w \in Verifications : Won(v) /\ Won(w) /\ expected[v] = expected[w] => v = w
IssuesInv == \A i \in Issues : IssueInv(i)
LEMMA ChallengeInvSplits ==
  /\ ChallengeInv <=> ChallengeTypeOK /\ LimitsInv /\ IssuesInv /\ GuessesInv
  /\ ChallengeInv' <=> ChallengeTypeOK' /\ LimitsInv' /\ IssuesInv' /\ GuessesInv'
BY DEF ChallengeInv, GuessesInv, IssuesInv

LEMMA GuessesStay ==
  ASSUME GuessesInv, NEW i \in Issues, NEW st, Turns(i, st),
         UNCHANGED <<active, ops, opsUntil, expected, activatedAt, charged>>
  PROVE  GuessesInv'
<1>1. \A v \in Verifications : phase'[v] = phase[v] /\ tries'[v] = tries[v] /\ firstRun'[v] = firstRun[v]
  BY ChallengeAssumption DEF Turns, Calls
<1>2. now' = now BY DEF Turns
<1>3. \A v \in Verifications : Won(v)' <=> Won(v) BY <1>1 DEF Won
<1>4. \A v \in Verifications : WinnerInv(v)' BY <1>3 DEF GuessesInv, WinnerInv
<1>5. \A v \in Verifications : VerdictInv(v)' BY <1>1 DEF GuessesInv, VerdictInv
<1>6. \A v \in Verifications : \A j \in Issues : GuessInv(v, j)' BY <1>1, <1>2 DEF GuessesInv,
     GuessInv
<1> QED BY <1>3, <1>4, <1>5, <1>6 DEF GuessesInv

LEMMA FirstRunsPassed ==
  ASSUME LimitsInv, ProcsType, now \in Nat, NEW p \in Calls, NEW st, Turns(p, st)
  PROVE  \A q \in Calls : firstRun'[q] <= now'
BY DEF Turns, LimitsInv, ProcsType

LEMMA RatesStay ==
  ASSUME RatesAreKept, UNCHANGED <<now, rateAt>>,
         \A i \in Issues : phase'[i] = "limited" => phase[i] = "limited" \/ ~InWindow(rateAt[i], CallerWindow)
  PROVE  RatesAreKept'
<1>1. \A i \in Issues : InWindow(rateAt[i], CallerWindow)' <=> InWindow(rateAt[i], CallerWindow)
  BY DEF InWindow
<1>2. \A i \in Issues : Members(rateAt, CallerWindow, SameCaller(i))' = Members(rateAt, CallerWindow, SameCaller(i))
  BY DEF Members, InWindow, SameCaller
<1>3. Members(rateAt, GlobalWindow, Issues)' = Members(rateAt, GlobalWindow, Issues)
  BY DEF Members, InWindow
<1> QED BY <1>1, <1>2, <1>3 DEF RatesAreKept

LEMMA LimitsStay ==
  ASSUME LimitsInv, ProcsType, now \in Nat, NEW p \in Calls, NEW st, Turns(p, st),
         st = "limited" => ~InWindow(rateAt[p], CallerWindow),
         pending' = pending \/ pending'.id = None,
         UNCHANGED <<cooldownUntil, opsUntil, quotaAt, rateAt>>
  PROVE  LimitsInv'
<1>1. now' = now BY DEF Turns
<1>2. pending'.id # None => cooldownUntil' <= now' BY <1>1 DEF LimitsInv
<1>3. Members(quotaAt, QuotaWindow, Issues)' = Members(quotaAt, QuotaWindow, Issues)
  BY <1>1 DEF Members, InWindow
<1>4. RatesAreKept'
  <2>1. \A i \in Issues :
           phase'[i] = "limited" => phase[i] = "limited" \/ ~InWindow(rateAt[i], CallerWindow)
    BY DEF Turns, Calls
  <2> QED BY <1>1, <2>1, RatesStay DEF LimitsInv
<1>5. \A q \in Calls : firstRun'[q] <= now' BY FirstRunsPassed
<1> QED BY <1>1, <1>2, <1>3, <1>4, <1>5 DEF LimitsInv

LEMMA IssuesStay ==
  ASSUME IssuesInv, NEW p \in Calls, NEW st, Turns(p, st),
         st # "idle", st = "rate" => phase[p] = "idle",
         st \in {"begin", "send"} => phase[p] \in {"idle", "rate", "begin", "send"},
         pending' = pending \/ pending'.id = None,
         UNCHANGED <<active, activatedAt, charged, cooldownUntil, quotaAt, reservedAt>>
  PROVE  IssuesInv'
<1> SUFFICES ASSUME NEW i \in Issues PROVE IssueInv(i)'
  BY DEF IssuesInv
<1>1. now' = now /\ IssueInv(i) BY DEF Turns, IssuesInv
<1>2. pending'.id = i => pending.id = i BY ChallengeAssumption
<1>3. CASE i # p \/ phase'[i] = phase[i]
  <2>1. phase'[i] = phase[i] BY <1>3 DEF Turns, Calls
  <2> QED BY <1>1, <1>2, <2>1 DEF IssueInv
<1>4. CASE i = p /\ phase'[i] = st
  BY <1>1, <1>2, <1>4 DEF IssueInv
<1> QED BY <1>3, <1>4 DEF Turns

(* Between the scripts of an issue, and when its call is cut short.        *)
LEMMA IssueMovesPreserves ==
  ASSUME ChallengeInv, NEW i \in Issues, NEW st \in {"rate", "commit", "abort", "done"}, Moves(i, st),
         st = "rate" => phase[i] = "idle"
  PROVE  ChallengeInv'
<1>1. /\ ChallengeTypeOK /\ LimitsInv /\ IssuesInv /\ GuessesInv /\ i \in Calls /\ ProcsType
      /\ now \in Nat
  BY ChallengeInvSplits, ChallengeTyping, NumbersAreNatural DEF Calls
<1>2. Turns(i, st) /\ ProcsTurn BY <1>1, MovesTurns DEF CallPhases
<1>3. /\ UNCHANGED <<now, pending, active, cooldownUntil, lastAbort, quotaAt, rateAt, ops, opsUntil>>
      /\ UNCHANGED <<expected, activatedAt, reservedAt, charged>>
  BY DEF Moves, store, history
<1>4. GuessesInv' BY <1>1, <1>2, <1>3, GuessesStay
<1>5. LimitsInv' BY <1>1, <1>2, <1>3, LimitsStay
<1>6. IssuesInv' BY <1>1, <1>2, <1>3, IssuesStay
<1>7. ProcsType' BY <1>1, <1>2, <1>3 DEF ProcsType, ProcsTurn
<1>8. now' \in Start..MaxTime /\ CountsType' /\ VerdictsType' /\ CodesType'
  <2>1. now \in Start..MaxTime /\ CountsType /\ VerdictsType /\ CodesType BY <1>1, ChallengeTyping
  <2>2. CountsType' BY <1>3, <2>1 DEF CountsType
  <2>3. VerdictsType' BY <1>3, <2>1 DEF VerdictsType
  <2>4. CodesType' BY <1>3, <2>1 DEF CodesType
  <2> QED BY <1>3, <2>1, <2>2, <2>3, <2>4
<1> QED BY <1>4, <1>5, <1>6, <1>7, <1>8, ChallengeTyping, ChallengeInvSplits

LEMMA RatePreserves ==
  ASSUME ChallengeInv, NEW i \in Issues, RateScript(i)
  PROVE  ChallengeInv'
<1>1. /\ ChallengeTypeOK /\ LimitsInv /\ IssuesInv /\ GuessesInv /\ i \in Calls /\ ProcsType
      /\ now \in Nat /\ now \in Start..MaxTime /\ CountsType /\ VerdictsType /\ CodesType
  BY ChallengeInvSplits, ChallengeTyping, NumbersAreNatural DEF Calls
<1>2. /\ UNCHANGED <<pending, active, cooldownUntil, lastAbort, quotaAt, ops, opsUntil>>
      /\ UNCHANGED <<expected, activatedAt, reservedAt, charged>> /\ phase[i] = "rate"
  BY DEF RateScript, history
<1>3. PICK st \in {"begin", "done", "limited"} :
         /\ Answers(i, st)
         /\ \/ UNCHANGED rateAt /\ (st = "limited" => ~InWindow(rateAt[i], CallerWindow))
            \/ /\ st = "begin" /\ rateAt' = [rateAt EXCEPT ![i] = now]
               /\ ~AtLimit(Members(rateAt, CallerWindow, SameCaller(i)), CallerLimit)
               /\ ~AtLimit(Members(rateAt, GlobalWindow, Issues), GlobalLimit)
  <2> DEFINE Outcome(st) ==
         /\ Answers(i, st)
         /\ \/ UNCHANGED rateAt /\ (st = "limited" => ~InWindow(rateAt[i], CallerWindow))
            \/ /\ st = "begin" /\ rateAt' = [rateAt EXCEPT ![i] = now]
               /\ ~AtLimit(Members(rateAt, CallerWindow, SameCaller(i)), CallerLimit)
               /\ ~AtLimit(Members(rateAt, GlobalWindow, Issues), GlobalLimit)
  <2>1. Outcome("begin") \/ Outcome("done") \/ Outcome("limited")
    BY DEF RateScript
  <2> HIDE DEF Outcome
  <2>2. \E st \in {"begin", "done", "limited"} : Outcome(st) BY <2>1
  <2> QED BY <2>2 DEF Outcome
<1>4. Turns(i, st) /\ ProcsTurn BY <1>1, <1>3, AnswersTurns DEF CallPhases
<1>5. GuessesInv' BY <1>1, <1>2, <1>4, GuessesStay
<1>6. IssuesInv' BY <1>1, <1>2, <1>4, IssuesStay
<1>7. LimitsInv'
  <2>1. CASE UNCHANGED rateAt /\ (st = "limited" => ~InWindow(rateAt[i], CallerWindow))
    BY <1>1, <1>2, <1>4, <2>1, LimitsStay
  <2>2. CASE /\ st = "begin" /\ rateAt' = [rateAt EXCEPT ![i] = now]
             /\ ~AtLimit(Members(rateAt, CallerWindow, SameCaller(i)), CallerLimit)
             /\ ~AtLimit(Members(rateAt, GlobalWindow, Issues), GlobalLimit)
    <3>1. now' = now /\ \A j \in Issues \ {i} : rateAt'[j] = rateAt[j]
      BY <1>1, <1>4, <2>2 DEF Turns, CountsType
    <3>2. \A S \in SUBSET Issues, w \in {CallerWindow, GlobalWindow} :
             Members(rateAt', w, S) \subseteq Members(rateAt, w, S) \cup {i}
      BY <3>1 DEF Members
    <3>3. CallerLimit \in Nat /\ GlobalLimit \in Nat BY NumbersAreNatural
    <3>4. Cardinality(Members(rateAt, GlobalWindow, Issues)') <= GlobalLimit
      <4>1. Members(rateAt, GlobalWindow, Issues)' \subseteq Members(rateAt, GlobalWindow, Issues) \cup {i}
        BY <3>1 DEF Members, InWindow
      <4>2. IsFiniteSet(Members(rateAt, GlobalWindow, Issues)) BY MembersAreFinite
      <4> QED BY <2>2, <3>3, <4>1, <4>2, OneMore
    <3>5. ASSUME NEW j \in Issues
          PROVE  Cardinality(Members(rateAt, CallerWindow, SameCaller(j))') <= CallerLimit
      <4>1. SameCaller(j) \in SUBSET Issues /\ SameCaller(j)' = SameCaller(j) BY DEF SameCaller
      <4>2. IsFiniteSet(Members(rateAt, CallerWindow, SameCaller(j))) BY <4>1, MembersAreFinite
      <4>3. Members(rateAt, CallerWindow, SameCaller(j))'
              \subseteq Members(rateAt, CallerWindow, SameCaller(j)) \cup {i}
        BY <3>1 DEF Members, InWindow, SameCaller
      <4>4. CASE CallerOf[j] = CallerOf[i]
        <5>1. SameCaller(j) = SameCaller(i) BY <4>4 DEF SameCaller
        <5> QED BY <2>2, <3>3, <4>2, <4>3, <5>1, OneMore
      <4>5. CASE CallerOf[j] # CallerOf[i]
        <5>1. Members(rateAt, CallerWindow, SameCaller(j))' \subseteq Members(rateAt, CallerWindow, SameCaller(j))
          BY <3>1, <4>5 DEF Members, InWindow, SameCaller
        <5>2. Cardinality(Members(rateAt, CallerWindow, SameCaller(j))) <= CallerLimit
          <6>1. RatesAreKept BY <1>1 DEF LimitsInv
          <6> QED BY <6>1, Zenon DEF RatesAreKept
        <5> QED BY <3>3, <4>2, <5>1, <5>2, NoMore
      <4> QED BY <4>4, <4>5
    <3>6. ASSUME NEW j \in Issues, phase'[j] = "limited"
          PROVE  ~InWindow(rateAt[j], CallerWindow)'
      <4>1. j # i BY <1>2, <1>4, <2>2, <3>6 DEF Turns
      <4>2. phase[j] = "limited" BY <1>4, <3>6, <4>1 DEF Turns, Calls
      <4>3. RatesAreKept BY <1>1 DEF LimitsInv
      <4>4. ~InWindow(rateAt[j], CallerWindow) BY <4>2, <4>3, Zenon DEF RatesAreKept
      <4> QED BY <3>1, <4>1, <4>4 DEF InWindow
    <3>7. RatesAreKept' BY <3>4, <3>5, <3>6 DEF RatesAreKept
    <3>8. Members(quotaAt, QuotaWindow, Issues)' = Members(quotaAt, QuotaWindow, Issues)
      BY <1>2, <3>1 DEF Members, InWindow
    <3>9. \A q \in Calls : firstRun'[q] <= now' BY <1>1, <1>4, FirstRunsPassed
    <3> QED BY <1>1, <1>2, <3>1, <3>7, <3>8, <3>9 DEF LimitsInv
  <2> QED BY <1>3, <2>1, <2>2
<1>8. ProcsType' BY <1>1, <1>2, <1>4 DEF ProcsType, ProcsTurn
<1>9. CountsType'
  <2>1. rateAt' \in [Issues -> Nat] BY <1>1, <1>3 DEF CountsType
  <2> QED BY <1>1, <1>2, <2>1 DEF CountsType
<1>10. now' \in Start..MaxTime /\ VerdictsType' /\ CodesType'
  <2>1. VerdictsType' BY <1>1, <1>2 DEF VerdictsType
  <2>2. CodesType' BY <1>1, <1>2 DEF CodesType
  <2> QED BY <1>1, <1>4, <2>1, <2>2 DEF Turns
<1> QED BY <1>5, <1>6, <1>7, <1>8, <1>9, <1>10, ChallengeTyping, ChallengeInvSplits
LEMMA BeginPreserves ==
  ASSUME ChallengeInv, NEW i \in Issues, BeginScript(i)
  PROVE  ChallengeInv'
<1>1. /\ ChallengeTypeOK /\ LimitsInv /\ IssuesInv /\ GuessesInv /\ i \in Calls /\ ProcsType
      /\ now \in Nat /\ now \in Start..MaxTime /\ CountsType /\ VerdictsType /\ CodesType
  BY ChallengeInvSplits, ChallengeTyping, NumbersAreNatural DEF Calls
<1>2. /\ UNCHANGED <<active, cooldownUntil, lastAbort, rateAt, ops, opsUntil>>
      /\ UNCHANGED <<expected, activatedAt, charged>> /\ phase[i] = "begin"
  BY DEF BeginScript
<1>3. PICK st \in {"send", "done"} :
         /\ Answers(i, st)
         /\ \/ (pending' = pending \/ pending' = NoPending) /\ UNCHANGED <<quotaAt, reservedAt>>
            \/ /\ ~CoolingDown /\ ~QuotaSpent
               /\ pending' = [id |-> i, until |-> now + PendingTTL]
               /\ quotaAt' = [quotaAt EXCEPT ![i] = now]
               /\ reservedAt' = [reservedAt EXCEPT ![i] = IF @ = 0 THEN now ELSE @]
  <2> DEFINE Outcome(st) ==
         /\ Answers(i, st)
         /\ \/ (pending' = pending \/ pending' = NoPending) /\ UNCHANGED <<quotaAt, reservedAt>>
            \/ /\ ~CoolingDown /\ ~QuotaSpent
               /\ pending' = [id |-> i, until |-> now + PendingTTL]
               /\ quotaAt' = [quotaAt EXCEPT ![i] = now]
               /\ reservedAt' = [reservedAt EXCEPT ![i] = IF @ = 0 THEN now ELSE @]
  <2>1. Outcome("send") \/ Outcome("done")
    BY DEF BeginScript
  <2> HIDE DEF Outcome
  <2>2. \E st \in {"send", "done"} : Outcome(st) BY <2>1
  <2> QED BY <2>2 DEF Outcome
<1>4. Turns(i, st) /\ ProcsTurn /\ now' = now BY <1>1, <1>3, AnswersTurns DEF CallPhases, Turns
<1>5. GuessesInv' BY <1>1, <1>2, <1>4, GuessesStay
<1>6. ProcsType' BY <1>1, <1>2, <1>4 DEF ProcsType, ProcsTurn
<1>7. VerdictsType' BY <1>1, <1>2 DEF VerdictsType
<1>8. CASE (pending' = pending \/ pending' = NoPending) /\ UNCHANGED <<quotaAt, reservedAt>>
  <2>1. pending' = pending \/ pending'.id = None BY <1>8 DEF NoPending
  <2>2. IssuesInv' BY <1>1, <1>2, <1>4, <1>8, <2>1, IssuesStay
  <2>3. LimitsInv' BY <1>1, <1>2, <1>4, <1>8, <2>1, LimitsStay
  <2>4. CountsType' BY <1>1, <1>2, <1>8 DEF CountsType
  <2>5. CodesType' BY <1>1, <1>2, <1>8 DEF CodesType, NoPending
  <2> QED BY <1>1, <1>4, <1>5, <1>6, <1>7, <2>2, <2>3, <2>4, <2>5, ChallengeTyping,
       ChallengeInvSplits
<1>9. CASE /\ ~CoolingDown /\ ~QuotaSpent
           /\ pending' = [id |-> i, until |-> now + PendingTTL]
           /\ quotaAt' = [quotaAt EXCEPT ![i] = now]
           /\ reservedAt' = [reservedAt EXCEPT ![i] = IF @ = 0 THEN now ELSE @]
  <2>1. PendingTTL \in Nat /\ MaxIssues \in Nat BY NumbersAreNatural
  <2>2. reservedAt[i] \in Nat /\ reservedAt[i] <= now
    BY <1>1 DEF CountsType, IssuesInv, IssueInv
  <2>3. /\ quotaAt' \in [Issues -> Nat] /\ quotaAt'[i] = now
        /\ \A j \in Issues \ {i} : quotaAt'[j] = quotaAt[j]
    BY <1>1, <1>9 DEF CountsType
  <2>4. /\ reservedAt' \in [Issues -> Nat] /\ reservedAt'[i] <= now
        /\ \A j \in Issues \ {i} : reservedAt'[j] = reservedAt[j]
    <3> DEFINE first == IF reservedAt[i] = 0 THEN now ELSE reservedAt[i]
    <3>1. first \in Nat /\ first <= now BY <1>1, <2>2
    <3>2. reservedAt' = [reservedAt EXCEPT ![i] = first] BY <1>9
    <3> HIDE DEF first
    <3> QED BY <1>1, <3>1, <3>2 DEF CountsType
  <2>5. CountsType' BY <1>1, <1>2, <2>3, <2>4 DEF CountsType
  <2>6. CodesType'
    <3>1. pending' \in [id : Issues \cup {None}, until : Nat] BY <1>1, <1>9, <2>1
    <3> QED BY <1>1, <1>2, <3>1 DEF CodesType
  <2>7. pending'.id = i BY <1>9
  <2>8. IssuesInv'
    <3> SUFFICES ASSUME NEW j \in Issues PROVE IssueInv(j)' BY DEF IssuesInv
    <3>1. IssueInv(j) BY <1>1 DEF IssuesInv
    <3>2. CASE j = i
      <4>1. phase'[i] \in {"begin", "send", "done"} BY <1>2, <1>4 DEF Turns
      <4> QED BY <1>1, <1>2, <1>4, <2>3, <2>4, <2>7, <3>1, <3>2, <4>1 DEF IssueInv
    <3>3. CASE j # i
      <4>1. phase'[j] = phase[j] /\ quotaAt'[j] = quotaAt[j] /\ reservedAt'[j] = reservedAt[j] /\ pending'.id # j
        BY <1>4, <2>3, <2>4, <2>7, <3>3 DEF Turns, Calls
      <4> QED BY <1>2, <1>4, <3>1, <4>1 DEF IssueInv
    <3> QED BY <3>2, <3>3
  <2>9. LimitsInv'
    <3>1. Cardinality(Members(quotaAt, QuotaWindow, Issues)') <= MaxIssues
      <4>1. Members(quotaAt, QuotaWindow, Issues)' \subseteq Members(quotaAt, QuotaWindow, Issues) \cup {i}
        BY <1>4, <2>3 DEF Members, InWindow
      <4>2. IsFiniteSet(Members(quotaAt, QuotaWindow, Issues)) BY MembersAreFinite
      <4>3. ~AtLimit(Members(quotaAt, QuotaWindow, Issues), MaxIssues) BY <1>9 DEF QuotaSpent
      <4> QED BY <2>1, <4>1, <4>2, <4>3, OneMore
    <3>2. cooldownUntil' <= now'
      BY <1>1, <1>2, <1>4, <1>9 DEF CoolingDown, CodesType
    <3>3. RatesAreKept'
      <4>1. \A j \in Issues : phase'[j] = "limited" => phase[j] = "limited"
        BY <1>2, <1>4 DEF Turns, Calls
      <4> QED BY <1>1, <1>2, <1>4, <4>1, RatesStay DEF LimitsInv
    <3>4. \A q \in Calls : firstRun'[q] <= now' BY <1>1, <1>4, FirstRunsPassed
    <3> QED BY <1>1, <1>2, <1>4, <3>1, <3>2, <3>3, <3>4 DEF LimitsInv
  <2> QED BY <1>1, <1>4, <1>5, <1>6, <1>7, <2>5, <2>6, <2>8, <2>9, ChallengeTyping,
       ChallengeInvSplits
<1> QED BY <1>3, <1>8, <1>9

LEMMA AbortPreserves ==
  ASSUME ChallengeInv, NEW i \in Issues, AbortScript(i)
  PROVE  ChallengeInv'
<1>1. /\ ChallengeTypeOK /\ LimitsInv /\ IssuesInv /\ GuessesInv /\ i \in Calls /\ ProcsType
      /\ now \in Nat /\ now \in Start..MaxTime /\ CountsType /\ VerdictsType /\ CodesType
  BY ChallengeInvSplits, ChallengeTyping, NumbersAreNatural DEF Calls
<1>2. /\ UNCHANGED <<active, cooldownUntil, quotaAt, rateAt, ops, opsUntil>>
      /\ UNCHANGED <<expected, activatedAt, reservedAt, charged>>
      /\ Answers(i, "done")
      /\ pending' = pending \/ pending' = NoPending
      /\ lastAbort' = lastAbort \/ lastAbort' = i
  BY DEF AbortScript, history
<1>3. Turns(i, "done") /\ ProcsTurn /\ now' = now BY <1>1, <1>2, AnswersTurns DEF CallPhases,
     Turns
<1>4. pending' = pending \/ pending'.id = None BY <1>2 DEF NoPending
<1>5. GuessesInv' BY <1>1, <1>2, <1>3, GuessesStay
<1>6. IssuesInv' BY <1>1, <1>2, <1>3, <1>4, IssuesStay
<1>7. LimitsInv' BY <1>1, <1>2, <1>3, <1>4, LimitsStay
<1>8. ProcsType' BY <1>1, <1>2, <1>3 DEF ProcsType, ProcsTurn
<1>9. CountsType' BY <1>1, <1>2 DEF CountsType
<1>10. VerdictsType' BY <1>1, <1>2 DEF VerdictsType
<1>11. CodesType' BY <1>1, <1>2 DEF CodesType, NoPending
<1> QED BY <1>1, <1>3, <1>5, <1>6, <1>7, <1>8, <1>9, <1>10, <1>11, ChallengeTyping,
     ChallengeInvSplits

LEMMA CommitPreserves ==
  ASSUME ChallengeInv, NEW i \in Issues, CommitScript(i)
  PROVE  ChallengeInv'
<1>1. /\ ChallengeTypeOK /\ LimitsInv /\ IssuesInv /\ GuessesInv /\ i \in Calls /\ ProcsType
      /\ now \in Nat /\ now \in Start..MaxTime /\ CountsType /\ VerdictsType /\ CodesType
  BY ChallengeInvSplits, ChallengeTyping, NumbersAreNatural DEF Calls
<1>2. /\ UNCHANGED <<lastAbort, quotaAt, rateAt, opsUntil, expected, reservedAt, charged>>
      /\ Answers(i, "done") /\ phase[i] = "commit"
  BY DEF CommitScript
<1>3. Turns(i, "done") /\ ProcsTurn /\ now' = now BY <1>1, <1>2, AnswersTurns DEF CallPhases,
     Turns
<1>4. ProcsType' BY <1>1, <1>2, <1>3 DEF ProcsType, ProcsTurn
<1>5. CASE (pending' = pending \/ pending' = NoPending) /\ UNCHANGED <<active, cooldownUntil, ops, activatedAt>>
  <2>1. pending' = pending \/ pending'.id = None BY <1>5 DEF NoPending
  <2>2. GuessesInv' BY <1>1, <1>2, <1>3, <1>5, GuessesStay
  <2>3. IssuesInv' BY <1>1, <1>2, <1>3, <1>5, <2>1, IssuesStay
  <2>4. LimitsInv' BY <1>1, <1>2, <1>3, <1>5, <2>1, LimitsStay
  <2>5. CountsType' BY <1>1, <1>2, <1>5 DEF CountsType
  <2>6. VerdictsType' BY <1>1, <1>2, <1>5 DEF VerdictsType
  <2>7. CodesType' BY <1>1, <1>2, <1>5 DEF CodesType, NoPending
  <2> QED BY <1>1, <1>3, <1>4, <2>2, <2>3, <2>4, <2>5, <2>6, <2>7, ChallengeTyping,
       ChallengeInvSplits
<1>6. CASE /\ pending.id = i
           /\ active' = [id |-> i, expires |-> now + CodeTTL, attempts |-> 0]
           /\ cooldownUntil' = CooldownStarts
           /\ pending' = NoPending
           /\ ops' = [v \in Verifications |-> <<>>]
           /\ activatedAt' = [activatedAt EXCEPT ![i] = now]
  <2>1. /\ CodeTTL \in Nat /\ Cooldown \in Nat /\ MaxGuesses \in Nat \ {0} /\ None \notin Issues
        /\ now > 0
    BY <1>1, NumbersAreNatural, ChallengeAssumption
  <2>2. /\ activatedAt' \in [Issues -> Nat] /\ activatedAt'[i] = now
        /\ \A j \in Issues \ {i} : activatedAt'[j] = activatedAt[j]
    BY <1>1, <1>6 DEF CountsType
  <2>3. CountsType' BY <1>1, <1>2, <2>2 DEF CountsType
  <2>4. VerdictsType' BY <1>1, <1>2, <1>6 DEF VerdictsType
  <2>5. CodesType'
    <3>1. active' \in [id : Issues \cup {None}, expires : Nat, attempts : 0..(MaxGuesses - 1)]
      BY <1>1, <1>6, <2>1
    <3>2. pending' \in [id : Issues \cup {None}, until : Nat] BY <1>6 DEF NoPending
    <3>3. cooldownUntil' \in Nat BY <1>1, <1>6, <2>1 DEF CooldownStarts
    <3> QED BY <1>1, <1>2, <3>1, <3>2, <3>3 DEF CodesType
  <2>6. active'.id = i /\ active'.attempts = 0 /\ pending'.id = None /\ cooldownUntil' = now + Cooldown
    BY <1>6 DEF NoPending, CooldownStarts
  <2>7. activatedAt[i] = 0 /\ charged[i] = {} /\ cooldownUntil <= now
    BY <1>1, <1>6, <2>1 DEF IssuesInv, IssueInv, LimitsInv
  <2>8. IssuesInv'
    <3> SUFFICES ASSUME NEW j \in Issues PROVE IssueInv(j)' BY DEF IssuesInv
    <3>1. IssueInv(j) /\ activatedAt[j] \in Nat BY <1>1 DEF IssuesInv, CountsType
    <3>2. CASE j = i
      <4>1. phase'[i] \in {"commit", "done"} BY <1>2, <1>3 DEF Turns
      <4>2. Cardinality(charged'[i]) = 0 BY <1>2, <2>7, FS_EmptySet
      <4> QED BY <1>1, <1>2, <1>3, <2>1, <2>2, <2>6, <2>7, <3>1, <3>2, <4>1, <4>2 DEF IssueInv
    <3>3. CASE j # i
      <4>1. phase'[j] = phase[j] /\ activatedAt'[j] = activatedAt[j] /\ pending'.id # j /\ active'.id # j
        BY <1>3, <2>1, <2>2, <2>6, <3>3 DEF Turns, Calls
      <4>2. activatedAt'[j] # 0 => activatedAt'[j] + Cooldown <= cooldownUntil'
        BY <1>1, <2>1, <2>6, <2>7, <3>1, <4>1 DEF IssueInv, CodesType
      <4> QED BY <1>2, <1>3, <3>1, <4>1, <4>2 DEF IssueInv
    <3> QED BY <3>2, <3>3
  <2>9. LimitsInv'
    <3>1. Members(quotaAt, QuotaWindow, Issues)' = Members(quotaAt, QuotaWindow, Issues)
      BY <1>2, <1>3 DEF Members, InWindow
    <3>2. RatesAreKept'
      <4>1. \A j \in Issues : phase'[j] = "limited" => phase[j] = "limited"
        BY <1>2, <1>3 DEF Turns, Calls
      <4> QED BY <1>1, <1>2, <1>3, <4>1, RatesStay DEF LimitsInv
    <3>3. \A q \in Calls : firstRun'[q] <= now' BY <1>1, <1>3, FirstRunsPassed
    <3> QED BY <1>1, <1>2, <1>3, <2>6, <3>1, <3>2, <3>3 DEF LimitsInv
  <2>10. GuessesInv'
    <3>1. \A v \in Verifications : phase'[v] = phase[v] /\ tries'[v] = tries[v] /\ firstRun'[v] = firstRun[v]
      BY <1>3, ChallengeAssumption DEF Turns, Calls
    <3>2. \A v \in Verifications : ops'[v] = <<>> BY <1>6
    <3>3. \A v \in Verifications : Won(v)' => Won(v) BY <3>1, <3>2 DEF Won
    <3>4. ASSUME NEW v \in Verifications, Won(v)' PROVE WinnerInv(v)'
      <4>1. /\ expected[v] \in Issues /\ expected[v] = CodeOf[v] /\ activatedAt[expected[v]] # 0
        BY <1>1, <3>3, <3>4 DEF GuessesInv, WinnerInv
      <4>2. expected[v] # i BY <2>7, <4>1
      <4> QED BY <1>2, <2>2, <2>6, <4>1, <4>2 DEF WinnerInv
    <3>5. \A v \in Verifications : VerdictInv(v)'
      BY <1>1, <1>2, <3>1, <3>2 DEF GuessesInv, VerdictInv
    <3>6. ASSUME NEW v \in Verifications, NEW j \in Issues PROVE GuessInv(v, j)'
      <4>1. GuessInv(v, j) BY <1>1 DEF GuessesInv
      <4>2. v \in charged'[j] => j # i BY <1>2, <2>7
      <4> QED BY <1>2, <2>6, <3>1, <4>1, <4>2 DEF GuessInv
    <3>7. \A v \in Verifications : WinnerInv(v)' BY <3>4 DEF WinnerInv
    <3> QED BY <1>1, <1>2, <3>3, <3>5, <3>6, <3>7 DEF GuessesInv
  <2> QED BY <1>1, <1>3, <1>4, <2>3, <2>4, <2>5, <2>8, <2>9, <2>10, ChallengeTyping,
       ChallengeInvSplits
<1> QED BY <1>5, <1>6 DEF CommitScript
-----------------------------------------------------------------------------
(* Verifications                                                           *)

(* A step of one verification that judges nothing anew.                    *)
LEMMA VerificationKeeps ==
  ASSUME ChallengeInv, NEW v \in Verifications, NEW st \in {"read", "complete", "done", "verified"},
         Turns(v, st), ProcsTurn,
         st \in {"read", "complete"} => phase[v] \in {"idle", "read"},
         st = "verified" => Won(v) /\ phase[v] = "complete",
         \/ UNCHANGED expected
         \/ phase[v] = "read" /\ expected' = [expected EXCEPT ![v] = active.id],
         UNCHANGED <<pending, active, cooldownUntil, lastAbort, quotaAt, rateAt, ops, opsUntil>>,
         UNCHANGED <<activatedAt, reservedAt, charged>>
  PROVE  ChallengeInv'
<1>1. /\ ChallengeTypeOK /\ LimitsInv /\ IssuesInv /\ GuessesInv /\ v \in Calls /\ ProcsType
      /\ now \in Nat /\ now \in Start..MaxTime /\ CountsType /\ VerdictsType /\ CodesType
      /\ now' = now
  BY ChallengeInvSplits, ChallengeTyping, NumbersAreNatural DEF Calls, Turns
<1>2. IssuesInv'
  <2> SUFFICES ASSUME NEW i \in Issues PROVE IssueInv(i)' BY DEF IssuesInv
  <2>1. IssueInv(i) /\ phase'[i] = phase[i] BY <1>1, ChallengeAssumption DEF IssuesInv, Turns,
       Calls
  <2> QED BY <1>1, <2>1 DEF IssueInv
<1>3. LimitsInv' BY <1>1, LimitsStay
<1>4. /\ expected' \in [Verifications -> Issues \cup {None}]
      /\ \A w \in Verifications \ {v} : expected'[w] = expected[w]
      /\ phase[v] # "read" => expected'[v] = expected[v]
  BY <1>1 DEF ProcsType, CodesType
<1>5. ProcsType' BY <1>1, <1>4 DEF ProcsType, ProcsTurn
<1>6. CountsType' BY <1>1 DEF CountsType
<1>7. VerdictsType' BY <1>1 DEF VerdictsType
<1>8. CodesType' BY <1>1 DEF CodesType
<1>9. \A w \in Verifications \ {v} : phase'[w] = phase[w] /\ tries'[w] = tries[w] /\ firstRun'[w] = firstRun[w]
  BY DEF Turns, Calls
<1>10. VerdictInv(v) /\ WinnerInv(v) BY <1>1 DEF GuessesInv
<1>11. phase[v] \in {"idle", "read"} => ops[v] = <<>> /\ ~Won(v) /\ \A i \in Issues : v \notin charged[i]
  BY <1>1, <1>10 DEF GuessesInv, VerdictInv, GuessInv, Won
<1>12. phase'[v] = st \/ phase'[v] = phase[v] BY DEF Turns
<1>13. Won(v)' => Won(v) /\ phase[v] \notin {"idle", "read"}
  BY <1>11, <1>12 DEF Won
<1>14. \A w \in Verifications : Won(w)' => Won(w) /\ expected'[w] = expected[w]
  BY <1>4, <1>9, <1>13 DEF Won
<1>15. \A w \in Verifications : WinnerInv(w)'
  BY <1>1, <1>14 DEF GuessesInv, WinnerInv
<1>16. ASSUME NEW w \in Verifications PROVE VerdictInv(w)'
  <2>1. VerdictInv(w) BY <1>1 DEF GuessesInv
  <2>2. CASE w # v
    BY <1>4, <1>9, <2>1, <2>2 DEF VerdictInv
  <2>3. CASE w = v
    <3>1. ops'[v] # <<>> => phase'[v] \notin {"idle", "read"} /\ expected'[v] = expected[v]
      BY <1>4, <1>11, <1>12
    <3>2. phase'[v] = "verified" => Won(v) /\ expected'[v] = expected[v]
      BY <1>4, <1>12 DEF Won
    <3>3. Won(v) => expected[v] # None BY <1>10, ChallengeAssumption DEF WinnerInv
    <3> QED BY <2>1, <2>3, <3>1, <3>2, <3>3 DEF VerdictInv
  <2> QED BY <2>2, <2>3
<1>17. ASSUME NEW w \in Verifications, NEW i \in Issues PROVE GuessInv(w, i)'
  <2>1. GuessInv(w, i) BY <1>1 DEF GuessesInv
  <2>2. CASE w # v BY <1>1, <1>4, <1>9, <2>1, <2>2 DEF GuessInv
  <2>3. CASE w = v
    <3> SUFFICES ASSUME v \in charged[i] PROVE GuessInv(v, i)'
      BY <2>3 DEF GuessInv
    <3>1. expected'[v] = i /\ phase[v] \notin {"idle", "read"}
      BY <1>4, <2>1, <2>3 DEF GuessInv
    <3>2. phase'[v] \notin {"idle", "read"} BY <1>12, <3>1
    <3>3. phase'[v] = "complete" => phase[v] = "complete" /\ tries'[v] > 0
      BY <3>1 DEF Turns
    <3>4. phase'[v] = "complete" /\ active.id = i => tries'[v] > 0 /\ firstRun'[v] = firstRun[v]
      BY <2>1, <2>3, <3>3 DEF GuessInv, Turns
    <3> QED BY <1>1, <2>1, <2>3, <3>1, <3>2, <3>3, <3>4 DEF GuessInv
  <2> QED BY <2>2, <2>3
<1>18. GuessesInv' BY <1>1, <1>14, <1>15, <1>16, <1>17 DEF GuessesInv
<1> QED BY <1>1, <1>2, <1>3, <1>5, <1>6, <1>7, <1>8, <1>18, ChallengeTyping, ChallengeInvSplits

LEMMA ReadPreserves ==
  ASSUME ChallengeInv, NEW v \in Verifications, ReadScript(v)
  PROVE  ChallengeInv'
<1>1. ProcsType /\ now \in Nat /\ v \in Calls
  BY ChallengeInvSplits, ChallengeTyping, NumbersAreNatural DEF Calls
<1>2. Turns(v, "complete") /\ ProcsTurn BY <1>1, AnswersTurns DEF ReadScript, CallPhases
<1> QED BY <1>2, VerificationKeeps DEF ReadScript, store, history

LEMMA VerificationMovesPreserves ==
  ASSUME ChallengeInv, NEW v \in Verifications, NEW st \in {"read", "done"}, Moves(v, st),
         st = "read" => phase[v] = "idle"
  PROVE  ChallengeInv'
<1>1. ProcsType /\ v \in Calls
  BY ChallengeInvSplits, ChallengeTyping DEF Calls
<1>2. Turns(v, st) /\ ProcsTurn BY <1>1, MovesTurns DEF CallPhases
<1> QED BY <1>2, VerificationKeeps DEF Moves, store, history
(* A verdict that is remembered replaces those that have expired.          *)
LEMMA RememberSets ==
  ASSUME ProcsType, VerdictsType, now \in Nat, NEW v \in Verifications, NEW verdict \in Verdicts,
         expected[v] \in Issues, Remember(v, verdict)
  PROVE  /\ VerdictsType' /\ opsUntil' = now + IdempotencyTTL
         /\ ops'[v] # <<>> /\ ops'[v][1] = expected[v] /\ ops'[v][2] = verdict
         /\ \A w \in Verifications \ {v} :
               ops'[w] = ops[w] \/ (ops'[w] = <<>> /\ ~(opsUntil > now))
<1> DEFINE new(w) == IF w = v THEN <<expected[v], verdict>> ELSE IF opsUntil > now THEN ops[w] ELSE <<>>
<1>1. ops' = [w \in Verifications |-> new(w)] /\ opsUntil' = now + IdempotencyTTL
  BY DEF Remember
<1>2. \A w \in Verifications : new(w) \in {<<>>} \cup (Issues \X Verdicts)
  BY DEF VerdictsType
<1>3. opsUntil' \in Nat
  <2>1. IdempotencyTTL \in Nat BY NumbersAreNatural
  <2> QED BY <1>1, <2>1
<1>4. ops'[v] = <<expected[v], verdict>> BY <1>1
<1>5. <<expected[v], verdict>> # <<>> OBVIOUS
<1>6. \A w \in Verifications \ {v} : ops'[w] = ops[w] \/ (ops'[w] = <<>> /\ ~(opsUntil > now))
  BY <1>1
<1> HIDE DEF new
<1>7. ops' \in [Verifications -> {<<>>} \cup (Issues \X Verdicts)] BY <1>1, <1>2
<1>8. VerdictsType' BY <1>3, <1>7 DEF VerdictsType
<1>9. ops'[v] # <<>> /\ ops'[v][1] = expected[v] /\ ops'[v][2] = verdict BY <1>4, <1>5
<1> QED BY <1>1, <1>6, <1>8, <1>9

(* The verification judges the active code.                                *)
LEMMA JudgesPreserves ==
  ASSUME ChallengeInv, NEW v \in Verifications, NEW verdict \in Verdicts \ {"STALE"},
         phase[v] = "complete", ~Remembered(v),
         expected[v] \in Issues, active.id = expected[v],
         Remember(v, verdict),
         verdict = "SUCCESS" => CodeOf[v] = expected[v],
         IF verdict \in {"EXPIRED", "SUCCESS"}
           THEN active' = NoActive /\ UNCHANGED charged
           ELSE /\ charged' = [charged EXCEPT ![expected[v]] = @ \cup {v}]
                /\ IF verdict = "LOCKED"
                     THEN LimitReached(active.attempts + 1) /\ active' = NoActive
                     ELSE /\ ~LimitReached(active.attempts + 1)
                          /\ active' = [active EXCEPT !.attempts = active.attempts + 1],
         UNCHANGED <<pending, cooldownUntil, lastAbort, quotaAt, rateAt, expected, activatedAt, reservedAt>>
  PROVE  ChallengeInv'
<1> DEFINE id == expected[v]
<1>1. /\ ChallengeTypeOK /\ LimitsInv /\ IssuesInv /\ GuessesInv /\ v \in Calls /\ ProcsType
      /\ now \in Nat /\ now \in Start..MaxTime /\ CountsType /\ VerdictsType /\ CodesType
  BY ChallengeInvSplits, ChallengeTyping, NumbersAreNatural DEF Calls
<1> DEFINE st == IF verdict = "SUCCESS" THEN "verified" ELSE "done"
<1>2. Turns(v, st) /\ ProcsTurn /\ (tries[v] > 0 => now <= firstRun[v] + RepeatWithin)
  BY <1>1, AnswersTurns DEF Remember, Concludes, CallPhases
<1>3. now' = now BY <1>2 DEF Turns
<1>4. /\ VerdictsType' /\ opsUntil' = now + IdempotencyTTL
      /\ ops'[v] # <<>> /\ ops'[v][1] = id /\ ops'[v][2] = verdict
      /\ \A w \in Verifications \ {v} :
            ops'[w] = ops[w] \/ (ops'[w] = <<>> /\ ~(opsUntil > now))
  BY <1>1, RememberSets
<1>5. /\ IdempotencyTTL \in Nat /\ RepeatWithin \in Nat /\ RepeatWithin < IdempotencyTTL
      /\ MaxGuesses \in Nat \ {0} /\ None \notin Issues
  BY NumbersAreNatural, ChallengeAssumption
<1>6. firstRun[v] \in Nat /\ opsUntil \in Nat /\ tries[v] \in Nat BY <1>1, NumbersAreNatural
     DEF ProcsType, VerdictsType
<1>7. v \notin charged[id]
  <2> SUFFICES ASSUME v \in charged[id] PROVE FALSE OBVIOUS
  <2>1. GuessInv(v, id) BY <1>1 DEF GuessesInv
  <2>2. tries[v] > 0 /\ opsUntil >= firstRun[v] + IdempotencyTTL
        /\ (now <= firstRun[v] + RepeatWithin => ops[v] # <<>>)
    BY <2>1 DEF GuessInv
  <2> QED BY <1>1, <1>2, <1>5, <1>6, <2>2 DEF Remembered
<1>8. active.attempts \in 0..(MaxGuesses - 1) /\ active.attempts = Cardinality(charged[id])
      /\ activatedAt[id] # 0
  BY <1>1 DEF CodesType, IssuesInv, IssueInv
<1>9. /\ charged' \in [Issues -> SUBSET Verifications]
      /\ \A i \in Issues \ {id} : charged'[i] = charged[i]
      /\ verdict \in {"EXPIRED", "SUCCESS"} => charged'[id] = charged[id]
      /\ verdict \notin {"EXPIRED", "SUCCESS"} => charged'[id] = charged[id] \cup {v}
  BY <1>1 DEF CountsType
<1>10. verdict \notin {"EXPIRED", "SUCCESS"} => Cardinality(charged'[id]) = active.attempts + 1
  <2>1. IsFiniteSet(charged[id])
    <3>1. charged[id] \subseteq Verifications BY <1>1 DEF CountsType
    <3> QED BY <3>1, ChallengeAssumption, FS_Subset
  <2> QED BY <1>7, <1>8, <1>9, <2>1, FS_AddElement
<1>11. \/ active'.id = None /\ active' = NoActive
       \/ /\ active'.id = id /\ verdict = "INVALID"
          /\ active'.attempts = active.attempts + 1 /\ active.attempts + 1 < MaxGuesses
          /\ active' = [active EXCEPT !.attempts = active.attempts + 1]
  BY <1>1, <1>5, <1>8 DEF NoActive, LimitReached, CodesType, Verdicts
<1>12. CodesType'
  <2>1. active' \in [id : Issues \cup {None}, expires : Nat, attempts : 0..(MaxGuesses - 1)]
    <3>1. CASE active' = NoActive BY <1>5, <3>1 DEF NoActive
    <3>2. CASE /\ active.attempts + 1 < MaxGuesses
               /\ active' = [active EXCEPT !.attempts = active.attempts + 1]
      <4>1. active.attempts + 1 \in 0..(MaxGuesses - 1) BY <1>5, <1>8, <3>2
      <4> QED BY <1>1, <3>2, <4>1 DEF CodesType
    <3> QED BY <1>11, <3>1, <3>2
  <2> QED BY <1>1, <2>1 DEF CodesType
<1>13. CountsType' BY <1>1, <1>9 DEF CountsType
<1>14. ProcsType' BY <1>1, <1>2 DEF ProcsType, ProcsTurn
<1> HIDE DEF id, st
<1>15. IssuesInv'
  <2> SUFFICES ASSUME NEW i \in Issues PROVE IssueInv(i)' BY DEF IssuesInv
  <2>1. IssueInv(i) /\ phase'[i] = phase[i]
    BY <1>1, <1>2, ChallengeAssumption DEF IssuesInv, Turns, Calls
  <2>2. CASE i # id
    <3>1. charged'[i] = charged[i] /\ active'.id # i BY <1>5, <1>9, <1>11, <2>2
    <3> QED BY <1>3, <2>1, <3>1 DEF IssueInv
  <2>3. CASE i = id
    <3>1. Cardinality(charged'[i]) <= MaxGuesses
      BY <1>5, <1>8, <1>9, <1>10, <2>3
    <3>2. active'.id = i => active'.attempts = Cardinality(charged'[i])
      BY <1>5, <1>10, <1>11, <2>3
    <3> QED BY <1>3, <1>8, <2>1, <2>3, <3>1, <3>2 DEF IssueInv
  <2> QED BY <2>2, <2>3
<1>16. LimitsInv'
  <2>1. Members(quotaAt, QuotaWindow, Issues)' = Members(quotaAt, QuotaWindow, Issues)
    BY <1>3 DEF Members, InWindow
  <2>2. RatesAreKept'
    <3>1. \A j \in Issues : phase'[j] = phase[j]
      BY <1>2, ChallengeAssumption DEF Turns, Calls
    <3> QED BY <1>1, <1>3, <3>1, RatesStay DEF LimitsInv
  <2>3. \A q \in Calls : firstRun'[q] <= now' BY <1>1, <1>2, FirstRunsPassed
  <2>4. opsUntil' <= now' + IdempotencyTTL BY <1>1, <1>3, <1>4, <1>5
  <2> QED BY <1>1, <1>3, <2>1, <2>2, <2>3, <2>4 DEF LimitsInv
<1>17. GuessesInv'
  <2>1. \A w \in Verifications \ {v} :
           phase'[w] = phase[w] /\ tries'[w] = tries[w] /\ firstRun'[w] = firstRun[w]
    BY <1>2 DEF Turns, Calls
  <2>2. \A w \in Verifications \ {v} : Won(w)' => Won(w) BY <1>4, <2>1 DEF Won
  <2>3. Won(v)' => verdict = "SUCCESS" BY <1>2, <1>4 DEF Won, Turns, st
  <2>4. \A w \in Verifications : Won(w) => expected[w] # id
    BY <1>1 DEF GuessesInv, WinnerInv, id
  <2>5. active'.id = active.id \/ active'.id = None BY <1>11 DEF id
  <2>6. ASSUME NEW w \in Verifications PROVE WinnerInv(w)'
    <3>1. CASE w # v BY <1>1, <1>5, <2>2, <2>5, <3>1 DEF GuessesInv, WinnerInv
    <3>2. CASE w = v
      <4>1. verdict = "SUCCESS" => active'.id = None BY <1>11
      <4> QED BY <1>5, <1>8, <2>3, <3>2, <4>1 DEF WinnerInv, id
    <3> QED BY <3>1, <3>2
  <2>7. ASSUME NEW w \in Verifications PROVE VerdictInv(w)'
    <3>0. VerdictInv(w) BY <1>1 DEF GuessesInv
    <3>1. CASE w # v
      <4>1. ops'[w] # <<>> => ops'[w] = ops[w] BY <1>4, <3>1
      <4>2. ops[w] # <<>> /\ ops[w][2] = "LOCKED" => expected[w] # id
        <5> SUFFICES ASSUME ops[w] # <<>>, ops[w][2] = "LOCKED", expected[w] = id PROVE FALSE OBVIOUS
        <5>1. Cardinality(charged[id]) = MaxGuesses BY <3>0 DEF VerdictInv
        <5> QED BY <1>5, <1>8, <5>1
      <4>3. ops[w] # <<>> /\ ops[w][2] = "LOCKED" /\ ops[w][1] = expected[w] =>
               Cardinality(charged'[expected[w]]) = MaxGuesses
        <5> SUFFICES ASSUME ops[w] # <<>>, ops[w][2] = "LOCKED", ops[w][1] = expected[w]
                     PROVE  Cardinality(charged'[expected[w]]) = MaxGuesses
          OBVIOUS
        <5>1. ops[w] \in Issues \X Verdicts BY <1>1 DEF VerdictsType
        <5>2. expected[w] \in Issues BY <5>1
        <5> QED BY <1>9, <3>0, <4>2, <5>2 DEF VerdictInv
      <4> QED BY <2>1, <3>0, <3>1, <4>1, <4>3 DEF VerdictInv
    <3>2. CASE w = v
      <4>1. phase'[v] \notin {"idle", "read"} BY <1>2 DEF Turns, st
      <4>2. verdict = "LOCKED" => Cardinality(charged'[id]) = MaxGuesses
        BY <1>5, <1>8, <1>10 DEF LimitReached
      <4> QED BY <1>4, <1>5, <3>2, <4>1, <4>2 DEF VerdictInv, id
    <3> QED BY <3>1, <3>2
  <2>8. ASSUME NEW w \in Verifications, NEW i \in Issues PROVE GuessInv(w, i)'
    <3>0. GuessInv(w, i) BY <1>1 DEF GuessesInv
    <3> SUFFICES ASSUME w \in charged'[i] PROVE GuessInv(w, i)' BY DEF GuessInv
    <3>1. CASE w # v
      <4>1. w \in charged[i] BY <1>9, <3>1
      <4>2. expected[w] = i /\ phase'[w] \notin {"idle", "read"} BY <2>1, <3>0, <3>1, <4>1
           DEF GuessInv
      <4>3. ASSUME phase'[w] = "complete", active'.id = i
            PROVE  /\ tries'[w] > 0 /\ opsUntil' >= firstRun'[w] + IdempotencyTTL
                   /\ now' <= firstRun'[w] + RepeatWithin => ops'[w] # <<>>
        <5>1. active.id = i BY <1>5, <2>5, <4>3
        <5>2. /\ tries[w] > 0 /\ opsUntil >= firstRun[w] + IdempotencyTTL
              /\ now <= firstRun[w] + RepeatWithin => ops[w] # <<>>
          BY <2>1, <3>0, <3>1, <4>1, <4>3, <5>1 DEF GuessInv
        <5>3. firstRun[w] \in Nat /\ opsUntil <= now + IdempotencyTTL
          BY <1>1 DEF ProcsType, LimitsInv, Calls
        <5>4. opsUntil' >= firstRun[w] + IdempotencyTTL
          BY <1>1, <1>4, <1>5, <1>6, <5>2, <5>3
        <5>5. now <= firstRun[w] + RepeatWithin => ops'[w] # <<>>
          BY <1>1, <1>4, <1>5, <1>6, <3>1, <5>2, <5>3
        <5> QED BY <1>3, <2>1, <3>1, <5>2, <5>4, <5>5
      <4> QED BY <4>2, <4>3 DEF GuessInv
    <3>2. CASE w = v
      <4>1. i = id
        <5>1. CASE v \in charged[i] BY <3>0, <3>2, <5>1 DEF GuessInv, id
        <5>2. CASE v \notin charged[i] BY <1>9, <3>2, <5>2
        <5> QED BY <5>1, <5>2
      <4>2. phase'[v] \notin {"idle", "read"} BY <1>2 DEF Turns, st
      <4>3. phase'[v] = "complete" => tries'[v] > 0 /\ firstRun'[v] <= now
        <5>1. firstRun[v] <= now BY <1>1 DEF LimitsInv
        <5>2. CASE phase'[v] = st BY <5>2 DEF st
        <5>3. CASE /\ tries'[v] > 0
                   /\ tries[v] > 0 => firstRun'[v] = firstRun[v]
                   /\ tries[v] = 0 => firstRun'[v] = now
          BY <1>1, <1>6, <5>1, <5>3
        <5> QED BY <1>2, <5>2, <5>3 DEF Turns
      <4>4. firstRun'[v] \in Nat BY <1>1, <1>2 DEF ProcsTurn
      <4> QED BY <1>1, <1>4, <1>5, <3>2, <4>1, <4>2, <4>3, <4>4 DEF GuessInv, id
    <3> QED BY <3>1, <3>2
  <2>9. ASSUME NEW w \in Verifications, NEW u \in Verifications, Won(w)', Won(u)', expected[w] = expected[u]
        PROVE  w = u
    <3>1. CASE w # v /\ u # v BY <1>1, <2>2, <2>9, <3>1 DEF GuessesInv
    <3>2. CASE w = v /\ u # v BY <2>2, <2>4, <2>9, <3>2 DEF id
    <3>3. CASE w # v /\ u = v BY <2>2, <2>4, <2>9, <3>3 DEF id
    <3> QED BY <3>1, <3>2, <3>3
  <2>10. \A w, u \in Verifications : Won(w)' /\ Won(u)' /\ expected'[w] = expected'[u] => w = u
    BY <2>9
  <2> QED BY <2>6, <2>7, <2>8, <2>10 DEF GuessesInv
<1> QED
  BY <1>1, <1>3, <1>4, <1>12, <1>13, <1>14, <1>15, <1>16, <1>17, ChallengeTyping,
     ChallengeInvSplits
LEMMA CompletePreserves ==
  ASSUME ChallengeInv, NEW v \in Verifications, CompleteScript(v)
  PROVE  ChallengeInv'
<1>1. /\ ChallengeTypeOK /\ GuessesInv /\ v \in Calls /\ ProcsType /\ VerdictsType
      /\ now \in Nat
  BY ChallengeInvSplits, ChallengeTyping, NumbersAreNatural DEF Calls
<1>2. /\ UNCHANGED <<pending, cooldownUntil, lastAbort, quotaAt, rateAt, expected, activatedAt, reservedAt>>
      /\ phase[v] = "complete"
  BY DEF CompleteScript
<1>3. ASSUME NEW verdict \in Verdicts, Concludes(v, verdict), verdict = "SUCCESS" => Won(v),
             UNCHANGED <<active, ops, opsUntil, charged>>
      PROVE  ChallengeInv'
  <2> DEFINE st == IF verdict = "SUCCESS" THEN "verified" ELSE "done"
  <2>1. Turns(v, st) /\ ProcsTurn BY <1>1, <1>3, AnswersTurns DEF Concludes, CallPhases
  <2>2. st \in {"done", "verified"} /\ (st = "verified" => Won(v)) BY <1>3
  <2> HIDE DEF st
  <2> QED BY <1>2, <1>3, <2>1, <2>2, VerificationKeeps
<1>4. CASE /\ Remembered(v)
           /\ Concludes(v, IF ops[v][1] = expected[v] THEN ops[v][2] ELSE "STALE")
           /\ UNCHANGED <<active, ops, opsUntil, charged>>
  <2> DEFINE verdict == IF ops[v][1] = expected[v] THEN ops[v][2] ELSE "STALE"
  <2>1. ops[v] # <<>> BY <1>4 DEF Remembered
  <2>2. ops[v] \in Issues \X Verdicts BY <1>1, <2>1 DEF VerdictsType
  <2>3. verdict \in Verdicts BY <2>2 DEF Verdicts
  <2>4. verdict = "SUCCESS" => Won(v) BY <2>1 DEF Won
  <2> QED BY <1>3, <1>4, <2>3, <2>4
<1>5. CASE Concludes(v, "STALE") /\ UNCHANGED <<active, ops, opsUntil, charged>>
  BY <1>3, <1>5 DEF Verdicts
<1>6. CASE /\ ~Remembered(v) /\ expected[v] # None /\ StillActive(expected[v])
           /\ \/ /\ active' = NoActive
                 /\ Remember(v, "EXPIRED")
                 /\ UNCHANGED charged
              \/ /\ Matched(v)
                 /\ active' = Spent
                 /\ Remember(v, "SUCCESS")
                 /\ UNCHANGED charged
              \/ /\ charged' = [charged EXCEPT ![expected[v]] = @ \cup {v}]
                 /\ IF LimitReached(active.attempts + 1)
                    THEN active' = NoActive /\ Remember(v, "LOCKED")
                    ELSE /\ active' = [active EXCEPT !.attempts = active.attempts + 1]
                         /\ Remember(v, "INVALID")
  <2>1. expected[v] \in Issues /\ active.id = expected[v]
    BY <1>1, <1>6 DEF ProcsType, StillActive
  <2>2. CASE active' = NoActive /\ Remember(v, "EXPIRED") /\ UNCHANGED charged
    BY <1>2, <1>6, <2>1, <2>2, JudgesPreserves DEF Verdicts
  <2>3. CASE Matched(v) /\ active' = Spent /\ Remember(v, "SUCCESS") /\ UNCHANGED charged
    BY <1>2, <1>6, <2>1, <2>3, JudgesPreserves DEF Verdicts, Matched, Spent
  <2>4. CASE /\ charged' = [charged EXCEPT ![expected[v]] = @ \cup {v}]
             /\ LimitReached(active.attempts + 1)
             /\ active' = NoActive /\ Remember(v, "LOCKED")
    BY <1>2, <1>6, <2>1, <2>4, JudgesPreserves DEF Verdicts
  <2>5. CASE /\ charged' = [charged EXCEPT ![expected[v]] = @ \cup {v}]
             /\ ~LimitReached(active.attempts + 1)
             /\ active' = [active EXCEPT !.attempts = active.attempts + 1]
             /\ Remember(v, "INVALID")
    BY <1>2, <1>6, <2>1, <2>5, JudgesPreserves DEF Verdicts
  <2> QED BY <1>6, <2>2, <2>3, <2>4, <2>5
<1> QED BY <1>4, <1>5, <1>6 DEF CompleteScript

(* A window only loses members as time passes.                             *)
LEMMA TimePreserves == ASSUME ChallengeInv, TimePasses PROVE ChallengeInv'
<1>1. /\ ChallengeTypeOK /\ LimitsInv /\ IssuesInv /\ GuessesInv /\ ProcsType
      /\ now \in Nat /\ now \in Start..MaxTime /\ CountsType /\ VerdictsType /\ CodesType
  BY ChallengeInvSplits, ChallengeTyping, NumbersAreNatural
<1>2. /\ now' = now + 1 /\ now < MaxTime
      /\ UNCHANGED <<pending, active, cooldownUntil, lastAbort, quotaAt, rateAt, ops, opsUntil>>
      /\ UNCHANGED <<phase, tries, firstRun, expected, activatedAt, reservedAt, charged>>
  BY DEF TimePasses, store, procs, history
<1>3. now' \in Start..MaxTime BY <1>1, <1>2, NumbersAreNatural
<1>4. ProcsType' BY <1>1, <1>2 DEF ProcsType
<1>5. CountsType' BY <1>1, <1>2 DEF CountsType
<1>6. VerdictsType' BY <1>1, <1>2 DEF VerdictsType
<1>7. CodesType' BY <1>1, <1>2 DEF CodesType
<1>8. IssuesInv'
  <2> SUFFICES ASSUME NEW i \in Issues PROVE IssueInv(i)' BY DEF IssuesInv
  <2>1. IssueInv(i) /\ quotaAt[i] \in Nat BY <1>1 DEF IssuesInv, CountsType
  <2> QED BY <1>1, <1>2, <2>1 DEF IssueInv
<1>9. LimitsInv'
  <2>1. /\ QuotaWindow \in Nat /\ CallerWindow \in Nat /\ GlobalWindow \in Nat /\ IdempotencyTTL \in Nat
        /\ MaxIssues \in Nat /\ CallerLimit \in Nat /\ GlobalLimit \in Nat
    BY NumbersAreNatural
  <2>2. ASSUME NEW at, at \in Nat, NEW w \in Nat, InWindow(at, w)' PROVE InWindow(at, w)
    BY <1>1, <1>2, <2>2 DEF InWindow
  <2>3. Members(quotaAt, QuotaWindow, Issues)' \subseteq Members(quotaAt, QuotaWindow, Issues)
    BY <1>1, <1>2, <2>1 DEF Members, InWindow, CountsType
  <2>4. Members(rateAt, GlobalWindow, Issues)' \subseteq Members(rateAt, GlobalWindow, Issues)
    BY <1>1, <1>2, <2>1 DEF Members, InWindow, CountsType
  <2>5. RatesAreKept BY <1>1 DEF LimitsInv
  <2>6. ASSUME NEW i \in Issues
        PROVE  /\ Cardinality(Members(rateAt, CallerWindow, SameCaller(i))') <= CallerLimit
               /\ phase'[i] = "limited" => ~InWindow(rateAt[i], CallerWindow)'
    <3>1. Members(rateAt, CallerWindow, SameCaller(i))' \subseteq Members(rateAt, CallerWindow, SameCaller(i))
      BY <1>1, <1>2, <2>1 DEF Members, InWindow, CountsType, SameCaller
    <3>2. Cardinality(Members(rateAt, CallerWindow, SameCaller(i))) <= CallerLimit
      BY <2>5 DEF RatesAreKept
    <3>3. IsFiniteSet(Members(rateAt, CallerWindow, SameCaller(i)))
      <4>1. SameCaller(i) \in SUBSET Issues BY DEF SameCaller
      <4> QED BY <4>1, MembersAreFinite
    <3>4. phase[i] = "limited" => ~InWindow(rateAt[i], CallerWindow) BY <2>5 DEF RatesAreKept
    <3>5. ~InWindow(rateAt[i], CallerWindow) => ~InWindow(rateAt[i], CallerWindow)'
      <4>1. rateAt[i] \in Nat BY <1>1 DEF CountsType
      <4> QED BY <1>1, <1>2, <2>1, <4>1 DEF InWindow
    <3> QED BY <1>2, <2>1, <3>1, <3>2, <3>3, <3>4, <3>5, NoMore
  <2>7. Cardinality(Members(rateAt, GlobalWindow, Issues)') <= GlobalLimit
    <3>1. Cardinality(Members(rateAt, GlobalWindow, Issues)) <= GlobalLimit BY <2>5
         DEF RatesAreKept
    <3> QED BY <2>1, <2>4, <3>1, MembersAreFinite, NoMore
  <2>8. Cardinality(Members(quotaAt, QuotaWindow, Issues)') <= MaxIssues
    <3>1. Cardinality(Members(quotaAt, QuotaWindow, Issues)) <= MaxIssues BY <1>1 DEF LimitsInv
    <3> QED BY <2>1, <2>3, <3>1, MembersAreFinite, NoMore
  <2>9. RatesAreKept' BY <2>6, <2>7 DEF RatesAreKept
  <2>10. /\ pending'.id # None => cooldownUntil' <= now'
         /\ opsUntil' <= now' + IdempotencyTTL /\ \A p \in Calls : firstRun'[p] <= now'
    BY <1>1, <1>2, <2>1 DEF LimitsInv, CodesType, VerdictsType, ProcsType
  <2> QED BY <2>8, <2>9, <2>10 DEF LimitsInv
<1>10. GuessesInv'
  <2>1. \A v \in Verifications : Won(v)' <=> Won(v) BY <1>2 DEF Won
  <2>2. \A v \in Verifications : WinnerInv(v)' BY <1>1, <1>2, <2>1 DEF GuessesInv, WinnerInv
  <2>3. \A v \in Verifications : VerdictInv(v)' BY <1>1, <1>2 DEF GuessesInv, VerdictInv
  <2>4. ASSUME NEW v \in Verifications, NEW i \in Issues PROVE GuessInv(v, i)'
    <3>1. GuessInv(v, i) /\ firstRun[v] \in Nat /\ RepeatWithin \in Nat
      BY <1>1, NumbersAreNatural DEF GuessesInv, ProcsType, Calls
    <3> QED BY <1>1, <1>2, <3>1 DEF GuessInv
  <2> QED BY <1>1, <1>2, <2>1, <2>2, <2>3, <2>4 DEF GuessesInv
<1> QED BY <1>3, <1>4, <1>5, <1>6, <1>7, <1>8, <1>9, <1>10, ChallengeTyping, ChallengeInvSplits

LEMMA ChallengeStays == ASSUME ChallengeInv, UNCHANGED challengeVars PROVE ChallengeInv'
<1>1. /\ ChallengeTypeOK /\ LimitsInv /\ IssuesInv /\ GuessesInv /\ ProcsType
      /\ now \in Start..MaxTime /\ CountsType /\ VerdictsType /\ CodesType
  BY ChallengeInvSplits, ChallengeTyping
<1>2. /\ UNCHANGED <<now, pending, active, cooldownUntil, lastAbort, quotaAt, rateAt, ops, opsUntil>>
      /\ UNCHANGED <<phase, tries, firstRun, expected, activatedAt, reservedAt, charged>>
  BY DEF challengeVars, store, procs, history
<1>3. ProcsType' BY <1>1, <1>2 DEF ProcsType
<1>4. CountsType' BY <1>1, <1>2 DEF CountsType
<1>5. VerdictsType' BY <1>1, <1>2 DEF VerdictsType
<1>6. CodesType' BY <1>1, <1>2 DEF CodesType
<1>7. IssuesInv' BY <1>1, <1>2 DEF IssuesInv, IssueInv
<1>8. LimitsInv'
  <2>1. Members(quotaAt, QuotaWindow, Issues)' = Members(quotaAt, QuotaWindow, Issues)
    BY <1>2 DEF Members, InWindow
  <2>2. RatesAreKept'
    <3>1. RatesAreKept BY <1>1 DEF LimitsInv
    <3> QED BY <1>2, <3>1 DEF RatesAreKept, Members, InWindow, SameCaller
  <2> QED BY <1>1, <1>2, <2>1, <2>2 DEF LimitsInv
<1>9. GuessesInv'
  <2>1. \A v \in Verifications : Won(v)' <=> Won(v) BY <1>2 DEF Won
  <2> QED BY <1>1, <1>2, <2>1 DEF GuessesInv, WinnerInv, VerdictInv, GuessInv
<1> QED BY <1>1, <1>2, <1>3, <1>4, <1>5, <1>6, <1>7, <1>8, <1>9, ChallengeTyping,
     ChallengeInvSplits

LEMMA ChallengeStepPreserves == ChallengeInv /\ [ChallengeNext]_challengeVars => ChallengeInv'
<1> SUFFICES ASSUME ChallengeInv, [ChallengeNext]_challengeVars PROVE ChallengeInv'
  OBVIOUS
<1>1. ASSUME NEW i \in Issues,
             Issue(i) \/ Send(i) \/ RateScript(i) \/ BeginScript(i) \/ CommitScript(i) \/ AbortScript(i)
      PROVE  ChallengeInv'
  <2>1. CASE Issue(i) BY <2>1, IssueMovesPreserves DEF Issue
  <2>2. CASE Send(i) BY <2>2, IssueMovesPreserves DEF Send
  <2> QED BY <1>1, <2>1, <2>2, RatePreserves, BeginPreserves, CommitPreserves, AbortPreserves
<1>2. ASSUME NEW v \in Verifications, VerifyCall(v) \/ ReadScript(v) \/ CompleteScript(v)
      PROVE  ChallengeInv'
  <2>1. CASE VerifyCall(v) BY <2>1, VerificationMovesPreserves DEF VerifyCall
  <2> QED BY <1>2, <2>1, ReadPreserves, CompletePreserves
<1>3. ASSUME NEW p \in Calls, StopsShort(p) PROVE ChallengeInv'
  <2>1. CASE p \in Issues BY <1>3, <2>1, IssueMovesPreserves DEF StopsShort
  <2>2. CASE p \in Verifications BY <1>3, <2>2, VerificationMovesPreserves DEF StopsShort
  <2> QED BY <2>1, <2>2 DEF Calls
<1> QED BY <1>1, <1>2, <1>3, TimePreserves, ChallengeStays DEF ChallengeNext

LEMMA ChallengeInvIsSound ==
  ChallengeInv => ChallengeTypeOK /\ VerifiesOnce /\ GuessesAreBounded /\ QuotaIsKept /\ RatesAreKept
<1> SUFFICES ASSUME ChallengeInv
             PROVE  ChallengeTypeOK /\ VerifiesOnce /\ GuessesAreBounded /\ QuotaIsKept /\ RatesAreKept
  OBVIOUS
<1>1. /\ ChallengeTypeOK /\ LimitsInv /\ IssuesInv /\ GuessesInv /\ ProcsType
      /\ now \in Nat /\ now \in Start..MaxTime /\ CountsType /\ VerdictsType /\ CodesType
  BY ChallengeInvSplits, ChallengeTyping, NumbersAreNatural
<1>2. VerifiesOnce
  <2> SUFFICES ASSUME NEW i \in Issues
               PROVE  Cardinality({v \in Verifications : phase[v] = "verified" /\ expected[v] = i}) <= 1
    BY DEF VerifiesOnce
  <2> DEFINE W == {v \in Verifications : phase[v] = "verified" /\ expected[v] = i}
  <2>1. \A v, w \in W : v = w BY <1>1 DEF GuessesInv, Won
  <2>2. CASE W = {} BY <2>2, FS_EmptySet
  <2>3. CASE W # {}
    <3>1. PICK v \in W : TRUE BY <2>3
    <3>2. W = {v} BY <2>1, <3>1
    <3> QED BY <3>2, FS_Singleton
  <2> QED BY <2>2, <2>3
<1>3. GuessesAreBounded
  <2>1. \A i \in Issues : Cardinality(charged[i]) <= MaxGuesses BY <1>1 DEF IssuesInv, IssueInv
  <2>2. active.id # None => active.attempts = Cardinality(charged[active.id])
    BY <1>1 DEF CodesType, IssuesInv, IssueInv
  <2>3. ASSUME NEW v \in Verifications, NEW i \in Issues, ops[v] = <<i, "LOCKED">>
        PROVE  Cardinality(charged[i]) = MaxGuesses
    <3>1. ops[v] # <<>> /\ ops[v][1] = i /\ ops[v][2] = "LOCKED" BY <2>3
    <3> QED BY <1>1, <3>1 DEF GuessesInv, VerdictInv
  <2> QED BY <2>1, <2>2, <2>3 DEF GuessesAreBounded
<1>4. QuotaIsKept
  <2> DEFINE T == {i \in Issues : reservedAt[i] # 0 /\ InWindow(reservedAt[i], QuotaWindow)}
  <2>1. QuotaWindow \in Nat /\ MaxIssues \in Nat BY NumbersAreNatural
  <2>2. T \subseteq Members(quotaAt, QuotaWindow, Issues)
    BY <1>1, <2>1 DEF Members, InWindow, IssuesInv, IssueInv, CountsType
  <2>3. Cardinality(Members(quotaAt, QuotaWindow, Issues)) <= MaxIssues BY <1>1 DEF LimitsInv
  <2>4. IsFiniteSet(Members(quotaAt, QuotaWindow, Issues)) BY MembersAreFinite
  <2>5. Cardinality(T) <= MaxIssues
    <3> HIDE DEF T
    <3> QED BY <2>1, <2>2, <2>3, <2>4, NoMore
  <2> QED BY <2>5 DEF QuotaIsKept
<1> QED BY <1>1, <1>2, <1>3, <1>4 DEF LimitsInv
-----------------------------------------------------------------------------
(* What a step may not do                                                  *)

LEMMA SuccessNeedsItsCode ==
  ASSUME ChallengeInv, [ChallengeNext]_challengeVars, NEW v \in Verifications,
         phase[v] # "verified", phase'[v] = "verified"
  PROVE  \/ active.id = CodeOf[v] /\ active' = NoActive
         \/ ops[v] = <<CodeOf[v], "SUCCESS">>
<1>1. /\ GuessesInv /\ ProcsType /\ VerdictsType /\ now \in Nat /\ v \in Calls
      /\ v \notin Issues
  BY ChallengeInvSplits, ChallengeTyping, NumbersAreNatural, ChallengeAssumption DEF Calls
<1>2. \A p \in Calls, st \in CallPhases : Turns(p, st) => p = v /\ st = "verified"
  BY <1>1 DEF Turns
<1>3. \A p \in Calls, st \in CallPhases : Answers(p, st) \/ Moves(p, st) => p = v /\ st = "verified"
  BY <1>1, <1>2, AnswersTurns, MovesTurns
<1>4. ~UNCHANGED phase OBVIOUS
<1>5. \A i \in Issues : ~Issue(i) /\ ~Send(i) BY <1>1, <1>3 DEF Issue, Send, CallPhases, Calls
<1>6. ASSUME NEW i \in Issues PROVE ~RateScript(i)
  <2>1. \A st \in CallPhases : ~Answers(i, st) BY <1>1, <1>3 DEF Calls
  <2>2. {"begin", "done", "limited"} \subseteq CallPhases BY DEF CallPhases
  <2> QED BY <2>1, <2>2 DEF RateScript
<1>7. ASSUME NEW i \in Issues PROVE ~BeginScript(i) /\ ~CommitScript(i) /\ ~AbortScript(i)
  <2>1. \A st \in CallPhases : ~Answers(i, st) BY <1>1, <1>3 DEF Calls
  <2>2. {"send", "done"} \subseteq CallPhases BY DEF CallPhases
  <2>3. ~BeginScript(i)
    <3>1. BeginScript(i) => \E st \in {"send", "done"} : Answers(i, st) BY DEF BeginScript
    <3> QED BY <2>1, <2>2, <3>1
  <2> QED BY <2>1, <2>2, <2>3 DEF CommitScript, AbortScript
<1>8. \A u \in Verifications : ~VerifyCall(u) /\ ~ReadScript(u)
  BY <1>3 DEF VerifyCall, ReadScript, CallPhases, Calls
<1>9. \A p \in Calls : ~StopsShort(p) BY <1>3 DEF StopsShort, CallPhases
<1>10. ~TimePasses /\ ~UNCHANGED challengeVars
  BY <1>4 DEF TimePasses, procs, challengeVars
<1>11. PICK u \in Verifications : CompleteScript(u)
  BY <1>5, <1>6, <1>7, <1>8, <1>9, <1>10 DEF ChallengeNext
<1>12. ASSUME NEW verdict \in Verdicts, Concludes(u, verdict) PROVE u = v /\ verdict = "SUCCESS"
  <2>1. u \in Calls /\ {"done", "verified"} \subseteq CallPhases BY DEF Calls, CallPhases
  <2> QED BY <1>3, <1>12, <2>1 DEF Concludes
<1>13. CASE Remembered(u) /\ Concludes(u, IF ops[u][1] = expected[u] THEN ops[u][2] ELSE "STALE")
  <2>1. ops[u] \in Issues \X Verdicts BY <1>1, <1>13 DEF VerdictsType, Remembered
  <2>2. (IF ops[u][1] = expected[u] THEN ops[u][2] ELSE "STALE") \in Verdicts BY <2>1 DEF Verdicts
  <2>3. u = v /\ ops[v][1] = expected[v] /\ ops[v][2] = "SUCCESS" BY <1>12, <1>13, <2>2
  <2>4. ops[v] = <<expected[v], "SUCCESS">> /\ ops[v] # <<>> BY <2>1, <2>3
  <2>5. Won(v) BY <2>3, <2>4 DEF Won
  <2> QED BY <1>1, <2>4, <2>5 DEF GuessesInv, WinnerInv
<1>14. CASE Concludes(u, "STALE") BY <1>12, <1>14 DEF Verdicts
<1>15. CASE /\ StillActive(expected[u])
            /\ \/ Remember(u, "EXPIRED")
               \/ Matched(u) /\ active' = Spent /\ Remember(u, "SUCCESS")
               \/ Remember(u, "LOCKED")
               \/ Remember(u, "INVALID")
  <2>1. \A w \in Verdicts : Remember(u, w) => u = v /\ w = "SUCCESS" BY <1>12 DEF Remember
  <2>2. Matched(u) /\ active' = Spent /\ u = v
    BY <1>15, <2>1 DEF Verdicts
  <2> QED BY <1>15, <2>2 DEF Matched, Spent, StillActive
<1> QED BY <1>11, <1>13, <1>14, <1>15 DEF CompleteScript

LEMMA AnswerShows ==
  ASSUME ProcsType, NEW i \in Issues, Answers(i, "done")
  PROVE  phase'[i] = "done" \/ tries'[i] # tries[i]
<1>1. i \in Calls /\ tries[i] \in Nat BY NumbersAreNatural DEF ProcsType, Calls
<1> QED BY <1>1 DEF ProcsType, Answers

LEMMA ReservationEndsByItsIssuer ==
  ASSUME ChallengeInv, [ChallengeNext]_challengeVars, NEW i \in Issues,
         pending.id = i, Live, pending'.id # i
  PROVE  phase[i] \in {"commit", "abort"} /\ (phase'[i] = "done" \/ tries'[i] # tries[i])
<1>1. ProcsType BY ChallengeInvSplits, ChallengeTyping
<1>2. ~UNCHANGED pending OBVIOUS
<1>3. \A p, st : ~Moves(p, st) BY <1>2 DEF Moves, store
<1>4. \A j \in Issues : ~Issue(j) /\ ~Send(j) /\ ~RateScript(j) BY <1>2, <1>3 DEF Issue, Send,
     RateScript
<1>5. \A v \in Verifications : ~VerifyCall(v) /\ ~ReadScript(v) /\ ~CompleteScript(v)
  BY <1>2, <1>3 DEF VerifyCall, ReadScript, CompleteScript, store
<1>6. (\A p \in Calls : ~StopsShort(p)) /\ ~TimePasses /\ ~UNCHANGED challengeVars
  BY <1>2, <1>3 DEF StopsShort, TimePasses, challengeVars, store
<1>7. \A j \in Issues : ~BeginScript(j) BY <1>2 DEF BeginScript
<1>8. PICK j \in Issues : CommitScript(j) \/ AbortScript(j)
  BY <1>4, <1>5, <1>6, <1>7 DEF ChallengeNext
<1>9. j = i /\ phase[i] \in {"commit", "abort"} /\ Answers(i, "done")
  BY <1>2, <1>8 DEF CommitScript, AbortScript, Aborts
<1> QED BY <1>1, <1>9, AnswerShows

LEMMA ActivationFollowsCooldown ==
  ASSUME ChallengeInv, [ChallengeNext]_challengeVars, NEW i \in Issues,
         activatedAt'[i] # activatedAt[i], NEW j \in Issues, activatedAt[j] # 0
  PROVE  now >= activatedAt[j] + Cooldown
<1>1. /\ LimitsInv /\ IssuesInv /\ now \in Nat /\ CountsType /\ CodesType
  BY ChallengeInvSplits, ChallengeTyping, NumbersAreNatural
<1>2. ~UNCHANGED activatedAt OBVIOUS
<1>3. \A p, st : ~Moves(p, st) BY <1>2 DEF Moves, history
<1>4. \A k \in Issues : /\ ~Issue(k) /\ ~Send(k) /\ ~RateScript(k)
                        /\ ~BeginScript(k) /\ ~AbortScript(k)
  BY <1>2, <1>3 DEF Issue, Send, RateScript, BeginScript, AbortScript, history
<1>5. \A v \in Verifications : ~VerifyCall(v) /\ ~ReadScript(v) /\ ~CompleteScript(v)
  BY <1>2, <1>3 DEF VerifyCall, ReadScript, CompleteScript, history
<1>6. (\A p \in Calls : ~StopsShort(p)) /\ ~TimePasses /\ ~UNCHANGED challengeVars
  BY <1>2, <1>3 DEF StopsShort, TimePasses, challengeVars, history
<1>7. PICK k \in Issues : CommitScript(k)
  BY <1>4, <1>5, <1>6 DEF ChallengeNext
<1>8. pending.id = k BY <1>2, <1>7 DEF CommitScript
<1>9. cooldownUntil <= now BY <1>1, <1>8, ChallengeAssumption DEF LimitsInv
<1>10. activatedAt[j] + Cooldown <= cooldownUntil BY <1>1 DEF IssuesInv, IssueInv
<1>11. activatedAt[j] \in Nat /\ cooldownUntil \in Nat /\ Cooldown \in Nat
  BY <1>1, NumbersAreNatural DEF CountsType, CodesType
<1> QED BY <1>1, <1>9, <1>10, <1>11

(* However issues, verifications, lost answers and the clock interleave,   *)
(* one code verifies once, guesses, reservations and rates keep to their   *)
(* limits, a success consumes the code it was given for, and activations   *)
(* are a cooldown apart.                                                   *)
THEOREM ChallengeSafe == ChallengeSpec => []ChallengeTypeOK /\ ChallengeIsSound
<1> DEFINE Code == \A v \in Verifications : phase[v] # "verified" /\ phase'[v] = "verified" =>
                      \/ active.id = CodeOf[v] /\ active' = NoActive
                      \/ ops[v] = <<CodeOf[v], "SUCCESS">>
           Reservation == \A i \in Issues : pending.id = i /\ Live /\ pending'.id # i =>
                      phase[i] \in {"commit", "abort"} /\ (phase'[i] = "done" \/ tries'[i] # tries[i])
           Spaced == \A i \in Issues : activatedAt'[i] # activatedAt[i] =>
                      \A j \in Issues : activatedAt[j] # 0 => now >= activatedAt[j] + Cooldown
<1>1. ChallengeInv /\ [ChallengeNext]_challengeVars => [Code]_challengeVars
  BY SuccessNeedsItsCode
<1>2. ChallengeInv /\ [ChallengeNext]_challengeVars => [Reservation]_challengeVars
  BY ReservationEndsByItsIssuer
<1>3. ChallengeInv /\ [ChallengeNext]_challengeVars => [Spaced]_challengeVars
  BY ActivationFollowsCooldown
<1>4. (SuccessConsumesItsCode <=> [][Code]_challengeVars)
      /\ (ReservationIsProtected <=> [][Reservation]_challengeVars)
      /\ (ActivationsAreSpaced <=> [][Spaced]_challengeVars)
  BY DEF SuccessConsumesItsCode, ReservationIsProtected, ActivationsAreSpaced
<1> HIDE DEF Code, Reservation, Spaced
<1>5. ChallengeSpec => []ChallengeInv
  BY ChallengeInitially, ChallengeStepPreserves, PTL DEF ChallengeSpec
<1>6. ChallengeSpec => [](VerifiesOnce /\ GuessesAreBounded /\ QuotaIsKept /\ RatesAreKept) /\ []ChallengeTypeOK
  BY <1>5, ChallengeInvIsSound, PTL
<1> QED BY <1>1, <1>2, <1>3, <1>4, <1>5, <1>6, PTL DEF ChallengeIsSound, ChallengeSpec

-----------------------------------------------------------------------------
(* All services beside each other.                                         *)

\* Whichever service a behaviour of MCServers shows, every other sees only steps
\* that leave it where it is.
LEMMA EachSeesItsOwnSteps ==
  ASSUME [ServersNext]_serversVars
  PROVE  /\ [RedisNext]_redisVars /\ [ServerNext]_serverVars /\ [TaskNext]_taskVars
         /\ [HubNext]_hubVars /\ [PolicyNext]_policyVars /\ [ChallengeNext]_challengeVars
         /\ [ConfigNext]_configVars /\ [KafkaNext]_kafkaVars /\ [EventNext]_eventVars
         /\ subject' = subject
<1>1. CASE UNCHANGED serversVars BY ONLY <1>1 DEF serversVars
<1>2. CASE ServersNext BY ONLY <1>2 DEF ServersNext
<1> QED BY <1>1, <1>2

\* What each service keeps; the tasks have no state to speak of where they rest.
ServersInv ==
  /\ RedisInv /\ ServerInv /\ HubInv /\ PolicyInv /\ ChallengeInv /\ ConfigInv /\ KafkaInv
  /\ EventInv
  /\ subject \in Subjects /\ (subject = "tasks" => TaskInv)

LEMMA ServersInitially == ServersInit => ServersInv
<1> SUFFICES ASSUME ServersInit PROVE ServersInv
  OBVIOUS
<1>1. /\ RedisInit /\ ServerInit /\ HubInit /\ PolicyInit /\ ChallengeInit /\ ConfigInit
      /\ KafkaInit /\ EventInit
      /\ subject \in Subjects /\ (subject = "tasks" => TaskInit)
  BY DEF ServersInit
<1> QED BY ONLY <1>1, RedisInitially, ServerInitially, TaskInitially, HubInitially,
           PolicyInitially, ChallengeInitially, ConfigInitially, KafkaInitially,
           EventInitially DEF ServersInv

LEMMA ServersStepPreserves == ServersInv /\ [ServersNext]_serversVars => ServersInv'
<1> SUFFICES ASSUME ServersInv, [ServersNext]_serversVars PROVE ServersInv'
  OBVIOUS
<1>1. RedisInv' /\ ServerInv' /\ HubInv'
  BY EachSeesItsOwnSteps, RedisStepPreserves, ServerStepPreserves, HubStepPreserves
     DEF ServersInv
<1>2. PolicyInv' /\ ChallengeInv' /\ ConfigInv'
  BY EachSeesItsOwnSteps, PolicyStepPreserves, ChallengeStepPreserves, ConfigPreserves
     DEF ServersInv
<1>3. KafkaInv' /\ EventInv'
  BY EachSeesItsOwnSteps, KafkaStepPreserves, EventStepPreserves DEF ServersInv
<1>4. subject' \in Subjects /\ (subject' = "tasks" => TaskInv')
  BY EachSeesItsOwnSteps, TaskStepPreserves DEF ServersInv
<1> QED BY <1>1, <1>2, <1>3, <1>4 DEF ServersInv

LEMMA ServersInvariance == ServersSafeSpec => []ServersInv
<1> QED BY ServersInitially, ServersStepPreserves, PTL DEF ServersSafeSpec

\* Type correctness of every reachable state of the service that acts.
THEOREM ServersTypeCorrect == ServersSafeSpec => []ServersTypeOK
<1>1. ServersInv => ServersTypeOK
  <2> SUFFICES ASSUME ServersInv PROVE ServersTypeOK
    OBVIOUS
  <2>1. RedisTypeOK /\ HubTypeOK /\ PolicyTypeOK BY DEF ServersInv, RedisInv, HubInv, PolicyInv
  <2>2. ServerTypeOK /\ ConfigTypeOK
    BY ServerInvIsSound, ConfigInvIsSafe DEF ServersInv
  <2>3. ChallengeTypeOK /\ KafkaTypeOK /\ EventTypeOK
    BY ChallengeInvIsSound, KafkaInvIsSafe, EventInvIsSound DEF ServersInv
  <2>4. subject = "tasks" => TaskTypeOK
    BY DEF ServersInv, TaskInv, TablesInv, TablesType, CallsType, TaskTypeOK
  <2> QED BY <2>1, <2>2, <2>3, <2>4 DEF ServersTypeOK
<1> QED BY <1>1, ServersInvariance, PTL

\* A failure the manager heard of is part of what it answers, and nobody works on
\* a database, a queue or a storage that the configuration has closed, nor is one
\* left that nobody owns.
THEOREM LifecycleSafe == ServersSafeSpec => []LifecycleIsSafe
<1>1. ServersInv => LifecycleIsSafe
  BY ServerInvIsSound, ConfigInvIsSafe DEF ServersInv, LifecycleIsSafe
<1> QED BY <1>1, ServersInvariance, PTL

\* Nobody sends on or closes a channel of the hub that is closed; no message is
\* sent on a closed producer or marked unhandled; and the policy publishes only to
\* a bus that is started.
THEOREM MessagingSafe == ServersSafeSpec => []MessagingIsSafe
<1>1. ServersInv => MessagingIsSafe
  BY KafkaInvIsSafe, EventInvIsSound DEF ServersInv, HubInv, MessagingIsSafe
<1> QED BY <1>1, ServersInvariance, PTL

\* No step verifies a code that is not the active one's, ends another's
\* reservation, activates within a cooldown, withdraws the database before what
\* uses it, or sends an error on a closed channel.
THEOREM StepsAreSafe == ServersSafeSpec => StepsAreSound
<1>1. ServersInit => ChallengeInit BY DEF ServersInit
<1>2. [ServersNext]_serversVars => [ChallengeNext]_challengeVars BY EachSeesItsOwnSteps
<1>3. ServersSafeSpec => ChallengeIsSound
  BY <1>1, <1>2, ChallengeSafe, PTL DEF ServersSafeSpec, ChallengeSpec
<1>4. ServersSafeSpec => DatabaseGoesLast
  <2>1. ServersInit => ConfigInit BY DEF ServersInit
  <2>2. [ServersNext]_serversVars => [ConfigNext]_configVars BY EachSeesItsOwnSteps
  <2> QED BY <2>1, <2>2, ConfigInitially, ConfigPreserves, WithdrawalComesLast, PTL
          DEF ServersSafeSpec, DatabaseGoesLast
<1>5. ServersSafeSpec => ErrorChannelIsRespected
  <2>1. ServersInit => KafkaInit BY DEF ServersInit
  <2>2. [ServersNext]_serversVars => [KafkaNext]_kafkaVars BY EachSeesItsOwnSteps
  <2> QED BY <2>1, <2>2, KafkaInitially, KafkaStepPreserves, KafkaStepRespectsChannel, PTL
          DEF ServersSafeSpec, ErrorChannelIsRespected
<1> QED BY <1>3, <1>4, <1>5 DEF StepsAreSound
=============================================================================
