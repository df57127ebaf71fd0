---------------------------- MODULE DerivedCache ----------------------------
(***************************************************************************)
(* The derived cache of mss-boot/runtime/cache: several instances (one per *)
(* process) keep copies of query results of ONE dataset in a shared        *)
(* provider, under a generation that Invalidate replaces.  Every lock      *)
(* region, provider command and loader run of the code is one step, so     *)
(* that loads, invalidations, repairs and Close interleave as goroutines   *)
(* do.                                                                     *)
(*                                                                         *)
(* Each caller makes one call.  Its name also stands for what the call     *)
(* creates: the flight of a Load that found none to join, and the random   *)
(* token of an Invalidate.  A result is the version of the authority (the  *)
(* database) it was read from.                                             *)
(***************************************************************************)
EXTENDS Naturals, FiniteSets

CONSTANTS
  Instances,    \* the Derived values, one per process
  Queries,      \* query identities of the dataset
  Callers,      \* the calls, one each
  Call,         \* what a caller calls: "load", "bypass", "invalidate", "close"
  At,           \* the instance it calls
  Asks,         \* the query of a load
  Impatient,    \* callers whose context may be cancelled
  Faulty,       \* whether provider commands may fail by themselves
  Base,         \* baseGeneration, what a missing generation key means
  None,         \* no token, no entry, no version
  MaxVersion    \* bound on the commits to the authority

ASSUME CallersAssumption == IsFiniteSet(Callers)
ASSUME CallAssumption == Call \in [Callers -> {"load", "bypass", "invalidate", "close"}]
ASSUME AtAssumption == At \in [Callers -> Instances] /\ Asks \in [Callers -> Queries]
ASSUME BaseAssumption == Base \notin Callers /\ None \notin Callers \cup {Base}
ASSUME NoneAssumption == None \notin Nat
ASSUME FaultyAssumption == Faulty \in BOOLEAN /\ MaxVersion \in Nat

VARIABLES
  authority,    \* number of committed writes to the database
  generation,   \* the generation key of the dataset in the provider
  entries,      \* the entries in the provider, by query and generation
  closed,       \* Derived.closed, which also stands for the cancelled life
  drained,      \* Derived.drain is closed
  active,       \* Derived.active
  epoch,        \* Derived.epochs of the dataset
  pending,      \* Derived.pending of the dataset
  flight,       \* the flight a Load created
  pc,           \* where a caller is
  joined,       \* the flight a Load waits for
  result,       \* what a call returned: a status or an error
  value,        \* the version a Load returned
  cancelled,    \* the caller's context
  floor,        \* history: the authority when an invalidation took its token
  turn,         \* history: the rank of that token on its instance, 0 for none
  written,      \* history: the tokens the provider acknowledged
  after,        \* history: the invalidations a Load must observe
  joinedDead    \* history: loads that joined a flight already cancelled

provider == <<generation, entries>>
local == <<closed, drained, active, epoch, pending>>
caller == <<pc, joined, result, value, cancelled>>
history == <<floor, turn, written, after, joinedDead>>
vars == <<authority, provider, local, flight, caller, history>>

Tokens == Callers \cup {Base}
Versions == Nat
Loads == {"hit", "stored", "bypass", "large", "transaction"}
Verdicts == Loads \cup {"none", "invalidated", "nil", "canceled", "error", "closed"}
FlightPCs == {"none", "pending", "repair", "clear", "generation", "read", "load",
              "authority", "store", "end", "done"}

Flights == [pc : FlightPCs, epoch : Nat, gen : Tokens, data : Versions \cup {None},
            verdict : Verdicts, cancelled : BOOLEAN]
NoFlight == [pc |-> "none", epoch |-> 0, gen |-> Base, data |-> None,
             verdict |-> "none", cancelled |-> FALSE]

TypeOK ==
  /\ authority \in Versions
  /\ generation \in Tokens
  /\ entries \in [Queries -> [Tokens -> Versions \cup {None}]]
  /\ closed \in [Instances -> BOOLEAN] /\ drained \in [Instances -> BOOLEAN]
  /\ active \in [Instances -> Nat] /\ epoch \in [Instances -> Nat]
  /\ pending \in [Instances -> Callers \cup {None}]
  /\ flight \in [Callers -> Flights]
  /\ pc \in [Callers -> {"idle", "wait", "bump", "set", "clear", "authority",
                         "finish", "drain", "returned"}]
  /\ joined \in [Callers -> Callers \cup {None}]
  /\ result \in [Callers -> Verdicts]
  /\ value \in [Callers -> Versions \cup {None}]
  /\ cancelled \in [Callers -> BOOLEAN]
  /\ floor \in [Callers -> Versions \cup {None}]
  /\ turn \in [Callers -> Nat] /\ written \in SUBSET Callers
  /\ after \in [Callers -> SUBSET Callers]
  /\ joinedDead \in SUBSET Callers

Init ==
  /\ authority = 0 /\ generation = Base
  /\ entries = [q \in Queries |-> [t \in Tokens |-> None]]
  /\ closed = [i \in Instances |-> FALSE] /\ drained = [i \in Instances |-> FALSE]
  /\ active = [i \in Instances |-> 0] /\ epoch = [i \in Instances |-> 0]
  /\ pending = [i \in Instances |-> None]
  /\ flight = [c \in Callers |-> NoFlight]
  /\ pc = [c \in Callers |-> "idle"] /\ joined = [c \in Callers |-> None]
  /\ result = [c \in Callers |-> "none"] /\ value = [c \in Callers |-> None]
  /\ cancelled = [c \in Callers |-> FALSE]
  /\ floor = [c \in Callers |-> None] /\ turn = [c \in Callers |-> 0]
  /\ written = {} /\ after = [c \in Callers |-> {}]
  /\ joinedDead = {}

-----------------------------------------------------------------------------
(* Flights and the close boundary *)

Running(f) == flight[f].pc \notin {"none", "done"}

ExistingNever(c) == {}
\* The flight acquireFlight finds under the caller's flight identifier.
Existing(c) == {f \in Callers : /\ Running(f)
                                /\ At[f] = At[c] /\ Asks[f] = Asks[c]
                                /\ flight[f].epoch = epoch[At[c]]}


Waiters(f) == {c \in Callers : pc[c] = "wait" /\ joined[c] = f}

\* active-- and the close of the drain channel, in runFlight and in finish.
DrainsEarly(i, isClosed, left) == drained' = [drained EXCEPT ![i] = @ \/ isClosed]
DrainIf(i, isClosed, left) ==
  drained' = [drained EXCEPT ![i] = @ \/ (isClosed /\ left = 0)]

DeactivateSilently(i) == active' = [active EXCEPT ![i] = @ - 1] /\ UNCHANGED drained
Deactivate(i) ==
  /\ active' = [active EXCEPT ![i] = @ - 1]
  /\ DrainIf(i, closed[i], active[i] - 1)

Return(c, r) == /\ pc' = [pc EXCEPT ![c] = "returned"]
                /\ result' = [result EXCEPT ![c] = r]

\* ctx.Err() at the head of Load, Invalidate and beginDirect's callers.
Refuse(c) ==
  /\ pc[c] = "idle" /\ Call[c] # "close" /\ cancelled[c]
  /\ Return(c, "canceled")
  /\ UNCHANGED <<authority, provider, local, flight, joined, value, cancelled, history>>

RejectClosed(c) ==
  /\ pc[c] = "idle" /\ Call[c] # "close" /\ closed[At[c]] /\ ~cancelled[c]
  /\ Return(c, "closed")
  /\ UNCHANGED <<authority, provider, local, flight, joined, value, cancelled, history>>

-----------------------------------------------------------------------------
(* Load *)

\* The invalidations whose effect a load must not miss: those that took their token
\* on its own instance before it began, and those that had reported success, on any
\* instance, when the flight it shares began.
Bumped(x) == turn[x] > 0
OwnTokens(c) == {x \in Callers : Bumped(x) /\ At[x] = At[c]}
Reported == {x \in Callers : Bumped(x) /\ result[x] = "invalidated"}

Admitted(c) == pc[c] = "idle" /\ Call[c] = "load" /\ ~cancelled[c] /\ ~closed[At[c]]

Await(c, f, seen) ==
  /\ pc' = [pc EXCEPT ![c] = "wait"]
  /\ joined' = [joined EXCEPT ![c] = f]
  /\ after' = [after EXCEPT ![c] = seen]
  /\ UNCHANGED <<authority, provider, closed, drained, epoch, pending, result, value,
                 cancelled, floor, turn, written>>

LoadJoins(c) ==
  /\ Admitted(c)
  /\ \E f \in Existing(c) :
       /\ Await(c, f, OwnTokens(c) \cup after[f])
       /\ joinedDead' = IF flight[f].cancelled THEN joinedDead \cup {c} ELSE joinedDead
  /\ UNCHANGED <<active, flight>>

LoadFlies(c) ==
  /\ Admitted(c) /\ Existing(c) = {}
  /\ Await(c, c, OwnTokens(c) \cup Reported)
  /\ flight' = [flight EXCEPT ![c] = [NoFlight EXCEPT !.pc = "pending",
                                                     !.epoch = epoch[At[c]]]]
  /\ active' = [active EXCEPT ![At[c]] = @ + 1]
  /\ UNCHANGED joinedDead

LoadReturns(c) ==
  /\ pc[c] = "wait" /\ flight[joined[c]].pc = "done"
  /\ Return(c, flight[joined[c]].verdict)
  /\ value' = [value EXCEPT ![c] = flight[joined[c]].data]
  /\ UNCHANGED <<authority, provider, local, flight, joined, cancelled, history>>

\* releaseWaiter: the last waiter to leave cancels a flight still running.
AnyWaiter(c) == Running(joined[c])
LastWaiter(c) == Waiters(joined[c]) = {c} /\ Running(joined[c])

Release(c) ==
  flight' = [flight EXCEPT ![joined[c]].cancelled = @ \/ LastWaiter(c)]

LoadLeaves(c) ==
  /\ pc[c] = "wait" /\ cancelled[c]
  /\ Return(c, "canceled") /\ Release(c)
  /\ UNCHANGED <<authority, provider, local, joined, value, cancelled, history>>

LoadLeavesClosed(c) ==
  /\ pc[c] = "wait" /\ closed[At[c]]
  /\ Return(c, "closed") /\ Release(c)
  /\ UNCHANGED <<authority, provider, local, joined, value, cancelled, history>>

-----------------------------------------------------------------------------
(* execute, run by the goroutine of flight f *)

Continue(f, next) == flight' = [flight EXCEPT ![f] = [@ EXCEPT !.pc = next]]
ContinueWith(f, next, g) ==
  flight' = [flight EXCEPT ![f] = [@ EXCEPT !.pc = next, !.gen = g]]
Conclude(f, v, d) ==
  flight' = [flight EXCEPT ![f] = [NoFlight EXCEPT !.pc = "end", !.epoch = flight[f].epoch,
                                                   !.verdict = v, !.data = d,
                                                   !.cancelled = flight[f].cancelled]]

\* After a failed command: ctx.Err() if the flight was cancelled.
Abort(f) == /\ flight[f].cancelled
            /\ Conclude(f, "canceled", None)

MayFail(f) == Faulty \/ flight[f].cancelled

\* pendingGeneration
NothingPending(f) ==
  /\ flight[f].pc = "pending" /\ pending[At[f]] = None
  /\ Continue(f, "generation")
  /\ UNCHANGED <<authority, provider, local, caller, history>>

TakesPending(f) ==
  /\ flight[f].pc = "pending" /\ pending[At[f]] # None
  /\ ContinueWith(f, "repair", pending[At[f]])
  /\ UNCHANGED <<authority, provider, local, caller, history>>

\* setGeneration with the pending token: Set without expiry.
Repairs(f) ==
  /\ flight[f].pc = "repair"
  /\ generation' = flight[f].gen
  /\ written' = written \cup {flight[f].gen}
  /\ Continue(f, "clear")
  /\ UNCHANGED <<authority, entries, local, caller, floor, turn, after, joinedDead>>

\* clearPending, which spares the token of a later invalidation.
Cleared(i, t) == [pending EXCEPT ![i] = IF @ = t THEN None ELSE @]

ClearsPending(f) ==
  /\ flight[f].pc = "clear"
  /\ pending' = Cleared(At[f], flight[f].gen)
  /\ Continue(f, "generation")
  /\ UNCHANGED <<authority, provider, closed, drained, active, epoch, caller, history>>

\* A failed Set may have reached the provider all the same.
RepairFails(f) ==
  /\ flight[f].pc = "repair" /\ MayFail(f)
  /\ generation' \in {generation, flight[f].gen}
  /\ Abort(f) \/ (~flight[f].cancelled /\ Continue(f, "authority"))
  /\ UNCHANGED <<authority, entries, local, caller, history>>

ReadFails(f) ==
  /\ flight[f].pc \in {"generation", "read"} /\ MayFail(f)
  /\ Abort(f) \/ (~flight[f].cancelled /\ Continue(f, "authority"))
  /\ UNCHANGED <<authority, provider, local, caller, history>>

ReadsGeneration(f) ==
  /\ flight[f].pc = "generation"
  /\ ContinueWith(f, "read", generation)
  /\ UNCHANGED <<authority, provider, local, caller, history>>

Hits(f) ==
  /\ flight[f].pc = "read" /\ entries[Asks[f]][flight[f].gen] # None
  /\ Conclude(f, "hit", entries[Asks[f]][flight[f].gen])
  /\ UNCHANGED <<authority, provider, local, caller, history>>

Misses(f) ==
  /\ flight[f].pc = "read" /\ entries[Asks[f]][flight[f].gen] = None
  /\ Continue(f, "load")
  /\ UNCHANGED <<authority, provider, local, caller, history>>

\* The loader of a miss: its result is stored, or too large to be.
LoaderReads(f) ==
  /\ flight[f].pc = "load"
  /\ \/ flight' = [flight EXCEPT ![f] = [@ EXCEPT !.pc = "store", !.data = authority]]
     \/ Conclude(f, "large", authority)
  /\ UNCHANGED <<authority, provider, local, caller, history>>

\* fromAuthority for a bypassed provider.
AuthorityReads(f) ==
  /\ flight[f].pc = "authority"
  /\ Abort(f) \/ (~flight[f].cancelled /\ Conclude(f, "bypass", authority))
  /\ UNCHANGED <<authority, provider, local, caller, history>>

LoaderFails(f) ==
  /\ flight[f].pc \in {"load", "authority"}
  /\ Abort(f) \/ Conclude(f, "error", None)
  /\ UNCHANGED <<authority, provider, local, caller, history>>

\* write, under the generation read before the loader ran.
CurrentGeneration(f) == generation
EntryGeneration(f) == flight[f].gen

Written(f) == [entries EXCEPT ![Asks[f]][EntryGeneration(f)] = flight[f].data]

Stores(f) ==
  /\ flight[f].pc = "store"
  /\ entries' = Written(f)
  /\ Conclude(f, "stored", flight[f].data)
  /\ UNCHANGED <<authority, generation, local, caller, history>>

StoreFails(f) ==
  /\ flight[f].pc = "store" /\ MayFail(f)
  /\ entries' \in {entries, Written(f)}
  /\ Abort(f) \/ (~flight[f].cancelled /\ Conclude(f, "bypass", flight[f].data))
  /\ UNCHANGED <<authority, generation, local, caller, history>>

\* The deferred end of runFlight, which no outcome escapes.
EndsUnlessFailed(f) == flight[f].pc = "end" /\ flight[f].verdict # "error"
Ends(f) == flight[f].pc = "end"

FlightEnds(f) ==
  /\ Ends(f)
  /\ flight' = [flight EXCEPT ![f] = [NoFlight EXCEPT !.pc = "done",
                                                      !.verdict = flight[f].verdict,
                                                      !.data = flight[f].data]]
  /\ Deactivate(At[f])
  /\ UNCHANGED <<authority, provider, closed, epoch, pending, caller, history>>

\* context.AfterFunc(c.life, ...), which runs some time after Close.
LifeCancels(f) ==
  /\ Running(f) /\ closed[At[f]] /\ ~flight[f].cancelled
  /\ flight' = [flight EXCEPT ![f] = [@ EXCEPT !.cancelled = TRUE]]
  /\ UNCHANGED <<authority, provider, local, caller, history>>

-----------------------------------------------------------------------------
(* Direct operations: Invalidate and authorityBypass *)

DirectUncounted == 0
DirectCount == 1

\* beginDirect
DirectBegins(c) ==
  /\ pc[c] = "idle" /\ Call[c] \in {"invalidate", "bypass"}
  /\ ~cancelled[c] /\ ~closed[At[c]]
  /\ active' = [active EXCEPT ![At[c]] = @ + DirectCount]
  /\ pc' = [pc EXCEPT ![c] = IF Call[c] = "invalidate" THEN "bump" ELSE "authority"]
  /\ UNCHANGED <<authority, provider, closed, drained, epoch, pending, flight, joined,
                 result, value, cancelled, history>>

\* directContextError, for an operation that did not succeed or was overtaken.
ContextErrors(c) == (IF closed[At[c]] THEN {"closed"} ELSE {})
                      \cup (IF cancelled[c] THEN {"canceled"} ELSE {})

Finishing(c, r) == /\ pc' = [pc EXCEPT ![c] = "finish"]
                   /\ result' = [result EXCEPT ![c] = r]

\* The loader of a transaction; Close may or may not be noticed in time.
TransactionReads(c) ==
  /\ pc[c] = "authority"
  /\ \/ /\ ~cancelled[c] /\ Finishing(c, "transaction")
        /\ value' = [value EXCEPT ![c] = authority]
     \/ /\ \E r \in ContextErrors(c) \cup (IF cancelled[c] THEN {} ELSE {"error"}) :
             Finishing(c, r)
        /\ UNCHANGED value
  /\ UNCHANGED <<authority, provider, local, flight, joined, cancelled, history>>

\* epochs++ and pending = token, in one lock region.
SameEpoch(i) == epoch[i]
NextEpoch(i) == epoch[i] + 1

TakesToken(c) ==
  /\ pc[c] = "bump"
  /\ epoch' = [epoch EXCEPT ![At[c]] = NextEpoch(At[c])]
  /\ pending' = [pending EXCEPT ![At[c]] = c]
  /\ pc' = [pc EXCEPT ![c] = "set"]
  /\ floor' = [floor EXCEPT ![c] = authority]
  /\ turn' = [turn EXCEPT ![c] = epoch[At[c]] + 1]
  /\ UNCHANGED <<authority, provider, closed, drained, active, flight, joined, result,
                 value, cancelled, written, after, joinedDead>>

SetsGeneration(c) ==
  /\ pc[c] = "set"
  /\ generation' = c
  /\ written' = written \cup {c}
  /\ pc' = [pc EXCEPT ![c] = "clear"]
  /\ UNCHANGED <<authority, entries, local, flight, joined, result, value, cancelled,
                 floor, turn, after, joinedDead>>

\* What a failed Invalidate leaves in pending: its token, for the next read.
Forgotten(c) == Cleared(At[c], c)
Retained(c) == pending

SetFails(c) ==
  /\ pc[c] = "set"
  /\ \E r \in ContextErrors(c) \cup (IF Faulty /\ ~cancelled[c] THEN {"bypass"} ELSE {}) :
       Finishing(c, r)
  /\ generation' \in {generation, c}
  /\ pending' = Retained(c)
  /\ UNCHANGED <<authority, entries, closed, drained, active, epoch, flight, joined,
                 value, cancelled, history>>

InvalidateClears(c) ==
  /\ pc[c] = "clear"
  /\ pending' = Cleared(At[c], c)
  /\ Finishing(c, "invalidated")
  /\ UNCHANGED <<authority, provider, closed, drained, active, epoch, flight, joined,
                 value, cancelled, history>>

\* The deferred finish of beginDirect.
DirectEnds(c) ==
  /\ pc[c] = "finish"
  /\ pc' = [pc EXCEPT ![c] = "returned"]
  /\ Deactivate(At[c])
  /\ UNCHANGED <<authority, provider, closed, epoch, pending, flight, joined, result,
                 value, cancelled, history>>

-----------------------------------------------------------------------------
(* Close *)

CloseBegins(c) ==
  /\ pc[c] = "idle" /\ Call[c] = "close"
  /\ closed' = [closed EXCEPT ![At[c]] = TRUE]
  /\ DrainIf(At[c], TRUE, active[At[c]])
  /\ pc' = [pc EXCEPT ![c] = "drain"]
  /\ UNCHANGED <<authority, provider, active, epoch, pending, flight, joined, result,
                 value, cancelled, history>>

CloseReturns(c) ==
  /\ pc[c] = "drain"
  /\ \/ drained[At[c]] /\ Return(c, "nil")
     \/ cancelled[c] /\ Return(c, "canceled")
  /\ UNCHANGED <<authority, provider, local, flight, joined, value, cancelled, history>>

-----------------------------------------------------------------------------
(* The environment *)

Commit ==
  /\ authority < MaxVersion
  /\ authority' = authority + 1
  /\ UNCHANGED <<provider, local, flight, caller, history>>

\* policy.TTL of an entry; an unreadable entry reads as a missing one too.
Expire(q, g) ==
  /\ entries[q][g] # None
  /\ entries' = [entries EXCEPT ![q][g] = None]
  /\ UNCHANGED <<authority, generation, local, flight, caller, history>>

Cancel(c) ==
  /\ c \in Impatient /\ pc[c] # "returned" /\ ~cancelled[c]
  /\ cancelled' = [cancelled EXCEPT ![c] = TRUE]
  /\ UNCHANGED <<authority, provider, local, flight, pc, joined, result, value, history>>

-----------------------------------------------------------------------------
Terminated ==
  /\ \A c \in Callers : pc[c] = "returned" /\ ~Running(c)
  /\ UNCHANGED vars

LoadStep(c) == \/ Refuse(c) \/ RejectClosed(c) \/ LoadJoins(c) \/ LoadFlies(c)
               \/ LoadReturns(c) \/ LoadLeaves(c) \/ LoadLeavesClosed(c)
FlightStep(f) == \/ NothingPending(f) \/ TakesPending(f) \/ Repairs(f) \/ ClearsPending(f)
                 \/ RepairFails(f) \/ ReadFails(f) \/ ReadsGeneration(f) \/ Hits(f)
                 \/ Misses(f) \/ LoaderReads(f) \/ AuthorityReads(f) \/ LoaderFails(f)
                 \/ Stores(f) \/ StoreFails(f) \/ FlightEnds(f)
DirectStep(c) == \/ DirectBegins(c) \/ TransactionReads(c) \/ TakesToken(c)
                 \/ SetsGeneration(c) \/ SetFails(c) \/ InvalidateClears(c) \/ DirectEnds(c)
CloseStep(c) == CloseBegins(c) \/ CloseReturns(c)
Environment == \/ Commit
               \/ \E q \in Queries, g \in Tokens : Expire(q, g)
               \/ \E c \in Callers : Cancel(c)

Next == \/ \E c \in Callers : \/ LoadStep(c) \/ FlightStep(c) \/ LifeCancels(c)
                              \/ DirectStep(c) \/ CloseStep(c)
        \/ Environment
        \/ Terminated

Spec == Init /\ [][Next]_vars

\* Goroutines that can move do: a provider command and a loader return, with an
\* error if need be.  Nobody is obliged to call, to cancel or to commit.
FairSpec == /\ Spec
            /\ \A c \in Callers : /\ WF_vars(FlightStep(c))
                                  /\ WF_vars(LoadStep(c) /\ pc[c] = "wait")
                                  /\ WF_vars(DirectStep(c) /\ pc[c] # "idle")
                                  /\ WF_vars(CloseReturns(c))

-----------------------------------------------------------------------------
(* Properties *)

\* An invalidation wins the race against loaders (TestGenerationInvalidation-
\* WinsLoaderRace): whatever is stored, or about to be stored, under the token of
\* an invalidation was read from the authority after the token was taken.
EntriesAreFresh ==
  \A t \in Callers :
    /\ \A q \in Queries : entries[q][t] # None => Bumped(t) /\ entries[q][t] >= floor[t]
    /\ \A f \in Callers : flight[f].pc = "store" /\ flight[f].gen = t
                          => Bumped(t) /\ flight[f].data >= floor[t]

\* Once an invalidation has taken its token, whether its provider write then
\* succeeds or not, no later Load on its instance returns older data; once it has
\* reported success, no flight begun later on any instance does.  (A Load of another
\* instance that joins an earlier flight may: its epoch is its own.)  It holds of one
\* invalidation; OldEntriesUnreachable is about the way around it a second opens.
ReadsObserveInvalidation ==
  \A c \in Callers : value[c] # None => \A x \in after[c] : value[c] >= floor[x]

\* A failed invalidation is never forgotten: until the provider has acknowledged its
\* token or a later one of the instance, that token or a later one is pending, so
\* that the next Load writes it.
UnwrittenIsRetained ==
  \A x \in Callers : Bumped(x) =>
    \/ \E y \in written : At[y] = At[x] /\ turn[y] >= turn[x]
    \/ /\ pending[At[x]] # None
       /\ turn[pending[At[x]]] >= turn[x]

\* The documented promise of Invalidate (cache.go:398): after a successful
\* provider write the entries older than the invalidation are unreachable.
OldEntriesUnreachable ==
  \A x \in Callers : result[x] = "invalidated" =>
    \A q \in Queries : entries[q][generation] # None => entries[q][generation] >= floor[x]

\* One canceled waiter does not end a load another caller awaits (cache.go:183):
\* a Load reports cancellation only for its own context, for a closing cache, or
\* if the flight it found was cancelled before it joined.
WaiterIsolation ==
  \A c \in Callers : Call[c] = "load" /\ result[c] = "canceled"
                     => cancelled[c] \/ closed[At[c]] \/ c \in joinedDead

\* The same promise without the last exception, as the comment states it.
CancellationIsOwn ==
  \A c \in Callers : Call[c] = "load" /\ result[c] = "canceled"
                     => cancelled[c] \/ closed[At[c]]

\* Concurrent loads of a query in an epoch share one flight: the authority is
\* never read twice at a time for them.
FlightsAreShared ==
  \A f, g \in Callers :
    Running(f) /\ Running(g) /\ At[f] = At[g] /\ Asks[f] = Asks[g]
      /\ flight[f].epoch = flight[g].epoch => f = g

\* What loads that share a flight have of it, and what they do to each other.
SharingIsSound == WaiterIsolation /\ FlightsAreShared

Busy(i) == \E c \in Callers : At[c] = i /\ (Running(c) \/ pc[c] \in {"bump", "set", "clear",
                                                             "authority", "finish"})

\* Close drains: once the drain channel is closed, no flight, invalidation or
\* transaction of the instance is under way, and none begins any more.
DrainMeansQuiet == \A i \in Instances : drained[i] => closed[i] /\ ~Busy(i)

\* A Load whose caller waits returns: with the outcome of its flight at the latest.
LoadsReturn == \A c \in Callers : pc[c] = "wait" ~> pc[c] = "returned"

\* A Close drains the flights and direct operations it found.
CloseDrains == \A i \in Instances : closed[i] ~> drained[i]

\* Both: nobody waits for ever.
CacheReturns == LoadsReturn /\ CloseDrains
=============================================================================
