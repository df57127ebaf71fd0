------------------------- MODULE DerivedCacheProofs -------------------------
(***************************************************************************)
(* Theorems about DerivedCache, for every number of instances, queries,    *)
(* callers and commits, with a provider that may fail at any command.      *)
(***************************************************************************)
EXTENDS DerivedCache, FiniteSetTheorems, TLAPS

\* TypeOK but for the counter, whose type rests on what it counts.
Typed ==
  /\ authority \in Versions
  /\ generation \in Tokens
  /\ entries \in [Queries -> [Tokens -> Versions \cup {None}]]
  /\ closed \in [Instances -> BOOLEAN] /\ drained \in [Instances -> BOOLEAN]
  /\ epoch \in [Instances -> Nat]
  /\ pending \in [Instances -> Callers \cup {None}]
  /\ flight \in [Callers -> Flights]
  /\ pc \in [Callers -> {"idle", "wait", "bump", "set", "clear", "authority",
                         "finish", "drain", "returned"}]
  /\ joined \in [Callers -> Callers \cup {None}]
  /\ \A c \in Callers : pc[c] = "wait" => joined[c] \in Callers
  /\ result \in [Callers -> Verdicts]
  /\ value \in [Callers -> Versions \cup {None}]
  /\ cancelled \in [Callers -> BOOLEAN]
  /\ floor \in [Callers -> Versions \cup {None}]
  /\ turn \in [Callers -> Nat] /\ written \in SUBSET Callers
  /\ after \in [Callers -> SUBSET Callers]
  /\ joinedDead \in SUBSET Callers

\* Wherever a token is found (the provider, pending, a flight), it was taken by
\* an invalidation, and no later than the authority and the epoch are now.  The
\* pending token of an instance is its latest.
TokenInv ==
  /\ \A c \in Callers : turn[c] > 0 => /\ floor[c] \in Nat /\ floor[c] <= authority
                                       /\ turn[c] <= epoch[At[c]]
  /\ \A c \in Callers : pc[c] \in {"idle", "bump"} => turn[c] = 0
  /\ \A c \in Callers : pc[c] \in {"set", "clear"} => turn[c] > 0
  /\ \A c \in written : turn[c] > 0
  /\ generation \in Callers => turn[generation] > 0
  /\ \A i \in Instances : pending[i] # None =>
       At[pending[i]] = i /\ turn[pending[i]] = epoch[i] /\ turn[pending[i]] > 0
  /\ \A f \in Callers : flight[f].gen \in Callers => turn[flight[f].gen] > 0

\* A token about to be cleared has been written.
RepairInv ==
  /\ \A f \in Callers : flight[f].pc \in {"repair", "clear"} => flight[f].gen \in Callers
  /\ \A f \in Callers : flight[f].pc = "clear" => flight[f].gen \in written
  /\ \A c \in Callers : pc[c] = "clear" => c \in written
  /\ \A f \in Callers : flight[f].pc = "store" => flight[f].data \in Nat

DataInv == Typed /\ TokenInv /\ RepairInv /\ EntriesAreFresh /\ UnwrittenIsRetained
-----------------------------------------------------------------------------
(* The invariant of tokens, generations and entries is inductive. *)

\* What a step does to a flight keeps it a flight.
LEMMA NoFlightTyped == NoFlight \in Flights
BY DEF NoFlight, Flights, FlightPCs, Verdicts, Loads, Tokens

LEMMA ContinueTyped ==
  ASSUME flight \in [Callers -> Flights], NEW f \in Callers, NEW n \in FlightPCs, Continue(f, n)
  PROVE  flight' \in [Callers -> Flights]
BY DEF Continue, Flights

LEMMA ContinueWithTyped ==
  ASSUME flight \in [Callers -> Flights], NEW f \in Callers, NEW n \in FlightPCs,
         NEW g \in Tokens, ContinueWith(f, n, g)
  PROVE  flight' \in [Callers -> Flights]
BY DEF ContinueWith, Flights

LEMMA ConcludeTyped ==
  ASSUME flight \in [Callers -> Flights], NEW f \in Callers, NEW v \in Verdicts,
         NEW d \in Versions \cup {None}, Conclude(f, v, d)
  PROVE  flight' \in [Callers -> Flights]
BY DEF Conclude, NoFlight, Flights, FlightPCs, Tokens

LEMMA ReleaseTyped ==
  ASSUME flight \in [Callers -> Flights], NEW c \in Callers, joined[c] \in Callers, Release(c)
  PROVE  flight' \in [Callers -> Flights]
<1>1. flight[joined[c]] \in Flights OBVIOUS
<1>2. (flight[joined[c]].cancelled \/ LastWaiter(c)) \in BOOLEAN OBVIOUS
<1> QED BY <1>1, <1>2 DEF Release, Flights

LEMMA ResultTyped ==
  ASSUME NEW r \in Flights, NEW n \in Nat
  PROVE  [r EXCEPT !.pc = "store", !.data = n] \in Flights
BY DEF Flights, FlightPCs, Versions

LEMMA CancelTyped ==
  ASSUME NEW r \in Flights
  PROVE  [r EXCEPT !.cancelled = TRUE] \in Flights
BY DEF Flights

LEMMA ContinueEffect ==
  ASSUME flight \in [Callers -> Flights], NEW f \in Callers, NEW n \in FlightPCs, Continue(f, n)
  PROVE  /\ flight'[f].pc = n /\ flight'[f].gen = flight[f].gen
         /\ flight'[f].data = flight[f].data
         /\ \A g \in Callers \ {f} : flight'[g] = flight[g]
BY DEF Continue, Flights

LEMMA ConcludeEffect ==
  ASSUME flight \in [Callers -> Flights], NEW f \in Callers, NEW v, NEW d, Conclude(f, v, d)
  PROVE  /\ flight'[f].pc = "end" /\ flight'[f].gen = Base
         /\ \A g \in Callers \ {f} : flight'[g] = flight[g]
BY DEF Conclude, NoFlight, Flights

LEMMA InitData == Init => DataInv
<1> USE BaseAssumption, NoneAssumption, AtAssumption
<1> SUFFICES ASSUME Init PROVE DataInv
  OBVIOUS
<1>1. flight \in [Callers -> Flights]
  BY NoFlightTyped DEF Init
<1>2. Typed
  BY <1>1 DEF Init, Typed, Versions, Tokens, Verdicts
<1>3. TokenInv /\ RepairInv
  BY DEF Init, NoFlight, TokenInv, RepairInv
<1>4. EntriesAreFresh /\ UnwrittenIsRetained
  BY DEF Init, NoFlight, EntriesAreFresh, UnwrittenIsRetained, Tokens, Bumped
<1> QED BY <1>2, <1>3, <1>4 DEF DataInv

\* A step of Load preserves it.
LEMMA LoadData ==
    ASSUME NEW c \in Callers, DataInv, LoadStep(c)
    PROVE  DataInv'
<1> USE BaseAssumption, NoneAssumption, AtAssumption, CallAssumption
    DEF vars, provider, local, caller, history
<1>1. CASE Refuse(c)
  <2>0. flight' \in [Callers -> Flights]
    BY <1>1 DEF DataInv, Typed, Tokens, Versions, FlightPCs, Verdicts, Loads, Refuse
  <2>1. Typed'
    BY <1>1, <2>0 DEF DataInv, Typed, FlightPCs, Verdicts, Loads, Versions, Tokens,
       Refuse, Return
  <2>2. TokenInv' /\ RepairInv'
    BY <1>1 DEF DataInv, Typed, TokenInv, RepairInv, Versions, Tokens, Refuse, Return
  <2>3. EntriesAreFresh' /\ UnwrittenIsRetained'
    BY <1>1 DEF DataInv, Typed, TokenInv, RepairInv, EntriesAreFresh,
       UnwrittenIsRetained, Bumped, Versions, Tokens, Refuse, Return
  <2> QED BY <2>1, <2>2, <2>3 DEF DataInv
<1>2. CASE RejectClosed(c)
  <2>0. flight' \in [Callers -> Flights]
    BY <1>2 DEF DataInv, Typed, Tokens, Versions, FlightPCs, Verdicts, Loads,
       RejectClosed
  <2>1. Typed'
    BY <1>2, <2>0 DEF DataInv, Typed, FlightPCs, Verdicts, Loads, Versions, Tokens,
       RejectClosed, Return
  <2>2. TokenInv' /\ RepairInv'
    BY <1>2 DEF DataInv, Typed, TokenInv, RepairInv, Versions, Tokens, RejectClosed,
       Return
  <2>3. EntriesAreFresh' /\ UnwrittenIsRetained'
    BY <1>2 DEF DataInv, Typed, TokenInv, RepairInv, EntriesAreFresh,
       UnwrittenIsRetained, Bumped, Versions, Tokens, RejectClosed, Return
  <2> QED BY <2>1, <2>2, <2>3 DEF DataInv
<1>3. CASE LoadJoins(c)
  <2>0. flight' \in [Callers -> Flights]
    BY <1>3 DEF DataInv, Typed, Tokens, Versions, FlightPCs, Verdicts, Loads,
       LoadJoins, Await
  <2>1. Typed'
    <3>1. PICK g \in Callers : Await(c, g, OwnTokens(c) \cup after[g]) /\ UNCHANGED <<active, flight>>
      BY <1>3 DEF LoadJoins, Existing
    <3>2. joinedDead' \in SUBSET Callers
      BY <1>3 DEF LoadJoins, DataInv, Typed
    <3>3. OwnTokens(c) \cup after[g] \in SUBSET Callers
      BY DEF OwnTokens, DataInv, Typed
    <3> QED BY <3>1, <3>2, <3>3 DEF DataInv, Typed, Versions, Tokens, Await
  <2>2. TokenInv' /\ RepairInv'
    BY <1>3 DEF DataInv, Typed, TokenInv, RepairInv, Versions, Tokens, LoadJoins,
       Admitted, Existing, Await, OwnTokens, Reported
  <2>3. EntriesAreFresh' /\ UnwrittenIsRetained'
    BY <1>3 DEF DataInv, Typed, TokenInv, RepairInv, EntriesAreFresh,
       UnwrittenIsRetained, Bumped, Versions, Tokens, LoadJoins, Admitted, Existing,
       Await, OwnTokens, Reported
  <2> QED BY <2>1, <2>2, <2>3 DEF DataInv
<1>4. CASE LoadFlies(c)
  <2>0. flight' \in [Callers -> Flights]
    BY <1>4, NoFlightTyped DEF DataInv, Typed, Tokens, Versions, FlightPCs, Verdicts,
       Loads, LoadFlies, Flights, NoFlight
  <2>1. Typed'
    BY <1>4, <2>0 DEF DataInv, Typed, FlightPCs, Verdicts, Loads, Versions, Tokens,
       LoadFlies, Admitted, Await, OwnTokens, Reported
  <2>2. TokenInv' /\ RepairInv'
    BY <1>4 DEF DataInv, Typed, TokenInv, RepairInv, Versions, Tokens, LoadFlies,
       Admitted, Await, NoFlight, OwnTokens, Reported
  <2>3. EntriesAreFresh' /\ UnwrittenIsRetained'
    BY <1>4 DEF DataInv, Typed, TokenInv, RepairInv, EntriesAreFresh,
       UnwrittenIsRetained, Bumped, Versions, Tokens, LoadFlies, Admitted, Await,
       NoFlight, OwnTokens, Reported
  <2> QED BY <2>1, <2>2, <2>3 DEF DataInv
<1>5. CASE LoadReturns(c)
  <2>0. flight' \in [Callers -> Flights]
    BY <1>5 DEF DataInv, Typed, Tokens, Versions, FlightPCs, Verdicts, Loads,
       LoadReturns
  <2>1. Typed'
    <3>1. joined[c] \in Callers
      BY <1>5 DEF LoadReturns, DataInv, Typed
    <3>2. flight[joined[c]].verdict \in Verdicts
          /\ flight[joined[c]].data \in Versions \cup {None}
      BY <3>1 DEF DataInv, Typed, Flights
    <3> QED BY <1>5, <3>2 DEF DataInv, Typed, LoadReturns, Return
  <2>2. TokenInv' /\ RepairInv'
    BY <1>5 DEF DataInv, Typed, TokenInv, RepairInv, Versions, Tokens, LoadReturns,
       Return
  <2>3. EntriesAreFresh' /\ UnwrittenIsRetained'
    BY <1>5 DEF DataInv, Typed, TokenInv, RepairInv, EntriesAreFresh,
       UnwrittenIsRetained, Bumped, Versions, Tokens, LoadReturns, Return
  <2> QED BY <2>1, <2>2, <2>3 DEF DataInv
<1>6. CASE LoadLeaves(c)
  <2>0. flight' \in [Callers -> Flights]
    BY <1>6, ReleaseTyped DEF DataInv, Typed, Tokens, Versions, FlightPCs, Verdicts,
       Loads, LoadLeaves
  <2>1. Typed'
    BY <1>6, <2>0 DEF DataInv, Typed, FlightPCs, Verdicts, Loads, Versions, Tokens,
       LoadLeaves, Return
  <2>2. TokenInv' /\ RepairInv'
    BY <1>6 DEF DataInv, Typed, TokenInv, RepairInv, Versions, Tokens, LoadLeaves,
       Return, Release
  <2>3. EntriesAreFresh' /\ UnwrittenIsRetained'
    BY <1>6 DEF DataInv, Typed, TokenInv, RepairInv, EntriesAreFresh,
       UnwrittenIsRetained, Bumped, Versions, Tokens, LoadLeaves, Return, Release
  <2> QED BY <2>1, <2>2, <2>3 DEF DataInv
<1>7. CASE LoadLeavesClosed(c)
  <2>0. flight' \in [Callers -> Flights]
    BY <1>7, ReleaseTyped DEF DataInv, Typed, Tokens, Versions, FlightPCs, Verdicts,
       Loads, LoadLeavesClosed
  <2>1. Typed'
    BY <1>7, <2>0 DEF DataInv, Typed, FlightPCs, Verdicts, Loads, Versions, Tokens,
       LoadLeavesClosed, Return
  <2>2. TokenInv' /\ RepairInv'
    BY <1>7 DEF DataInv, Typed, TokenInv, RepairInv, Versions, Tokens,
       LoadLeavesClosed, Return, Release
  <2>3. EntriesAreFresh' /\ UnwrittenIsRetained'
    BY <1>7 DEF DataInv, Typed, TokenInv, RepairInv, EntriesAreFresh,
       UnwrittenIsRetained, Bumped, Versions, Tokens, LoadLeavesClosed, Return,
       Release
  <2> QED BY <2>1, <2>2, <2>3 DEF DataInv
<1> QED BY <1>1, <1>2, <1>3, <1>4, <1>5, <1>6, <1>7 DEF LoadStep

\* A step of a flight preserves it.
LEMMA FlightData ==
    ASSUME NEW f \in Callers, DataInv, FlightStep(f)
    PROVE  DataInv'
<1> USE BaseAssumption, NoneAssumption, AtAssumption, CallAssumption
    DEF vars, provider, local, caller, history
<1>1. CASE NothingPending(f)
  <2>0. flight' \in [Callers -> Flights]
    BY <1>1, ContinueTyped DEF DataInv, Typed, Tokens, Versions, FlightPCs, Verdicts,
       Loads, NothingPending
  <2>1. Typed'
    BY <1>1, <2>0 DEF DataInv, Typed, FlightPCs, Verdicts, Loads, Versions, Tokens,
       NothingPending
  <2>2. TokenInv' /\ RepairInv'
    BY <1>1 DEF DataInv, Typed, TokenInv, RepairInv, Versions, Tokens, NothingPending,
       Continue
  <2>3. EntriesAreFresh' /\ UnwrittenIsRetained'
    BY <1>1 DEF DataInv, Typed, TokenInv, RepairInv, EntriesAreFresh,
       UnwrittenIsRetained, Bumped, Versions, Tokens, NothingPending, Continue
  <2> QED BY <2>1, <2>2, <2>3 DEF DataInv
<1>2. CASE TakesPending(f)
  <2>0. flight' \in [Callers -> Flights]
    BY <1>2, ContinueWithTyped DEF DataInv, Typed, Tokens, Versions, FlightPCs,
       Verdicts, Loads, TakesPending
  <2>1. Typed'
    BY <1>2, <2>0 DEF DataInv, Typed, FlightPCs, Verdicts, Loads, Versions, Tokens,
       TakesPending
  <2>2. TokenInv' /\ RepairInv'
    BY <1>2 DEF DataInv, Typed, TokenInv, RepairInv, Versions, Tokens, TakesPending,
       ContinueWith
  <2>3. EntriesAreFresh' /\ UnwrittenIsRetained'
    BY <1>2 DEF DataInv, Typed, TokenInv, RepairInv, EntriesAreFresh,
       UnwrittenIsRetained, Bumped, Versions, Tokens, TakesPending, ContinueWith
  <2> QED BY <2>1, <2>2, <2>3 DEF DataInv
<1>3. CASE Repairs(f)
  <2>0. flight' \in [Callers -> Flights]
    BY <1>3, ContinueTyped DEF DataInv, Typed, Tokens, Versions, FlightPCs, Verdicts,
       Loads, Repairs
  <2>1. Typed'
    <3>1. flight[f].gen \in Callers
      BY <1>3 DEF Repairs, DataInv, RepairInv
    <3> QED BY <1>3, <2>0, <3>1 DEF Repairs, DataInv, Typed, Tokens
  <2>2. TokenInv' /\ RepairInv'
    BY <1>3 DEF DataInv, Typed, TokenInv, RepairInv, Versions, Tokens, Repairs,
       Continue
  <2>3. EntriesAreFresh' /\ UnwrittenIsRetained'
    BY <1>3 DEF DataInv, Typed, TokenInv, RepairInv, EntriesAreFresh,
       UnwrittenIsRetained, Bumped, Versions, Tokens, Repairs, Continue
  <2> QED BY <2>1, <2>2, <2>3 DEF DataInv
<1>4. CASE ClearsPending(f)
  <2>0. flight' \in [Callers -> Flights]
    BY <1>4, ContinueTyped DEF DataInv, Typed, Tokens, Versions, FlightPCs, Verdicts,
       Loads, ClearsPending
  <2>1. Typed'
    BY <1>4, <2>0 DEF DataInv, Typed, FlightPCs, Verdicts, Loads, Versions, Tokens,
       ClearsPending, Cleared
  <2>2. TokenInv' /\ RepairInv'
    BY <1>4 DEF DataInv, Typed, TokenInv, RepairInv, Versions, Tokens, ClearsPending,
       Continue, Cleared
  <2>3. EntriesAreFresh' /\ UnwrittenIsRetained'
    BY <1>4 DEF DataInv, Typed, TokenInv, RepairInv, EntriesAreFresh,
       UnwrittenIsRetained, Bumped, Versions, Tokens, ClearsPending, Continue, Cleared
  <2> QED BY <2>1, <2>2, <2>3 DEF DataInv
<1>5. CASE RepairFails(f)
  <2>0. flight' \in [Callers -> Flights]
    BY <1>5, ContinueTyped, ConcludeTyped DEF RepairFails, Abort, DataInv, Typed,
       FlightPCs, Verdicts, Loads, Versions, Tokens, Flights
  <2>1. /\ flight'[f].gen \in {flight[f].gen, Base}
        /\ flight'[f].pc \in {"end", "authority"}
        /\ \A g \in Callers \ {f} : flight'[g] = flight[g]
    BY <1>5, ContinueEffect, ConcludeEffect DEF RepairFails, Abort, DataInv, Typed,
       FlightPCs
  <2>2. Typed'
    BY <1>5, <2>0 DEF DataInv, Typed, Flights, Versions, Tokens, RepairFails
  <2>3. TokenInv' /\ RepairInv'
    BY <1>5, <2>1 DEF DataInv, TokenInv, RepairInv, RepairFails
  <2>4. EntriesAreFresh' /\ UnwrittenIsRetained'
    BY <1>5, <2>1 DEF DataInv, EntriesAreFresh, UnwrittenIsRetained, Bumped,
       RepairFails
  <2> QED BY <2>2, <2>3, <2>4 DEF DataInv
<1>6. CASE ReadFails(f)
  <2>0. flight' \in [Callers -> Flights]
    BY <1>6, ContinueTyped, ConcludeTyped DEF ReadFails, Abort, DataInv, Typed,
       FlightPCs, Verdicts, Loads, Versions, Tokens, Flights
  <2>1. /\ flight'[f].gen \in {flight[f].gen, Base}
        /\ flight'[f].pc \in {"end", "authority"}
        /\ \A g \in Callers \ {f} : flight'[g] = flight[g]
    BY <1>6, ContinueEffect, ConcludeEffect DEF ReadFails, Abort, DataInv, Typed,
       FlightPCs
  <2>2. Typed'
    BY <1>6, <2>0 DEF DataInv, Typed, Flights, Versions, Tokens, ReadFails
  <2>3. TokenInv' /\ RepairInv'
    BY <1>6, <2>1 DEF DataInv, TokenInv, RepairInv, ReadFails
  <2>4. EntriesAreFresh' /\ UnwrittenIsRetained'
    BY <1>6, <2>1 DEF DataInv, EntriesAreFresh, UnwrittenIsRetained, Bumped, ReadFails
  <2> QED BY <2>2, <2>3, <2>4 DEF DataInv
<1>7. CASE ReadsGeneration(f)
  <2>0. flight' \in [Callers -> Flights]
    BY <1>7, ContinueWithTyped DEF DataInv, Typed, Tokens, Versions, FlightPCs,
       Verdicts, Loads, ReadsGeneration
  <2>1. Typed'
    BY <1>7, <2>0 DEF DataInv, Typed, FlightPCs, Verdicts, Loads, Versions, Tokens,
       ReadsGeneration
  <2>2. TokenInv' /\ RepairInv'
    BY <1>7 DEF DataInv, Typed, TokenInv, RepairInv, Versions, Tokens,
       ReadsGeneration, ContinueWith
  <2>3. EntriesAreFresh' /\ UnwrittenIsRetained'
    BY <1>7 DEF DataInv, Typed, TokenInv, RepairInv, EntriesAreFresh,
       UnwrittenIsRetained, Bumped, Versions, Tokens, ReadsGeneration, ContinueWith
  <2> QED BY <2>1, <2>2, <2>3 DEF DataInv
<1>8. CASE Hits(f)
  <2>0. flight' \in [Callers -> Flights]
    <3>1. entries[Asks[f]][flight[f].gen] \in Versions \cup {None}
      BY AtAssumption DEF DataInv, Typed, Flights
    <3> QED BY <1>8, <3>1, ConcludeTyped DEF Hits, DataInv, Typed, Verdicts, Loads
  <2>1. /\ flight'[f].gen \in {flight[f].gen, Base}
        /\ flight'[f].pc \in {"end", "authority"}
        /\ \A g \in Callers \ {f} : flight'[g] = flight[g]
    BY <1>8, ContinueEffect, ConcludeEffect DEF Hits, Abort, DataInv, Typed, FlightPCs
  <2>2. Typed'
    BY <1>8, <2>0 DEF DataInv, Typed, Flights, Versions, Tokens, Hits
  <2>3. TokenInv' /\ RepairInv'
    BY <1>8, <2>1 DEF DataInv, TokenInv, RepairInv, Hits
  <2>4. EntriesAreFresh' /\ UnwrittenIsRetained'
    BY <1>8, <2>1 DEF DataInv, EntriesAreFresh, UnwrittenIsRetained, Bumped, Hits
  <2> QED BY <2>2, <2>3, <2>4 DEF DataInv
<1>9. CASE Misses(f)
  <2>0. flight' \in [Callers -> Flights]
    BY <1>9, ContinueTyped DEF DataInv, Typed, Tokens, Versions, FlightPCs, Verdicts,
       Loads, Misses
  <2>1. Typed'
    BY <1>9, <2>0 DEF DataInv, Typed, FlightPCs, Verdicts, Loads, Versions, Tokens,
       Misses
  <2>2. TokenInv' /\ RepairInv'
    BY <1>9 DEF DataInv, Typed, TokenInv, RepairInv, Versions, Tokens, Misses,
       Continue
  <2>3. EntriesAreFresh' /\ UnwrittenIsRetained'
    BY <1>9 DEF DataInv, Typed, TokenInv, RepairInv, EntriesAreFresh,
       UnwrittenIsRetained, Bumped, Versions, Tokens, Misses, Continue
  <2> QED BY <2>1, <2>2, <2>3 DEF DataInv
<1>10. CASE LoaderReads(f)
  <2>1. CASE flight' = [flight EXCEPT ![f] = [@ EXCEPT !.pc = "store", !.data = authority]]
    <3>1. flight' \in [Callers -> Flights]
      <4>1. [flight[f] EXCEPT !.pc = "store", !.data = authority] \in Flights
        BY ResultTyped DEF DataInv, Typed, Versions
      <4> QED BY <2>1, <4>1 DEF DataInv, Typed
    <3>2. /\ flight'[f].gen = flight[f].gen /\ flight'[f].pc = "store"
          /\ flight'[f].data = authority
          /\ \A g \in Callers \ {f} : flight'[g] = flight[g]
      BY <2>1 DEF DataInv, Typed, Flights
    <3>3. Typed'
      BY <1>10, <3>1 DEF LoaderReads, DataInv, Typed, Versions, Tokens
    <3>4. TokenInv' /\ RepairInv'
      BY <1>10, <3>2 DEF LoaderReads, DataInv, Typed, TokenInv, RepairInv, Versions
    <3>5. EntriesAreFresh' /\ UnwrittenIsRetained'
      BY <1>10, <3>2 DEF LoaderReads, DataInv, TokenInv, EntriesAreFresh,
         UnwrittenIsRetained, Bumped
    <3> QED BY <3>3, <3>4, <3>5 DEF DataInv
  <2>2. CASE Conclude(f, "large", authority)
    <3>1. flight' \in [Callers -> Flights]
      BY <2>2, ConcludeTyped DEF DataInv, Typed, Verdicts, Loads
    <3>2. /\ flight'[f].gen = Base /\ flight'[f].pc = "end"
          /\ \A g \in Callers \ {f} : flight'[g] = flight[g]
      BY <2>2, ConcludeEffect DEF DataInv, Typed
    <3>3. Typed'
      BY <1>10, <3>1 DEF LoaderReads, DataInv, Typed, Versions, Tokens
    <3>4. TokenInv' /\ RepairInv'
      BY <1>10, <3>2 DEF LoaderReads, DataInv, Typed, TokenInv, RepairInv, Versions
    <3>5. EntriesAreFresh' /\ UnwrittenIsRetained'
      BY <1>10, <3>2 DEF LoaderReads, DataInv, TokenInv, EntriesAreFresh,
         UnwrittenIsRetained, Bumped
    <3> QED BY <3>3, <3>4, <3>5 DEF DataInv
  <2> QED BY <1>10, <2>1, <2>2 DEF LoaderReads
<1>11. CASE AuthorityReads(f)
  <2>0. flight' \in [Callers -> Flights]
    BY <1>11, ContinueTyped, ConcludeTyped DEF AuthorityReads, Abort, DataInv, Typed,
       FlightPCs, Verdicts, Loads, Versions, Tokens, Flights
  <2>1. /\ flight'[f].gen \in {flight[f].gen, Base}
        /\ flight'[f].pc \in {"end", "authority"}
        /\ \A g \in Callers \ {f} : flight'[g] = flight[g]
    BY <1>11, ContinueEffect, ConcludeEffect DEF AuthorityReads, Abort, DataInv,
       Typed, FlightPCs
  <2>2. Typed'
    BY <1>11, <2>0 DEF DataInv, Typed, Flights, Versions, Tokens, AuthorityReads
  <2>3. TokenInv' /\ RepairInv'
    BY <1>11, <2>1 DEF DataInv, TokenInv, RepairInv, AuthorityReads
  <2>4. EntriesAreFresh' /\ UnwrittenIsRetained'
    BY <1>11, <2>1 DEF DataInv, EntriesAreFresh, UnwrittenIsRetained, Bumped,
       AuthorityReads
  <2> QED BY <2>2, <2>3, <2>4 DEF DataInv
<1>12. CASE LoaderFails(f)
  <2>0. flight' \in [Callers -> Flights]
    BY <1>12, ContinueTyped, ConcludeTyped DEF LoaderFails, Abort, DataInv, Typed,
       FlightPCs, Verdicts, Loads, Versions, Tokens, Flights
  <2>1. /\ flight'[f].gen \in {flight[f].gen, Base}
        /\ flight'[f].pc \in {"end", "authority"}
        /\ \A g \in Callers \ {f} : flight'[g] = flight[g]
    BY <1>12, ContinueEffect, ConcludeEffect DEF LoaderFails, Abort, DataInv, Typed,
       FlightPCs
  <2>2. Typed'
    BY <1>12, <2>0 DEF DataInv, Typed, Flights, Versions, Tokens, LoaderFails
  <2>3. TokenInv' /\ RepairInv'
    BY <1>12, <2>1 DEF DataInv, TokenInv, RepairInv, LoaderFails
  <2>4. EntriesAreFresh' /\ UnwrittenIsRetained'
    BY <1>12, <2>1 DEF DataInv, EntriesAreFresh, UnwrittenIsRetained, Bumped,
       LoaderFails
  <2> QED BY <2>2, <2>3, <2>4 DEF DataInv
<1>13. CASE Stores(f)
  <2>0. flight' \in [Callers -> Flights]
    BY <1>13, ContinueTyped, ConcludeTyped DEF Stores, Abort, DataInv, Typed,
       FlightPCs, Verdicts, Loads, Versions, Tokens, Flights
  <2>1. /\ flight'[f].gen \in {flight[f].gen, Base}
        /\ flight'[f].pc \in {"end", "authority"}
        /\ \A g \in Callers \ {f} : flight'[g] = flight[g]
    BY <1>13, ContinueEffect, ConcludeEffect DEF Stores, Abort, DataInv, Typed,
       FlightPCs
  <2>2. entries' = entries \/ entries' = Written(f)
    BY <1>13 DEF Stores
  <2>3. /\ entries' \in [Queries -> [Tokens -> Versions \cup {None}]]
        /\ \A q \in Queries, t \in Tokens : entries'[q][t] \in
             {entries[q][t]} \cup (IF t = flight[f].gen THEN {flight[f].data} ELSE {})
    <3>1. CASE entries' = entries
      BY <3>1 DEF DataInv, Typed
    <3>2. CASE entries' = Written(f)
      <4>1. flight[f].gen \in Tokens /\ flight[f].data \in Versions \cup {None}
        BY DEF DataInv, Typed, Flights
      <4> QED BY <3>2, <4>1 DEF Written, EntryGeneration, DataInv, Typed
    <3> QED BY <2>2, <3>1, <3>2
  <2>4. Typed'
    BY <1>13, <2>0, <2>3 DEF DataInv, Typed, Stores
  <2>5. TokenInv' /\ RepairInv'
    BY <1>13, <2>1 DEF DataInv, TokenInv, RepairInv, Stores
  <2>6. EntriesAreFresh'
    <3>1. \A t \in Callers : t = flight[f].gen => Bumped(t) /\ flight[f].data >= floor[t]
      BY <1>13 DEF Stores, DataInv, EntriesAreFresh
    <3>2. UNCHANGED <<floor, turn>>
      BY <1>13 DEF Stores, history
    <3>3. \A t \in Callers : \A q \in Queries :
            entries'[q][t] # None => Bumped(t)' /\ entries'[q][t] >= floor'[t]
      BY <2>3, <3>1, <3>2 DEF DataInv, EntriesAreFresh, Bumped, Tokens
    <3>4. \A t \in Callers : \A g \in Callers :
            flight'[g].pc = "store" /\ flight'[g].gen = t
              => Bumped(t)' /\ flight'[g].data >= floor'[t]
      BY <2>1, <3>2 DEF DataInv, EntriesAreFresh, Bumped
    <3> QED BY <3>3, <3>4 DEF EntriesAreFresh
  <2>7. UnwrittenIsRetained'
    BY <1>13 DEF DataInv, UnwrittenIsRetained, Bumped, Stores, history
  <2> QED BY <2>4, <2>5, <2>6, <2>7 DEF DataInv
<1>14. CASE StoreFails(f)
  <2>0. flight' \in [Callers -> Flights]
    BY <1>14, ContinueTyped, ConcludeTyped DEF StoreFails, Abort, DataInv, Typed,
       FlightPCs, Verdicts, Loads, Versions, Tokens, Flights
  <2>1. /\ flight'[f].gen \in {flight[f].gen, Base}
        /\ flight'[f].pc \in {"end", "authority"}
        /\ \A g \in Callers \ {f} : flight'[g] = flight[g]
    BY <1>14, ContinueEffect, ConcludeEffect DEF StoreFails, Abort, DataInv, Typed,
       FlightPCs
  <2>2. entries' = entries \/ entries' = Written(f)
    BY <1>14 DEF StoreFails
  <2>3. /\ entries' \in [Queries -> [Tokens -> Versions \cup {None}]]
        /\ \A q \in Queries, t \in Tokens : entries'[q][t] \in
             {entries[q][t]} \cup (IF t = flight[f].gen THEN {flight[f].data} ELSE {})
    <3>1. CASE entries' = entries
      BY <3>1 DEF DataInv, Typed
    <3>2. CASE entries' = Written(f)
      <4>1. flight[f].gen \in Tokens /\ flight[f].data \in Versions \cup {None}
        BY DEF DataInv, Typed, Flights
      <4> QED BY <3>2, <4>1 DEF Written, EntryGeneration, DataInv, Typed
    <3> QED BY <2>2, <3>1, <3>2
  <2>4. Typed'
    BY <1>14, <2>0, <2>3 DEF DataInv, Typed, StoreFails
  <2>5. TokenInv' /\ RepairInv'
    BY <1>14, <2>1 DEF DataInv, TokenInv, RepairInv, StoreFails
  <2>6. EntriesAreFresh'
    <3>1. \A t \in Callers : t = flight[f].gen => Bumped(t) /\ flight[f].data >= floor[t]
      BY <1>14 DEF StoreFails, DataInv, EntriesAreFresh
    <3>2. UNCHANGED <<floor, turn>>
      BY <1>14 DEF StoreFails, history
    <3>3. \A t \in Callers : \A q \in Queries :
            entries'[q][t] # None => Bumped(t)' /\ entries'[q][t] >= floor'[t]
      BY <2>3, <3>1, <3>2 DEF DataInv, EntriesAreFresh, Bumped, Tokens
    <3>4. \A t \in Callers : \A g \in Callers :
            flight'[g].pc = "store" /\ flight'[g].gen = t
              => Bumped(t)' /\ flight'[g].data >= floor'[t]
      BY <2>1, <3>2 DEF DataInv, EntriesAreFresh, Bumped
    <3> QED BY <3>3, <3>4 DEF EntriesAreFresh
  <2>7. UnwrittenIsRetained'
    BY <1>14 DEF DataInv, UnwrittenIsRetained, Bumped, StoreFails, history
  <2> QED BY <2>4, <2>5, <2>6, <2>7 DEF DataInv
<1>15. CASE FlightEnds(f)
  <2>0. flight' \in [Callers -> Flights]
    BY <1>15, NoFlightTyped DEF DataInv, Typed, Tokens, Versions, FlightPCs, Verdicts,
       Loads, FlightEnds, Flights, NoFlight
  <2>1. Typed'
    BY <1>15, <2>0 DEF DataInv, Typed, FlightPCs, Verdicts, Loads, Versions, Tokens,
       FlightEnds, Ends, Deactivate, DrainIf
  <2>2. TokenInv' /\ RepairInv'
    BY <1>15 DEF DataInv, Typed, TokenInv, RepairInv, Versions, Tokens, FlightEnds,
       Ends, Deactivate, DrainIf, NoFlight
  <2>3. EntriesAreFresh' /\ UnwrittenIsRetained'
    BY <1>15 DEF DataInv, Typed, TokenInv, RepairInv, EntriesAreFresh,
       UnwrittenIsRetained, Bumped, Versions, Tokens, FlightEnds, Ends, Deactivate,
       DrainIf, NoFlight
  <2> QED BY <2>1, <2>2, <2>3 DEF DataInv
<1> QED BY <1>1, <1>2, <1>3, <1>4, <1>5, <1>6, <1>7, <1>8, <1>9, <1>10, <1>11, <1>12,
   <1>13, <1>14, <1>15 DEF FlightStep

\* A step of Invalidate or of authorityBypass preserves it.
LEMMA DirectData ==
    ASSUME NEW c \in Callers, DataInv, DirectStep(c)
    PROVE  DataInv'
<1> USE BaseAssumption, NoneAssumption, AtAssumption, CallAssumption
    DEF vars, provider, local, caller, history
<1>1. CASE DirectBegins(c)
  <2>0. flight' \in [Callers -> Flights]
    BY <1>1 DEF DataInv, Typed, Tokens, Versions, FlightPCs, Verdicts, Loads,
       DirectBegins
  <2>1. Typed'
    BY <1>1, <2>0 DEF DataInv, Typed, FlightPCs, Verdicts, Loads, Versions, Tokens,
       DirectBegins
  <2>2. TokenInv' /\ RepairInv'
    BY <1>1 DEF DataInv, Typed, TokenInv, RepairInv, Versions, Tokens, DirectBegins
  <2>3. EntriesAreFresh' /\ UnwrittenIsRetained'
    BY <1>1 DEF DataInv, Typed, TokenInv, RepairInv, EntriesAreFresh,
       UnwrittenIsRetained, Bumped, Versions, Tokens, DirectBegins
  <2> QED BY <2>1, <2>2, <2>3 DEF DataInv
<1>2. CASE TransactionReads(c)
  <2>0. flight' \in [Callers -> Flights]
    BY <1>2 DEF DataInv, Typed, Tokens, Versions, FlightPCs, Verdicts, Loads,
       TransactionReads
  <2>1. Typed'
    <3>1. \E r \in Verdicts : Finishing(c, r)
      BY <1>2 DEF TransactionReads, ContextErrors, Verdicts, Loads
    <3>2. value' \in [Callers -> Versions \cup {None}]
      BY <1>2 DEF TransactionReads, DataInv, Typed
    <3>3. PICK r \in Verdicts : Finishing(c, r)
      BY <3>1
    <3> QED BY <1>2, <2>0, <3>2, <3>3 DEF TransactionReads, Finishing, DataInv, Typed, Versions
  <2>2. TokenInv' /\ RepairInv'
    BY <1>2 DEF DataInv, Typed, TokenInv, RepairInv, Versions, Tokens,
       TransactionReads, Finishing, ContextErrors
  <2>3. EntriesAreFresh' /\ UnwrittenIsRetained'
    BY <1>2 DEF DataInv, Typed, TokenInv, RepairInv, EntriesAreFresh,
       UnwrittenIsRetained, Bumped, Versions, Tokens, TransactionReads, Finishing,
       ContextErrors
  <2> QED BY <2>1, <2>2, <2>3 DEF DataInv
<1>3. CASE TakesToken(c)
  <2>0. flight' \in [Callers -> Flights]
    BY <1>3 DEF DataInv, Typed, Tokens, Versions, FlightPCs, Verdicts, Loads,
       TakesToken
  <2>1. Typed'
    <3>1. At[c] \in Instances
      BY AtAssumption
    <3> QED BY <1>3, <2>0, <3>1 DEF TakesToken, NextEpoch, DataInv, Typed, Versions
  <2>2. TokenInv' /\ RepairInv'
    BY <1>3 DEF DataInv, Typed, TokenInv, RepairInv, Versions, Tokens, TakesToken,
       NextEpoch
  <2>3. EntriesAreFresh' /\ UnwrittenIsRetained'
    BY <1>3 DEF DataInv, Typed, TokenInv, RepairInv, EntriesAreFresh,
       UnwrittenIsRetained, Bumped, Versions, Tokens, TakesToken, NextEpoch
  <2> QED BY <2>1, <2>2, <2>3 DEF DataInv
<1>4. CASE SetsGeneration(c)
  <2>0. flight' \in [Callers -> Flights]
    BY <1>4 DEF DataInv, Typed, Tokens, Versions, FlightPCs, Verdicts, Loads,
       SetsGeneration
  <2>1. Typed'
    BY <1>4, <2>0 DEF DataInv, Typed, FlightPCs, Verdicts, Loads, Versions, Tokens,
       SetsGeneration
  <2>2. TokenInv' /\ RepairInv'
    BY <1>4 DEF DataInv, Typed, TokenInv, RepairInv, Versions, Tokens, SetsGeneration
  <2>3. EntriesAreFresh' /\ UnwrittenIsRetained'
    BY <1>4 DEF DataInv, Typed, TokenInv, RepairInv, EntriesAreFresh,
       UnwrittenIsRetained, Bumped, Versions, Tokens, SetsGeneration
  <2> QED BY <2>1, <2>2, <2>3 DEF DataInv
<1>5. CASE SetFails(c)
  <2>0. flight' \in [Callers -> Flights]
    BY <1>5 DEF DataInv, Typed, Tokens, Versions, FlightPCs, Verdicts, Loads, SetFails
  <2>1. Typed'
    <3>1. \E r \in Verdicts : Finishing(c, r)
      BY <1>5 DEF SetFails, ContextErrors, Verdicts, Loads
    <3>2. generation' \in Tokens
      BY <1>5 DEF SetFails, DataInv, Typed, Tokens
    <3> QED BY <1>5, <2>0, <3>1, <3>2 DEF SetFails, Retained, Finishing, DataInv, Typed
  <2>2. TokenInv' /\ RepairInv'
    BY <1>5 DEF DataInv, Typed, TokenInv, RepairInv, Versions, Tokens, SetFails,
       Finishing, ContextErrors, Retained
  <2>3. EntriesAreFresh' /\ UnwrittenIsRetained'
    BY <1>5 DEF DataInv, Typed, TokenInv, RepairInv, EntriesAreFresh,
       UnwrittenIsRetained, Bumped, Versions, Tokens, SetFails, Finishing,
       ContextErrors, Retained
  <2> QED BY <2>1, <2>2, <2>3 DEF DataInv
<1>6. CASE InvalidateClears(c)
  <2>0. flight' \in [Callers -> Flights]
    BY <1>6 DEF DataInv, Typed, Tokens, Versions, FlightPCs, Verdicts, Loads,
       InvalidateClears
  <2>1. Typed'
    BY <1>6, <2>0 DEF DataInv, Typed, FlightPCs, Verdicts, Loads, Versions, Tokens,
       InvalidateClears, Finishing, Cleared
  <2>2. TokenInv' /\ RepairInv'
    BY <1>6 DEF DataInv, Typed, TokenInv, RepairInv, Versions, Tokens,
       InvalidateClears, Finishing, Cleared
  <2>3. EntriesAreFresh' /\ UnwrittenIsRetained'
    BY <1>6 DEF DataInv, Typed, TokenInv, RepairInv, EntriesAreFresh,
       UnwrittenIsRetained, Bumped, Versions, Tokens, InvalidateClears, Finishing,
       Cleared
  <2> QED BY <2>1, <2>2, <2>3 DEF DataInv
<1>7. CASE DirectEnds(c)
  <2>0. flight' \in [Callers -> Flights]
    BY <1>7 DEF DataInv, Typed, Tokens, Versions, FlightPCs, Verdicts, Loads,
       DirectEnds
  <2>1. Typed'
    BY <1>7, <2>0 DEF DataInv, Typed, FlightPCs, Verdicts, Loads, Versions, Tokens,
       DirectEnds, Deactivate, DrainIf
  <2>2. TokenInv' /\ RepairInv'
    BY <1>7 DEF DataInv, Typed, TokenInv, RepairInv, Versions, Tokens, DirectEnds,
       Deactivate, DrainIf
  <2>3. EntriesAreFresh' /\ UnwrittenIsRetained'
    BY <1>7 DEF DataInv, Typed, TokenInv, RepairInv, EntriesAreFresh,
       UnwrittenIsRetained, Bumped, Versions, Tokens, DirectEnds, Deactivate, DrainIf
  <2> QED BY <2>1, <2>2, <2>3 DEF DataInv
<1> QED BY <1>1, <1>2, <1>3, <1>4, <1>5, <1>6, <1>7 DEF DirectStep

\* A step of Close preserves it.
LEMMA CloseData ==
    ASSUME NEW c \in Callers, DataInv, CloseStep(c)
    PROVE  DataInv'
<1> USE BaseAssumption, NoneAssumption, AtAssumption, CallAssumption
    DEF vars, provider, local, caller, history
<1>1. CASE CloseBegins(c)
  <2>0. flight' \in [Callers -> Flights]
    BY <1>1 DEF DataInv, Typed, Tokens, Versions, FlightPCs, Verdicts, Loads,
       CloseBegins
  <2>1. Typed'
    BY <1>1, <2>0 DEF DataInv, Typed, FlightPCs, Verdicts, Loads, Versions, Tokens,
       CloseBegins, DrainIf
  <2>2. TokenInv' /\ RepairInv'
    BY <1>1 DEF DataInv, Typed, TokenInv, RepairInv, Versions, Tokens, CloseBegins,
       DrainIf
  <2>3. EntriesAreFresh' /\ UnwrittenIsRetained'
    BY <1>1 DEF DataInv, Typed, TokenInv, RepairInv, EntriesAreFresh,
       UnwrittenIsRetained, Bumped, Versions, Tokens, CloseBegins, DrainIf
  <2> QED BY <2>1, <2>2, <2>3 DEF DataInv
<1>2. CASE CloseReturns(c)
  <2>0. flight' \in [Callers -> Flights]
    BY <1>2 DEF DataInv, Typed, Tokens, Versions, FlightPCs, Verdicts, Loads,
       CloseReturns
  <2>1. Typed'
    <3>1. \E r \in Verdicts : Return(c, r)
      BY <1>2 DEF CloseReturns, Verdicts
    <3> QED BY <1>2, <2>0, <3>1 DEF CloseReturns, Return, DataInv, Typed
  <2>2. TokenInv' /\ RepairInv'
    BY <1>2 DEF DataInv, Typed, TokenInv, RepairInv, Versions, Tokens, CloseReturns,
       Return
  <2>3. EntriesAreFresh' /\ UnwrittenIsRetained'
    BY <1>2 DEF DataInv, Typed, TokenInv, RepairInv, EntriesAreFresh,
       UnwrittenIsRetained, Bumped, Versions, Tokens, CloseReturns, Return
  <2> QED BY <2>1, <2>2, <2>3 DEF DataInv
<1> QED BY <1>1, <1>2 DEF CloseStep

\* Neither does the environment nor a stutter disturb it.
LEMMA EnvironmentData ==
    ASSUME DataInv, Environment \/ (\E f \in Callers : LifeCancels(f)) \/ UNCHANGED vars
    PROVE  DataInv'
<1> USE BaseAssumption, NoneAssumption, AtAssumption, CallAssumption
    DEF vars, provider, local, caller, history
<1>1. CASE Commit
  <2>1. Typed'
    BY <1>1 DEF Commit, DataInv, Typed, Versions
  <2>2. TokenInv' /\ RepairInv'
    BY <1>1 DEF Commit, DataInv, Typed, TokenInv, RepairInv, Versions
  <2>3. EntriesAreFresh' /\ UnwrittenIsRetained'
    BY <1>1 DEF Commit, DataInv, EntriesAreFresh, UnwrittenIsRetained, Bumped
  <2> QED BY <2>1, <2>2, <2>3 DEF DataInv
<1>2. ASSUME NEW q \in Queries, NEW g \in Tokens, Expire(q, g)
      PROVE  DataInv'
  <2>1. /\ entries' \in [Queries -> [Tokens -> Versions \cup {None}]]
        /\ \A r \in Queries, t \in Tokens : entries'[r][t] \in {None, entries[r][t]}
    BY <1>2 DEF Expire, DataInv, Typed
  <2>2. Typed'
    BY <1>2, <2>1 DEF Expire, DataInv, Typed
  <2>3. TokenInv' /\ RepairInv'
    BY <1>2 DEF Expire, DataInv, TokenInv, RepairInv
  <2>4. EntriesAreFresh'
    BY <1>2, <2>1 DEF Expire, DataInv, EntriesAreFresh, Bumped, Tokens
  <2>5. UnwrittenIsRetained'
    BY <1>2 DEF Expire, DataInv, UnwrittenIsRetained, Bumped
  <2> QED BY <2>2, <2>3, <2>4, <2>5 DEF DataInv
<1>3. ASSUME NEW c \in Callers, Cancel(c)
      PROVE  DataInv'
  BY <1>3 DEF Cancel, DataInv, Typed, TokenInv, RepairInv, EntriesAreFresh,
     UnwrittenIsRetained, Bumped, Versions, Tokens
<1>4. ASSUME NEW f \in Callers, LifeCancels(f)
      PROVE  DataInv'
  <2>1. /\ flight' \in [Callers -> Flights]
        /\ \A g \in Callers : /\ flight'[g].pc = flight[g].pc
                               /\ flight'[g].gen = flight[g].gen
                               /\ flight'[g].data = flight[g].data
    <3>1. [flight[f] EXCEPT !.cancelled = TRUE] \in Flights
      BY CancelTyped DEF DataInv, Typed
    <3>2. flight' \in [Callers -> Flights]
      BY <1>4, <3>1 DEF LifeCancels, DataInv, Typed
    <3> QED BY <1>4, <3>2 DEF LifeCancels, DataInv, Typed, Flights
  <2>2. Typed'
    BY <1>4, <2>1 DEF LifeCancels, DataInv, Typed
  <2>3. TokenInv' /\ RepairInv'
    BY <1>4, <2>1 DEF LifeCancels, DataInv, TokenInv, RepairInv
  <2>4. EntriesAreFresh' /\ UnwrittenIsRetained'
    BY <1>4, <2>1 DEF LifeCancels, DataInv, EntriesAreFresh, UnwrittenIsRetained, Bumped
  <2> QED BY <2>2, <2>3, <2>4 DEF DataInv
<1>5. CASE UNCHANGED vars
  BY <1>5 DEF DataInv, Typed, TokenInv, RepairInv, EntriesAreFresh,
     UnwrittenIsRetained, Bumped
<1> QED BY <1>1, <1>2, <1>3, <1>4, <1>5 DEF Environment

LEMMA DataInvariance == Spec => []DataInv
<1>1. DataInv /\ [Next]_vars => DataInv'
  <2> SUFFICES ASSUME DataInv, [Next]_vars PROVE DataInv'
    OBVIOUS
  <2>1. CASE \E c \in Callers : LoadStep(c)   BY <2>1, LoadData
  <2>2. CASE \E f \in Callers : FlightStep(f) BY <2>2, FlightData
  <2>3. CASE \E c \in Callers : DirectStep(c) BY <2>3, DirectData
  <2>4. CASE \E c \in Callers : CloseStep(c)  BY <2>4, CloseData
  <2>5. CASE Environment \/ (\E f \in Callers : LifeCancels(f)) \/ UNCHANGED vars
    BY <2>5, EnvironmentData
  <2> QED BY <2>1, <2>2, <2>3, <2>4, <2>5 DEF Next, Terminated
<1> QED BY <1>1, InitData, PTL DEF Spec

\* An invalidation wins the race against every loader: nothing older than the
\* commit it reports is ever stored under its token.
THEOREM InvalidationWinsLoaderRace == Spec => []EntriesAreFresh
<1>1. DataInv => EntriesAreFresh BY DEF DataInv
<1> QED BY <1>1, DataInvariance, PTL

\* However provider writes fail and calls interleave, an instance keeps a token
\* it could not write until that token or a later one of its own is written.
THEOREM FailedInvalidationIsRetained == Spec => []UnwrittenIsRetained
<1>1. DataInv => UnwrittenIsRetained BY DEF DataInv
<1> QED BY <1>1, DataInvariance, PTL
-----------------------------------------------------------------------------
(* Close drains: the counter is the number of operations under way. *)

DirectPCs == {"bump", "set", "clear", "authority", "finish"}
Working(i) == {c \in Callers : At[c] = i /\ (Running(c) \/ pc[c] \in DirectPCs)}

\* A caller is at work with the flight it created or with its direct operation.
KindInv ==
  /\ \A c \in Callers : pc[c] = "idle" => flight[c].pc = "none"
  /\ \A c \in Callers : pc[c] \in DirectPCs => Call[c] \in {"invalidate", "bypass"}
  /\ \A c \in Callers : flight[c].pc # "none" => Call[c] = "load"

CountInv ==
  /\ active \in [Instances -> Nat]
  /\ \A i \in Instances : active[i] = Cardinality(Working(i))
  /\ \A i \in Instances : drained[i] => closed[i] /\ Working(i) = {}

DrainInv == KindInv /\ CountInv

LEMMA WorkingFinite == \A i \in Instances : IsFiniteSet(Working(i))
BY CallersAssumption, FS_Subset DEF Working

\* An operation that enters an open instance is counted.
LEMMA Entering ==
  ASSUME DataInv, CountInv, NEW c \in Callers, c \notin Working(At[c]), ~closed[At[c]],
         active' = [active EXCEPT ![At[c]] = @ + 1], UNCHANGED <<closed, drained>>,
         \A i \in Instances :
           Working(i)' = IF i = At[c] THEN Working(i) \cup {c} ELSE Working(i)
  PROVE  CountInv'
<1>1. At[c] \in Instances
  BY AtAssumption
<1>2. Cardinality(Working(At[c]) \cup {c}) = Cardinality(Working(At[c])) + 1
  BY <1>1, WorkingFinite, FS_AddElement
<1>3. ~drained[At[c]]
  BY <1>1 DEF CountInv
<1>4. ASSUME NEW i \in Instances
      PROVE  /\ active'[i] = Cardinality(Working(i)')
             /\ drained'[i] => closed'[i] /\ Working(i)' = {}
  BY <1>1, <1>2, <1>3 DEF CountInv
<1>5. active' \in [Instances -> Nat]
  BY <1>1 DEF CountInv
<1> QED BY <1>4, <1>5 DEF CountInv

\* An operation that ends is counted down, and the last one drains a closed instance.
LEMMA Leaving ==
  ASSUME DataInv, CountInv, NEW c \in Callers, c \in Working(At[c]), Deactivate(At[c]),
         UNCHANGED closed,
         \A i \in Instances :
           Working(i)' = IF i = At[c] THEN Working(i) \ {c} ELSE Working(i)
  PROVE  CountInv'
<1>1. At[c] \in Instances
  BY AtAssumption
<1>2. /\ Cardinality(Working(At[c]) \ {c}) = Cardinality(Working(At[c])) - 1
      /\ Cardinality(Working(At[c]) \ {c}) \in Nat
      /\ IsFiniteSet(Working(At[c]) \ {c})
  BY <1>1, WorkingFinite, FS_RemoveElement, FS_CardinalityType
<1>3. Cardinality(Working(At[c]) \ {c}) = 0 => Working(At[c]) \ {c} = {}
  BY <1>2, FS_EmptySet
<1>4. /\ active' = [active EXCEPT ![At[c]] = @ - 1]
      /\ drained' = [drained EXCEPT ![At[c]] = @ \/ (closed[At[c]] /\ active[At[c]] - 1 = 0)]
  BY DEF Deactivate, DrainIf
<1>5. ASSUME NEW i \in Instances
      PROVE  active'[i] = Cardinality(Working(i)')
  BY <1>1, <1>2, <1>4 DEF CountInv
<1>6. ASSUME NEW i \in Instances, drained'[i]
      PROVE  closed'[i] /\ Working(i)' = {}
  <2>1. CASE i # At[c]
    BY <1>4, <1>6, <2>1 DEF CountInv, DataInv, Typed
  <2>2. CASE i = At[c] /\ drained[i]
    BY <2>2 DEF CountInv
  <2>3. CASE i = At[c] /\ closed[i] /\ active[i] - 1 = 0
    BY <1>2, <1>3, <2>3 DEF CountInv
  <2> QED BY <1>1, <1>4, <1>6, <2>1, <2>2, <2>3 DEF DataInv, Typed
<1>7. active' \in [Instances -> Nat]
  BY <1>1, <1>2, <1>4 DEF CountInv
<1> QED BY <1>5, <1>6, <1>7 DEF CountInv

\* A step that begins and ends no operation leaves the count right.
LEMMA Staying ==
  ASSUME CountInv, UNCHANGED <<active, drained, closed>>,
         \A c \in Callers : (Running(c) \/ pc[c] \in DirectPCs) = (Running(c) \/ pc[c] \in DirectPCs)'
  PROVE  CountInv'
<1>1. ASSUME NEW i \in Instances
      PROVE  Working(i)' = Working(i)
  BY DEF Working
<1> QED BY <1>1 DEF CountInv

\* A step of a flight but its last keeps it running.
LEMMA FlightRuns ==
  ASSUME DataInv, NEW f \in Callers, FlightStep(f), ~FlightEnds(f)
  PROVE  /\ Running(f) /\ Running(f)' /\ \A g \in Callers \ {f} : flight'[g] = flight[g]
         /\ UNCHANGED <<active, drained, closed, pc>>
<1> USE DEF caller, local, history, provider
<1>0. flight \in [Callers -> Flights]
  BY DEF DataInv, Typed
<1>1. CASE NothingPending(f) \/ Repairs(f) \/ ClearsPending(f) \/ Misses(f)
  BY <1>0, <1>1, ContinueEffect DEF NothingPending, Repairs, ClearsPending, Misses,
     Running, FlightPCs
<1>2. CASE TakesPending(f) \/ ReadsGeneration(f)
  BY <1>0, <1>2 DEF TakesPending, ReadsGeneration, ContinueWith, Running, Flights
<1>3. CASE RepairFails(f) \/ ReadFails(f)
  BY <1>0, <1>3, ContinueEffect, ConcludeEffect DEF RepairFails, ReadFails, Abort, Running,
     FlightPCs
<1>4. CASE Hits(f) \/ AuthorityReads(f) \/ LoaderFails(f) \/ Stores(f) \/ StoreFails(f)
  BY <1>0, <1>4, ConcludeEffect DEF Hits, AuthorityReads, LoaderFails, Stores, StoreFails,
     Abort, Running
<1>5. CASE LoaderReads(f)
  BY <1>0, <1>5, ConcludeEffect DEF LoaderReads, Running, Flights
<1> QED BY <1>1, <1>2, <1>3, <1>4, <1>5 DEF FlightStep

LEMMA FlightDrain ==
  ASSUME DataInv, DrainInv, NEW f \in Callers, FlightStep(f)
  PROVE  DrainInv'
<1>1. CASE FlightEnds(f)
  <2>1. /\ Running(f) /\ ~Running(f)' /\ flight'[f].pc # "none"
        /\ flight[f].pc # "none" /\ UNCHANGED <<pc, closed>> /\ Deactivate(At[f])
        /\ \A g \in Callers \ {f} : flight'[g] = flight[g]
    BY <1>1 DEF FlightEnds, Ends, Running, NoFlight, Flights, DataInv, Typed, caller
  <2>2. KindInv'
    BY <2>1 DEF DrainInv, KindInv
  <2>3. pc[f] \notin DirectPCs
    BY <2>1 DEF DrainInv, KindInv
  <2>4. ASSUME NEW i \in Instances
        PROVE  Working(i)' = IF i = At[f] THEN Working(i) \ {f} ELSE Working(i)
    BY <2>1, <2>3 DEF Working, Running
  <2>5. f \in Working(At[f])
    BY <2>1 DEF Working
  <2> QED BY <2>1, <2>2, <2>4, <2>5, Leaving DEF DrainInv
<1>2. CASE ~FlightEnds(f)
  <2>1. /\ Running(f) /\ Running(f)' /\ \A g \in Callers \ {f} : flight'[g] = flight[g]
        /\ UNCHANGED <<active, drained, closed, pc>>
    BY <1>2, FlightRuns
  <2>2. KindInv'
    BY <2>1 DEF DrainInv, KindInv, Running
  <2>3. ASSUME NEW c \in Callers
        PROVE  (Running(c) \/ pc[c] \in DirectPCs) = (Running(c) \/ pc[c] \in DirectPCs)'
    BY <2>1 DEF Running
  <2> QED BY <2>1, <2>2, <2>3, Staying DEF DrainInv
<1> QED BY <1>1, <1>2

LEMMA LoadDrain ==
  ASSUME DataInv, DrainInv, NEW c \in Callers, LoadStep(c)
  PROVE  DrainInv'
<1> USE DEF local, provider, history
<1>1. CASE LoadFlies(c)
  <2>1. /\ pc' = [pc EXCEPT ![c] = "wait"] /\ UNCHANGED <<closed, drained>>
        /\ active' = [active EXCEPT ![At[c]] = @ + 1]
        /\ ~closed[At[c]] /\ Call[c] = "load" /\ pc[c] = "idle"
    BY <1>1 DEF LoadFlies, Await, Admitted
  <2>2. /\ flight'[c].pc = "pending"
        /\ \A g \in Callers \ {c} : flight'[g] = flight[g]
    BY <1>1 DEF LoadFlies, NoFlight, DataInv, Typed
  <2>3. ~Running(c) /\ Running(c)'
    BY <2>1, <2>2 DEF DrainInv, KindInv, Running
  <2>4. KindInv'
    BY <2>1, <2>2 DEF DrainInv, KindInv, DataInv, Typed, DirectPCs
  <2>5. c \notin Working(At[c])
    BY <2>1, <2>3 DEF Working, DirectPCs
  <2>6. ASSUME NEW i \in Instances
        PROVE  Working(i)' = IF i = At[c] THEN Working(i) \cup {c} ELSE Working(i)
    BY <2>1, <2>2, <2>3 DEF Working, Running, DirectPCs, DataInv, Typed
  <2> QED BY <2>1, <2>4, <2>5, <2>6, Entering DEF DrainInv
<1>2. CASE ~LoadFlies(c)
  <2>1. /\ \E s \in {"wait", "returned"} : pc' = [pc EXCEPT ![c] = s]
        /\ pc[c] \in {"idle", "wait"} /\ UNCHANGED <<active, drained, closed>>
        /\ UNCHANGED flight \/ (pc[c] = "wait" /\ Release(c))
    BY <1>2 DEF LoadStep, Refuse, RejectClosed, LoadJoins, Await, Admitted, LoadReturns,
       LoadLeaves, LoadLeavesClosed, Return
  <2>2. \A g \in Callers : flight'[g].pc = flight[g].pc
    <3>1. CASE UNCHANGED flight
      BY <3>1
    <3>2. CASE pc[c] = "wait" /\ Release(c)
      BY <3>2 DEF Release, DataInv, Typed, Flights
    <3> QED BY <2>1, <3>1, <3>2
  <2>3. KindInv'
    BY <2>1, <2>2 DEF DrainInv, KindInv, DataInv, Typed, DirectPCs
  <2>4. ASSUME NEW g \in Callers
        PROVE  (Running(g) \/ pc[g] \in DirectPCs) = (Running(g) \/ pc[g] \in DirectPCs)'
    BY <2>1, <2>2 DEF Running, DirectPCs, DataInv, Typed
  <2> QED BY <2>1, <2>3, <2>4, Staying DEF DrainInv
<1> QED BY <1>1, <1>2

LEMMA DirectDrain ==
  ASSUME DataInv, DrainInv, NEW c \in Callers, DirectStep(c)
  PROVE  DrainInv'
<1> USE DEF local, provider, history
<1>1. CASE DirectBegins(c)
  <2>1. /\ \E s \in DirectPCs : pc' = [pc EXCEPT ![c] = s]
        /\ UNCHANGED <<closed, drained, flight>>
        /\ active' = [active EXCEPT ![At[c]] = @ + 1]
        /\ ~closed[At[c]] /\ Call[c] \in {"invalidate", "bypass"} /\ pc[c] = "idle"
    BY <1>1 DEF DirectBegins, DirectCount, DirectPCs
  <2>2. KindInv'
    BY <2>1 DEF DrainInv, KindInv, DataInv, Typed, DirectPCs
  <2>3. c \notin Working(At[c])
    BY <2>1 DEF Working, Running, DirectPCs, DrainInv, KindInv
  <2>4. ASSUME NEW i \in Instances
        PROVE  Working(i)' = IF i = At[c] THEN Working(i) \cup {c} ELSE Working(i)
    BY <2>1 DEF Working, Running, DataInv, Typed
  <2> QED BY <2>1, <2>2, <2>3, <2>4, Entering DEF DrainInv
<1>2. CASE DirectEnds(c)
  <2>1. /\ pc[c] = "finish" /\ pc' = [pc EXCEPT ![c] = "returned"]
        /\ UNCHANGED <<flight, closed>> /\ Deactivate(At[c])
    BY <1>2 DEF DirectEnds
  <2>2. KindInv'
    BY <2>1 DEF DrainInv, KindInv, DataInv, Typed, DirectPCs
  <2>3. ~Running(c)
    BY <2>1 DEF Running, DrainInv, KindInv, DirectPCs
  <2>4. c \in Working(At[c])
    BY <2>1 DEF Working, DirectPCs
  <2>5. ASSUME NEW i \in Instances
        PROVE  Working(i)' = IF i = At[c] THEN Working(i) \ {c} ELSE Working(i)
    BY <2>1, <2>3 DEF Working, Running, DataInv, Typed, DirectPCs
  <2> QED BY <2>1, <2>2, <2>4, <2>5, Leaving DEF DrainInv
<1>3. CASE ~DirectBegins(c) /\ ~DirectEnds(c)
  <2>1. /\ \E s \in DirectPCs : pc' = [pc EXCEPT ![c] = s]
        /\ pc[c] \in DirectPCs /\ UNCHANGED <<active, drained, closed, flight>>
    BY <1>3 DEF DirectStep, TransactionReads, TakesToken, SetsGeneration, SetFails,
       InvalidateClears, Finishing, DirectPCs
  <2>2. KindInv'
    BY <2>1 DEF DrainInv, KindInv, DataInv, Typed, DirectPCs
  <2>3. ASSUME NEW g \in Callers
        PROVE  (Running(g) \/ pc[g] \in DirectPCs) = (Running(g) \/ pc[g] \in DirectPCs)'
    BY <2>1 DEF Running, DataInv, Typed
  <2> QED BY <2>1, <2>2, <2>3, Staying DEF DrainInv
<1> QED BY <1>1, <1>2, <1>3

LEMMA CloseDrain ==
  ASSUME DataInv, DrainInv, NEW c \in Callers, CloseStep(c)
  PROVE  DrainInv'
<1> USE DEF local, provider, history
<1>1. /\ \E s \in {"drain", "returned"} : pc' = [pc EXCEPT ![c] = s]
      /\ pc[c] \in {"idle", "drain"} /\ UNCHANGED <<active, flight>>
  BY DEF CloseStep, CloseBegins, CloseReturns, Return
<1>2. KindInv'
  BY <1>1 DEF DrainInv, KindInv, DataInv, Typed, DirectPCs
<1>3. ASSUME NEW i \in Instances
      PROVE  Working(i)' = Working(i)
  BY <1>1 DEF Working, Running, DirectPCs, DataInv, Typed
<1>4. CASE CloseBegins(c)
  <2>1. At[c] \in Instances
    BY AtAssumption
  <2>2. /\ closed' = [closed EXCEPT ![At[c]] = TRUE]
        /\ drained' = [drained EXCEPT ![At[c]] = @ \/ (TRUE /\ active[At[c]] = 0)]
    BY <1>4 DEF CloseBegins, DrainIf
  <2>3. active[At[c]] = 0 => Working(At[c]) = {}
    BY <2>1, WorkingFinite, FS_EmptySet DEF DrainInv, CountInv
  <2>4. ASSUME NEW i \in Instances, drained'[i]
        PROVE  closed'[i] /\ Working(i) = {}
    BY <2>1, <2>2, <2>3, <2>4 DEF DrainInv, CountInv, DataInv, Typed
  <2> QED BY <1>1, <1>2, <1>3, <2>4 DEF DrainInv, CountInv
<1>5. CASE CloseReturns(c)
  BY <1>1, <1>2, <1>3, <1>5 DEF CloseReturns, DrainInv, CountInv
<1> QED BY <1>4, <1>5 DEF CloseStep

LEMMA EnvironmentDrain ==
  ASSUME DataInv, DrainInv,
         Environment \/ (\E f \in Callers : LifeCancels(f)) \/ UNCHANGED vars
  PROVE  DrainInv'
<1> USE DEF local, provider, caller, history, vars
<1>1. UNCHANGED <<active, drained, closed, pc>>
  BY DEF Environment, Commit, Expire, Cancel, LifeCancels
<1>2. \A g \in Callers : flight'[g].pc = flight[g].pc
  <2>1. ASSUME NEW f \in Callers, LifeCancels(f)
        PROVE  \A g \in Callers : flight'[g].pc = flight[g].pc
    BY <2>1 DEF LifeCancels, DataInv, Typed, Flights
  <2>2. CASE Environment \/ UNCHANGED vars
    BY <2>2 DEF Environment, Commit, Expire, Cancel
  <2> QED BY <2>1, <2>2
<1>3. KindInv'
  BY <1>1, <1>2 DEF DrainInv, KindInv
<1>4. ASSUME NEW g \in Callers
      PROVE  (Running(g) \/ pc[g] \in DirectPCs) = (Running(g) \/ pc[g] \in DirectPCs)'
  BY <1>1, <1>2 DEF Running
<1> QED BY <1>1, <1>3, <1>4, Staying DEF DrainInv

LEMMA DrainInvariance == Spec => []DrainInv
<1>1. Init => DrainInv
  <2> SUFFICES ASSUME Init PROVE DrainInv
    OBVIOUS
  <2>1. \A i \in Instances : Working(i) = {}
    BY DEF Init, Working, Running, NoFlight, DirectPCs
  <2> QED BY <2>1, FS_EmptySet DEF Init, DrainInv, KindInv, CountInv, NoFlight, DirectPCs
<1>2. DataInv /\ DrainInv /\ [Next]_vars => DrainInv'
  <2> SUFFICES ASSUME DataInv, DrainInv, [Next]_vars PROVE DrainInv'
    OBVIOUS
  <2>1. CASE \E c \in Callers : LoadStep(c)   BY <2>1, LoadDrain
  <2>2. CASE \E f \in Callers : FlightStep(f) BY <2>2, FlightDrain
  <2>3. CASE \E c \in Callers : DirectStep(c) BY <2>3, DirectDrain
  <2>4. CASE \E c \in Callers : CloseStep(c)  BY <2>4, CloseDrain
  <2>5. CASE Environment \/ (\E f \in Callers : LifeCancels(f)) \/ UNCHANGED vars
    BY <2>5, EnvironmentDrain
  <2> QED BY <2>1, <2>2, <2>3, <2>4, <2>5 DEF Next, Terminated
<1> QED BY <1>1, <1>2, DataInvariance, PTL DEF Spec

\* When Close has drained an instance nothing of it is under way any more, however
\* many loads, invalidations and transactions it was serving.
THEOREM DrainedIsQuiet == Spec => []DrainMeansQuiet
<1>1. DrainInv => DrainMeansQuiet
  <2>1. \A i \in Instances : Busy(i) => Working(i) # {}
    BY DEF Busy, Working, DirectPCs
  <2> QED BY <2>1 DEF DrainInv, CountInv, DrainMeansQuiet
<1> QED BY <1>1, DrainInvariance, PTL

\* Every reachable state is well typed; in particular the counter of operations
\* under way never falls below zero.
THEOREM CacheTypeCorrect == Spec => []TypeOK
<1>1. DataInv /\ DrainInv => TypeOK
  BY DEF DataInv, Typed, DrainInv, CountInv, TypeOK
<1> QED BY <1>1, DataInvariance, DrainInvariance, PTL

-----------------------------------------------------------------------------
(* Who shares a flight, and what one invalidation is worth to loads.       *)


\* A caller whom the end of the flight it waits for may tell that it was cancelled.
Excused(c) == cancelled[c] \/ closed[At[c]] \/ c \in joinedDead

\* A flight belongs to an epoch of its instance, and is cancelled, or reports that
\* it was, only if everybody who waits for it is excused.
SharingInv ==
  /\ FlightsAreShared
  /\ \A f \in Callers : flight[f].epoch <= epoch[At[f]]
  /\ \A c \in Callers : pc[c] = "wait" => Call[c] = "load" /\ At[joined[c]] = At[c]
  /\ \A c \in Callers : pc[c] = "drain" => Call[c] = "close"
  /\ \A f \in Callers : Running(f) /\ flight[f].verdict = "canceled" => flight[f].cancelled
  /\ \A c \in Callers :
       pc[c] = "wait" /\ (flight[joined[c]].cancelled \/ flight[joined[c]].verdict = "canceled")
       => Excused(c)
  /\ WaiterIsolation

\* The flight has not read the generation yet, or reads the one of the invalidation
\* x, or has data that x does not make obsolete.
Serves(f, x) ==
  /\ flight[f].pc = "generation" => generation # Base
  /\ flight[f].pc = "read" => flight[f].gen # Base
  /\ flight[f].data # None => flight[f].data >= floor[x]

\* Once the only invalidation has been written its token is the generation; flights
\* it does not come too late for read it, or pass the provider by.
ObserveInv ==
  /\ \A x \in Callers : Bumped(x) \/ pc[x] = "bump" => Call[x] = "invalidate"
  /\ written # {} => generation # Base
  /\ \A x \in Callers : result[x] = "invalidated" /\ Call[x] = "invalidate" => x \in written
  /\ \A c \in Callers : Call[c] # "load" => after[c] = {}
  /\ \A c \in Callers : pc[c] = "idle" => value[c] = None
  /\ \A c \in Callers : \A x \in after[c] : Bumped(x) /\ (At[x] = At[c] \/ x \in written)
  /\ \A f, x \in Callers :
       Running(f) /\ Bumped(x) /\ At[x] = At[f] /\ flight[f].epoch >= turn[x] => Serves(f, x)
  /\ \A f \in Callers : Running(f) => \A x \in after[f] : Serves(f, x)
  /\ \A c \in Callers : pc[c] = "wait" => \A x \in after[c] : Serves(joined[c], x)
  /\ ReadsObserveInvalidation
-----------------------------------------------------------------------------
(* Who shares a flight, and who may be told that it was cancelled. *)

\* A step that begins no flight and lets nobody join one keeps the invariant if
\* whoever is told of a cancellation has reason to be.
LEMMA SharingKept ==
  ASSUME SharingInv,
         \A f \in Callers : flight'[f].epoch <= epoch'[At[f]],
         \A f \in Callers : Running(f)' => Running(f) /\ flight'[f].epoch = flight[f].epoch,
         \A f \in Callers : flight'[f].cancelled =>
           \/ flight[f].cancelled
           \/ \A c \in Callers : pc'[c] = "wait" /\ joined'[c] = f => Excused(c)',
         \A f \in Callers : flight'[f].verdict = "canceled" =>
           /\ flight[f].verdict = "canceled" \/ flight[f].cancelled
           /\ Running(f)' => flight'[f].cancelled,
         \A c \in Callers : pc'[c] = "wait" => pc[c] = "wait" /\ joined'[c] = joined[c]
                                               /\ joined[c] \in Callers,
         \A c \in Callers : Excused(c) => Excused(c)',
         \A c \in Callers : Call[c] = "load" /\ result'[c] = "canceled"
                            => result[c] = "canceled" \/ Excused(c)',
         \A c \in Callers : pc'[c] = "drain" => Call[c] = "close"
  PROVE  SharingInv'
<1>1. FlightsAreShared'
  BY DEF SharingInv, FlightsAreShared
<1>2. ASSUME NEW c \in Callers, pc'[c] = "wait",
             flight'[joined[c]].cancelled \/ flight'[joined[c]].verdict = "canceled"
      PROVE  Excused(c)'
  <2>1. pc[c] = "wait" /\ joined'[c] = joined[c] /\ joined[c] \in Callers
    BY <1>2
  <2>2. CASE flight[joined[c]].cancelled \/ flight[joined[c]].verdict = "canceled"
    BY <2>1, <2>2 DEF SharingInv
  <2>3. CASE ~flight[joined[c]].cancelled /\ flight[joined[c]].verdict # "canceled"
    BY <1>2, <2>1, <2>3
  <2> QED BY <2>2, <2>3
<1>3. WaiterIsolation'
  BY DEF SharingInv, WaiterIsolation, Excused
<1> QED BY <1>1, <1>2, <1>3 DEF SharingInv

\* What a step of a flight but its last leaves of it.
LEMMA FlightEffects ==
  ASSUME DataInv, NEW f \in Callers, FlightStep(f), ~FlightEnds(f)
  PROVE  /\ flight'[f].epoch = flight[f].epoch
         /\ flight'[f].cancelled = flight[f].cancelled
         /\ flight'[f].verdict = "canceled"
            => flight[f].verdict = "canceled" \/ flight[f].cancelled
         /\ UNCHANGED <<epoch, caller, floor, turn, after, joinedDead>>
<1> USE DEF local, caller, provider, history
<1>0. flight \in [Callers -> Flights]
  BY DEF DataInv, Typed
<1>1. ASSUME NEW n, Continue(f, n)
      PROVE  /\ flight'[f].epoch = flight[f].epoch /\ flight'[f].verdict = flight[f].verdict
             /\ flight'[f].cancelled = flight[f].cancelled
  BY <1>0, <1>1 DEF Continue, Flights
<1>2. ASSUME NEW n, NEW g, ContinueWith(f, n, g)
      PROVE  /\ flight'[f].epoch = flight[f].epoch /\ flight'[f].verdict = flight[f].verdict
             /\ flight'[f].cancelled = flight[f].cancelled
  BY <1>0, <1>2 DEF ContinueWith, Flights
<1>3. ASSUME NEW v, NEW d, Conclude(f, v, d)
      PROVE  /\ flight'[f].epoch = flight[f].epoch /\ flight'[f].verdict = v
             /\ flight'[f].cancelled = flight[f].cancelled
  BY <1>0, <1>3 DEF Conclude, Flights, NoFlight
<1>4. CASE NothingPending(f) \/ Repairs(f) \/ ClearsPending(f) \/ Misses(f)
  BY <1>1, <1>4 DEF NothingPending, Repairs, ClearsPending, Misses
<1>5. CASE TakesPending(f) \/ ReadsGeneration(f)
  BY <1>2, <1>5 DEF TakesPending, ReadsGeneration
<1>6. CASE RepairFails(f) \/ ReadFails(f)
  BY <1>1, <1>3, <1>6 DEF RepairFails, ReadFails, Abort
<1>7. CASE Hits(f) \/ AuthorityReads(f) \/ LoaderFails(f) \/ Stores(f) \/ StoreFails(f)
  BY <1>3, <1>7 DEF Hits, AuthorityReads, LoaderFails, Stores, StoreFails, Abort
<1>8. CASE LoaderReads(f)
  <2>1. CASE Conclude(f, "large", authority)
    BY <1>3, <1>8, <2>1 DEF LoaderReads
  <2>2. CASE flight' = [flight EXCEPT ![f] = [@ EXCEPT !.pc = "store", !.data = authority]]
    BY <1>0, <1>8, <2>2 DEF LoaderReads, Flights
  <2> QED BY <1>8, <2>1, <2>2 DEF LoaderReads
<1> QED BY <1>4, <1>5, <1>6, <1>7, <1>8 DEF FlightStep

LEMMA FlightSharing ==
  ASSUME DataInv, SharingInv, NEW f \in Callers, FlightStep(f)
  PROVE  SharingInv'
<1> USE DEF caller, local, history, provider
<1>0. /\ \A c \in Callers : pc[c] = "wait" => joined[c] \in Callers
      /\ flight \in [Callers -> Flights] /\ \A i \in Instances : epoch[i] \in Nat
      /\ \A c \in Callers : At[c] \in Instances
  BY AtAssumption DEF DataInv, Typed
<1>1. CASE FlightEnds(f)
  <2>1. /\ flight'[f].epoch = 0 /\ ~flight'[f].cancelled /\ ~Running(f)'
        /\ flight'[f].verdict = flight[f].verdict
        /\ \A g \in Callers \ {f} : flight'[g] = flight[g]
        /\ UNCHANGED <<pc, joined, cancelled, closed, joinedDead, result, epoch>>
    BY <1>0, <1>1 DEF FlightEnds, Ends, NoFlight, Running
  <2>2. \A g \in Callers : flight'[g].epoch <= epoch'[At[g]]
    BY <1>0, <2>1 DEF SharingInv
  <2> QED BY <1>0, <2>1, <2>2, SharingKept DEF SharingInv, Running, Excused
<1>2. CASE ~FlightEnds(f)
  <2>1. /\ flight'[f].epoch = flight[f].epoch /\ flight'[f].cancelled = flight[f].cancelled
        /\ flight'[f].verdict = "canceled"
           => flight[f].verdict = "canceled" \/ flight[f].cancelled
        /\ UNCHANGED <<pc, joined, cancelled, result, joinedDead, epoch>>
    BY <1>2, FlightEffects
  <2>2. /\ Running(f) /\ Running(f)' /\ \A g \in Callers \ {f} : flight'[g] = flight[g]
        /\ UNCHANGED closed
    BY <1>2, FlightRuns
  <2>3. \A g \in Callers : flight'[g].epoch <= epoch'[At[g]]
    BY <2>1, <2>2 DEF SharingInv
  <2>4. flight[f].verdict = "canceled" => flight[f].cancelled
    BY <2>2 DEF SharingInv
  <2> QED BY <1>0, <2>1, <2>2, <2>3, <2>4, SharingKept DEF SharingInv, Running, Excused
<1> QED BY <1>1, <1>2

\* The waiter that leaves last is the only one a cancelled flight had.
LEMMA ReleaseSharing ==
  ASSUME DataInv, SharingInv, NEW c \in Callers, pc[c] = "wait", Release(c),
         pc' = [pc EXCEPT ![c] = "returned"],
         UNCHANGED <<joined, cancelled, closed, joinedDead, epoch>>,
         \E r : result' = [result EXCEPT ![c] = r] /\ (r = "canceled" => Excused(c))
  PROVE  SharingInv'
<1>0. /\ \A d \in Callers : pc[d] = "wait" => joined[d] \in Callers
      /\ flight \in [Callers -> Flights] /\ joined[c] \in Callers
      /\ pc \in [Callers -> {"idle", "wait", "bump", "set", "clear", "authority",
                             "finish", "drain", "returned"}]
  BY DEF DataInv, Typed
<1>1. /\ \A g \in Callers \ {joined[c]} : flight'[g] = flight[g]
      /\ flight'[joined[c]] = [flight[joined[c]] EXCEPT !.cancelled = @ \/ LastWaiter(c)]
  BY <1>0 DEF Release
<1>2. \A g \in Callers : /\ flight'[g].epoch = flight[g].epoch /\ flight'[g].pc = flight[g].pc
                         /\ flight'[g].verdict = flight[g].verdict
  BY <1>0, <1>1 DEF Flights
<1>3. \A g \in Callers : flight[g].cancelled => flight'[g].cancelled
  BY <1>0, <1>1 DEF Flights
<1>4. ASSUME NEW g \in Callers, flight'[g].cancelled, ~flight[g].cancelled,
             NEW d \in Callers, pc'[d] = "wait", joined'[d] = g
      PROVE  FALSE
  <2>1. g = joined[c] /\ LastWaiter(c)
    BY <1>0, <1>1, <1>4 DEF Flights
  <2>2. d # c /\ pc[d] = "wait" /\ joined[d] = g
    BY <1>0, <1>4
  <2> QED BY <2>1, <2>2 DEF LastWaiter, Waiters
<1>5. \A d \in Callers : /\ pc'[d] = "wait" => pc[d] = "wait"
                         /\ pc'[d] = "drain" => pc[d] = "drain"
                         /\ result'[d] = "canceled" => result[d] = "canceled" \/ Excused(d)
  BY <1>0 DEF DataInv, Typed
<1>6. \A g \in Callers : Running(g)' <=> Running(g)
  BY <1>2 DEF Running
<1>7. \A g \in Callers : flight'[g].epoch <= epoch'[At[g]]
  BY <1>2 DEF SharingInv
<1>8. \A d \in Callers : Excused(d)' <=> Excused(d)
  BY DEF Excused
<1> QED BY <1>0, <1>2, <1>3, <1>4, <1>5, <1>6, <1>7, <1>8, SharingKept DEF SharingInv

LEMMA LoadSharing ==
  ASSUME DataInv, DrainInv, SharingInv, NEW c \in Callers, LoadStep(c)
  PROVE  SharingInv'
<1> USE DEF caller, local, history, provider
<1>0. /\ \A d \in Callers : pc[d] = "wait" => joined[d] \in Callers
      /\ flight \in [Callers -> Flights] /\ \A i \in Instances : epoch[i] \in Nat
      /\ \A d \in Callers : At[d] \in Instances
      /\ pc \in [Callers -> {"idle", "wait", "bump", "set", "clear", "authority",
                             "finish", "drain", "returned"}]
      /\ joined \in [Callers -> Callers \cup {None}] /\ result \in [Callers -> Verdicts]
  BY AtAssumption DEF DataInv, Typed
<1>1. ASSUME NEW r, Return(c, r), UNCHANGED <<flight, joined, cancelled, closed, joinedDead, epoch>>,
             r = "canceled" => Excused(c)
      PROVE  SharingInv'
  <2>1. \A d \in Callers : /\ pc'[d] = "wait" => pc[d] = "wait"
                           /\ pc'[d] = "drain" => pc[d] = "drain"
                           /\ result'[d] = "canceled" => result[d] = "canceled" \/ Excused(d)
    BY <1>0, <1>1 DEF Return
  <2>2. \A g \in Callers : flight'[g].epoch <= epoch'[At[g]]
    BY <1>1 DEF SharingInv
  <2> QED BY <1>0, <1>1, <2>1, <2>2, SharingKept DEF SharingInv, Running, Excused
<1>2. CASE Refuse(c) \/ RejectClosed(c)
  BY <1>1, <1>2 DEF Refuse, RejectClosed, Excused
<1>3. CASE LoadReturns(c)
  BY <1>1, <1>3 DEF LoadReturns, SharingInv
<1>4. CASE LoadLeaves(c) \/ LoadLeavesClosed(c)
  <2>1. /\ \E r : Return(c, r) /\ (r = "canceled" => Excused(c))
        /\ pc[c] = "wait" /\ Release(c)
        /\ UNCHANGED <<joined, cancelled, closed, joinedDead, epoch>>
    BY <1>4 DEF LoadLeaves, LoadLeavesClosed, Excused
  <2>2. /\ pc' = [pc EXCEPT ![c] = "returned"]
        /\ \E r : result' = [result EXCEPT ![c] = r] /\ (r = "canceled" => Excused(c))
    BY <2>1 DEF Return
  <2> QED BY <2>1, <2>2, ReleaseSharing
<1>5. CASE LoadJoins(c)
  <2>1. PICK g \in Existing(c) :
          /\ Await(c, g, OwnTokens(c) \cup after[g])
          /\ joinedDead' = IF flight[g].cancelled THEN joinedDead \cup {c} ELSE joinedDead
    BY <1>5 DEF LoadJoins
  <2>2. /\ g \in Callers /\ Running(g) /\ At[g] = At[c] /\ UNCHANGED flight
        /\ Call[c] = "load" /\ UNCHANGED <<closed, cancelled, epoch, result>>
        /\ pc' = [pc EXCEPT ![c] = "wait"] /\ joined' = [joined EXCEPT ![c] = g]
    BY <1>5, <2>1 DEF LoadJoins, Existing, Admitted, Await
  <2>3. \A d \in Callers : Excused(d) => Excused(d)'
    BY <2>1, <2>2 DEF Excused
  <2>4. ASSUME NEW d \in Callers, pc'[d] = "wait",
               flight[joined'[d]].cancelled \/ flight[joined'[d]].verdict = "canceled"
        PROVE  Excused(d)'
    <3>1. CASE d = c
      <4>1. joined'[d] = g
        BY <1>0, <2>2, <3>1
      <4>2. flight[g].cancelled
        BY <2>2, <2>4, <4>1 DEF SharingInv
      <4> QED BY <2>1, <3>1, <4>2 DEF Excused
    <3>2. CASE d # c
      BY <1>0, <2>2, <2>3, <2>4, <3>2 DEF SharingInv
    <3> QED BY <3>1, <3>2
  <2>5. \A d \in Callers : /\ pc'[d] = "wait" => Call[d] = "load" /\ At[joined'[d]] = At[d]
                           /\ pc'[d] = "drain" => Call[d] = "close"
    BY <1>0, <2>2 DEF SharingInv
  <2>6. FlightsAreShared' /\ WaiterIsolation'
    BY <2>2, <2>3 DEF SharingInv, FlightsAreShared, WaiterIsolation, Running, Excused
  <2> QED BY <2>2, <2>4, <2>5, <2>6 DEF SharingInv, Running
<1>6. CASE LoadFlies(c)
  <2>1. /\ pc[c] = "idle" /\ Call[c] = "load" /\ Existing(c) = {}
        /\ pc' = [pc EXCEPT ![c] = "wait"] /\ joined' = [joined EXCEPT ![c] = c]
        /\ UNCHANGED <<closed, cancelled, epoch, result, joinedDead>>
    BY <1>6 DEF LoadFlies, Admitted, Await
  <2>2. /\ \A g \in Callers \ {c} : flight'[g] = flight[g]
        /\ flight'[c].epoch = epoch[At[c]] /\ ~flight'[c].cancelled
        /\ flight'[c].verdict = "none"
    BY <1>0, <1>6 DEF LoadFlies, NoFlight
  <2>3. ASSUME NEW g \in Callers, Running(g), At[g] = At[c], Asks[g] = Asks[c], g # c
        PROVE  flight[g].epoch # epoch[At[c]]
    BY <2>1, <2>3 DEF Existing
  <2>4. FlightsAreShared'
    BY <2>2, <2>3 DEF SharingInv, FlightsAreShared, Running
  <2>5. \A f \in Callers : flight'[f].epoch <= epoch'[At[f]]
    BY <1>0, <2>1, <2>2 DEF SharingInv
  <2>6. ASSUME NEW d \in Callers, pc'[d] = "wait",
               flight'[joined'[d]].cancelled \/ flight'[joined'[d]].verdict = "canceled"
        PROVE  Excused(d)'
    <3>1. d # c /\ pc[d] = "wait" /\ joined'[d] = joined[d] /\ joined[d] # c
      BY <1>0, <2>1, <2>2, <2>6
    <3> QED BY <1>0, <2>1, <2>2, <2>6, <3>1 DEF SharingInv, Excused
  <2>7. \A d \in Callers : /\ pc'[d] = "wait" => Call[d] = "load" /\ At[joined'[d]] = At[d]
                           /\ pc'[d] = "drain" => Call[d] = "close"
    BY <1>0, <2>1 DEF SharingInv
  <2>8. \A f \in Callers : Running(f)' /\ flight'[f].verdict = "canceled" => flight'[f].cancelled
    BY <2>2 DEF SharingInv, Running
  <2>9. WaiterIsolation'
    BY <2>1 DEF SharingInv, WaiterIsolation
  <2> QED BY <2>4, <2>5, <2>6, <2>7, <2>8, <2>9 DEF SharingInv
<1> QED BY <1>2, <1>3, <1>4, <1>5, <1>6 DEF LoadStep

\* The steps that are no load's and no flight's: they return nothing to a load.
LEMMA OtherSharing ==
  ASSUME DataInv, DrainInv, SharingInv,
         \/ \E c \in Callers : DirectStep(c) \/ CloseStep(c) \/ LifeCancels(c)
         \/ Environment \/ UNCHANGED vars
  PROVE  SharingInv'
<1> USE DEF caller, local, history, provider, vars
<1>0. /\ \A d \in Callers : pc[d] = "wait" => joined[d] \in Callers
      /\ flight \in [Callers -> Flights] /\ \A i \in Instances : epoch[i] \in Nat
      /\ \A d \in Callers : At[d] \in Instances
      /\ pc \in [Callers -> {"idle", "wait", "bump", "set", "clear", "authority",
                             "finish", "drain", "returned"}]
      /\ result \in [Callers -> Verdicts]
      /\ closed \in [Instances -> BOOLEAN] /\ cancelled \in [Callers -> BOOLEAN]
  BY AtAssumption DEF DataInv, Typed
<1>1. ASSUME NEW c \in Callers, DirectStep(c)
      PROVE  SharingInv'
  <2>1. /\ Call[c] # "load" /\ \E s \in DirectPCs \cup {"returned"} : pc' = [pc EXCEPT ![c] = s]
        /\ UNCHANGED <<flight, joined, cancelled, closed, joinedDead>>
        /\ \A d \in Callers : d # c => result'[d] = result[d]
    BY <1>0, <1>1 DEF DirectStep, DirectBegins, TransactionReads, TakesToken, SetsGeneration,
       SetFails, InvalidateClears, DirectEnds, Finishing, DirectPCs, DrainInv, KindInv,
       Deactivate
  <2>2. \A i \in Instances : epoch[i] <= epoch'[i]
    <3>1. UNCHANGED epoch \/ epoch' = [epoch EXCEPT ![At[c]] = @ + 1]
      BY <1>1 DEF DirectStep, DirectBegins, TransactionReads, TakesToken, SetsGeneration,
         SetFails, InvalidateClears, DirectEnds, NextEpoch
    <3>2. ASSUME NEW i \in Instances
          PROVE  epoch[i] <= epoch'[i]
      <4>1. epoch[i] \in Nat /\ epoch \in [Instances -> Nat]
        BY <1>0 DEF DataInv, Typed
      <4> QED BY <3>1, <4>1
    <3> QED BY <3>2
  <2>3. \A g \in Callers : flight'[g].epoch <= epoch'[At[g]]
    <3>1. ASSUME NEW g \in Callers
          PROVE  flight'[g].epoch <= epoch'[At[g]]
      <4>1. flight[g].epoch \in Nat /\ epoch[At[g]] \in Nat /\ epoch'[At[g]] \in Nat
        BY <1>0, <1>1, DirectData DEF Flights, DataInv, Typed
      <4> QED BY <1>0, <2>1, <2>2, <4>1 DEF SharingInv
    <3> QED BY <3>1
  <2>4. \A d \in Callers : /\ pc'[d] = "wait" => pc[d] = "wait"
                           /\ pc'[d] = "drain" => pc[d] = "drain"
                           /\ Call[d] = "load" => result'[d] = result[d]
    BY <1>0, <2>1 DEF DirectPCs
  <2> QED BY <1>0, <2>1, <2>3, <2>4, SharingKept DEF SharingInv, Running, Excused
<1>2. ASSUME NEW c \in Callers, CloseStep(c)
      PROVE  SharingInv'
  <2>1. /\ Call[c] = "close" /\ \E s \in {"drain", "returned"} : pc' = [pc EXCEPT ![c] = s]
        /\ UNCHANGED <<flight, joined, cancelled, joinedDead, epoch>>
        /\ \A i \in Instances : closed[i] => closed'[i]
        /\ \A d \in Callers : d # c => result'[d] = result[d]
    BY <1>0, <1>2 DEF CloseStep, CloseBegins, CloseReturns, Return, SharingInv
  <2>2. \A g \in Callers : flight'[g].epoch <= epoch'[At[g]]
    BY <2>1 DEF SharingInv
  <2>3. \A d \in Callers : /\ pc'[d] = "wait" => pc[d] = "wait"
                           /\ pc'[d] = "drain" => Call[d] = "close"
                           /\ Call[d] = "load" => result'[d] = result[d]
    BY <1>0, <2>1 DEF SharingInv
  <2> QED BY <1>0, <2>1, <2>2, <2>3, SharingKept DEF SharingInv, Running, Excused
<1>3. ASSUME NEW f \in Callers, LifeCancels(f)
      PROVE  SharingInv'
  <2>1. /\ UNCHANGED <<pc, joined, cancelled, closed, joinedDead, epoch, result>>
        /\ \A g \in Callers \ {f} : flight'[g] = flight[g]
        /\ flight'[f] = [flight[f] EXCEPT !.cancelled = TRUE]
        /\ closed[At[f]]
    BY <1>0, <1>3 DEF LifeCancels
  <2>2. \A g \in Callers : /\ flight'[g].epoch = flight[g].epoch /\ flight'[g].pc = flight[g].pc
                           /\ flight'[g].verdict = flight[g].verdict
                           /\ flight[g].cancelled => flight'[g].cancelled
    BY <1>0, <2>1 DEF Flights
  <2>3. \A d \in Callers : pc'[d] = "wait" /\ joined'[d] = f => Excused(d)'
    BY <2>1 DEF SharingInv, Excused
  <2>4. \A g \in Callers : flight'[g].epoch <= epoch'[At[g]]
    BY <2>1, <2>2 DEF SharingInv
  <2> QED BY <1>0, <2>1, <2>2, <2>3, <2>4, SharingKept DEF SharingInv, Running, Excused
<1>4. CASE Environment \/ UNCHANGED vars
  <2>1. /\ UNCHANGED <<flight, pc, joined, closed, joinedDead, epoch, result>>
        /\ \A d \in Callers : cancelled[d] => cancelled'[d]
    BY <1>0, <1>4 DEF Environment, Commit, Expire, Cancel
  <2>2. \A g \in Callers : flight'[g].epoch <= epoch'[At[g]]
    BY <2>1 DEF SharingInv
  <2> QED BY <1>0, <2>1, <2>2, SharingKept DEF SharingInv, Running, Excused
<1> QED BY <1>1, <1>2, <1>3, <1>4

LEMMA SharingInvariance == Spec => []SharingInv
<1>1. Init => SharingInv
  BY AtAssumption DEF Init, SharingInv, FlightsAreShared, WaiterIsolation, Running, NoFlight
<1>2. DataInv /\ DrainInv /\ SharingInv /\ [Next]_vars => SharingInv'
  <2> SUFFICES ASSUME DataInv, DrainInv, SharingInv, [Next]_vars PROVE SharingInv'
    OBVIOUS
  <2>1. CASE \E c \in Callers : LoadStep(c)   BY <2>1, LoadSharing
  <2>2. CASE \E f \in Callers : FlightStep(f) BY <2>2, FlightSharing
  <2>3. CASE \/ \E c \in Callers : DirectStep(c) \/ CloseStep(c) \/ LifeCancels(c)
             \/ Environment \/ UNCHANGED vars
    BY <2>3, OtherSharing
  <2> QED BY <2>1, <2>2, <2>3 DEF Next, Terminated
<1> QED BY <1>1, <1>2, DataInvariance, DrainInvariance, PTL DEF Spec

\* However loads join, leave and give up: those of a query in one epoch share one
\* flight, and a load is told of a cancellation that is its own, or its cache's, or
\* that had struck the flight before it joined.
THEOREM SharingIsOrderly == Spec => []SharingIsSound
<1>1. SharingInv => SharingIsSound
  BY DEF SharingInv, SharingIsSound
<1> QED BY <1>1, SharingInvariance, PTL

-----------------------------------------------------------------------------
(* What one invalidation is worth to the loads that follow it.             *)

OneInvalidation ==
  \A x, y \in Callers : Call[x] = "invalidate" /\ Call[y] = "invalidate" => x = y

\* A step that takes no token, begins no flight and lets nobody join one keeps the
\* invariant if flights go on serving the invalidations they served.
LEMMA ObserveKept ==
  ASSUME SharingInv, ObserveInv, UNCHANGED <<floor, turn, after>>, written \subseteq written',
         generation # Base => generation' # Base,
         written' # written => generation' # Base,
         \A c \in Callers : pc'[c] = "bump" => Call[c] = "invalidate",
         \A c \in Callers : pc'[c] = "idle" => pc[c] = "idle" /\ value'[c] = value[c],
         \A c \in Callers : pc'[c] = "wait" => pc[c] = "wait" /\ joined'[c] = joined[c]
                                               /\ joined[c] \in Callers,
         \A c \in Callers : result'[c] = "invalidated" /\ Call[c] = "invalidate"
                            => result[c] = "invalidated" \/ c \in written,
         \A c \in Callers : \/ value'[c] = value[c]
                            \/ Call[c] # "load"
                            \/ pc[c] = "wait" /\ value'[c] = flight[joined[c]].data,
         \A f \in Callers : Running(f)' => Running(f) /\ flight'[f].epoch = flight[f].epoch,
         \A f, x \in Callers : /\ Bumped(x) /\ (At[x] = At[f] \/ x \in written)
                               /\ Serves(f, x)
                               => Serves(f, x)',
         \A c \in Callers : after[c] \in SUBSET Callers
  PROVE  ObserveInv'
<1>1. ASSUME NEW c \in Callers, NEW x \in after[c], value'[c] # None
      PROVE  value'[c] >= floor[x]
  <2>1. CASE value'[c] = value[c]
    BY <1>1, <2>1 DEF ObserveInv, ReadsObserveInvalidation
  <2>2. CASE Call[c] # "load"
    BY <1>1, <2>2 DEF ObserveInv
  <2>3. CASE pc[c] = "wait" /\ value'[c] = flight[joined[c]].data
    BY <1>1, <2>3 DEF ObserveInv, Serves
  <2> QED BY <2>1, <2>2, <2>3
<1>2. ReadsObserveInvalidation'
  BY <1>1 DEF ReadsObserveInvalidation
<1>3. /\ \A x \in Callers : (Bumped(x) \/ pc[x] = "bump")' => Call[x] = "invalidate"
      /\ written' # {} => generation' # Base
      /\ \A x \in Callers : result'[x] = "invalidated" /\ Call[x] = "invalidate" => x \in written'
      /\ \A c \in Callers : Call[c] # "load" => after'[c] = {}
      /\ \A c \in Callers : pc'[c] = "idle" => value'[c] = None
  BY DEF ObserveInv, Bumped
<1>4. \A c \in Callers : \A x \in after[c] : Bumped(x) /\ (At[x] = At[c] \/ x \in written)
  BY DEF ObserveInv
<1>5. \A c \in Callers : \A x \in after'[c] : Bumped(x)' /\ (At[x] = At[c] \/ x \in written')
  BY <1>4 DEF Bumped
<1>6. ASSUME NEW f \in Callers, NEW x \in Callers, Running(f)', Bumped(x)', At[x] = At[f],
             flight'[f].epoch >= turn'[x]
      PROVE  Serves(f, x)'
  <2>1. Bumped(x) /\ Running(f) /\ flight[f].epoch >= turn[x]
    BY <1>6 DEF Bumped
  <2>2. Serves(f, x)
    BY <1>6, <2>1 DEF ObserveInv
  <2> QED BY <1>6, <2>1, <2>2
<1>7. ASSUME NEW f \in Callers, Running(f)', NEW x \in after'[f]
      PROVE  Serves(f, x)'
  BY <1>4, <1>7 DEF ObserveInv
<1>8. ASSUME NEW c \in Callers, pc'[c] = "wait", NEW x \in after'[c]
      PROVE  Serves(joined[c], x)'
  <2>1. PICK g \in Callers : g = joined[c] /\ g = joined'[c]
    BY <1>8
  <2>2. Serves(g, x) /\ Bumped(x) /\ (At[x] = At[g] \/ x \in written) /\ x \in Callers
    BY <1>4, <1>8, <2>1 DEF ObserveInv, SharingInv
  <2>3. Serves(g, x)'
    BY <2>2
  <2> QED BY <2>1, <2>3 DEF Serves
<1> HIDE DEF Serves
<1> QED BY <1>2, <1>3, <1>5, <1>6, <1>7, <1>8 DEF ObserveInv

\* A flight that serves an invalidation whose token it may find goes on serving it.
LEMMA FlightServes ==
  ASSUME OneInvalidation, DataInv, ObserveInv, NEW f \in Callers, FlightStep(f),
         NEW x \in Callers, Bumped(x), At[x] = At[f] \/ x \in written, Serves(f, x)
  PROVE  Serves(f, x)'
<1> USE BaseAssumption, NoneAssumption, AtAssumption
    DEF caller, local, history, provider
<1>0. /\ flight \in [Callers -> Flights] /\ floor[x] \in Nat /\ authority \in Nat
      /\ floor[x] <= authority /\ None \notin Nat
  BY DEF DataInv, Typed, TokenInv, Bumped, Versions
<1>1. CASE NothingPending(f)
  <2>1. /\ flight'[f].pc = "generation" /\ flight'[f].data = flight[f].data
        /\ pending[At[f]] = None /\ UNCHANGED <<generation, floor>>
    BY <1>0, <1>1, ContinueEffect DEF NothingPending, FlightPCs
  <2>2. written # {}
    BY <2>1 DEF DataInv, UnwrittenIsRetained
  <2> QED BY <2>1, <2>2 DEF Serves, ObserveInv
<1>2. CASE TakesPending(f)
  BY <1>0, <1>2 DEF TakesPending, ContinueWith, Serves, Flights
<1>3. CASE Repairs(f)
  BY <1>0, <1>3, ContinueEffect DEF Repairs, Serves, FlightPCs
<1>4. CASE ClearsPending(f)
  <2>1. /\ flight'[f].pc = "generation" /\ flight'[f].data = flight[f].data
        /\ UNCHANGED <<generation, floor>>
    BY <1>0, <1>4, ContinueEffect DEF ClearsPending, FlightPCs
  <2>2. written # {}
    BY <1>4 DEF ClearsPending, DataInv, RepairInv
  <2> QED BY <2>1, <2>2 DEF Serves, ObserveInv
<1>5. ASSUME NEW v, Conclude(f, v, None), UNCHANGED floor
      PROVE  Serves(f, x)'
  BY <1>0, <1>5 DEF Conclude, NoFlight, Serves
<1>6. ASSUME Continue(f, "authority"), UNCHANGED floor
      PROVE  Serves(f, x)'
  BY <1>0, <1>6, ContinueEffect DEF Serves, FlightPCs
<1>7. ASSUME NEW v, NEW n \in Nat, Conclude(f, v, n), n >= floor[x], UNCHANGED floor
      PROVE  Serves(f, x)'
  BY <1>0, <1>7 DEF Conclude, NoFlight, Serves
<1>8. CASE RepairFails(f) \/ ReadFails(f)
  BY <1>5, <1>6, <1>8 DEF RepairFails, ReadFails, Abort
<1>9. CASE ReadsGeneration(f)
  <2>1. /\ flight'[f].pc = "read" /\ flight'[f].gen = generation /\ UNCHANGED floor
        /\ flight'[f].data = flight[f].data /\ flight[f].pc = "generation"
    BY <1>0, <1>9 DEF ReadsGeneration, ContinueWith, Flights
  <2> QED BY <2>1 DEF Serves
<1>10. CASE Hits(f)
  <2>1. flight[f].gen \in Callers
    BY <1>0, <1>10 DEF Hits, Serves, Flights, Tokens
  <2>2. flight[f].gen = x
    BY <2>1 DEF DataInv, TokenInv, ObserveInv, Bumped, OneInvalidation
  <2>3. entries[Asks[f]][x] # None /\ entries[Asks[f]][x] \in Versions \cup {None}
    <3>1. Asks[f] \in Queries /\ x \in Tokens
      BY DEF Tokens
    <3> QED BY <1>10, <2>2, <3>1 DEF Hits, DataInv, Typed
  <2>4. entries[Asks[f]][x] \in Nat /\ entries[Asks[f]][x] >= floor[x]
    BY <2>3 DEF DataInv, EntriesAreFresh, Versions
  <2>5. Conclude(f, "hit", entries[Asks[f]][x]) /\ UNCHANGED floor
    BY <1>10, <2>2 DEF Hits
  <2> QED BY <1>7, <2>4, <2>5
<1>11. CASE Misses(f)
  BY <1>0, <1>11, ContinueEffect DEF Misses, Serves, FlightPCs
<1>12. CASE LoaderReads(f)
  <2>1. CASE Conclude(f, "large", authority)
    BY <1>0, <1>7, <1>12, <2>1 DEF LoaderReads
  <2>2. CASE flight' = [flight EXCEPT ![f] = [@ EXCEPT !.pc = "store", !.data = authority]]
    BY <1>0, <1>12, <2>2 DEF LoaderReads, Serves, Flights
  <2> QED BY <1>12, <2>1, <2>2 DEF LoaderReads
<1>13. CASE AuthorityReads(f)
  BY <1>0, <1>5, <1>7, <1>13 DEF AuthorityReads, Abort
<1>14. CASE LoaderFails(f)
  BY <1>5, <1>14 DEF LoaderFails, Abort
<1>15. CASE Stores(f) \/ StoreFails(f)
  <2>1. flight[f].data \in Nat /\ flight[f].data >= floor[x]
    BY <1>0, <1>15 DEF Stores, StoreFails, DataInv, RepairInv, Serves
  <2> QED BY <1>5, <1>7, <1>15, <2>1 DEF Stores, StoreFails, Abort
<1>16. CASE FlightEnds(f)
  BY <1>0, <1>16 DEF FlightEnds, NoFlight, Serves
<1> QED BY <1>1, <1>2, <1>3, <1>4, <1>8, <1>9, <1>10, <1>11, <1>12, <1>13, <1>14, <1>15,
   <1>16 DEF FlightStep

\* What a step of a flight does to the token in the provider.
LEMMA FlightWrites ==
  ASSUME DataInv, NEW f \in Callers, FlightStep(f)
  PROVE  /\ UNCHANGED generation \/ generation' \in Callers
         /\ UNCHANGED written \/ (generation' \in Callers /\ written' = written \cup {generation'})
         /\ UNCHANGED <<pc, joined, result, value, floor, turn, after>>
<1> USE DEF caller, local, history, provider
<1>1. CASE Repairs(f)
  BY <1>1 DEF Repairs, DataInv, RepairInv
<1>2. CASE RepairFails(f)
  BY <1>2 DEF RepairFails, DataInv, RepairInv
<1>3. CASE ~Repairs(f) /\ ~RepairFails(f)
  BY <1>3 DEF FlightStep, NothingPending, TakesPending, ClearsPending, ReadFails,
     ReadsGeneration, Hits, Misses, LoaderReads, AuthorityReads, LoaderFails, Stores,
     StoreFails, FlightEnds
<1> QED BY <1>1, <1>2, <1>3

LEMMA FlightObserves ==
  ASSUME OneInvalidation, DataInv, SharingInv, ObserveInv, NEW f \in Callers, FlightStep(f)
  PROVE  ObserveInv'
<1>0. /\ \A c \in Callers : pc[c] = "wait" => joined[c] \in Callers
      /\ \A c \in Callers : after[c] \in SUBSET Callers
  BY DEF DataInv, Typed
<1>1. /\ UNCHANGED generation \/ generation' \in Callers
      /\ UNCHANGED written \/ (generation' \in Callers /\ written' = written \cup {generation'})
      /\ UNCHANGED <<pc, joined, result, value, floor, turn, after>>
  BY FlightWrites
<1>2. /\ \A g \in Callers \ {f} : flight'[g] = flight[g]
      /\ Running(f)' => Running(f) /\ flight'[f].epoch = flight[f].epoch
  <2>1. CASE FlightEnds(f)
    BY <2>1 DEF FlightEnds, NoFlight, Running, DataInv, Typed
  <2>2. CASE ~FlightEnds(f)
    BY <2>2, FlightRuns, FlightEffects
  <2> QED BY <2>1, <2>2
<1>3. ASSUME NEW g \in Callers, NEW x \in Callers, Bumped(x), At[x] = At[g] \/ x \in written,
             Serves(g, x)
      PROVE  Serves(g, x)'
  <2>1. CASE g = f
    BY <1>3, <2>1, FlightServes
  <2>2. CASE g # f
    BY <1>1, <1>2, <1>3, <2>2, BaseAssumption DEF Serves
  <2> QED BY <2>1, <2>2
<1>4. \A g \in Callers : Running(g)' => Running(g) /\ flight'[g].epoch = flight[g].epoch
  BY <1>2 DEF Running
<1>5. \A c \in Callers : /\ pc[c] = "bump" => Call[c] = "invalidate"
                         /\ result[c] = "invalidated" /\ Call[c] = "invalidate" => c \in written
  BY DEF ObserveInv
<1>6. /\ written \subseteq written' /\ (generation # Base => generation' # Base)
      /\ (written' # written => generation' # Base)
  BY <1>1, BaseAssumption
<1> QED BY <1>0, <1>1, <1>3, <1>4, <1>5, <1>6, ObserveKept

\* A load that returns or leaves keeps it.
LEMMA LoadEndObserves ==
  ASSUME DataInv, SharingInv, ObserveInv, NEW c \in Callers, LoadStep(c),
         ~LoadJoins(c), ~LoadFlies(c)
  PROVE  ObserveInv'
<1> USE DEF caller, local, history, provider
<1>0. /\ \A d \in Callers : pc[d] = "wait" => joined[d] \in Callers
      /\ \A d \in Callers : after[d] \in SUBSET Callers
      /\ flight \in [Callers -> Flights]
      /\ pc \in [Callers -> {"idle", "wait", "bump", "set", "clear", "authority",
                             "finish", "drain", "returned"}]
      /\ result \in [Callers -> Verdicts] /\ value \in [Callers -> Versions \cup {None}]
  BY DEF DataInv, Typed
<1>1. /\ pc' = [pc EXCEPT ![c] = "returned"]
      /\ \E r : result' = [result EXCEPT ![c] = r] /\ (Call[c] = "invalidate" => r # "invalidated")
      /\ UNCHANGED <<joined, floor, turn, after, written, generation>>
      /\ \/ UNCHANGED value
         \/ pc[c] = "wait" /\ value' = [value EXCEPT ![c] = flight[joined[c]].data]
      /\ UNCHANGED flight \/ (pc[c] = "wait" /\ Release(c))
  <2>1. CASE Refuse(c) \/ RejectClosed(c)
    BY <2>1 DEF Refuse, RejectClosed, Return
  <2>2. CASE LoadReturns(c)
    BY <2>2 DEF LoadReturns, Return, SharingInv
  <2>3. CASE LoadLeaves(c) \/ LoadLeavesClosed(c)
    BY <2>3 DEF LoadLeaves, LoadLeavesClosed, Return
  <2> QED BY <2>1, <2>2, <2>3 DEF LoadStep
<1>2. \A g \in Callers : /\ flight'[g].pc = flight[g].pc /\ flight'[g].epoch = flight[g].epoch
                         /\ flight'[g].gen = flight[g].gen /\ flight'[g].data = flight[g].data
  <2>1. CASE UNCHANGED flight
    BY <2>1
  <2>2. CASE pc[c] = "wait" /\ Release(c)
    BY <1>0, <2>2 DEF Release, Flights
  <2> QED BY <1>1, <2>1, <2>2
<1>3. \A d \in Callers : /\ pc'[d] = "wait" => pc[d] = "wait"
                         /\ pc'[d] = "bump" => Call[d] = "invalidate"
                         /\ pc'[d] = "idle" => pc[d] = "idle" /\ value'[d] = value[d]
  BY <1>0, <1>1 DEF ObserveInv
<1>4. \A d \in Callers : result'[d] = "invalidated" /\ Call[d] = "invalidate"
                         => result[d] = "invalidated"
  BY <1>0, <1>1
<1>5. \A d \in Callers : value'[d] = value[d]
                         \/ (pc[d] = "wait" /\ value'[d] = flight[joined[d]].data)
  BY <1>0, <1>1
<1>6. \A g \in Callers : Running(g)' => Running(g) /\ flight'[g].epoch = flight[g].epoch
  BY <1>2 DEF Running
<1>7. \A g, x \in Callers : Serves(g, x) => Serves(g, x)'
  BY <1>1, <1>2 DEF Serves
<1> QED BY <1>0, <1>1, <1>3, <1>4, <1>5, <1>6, <1>7, ObserveKept

\* A load that joins a flight is served what the flight serves: those who took their
\* token on its instance before did so before the flight began, or its epoch differs.
LEMMA JoinObserves ==
  ASSUME DataInv, DrainInv, SharingInv, ObserveInv, NEW c \in Callers, LoadJoins(c)
  PROVE  ObserveInv'
<1> USE DEF caller, local, history, provider
<1>0. /\ pc \in [Callers -> {"idle", "wait", "bump", "set", "clear", "authority",
                             "finish", "drain", "returned"}]
      /\ joined \in [Callers -> Callers \cup {None}] /\ after \in [Callers -> SUBSET Callers]
  BY DEF DataInv, Typed
<1>1. PICK g \in Existing(c) : Await(c, g, OwnTokens(c) \cup after[g])
  BY DEF LoadJoins
<1>2. /\ g \in Callers /\ Running(g) /\ At[g] = At[c] /\ flight[g].epoch = epoch[At[c]]
      /\ pc[c] = "idle" /\ Call[c] = "load"
      /\ pc' = [pc EXCEPT ![c] = "wait"] /\ joined' = [joined EXCEPT ![c] = g]
      /\ after' = [after EXCEPT ![c] = OwnTokens(c) \cup after[g]]
      /\ UNCHANGED <<flight, generation, result, value, floor, turn, written>>
  BY <1>1 DEF LoadJoins, Existing, Admitted, Await
<1>3. ASSUME NEW x \in OwnTokens(c) \cup after[g]
      PROVE  x \in Callers /\ Serves(g, x) /\ Bumped(x) /\ (At[x] = At[c] \/ x \in written)
  <2>1. CASE x \in OwnTokens(c)
    BY <1>2, <2>1 DEF OwnTokens, Bumped, DataInv, TokenInv, ObserveInv
  <2>2. CASE x \in after[g]
    BY <1>0, <1>2, <2>2 DEF ObserveInv
  <2> QED BY <1>3, <2>1, <2>2
<1>4. \A d \in Callers : after'[d] = IF d = c THEN OwnTokens(c) \cup after[g] ELSE after[d]
  BY <1>0, <1>2
<1>5. ~Running(c)
  BY <1>2 DEF DrainInv, KindInv, Running
<1>6. \A d \in Callers : \A x \in after'[d] : Bumped(x)' /\ (At[x] = At[d] \/ x \in written')
  BY <1>2, <1>3, <1>4 DEF ObserveInv, Bumped
<1>7. value[c] = None
  BY <1>2 DEF ObserveInv
<1>8. ReadsObserveInvalidation'
  BY <1>2, <1>4, <1>7 DEF ObserveInv, ReadsObserveInvalidation
<1>9. ASSUME NEW d \in Callers, pc'[d] = "wait", NEW x \in after'[d]
      PROVE  Serves(joined[d], x)'
  <2>1. CASE d = c
    BY <1>0, <1>2, <1>3, <1>4, <1>9, <2>1 DEF Serves
  <2>2. CASE d # c
    <3>1. pc[d] = "wait" /\ joined'[d] = joined[d] /\ x \in after[d]
      BY <1>0, <1>2, <1>4, <1>9, <2>2
    <3> QED BY <1>2, <3>1 DEF ObserveInv, Serves
  <2> QED BY <2>1, <2>2
<1>10. ASSUME NEW f \in Callers, Running(f)', NEW x \in after'[f]
       PROVE  Serves(f, x)'
  <2>1. Running(f) /\ f # c /\ x \in after[f]
    BY <1>2, <1>4, <1>5, <1>10 DEF Running
  <2> QED BY <1>2, <2>1 DEF ObserveInv, Serves
<1>11. ASSUME NEW f \in Callers, NEW x \in Callers, Running(f)', Bumped(x)', At[x] = At[f],
              flight'[f].epoch >= turn'[x]
       PROVE  Serves(f, x)'
  <2>1. Running(f) /\ Bumped(x) /\ flight[f].epoch >= turn[x]
    BY <1>2, <1>11 DEF Running, Bumped
  <2> QED BY <1>2, <1>11, <2>1 DEF ObserveInv, Serves
<1>12. /\ \A d \in Callers : Call[d] # "load" => after'[d] = {}
       /\ \A d \in Callers : pc'[d] = "idle" => value'[d] = None
       /\ \A x \in Callers : (Bumped(x) \/ pc[x] = "bump")' => Call[x] = "invalidate"
       /\ written' # {} => generation' # Base
       /\ \A x \in Callers : result'[x] = "invalidated" /\ Call[x] = "invalidate" => x \in written'
  BY <1>0, <1>2, <1>4 DEF ObserveInv, Bumped
<1> HIDE DEF Serves, Running, Bumped
<1> QED BY <1>6, <1>8, <1>9, <1>10, <1>11, <1>12 DEF ObserveInv

\* The flight of a load that begins one has read nothing yet.
LEMMA FliesObserves ==
  ASSUME DataInv, DrainInv, SharingInv, ObserveInv, NEW c \in Callers, LoadFlies(c)
  PROVE  ObserveInv'
<1> USE DEF caller, local, history, provider
<1>0. /\ pc \in [Callers -> {"idle", "wait", "bump", "set", "clear", "authority",
                             "finish", "drain", "returned"}]
      /\ joined \in [Callers -> Callers \cup {None}] /\ after \in [Callers -> SUBSET Callers]
      /\ \A d \in Callers : pc[d] = "wait" => joined[d] \in Callers
  BY DEF DataInv, Typed
<1>1. /\ pc[c] = "idle" /\ Call[c] = "load"
      /\ pc' = [pc EXCEPT ![c] = "wait"] /\ joined' = [joined EXCEPT ![c] = c]
      /\ after' = [after EXCEPT ![c] = OwnTokens(c) \cup Reported]
      /\ UNCHANGED <<generation, result, value, floor, turn, written>>
  BY DEF LoadFlies, Admitted, Await
<1>2. /\ flight'[c].pc = "pending" /\ flight'[c].data = None
      /\ \A g \in Callers \ {c} : flight'[g] = flight[g]
  BY DEF LoadFlies, NoFlight, DataInv, Typed
<1>3. \A x \in Callers : Serves(c, x)'
  BY <1>2 DEF Serves
<1>4. \A d \in Callers : after'[d] = IF d = c THEN OwnTokens(c) \cup Reported ELSE after[d]
  BY <1>0, <1>1
<1>5. \A x \in OwnTokens(c) \cup Reported :
        x \in Callers /\ Bumped(x) /\ (At[x] = At[c] \/ x \in written)
  BY DEF OwnTokens, Reported, ObserveInv
<1>6. \A d \in Callers : \A x \in after'[d] : Bumped(x)' /\ (At[x] = At[d] \/ x \in written')
  BY <1>1, <1>4, <1>5 DEF ObserveInv, Bumped
<1>7. ReadsObserveInvalidation'
  BY <1>1, <1>4 DEF ObserveInv, ReadsObserveInvalidation
<1>8. ASSUME NEW f \in Callers, NEW x \in Callers, f # c, Serves(f, x)
      PROVE  Serves(f, x)'
  BY <1>1, <1>2, <1>8 DEF Serves
<1>9. ASSUME NEW d \in Callers, pc'[d] = "wait", NEW x \in after'[d]
      PROVE  Serves(joined[d], x)'
  <2>1. PICK g \in Callers : g = joined'[d]
    BY <1>0, <1>1, <1>9
  <2>2. x \in Callers
    BY <1>0, <1>4, <1>5, <1>9
  <2>3. CASE g = c
    BY <1>3, <2>1, <2>2, <2>3 DEF Serves
  <2>4. CASE g # c
    <3>1. d # c /\ pc[d] = "wait" /\ joined[d] = g /\ x \in after[d]
      BY <1>0, <1>1, <1>4, <1>9, <2>1, <2>4
    <3>2. Serves(g, x)
      BY <3>1 DEF ObserveInv
    <3>3. Serves(g, x)'
      BY <1>8, <2>2, <2>4, <3>2
    <3> QED BY <2>1, <3>3 DEF Serves
  <2> QED BY <2>3, <2>4
<1>10. ASSUME NEW f \in Callers, Running(f)', NEW x \in after'[f]
       PROVE  Serves(f, x)'
  <2>1. x \in Callers
    BY <1>0, <1>4, <1>5, <1>10
  <2>2. CASE f = c
    BY <1>3, <2>1, <2>2
  <2>3. CASE f # c
    BY <1>2, <1>4, <1>8, <1>10, <2>1, <2>3 DEF ObserveInv, Running
  <2> QED BY <2>2, <2>3
<1>11. ASSUME NEW f \in Callers, NEW x \in Callers, Running(f)', Bumped(x)', At[x] = At[f],
              flight'[f].epoch >= turn'[x]
       PROVE  Serves(f, x)'
  <2>1. CASE f = c
    BY <1>3, <2>1
  <2>2. CASE f # c
    BY <1>1, <1>2, <1>8, <1>11, <2>2 DEF ObserveInv, Running, Bumped
  <2> QED BY <2>1, <2>2
<1>12. /\ \A d \in Callers : Call[d] # "load" => after'[d] = {}
       /\ \A d \in Callers : pc'[d] = "idle" => value'[d] = None
       /\ \A x \in Callers : (Bumped(x) \/ pc[x] = "bump")' => Call[x] = "invalidate"
       /\ written' # {} => generation' # Base
       /\ \A x \in Callers : result'[x] = "invalidated" /\ Call[x] = "invalidate" => x \in written'
  BY <1>0, <1>1, <1>4 DEF ObserveInv, Bumped
<1> HIDE DEF Serves, Running, Bumped
<1> QED BY <1>6, <1>7, <1>9, <1>10, <1>11, <1>12 DEF ObserveInv

\* Nobody has to observe an invalidation that is about to take its token, and the
\* flights under way belong to the epoch before.
LEMMA TokenObserves ==
  ASSUME DataInv, SharingInv, ObserveInv, NEW c \in Callers, TakesToken(c)
  PROVE  ObserveInv'
<1> USE DEF caller, local, history, provider
<1>0. /\ pc \in [Callers -> {"idle", "wait", "bump", "set", "clear", "authority",
                             "finish", "drain", "returned"}]
      /\ turn \in [Callers -> Nat] /\ floor \in [Callers -> Versions \cup {None}]
      /\ epoch \in [Instances -> Nat] /\ At[c] \in Instances
      /\ \A d \in Callers : after[d] \in SUBSET Callers
      /\ \A d \in Callers : pc[d] = "wait" => joined[d] \in Callers
      /\ \A f \in Callers : flight[f].epoch \in Nat
  BY AtAssumption DEF DataInv, Typed, Flights
<1>1. /\ pc[c] = "bump" /\ pc' = [pc EXCEPT ![c] = "set"] /\ turn[c] = 0
      /\ turn' = [turn EXCEPT ![c] = epoch[At[c]] + 1] /\ floor' = [floor EXCEPT ![c] = authority]
      /\ UNCHANGED <<generation, flight, joined, result, value, written, after>>
  BY DEF TakesToken, DataInv, TokenInv
<1>2. \A d \in Callers : c \notin after[d]
  BY <1>1 DEF ObserveInv, Bumped
<1>3. \A x \in Callers : x # c => (Bumped(x)' <=> Bumped(x)) /\ floor'[x] = floor[x] /\ turn'[x] = turn[x]
  BY <1>0, <1>1 DEF Bumped
<1>4. ASSUME NEW f \in Callers, NEW x \in Callers, x # c, Serves(f, x)
      PROVE  Serves(f, x)'
  BY <1>1, <1>3, <1>4 DEF Serves
<1>5. ReadsObserveInvalidation'
  BY <1>0, <1>1, <1>2, <1>3 DEF ObserveInv, ReadsObserveInvalidation
<1>6. ASSUME NEW f \in Callers, NEW x \in Callers, Running(f)', Bumped(x)', At[x] = At[f],
             flight'[f].epoch >= turn'[x]
      PROVE  Serves(f, x)'
  <2>1. CASE x = c
    <3>1. flight[f].epoch <= epoch[At[c]] /\ turn'[c] = epoch[At[c]] + 1
      BY <1>0, <1>1, <1>6, <2>1 DEF SharingInv
    <3> QED BY <1>0, <1>1, <1>6, <2>1, <3>1
  <2>2. CASE x # c
    BY <1>1, <1>3, <1>4, <1>6, <2>2 DEF ObserveInv, Running
  <2> QED BY <2>1, <2>2
<1>7. ASSUME NEW d \in Callers, pc'[d] = "wait", NEW x \in after'[d]
      PROVE  Serves(joined[d], x)'
  <2>1. pc[d] = "wait" /\ x \in after[d] /\ x # c /\ x \in Callers
    BY <1>0, <1>1, <1>2, <1>7
  <2>2. PICK g \in Callers : g = joined[d] /\ g = joined'[d]
    BY <1>0, <1>1, <2>1
  <2>3. Serves(g, x)'
    BY <1>4, <2>1, <2>2 DEF ObserveInv
  <2> QED BY <2>2, <2>3 DEF Serves
<1>8. ASSUME NEW f \in Callers, Running(f)', NEW x \in after'[f]
      PROVE  Serves(f, x)'
  BY <1>0, <1>1, <1>2, <1>4, <1>8 DEF ObserveInv, Running
<1>9. \A d \in Callers : \A x \in after'[d] : Bumped(x)' /\ (At[x] = At[d] \/ x \in written')
  BY <1>0, <1>1, <1>2, <1>3 DEF ObserveInv
<1>10. /\ \A d \in Callers : Call[d] # "load" => after'[d] = {}
       /\ \A d \in Callers : pc'[d] = "idle" => value'[d] = None
       /\ \A x \in Callers : (Bumped(x) \/ pc[x] = "bump")' => Call[x] = "invalidate"
       /\ written' # {} => generation' # Base
       /\ \A x \in Callers : result'[x] = "invalidated" /\ Call[x] = "invalidate" => x \in written'
  BY <1>0, <1>1, <1>3 DEF ObserveInv
<1> HIDE DEF Serves, Running, Bumped
<1> QED BY <1>5, <1>6, <1>7, <1>8, <1>9, <1>10 DEF ObserveInv

\* The other steps of an invalidation, or of a call that bypasses the cache.
LEMMA DirectObserves ==
  ASSUME DataInv, DrainInv, SharingInv, ObserveInv, NEW c \in Callers, DirectStep(c),
         ~TakesToken(c)
  PROVE  ObserveInv'
<1> USE DEF caller, local, history, provider
<1>0. /\ \A d \in Callers : pc[d] = "wait" => joined[d] \in Callers
      /\ \A d \in Callers : after[d] \in SUBSET Callers
      /\ pc \in [Callers -> {"idle", "wait", "bump", "set", "clear", "authority",
                             "finish", "drain", "returned"}]
      /\ result \in [Callers -> Verdicts] /\ value \in [Callers -> Versions \cup {None}]
  BY DEF DataInv, Typed
<1>1. /\ Call[c] # "load" /\ UNCHANGED <<joined, floor, turn, after, flight>>
      /\ \E s \in DirectPCs \cup {"returned"} :
           pc' = [pc EXCEPT ![c] = s] /\ (s = "bump" => Call[c] = "invalidate")
      /\ \A d \in Callers : d # c => value'[d] = value[d] /\ result'[d] = result[d]
  BY <1>0 DEF DirectStep, DirectBegins, TransactionReads, TakesToken, SetsGeneration,
     SetFails, InvalidateClears, DirectEnds, Finishing, DirectPCs, DrainInv, KindInv, Deactivate
<1>2. /\ UNCHANGED generation \/ generation' = c
      /\ UNCHANGED written \/ (generation' = c /\ written' = written \cup {c})
  BY DEF DirectStep, DirectBegins, TransactionReads, TakesToken, SetsGeneration,
     SetFails, InvalidateClears, DirectEnds
<1>3. /\ written \subseteq written' /\ (generation # Base => generation' # Base)
      /\ (written' # written => generation' # Base)
  BY <1>2, BaseAssumption
<1>4. result'[c] = "invalidated" => result[c] = "invalidated" \/ c \in written
  <2>1. CASE InvalidateClears(c)
    BY <2>1 DEF InvalidateClears, DataInv, RepairInv
  <2>2. CASE ~InvalidateClears(c)
    <3>1. UNCHANGED result \/ \E r \in Verdicts \ {"invalidated"} : Finishing(c, r)
      BY <2>2 DEF DirectStep, DirectBegins, TransactionReads, TakesToken, SetsGeneration,
         SetFails, DirectEnds, ContextErrors, Verdicts, Loads
    <3> QED BY <1>0, <3>1 DEF Finishing
  <2> QED BY <2>1, <2>2
<1>5. \A d \in Callers : /\ pc'[d] = "wait" => pc[d] = "wait"
                         /\ pc'[d] = "bump" => Call[d] = "invalidate"
                         /\ pc'[d] = "idle" => pc[d] = "idle" /\ value'[d] = value[d]
  BY <1>0, <1>1 DEF DirectPCs, ObserveInv
<1>6. \A g, x \in Callers : Serves(g, x) => Serves(g, x)'
  BY <1>1, <1>3 DEF Serves
<1>7. \A d \in Callers : result'[d] = "invalidated" /\ Call[d] = "invalidate"
                         => result[d] = "invalidated" \/ d \in written
  BY <1>1, <1>4
<1>8. \A g \in Callers : Running(g)' => Running(g) /\ flight'[g].epoch = flight[g].epoch
  BY <1>1 DEF Running
<1> QED BY <1>0, <1>1, <1>3, <1>5, <1>6, <1>7, <1>8, ObserveKept

\* Neither Close nor the environment lets a load miss an invalidation.
LEMMA OtherObserves ==
  ASSUME DataInv, SharingInv, ObserveInv,
         \/ \E c \in Callers : CloseStep(c) \/ LifeCancels(c)
         \/ Environment \/ UNCHANGED vars
  PROVE  ObserveInv'
<1> USE DEF caller, local, history, provider, vars
<1>0. /\ \A d \in Callers : pc[d] = "wait" => joined[d] \in Callers
      /\ \A d \in Callers : after[d] \in SUBSET Callers
      /\ flight \in [Callers -> Flights]
      /\ pc \in [Callers -> {"idle", "wait", "bump", "set", "clear", "authority",
                             "finish", "drain", "returned"}]
      /\ result \in [Callers -> Verdicts]
  BY DEF DataInv, Typed
<1>1. /\ UNCHANGED <<generation, joined, value, floor, turn, written, after>>
      /\ \A d \in Callers : result'[d] = "invalidated" => result[d] = "invalidated"
      /\ \A d \in Callers : pc'[d] = pc[d] \/ pc'[d] \in {"drain", "returned"}
  <2>1. ASSUME NEW c \in Callers, CloseStep(c)
        PROVE  /\ \A d \in Callers : result'[d] = "invalidated" => result[d] = "invalidated"
               /\ \A d \in Callers : pc'[d] = pc[d] \/ pc'[d] \in {"drain", "returned"}
    BY <1>0, <2>1 DEF CloseStep, CloseBegins, CloseReturns, Return
  <2>2. CASE \/ \E c \in Callers : LifeCancels(c)
             \/ Environment \/ UNCHANGED vars
    BY <2>2 DEF LifeCancels, Environment, Commit, Expire, Cancel
  <2>3. UNCHANGED <<generation, joined, value, floor, turn, written, after>>
    BY DEF CloseStep, CloseBegins, CloseReturns, LifeCancels, Environment, Commit, Expire, Cancel
  <2> QED BY <2>1, <2>2, <2>3
<1>2. \A g \in Callers : /\ flight'[g].pc = flight[g].pc /\ flight'[g].epoch = flight[g].epoch
                         /\ flight'[g].gen = flight[g].gen /\ flight'[g].data = flight[g].data
  <2>1. ASSUME NEW f \in Callers, LifeCancels(f)
        PROVE  \A g \in Callers :
                 /\ flight'[g].pc = flight[g].pc /\ flight'[g].epoch = flight[g].epoch
                 /\ flight'[g].gen = flight[g].gen /\ flight'[g].data = flight[g].data
    BY <1>0, <2>1 DEF LifeCancels, Flights
  <2>2. CASE (\E c \in Callers : CloseStep(c)) \/ Environment \/ UNCHANGED vars
    BY <2>2 DEF CloseStep, CloseBegins, CloseReturns, Environment, Commit, Expire, Cancel
  <2> QED BY <2>1, <2>2
<1>3. \A g, x \in Callers : Serves(g, x) => Serves(g, x)'
  BY <1>1, <1>2 DEF Serves
<1>4. \A g \in Callers : Running(g)' => Running(g) /\ flight'[g].epoch = flight[g].epoch
  BY <1>2 DEF Running
<1>5. \A d \in Callers : /\ pc'[d] = "wait" => pc[d] = "wait"
                         /\ pc'[d] = "bump" => Call[d] = "invalidate"
                         /\ pc'[d] = "idle" => pc[d] = "idle"
  BY <1>1 DEF ObserveInv
<1> QED BY <1>0, <1>1, <1>3, <1>4, <1>5, ObserveKept

\* One invalidation is observed, whatever fails, expires or is cancelled: by every load
\* of its instance that begins after it took its token, though the provider never
\* got it, and by every flight that begins after it reported success.
THEOREM OneInvalidationIsObserved ==
  ASSUME OneInvalidation PROVE Spec => []ReadsObserveInvalidation
<1>1. Init => ObserveInv
  BY BaseAssumption DEF Init, ObserveInv, ReadsObserveInvalidation, Running, NoFlight, Bumped
<1>2. DataInv /\ DrainInv /\ SharingInv /\ ObserveInv /\ [Next]_vars => ObserveInv'
  <2> SUFFICES ASSUME DataInv, DrainInv, SharingInv, ObserveInv, [Next]_vars PROVE ObserveInv'
    OBVIOUS
  <2>1. CASE \E c \in Callers : LoadStep(c)
    BY <2>1, LoadEndObserves, JoinObserves, FliesObserves
  <2>2. CASE \E f \in Callers : FlightStep(f)
    BY <2>2, FlightObserves
  <2>3. CASE \E c \in Callers : DirectStep(c)
    BY <2>3, DirectObserves, TokenObserves
  <2>4. CASE \/ \E c \in Callers : CloseStep(c) \/ LifeCancels(c)
             \/ Environment \/ UNCHANGED vars
    BY <2>4, OtherObserves
  <2> QED BY <2>1, <2>2, <2>3, <2>4 DEF Next, Terminated
<1>3. ObserveInv => ReadsObserveInvalidation
  BY DEF ObserveInv
<1> QED BY <1>1, <1>2, <1>3, DataInvariance, DrainInvariance, SharingInvariance, PTL DEF Spec
=============================================================================
