------------------------------ MODULE QueryCache ------------------------------
(***************************************************************************)
(* The query cache of one table (storage/cache/redis.go), used by the      *)
(* generic handlers that read it (actions/gorm search.go, get.go) and that *)
(* write it (control.go, delete.go).  In Redis a generation names the      *)
(* entries that count; a writer draws another one after it has committed.  *)
(*                                                                         *)
(* The table is named by the number of its commits, a generation by the    *)
(* number of its draw (they are random and never drawn twice).  The entry  *)
(* is that of one query of one process: the identity of the database is    *)
(* part of every key.  A lookup may miss what has expired, a generation may*)
(* be evicted, and a command may fail before or after it took effect.      *)
(***************************************************************************)
EXTENDS Naturals, FiniteSets

CONSTANTS TableReaders,    \* calls of search or get
          TableWriters,    \* calls of create, update or delete
          MaxEvictions     \* bound: generations lost by Redis

ASSUME QueryCacheAssumption == MaxEvictions \in Nat /\ IsFiniteSet(TableWriters)

VARIABLES table,          \* commits so far
          generation,     \* the generation in Redis; none: 0
          drawn,          \* generations drawn so far
          payload,        \* the entry under each generation; none: NoEntry
          query,          \* where each call stands
          evictions,      \* generations that were lost
          announced       \* history: what the last invalidation that succeeded covers

tableVars == <<table, generation, drawn, payload, query, evictions, announced>>

TableCalls == TableReaders \cup TableWriters
(* A writer draws one, and a reader one whenever there is none.            *)
Draws == 0..(Cardinality(TableWriters) + 1 + MaxEvictions)
Tables == 0..Cardinality(TableWriters)
NoEntry == Cardinality(TableWriters) + 1
FreshQuery == [stage |-> "idle", generation |-> 0, creating |-> FALSE, attempts |-> 0,
               seen |-> NoEntry, floor |-> 0]
Verifying == {"generation", "confirm", "recheck"}

QueryTypeOK ==
    /\ table \in Tables /\ generation \in 0..drawn /\ drawn \in Draws
    /\ payload \in [Draws -> Tables \cup {NoEntry}]
    /\ \A c \in TableCalls :
          /\ query[c].stage \in Verifying \cup {"idle", "lookup", "database", "save", "commit",
                                                "invalidate", "done", "failed"}
          /\ query[c].generation \in 0..drawn /\ query[c].attempts \in 0..2
          /\ query[c].seen \in Tables \cup {NoEntry} /\ query[c].floor \in Tables
    /\ evictions \in 0..MaxEvictions /\ announced \in 0..table

QueryInit ==
    /\ table = 0 /\ generation = 0 /\ drawn = 0 /\ payload = [g \in Draws |-> NoEntry]
    /\ query = [c \in TableCalls |-> FreshQuery] /\ evictions = 0 /\ announced = 0

RedisState == <<generation, drawn, payload>>
AwaitsIn(c, stage) == query' = [query EXCEPT ![c].stage = stage]

-----------------------------------------------------------------------------
(* Query: with the tag of a cached table it starts from the generation.    *)
(* A create or a delete reads nothing first.                               *)
Queries(c) ==
    /\ query[c].stage = "idle"
    /\ \/ query' = [query EXCEPT ![c].stage = "generation", ![c].floor = announced]
       \/ c \in TableWriters /\ AwaitsIn(c, "commit")
    /\ UNCHANGED <<table, RedisState, evictions, announced>>

(* The read of an update is followed by its commit.                        *)
Answered(c) == IF c \in TableWriters THEN "commit" ELSE "done"
Leaving(c, q) == [q EXCEPT !.stage = Answered(c), !.generation = 0]

(* What a read of the generation decides, by the place it is made from.    *)
(* On a hit, generation is what the payload was looked up under.           *)
Confirmed(c, g) == query[c].generation = g
ReanchoredTo(c, g) == g
Decided(c, g) ==
    LET asked == [query[c] EXCEPT !.creating = FALSE, !.attempts = 0] IN
    CASE query[c].stage = "generation" ->
            {[asked EXCEPT !.stage = "lookup", !.generation = g]}
      [] query[c].stage = "confirm" ->
            IF Confirmed(c, g)
            THEN {Leaving(c, [asked EXCEPT !.floor = announced]),
                  [asked EXCEPT !.stage = "database"]}     \* it does not decode
            ELSE {[asked EXCEPT !.stage = "database", !.generation = ReanchoredTo(c, g)]}
      [] query[c].stage = "recheck" ->
            {IF query[c].generation = g THEN [asked EXCEPT !.stage = "save"]
             ELSE Leaving(c, asked)}

(* A generation that cannot be verified: ask the database, and cache       *)
(* nothing.                                                                *)
Unverified(c) ==
    query' = [query EXCEPT ![c] = [Leaving(c, @) EXCEPT
        !.stage = IF query[c].stage = "recheck" THEN @ ELSE "database",
        !.creating = FALSE, !.attempts = 0]]

(* readQueryCacheGeneration: GET, and if there is none SET NX, three times.*)
GetsGeneration(c) ==
    /\ query[c].stage \in Verifying /\ ~query[c].creating
    /\ \/ generation # 0 /\ \E q \in Decided(c, generation) : query' = [query EXCEPT ![c] = q]
       \/ generation = 0 /\ query' = [query EXCEPT ![c].creating = TRUE]
       \/ Unverified(c)
    /\ UNCHANGED <<table, RedisState, evictions, announced>>

Drawn == drawn + 1
CreatesGeneration(c) ==
    /\ query[c].creating
    /\ \/ /\ generation = 0
          /\ generation' = Drawn /\ drawn' = drawn + 1
          /\ \/ \E q \in Decided(c, Drawn) : query' = [query EXCEPT ![c] = q]
             \/ Unverified(c)
       \/ /\ generation # 0
          /\ IF query[c].attempts = 2 THEN Unverified(c)
             ELSE query' = [query EXCEPT ![c].creating = FALSE, ![c].attempts = @ + 1]
          /\ UNCHANGED <<generation, drawn>>
       \/ Unverified(c) /\ UNCHANGED <<generation, drawn>>
    /\ UNCHANGED <<table, payload, evictions, announced>>

GetsPayload(c) ==
    /\ query[c].stage = "lookup"
    /\ \/ /\ payload[query[c].generation] # NoEntry
          /\ query' = [query EXCEPT ![c].stage = "confirm",
                                    ![c].seen = payload[query[c].generation]]
       \/ AwaitsIn(c, "database")
    /\ UNCHANGED <<table, RedisState, evictions, announced>>

QueriesDatabase(c) ==
    /\ query[c].stage = "database"
    /\ \/ query' = [query EXCEPT ![c].seen = table,
                       ![c].stage = IF query[c].generation = 0 THEN Answered(c) ELSE "recheck"]
       \/ AwaitsIn(c, "failed")
    /\ UNCHANGED <<table, RedisState, evictions, announced>>

SavesPayload(c) ==
    /\ query[c].stage = "save"
    /\ \/ payload' = [payload EXCEPT ![query[c].generation] = query[c].seen]
       \/ UNCHANGED payload
    /\ query' = [query EXCEPT ![c] = Leaving(c, @)]
    /\ UNCHANGED <<table, generation, drawn, evictions, announced>>

-----------------------------------------------------------------------------
(* The transaction of a create or a delete, the Save of an update.         *)
CommitsTable(c) ==
    /\ query[c].stage = "commit"
    /\ \/ table' = table + 1 /\ AwaitsIn(c, "invalidate")
       \/ AwaitsIn(c, "failed") /\ UNCHANGED table
    /\ UNCHANGED <<RedisState, evictions, announced>>

CreatesOnly(c) ==
    /\ query[c].stage = "invalidate"
    /\ \/ /\ generation' = (IF generation = 0 THEN Drawn ELSE generation)
          /\ drawn' = drawn + 1 /\ announced' \in {announced, table}
       \/ UNCHANGED <<generation, drawn, announced>>
    /\ AwaitsIn(c, "done")
    /\ UNCHANGED <<table, payload, evictions>>
(* RemoveFromTag.  The handler answers the client also when it fails.      *)
Invalidates(c) ==
    /\ query[c].stage = "invalidate"
    /\ \/ generation' = Drawn /\ drawn' = drawn + 1 /\ announced' \in {announced, table}
       \/ UNCHANGED <<generation, drawn, announced>>
    /\ AwaitsIn(c, "done")
    /\ UNCHANGED <<table, payload, evictions>>

GenerationEvicted ==
    /\ generation # 0 /\ evictions < MaxEvictions
    /\ generation' = 0 /\ evictions' = evictions + 1
    /\ UNCHANGED <<table, drawn, payload, query, announced>>

QueryNext ==
    \/ \E c \in TableCalls :
          \/ Queries(c) \/ GetsGeneration(c) \/ CreatesGeneration(c) \/ GetsPayload(c)
          \/ QueriesDatabase(c) \/ SavesPayload(c) \/ CommitsTable(c) \/ Invalidates(c)
    \/ GenerationEvicted
QuerySpec == QueryInit /\ [][QueryNext]_tableVars

-----------------------------------------------------------------------------
(* No answer, and no row an update starts from, is older than the writes   *)
(* whose invalidation had succeeded when the query began or, for an answer *)
(* from the cache, when its generation was confirmed.                      *)
AnswersAreCurrent ==
    \A c \in TableCalls : query[c].stage \in {"done", "commit", "invalidate"} =>
        query[c].seen >= query[c].floor

(* Under the generation that counts there is nothing older than the last   *)
(* invalidation that succeeded, whatever was lost, late or evicted.        *)
GenerationIsCurrent == generation # 0 => payload[generation] >= announced

QueriesAreSound == AnswersAreCurrent /\ GenerationIsCurrent
=============================================================================
