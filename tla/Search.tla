-------------------------------- MODULE Search ------------------------------
(***************************************************************************)
(* POST /v1/search (retrieval/application/search.py): look the query up in *)
(* the result cache, else run the vector arm and the keyword arm against   *)
(* the chunks table (pgvector_retriever.py), fuse, rerank and store the    *)
(* result in the cache (redis_cache.py). Meanwhile ingestion workers       *)
(* replace the chunk sets of documents, and entries expire.                *)
(*                                                                         *)
(* The two arms are two statements of one READ COMMITTED session: each     *)
(* sees the chunks committed when it starts. Which chunks rank highest is  *)
(* left open at every ranking step. How many survive a step is not, but    *)
(* for the vector arm: its index scan is approximate, and what it yields   *)
(* is filtered by tenant and collection only afterwards. A document has    *)
(* one chunk, renewed each time it is ingested. All queries ask for one    *)
(* normalized text: queries for different texts never share a cache entry. *)
(***************************************************************************)
EXTENDS Integers, FiniteSets

CONSTANTS
    Docs,           \* documents
    Tenants,
    Collections,
    TenantOf,       \* Docs -> tenant
    CollectionOf,   \* Docs -> collection
    Matching,       \* documents whose text matches the query text
    Everywhere,     \* collection_id of a query that gives none
    Queries,        \* the queries asked
    NoQuery,        \* nothing asked yet
    Requests,       \* concurrent search requests
    NoEntry,        \* no cache entry under this key
    Pool,           \* settings.search_pool_size
    Ttl,            \* settings.search_cache_ttl_seconds
    MaxIngests,     \* bound: Docs -> times the document is ingested
    MaxFaults       \* bound: searches that fail outright

VARIABLES
    ingests,        \* Docs -> how often its chunks were replaced
    cache,          \* cache key -> entry
    at,             \* Requests -> where its SearchHandler.handle is
    query,          \* Requests -> the query asked
    held,           \* Requests -> chunks found so far, then the results
    faults

vars == <<ingests, cache, at, query, held, faults>>

Chunks == UNION {{d} \X (1..MaxIngests[d]) : d \in Docs}

SearchQuery ==
    [tenant : Tenants, collection : Collections \cup {Everywhere}, top_k : Nat \ {0}]

Entry == [results : SUBSET Chunks, left : 1..Ttl]

Places == {"idle", "lookup", "vector", "keyword", "store", "done"}

ASSUME SearchAssumption ==
    /\ TenantOf \in [Docs -> Tenants] /\ CollectionOf \in [Docs -> Collections]
    /\ Matching \subseteq Docs
    /\ Queries \subseteq SearchQuery /\ NoQuery \notin Queries
    /\ Everywhere \notin Collections
    /\ Pool \in Nat \ {0} /\ Ttl \in Nat
    /\ MaxIngests \in [Docs -> Nat] /\ MaxFaults \in Nat
    /\ NoEntry \notin Entry

(* Mutant: the collection filter is left out of the key. *)
KeyWithoutCollection(q) == <<q.tenant, q.top_k>>

(* build_cache_key *)
Key(q) == <<q.tenant, q.collection, q.top_k>>

Keys == {Key(q) : q \in Queries}

Init ==
    /\ ingests = [d \in Docs |-> 0]
    /\ cache   = [k \in Keys |-> NoEntry]
    /\ at      = [r \in Requests |-> "idle"]
    /\ query   = [r \in Requests |-> NoQuery]
    /\ held    = [r \in Requests |-> {}]
    /\ faults  = 0

(* The rows of the table chunks. *)
Stored == {c \in Chunks : c[2] = ingests[c[1]]}

(* WHERE tenant_id = :tenant AND (:collection IS NULL OR ...) *)
InScope(q, d) ==
    /\ TenantOf[d] = q.tenant
    /\ q.collection \in {Everywhere, CollectionOf[d]}

Candidates(q) == {c \in Stored : InScope(q, c[1])}

(* AND text_tsv @@ plainto_tsquery(...) *)
Matches(q) == {c \in Candidates(q) : c[1] \in Matching}

(* The rows of S that an HNSW scan with LIMIT n comes upon: it yields some *)
(* hnsw.ef_search rows of the whole table at most, so it may miss any.     *)
Near(n, S) == {T \in SUBSET S : Cardinality(T) <= n}

(* ORDER BY ts_rank ... LIMIT n, list[:n]: the best n of S, or all of it. *)
Best(n, S) ==
    {T \in SUBSET S : Cardinality(T) <= n /\ (T = S \/ Cardinality(T) = n)}

GoTo(r, place) == at' = [at EXCEPT ![r] = place]

Hold(r, chunks) == held' = [held EXCEPT ![r] = chunks]

-----------------------------------------------------------------------------
(* replace_for_document and its commit, in a worker. *)
ReplaceChunks(d) ==
    /\ ingests[d] < MaxIngests[d]
    /\ ingests' = [ingests EXCEPT ![d] = @ + 1]
    /\ UNCHANGED <<cache, at, query, held, faults>>

Ask(r, q) ==
    /\ at[r] \in {"idle", "done"}
    /\ GoTo(r, "lookup")
    /\ query' = [query EXCEPT ![r] = q]
    /\ Hold(r, {})
    /\ UNCHANGED <<ingests, cache, faults>>

(* Mutant: a hit gives the entry a new lease. *)
CacheHitRenews(r) ==
    /\ at[r] = "lookup"
    /\ cache[Key(query[r])] # NoEntry
    /\ Hold(r, cache[Key(query[r])].results)
    /\ GoTo(r, "done")
    /\ cache' = [cache EXCEPT ![Key(query[r])].left = Ttl]
    /\ UNCHANGED <<ingests, query, faults>>

CacheHit(r) ==
    /\ at[r] = "lookup"
    /\ cache[Key(query[r])] # NoEntry
    /\ Hold(r, cache[Key(query[r])].results)
    /\ GoTo(r, "done")
    /\ UNCHANGED <<ingests, cache, query, faults>>

(* No entry, or Redis raised: get returns None for both. *)
CacheMiss(r) ==
    /\ at[r] = "lookup"
    /\ GoTo(r, "vector")
    /\ UNCHANGED <<ingests, cache, query, held, faults>>

VectorArm(r) ==
    /\ at[r] = "vector"
    /\ \E rows \in Near(Pool, Candidates(query[r])) : Hold(r, rows)
    /\ GoTo(r, "keyword")
    /\ UNCHANGED <<ingests, cache, query, faults>>

(* The second SELECT; then fusion, ordered[:pool_size] and the reranker's  *)
(* [:top_k] without another await.                                         *)
KeywordArm(r) ==
    /\ at[r] = "keyword"
    /\ \E rows \in Best(Pool, Matches(query[r])) :
         \E fused \in Best(Pool, held[r] \cup rows) :
           \E ranked \in Best(query[r].top_k, fused) : Hold(r, ranked)
    /\ GoTo(r, "store")
    /\ UNCHANGED <<ingests, cache, query, faults>>

(* SET key value EX ttl, which Redis refuses for a ttl of 0. *)
Set(r) ==
    IF Ttl = 0 THEN UNCHANGED cache
    ELSE cache' = [cache EXCEPT ![Key(query[r])] = [results |-> held[r], left |-> Ttl]]

Store(r) ==
    /\ at[r] = "store"
    /\ Set(r)
    /\ GoTo(r, "done")
    /\ UNCHANGED <<ingests, query, held, faults>>

(* Mutant: an error of the cache is not caught. *)
StoreFailsLoudly(r) ==
    /\ at[r] = "store"
    /\ Set(r) \/ UNCHANGED cache
    /\ GoTo(r, "idle")
    /\ query' = [query EXCEPT ![r] = NoQuery]
    /\ Hold(r, {})
    /\ UNCHANGED <<ingests, faults>>

(* RedisError: logged and dropped, whether or not SET took effect. *)
StoreFails(r) ==
    /\ at[r] = "store"
    /\ Set(r) \/ UNCHANGED cache
    /\ GoTo(r, "done")
    /\ UNCHANGED <<ingests, query, held, faults>>

(* The embedder or the database raises and the client gets an error, or    *)
(* the process ends.                                                       *)
SearchFails(r) ==
    /\ at[r] \in {"lookup", "vector", "keyword", "store"} /\ faults < MaxFaults
    /\ GoTo(r, "idle")
    /\ query' = [query EXCEPT ![r] = NoQuery]
    /\ Hold(r, {})
    /\ faults' = faults + 1
    /\ UNCHANGED <<ingests, cache>>

-----------------------------------------------------------------------------
(* Mutant: an entry outlives its ttl by one. *)
TickLate ==
    /\ \E k \in Keys : cache[k] # NoEntry
    /\ cache' = [k \in Keys |->
                   IF cache[k] = NoEntry \/ cache[k].left = 0 THEN NoEntry
                   ELSE [cache[k] EXCEPT !.left = @ - 1]]
    /\ UNCHANGED <<ingests, at, query, held, faults>>

(* A second of time: entries age, and expire. *)
Tick ==
    /\ \E k \in Keys : cache[k] # NoEntry
    /\ cache' = [k \in Keys |->
                   IF cache[k] = NoEntry \/ cache[k].left = 1 THEN NoEntry
                   ELSE [cache[k] EXCEPT !.left = @ - 1]]
    /\ UNCHANGED <<ingests, at, query, held, faults>>

(* Redis may drop an entry at any time. *)
Evict(k) ==
    /\ cache[k] # NoEntry
    /\ cache' = [cache EXCEPT ![k] = NoEntry]
    /\ UNCHANGED <<ingests, at, query, held, faults>>

Handle(r) ==
    \/ CacheHit(r) \/ CacheMiss(r)
    \/ VectorArm(r) \/ KeywordArm(r)
    \/ Store(r) \/ StoreFails(r)

Next ==
    \/ \E d \in Docs : ReplaceChunks(d)
    \/ \E r \in Requests, q \in Queries : Ask(r, q)
    \/ \E r \in Requests : Handle(r) \/ SearchFails(r)
    \/ Tick
    \/ \E k \in Keys : Evict(k)

Spec == Init /\ [][Next]_vars

(* The server runs the handlers it has started, and time passes. Nobody    *)
(* has to search or ingest, and Redis need not evict.                      *)
FairSpec == Spec /\ (\A r \in Requests : WF_vars(Handle(r))) /\ WF_vars(Tick)
-----------------------------------------------------------------------------
(* Type invariant. *)
SearchTypeOK ==
    /\ ingests \in [Docs -> Nat] /\ \A d \in Docs : ingests[d] <= MaxIngests[d]
    /\ cache \in [Keys -> Entry \cup {NoEntry}]
    /\ at \in [Requests -> Places]
    /\ query \in [Requests -> Queries \cup {NoQuery}]
    /\ \A r \in Requests : query[r] = NoQuery <=> at[r] = "idle"
    /\ held \in [Requests -> SUBSET Chunks]
    /\ faults \in 0..MaxFaults

Fits(q, results) ==
    /\ \A c \in results : InScope(q, c[1])
    /\ Cardinality(results) <= q.top_k

(* RETRIEVAL.md: "a cached entry is never served across a tenant or        *)
(* collection boundary". Whoever computed it, whatever is in the cache by  *)
(* then: an answer has at most top_k chunks, all from the tenant and the   *)
(* collection that this request asked for.                                 *)
AnswersFitTheirQuery ==
    \A r \in Requests : at[r] = "done" => Fits(query[r], held[r])

(* RETRIEVAL.md: "a cache failure degrades to a live search rather than an *)
(* error". Whatever Redis does, a search that is asked is answered while   *)
(* nothing but Redis fails.                                                *)
SearchIsAnswered ==
    [](faults = 0) => \A r \in Requests : at[r] = "lookup" ~> at[r] = "done"

Smaller(m, n) == IF m < n THEN m ELSE n

(* What a search that ran now might find for the queries with key k. Only  *)
(* the keyword arm is sure to find what there is.                          *)
Fresh(k) ==
    \A q \in Queries : Key(q) = k =>
        /\ cache[k].results \subseteq Candidates(q)
        /\ Cardinality(cache[k].results) <= Smaller(q.top_k, Pool)
        /\ Cardinality(cache[k].results) >=
             Smaller(q.top_k, Smaller(Pool, Cardinality(Matches(q))))

(* search.py stores what it read some time ago, so an entry may be stale   *)
(* from its first moment, or replace a newer one, and an empty result is   *)
(* cached like any other. Still, once the chunks no longer change, every   *)
(* entry that no new search could store is gone for good before long,      *)
(* however often its key is asked for: one with a chunk that was replaced, *)
(* or with fewer chunks than match the words of the query.                 *)
StaleEntriesDie ==
    <>[](\A k \in Keys : cache[k] # NoEntry => Fresh(k))
=============================================================================
