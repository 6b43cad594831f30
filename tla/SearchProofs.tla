----------------------------- MODULE SearchProofs ---------------------------
(***************************************************************************)
(* Proofs about Search.tla, for any number of documents, queries and       *)
(* requests, any pool size and any ttl. What a request ends up with was    *)
(* found by it or by another request with the same key, possibly long ago, *)
(* so the invariant speaks of what requests hold on their way and of what  *)
(* every entry says to every query that shares its key.                    *)
(***************************************************************************)
EXTENDS Search, TLAPS

(* What a request has found so far is in the scope of its query. *)
HeldInScope ==
    \A r \in Requests : at[r] # "idle" => \A c \in held[r] : InScope(query[r], c[1])

(* Ranking has cut the results to top_k. *)
RankedFits ==
    \A r \in Requests : at[r] \in {"store", "done"} => Fits(query[r], held[r])

(* An entry fits every query that finds it. *)
EntriesFit ==
    \A q \in Queries : cache[Key(q)] # NoEntry => Fits(q, cache[Key(q)].results)

IndInv == SearchTypeOK /\ HeldInScope /\ RankedFits /\ EntriesFit

-----------------------------------------------------------------------------
(* The best of a set are members of it, and no more than asked for. *)
LEMMA BestBounds ==
    ASSUME NEW n, NEW S, NEW T \in Best(n, S)
    PROVE  T \subseteq S /\ Cardinality(T) <= n
  BY DEF Best

(* What the index yields is a part of what it was asked for. *)
LEMMA NearBounds ==
    ASSUME NEW n, NEW S, NEW T \in Near(n, S)
    PROVE  T \subseteq S
  BY DEF Near

(* Candidates are chunks in scope. *)
LEMMA CandidatesInScope ==
    ASSUME NEW q
    PROVE  /\ Matches(q) \subseteq Candidates(q) /\ Candidates(q) \subseteq Chunks
           /\ \A c \in Candidates(q) : InScope(q, c[1])
  BY DEF Matches, Candidates, Stored

(* Queries with one key have one scope and one top_k. *)
LEMMA SameKeySameFit ==
    ASSUME NEW p \in Queries, NEW q \in Queries, Key(p) = Key(q), NEW S, Fits(p, S)
    PROVE  Fits(q, S)
  BY DEF Key, Fits, InScope

(* A request past its start has asked a query, whose key is a key. *)
LEMMA InFlight ==
    ASSUME SearchTypeOK, NEW r \in Requests, at[r] # "idle"
    PROVE  query[r] \in Queries /\ Key(query[r]) \in Keys
  BY DEF SearchTypeOK, Keys

(* Nothing is asked, found or cached at first. *)
LEMMA IndInvInit == Init => IndInv
<1> SUFFICES ASSUME Init PROVE IndInv
  OBVIOUS
<1>1. SearchTypeOK
  BY SearchAssumption DEF Init, SearchTypeOK, Places
<1>2. HeldInScope /\ RankedFits /\ EntriesFit
  BY DEF Init, HeldInScope, RankedFits, EntriesFit, Keys
<1> QED
  BY <1>1, <1>2 DEF IndInv

(* A request that moves on with what it finds, the cache untouched. *)
LEMMA Progress ==
    ASSUME IndInv, NEW r \in Requests, at[r] # "idle",
           NEW place \in Places \ {"idle"}, GoTo(r, place),
           NEW S \in SUBSET Chunks, held' = [held EXCEPT ![r] = S],
           \A c \in S : InScope(query[r], c[1]),
           place \in {"store", "done"} => Cardinality(S) <= query[r].top_k,
           UNCHANGED <<ingests, cache, query, faults>>
    PROVE  IndInv'
<1>1. SearchTypeOK'
  BY DEF IndInv, SearchTypeOK, GoTo
<1>2. HeldInScope' /\ RankedFits'
  BY DEF IndInv, SearchTypeOK, GoTo, HeldInScope, RankedFits, Fits, InScope
<1>3. EntriesFit'
  BY DEF IndInv, EntriesFit, Fits, InScope, Key
<1> QED
  BY <1>1, <1>2, <1>3 DEF IndInv

(* A request that is over stores its results, or does not, and is done. *)
LEMMA StoringKeepsInv ==
    ASSUME IndInv, NEW r \in Requests, at[r] = "store", GoTo(r, "done"),
           Set(r) \/ UNCHANGED cache, UNCHANGED <<ingests, query, held, faults>>
    PROVE  IndInv'
<1>1. query[r] \in Queries /\ Key(query[r]) \in Keys
  BY InFlight DEF IndInv
<1>2. Fits(query[r], held[r])
  BY DEF IndInv, RankedFits
<1> DEFINE entry == [results |-> held[r], left |-> Ttl]
<1>3. Ttl # 0 => entry \in Entry
  BY SearchAssumption DEF IndInv, SearchTypeOK, Entry
<1>4. /\ cache' \in [Keys -> Entry \cup {NoEntry}]
      /\ \A k \in Keys : cache'[k] = cache[k] \/ (k = Key(query[r]) /\ cache'[k] = entry)
  <2>1. CASE UNCHANGED cache
    BY <2>1 DEF IndInv, SearchTypeOK
  <2>2. CASE Ttl = 0 /\ Set(r)
    BY <2>2 DEF IndInv, SearchTypeOK, Set
  <2>3. CASE Ttl # 0 /\ Set(r)
    <3>1. cache' = [cache EXCEPT ![Key(query[r])] = entry]
      BY <2>3 DEF Set
    <3> QED
      BY <1>1, <1>3, <2>3, <3>1 DEF IndInv, SearchTypeOK
  <2> QED
    BY <2>1, <2>2, <2>3
<1>5. SearchTypeOK'
  BY <1>4 DEF IndInv, SearchTypeOK, GoTo, Places
<1>6. HeldInScope' /\ RankedFits'
  BY <1>2 DEF IndInv, SearchTypeOK, GoTo, HeldInScope, RankedFits, Fits, InScope
<1>7. EntriesFit'
  <2> SUFFICES ASSUME NEW q \in Queries, cache'[Key(q)] # NoEntry
               PROVE  Fits(q, cache'[Key(q)].results)
    BY DEF EntriesFit, Fits, InScope, Key
  <2>1. Key(q) \in Keys
    BY DEF Keys
  <2>2. CASE cache'[Key(q)] = cache[Key(q)]
    BY <2>2 DEF IndInv, EntriesFit
  <2>3. CASE Key(q) = Key(query[r]) /\ cache'[Key(q)] = entry
    <3>1. Fits(q, held[r])
      BY <1>1, <1>2, <2>3, SameKeySameFit
    <3> QED
      BY <2>3, <3>1
  <2> QED
    BY <1>4, <2>1, <2>2, <2>3
<1> QED
  BY <1>5, <1>6, <1>7 DEF IndInv

(* Entries that age, expire or are evicted keep their results. *)
LEMMA EntriesLost ==
    ASSUME IndInv, cache' \in [Keys -> Entry \cup {NoEntry}],
           \A k \in Keys : cache'[k] # NoEntry =>
              cache[k] # NoEntry /\ cache'[k].results = cache[k].results,
           UNCHANGED <<ingests, at, query, held, faults>>
    PROVE  IndInv'
<1>1. SearchTypeOK'
  BY DEF IndInv, SearchTypeOK
<1>2. HeldInScope' /\ RankedFits'
  BY DEF IndInv, HeldInScope, RankedFits, Fits, InScope
<1>3. EntriesFit'
  BY DEF IndInv, EntriesFit, Fits, InScope, Key, Keys
<1> QED
  BY <1>1, <1>2, <1>3 DEF IndInv

(* Every step of the specification preserves the invariant. *)
LEMMA IndInvNext == IndInv /\ [Next]_vars => IndInv'
<1> SUFFICES ASSUME IndInv, [Next]_vars PROVE IndInv'
  OBVIOUS
<1> USE DEF IndInv
<1>1. ASSUME NEW d \in Docs, ReplaceChunks(d) PROVE IndInv'
  <2>1. SearchTypeOK'
    <3>1. MaxIngests[d] \in Nat /\ ingests[d] \in Nat /\ ingests[d] < MaxIngests[d]
      BY <1>1, SearchAssumption DEF ReplaceChunks, SearchTypeOK
    <3>2. ingests' = [ingests EXCEPT ![d] = ingests[d] + 1]
      BY <1>1 DEF ReplaceChunks
    <3>3. ingests[d] + 1 \in Nat /\ ingests[d] + 1 <= MaxIngests[d]
      BY <3>1
    <3>4. ingests' \in [Docs -> Nat] /\ \A e \in Docs : ingests'[e] <= MaxIngests[e]
      BY <3>2, <3>3 DEF SearchTypeOK
    <3> QED
      BY <1>1, <3>4 DEF ReplaceChunks, SearchTypeOK
  <2>2. HeldInScope' /\ RankedFits' /\ EntriesFit'
    BY <1>1 DEF ReplaceChunks, HeldInScope, RankedFits, EntriesFit, Fits, InScope, Key
  <2> QED
    BY <2>1, <2>2
<1>2. ASSUME NEW r \in Requests, NEW q \in Queries, Ask(r, q) PROVE IndInv'
  <2>1. q # NoQuery
    BY SearchAssumption
  <2>2. SearchTypeOK'
    BY <1>2, <2>1 DEF Ask, GoTo, Hold, SearchTypeOK, Places
  <2>3. HeldInScope' /\ RankedFits'
    BY <1>2 DEF Ask, GoTo, Hold, SearchTypeOK, HeldInScope, RankedFits, Fits, InScope
  <2>4. EntriesFit'
    BY <1>2 DEF Ask, EntriesFit, Fits, InScope, Key
  <2> QED
    BY <2>2, <2>3, <2>4
<1>3. ASSUME NEW r \in Requests, CacheHit(r) PROVE IndInv'
  <2>1. query[r] \in Queries /\ Key(query[r]) \in Keys
    BY <1>3, InFlight DEF CacheHit
  <2>2. cache[Key(query[r])] \in Entry /\ Fits(query[r], cache[Key(query[r])].results)
    BY <1>3, <2>1 DEF CacheHit, SearchTypeOK, EntriesFit
  <2>3. cache[Key(query[r])].results \in SUBSET Chunks
    BY <2>2 DEF Entry
  <2> QED
    BY <1>3, <2>2, <2>3, Progress DEF CacheHit, Hold, Fits, Places
<1>4. ASSUME NEW r \in Requests, CacheMiss(r) PROVE IndInv'
  <2>1. held' = [held EXCEPT ![r] = held[r]] /\ held[r] \in SUBSET Chunks
    BY <1>4 DEF CacheMiss, SearchTypeOK
  <2>2. \A c \in held[r] : InScope(query[r], c[1])
    BY <1>4 DEF CacheMiss, HeldInScope
  <2>3. /\ at[r] # "idle" /\ GoTo(r, "vector")
        /\ UNCHANGED <<ingests, cache, query, faults>>
    BY <1>4 DEF CacheMiss
  <2>4. "vector" \in Places \ {"idle"} /\ "vector" \notin {"store", "done"}
    BY DEF Places
  <2> QED
    BY <2>1, <2>2, <2>3, <2>4, Progress
<1>5. ASSUME NEW r \in Requests, VectorArm(r) PROVE IndInv'
  <2>1. PICK rows \in Near(Pool, Candidates(query[r])) : Hold(r, rows)
    BY <1>5 DEF VectorArm
  <2>2. rows \in SUBSET Chunks /\ \A c \in rows : InScope(query[r], c[1])
    BY <2>1, NearBounds, CandidatesInScope
  <2>3. /\ at[r] # "idle" /\ GoTo(r, "keyword")
        /\ UNCHANGED <<ingests, cache, query, faults>>
    BY <1>5 DEF VectorArm
  <2>4. "keyword" \in Places \ {"idle"} /\ "keyword" \notin {"store", "done"}
    BY DEF Places
  <2> QED
    BY <2>1, <2>2, <2>3, <2>4, Progress DEF Hold
<1>6. ASSUME NEW r \in Requests, KeywordArm(r) PROVE IndInv'
  <2>1. PICK rows \in Best(Pool, Matches(query[r])) :
          \E fused \in Best(Pool, held[r] \cup rows) :
            \E ranked \in Best(query[r].top_k, fused) : Hold(r, ranked)
    BY <1>6 DEF KeywordArm
  <2>2. PICK fused \in Best(Pool, held[r] \cup rows) :
          \E ranked \in Best(query[r].top_k, fused) : Hold(r, ranked)
    BY <2>1
  <2>3. PICK ranked \in Best(query[r].top_k, fused) : Hold(r, ranked)
    BY <2>2
  <2>4. rows \in SUBSET Chunks /\ \A c \in rows : InScope(query[r], c[1])
    BY <2>1, BestBounds, CandidatesInScope
  <2>5. held[r] \in SUBSET Chunks /\ \A c \in held[r] : InScope(query[r], c[1])
    BY <1>6 DEF KeywordArm, SearchTypeOK, HeldInScope
  <2>6. fused \subseteq held[r] \cup rows
    BY <2>2, BestBounds
  <2>7. ranked \subseteq fused /\ Cardinality(ranked) <= query[r].top_k
    BY <2>3, BestBounds
  <2>8. ranked \in SUBSET Chunks /\ \A c \in ranked : InScope(query[r], c[1])
    BY <2>4, <2>5, <2>6, <2>7
  <2> QED
    BY <1>6, <2>3, <2>7, <2>8, Progress DEF KeywordArm, Hold, Places
<1>7. ASSUME NEW r \in Requests, Store(r) \/ StoreFails(r) PROVE IndInv'
  BY <1>7, StoringKeepsInv DEF Store, StoreFails
<1>8. ASSUME NEW r \in Requests, SearchFails(r) PROVE IndInv'
  <2>1. SearchTypeOK'
    BY <1>8, SearchAssumption DEF SearchFails, GoTo, Hold, SearchTypeOK, Places
  <2>2. HeldInScope' /\ RankedFits'
    BY <1>8 DEF SearchFails, GoTo, Hold, SearchTypeOK, HeldInScope, RankedFits, Fits, InScope
  <2>3. EntriesFit'
    BY <1>8 DEF SearchFails, EntriesFit, Fits, InScope, Key
  <2> QED
    BY <2>1, <2>2, <2>3
<1>9. CASE Tick
  <2> DEFINE older(k) == IF cache[k] = NoEntry \/ cache[k].left = 1 THEN NoEntry
                         ELSE [cache[k] EXCEPT !.left = @ - 1]
  <2>1. cache' = [k \in Keys |-> older(k)]
    BY <1>9 DEF Tick
  <2>2. ASSUME NEW k \in Keys
        PROVE  /\ older(k) \in Entry \cup {NoEntry}
               /\ older(k) # NoEntry =>
                    cache[k] # NoEntry /\ older(k).results = cache[k].results
    <3>1. CASE cache[k] = NoEntry \/ cache[k].left = 1
      BY <3>1
    <3>2. CASE cache[k] # NoEntry /\ cache[k].left # 1
      <4>1. cache[k] \in Entry
        BY <3>2 DEF SearchTypeOK
      <4>2. cache[k].left - 1 \in 1..Ttl
        BY <3>2, <4>1, SearchAssumption DEF Entry
      <4> QED
        BY <3>2, <4>1, <4>2 DEF Entry
    <3> QED
      BY <3>1, <3>2
  <2> HIDE DEF older
  <2> QED
    BY <1>9, <2>1, <2>2, EntriesLost DEF Tick
<1>10. ASSUME NEW k \in Keys, Evict(k) PROVE IndInv'
  <2>1. cache' \in [Keys -> Entry \cup {NoEntry}]
    BY <1>10 DEF Evict, SearchTypeOK
  <2>2. \A l \in Keys : cache'[l] # NoEntry => cache'[l] = cache[l]
    BY <1>10 DEF Evict, SearchTypeOK
  <2> QED
    BY <1>10, <2>1, <2>2, EntriesLost DEF Evict
<1>11. CASE UNCHANGED vars
  BY <1>11 DEF vars, SearchTypeOK, HeldInScope, RankedFits, EntriesFit, Fits, InScope, Key
<1> QED
  BY <1>1, <1>2, <1>3, <1>4, <1>5, <1>6, <1>7, <1>8, <1>9, <1>10, <1>11 DEF Next, Handle

-----------------------------------------------------------------------------
(* The invariant holds in every state. *)
THEOREM Invariance == Spec => []IndInv
  BY IndInvInit, IndInvNext, PTL DEF Spec

(* The cache, the requests and what they hold stay well-formed: an entry   *)
(* never outlives its ttl, and a request that failed is forgotten.         *)
THEOREM SearchTypeCorrect == Spec => []SearchTypeOK
<1>1. IndInv => SearchTypeOK
  BY DEF IndInv
<1> QED
  BY <1>1, Invariance, PTL

(* Whoever computed it and whenever, an answer of search.py has at most    *)
(* top_k chunks, all of the tenant and the collection asked for.           *)
THEOREM AnswersCrossNoBoundary == Spec => []AnswersFitTheirQuery
<1>1. IndInv => AnswersFitTheirQuery
  BY DEF IndInv, RankedFits, AnswersFitTheirQuery
<1> QED
  BY <1>1, Invariance, PTL
=============================================================================
