------------------------------- MODULE Ranking ------------------------------
(***************************************************************************)
(* How a search orders what its two arms found: Reciprocal Rank Fusion     *)
(* (retrieval/domain/fusion.py), the cut to the pool                       *)
(* (pgvector_retriever.py) and the lexical reranker (reranker.py).         *)
(*                                                                         *)
(* Scores are exact here: a share 1/(k + rank) is counted in units of      *)
(* 1/Unit, and a final score in units that leave no denominator. Of a text *)
(* only what the reranker reads is kept: how many of the query's words it  *)
(* has, and whether it has the query as a phrase.                          *)
(***************************************************************************)
EXTENDS Integers, FiniteSets, SequencesExt

(* sorted(..., reverse=True) and list.sort(reverse=True) are stable: those *)
(* that go before an item are larger, or as large and stood before it.     *)
SortedBy(s, value) ==
    LET before(j) == {i \in DOMAIN s : \/ value[s[i]] > value[s[j]]
                                       \/ value[s[i]] = value[s[j]] /\ i < j}
    IN  [p \in DOMAIN s |-> s[CHOOSE j \in DOMAIN s : Cardinality(before(j)) = p - 1]]

FirstOf(s, n) == SubSeq(s, 1, Min({n, Len(s)}))

Rank(x, ranking) == CHOOSE i \in DOMAIN ranking : ranking[i] = x

-----------------------------------------------------------------------------
(* A measure in which 1/(k + rank) is whole for every rank in the pool. *)
Unit(k, pool) == FoldLeft(LAMBDA u, r : u * (k + r), 1, [r \in 1..pool |-> r])

(* Mutant: an item keeps only the share of the last arm that ranked it. *)
FusedLast(rankings, k, pool) ==
    [x \in UNION {ToSet(r) : r \in ToSet(rankings)} |->
        LET last == SelectLastInSeq(rankings, LAMBDA r : x \in ToSet(r))
        IN  Unit(k, pool) \div (k + Rank(x, rankings[last]))]

(* reciprocal_rank_fusion *)
Fused(rankings, k, pool) ==
    LET unit == Unit(k, pool)
    IN  [x \in UNION {ToSet(r) : r \in ToSet(rankings)} |->
            FoldLeft(LAMBDA score, r : IF x \in ToSet(r)
                                       THEN score + unit \div (k + Rank(x, r))
                                       ELSE score, 0, rankings)]

(* A dictionary lists its keys in the order in which they came. *)
Filled(keys, ranking) ==
    FoldLeft(LAMBDA found, x : IF x \in ToSet(found) THEN found ELSE Append(found, x),
             keys, ranking)

(* Mutant: the keyword arm is fused first, and wins every tie. *)
FoundKeywordFirst(vector, keyword) == Filled(keyword, vector)

(* The order in which the dictionary of scores is filled. *)
Found(vector, keyword) == Filled(vector, keyword)

(* PgVectorHybridRetriever.retrieve, once both arms have answered. *)
Retrieved(vector, keyword, k, pool) ==
    FirstOf(SortedBy(Found(vector, keyword), Fused(<<vector, keyword>>, k, pool)), pool)

-----------------------------------------------------------------------------
(* Mutant: the weights of retrieval and coverage are exchanged. *)
FinalSwapped(base, span, covered, words, phrase) ==
    6 * base * words + span * (3 * covered + words * phrase)

(* 0.3 * base + 0.6 * coverage + 0.1 * phrase, times 10 * span * words. *)
Final(base, span, covered, words, phrase) ==
    3 * base * words + span * (6 * covered + words * phrase)

(* LexicalReranker.rerank. No span, or no word in the query, is like one:  *)
(* the terms they divide are zero.                                         *)
Rerank(candidates, score, words, covered, phrase, top_k) ==
    LET low   == CHOOSE x \in ToSet(candidates) : \A y \in ToSet(candidates) : score[x] <= score[y]
        high  == CHOOSE x \in ToSet(candidates) : \A y \in ToSet(candidates) : score[x] >= score[y]
        span  == score[high] - score[low]
        final == [x \in ToSet(candidates) |->
                     Final(score[x] - score[low], IF span = 0 THEN 1 ELSE span,
                           covered[x], IF words = 0 THEN 1 ELSE words, phrase[x])]
    IN  FirstOf(SortedBy(candidates, final), top_k)
=============================================================================
