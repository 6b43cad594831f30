----------------------------- MODULE Algorithms ----------------------------
(***************************************************************************)
(* The pure functions of the system, each computed for every input of a    *)
(* bounded set: the chunker, the ranking of a search, the answer and its   *)
(* evaluation, the evaluation gate, a walk through a listing, and the      *)
(* token of a request.                                                     *)
(***************************************************************************)
EXTENDS Chunking, Answering, Paging, Tokens

CONSTANTS
    MaxLength,      \* bound: length of a text to be split
    ChunkSizes,     \* bound: values of chunk_size
    MaxPool,        \* bound: size of the candidate pool (the default is 50)
    Texts,          \* bound: texts of an evaluation corpus
    MaxCorpus,      \* bound: documents in an evaluation corpus
    MaxRows,        \* bound: rows in a listing
    MaxTtl,         \* bound: seconds a token lives
    NoOutput        \* not computed yet

VARIABLES input, output

vars == <<input, output>>

ASSUME AlgorithmsAssumption ==
    /\ MaxLength \in Nat /\ ChunkSizes \subseteq Nat \ {0}
    /\ MaxPool \in 2..61 /\ MaxCorpus \in Nat /\ MaxRows \in Nat
    /\ MaxTtl \in Nat \ {0}
    /\ NoToken \notin [tid : {"mine", "theirs", "malformed"}, secret : {"secret", "guess"},
                       iat : Int, exp : Int]

(* "redacted" is what the guard writes: a text of its own does not have it, *)
(* so that whoever reads it knows where it comes from.                     *)
ASSUME TextsAssumption ==
    Texts \subseteq Seq(Sentences) /\ \A text \in Texts : "redacted" \notin WordsOf(text)

-----------------------------------------------------------------------------
(* ChunkingConfig: the overlap is smaller than the chunk. *)
SplitInputs ==
    {[of |-> "split", text |-> Text(kinds), size |-> size, overlap |-> overlap] :
        kinds \in BoundedSeq(Kinds, MaxLength), size \in ChunkSizes, overlap \in 0..2}

(* Chunks are numbered in the order in which they are found. *)
Arms(pool) ==
    {arms \in [vector  : {[i \in 1..m |-> i] : m \in 0..pool},
               keyword : {s \in BoundedSeq(1..2 * pool, pool) : IsInjective(s)}] :
        LET new == SelectSeq(arms.keyword, LAMBDA x : x > Len(arms.vector))
        IN  new = [i \in DOMAIN new |-> Len(arms.vector) + i]}

(* The larger pool goes with texts that have nothing of the query, with    *)
(* the default k and with the smallest for which two arms beat one.        *)
PlainRankInputs ==
    LET none == {[x \in 1..2 * MaxPool |-> 0]}
    IN  [of : {"rank"}, arms : Arms(MaxPool), k : {MaxPool - 1, 60}, pool : {MaxPool},
         words : {0}, covered : none, phrase : none, top_k : {MaxPool}]

(* What a chunk has of a query of up to two words: some of them, and the   *)
(* phrase or not.                                                          *)
WordyRankInputs ==
    LET found(arms) == ToSet(arms.vector) \cup ToSet(arms.keyword)
    IN  UNION {[of : {"rank"}, arms : {arms}, k : {60}, pool : {2}, words : 1..2,
                covered : [found(arms) -> 0..2], phrase : [found(arms) -> 0..1],
                top_k : 1..2] : arms \in Arms(2)}

RankInputs ==
    {i \in PlainRankInputs \cup WordyRankInputs :
        \A x \in DOMAIN i.covered : i.covered[x] <= i.words}

Corpora == BoundedSeq(Texts, MaxCorpus)

(* Similarity lists a corpus in its own order or in the opposite one. *)
Orders == UNION {{[i \in 1..n |-> i], [i \in 1..n |-> n + 1 - i]} : n \in 0..MaxCorpus}

AnswerInputs ==
    {i \in [of : {"answer"}, corpus : Corpora, sims : Orders, top_k : {1, MaxCorpus},
            expected : {{}, {"wanted"}, {"wanted", "override"}}] :
        Len(i.sims) = Len(i.corpus)}

(* Scores go up to two units, minima to what two cases add up to. *)
GateInputs ==
    [of : {"gate"},
     report : BoundedSeq([recall : 0..2, faithfulness : 0..2], 2),
     thresholds : {T \in SUBSET [metric : {"recall", "faithfulness", "typo"}, minimum : 0..4] :
                     Cardinality(T) <= 2}]

(* Up to two changes of different rows during a walk, each before one of   *)
(* its statements up to the sixth; a row lands within two places of either *)
(* end.                                                                    *)
Changes ==
    [at : 2..6, kind : {"new"}, row : {-2, -1}, place : {-2, -1, 1, 2}] \cup
    [at : 2..6, kind : {"moved"}, row : 1..MaxRows, place : {-2, -1, 1, 2}] \cup
    [at : 2..6, kind : {"gone"}, row : 1..MaxRows, place : {1}]

(* What a client may ask for: a column that is not sortable stands for     *)
(* none as well.                                                           *)
Sorts == {[field |-> "size", direction |-> "asc"],
          [field |-> "created_at", direction |-> "asc"],
          [field |-> "updated_at", direction |-> "asc"],
          [field |-> "status", direction |-> "desc"]}

Listings ==
    [listing : {"documents"}, sort : Sorts] \cup
    [listing : {"jobs"}, sort : {[field |-> "size", direction |-> "asc"]}]

(* Two or three neighbouring rows that tie, and how they may be listed. *)
Ties == UNION {Bijection(r..r + n, r..r + n) : r \in 1..MaxRows, n \in 1..2}

TiedRows(walk) == DOMAIN walk.tied

Walks(l, least, number, tied, permuted) ==
    [of : {"walk"}, listing : {l.listing}, sort : {l.sort}, limit : 1..2,
     rows : {[r \in 1..n |-> r] : n \in least..MaxRows},
     changes : BoundedSeq({c \in Changes : Lands(Order(l.listing, l.sort), c)}, number),
     tied : tied, permuted : permuted]

(* Rows that tie do not change, and go with one change at most. *)
WalkInputs ==
    {i \in UNION {Walks(l, 0, 2, {<<>>}, {{}})
                  \cup Walks(l, 2, 1, Ties, SUBSET {1, 2}) : l \in Listings} :
        /\ TiedRows(i) \subseteq ToSet(i.rows)
        /\ \A c \in ToSet(i.changes) :
             c.kind # "new" => c.row \in ToSet(i.rows) \ TiedRows(i)
        /\ \A c, d \in DOMAIN i.changes :
             c < d => i.changes[c].row # i.changes[d].row /\ i.changes[c].at <= i.changes[d].at}

(* What a header may hold: a token issued for this tenant or for another   *)
(* one, one signed with another secret, or one without a tenant. The age   *)
(* of a token, in half seconds, is by the clock of the replica that        *)
(* verifies it, which may be behind that of the one that issued it.        *)
Sent == {"none", "mine", "theirs", "forged", "malformed"}

TokenInputs ==
    {i \in [of : {"token"}, enabled : BOOLEAN, rotated : BOOLEAN, ttl : 1..MaxTtl,
            issued : 4..5, age : -3..2 * MaxTtl + 3, bearer : Sent, own : Sent] :
        i.age <= 2 * i.ttl + 3}

Given ==
    \/ input \in {i \in SplitInputs : i.overlap < i.size}
    \/ input \in RankInputs \cup AnswerInputs \cup GateInputs \cup WalkInputs \cup TokenInputs

Init == Given /\ output = NoOutput

Compute(algorithm, result) ==
    /\ output = NoOutput /\ input.of = algorithm
    /\ output' = result
    /\ UNCHANGED input

ComputeSplit ==
    LET made == ChunksOf(Split(input.text, input.size, input.overlap))
    IN  Compute("split", [refused |-> made.refused, texts |-> ChunkList(made.stored)])

ComputeRank ==
    LET arms == input.arms
        candidates == Retrieved(arms.vector, arms.keyword, input.k, input.pool)
    IN  Compute("rank",
            [candidates |-> candidates,
             ranked |-> Rerank(candidates,
                               Fused(<<arms.vector, arms.keyword>>, input.k, input.pool),
                               input.words, input.covered, input.phrase, input.top_k)])

Question == {"asked"}

ComputeAnswer ==
    LET found == SearchInMemory(input.corpus, input.sims, Question, input.top_k)
    IN  Compute("answer",
            [found  |-> found,
             events |-> Stream(found, Question),
             result |-> Evaluate(input.corpus, input.sims, Question, input.expected,
                                 input.top_k)])

ComputeGate ==
    /\ input.of = "gate"
    /\ \E means \in Aggregates(input.report) :
         LET failures == GateFailures(means, input.thresholds)
         IN  Compute("gate", [failures |-> failures, exit |-> ExitCode(failures)])

ComputeWalk ==
    Compute("walk", Walk(input))

(* The answer of the token endpoint for this tenant, and the tenant of a   *)
(* request that is sent when it has the given age.                         *)
ComputeToken ==
    LET answer     == IssueToken(input.enabled, "mine", "secret", input.ttl, input.issued)
        signed(tid, secret) == Issue(tid, secret, input.ttl, input.issued)
        held == [none |-> NoToken, mine |-> answer.token,
                 theirs |-> signed("theirs", "secret"), forged |-> signed("mine", "guess"),
                 malformed |-> signed("malformed", "secret")]
    IN  Compute("token",
            [expires_in |-> answer.expires_in,
             tenant     |-> Identity(held[input.bearer], held[input.own],
                                     IF input.rotated THEN "rotated" ELSE "secret",
                                     input.issued + input.age)])

Next ==
    \/ ComputeSplit \/ ComputeRank \/ ComputeAnswer
    \/ ComputeGate \/ ComputeWalk \/ ComputeToken

Spec == Init /\ [][Next]_vars

Computed(algorithm) == output # NoOutput /\ input.of = algorithm

LastOf(s, n) == SubSeq(s, IF Len(s) > n THEN Len(s) - n + 1 ELSE 1, Len(s))
-----------------------------------------------------------------------------
(* chunk.py: a ChunkText that is blank raises, and the ingestion of the    *)
(* document would fail at every attempt; chunking.py packs "up to a target *)
(* size", which joining the overlap and a fragment may exceed. Whatever    *)
(* separators and whitespace run together, no document is refused, and no  *)
(* chunk exceeds the size by more than the overlap and one space.          *)
PiecesBecomeChunks ==
    Computed("split") =>
        /\ ~output.refused
        /\ \A i \in DOMAIN output.texts :
             Len(output.texts[i]) <= input.size + input.overlap + 1

(* Splitting on finer and finer separators and packing again loses no      *)
(* letter of the text, and the chunks of a document, as they are listed,   *)
(* keep their order inside every chunk and from chunk to chunk.            *)
PiecesCoverTheText ==
    Computed("split") =>
        LET texts == output.texts
        IN  /\ \A i \in DOMAIN texts : IsRunOf(texts[i], Letters(input.text))
            /\ UNION {Letters(texts[i]) : i \in DOMAIN texts} = Letters(input.text)
            /\ \A i \in 1..Len(texts) - 1 : Follows(texts[i], texts[i + 1])

(* chunking.py: a "fixed overlap to preserve context across chunk edges".  *)
(* A chunk begins with the end of the chunk before it, up to overlap       *)
(* characters, less the blanks that are stripped.                          *)
OverlapIsCarried ==
    Computed("split") =>
        \A i \in 1..Len(output.texts) - 1 :
            IsPrefix(Strip(LastOf(output.texts[i], input.overlap)), output.texts[i + 1])
-----------------------------------------------------------------------------
Before(x, y, s) == \E i, j \in DOMAIN s : i < j /\ s[i] = x /\ s[j] = y

(* x is ranked by each arm that ranks y, and higher. *)
AheadInBothArms(x, y) ==
    \A arm \in {input.arms.vector, input.arms.keyword} :
        y \in ToSet(arm) => Before(x, y, arm)

(* RETRIEVAL.md: two incomparable arms are fused by rank alone. A chunk    *)
(* found by both goes before any that only one found, however high it      *)
(* stood there (this takes a pool of at most k + 1), and the nearest chunk *)
(* survives, when pgvector_retriever.py cuts up to twice pool_size chunks  *)
(* down to pool_size.                                                      *)
CutKeepsTheBest ==
    Computed("rank") =>
        LET kept == ToSet(output.candidates)
            both == ToSet(input.arms.vector) \cap ToSet(input.arms.keyword)
        IN  /\ \A y \in kept \ both, x \in both : Before(x, y, output.candidates)
            /\ input.arms.vector # <<>> => Head(input.arms.vector) \in kept

(* Fusion, cut, normalisation, weights and sort agree: who is ahead in     *)
(* both arms and has no less of the query is ahead in the result.          *)
BetterStaysAhead ==
    Computed("rank") =>
        \A y \in ToSet(output.ranked), x \in DOMAIN input.covered :
            x # y /\ AheadInBothArms(x, y)
              /\ input.covered[x] >= input.covered[y] /\ input.phrase[x] >= input.phrase[y]
            => Before(x, y, output.ranked)

(* reranker.py: coverage weighs more than retrieval score and phrase       *)
(* together. A candidate with all words of the query goes before one with  *)
(* none, whatever the arms say of them.                                    *)
CoverageWins ==
    Computed("rank") =>
        \A y \in ToSet(output.ranked), x \in ToSet(output.candidates) :
            input.words > 0 /\ input.covered[x] = input.words /\ input.covered[y] = 0
            => Before(x, y, output.ranked)

-----------------------------------------------------------------------------
(* What is read as marker m of a piece of the answer resolves, by the      *)
(* citations sent before it, to the chunk whose text the piece is drawn    *)
(* from - redacted where the guard found something, and then the first     *)
(* event says so.                                                          *)
Resolves(piece, m, sources, corpus) ==
    \E c \in ToSet(sources.citations) :
        /\ c.marker = m
        /\ piece \ {MarkerWord[m]} \subseteq WordsOf(Scan(corpus[c.chunk]))
        /\ "redacted" \in piece => sources.flagged

HasMarkers(text) == \E m \in DOMAIN MarkerWord : MarkerWord[m] \in WordsOf(text)

(* Each piece after the lead has a marker that resolves; and so does every *)
(* marker of the answer, unless a passage brings some of its own.          *)
Cites(events, found, corpus) ==
    LET pieces == 2..Len(events) - 1
        resolves(i, m) == /\ MarkerWord[m] \in events[i].text
                          /\ Resolves(events[i].text, m, events[1], corpus)
    IN  /\ \A i \in pieces \ {2} : \E m \in DOMAIN MarkerWord : resolves(i, m)
        /\ (\A p \in DOMAIN found : ~HasMarkers(found[p].text)) =>
             \A i \in pieces, m \in DOMAIN MarkerWord :
                 MarkerWord[m] \in events[i].text => resolves(i, m)

(* GENERATION.md: the sources are sent first, the answer is drawn from     *)
(* them alone and cites them. The markers are written into the text of the *)
(* answer: a passage that says "[2]" itself puts one there that resolves   *)
(* to another source or to none, next to the one its piece ends with.      *)
AnswersCiteTheirSources ==
    Computed("answer") => Cites(output.events, output.found, input.corpus)

(* The metrics of one case belong together: the answer has no expected     *)
(* word that its passages do not have, and of its own words only those of  *)
(* the fixed wording and the markers lack support.                         *)
MetricsAgree ==
    Computed("answer") =>
        LET r == output.result
            unsupported == r.faithfulness[2] - r.faithfulness[1]
        IN  /\ r.relevance[1] * r.recall[2] <= r.recall[1] * r.relevance[2]
            /\ unsupported <= IF output.found = <<>> THEN Cardinality(NotFound)
                              ELSE Cardinality(LeadIn) + MaxPassagesInAnswer
            /\ output.found = <<>> => r.precision[1] = 0 /\ r.faithfulness[1] = 0

(* EVALUATION.md: the gate fails "if any aggregate falls below its         *)
(* minimum", and run_eval.py tells CI by its exit code. A report in which  *)
(* every case reaches every threshold passes, and one in which no case     *)
(* reaches some threshold fails - both by more than the rounding of a mean *)
(* of so many cases, which is none for one. An unknown metric fails, and   *)
(* an empty report unless nothing is demanded.                             *)
GateAgreesWithCases ==
    Computed("gate") =>
        LET report   == input.report
            cases    == DOMAIN report
            slack    == IF report = <<>> THEN 0 ELSE Rounding * (Len(report) - 1)
            known(t) == t.metric \in {"recall", "faithfulness"}
            met      == {t \in input.thresholds :
                           known(t) /\ cases # {} /\
                           \A i \in cases : report[i][t.metric] >= t.minimum + slack}
            missed   == {t \in input.thresholds :
                           known(t) => t.minimum > 0 /\
                                       \A i \in cases : report[i][t.metric] < t.minimum - slack}
        IN  /\ missed \subseteq output.failures /\ met \cap output.failures = {}
            /\ missed # {} => output.exit = 1
            /\ met = input.thresholds => output.exit = 0

-----------------------------------------------------------------------------
(* pagination.py: has_more tells a client of the documents whether to go   *)
(* on; one of the jobs goes on while pages are full. Whatever column and   *)
(* direction orders the listing: of the rows that do not change and tie    *)
(* with no other, a walk misses at most one for each row that went, or     *)
(* moved elsewhere than to the front, after its first page and, of the     *)
(* documents, one for each registered between its last count and the page; *)
(* it repeats at most one for each row that came, or was moved by a worker,*)
(* after its first page.                                                   *)
WalkIsAsStillAsTheTable ==
    Computed("walk") =>
        LET changes   == input.changes
            last      == 2 * Len(output)
            from(at)  == {c \in DOMAIN changes : changes[c].at \in at..last}
            of(kinds) == {c \in DOMAIN changes : changes[c].kind \in kinds}
            inFront   == {c \in DOMAIN changes : changes[c].place = 1}
            stayed    == ToSet(input.rows) \ (TiedRows(input) \cup {c.row : c \in ToSet(changes)})
            repeats   == UNION {{p} \X Repeats(output, p, TiedRows(input)) : p \in DOMAIN output}
        IN  /\ Cardinality(stayed \ Shown(output)) <=
                  Cardinality(from(3) \cap (of({"gone"}) \cup (of({"moved"}) \ inFront)))
                    + IF input.listing = "documents"
                      THEN Cardinality(from(last) \cap of({"new"})) ELSE 0
            /\ Cardinality(repeats) <= Cardinality(from(3) \cap of({"new", "moved"}))

-----------------------------------------------------------------------------
(* jwt.py writes and compares whole seconds, and the replica that verifies *)
(* has another clock than the one that issued; the token endpoint tells    *)
(* the client how long its token lives. A request counts as the tenant     *)
(* whose token it sent, in the first header that has one, for at least     *)
(* expires_in less a second and at most expires_in, while the secret is    *)
(* the one it was issued with; a clock that is behind by a second or more  *)
(* refuses the token at first.                                             *)
TokenLivesItsTime ==
    Computed("token") =>
        LET sent == IF input.bearer = "none" \/ (input.bearer = "mine" /\ ~input.enabled)
                    THEN input.own ELSE input.bearer
            good == /\ ~input.rotated
                    /\ sent = "theirs" \/ (sent = "mine" /\ input.enabled)
        IN  /\ output.tenant \in {"401", sent}
            /\ output.tenant # "401" => good /\ input.age \in -1..2 * input.ttl - 1
            /\ good /\ input.age \in 0..2 * (input.ttl - 1) => output.tenant = sent
            /\ input.enabled => output.expires_in = input.ttl
=============================================================================
