------------------------------ MODULE Answering -----------------------------
(***************************************************************************)
(* From a question to a streamed, cited answer (generation/application/    *)
(* generate.py, domain/prompt.py, infrastructure/local_llm.py), and the    *)
(* evaluation that runs the same pieces over a corpus held in memory       *)
(* (evaluation/).                                                          *)
(*                                                                         *)
(* A text is a sequence of sentences and a sentence the set of its words.  *)
(* "override" stands for a phrase the guard knows; sentences are never cut *)
(* through such a phrase. A number in brackets is a word of a text like    *)
(* any other: those up to "[3]" stand for all. The metrics of a case are   *)
(* exact fractions <<n, d>>, their means rounded as floats are.            *)
(***************************************************************************)
EXTENDS Ranking

CONSTANT
    Rounding    \* how far a float mean moves, at most, with each further case

(* Scores are multiples of a unit of which every float is one. Adding up   *)
(* and dividing n scores of at most 1 rounds n times, by 2^-53 of a sum    *)
(* that is at most n, and n - 1 times 2^-52 is more than comes together.   *)
ASSUME RoundingAssumption == Rounding \in Nat

Sentences == {s \in SUBSET STRING : IsFiniteSet(s)}

WordsOf(text) == UNION ToSet(text)

(* The markers of an answer, as they are written, and what is left of them *)
(* when the words of a text are taken out of it ([a-z0-9]+).               *)
MarkerWord == <<"[1]", "[2]", "[3]">>
Digit      == <<"1", "2", "3">>

Content(words) ==
    (words \ ToSet(MarkerWord))
        \cup {Digit[m] : m \in {n \in DOMAIN MarkerWord : MarkerWord[n] \in words}}

-----------------------------------------------------------------------------
(* PromptInjectionGuard.scan *)
Scan(text) ==
    [i \in DOMAIN text |-> IF "override" \in text[i]
                           THEN (text[i] \ {"override"}) \cup {"redacted"} ELSE text[i]]

Flagged(texts) == \E i \in DOMAIN texts : "override" \in WordsOf(texts[i])

(* _sanitize: all passages are scanned, also those behind a flagged one. *)
Sanitized(passages) ==
    [i \in DOMAIN passages |-> [passages[i] EXCEPT !.text = Scan(@)]]

(* Mutant: the citations count from zero, the passages from one. *)
CitationsFromZero(prompt) ==
    [i \in DOMAIN prompt |-> [marker |-> prompt[i].marker - 1, chunk |-> prompt[i].chunk]]

(* build_grounded_prompt, GroundedPrompt.citations *)
Prompt(passages) ==
    [i \in DOMAIN passages |-> [marker |-> i, chunk |-> passages[i].chunk,
                                text |-> passages[i].text]]

Citations(prompt) ==
    [i \in DOMAIN prompt |-> [marker |-> prompt[i].marker, chunk |-> prompt[i].chunk]]

(* _best_sentence: max returns the first of several. *)
BestSentence(text, question) ==
    IF text = <<>> THEN {}
    ELSE LET hits(i) == Cardinality(Content(text[i]) \cap question)
         IN  text[CHOOSE i \in DOMAIN text :
                    \A j \in DOMAIN text : hits(j) < hits(i) \/ (hits(j) = hits(i) /\ i <= j)]

MaxPassagesInAnswer == 3

LeadIn   == {"based", "retrieved", "context"}
NotFound == {"i", "not", "find", "relevant", "information", "retrieved", "context", "answer"}

(* _compose, as the pieces of text it joins. Each marker is one more word  *)
(* of the piece, and looks like those the passage itself may have.         *)
Compose(prompt, question) ==
    IF prompt = <<>> THEN << NotFound >>
    ELSE << LeadIn >> \o
         [i \in DOMAIN FirstOf(prompt, MaxPassagesInAnswer) |->
            BestSentence(prompt[i].text, question) \cup {MarkerWord[prompt[i].marker]}]

(* GenerateAnswerHandler.stream, all its events. *)
Stream(passages, question) ==
    LET prompt == Prompt(Sanitized(passages))
        tokens == Compose(prompt, question)
    IN  << [type |-> "sources", citations |-> Citations(prompt),
            flagged |-> Flagged([i \in DOMAIN passages |-> passages[i].text])] >>
        \o [i \in DOMAIN tokens |-> [type |-> "token", text |-> tokens[i]]]
        \o << [type |-> "done"] >>

-----------------------------------------------------------------------------
(* InMemorySearcher.handle; sims lists the corpus by similarity to the     *)
(* question, and is the vector arm as it stands. Those that share a word   *)
(* with the question stand first when they are sorted by how many. A       *)
(* question is one word, so that a document that has all of it has the     *)
(* phrase.                                                                 *)
SearchInMemory(corpus, sims, question, top_k) ==
    LET docs       == [i \in DOMAIN corpus |-> i]
        overlap    == [i \in DOMAIN corpus |-> Cardinality(Content(WordsOf(corpus[i])) \cap question)]
        keyword    == FirstOf(SortedBy(docs, overlap),
                              Cardinality({i \in DOMAIN corpus : overlap[i] > 0}))
        candidates == Retrieved(sims, keyword, 60, Len(docs))
        ranked     == Rerank(candidates, Fused(<<sims, keyword>>, 60, Len(docs)),
                             Cardinality(question), overlap,
                             [i \in DOMAIN docs |-> IF overlap[i] = Cardinality(question)
                                                    THEN 1 ELSE 0], top_k)
    IN  [i \in DOMAIN ranked |-> [chunk |-> ranked[i], text |-> corpus[ranked[i]]]]

AnswerWords(tokens) == Content(WordsOf(tokens))

Supported(passages) == UNION {Content(WordsOf(passages[i].text)) : i \in DOMAIN passages}

Share(found, all) == IF all = {} THEN <<1, 1>> ELSE <<Cardinality(found \cap all), Cardinality(all)>>

ContextPrecision(question, passages) ==
    IF passages = <<>> THEN <<0, 1>>
    ELSE <<Cardinality({i \in DOMAIN passages :
                            Content(WordsOf(passages[i].text)) \cap question # {}}),
           Len(passages)>>

(* Mutant: the answer is generated from the passages as they were found. *)
EvaluateUnsanitized(corpus, sims, question, expected, top_k) ==
    LET found    == SearchInMemory(corpus, sims, question, top_k)
        contexts == Sanitized(found)
        answer   == AnswerWords(Compose(Prompt(found), question))
    IN  [recall       |-> Share(Supported(contexts), expected),
         precision    |-> ContextPrecision(question, contexts),
         faithfulness |-> Share(Supported(contexts), answer),
         relevance    |-> Share(answer, expected)]

(* One case of EvaluationHarness.run *)
Evaluate(corpus, sims, question, expected, top_k) ==
    LET contexts == Sanitized(SearchInMemory(corpus, sims, question, top_k))
        answer   == AnswerWords(Compose(Prompt(contexts), question))
    IN  [recall       |-> Share(Supported(contexts), expected),
         precision    |-> ContextPrecision(question, contexts),
         faithfulness |-> Share(Supported(contexts), answer),
         relevance    |-> Share(answer, expected)]

-----------------------------------------------------------------------------
Total(report, metric) == FoldLeft(LAMBDA sum, r : sum + r[metric], 0, report)

(* Mutant: the sum over the cases is taken for their mean. *)
MeansBySum(report, metric) == {Total(report, metric)}

(* EvalReport._mean: what a float mean of the scores may come to. Three    *)
(* cases of 0.7 have the mean 0.6999999999999998.                          *)
Means(report, metric) ==
    IF report = <<>> THEN {0}
    ELSE LET mean == Total(report, metric) \div Len(report)
             off  == Rounding * (Len(report) - 1)
         IN  ((mean - off)..(mean + off)) \cap Nat

(* EvalReport.aggregates, two of its four metrics *)
Aggregates(report) ==
    [recall : Means(report, "recall"), faithfulness : Means(report, "faithfulness")]

(* evaluate_gate: the thresholds that fail. *)
GateFailures(means, thresholds) ==
    {t \in thresholds : t.metric \notin DOMAIN means \/ means[t.metric] < t.minimum}

(* run_eval.py: what the script tells CI. *)
ExitCode(failures) == IF failures = {} THEN 0 ELSE 1
=============================================================================
