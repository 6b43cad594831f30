# Verification of the EKA knowledge assistant

EKA is a multi-tenant document assistant: a FastAPI service and a worker process over Postgres
(with pgvector) and Redis. Clients register documents, upload their text, search and ask
questions; workers split, embed and index the texts. This directory holds TLA+ models of that
code, TLC configurations that check them on small instances, and TLAPS proofs for all instances.

`PROJECT.json` maps every definition to the lines it models and lists runs, hazards, findings and
theorems. Paths below are relative to `src/src/eka/` unless they start with `docs/` or `README`.

## 1. Inventory

| Part | State | Operations | Talks to |
|---|---|---|---|
| Document catalogue (`modules/documents`) | table `documents`: tenant, content hash, status; unique on (tenant, hash), also for deleted rows | register, delete, get, list; mark_ingesting, mark_indexed, mark_failed | clients; the pipeline calls the status changes |
| Content upload (`ingestion/application/content.py`) | table `document_contents` | verify hash, store text, enqueue a job, in three transactions | catalogue, queue |
| Job queue (`ingestion/infrastructure/queue.py`) | table `ingestion_jobs`: status, attempts, available_at, lock columns | enqueue, dequeue (`FOR UPDATE SKIP LOCKED`), complete, fail with backoff | uploads, workers |
| Worker (`worker.py`) | the batch it claimed, the job it is at, its stop flag; all in memory | poll, handle, settle, mark failed, stop | queue, pipeline |
| Pipeline (`ingestion/application/pipeline.py`) | table `chunks` | mark ingesting, split, embed, replace chunks, mark indexed | catalogue, chunker |
| Chunker (`ingestion/domain/chunking.py`) | none | recursive split, pack, overlap | pipeline |
| Search (`retrieval/`) | Redis entries per (tenant, collection, text, top_k) with a ttl | cache lookup, vector arm, keyword arm, fusion, rerank, store | chunks table, Redis |
| Answers (`generation/`) | none | guard, prompt, citations, local model, event stream | search |
| Evaluation (`evaluation/`) | a corpus in memory | search in memory, metrics, gate | the pieces of search and answers |
| Listings (`documents/application/queries.py`, `job_queries.py`) | none | count and page | catalogue, queue |
| Identity (`identity/`, `api/security.py`) | none; a secret per deployment, a clock per replica | issue and verify tokens | every request |
| API shell (`api/`, `shared/infrastructure/database.py`) | the connection pool of a process; the sessions of its requests | serve, map errors to answers, probe | everything above |
| Shared kernel, migrations, deployment | configuration | wiring | |

### What is hard

* **No transaction spans two parts.** Text, job, document status and chunks are committed apart,
  in an order that has to make every intermediate state acceptable.
* **Reads are stale when used.** A status change reads, decides, and later writes by id without a
  lock or version. `fail` counts from a copy made at claim time; `complete` and `fail` update by id.
  A search stores a result it read some statements ago.
* **Failures.** A process ends between any two commits; an answer is lost after its commit;
  Redis fails before or after a SET; a retry starts from what the failed attempt left behind.
* **Actors meet.** Workers poll one table, clients delete what a worker ingests, registrations of
  one content race, documents are re-ingested between the two arms of one search, rows come and go
  between two pages.
* **Requests share a pool.** An upload uses three sessions, a stream goes on after its status was
  sent, and FastAPI decides when a session is closed.
* **Clocks differ.** Whole seconds written by one replica are compared with the clock of another.
* **Order and number.** Rank sums with ties, a cut before the rerank, spans that are zero,
  separators that are stripped here and put back there, means that are rounded before they are compared.
* **Data that looks like structure.** Citation markers are written into the text they cite.

### What makes each part correct

* Queue: a job has one holder; who settles a row still owns it; attempts are counted once each and
  the last one parks the job; every queued job is settled; a stop strands nothing.
* Saga: INDEXED means the chunks are there; COMPLETED means indexed or deleted; FAILED means
  dead-lettered; only one worker at a time acts on a document.
* Catalogue: one document per tenant and content; all answers to one registration agree; a row is
  changed only for its own tenant.
* Search: answers stay inside tenant, collection and top_k; Redis can neither fail a search nor keep
  a stale entry alive for good.
* API shell: what a client was told is so; every request ends and every connection comes back.
* Identity: a token counts as its tenant's, for as long as the client was told.
* Algorithms: nothing is lost, invented or put in an order the inputs contradict.

## 2. Modules

| Module | Models | How |
|---|---|---|
| `JobContract` | what the queue promises | abstract stages waiting, held, done, dead, lost |
| `JobQueue` | `queue.py`, `jobs.py`, `worker.py` | one action per statement or commit that another process can see; implements `JobContract` |
| `Document` | statuses and transitions of the aggregate | constant definitions |
| `Ingestion` | `content.py`, `pipeline.py`, `lifecycle.py`, DELETE | EXTENDS `JobQueue`: supplies what a worker does between claiming and settling, and the clients |
| `Catalog` | `commands.py`, `repository.py`, the unique constraint | requests as small programs: look up, insert; load, save |
| `Search` | `search.py`, `pgvector_retriever.py`, `redis_cache.py` | requests as small programs over cache and chunks |
| `Chunking` | `chunking.py`, `chunk.py` | a character is a kind and a position |
| `Ranking` | `fusion.py`, the cut, `reranker.py` | fractions on a common unit instead of floats |
| `Answering` | `generate.py`, `prompt.py`, `guardrails.py`, `local_llm.py`, `evaluation/` | a text is a sequence of sets of words, and "[2]" is a word; a mean is any number within its rounding |
| `Paging` | `pagination.py`, the listings of documents and of jobs | a client's walk, in the order it asked for, while rows come, go and move, and list ties either way |
| `Tokens` | `identity/infrastructure/jwt.py`, `api/security.py` | clocks in half seconds, a signature is its secret |
| `Requests` | `api/dependencies.py`, `errors.py`, `health.py`, `database.py`, the routers | a handler is a sequence of steps on sessions; sessions compete for the connections of the pool |
| `Algorithms` | the pure functions above | an initial state per input, one step that computes |
| `JobQueueProofs`, `IngestionProofs`, `CatalogProofs`, `SearchProofs`, `RequestsProofs`, `AlgorithmsProofs`, `ChunkingProofs` | | theorems (section 5); each EXTENDS what it is about |
| `ListLemmas` | | facts about folds, sums, sorted places, products, parts of lists and a recursion that leaps, which `AlgorithmsProofs` and `ChunkingProofs` cite |
| `MC*` | | the instances TLC checks |

Correspondences worth knowing:

* **A job is its document.** Rows are unique per (document, version) and no handler moves a document
  past version 1: `change_content`, which would, has no caller.
* **Dequeue is two actions.** SELECT locks rows that still read PENDING; the commit makes them
  PROCESSING and hands out the copies. Row locks are the sets `locks[w]`; a process that dies drops
  them and keeps nothing else.
* **`pc[w]`** is the place in `IngestionWorker.run`, `step[w]` the place in
  `IngestDocumentHandler.handle`. `mark_ingesting`, `mark_indexed`, `mark_failed` and DELETE are a `Load`
  and a `Save` each.
* **A fault** is an exception in one statement, before it takes effect or after its commit
  (`Committed`). What happens then is what the surrounding `try` does.
* **INSERT and COMMIT of a registration are one action**: a second INSERT of the key waits for
  the first transaction and then finds the key taken, or free.
* **Which chunks rank highest** is open in `Search` and computed in `Ranking`. `Best` fixes only
  how many survive each ranking step. How many the vector arm finds is open as well (`VectorArm`): its
  index is scanned up to a limit of its own (pgvector's `ef_search`, 40 unless set; the pool has 50) and the
  rows of other tenants and collections are dropped afterwards, so that a search may find fewer than there are,
  or none. The keyword arm misses nothing.
* **Markers are words.** `_compose` writes `[n]` into the text of the answer, where a passage's own "[2]"
  looks the same. `Resolves` reads an answer as a client would, and `Cites` says what a client may count on:
  each piece ends with a marker that is right; every marker is right where no passage has one.
* **A float mean** is an integer of small units in `Means`, off the true one by at most `Rounding` for each
  case after the first. `GateAgreesWithCases` promises nothing about a report whose cases come that close to a
  minimum, and the code keeps no such promise: three cases of 0.7 fail a minimum of 0.7.
* **A listing is a list of rows** in the order the client asked for, whose column matters by what can
  happen to it: rows in the order of a time come at its late end, or near it, while those in the
  order of a title or a status come anywhere; a worker that updates a row moves it where the order is by
  `updated_at` or status. Places are counted from the front or, if negative, from behind.
* **`Steps[handler]`** in `Requests` is what a handler asks of the database and tells its client, in
  its order; `owner[c]` is the session that has connection `c`. A session takes a connection with its
  first statement and gives it back at its commit or close, which is why an upload, whose lookup never
  commits, holds one connection while it waits for another. `closing` is a choice made once: FastAPI
  closes what `get_read_session` yields before the response starts or, since 0.118, after it is sent,
  and `pyproject.toml` gives only a minimum version. In the first case the arms of an answer run on a
  closed session, which silently opens a connection that only garbage collection returns (`Lost`).
* **Time** in `JobQueue` advances only while some row waits for its backoff, in `Search` while some
  entry exists. Nothing else reads a clock.
* The outputs of `Split`, of `Retrieved` and `Rerank` and of the answer path were compared with those of
  the Python functions for every input of the run `algorithms`; they agree. What the gate says of scores of
  0, 0.3, 0.35, 0.5 and twice those is among the outcomes of the model for every input.
  The walk has no counterpart to run: its client is outside the repository.

Definitions preceded by "Mutant:" are wrong on purpose: each is a definition of the code with
a plausible bug (a guard dropped, an order swapped), kept beside it so that every property is
known to notice one. They are used nowhere else.

## 3. Runs

| Run | Shows | Instance | States |
|---|---|---|---|
| `queue` | claims are exclusive and settled once, updates by id are right, `JobQueue` implements `JobContract`; unless a process dies every queued job is settled; every stop is honoured | 2 documents, 2 workers, 3 attempts, a kill, an error, a stop | 190,000 |
| `ingestion_safety` | what INDEXED, FAILED, COMPLETED promise; only a DELETE can be overwritten | 2 documents (one deletable, one blank), 2 workers, a fault, a kill, an error, a stop | 2,015,000 |
| `ingestion_liveness` | queued jobs settle whatever fails; without a fault their documents end up indexed or deleted, for good | the same documents and workers, batches of one, a fault | 91,000 |
| `catalog_safety` | no duplicates, one document for all, tenants apart | 2 tenants, 2 contents, 3 requests | 52,000 |
| `search` | scope, resilience to Redis, stale entries die | 3 documents of 2 tenants, one ingested twice; 2 requests; pool 2, ttl 2 | 240,000 |
| `algorithms` | chunker, ranking, answers, metrics, gate, walk, tokens | texts to 6 characters, pools to 3, corpora and listings to 4, ttl to 2 seconds | 395,000 |
| `requests` | the pool halts only under as many uploads as connections; what a client was told is so; every request ends, every connection comes back | 3 requests (one for anything, one for upload, search or answer, one for upload), 2 connections | 160,000 |

Five more runs end in a violation; each checks one sentence of the repository the code does not
keep (section 4).

### Bounds, and why they are enough

* Two workers, three requests, two search requests: every race modelled is between two actors; the
  third request of the catalogue is the one that comes after a race is over.
* Two documents make a batch of two, so that a worker can die, stop or fail with a job in hand and
  another claimed. `ingestion_liveness`
  claims one at a time, so that a poll leaves one behind.
* Three attempts have a first, a middle and a last one, with the delays 1 and 2, the second at the
  cap. Two suffice where only "last or not" matters.
* `MaxKills`, `MaxErrors`, `MaxStops`, `MaxFaults` bound how often something fails, not where: every
  place of failure is reached. The proofs do without these bounds being small.
* `ingests` is bounded per document in `Search`. Two generations of one document are what one search
  can mix and what an entry can be stale by.
* Texts of six characters of four kinds hold a paragraph break between two fragments, a fragment
  longer than a chunk, and separators in a row; pieces of 2 and 3 with every overlap make them pack.
* Pool 3 with k = 2 is the smallest case of pool = k + 1, the limit up to which a chunk found by
  both arms goes first. The deployed k is 60; a pool may be configured up to 500, and from 62 on that
  property no longer holds of the code. No document promises it there.
* Corpora of four let one passage exceed the three an answer quotes; one of the texts has a "[2]".
* Reports of two cases are the smallest with a mean to round, and `Rounding` = 1 moves it by the
  least there is; scores and minima of a few units lie on either side of what that reaches.
* Walks of four rows with pages of one and two have middle pages. They take up to two changes, in four
  orders: by creation and by update from the oldest, by status from the last, and by a column that is not
  sortable, for which the code silently takes the newest first. Ties come with up to one change: two or three
  neighbouring rows, which stay as they are, are listed another way on some of the first two pages.
  What happens to a row that ties is left out, and a row listed among rows that tie counts neither as repeated
  nor as missed: the code has no tie-breaker, and a client that sorts by status, where nearly all rows tie, is
  promised next to nothing.
* The two queries of `search` are one tenant's, for one chunk, over everything and over one collection, and so
  differ in the part of the key that scopes overlap in; that no answer crosses a tenant's boundary or exceeds
  its top_k is proved for all queries (`AnswersCrossNoBoundary`).
* Two connections are a `pool_size` of one with its overflow of one; two uploads exhaust them and the
  third request shows what others see of it. What a request may be for is bounded per request
  (`Asked`), since requests differ in nothing else.
* Tokens of one and two seconds stand for any ttl (`config.py` demands 60): what matters is where the
  clock is within a second, and ages just before and after zero and the ttl.
* Symmetry is used in safety runs only, on sets no definition looks into.
* Deadlock is checked except where a system may stop: `catalog_*` and `algorithms` end when nothing
  is left to ask, `ingestion_delete` when its one document can be uploaded no more.

### Fairness, and why the code justifies it

Weak fairness on what a live process does by itself: `WorkerStep`/`LoopStep` (the event loop runs the
worker's coroutine), `Restart` (workers run as a Kubernetes Deployment, `deployment-worker.yaml`,
which replaces a pod that ended), `Tick` (time passes), `Handle` in `Search` and `Serve` in
`Requests` (the server runs the handlers it started; the pool fails a request that waited for 30
seconds), `Collect` (garbage is collected some day). `Serve` includes sending the pieces of a stream:
a client that neither reads nor disconnects keeps its request, and may keep its connection, for as
long as it likes, and the liveness of `Requests` says nothing about it.
Nothing else is assumed of clients, of Redis, or of faults: they may happen or not. No strong fairness is
used: a job is not starved by others because documents are finitely many and rows are taken in the
order of `available_at`.

## 4. Findings

* **`queue_orphan`** A process killed after its claim committed leaves the row PROCESSING for ever.
  `dequeue` (`queue.py:70`) looks at PENDING rows only; nothing resets the lock columns, and
  uploading again is a no-op. `docs/INGESTION.md:11` promises a retry, then DEAD_LETTER.
  `JobContract` therefore has a stage "lost".
* **`ingestion_retry`** INGESTING may not move to INGESTING (`document.py:41`), so once an attempt fails
  between the commits of `mark_ingesting` and `mark_indexed` every retry raises at its first step until the job is
  dead-lettered. (A failure after `mark_indexed` has committed recovers: INDEXED may move to INGESTING.)
  `pipeline.py:3` says a failure at any point leaves the system recoverable.
* **`ingestion_delete`** `save` (`documents/infrastructure/repository.py:60`) writes by id what was
  decided on an earlier read: a worker brings a deleted document back as INGESTING or INDEXED, though
  `document.py:46` reads `DocumentStatus.DELETED: frozenset(),`.
* **`ingestion_deadletter`** A dead-lettered job's document stays REGISTERED, INGESTING or INDEXED when
  `mark_failed` is illegal there or raises; `worker.py:86` logs and goes on. `worker.py:4` says it is
  marked FAILED.
* **`catalog_repeat`** Two racing registrations of one content, or a registration after a delete, end
  in an unmapped IntegrityError, hence a 500. `README.md:126` says the existing document is returned.

Smaller observations, without a run: the answer to an upload always reads "queued", also when the
job was dead-lettered long ago (`ingestion/presentation/schemas.py:19`); a piece may have
chunk_size + overlap + 1 characters, one more than the bound of `tests/unit/ingestion/test_chunking.py:27`,
because a space is joined in; the pool opens twice `EKA_DATABASE_POOL_SIZE` connections
(`database.py:22`); as many simultaneous uploads as that bring the process to a halt until the pool's
timeout fails one with a 500, and the readiness probe, which takes a connection too, answers 503
meanwhile; answers to unhandled exceptions are made outside the middleware and lack the `X-Request-ID`
of which `docs/ARCHITECTURE.md:46` says every response has it; a failed search cuts an answer stream off
behind its status 200; migration 0003 empties the chunks table for ingestion to be run again, but no
upload puts a completed job back; the job listing answers without a total; the chunker joins single-character fragments by spaces, so a word longer than a chunk is torn
into letters; the best chunk of the keyword arm may be cut before the reranker sees it; listings have
no tie-breaker and take an unknown `sort_by` for newest first; a float mean may miss a minimum that every case
reaches; a passage's own "[2]" reads as a citation in an answer; deleted documents stay searchable.

## 5. Proofs

TLAPS proves these for every value of the constants; the runs check the same definitions.

**`JobQueueProofs`** — `TypeCorrect`, `ClaimsAreExclusive`, `HoldersOwnTheirRows`,
`DeadLettersAreExhausted`, `NoRowIsStranded`, `QueueImplementsContract`.
From `QueueAssumption`: at least one attempt and one job per batch, delays are naturals. None of
the properties is inductive alone: the row a worker settles is its own because nobody else
claimed it, and nobody else could because the row said so. `IndInv` conjoins them with
`LockedRowsPending` (a row locked by an open dequeue is PENDING and locked once) and `BatchInLoop`
(copies exist only inside the loop, and the job to be settled is one of them). `NoRowIsStranded`
is a second induction on top of it.

`QueueImplementsContract`: under the mapping `Stage`, a job some worker has a copy of is held, any
other is where its row says. Each step of the queue is shown to be one step of the contract or a
stutter; the SELECT of a dequeue is a stutter, its commit is a `Take`, and an end with copies in hand is
an `Abandon`. What lets the contract forget rows and locks is `IndInv` again: a copy is of a
row that nobody else may claim or settle.

**`CatalogProofs`** — `CatalogTypeCorrect`, `ContentIsNotDuplicated`, `RegistrationIsIdempotent`,
`RowsAreTheirTenants`.
From `CatalogAssumption`, which only keeps "none" apart from real values. `IndInv` adds
`SavesOwnRow` (a request about to save saw the row as its own tenant's; rows never change tenant, so
that outlasts the stale read) and `IdsAreFresh` (a row's registration is over, so no id is inserted
twice). The action property follows from the same invariant.

**`SearchProofs`** — `SearchTypeCorrect`, `AnswersCrossNoBoundary`.
From `SearchAssumption`; any pool and any ttl, also 0. An answer may come from another request's
entry, so `IndInv` speaks of what requests hold on their way (`HeldInScope`, `RankedFits`) and of what
an entry says to every query that shares its key (`EntriesFit`).

**`IngestionProofs`** — `SagaImplementsQueue`, `SagaKeepsContract`, `SagaTypeCorrect`,
`DocumentsHaveOneWorker`, `IndexedDocumentsAreServed`, `CompletedJobsAreIndexed`,
`FailedJobsAreDeadLettered`, `StaleWritesHitOnlyDeletes`.
First, every step of the saga is one of the queue or leaves its variables alone, so that all theorems of
`JobQueueProofs` hold of it. Then `SagaInv` conjoins `QueueInv` (`IndInv`, and that a
worker that handles or marks has a job), the types, `Positions` (what a worker may count on at each
place of the pipeline: the status it read still allows its step, or a DELETE came between; the chunks it
is about to announce are stored), `StoredInOrder` (text before job, chunks exactly for what is
indexed), `CompletedIsIndexed` and `FailedIsDeadLettered`. None of these holds by itself: a stale write
is harmless only because there is one worker per document, which in turn rests on exclusive claims. The
proof says once what a step of a worker on its own document may do (`Effect`), shows that this keeps
`SagaInv`, and then that each statement of the pipeline is such an effect.

**`RequestsProofs`** — `RequestsTypeCorrect`, `PoolDoesNotStall`, `WhatIsToldIsDone`.
From `PoolAssumption`: finitely many requests and connections. `IndInv` says which sessions a handler
may hold before each of its steps (`HoldsWhatIsOpen`, against the table `Open`) and that the response has
started where the table `Told` says so; `StepsFit` checks both tables against the handlers once.
Only an upload can wait with a connection in hand, and only with that of its lookup: in a process in
which nobody can go on, connections map one to one to uploads. `WhatIsToldIsDone` adds `OnScript`: a
request that runs has told and committed exactly what the tables `Said` and `Made` have for its place,
which `ScriptFits` compares with the handlers once; `ToldIsDone` follows at each end a request can come to.

**`AlgorithmsProofs`**, with `ListLemmas` — a theorem about each function for inputs of any size, and
the properties of the run from it. A specification that computes once needs no invariant but `Given`
(the input is one of those enumerated, and stays).
* `TokenLifetime`, `TokensLiveTheirTime`: any ttl, any moment of issue, any clock; cutting to whole
  seconds costs less than a second at each end.
* `GateIsFair`, `GateAgrees`: reports of any length, any thresholds, any rounding; the true mean lies between
  the least and the largest case, by induction over the partial sums, and a float mean is off by less than what
  the cases exceed or miss the minimum by.
* `CutIsFair`, `RerankIsFair`, `TheCutKeepsTheBest`, `TheBetterStaysAhead`, `CoverageWeighsMost`: in a list
  sorted by rank every place is taken exactly once (`EveryPlaceIsTaken`), so who is ahead by score is
  ahead in the list; `Unit` is divisible by every k + rank in the pool, so the scores compare as the
  fractions do; with a pool of at most k + 1, two shares, each at least 1/(k + pool), are more than any one
  share, which is at most 1/(k + 1). The first chunks of the two arms may tie; the nearest one was found
  first and stays first. Coverage weighs 6 of 10, more than 3 and 1 together.
* `StreamCites`, `AnswersAreCited`: the search in memory returns chunks with their own texts (`SearchFinds`), the
  prompt numbers them, and every quoted sentence is a sentence of the scanned text, with the marker of its
  passage; what is redacted in it was found by the guard, which flags the stream. Scanning takes no marker out
  of a text and puts none in, so where no passage has one the only markers are those of the prompt.
* `MetricsBelongTogether`, `MetricsAreConsistent`: of an answer only the fixed wording and three markers
  are not supported by its passages; shares of the same sets compare accordingly.
* `WalksEnd`, `WalksAreStill`, `WalksAreAsStillAsTheTable`: tables of any length, any limit, any sequence of
  changes to any places, any permutation of the rows that tie. What a client knows of a table by then is which
  rows are in its first places: `First(t, b)`. A row that goes lets one in (`GoneFirst`); a row put somewhere, new
  or moved, pushes at most one row out or is past them itself, and lets one in only when it was moved from
  before them to elsewhere than the front (`PutFirst`, `ChangedShape`). So from one statement to a later one the
  shown rows past the offset (`Beyond`, they may be shown again) and the unseen rows before it (`HeldGrows`, they
  will be missed) grow by at most the changes between (`TableCounts`). Page by page, what was repeated and
  what may yet be repeated stay below the rows that came or moved (`RepeatsAreChanges`), what was missed below
  those that went or moved (`MissedUpTo`); the last page is not full, or has_more compared it with a count
  that only registrations of one moment can make too small (`MissedAreChanges`). `LastPage` chooses among as many
  pages as there ever were rows, and one; `WalksEnd` says that the page it looks for is among them.

From `AlgorithmsAssumption`, `RoundingAssumption` and `TextsAssumption`: a pool of 2 to 61 (k is at least pool - 1, as above),
"no token" is not a token, texts are sequences of finite sets of words, and no text has the word only the guard
writes. Expected words apart from the fixed wording are a hypothesis of `MetricsBelongTogether`: one
that the wording has, such as "context", counts as relevant without a passage, in the code as well.

**`ChunkingProofs`**, with `ListLemmas` — `PackingIsFair`, `SplitIsFair`, `NoDocumentIsRefused`, `ChunksOverlap`;
`SplitCovers`, `NoLetterIsLost`.
Texts of any length, any size, any overlap. What separators leave behind is blank at times, so that no
piece may be judged alone: what keeps a chunk from being blank is that the first piece begins with a
character that is not, and that a chunk takes the blank ones in until it is full. `FragmentsFit` follows the
five separators: the first piece goes on beginning with such a character (`FirstPartStarts`: no separator
that begins with a blank is found where the text does not), and after the last separator every piece is at most
as long as the size. `Packed` is the invariant of the packing loop: the piece in hand is not blank, it
begins with the end of the last chunk, and where it exceeds the size that is for what was carried over, so that
it ends in a character that is not blank and what it hands on is not blank either. `ListIsInOrder` says that a
listing by ordinal gives back the pieces as they were numbered. For the letters the loops are followed once
more: every pass of a separator leaves pieces that together spell the text (`Spells`: each letter in one piece,
in their order; what is cut, joined or stripped is no letter), and `Covered` is the invariant of packing:
the chunks made so far and the piece in hand have all letters of the pieces taken, each chunk a run of them,
the piece in hand the last of them, and none ends before the one it follows. What is carried over is the
end of a chunk whose last letter is also the last one taken, so the next piece goes on where it ends.

### Checked by TLC only

* Liveness under fairness (`queue`, `ingestion_liveness`, `search`, `requests`): out of the prover's reach.

## 6. Not modelled, and why

* Embedding numerics: only the order of similarities matters to what is checked.
* In-memory cache: a simpler form of what `Search` models; no deployed component uses it.
* Filters of the listings: they only choose the rows the walk is about.
* The roles of a token: no handler reads them. Catalog and Search take the tenant of a request as
  given, which is what `TokenLivesItsTime` is about.
* Headers added by the middleware, logging, metrics, tracing, the liveness probe: they change no state
  the others read.
* Migrations and deployment: the constraints the models rely on are taken from the declared tables.

## 7. Plan

Done: queue and contract, saga, catalogue, search and cache, requests and their pool, algorithms with
both listings and tokens; proofs of every safety property a passing run checks, and of both refinements.

What is left, should the code or the tools allow it:

1. The liveness properties: their safety halves (`NoRowIsStranded`, `PoolDoesNotStall`, `WalksEnd`) are proved, the
   rest needs ENABLED and fairness in the prover.
2. The documents' and evaluation's remaining endpoints, which read rows and change none.
