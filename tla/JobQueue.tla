------------------------------ MODULE JobQueue ------------------------------
(***************************************************************************)
(* The database-backed ingestion queue (ingestion/infrastructure/queue.py, *)
(* ingestion/application/jobs.py) and the loop of the worker processes     *)
(* that drain it (worker.py).                                              *)
(*                                                                         *)
(* A job row is identified by its document: rows are unique per (document, *)
(* version) and no handler ever moves a document past version 1. The       *)
(* pipeline a worker runs between claiming and settling a job is left      *)
(* open here (it returns or raises); Ingestion.tla supplies it.            *)
(*                                                                         *)
(* The clock only matters where a row waits for its backoff, so time       *)
(* passes only then: rows that became due at different moments may tie,    *)
(* which allows more claim orders than the code, never fewer.              *)
(***************************************************************************)
EXTENDS Integers, FiniteSets

CONSTANTS
    Docs,           \* documents
    Workers,        \* worker processes, named by their worker_id
    NoWorker,       \* locked_by of a row nobody has claimed
    NoJob,          \* "no job": the worker is between two jobs
    MaxAttempts,    \* settings.ingestion_max_attempts
    BatchSize,      \* settings.worker_batch_size
    BackoffBase,    \* first retry delay
    BackoffCap,     \* ceiling of the retry delay
    MaxKills,       \* bound: worker processes killed from outside
    MaxErrors,      \* bound: queue calls that raise out of the worker loop
    MaxStops        \* bound: graceful stop requests

VARIABLES
    job,            \* Docs -> row of the table ingestion_jobs
    now,            \* the clock
    locks,          \* Workers -> rows its open dequeue transaction has locked
    pc,             \* Workers -> where the worker's loop is
    claimed,        \* Workers -> IngestionJob copies claimed and not yet settled
    current,        \* Workers -> the IngestionJob being processed
    stopping,       \* Workers -> self._stopping is set
    kills, errors, stops

queueVars == <<job, now, locks, pc, claimed, current, stopping, kills, errors, stops>>

budget == <<kills, errors, stops>>

-----------------------------------------------------------------------------
JobStatus == {"absent", "pending", "processing", "completed", "dead_letter"}

JobRow == [status : JobStatus, attempts : 0..MaxAttempts,
           availableAt : Nat, lockedBy : Workers \cup {NoWorker}]

(* The frozen dataclass handed to the worker: what it will later use to    *)
(* report, read from the row at claim time and never refreshed.            *)
IngestionJob == [doc : Docs, attempts : 0..MaxAttempts]

LoopStates == {"polling", "claiming", "handling", "completing", "failing",
               "marking", "stopped", "down"}

NoRow == [status |-> "absent", attempts |-> 0, availableAt |-> 0, lockedBy |-> NoWorker]

(* compute_backoff_seconds *)
Backoff(attempts) ==
    IF attempts < 1 THEN 0
    ELSE LET delay == BackoffBase * 2 ^ (attempts - 1)
         IN  IF delay < BackoffCap THEN delay ELSE BackoffCap

ASSUME QueueAssumption ==
    /\ MaxAttempts \in Nat \ {0} /\ BatchSize \in Nat \ {0}
    /\ \A n \in 1..MaxAttempts : Backoff(n) \in Nat
    /\ MaxKills \in Nat /\ MaxErrors \in Nat /\ MaxStops \in Nat
    /\ NoWorker \notin Workers
    /\ NoJob \notin IngestionJob

-----------------------------------------------------------------------------
Init ==
    /\ job      = [d \in Docs |-> NoRow]
    /\ now      = 0
    /\ locks    = [w \in Workers |-> {}]
    /\ pc       = [w \in Workers |-> "polling"]
    /\ claimed  = [w \in Workers |-> {}]
    /\ current  = [w \in Workers |-> NoJob]
    /\ stopping = [w \in Workers |-> FALSE]
    /\ kills = 0 /\ errors = 0 /\ stops = 0

Due(d) == job[d].status = "pending" /\ job[d].availableAt <= now

(* Mutant: SKIP LOCKED left out, a locked row is read as still pending. *)
ClaimableIgnoringLocks == {d \in Docs : Due(d)}

(* The rows SELECT ... FOR UPDATE SKIP LOCKED can see. *)
Claimable == {d \in Docs : Due(d) /\ \A w \in Workers : d \notin locks[w]}

(* ORDER BY available_at LIMIT batch_size *)
FirstRows(S) ==
    /\ S \subseteq Claimable
    /\ S # {}
    /\ Cardinality(S) <= BatchSize
    /\ \/ S = Claimable
       \/ Cardinality(S) = BatchSize
    /\ \A d \in S, e \in Claimable \ S : job[d].availableAt <= job[e].availableAt

(* "for job in jobs": on to the next claimed job, in claim order, or back  *)
(* to the top of the loop when none is left.                               *)
Advance(w, rest) ==
    /\ claimed' = [claimed EXCEPT ![w] = rest]
    /\ IF rest = {}
       THEN /\ pc' = [pc EXCEPT ![w] = "polling"]
            /\ current' = [current EXCEPT ![w] = NoJob]
       ELSE \E j \in rest :
              /\ \A i \in rest : job[j.doc].availableAt <= job[i.doc].availableAt
              /\ pc' = [pc EXCEPT ![w] = "handling"]
              /\ current' = [current EXCEPT ![w] = j]

(* The process ends: an open transaction is rolled back and its row locks  *)
(* released; nothing else is undone.                                       *)
Die(w) ==
    /\ pc' = [pc EXCEPT ![w] = "down"]
    /\ locks' = [locks EXCEPT ![w] = {}]
    /\ claimed' = [claimed EXCEPT ![w] = {}]
    /\ current' = [current EXCEPT ![w] = NoJob]
    /\ stopping' = [stopping EXCEPT ![w] = FALSE]

-----------------------------------------------------------------------------
(* Mutant: ON CONFLICT DO UPDATE, a repeated upload resets the row. *)
EnqueuedRowUpsert(row) == [NoRow EXCEPT !.status = "pending", !.availableAt = now]

(* INSERT ... ON CONFLICT DO NOTHING on (document_id, document_version)    *)
EnqueuedRow(row) ==
    IF row.status = "absent"
    THEN [row EXCEPT !.status = "pending", !.availableAt = now]
    ELSE row

Enqueue(d) ==
    /\ job' = [job EXCEPT ![d] = EnqueuedRow(@)]
    /\ UNCHANGED <<now, locks, pc, claimed, current, stopping, budget>>

(* dequeue, up to its SELECT: the rows are locked but still PENDING. A     *)
(* poll that finds no row changes nothing.                                 *)
DequeueSelect(w) ==
    /\ pc[w] = "polling" /\ ~stopping[w]
    /\ \E S \in SUBSET Claimable :
         /\ FirstRows(S)
         /\ locks' = [locks EXCEPT ![w] = S]
    /\ pc' = [pc EXCEPT ![w] = "claiming"]
    /\ UNCHANGED <<job, now, claimed, current, stopping, budget>>

ClaimedRows(w) ==
    [d \in Docs |-> IF d \in locks[w]
                    THEN [job[d] EXCEPT !.status = "processing", !.lockedBy = w]
                    ELSE job[d]]

(* Mutant: the attempt is counted in the copy when the job is claimed. *)
CopiesCounted(w) == {[doc |-> d, attempts |-> job[d].attempts + 1] : d \in locks[w]}

Copies(w) == {[doc |-> d, attempts |-> job[d].attempts] : d \in locks[w]}

(* dequeue, its commit: the copies are handed to the loop. *)
DequeueCommit(w) ==
    /\ pc[w] = "claiming"
    /\ job' = ClaimedRows(w)
    /\ locks' = [locks EXCEPT ![w] = {}]
    /\ Advance(w, Copies(w))
    /\ UNCHANGED <<now, stopping, budget>>

(* dequeue raises: nothing catches it, the process ends. The commit may    *)
(* have reached the database before its answer was lost.                   *)
DequeueRaises(w) ==
    /\ pc[w] \in {"polling", "claiming"} /\ errors < MaxErrors
    /\ \/ UNCHANGED job
       \/ pc[w] = "claiming" /\ job' = ClaimedRows(w)
    /\ Die(w)
    /\ errors' = errors + 1
    /\ UNCHANGED <<now, kills, stops>>

HandlerReturns(w) ==
    /\ pc[w] = "handling"
    /\ pc' = [pc EXCEPT ![w] = "completing"]
    /\ UNCHANGED <<job, now, locks, claimed, current, stopping, budget>>

HandlerRaises(w) ==
    /\ pc[w] = "handling"
    /\ pc' = [pc EXCEPT ![w] = "failing"]
    /\ UNCHANGED <<job, now, locks, claimed, current, stopping, budget>>

CompletedRow(row) == [row EXCEPT !.status = "completed", !.lockedBy = NoWorker]

CompleteCommits(w) ==
    /\ pc[w] = "completing"
    /\ job' = [job EXCEPT ![current[w].doc] = CompletedRow(@)]
    /\ Advance(w, claimed[w] \ {current[w]})
    /\ UNCHANGED <<now, locks, stopping, budget>>

(* complete raises inside the try: the job is failed like any other, also  *)
(* when the update had committed and only its answer was lost.             *)
CompleteRaises(w) ==
    /\ pc[w] = "completing"
    /\ \/ UNCHANGED job
       \/ job' = [job EXCEPT ![current[w].doc] = CompletedRow(@)]
    /\ pc' = [pc EXCEPT ![w] = "failing"]
    /\ UNCHANGED <<now, locks, claimed, current, stopping, budget>>

(* Mutant: off by one, the row is parked one failure too late. *)
FailedRowLate(row, j) ==
    IF j.attempts + 1 > MaxAttempts
    THEN [row EXCEPT !.status = "dead_letter", !.attempts = j.attempts + 1,
                     !.lockedBy = NoWorker]
    ELSE [row EXCEPT !.status = "pending", !.attempts = j.attempts + 1,
                     !.availableAt = now, !.lockedBy = NoWorker]

(* Mutant: the row is simply released, its attempt never counted. *)
FailedRowUncounted(row, j) ==
    [row EXCEPT !.status = "pending", !.availableAt = now, !.lockedBy = NoWorker]

(* fail counts from the copy taken at claim time, and updates by id alone. *)
FailedRow(row, j) ==
    LET attempts == j.attempts + 1
    IN  IF attempts >= MaxAttempts
        THEN [row EXCEPT !.status = "dead_letter", !.attempts = attempts,
                         !.lockedBy = NoWorker]
        ELSE [row EXCEPT !.status = "pending", !.attempts = attempts,
                         !.availableAt = now + Backoff(attempts), !.lockedBy = NoWorker]

FailUpdate(w) == job' = [job EXCEPT ![current[w].doc] = FailedRow(@, current[w])]

Exhausted(w) == current[w].attempts + 1 >= MaxAttempts

FailRetries(w) ==
    /\ pc[w] = "failing" /\ ~Exhausted(w)
    /\ FailUpdate(w)
    /\ Advance(w, claimed[w] \ {current[w]})
    /\ UNCHANGED <<now, locks, stopping, budget>>

(* fail returned True: the worker goes on to mark the document FAILED. *)
FailDeadLetters(w) ==
    /\ pc[w] = "failing" /\ Exhausted(w)
    /\ FailUpdate(w)
    /\ claimed' = [claimed EXCEPT ![w] = @ \ {current[w]}]
    /\ pc' = [pc EXCEPT ![w] = "marking"]
    /\ UNCHANGED <<now, locks, current, stopping, budget>>

(* fail raises inside the except clause: the process ends, with the update *)
(* committed or not, and the rest of the batch is dropped.                 *)
FailRaises(w) ==
    /\ pc[w] = "failing" /\ errors < MaxErrors
    /\ FailUpdate(w) \/ UNCHANGED job
    /\ Die(w)
    /\ errors' = errors + 1
    /\ UNCHANGED <<now, kills, stops>>

(* mark_failed returned, or raised and was logged: either way the loop     *)
(* goes on.                                                                *)
MarkFailedDone(w) ==
    /\ pc[w] = "marking"
    /\ Advance(w, claimed[w])
    /\ UNCHANGED <<job, now, locks, stopping, budget>>

(* SIGINT, SIGTERM *)
RequestStop(w) ==
    /\ pc[w] \notin {"stopped", "down"} /\ ~stopping[w] /\ stops < MaxStops
    /\ stopping' = [stopping EXCEPT ![w] = TRUE]
    /\ stops' = stops + 1
    /\ UNCHANGED <<job, now, locks, pc, claimed, current, kills, errors>>

(* Mutant: the stop request is looked at before every job of a batch. *)
LeaveLoopMidBatch(w) ==
    /\ pc[w] \in {"polling", "handling"} /\ stopping[w]
    /\ pc' = [pc EXCEPT ![w] = "stopped"]
    /\ claimed' = [claimed EXCEPT ![w] = {}]
    /\ current' = [current EXCEPT ![w] = NoJob]
    /\ UNCHANGED <<job, now, locks, stopping, budget>>

LeaveLoop(w) ==
    /\ pc[w] = "polling" /\ stopping[w]
    /\ pc' = [pc EXCEPT ![w] = "stopped"]
    /\ UNCHANGED <<job, now, locks, claimed, current, stopping, budget>>

Kill(w) ==
    /\ pc[w] \notin {"stopped", "down"} /\ kills < MaxKills
    /\ Die(w)
    /\ kills' = kills + 1
    /\ UNCHANGED <<job, now, errors, stops>>

(* The process is started again under the same worker_id, from scratch. *)
Restart(w) ==
    /\ pc[w] \in {"stopped", "down"}
    /\ pc' = [pc EXCEPT ![w] = "polling"]
    /\ stopping' = [stopping EXCEPT ![w] = FALSE]
    /\ UNCHANGED <<job, now, locks, claimed, current, budget>>

Tick ==
    /\ \E d \in Docs : job[d].status = "pending" /\ job[d].availableAt > now
    /\ now' = now + 1
    /\ UNCHANGED <<job, locks, pc, claimed, current, stopping, budget>>

-----------------------------------------------------------------------------
(* Mutant: "while True", the stop request is never looked at. *)
LoopStepEndless(w) ==
    \/ DequeueSelect(w) \/ DequeueCommit(w)
    \/ HandlerReturns(w) \/ HandlerRaises(w)
    \/ CompleteCommits(w) \/ CompleteRaises(w)
    \/ FailRetries(w) \/ FailDeadLetters(w) \/ MarkFailedDone(w)

(* The steps a live worker process takes by itself when nothing goes wrong *)
(* with the queue's own calls.                                             *)
LoopStep(w) ==
    \/ DequeueSelect(w) \/ DequeueCommit(w)
    \/ HandlerReturns(w) \/ HandlerRaises(w)
    \/ CompleteCommits(w) \/ CompleteRaises(w)
    \/ FailRetries(w) \/ FailDeadLetters(w) \/ MarkFailedDone(w)
    \/ LeaveLoop(w)

Next ==
    \/ \E d \in Docs : Enqueue(d)
    \/ \E w \in Workers : LoopStep(w)
    \/ \E w \in Workers : DequeueRaises(w) \/ FailRaises(w)
    \/ \E w \in Workers : RequestStop(w) \/ Kill(w) \/ Restart(w)
    \/ Tick

QueueSpec == Init /\ [][Next]_queueVars

(* A process that runs keeps running, one that ended is started again, and *)
(* time passes. Nobody has to upload, stop or kill anything.               *)
QueueFairness ==
    /\ \A w \in Workers : WF_queueVars(LoopStep(w)) /\ WF_queueVars(Restart(w))
    /\ WF_queueVars(Tick)

FairQueueSpec == QueueSpec /\ QueueFairness
-----------------------------------------------------------------------------
(* Type invariant: a row stays inside the table's columns, at most         *)
(* MaxAttempts failures are ever counted, and a worker's memory holds      *)
(* copies of jobs.                                                         *)
TypeOK ==
    /\ job \in [Docs -> JobRow]
    /\ now \in Nat
    /\ locks \in [Workers -> SUBSET Docs]
    /\ pc \in [Workers -> LoopStates]
    /\ claimed \in [Workers -> SUBSET IngestionJob]
    /\ current \in [Workers -> IngestionJob \cup {NoJob}]
    /\ stopping \in [Workers -> BOOLEAN]
    /\ kills \in 0..MaxKills /\ errors \in 0..MaxErrors /\ stops \in 0..MaxStops

(* SCALING.md: "each row is claimed by exactly one worker". Two workers,   *)
(* or one worker twice, never hold a copy of the same job, whatever is     *)
(* retried, killed or answered too late.                                   *)
ExclusiveClaim ==
    \A v, w \in Workers : \A i \in claimed[v], j \in claimed[w] :
        i.doc = j.doc => v = w /\ i = j

(* complete and fail update by id without looking at the row. That is only *)
(* right because the row is then still what the worker claimed: locked by  *)
(* it, with the attempts of its copy - or COMPLETED by its own update, the *)
(* answer to which was lost.                                               *)
HolderOwnsRow ==
    \A w \in Workers : \A j \in claimed[w] :
        /\ job[j.doc].attempts = j.attempts
        /\ \/ job[j.doc].status = "processing" /\ job[j.doc].lockedBy = w
           \/ job[j.doc].status = "completed" /\ pc[w] = "failing" /\ current[w] = j

(* worker.py: "Shuts down gracefully ... so in-flight jobs finish and      *)
(* locks are released". As long as no process died, a row is PROCESSING    *)
(* only in the hands of a worker that is still in its loop, so neither a   *)
(* stop nor a restart strands a job.                                       *)
NoStrandedRow ==
    kills + errors = 0 =>
        \A d \in Docs : job[d].status = "processing" =>
            \E w \in Workers : /\ job[d].lockedBy = w
                              /\ \E j \in claimed[w] : j.doc = d
                              /\ pc[w] \notin {"stopped", "down"}

(* A job is dead-lettered exactly when its last attempt was counted, and   *)
(* no failure is counted on a row that may still be offered for a last     *)
(* one. A row names a worker exactly while it is processed: whatever       *)
(* settles or releases it clears the lock columns.                         *)
DeadLetterIffExhausted ==
    \A d \in Docs :
        /\ job[d].status = "dead_letter" <=> job[d].attempts = MaxAttempts
        /\ job[d].lockedBy # NoWorker <=> job[d].status = "processing"

-----------------------------------------------------------------------------
(* The queue implements its contract. A job is "held" while a worker has   *)
(* an unsettled copy of it, even if its row already reads COMPLETED        *)
(* because the answer to complete was lost.                                *)
Holds(w) == {j.doc : j \in claimed[w]}

RowStage == [absent |-> "absent", pending |-> "waiting", processing |-> "lost",
             completed |-> "done", dead_letter |-> "dead"]

Stage(d) == IF \E w \in Workers : d \in Holds(w) THEN "held" ELSE RowStage[job[d].status]

Contract == INSTANCE JobContract WITH
    stage <- [d \in Docs |-> Stage(d)],
    held  <- [w \in Workers |-> Holds(w)],
    tries <- [d \in Docs |-> job[d].attempts]

(* Every step of rows, locks and workers is a step of the contract or      *)
(* changes nothing it speaks of: a job is offered to one worker at a time, *)
(* costs one try per hand-back and is settled once.                        *)
ImplementsContract == Contract!Spec

-----------------------------------------------------------------------------
Settled(d) == job[d].status \in {"completed", "dead_letter"}

(* INGESTION.md: "on repeated failure -> retry with backoff, then          *)
(* DEAD_LETTER". Whatever the pipeline and complete do, a queued job ends  *)
(* COMPLETED or DEAD_LETTER.                                               *)
JobsSettle == \A d \in Docs : job[d].status = "pending" ~> Settled(d)

(* The same as long as no worker process dies, killed or by an exception   *)
(* out of the queue: neither a stop between two jobs of a batch, nor a     *)
(* restart, nor a lost answer to complete keeps a job from settling.       *)
JobsSettleUnlessKilled == [](kills + errors = 0) => JobsSettle

(* A worker asked to stop finishes its batch and leaves the loop, even     *)
(* while due rows keep it busy, unless its process dies first.             *)
StopCompletes == \A w \in Workers : stopping[w] ~> pc[w] \in {"stopped", "down"}
=============================================================================
