---------------------------- MODULE IngestionProofs --------------------------
(***************************************************************************)
(* Safety of the ingestion saga for any number of documents, workers,      *)
(* clients and failures. The statuses of a document are read and written   *)
(* without a lock, so everything rests on the queue: what a worker read of *)
(* its document still holds when it writes, up to a DELETE, because no     *)
(* other worker acts on that document. The queue's invariant says so for   *)
(* claimed jobs; what it leaves out is the worker that has dead-lettered   *)
(* its job and still marks the document.                                   *)
(***************************************************************************)
EXTENDS Ingestion, JobQueueProofs

Busy == {"handling", "completing", "failing", "marking"}

(* A worker has a document in hand exactly while it is at a job. *)
BusyHasJob == \A w \in Workers : pc[w] \in Busy <=> current[w] # NoJob

(* The document is marked for a job that is dead-lettered. *)
MarkingIsDead ==
    \A w \in Workers : pc[w] = "marking" => job[Doc(w)].status = "dead_letter"

QueueInv ==
    /\ IndInv
    /\ BusyHasJob
    /\ MarkingIsDead
    /\ OneWorkerPerDocument

(* What a status change that was read as legal has become since: legal     *)
(* still, or a DELETE came between.                                        *)
StillLegal(d, target) == doc[d] = "deleted" \/ MayMove(doc[d], target)

(* What a worker may count on at each place of the pipeline. *)
Position(w) ==
    /\ step[w] # "start" => current[w] # NoJob /\ pc[w] \in {"handling", "marking"}
    /\ step[w] \in {"load_indexed", "save_indexed"} => Doc(w) \in chunks \cup Blank
    /\ step[w] = "save_ingesting" => StillLegal(Doc(w), "ingesting")
    /\ step[w] = "save_indexed"   => StillLegal(Doc(w), "indexed")
    /\ step[w] = "save_failed"    => StillLegal(Doc(w), "failed")
    /\ pc[w] = "completing"       => doc[Doc(w)] \in {"indexed", "deleted"}

Positions == \A w \in Workers : Position(w)

(* Text before job, also while an upload is between the two transactions; *)
(* chunks exactly for indexed texts that have any.                        *)
StoredInOrder ==
    /\ \A d \in Docs : upload[d] = "stored" \/ job[d].status # "absent" => d \in contents
    /\ \A d \in Docs : doc[d] = "indexed" => d \in chunks \cup Blank
    /\ chunks \cap Blank = {}

SagaInv ==
    /\ QueueInv
    /\ IngestionTypeOK
    /\ Positions
    /\ StoredInOrder
    /\ CompletedIsIndexed
    /\ FailedIsDeadLettered

-----------------------------------------------------------------------------
(* Every step of the saga is a step of the queue or leaves it alone.       *)
LEMMA SagaUsesQueue == [IngestionNext]_vars => [Next]_queueVars
<1> SUFFICES ASSUME [IngestionNext]_vars PROVE [Next]_queueVars
  OBVIOUS
<1>1. CASE UNCHANGED vars
  BY <1>1 DEF vars
<1>2. ASSUME NEW d \in Docs, ClientStep(d) PROVE [Next]_queueVars
  BY <1>2 DEF ClientStep, UploadVerify, UploadStore, UploadEnqueue, UploadAborts,
              DeleteLoad, DeleteSave, DeleteAborts, Next
<1>3. ASSUME NEW w \in Workers, WorkerStep(w) \/ WorkerFault(w)
      PROVE  UNCHANGED queueVars \/ LoopStep(w)
  BY <1>3 DEF WorkerStep, WorkerFault, Poll, LoadIngesting, SaveIngesting, Extract,
              ReplaceChunks, LoadIndexed, SaveIndexed, Load, Save, Committed, Raise,
              Complete, Fail, LoadFailed, SkipFailed, SaveFailed, HandlerFaults,
              CompleteFaults, MarkFailedFaults, LoopStep
<1>4. ASSUME NEW w \in Workers, ProcessEnds(w) \/ Operate(w) PROVE Next
  BY <1>4 DEF ProcessEnds, Operate, Next
<1>5. CASE Tick /\ UNCHANGED docVars
  BY <1>5 DEF Next
<1> QED
  BY <1>1, <1>2, <1>3, <1>4, <1>5 DEF IngestionNext, Next

-----------------------------------------------------------------------------
(* A step of one worker, as the queue sees it.                             *)
QueueStep(w) ==
    \/ LoopStep(w) \/ DequeueRaises(w) \/ FailRaises(w)
    \/ RequestStop(w) \/ Kill(w) \/ Restart(w)

(* Where a step leaves its worker. Only a dead letter leads to marking,    *)
(* and marking keeps the job in hand.                                      *)
LEMMA WorkerShape ==
    ASSUME IndInv, BusyHasJob, NEW w \in Workers, QueueStep(w)
    PROVE  /\ \A v \in Workers : v # w => pc'[v] = pc[v] /\ current'[v] = current[v]
           /\ pc'[w] \in Busy <=> current'[w] # NoJob
           /\ pc'[w] = "marking" =>
                /\ current'[w] = current[w]
                /\ \/ pc[w] = "marking" /\ job' = job
                   \/ pc[w] = "failing" /\ FailUpdate(w) /\ Exhausted(w)
<1>0. TypeOK /\ (pc[w] \in Busy <=> current[w] # NoJob)
  BY DEF IndInv, BusyHasJob
<1>1. ASSUME NEW rest \in SUBSET IngestionJob, Advance(w, rest)
      PROVE  /\ \A v \in Workers : v # w => pc'[v] = pc[v] /\ current'[v] = current[v]
             /\ pc'[w] \in Busy <=> current'[w] # NoJob
             /\ pc'[w] # "marking"
  <2>1. CASE rest = {}
    BY <1>0, <1>1, <2>1 DEF Advance, TypeOK, Busy
  <2>2. CASE rest # {}
    BY <1>0, <1>1, <2>2, AdvanceShape, QueueAssumption DEF Busy
  <2> QED
    BY <2>1, <2>2
<1>2. ASSUME Die(w)
      PROVE  /\ \A v \in Workers : v # w => pc'[v] = pc[v] /\ current'[v] = current[v]
             /\ pc'[w] \in Busy <=> current'[w] # NoJob
             /\ pc'[w] # "marking"
  BY <1>0, <1>2 DEF Die, TypeOK, Busy
<1>3. /\ Copies(w) \in SUBSET IngestionJob
      /\ claimed[w] \in SUBSET IngestionJob /\ claimed[w] \ {current[w]} \in SUBSET IngestionJob
  BY <1>0 DEF TypeOK, Copies, IngestionJob, JobRow
<1>4. CASE DequeueSelect(w) \/ HandlerReturns(w) \/ HandlerRaises(w) \/ LeaveLoop(w)
           \/ CompleteRaises(w) \/ RequestStop(w) \/ Restart(w)
  BY <1>0, <1>4 DEF TypeOK, Busy, DequeueSelect, HandlerReturns, HandlerRaises, LeaveLoop,
                    CompleteRaises, RequestStop, Restart
<1>5. CASE DequeueCommit(w) \/ CompleteCommits(w) \/ FailRetries(w) \/ MarkFailedDone(w)
  BY <1>1, <1>3, <1>5 DEF DequeueCommit, CompleteCommits, FailRetries, MarkFailedDone
<1>6. CASE FailDeadLetters(w)
  BY <1>0, <1>6 DEF TypeOK, Busy, FailDeadLetters
<1>7. CASE DequeueRaises(w) \/ FailRaises(w) \/ Kill(w)
  BY <1>2, <1>7 DEF DequeueRaises, FailRaises, Kill
<1> QED
  BY <1>4, <1>5, <1>6, <1>7 DEF QueueStep, LoopStep

(* What a worker's step can make of a row: none is made or unmade, a dead  *)
(* letter stays one, and a job becomes COMPLETED only by the worker that   *)
(* reports it complete.                                                    *)
LEMMA WorkerRows ==
    ASSUME IndInv, NEW w \in Workers, QueueStep(w), NEW d \in Docs
    PROVE  /\ job[d].status = "absent" <=> job'[d].status = "absent"
           /\ job[d].status = "dead_letter" => job'[d].status = "dead_letter"
           /\ job'[d].status = "completed" =>
                \/ job[d].status = "completed"
                \/ pc[w] = "completing" /\ Doc(w) = d
<1>0. TypeOK
  BY DEF IndInv
<1>1. CASE UNCHANGED job
  BY <1>1
<1>2. CASE pc[w] = "claiming" /\ job' = ClaimedRows(w)
  <2>1. CASE d \in locks[w]
    BY <1>2, <2>1, ClaimedRowsShape DEF IndInv, LockedRowsPending
  <2>2. CASE d \notin locks[w]
    BY <1>2, <2>2, ClaimedRowsShape
  <2> QED
    BY <2>1, <2>2
<1>3. ASSUME pc[w] \in {"completing", "failing"}
      PROVE  /\ Doc(w) \in Docs
             /\ job[Doc(w)].status \in {"processing", "completed"}
             /\ CompletedRow(job[Doc(w)]).status = "completed"
             /\ FailedRow(job[Doc(w)], current[w]).status \in {"pending", "dead_letter"}
  BY <1>3, CurrentHeld, HeldNotExhausted DEF Doc
<1>4. CASE pc[w] = "completing" /\ job' = [job EXCEPT ![Doc(w)] = CompletedRow(@)]
  <2>1. job'[d] = IF d = Doc(w) THEN CompletedRow(job[d]) ELSE job[d]
    BY <1>0, <1>4 DEF TypeOK
  <2> QED
    BY <1>3, <1>4, <2>1
<1>5. CASE pc[w] = "failing" /\ FailUpdate(w)
  <2>1. job'[d] = IF d = Doc(w) THEN FailedRow(job[d], current[w]) ELSE job[d]
    BY <1>0, <1>5 DEF TypeOK, FailUpdate, Doc
  <2> QED
    BY <1>3, <1>5, <2>1
<1>6. \/ UNCHANGED job
      \/ pc[w] = "claiming" /\ job' = ClaimedRows(w)
      \/ pc[w] = "completing" /\ job' = [job EXCEPT ![Doc(w)] = CompletedRow(@)]
      \/ pc[w] = "failing" /\ FailUpdate(w)
  BY DEF QueueStep, LoopStep, DequeueSelect, DequeueCommit, HandlerReturns, HandlerRaises,
         CompleteCommits, CompleteRaises, FailRetries, FailDeadLetters, MarkFailedDone,
         LeaveLoop, DequeueRaises, FailRaises, RequestStop, Kill, Restart, Doc
<1> QED
  BY <1>1, <1>2, <1>4, <1>5, <1>6

(* A worker's job in hand is one it claimed and has not settled, or one it *)
(* has just dead-lettered.                                                 *)
LEMMA BusyShape ==
    ASSUME QueueInv, NEW w \in Workers, current[w] # NoJob
    PROVE  /\ Doc(w) \in Docs
           /\ \/ pc[w] = "marking" /\ job[Doc(w)].status = "dead_letter"
              \/ /\ pc[w] \in {"handling", "completing", "failing"}
                 /\ current[w] \in claimed[w]
                 /\ job[Doc(w)].status \in {"processing", "completed"}
                 /\ job[Doc(w)].status = "completed" => pc[w] = "failing"
<1>1. TypeOK /\ IndInv /\ current[w] \in IngestionJob
  BY DEF QueueInv, IndInv, TypeOK
<1>2. Doc(w) \in Docs
  BY <1>1 DEF Doc, IngestionJob
<1>3. pc[w] \in Busy
  BY DEF QueueInv, BusyHasJob
<1>4. CASE pc[w] = "marking"
  BY <1>2, <1>4 DEF QueueInv, MarkingIsDead
<1>5. CASE pc[w] \in {"handling", "completing", "failing"}
  <2>1. current[w] \in claimed[w]
    BY <1>1, <1>5 DEF IndInv, BatchInLoop
  <2> QED
    BY <1>1, <1>2, <1>5, <2>1 DEF IndInv, HolderOwnsRow, Doc
<1> QED
  BY <1>3, <1>4, <1>5 DEF Busy

LEMMA EnqueueRows ==
    ASSUME IndInv, NEW e \in Docs, Enqueue(e), NEW d \in Docs
    PROVE  /\ job[d].status # "absent" => job'[d] = job[d]
           /\ job'[d].status # "absent" => job[d].status # "absent" \/ d = e
           /\ job'[d].status \in {"completed", "dead_letter"} => job'[d] = job[d]
<1> DEFINE row == job[d]
<1>1. row \in JobRow /\ job'[d] = IF d = e THEN EnqueuedRow(row) ELSE row
  BY DEF IndInv, TypeOK, Enqueue
<1>2. ASSUME row.status = "absent" PROVE EnqueuedRow(row).status = "pending"
  <2>1. EnqueuedRow(row) = [row EXCEPT !.status = "pending", !.availableAt = now]
    BY <1>2 DEF EnqueuedRow
  <2> HIDE DEF row
  <2> QED
    BY <1>1, <2>1 DEF JobRow
<1>3. ASSUME row.status # "absent" PROVE EnqueuedRow(row) = row
  BY <1>3 DEF EnqueuedRow
<1> QED
  BY <1>1, <1>2, <1>3

-----------------------------------------------------------------------------
(* One step of one worker. The other workers' jobs are others, before and  *)
(* after: a job newly in hand is a claimed one, and a job being marked was *)
(* claimed, by nobody else, until this step at the latest.                 *)
LEMMA WorkerKeepsQueueInv ==
    ASSUME QueueInv, NEW w \in Workers, QueueStep(w)
    PROVE  QueueInv'
<1>1. IndInv /\ TypeOK /\ BusyHasJob
  BY DEF QueueInv, IndInv
<1>2. IndInv'
  <2>1. Next
    BY DEF QueueStep, Next
  <2> QED
    BY <1>1, <2>1, IndInvStep
<1>3. /\ \A v \in Workers : v # w => pc'[v] = pc[v] /\ current'[v] = current[v]
      /\ pc'[w] \in Busy <=> current'[w] # NoJob
      /\ pc'[w] = "marking" =>
           /\ current'[w] = current[w]
           /\ \/ pc[w] = "marking" /\ job' = job
              \/ pc[w] = "failing" /\ FailUpdate(w) /\ Exhausted(w)
  BY <1>1, WorkerShape
<1>4. BusyHasJob'
  BY <1>1, <1>3 DEF BusyHasJob
<1>5. MarkingIsDead'
  <2> SUFFICES ASSUME NEW v \in Workers, pc'[v] = "marking"
               PROVE  job'[current'[v].doc].status = "dead_letter"
    BY DEF MarkingIsDead, Doc
  <2>1. CASE v # w
    <3>1. pc[v] = "marking" /\ current'[v] = current[v] /\ current[v] # NoJob
      BY <1>1, <1>3, <2>1 DEF BusyHasJob, Busy
    <3>2. Doc(v) \in Docs /\ job[Doc(v)].status = "dead_letter"
      BY <3>1, BusyShape
    <3> QED
      BY <1>1, <3>1, <3>2, WorkerRows DEF Doc
  <2>2. CASE v = w /\ pc[w] = "marking" /\ job' = job
    BY <1>3, <2>2 DEF QueueInv, MarkingIsDead, Doc
  <2>3. CASE v = w /\ pc[w] = "failing" /\ FailUpdate(w) /\ Exhausted(w)
    <3> DEFINE j == current[w]
    <3>1. /\ j.doc \in Docs /\ j.attempts + 1 >= MaxAttempts /\ job[j.doc] \in JobRow
          /\ FailedRow(job[j.doc], j) \in JobRow
          /\ job' = [job EXCEPT ![j.doc] = FailedRow(job[j.doc], j)]
      BY <1>1, <2>3, CurrentHeld, HeldNotExhausted DEF Exhausted, FailUpdate
    <3>2. job'[j.doc] = FailedRow(job[j.doc], j)
      BY <1>1, <3>1 DEF TypeOK
    <3>3. FailedRow(job[j.doc], j).status = "dead_letter"
      <4> DEFINE row == job[j.doc]
      <4>1. FailedRow(row, j) = [row EXCEPT !.status = "dead_letter", !.attempts = j.attempts + 1,
                                            !.lockedBy = NoWorker]
        BY <3>1 DEF FailedRow
      <4>2. row \in JobRow
        BY <3>1
      <4> HIDE DEF row, j
      <4>3. FailedRow(row, j) = [status |-> "dead_letter", attempts |-> j.attempts + 1,
                                 availableAt |-> row.availableAt, lockedBy |-> NoWorker]
        BY <4>1, <4>2 DEF JobRow
      <4>4. FailedRow(row, j).status = "dead_letter"
        BY <4>3
      <4> QED
        BY <4>4 DEF row
    <3> QED
      BY <1>3, <2>3, <3>2, <3>3
  <2> QED
    BY <1>3, <2>1, <2>2, <2>3
<1>6. OneWorkerPerDocument'
  <2>1. ASSUME NEW v \in Workers, v # w, current'[w] # NoJob, current'[v] # NoJob,
               current'[w].doc = current'[v].doc
        PROVE  FALSE
    <3>1. current'[v] = current[v] /\ pc'[v] = pc[v] /\ current[v] # NoJob
      BY <1>3, <2>1
    <3>2. CASE pc'[w] = "marking"
      <4>1. current[w] # NoJob /\ Doc(w) = Doc(v)
        BY <1>1, <1>3, <2>1, <3>1, <3>2 DEF BusyHasJob, Busy, Doc
      <4> QED
        BY <2>1, <3>1, <4>1 DEF QueueInv, OneWorkerPerDocument
    <3>3. CASE pc'[w] # "marking"
      <4>1. current'[w] \in claimed'[w]
        BY <1>2, <1>3, <2>1, <3>3 DEF Busy, IndInv, BatchInLoop
      <4>2. job'[Doc(v)].status \in {"processing", "completed"}
        BY <1>2, <2>1, <3>1, <4>1 DEF IndInv, HolderOwnsRow, Doc
      <4>3. pc[v] # "marking"
        BY <1>1, <3>1, <4>2, BusyShape, WorkerRows
      <4>4. current'[v] \in claimed'[v]
        BY <1>1, <1>2, <3>1, <4>3 DEF Busy, BusyHasJob, IndInv, BatchInLoop
      <4> QED
        BY <1>2, <2>1, <4>1, <4>4 DEF IndInv, ExclusiveClaim
    <3> QED
      BY <3>2, <3>3
  <2>2. ASSUME NEW u \in Workers, NEW v \in Workers, u # v, u # w, v # w,
               current'[u] # NoJob, current'[v] # NoJob
        PROVE  current'[u].doc # current'[v].doc
    BY <1>3, <2>2 DEF QueueInv, OneWorkerPerDocument, Doc
  <2> QED
    BY <2>1, <2>2 DEF OneWorkerPerDocument, Doc
<1> QED
  BY <1>2, <1>4, <1>5, <1>6 DEF QueueInv

LEMMA QueueInvStep == QueueInv /\ [Next]_queueVars => QueueInv'
<1> SUFFICES ASSUME QueueInv, [Next]_queueVars PROVE QueueInv'
  OBVIOUS
<1>1. IndInv /\ IndInv'
  BY IndInvStep DEF QueueInv
<1>2. ASSUME NEW w \in Workers, QueueStep(w) PROVE QueueInv'
  BY <1>2, WorkerKeepsQueueInv
<1>3. ASSUME UNCHANGED <<job, pc, current>> PROVE QueueInv'
  BY <1>1, <1>3 DEF QueueInv, BusyHasJob, MarkingIsDead, OneWorkerPerDocument, Doc
<1>4. ASSUME NEW e \in Docs, Enqueue(e) PROVE QueueInv'
  <2>1. UNCHANGED <<pc, current>>
    BY <1>4 DEF Enqueue
  <2>2. MarkingIsDead'
    <3> SUFFICES ASSUME NEW w \in Workers, pc[w] = "marking"
                 PROVE  job'[Doc(w)].status = "dead_letter"
      BY <2>1 DEF MarkingIsDead, Doc
    <3>1. current[w] # NoJob
      BY DEF QueueInv, BusyHasJob, Busy
    <3> QED
      BY <1>1, <1>4, <3>1, BusyShape, EnqueueRows
  <2> QED
    BY <1>1, <2>1, <2>2 DEF QueueInv, BusyHasJob, OneWorkerPerDocument, Doc
<1>5. CASE Tick \/ UNCHANGED queueVars
  BY <1>3, <1>5 DEF Tick, queueVars
<1> QED
  BY <1>2, <1>4, <1>5 DEF Next, QueueStep

LEMMA QueueInvInit == Init => QueueInv
<1> SUFFICES ASSUME Init PROVE QueueInv
  OBVIOUS
<1>1. IndInv
  BY IndInvInit
<1> QED
  BY <1>1 DEF Init, QueueInv, BusyHasJob, MarkingIsDead, OneWorkerPerDocument, Busy

-----------------------------------------------------------------------------
(* How a worker changes the status of a document: by id, and only of the   *)
(* one it has in hand.                                                     *)
DocStep(w) ==
    \/ doc' = doc
    \/ /\ pc[w] = "handling" /\ step[w] = "save_ingesting"
       /\ doc' = [doc EXCEPT ![Doc(w)] = "ingesting"]
    \/ /\ pc[w] = "handling" /\ step[w] = "save_indexed"
       /\ doc' = [doc EXCEPT ![Doc(w)] = "indexed"]
    \/ /\ pc[w] = "marking" /\ step[w] = "save_failed"
       /\ doc' = [doc EXCEPT ![Doc(w)] = "failed"]

(* What every step of worker w amounts to for the rest of the saga. *)
Effect(w) ==
    /\ UNCHANGED queueVars \/ QueueStep(w)
    /\ step' \in [Workers -> Steps]
    /\ \A v \in Workers : v # w => step'[v] = step[v]
    /\ UNCHANGED <<contents, upload, deleting>>
    /\ faults' \in 0..MaxFaults
    /\ chunks \subseteq chunks' /\ chunks' \subseteq Docs /\ chunks' \cap Blank = {}
    /\ DocStep(w)
    /\ Position(w)'

(* The status of any document after a step of worker w. *)
LEMMA DocStepShape ==
    ASSUME SagaInv, NEW w \in Workers, DocStep(w)
    PROVE  /\ doc' \in [Docs -> DocumentStatus]
           /\ \A d \in Docs : \/ doc'[d] = doc[d]
                              \/ /\ current[w] # NoJob /\ d = Doc(w)
                                 /\ StillLegal(d, doc'[d])
                                 /\ \/ pc[w] = "handling" /\ doc'[d] = "ingesting"
                                    \/ /\ pc[w] = "handling" /\ doc'[d] = "indexed"
                                       /\ d \in chunks \cup Blank
                                    \/ pc[w] = "marking" /\ doc'[d] = "failed"
<1>1. doc \in [Docs -> DocumentStatus] /\ Position(w)
  BY DEF SagaInv, IngestionTypeOK, Positions
<1>2. ASSUME NEW x \in {"ingesting", "indexed", "failed"}, doc' = [doc EXCEPT ![Doc(w)] = x]
      PROVE  /\ doc' \in [Docs -> DocumentStatus]
             /\ \A d \in Docs : doc'[d] = IF d = Doc(w) THEN x ELSE doc[d]
  BY <1>1, <1>2 DEF DocumentStatus
<1>3. CASE doc' = doc
  BY <1>1, <1>3
<1>4. CASE /\ pc[w] = "handling" /\ step[w] = "save_ingesting"
           /\ doc' = [doc EXCEPT ![Doc(w)] = "ingesting"]
  BY <1>1, <1>2, <1>4 DEF Position
<1>5. CASE /\ pc[w] = "handling" /\ step[w] = "save_indexed"
           /\ doc' = [doc EXCEPT ![Doc(w)] = "indexed"]
  BY <1>1, <1>2, <1>5 DEF Position
<1>6. CASE /\ pc[w] = "marking" /\ step[w] = "save_failed"
           /\ doc' = [doc EXCEPT ![Doc(w)] = "failed"]
  BY <1>1, <1>2, <1>6 DEF Position
<1> QED
  BY <1>3, <1>4, <1>5, <1>6 DEF DocStep

(* One worker's step leaves every other worker where it was, with what it  *)
(* counts on, and leaves jobs, texts, chunks and statuses in agreement.    *)
LEMMA EffectKeepsSagaInv ==
    ASSUME SagaInv, NEW w \in Workers, Effect(w)
    PROVE  SagaInv'
<1>1. QueueInv /\ IndInv /\ BusyHasJob /\ IngestionTypeOK
  BY DEF SagaInv, QueueInv
<1>2. QueueInv'
  BY <1>1, WorkerKeepsQueueInv, QueueInvStep DEF Effect
<1>3. /\ \A v \in Workers : v # w => pc'[v] = pc[v] /\ current'[v] = current[v]
      /\ \A d \in Docs :
           /\ job[d].status = "absent" <=> job'[d].status = "absent"
           /\ job[d].status = "dead_letter" => job'[d].status = "dead_letter"
           /\ job'[d].status = "completed" =>
                \/ job[d].status = "completed"
                \/ pc[w] = "completing" /\ Doc(w) = d
  <2>1. CASE UNCHANGED queueVars
    BY <2>1 DEF queueVars
  <2>2. CASE QueueStep(w)
    BY <1>1, <2>2, WorkerShape, WorkerRows
  <2> QED
    BY <2>1, <2>2 DEF Effect
<1>4. /\ doc' \in [Docs -> DocumentStatus]
      /\ \A d \in Docs : \/ doc'[d] = doc[d]
                         \/ /\ current[w] # NoJob /\ d = Doc(w)
                            /\ StillLegal(d, doc'[d])
                            /\ \/ pc[w] = "handling" /\ doc'[d] = "ingesting"
                               \/ /\ pc[w] = "handling" /\ doc'[d] = "indexed"
                                  /\ d \in chunks \cup Blank
                               \/ pc[w] = "marking" /\ doc'[d] = "failed"
  BY DocStepShape DEF Effect
<1>5. Positions'
  <2> SUFFICES ASSUME NEW v \in Workers PROVE Position(v)'
    BY DEF Positions
  <2>1. CASE v = w
    BY <2>1 DEF Effect
  <2>2. CASE v # w
    <3>1. /\ pc'[v] = pc[v] /\ current'[v] = current[v] /\ step'[v] = step[v]
          /\ chunks \subseteq chunks'
      BY <1>3, <2>2 DEF Effect
    <3>2. Position(v)
      BY DEF SagaInv, Positions
    <3>3. CASE current[v] = NoJob
      BY <1>1, <3>1, <3>2, <3>3 DEF Position, BusyHasJob, Busy, IngestionTypeOK, Steps
    <3>4. CASE current[v] # NoJob
      <4>1. Doc(v) \in Docs /\ (current[w] # NoJob => Doc(v) # Doc(w))
        BY <1>1, <2>2, <3>4, BusyShape DEF QueueInv, OneWorkerPerDocument
      <4>2. doc'[Doc(v)] = doc[Doc(v)]
        BY <1>4, <4>1
      <4> QED
        BY <3>1, <3>2, <4>2 DEF Position, StillLegal, Doc
    <3> QED
      BY <3>3, <3>4
  <2> QED
    BY <2>1, <2>2
<1>6. StoredInOrder'
  BY <1>3, <1>4 DEF Effect, SagaInv, StoredInOrder
<1>7. CompletedIsIndexed'
  <2> SUFFICES ASSUME NEW d \in Docs, job'[d].status = "completed"
               PROVE  doc'[d] \in {"indexed", "deleted"}
    BY DEF CompletedIsIndexed
  <2>1. CASE job[d].status = "completed"
    <3>1. ~(current[w] # NoJob /\ d = Doc(w) /\ pc[w] \in {"handling", "marking"})
      BY <1>1, <2>1, BusyShape
    <3> QED
      BY <1>4, <2>1, <3>1 DEF SagaInv, CompletedIsIndexed
  <2>2. CASE pc[w] = "completing" /\ Doc(w) = d
    BY <1>4, <2>2 DEF SagaInv, Positions, Position
  <2> QED
    BY <1>3, <2>1, <2>2
<1>8. FailedIsDeadLettered'
  <2> SUFFICES ASSUME NEW d \in Docs, doc'[d] = "failed"
               PROVE  job[d].status = "dead_letter"
    BY <1>3 DEF FailedIsDeadLettered
  <2>1. CASE doc[d] = "failed"
    BY <2>1 DEF SagaInv, FailedIsDeadLettered
  <2>2. CASE pc[w] = "marking" /\ d = Doc(w)
    BY <1>1, <2>2 DEF QueueInv, MarkingIsDead
  <2> QED
    BY <1>4, <2>1, <2>2
<1>9. IngestionTypeOK'
  BY <1>1, <1>4, <1>5 DEF Effect, IngestionTypeOK, Positions, Position
<1> QED
  BY <1>2, <1>5, <1>6, <1>7, <1>8, <1>9 DEF SagaInv

-----------------------------------------------------------------------------
(* A step that leaves the pipeline, or was never in it, counts on nothing. *)
LEMMA OutOfThePipeline ==
    ASSUME NEW w \in Workers, step'[w] = "start", pc'[w] # "completing"
    PROVE  Position(w)'
  BY DEF Position

(* The handler raises, wherever it is. *)
LEMMA RaiseEffect ==
    ASSUME SagaInv, NEW w \in Workers, Raise(w)
    PROVE  /\ QueueStep(w) /\ step' \in [Workers -> Steps]
           /\ \A v \in Workers : v # w => step'[v] = step[v]
           /\ Position(w)'
<1>1. pc \in [Workers -> LoopStates] /\ step \in [Workers -> Steps]
  BY DEF SagaInv, QueueInv, IndInv, TypeOK, IngestionTypeOK
<1>2. step'[w] = "start" /\ pc'[w] = "failing"
  BY <1>1 DEF Raise, HandlerRaises, GoTo
<1> QED
  BY <1>1, <1>2, OutOfThePipeline DEF Raise, HandlerRaises, GoTo, Steps, QueueStep, LoopStep

(* The handler goes on to its next statement. *)
LEMMA GoOnEffect ==
    ASSUME SagaInv, NEW w \in Workers, NEW s \in Steps, GoTo(w, s), UNCHANGED queueVars
    PROVE  /\ step' \in [Workers -> Steps] /\ step'[w] = s
           /\ \A v \in Workers : v # w => step'[v] = step[v]
           /\ pc' = pc /\ current' = current
  BY DEF SagaInv, IngestionTypeOK, GoTo, queueVars

(* A worker in its pipeline has a document in hand. *)
LEMMA InHand ==
    ASSUME SagaInv, NEW w \in Workers, pc[w] \in Busy
    PROVE  current[w] # NoJob /\ Doc(w) \in Docs
  BY BusyShape DEF SagaInv, QueueInv, BusyHasJob

LEMMA LoadEffect ==
    ASSUME SagaInv, NEW w \in Workers,
           LoadIngesting(w) \/ LoadIndexed(w)
    PROVE  Effect(w)
<1>1. IngestionTypeOK /\ StoredInOrder
  BY DEF SagaInv
<1>2. /\ pc[w] = "handling" /\ UNCHANGED <<doc, contents, chunks, upload, deleting, faults>>
  BY DEF LoadIngesting, LoadIndexed, Load, At
<1>3. CASE Raise(w)
  BY <1>1, <1>2, <1>3, RaiseEffect DEF Effect, DocStep, StoredInOrder, IngestionTypeOK
<1>4. CASE LoadIngesting(w) /\ ~Raise(w)
  <2>1. MayMove(doc[Doc(w)], "ingesting") /\ GoTo(w, "save_ingesting") /\ UNCHANGED queueVars
    BY <1>4 DEF LoadIngesting, Load
  <2>2. /\ step' \in [Workers -> Steps] /\ step'[w] = "save_ingesting"
        /\ \A v \in Workers : v # w => step'[v] = step[v]
        /\ pc' = pc /\ current' = current
    BY <2>1, GoOnEffect DEF Steps
  <2>3. Position(w)'
    BY <1>2, <2>1, <2>2, InHand DEF Position, StillLegal, Doc, Busy
  <2> QED
    BY <1>1, <1>2, <2>1, <2>2, <2>3 DEF Effect, DocStep, StoredInOrder, IngestionTypeOK
<1>5. CASE LoadIndexed(w) /\ ~Raise(w)
  <2>1. /\ MayMove(doc[Doc(w)], "indexed") /\ GoTo(w, "save_indexed") /\ UNCHANGED queueVars
        /\ step[w] = "load_indexed"
    BY <1>5 DEF LoadIndexed, Load, At
  <2>2. /\ step' \in [Workers -> Steps] /\ step'[w] = "save_indexed"
        /\ \A v \in Workers : v # w => step'[v] = step[v]
        /\ pc' = pc /\ current' = current
    BY <2>1, GoOnEffect DEF Steps
  <2>3. Doc(w) \in chunks \cup Blank
    BY <2>1 DEF SagaInv, Positions, Position
  <2>4. Position(w)'
    BY <1>2, <2>1, <2>2, <2>3, InHand DEF Position, StillLegal, Doc, Busy
  <2> QED
    BY <1>1, <1>2, <2>1, <2>2, <2>4 DEF Effect, DocStep, StoredInOrder, IngestionTypeOK
<1> QED
  BY <1>3, <1>4, <1>5

LEMMA SaveIngestingEffect ==
    ASSUME SagaInv, NEW w \in Workers, SaveIngesting(w)
    PROVE  Effect(w)
<1>1. IngestionTypeOK /\ StoredInOrder /\ MaxFaults \in Nat
  BY IngestionAssumption DEF SagaInv
<1>2. /\ pc[w] = "handling" /\ step[w] = "save_ingesting"
      /\ doc' = [doc EXCEPT ![Doc(w)] = "ingesting"]
      /\ UNCHANGED <<contents, chunks, upload, deleting>>
  BY DEF SaveIngesting, Save, At
<1>3. /\ DocStep(w) /\ chunks' \subseteq Docs /\ chunks' \cap Blank = {}
      /\ faults' \in 0..MaxFaults
  BY <1>1, <1>2 DEF DocStep, StoredInOrder, IngestionTypeOK, SaveIngesting, Save, Committed
<1>4. CASE Raise(w)
  BY <1>2, <1>3, <1>4, RaiseEffect DEF Effect
<1>5. CASE GoTo(w, "extract") /\ UNCHANGED queueVars
  <2>1. /\ step' \in [Workers -> Steps] /\ step'[w] = "extract"
        /\ \A v \in Workers : v # w => step'[v] = step[v]
        /\ pc' = pc /\ current' = current
    BY <1>5, GoOnEffect DEF Steps
  <2>2. Position(w)'
    BY <1>2, <2>1, InHand DEF Position, Busy
  <2> QED
    BY <1>2, <1>3, <1>5, <2>1, <2>2 DEF Effect
<1> QED
  BY <1>4, <1>5 DEF SaveIngesting, Save, Committed

LEMMA ExtractEffect ==
    ASSUME SagaInv, NEW w \in Workers, Extract(w)
    PROVE  Effect(w)
<1>1. IngestionTypeOK /\ StoredInOrder
  BY DEF SagaInv
<1>2. /\ pc[w] = "handling" /\ UNCHANGED <<doc, contents, chunks, upload, deleting, faults>>
  BY DEF Extract, At
<1>3. CASE Raise(w)
  BY <1>1, <1>2, <1>3, RaiseEffect DEF Effect, DocStep, StoredInOrder, IngestionTypeOK
<1>4. CASE GoTo(w, "replace") /\ UNCHANGED queueVars
  <2>1. /\ step' \in [Workers -> Steps] /\ step'[w] = "replace"
        /\ \A v \in Workers : v # w => step'[v] = step[v]
        /\ pc' = pc /\ current' = current
    BY <1>4, GoOnEffect DEF Steps
  <2>2. Position(w)'
    BY <1>2, <2>1, InHand DEF Position, Busy
  <2> QED
    BY <1>1, <1>2, <1>4, <2>1, <2>2 DEF Effect, DocStep, StoredInOrder, IngestionTypeOK
<1> QED
  BY <1>3, <1>4 DEF Extract

(* The step the promise of INDEXED rests on: the chunk set is committed    *)
(* before the pipeline gets to mark_indexed.                               *)
LEMMA ReplaceChunksEffect ==
    ASSUME SagaInv, NEW w \in Workers, ReplaceChunks(w)
    PROVE  Effect(w)
<1>1. IngestionTypeOK /\ StoredInOrder /\ MaxFaults \in Nat
  BY IngestionAssumption DEF SagaInv
<1>2. /\ pc[w] = "handling" /\ UNCHANGED <<doc, contents, upload, deleting>>
      /\ chunks' = IF Doc(w) \in Blank THEN chunks \ {Doc(w)} ELSE chunks \cup {Doc(w)}
  BY DEF ReplaceChunks, At
<1>3. current[w] # NoJob /\ Doc(w) \in Docs
  BY <1>2, InHand DEF Busy
<1>4. /\ chunks \subseteq chunks' /\ chunks' \subseteq Docs /\ chunks' \cap Blank = {}
      /\ Doc(w) \in chunks' \cup Blank
  BY <1>1, <1>2, <1>3 DEF StoredInOrder, IngestionTypeOK
<1>5. faults' \in 0..MaxFaults /\ DocStep(w)
  BY <1>1, <1>2 DEF IngestionTypeOK, ReplaceChunks, Committed, DocStep
<1>6. CASE Raise(w)
  BY <1>2, <1>4, <1>5, <1>6, RaiseEffect DEF Effect
<1>7. CASE GoTo(w, "load_indexed") /\ UNCHANGED queueVars
  <2>1. /\ step' \in [Workers -> Steps] /\ step'[w] = "load_indexed"
        /\ \A v \in Workers : v # w => step'[v] = step[v]
        /\ pc' = pc /\ current' = current
    BY <1>7, GoOnEffect DEF Steps
  <2>2. Position(w)'
    BY <1>2, <1>3, <1>4, <2>1 DEF Position, Doc
  <2> QED
    BY <1>2, <1>4, <1>5, <1>7, <2>1, <2>2 DEF Effect
<1> QED
  BY <1>6, <1>7 DEF ReplaceChunks, Committed

(* The handler returns only from here, so a job is reported complete only  *)
(* for a document that reads INDEXED, or was deleted since.                *)
LEMMA SaveIndexedEffect ==
    ASSUME SagaInv, NEW w \in Workers, SaveIndexed(w)
    PROVE  Effect(w)
<1>1. IngestionTypeOK /\ StoredInOrder /\ MaxFaults \in Nat
  BY IngestionAssumption DEF SagaInv
<1>2. /\ pc[w] = "handling" /\ step[w] = "save_indexed"
      /\ doc' = [doc EXCEPT ![Doc(w)] = "indexed"]
      /\ UNCHANGED <<contents, chunks, upload, deleting>>
  BY DEF SaveIndexed, Save, At
<1>3. /\ DocStep(w) /\ chunks' \subseteq Docs /\ chunks' \cap Blank = {}
      /\ faults' \in 0..MaxFaults
  BY <1>1, <1>2 DEF DocStep, StoredInOrder, IngestionTypeOK, SaveIndexed, Save, Committed
<1>4. CASE Raise(w)
  BY <1>2, <1>3, <1>4, RaiseEffect DEF Effect
<1>5. CASE HandlerReturns(w) /\ GoTo(w, "start")
  <2>1. pc \in [Workers -> LoopStates] /\ step \in [Workers -> Steps]
    BY DEF SagaInv, QueueInv, IndInv, TypeOK, IngestionTypeOK
  <2>2. /\ step' \in [Workers -> Steps] /\ step'[w] = "start"
        /\ \A v \in Workers : v # w => step'[v] = step[v]
        /\ current' = current /\ QueueStep(w)
    BY <1>5, <2>1 DEF GoTo, HandlerReturns, QueueStep, LoopStep, Steps
  <2>3. doc'[Doc(w)] = "indexed"
    BY <1>1, <1>2, InHand DEF Busy, IngestionTypeOK
  <2>4. Position(w)'
    BY <2>2, <2>3 DEF Position, Doc
  <2> QED
    BY <1>2, <1>3, <2>2, <2>4 DEF Effect
<1> QED
  BY <1>4, <1>5 DEF SaveIndexed, Save, Committed

(* A step outside the pipeline: settle, mark, poll, stop, die, start.      *)
LEMMA LoopEffect ==
    ASSUME SagaInv, NEW w \in Workers, QueueStep(w), pc'[w] # "completing",
           (step' = step /\ step[w] = "start") \/ GoTo(w, "start"),
           UNCHANGED <<contents, chunks, upload, deleting>>,
           faults' \in 0..MaxFaults, DocStep(w)
    PROVE  Effect(w)
<1>1. IngestionTypeOK /\ StoredInOrder
  BY DEF SagaInv
<1>2. /\ step' \in [Workers -> Steps] /\ step'[w] = "start"
      /\ \A v \in Workers : v # w => step'[v] = step[v]
  BY <1>1 DEF IngestionTypeOK, GoTo, Steps
<1>3. Position(w)'
  BY <1>2, OutOfThePipeline
<1> QED
  BY <1>1, <1>2, <1>3 DEF Effect, IngestionTypeOK, StoredInOrder

(* Where the loop itself leaves a worker: never about to complete a job.   *)
LEMMA LoopTarget ==
    ASSUME IndInv, NEW w \in Workers,
           \/ DequeueSelect(w) \/ DequeueCommit(w) \/ LeaveLoop(w) \/ CompleteCommits(w)
           \/ CompleteRaises(w) \/ FailRetries(w) \/ FailDeadLetters(w) \/ MarkFailedDone(w)
           \/ Kill(w) \/ DequeueRaises(w) \/ FailRaises(w) \/ Restart(w)
           \/ RequestStop(w) /\ pc[w] # "completing"
    PROVE  QueueStep(w) /\ pc'[w] # "completing"
<1>1. TypeOK
  BY DEF IndInv
<1>2. \A rest : Advance(w, rest) => pc'[w] \in {"polling", "handling"}
  BY <1>1 DEF Advance, TypeOK
<1>3. Die(w) => pc'[w] = "down"
  BY <1>1 DEF Die, TypeOK
<1>4. QueueStep(w)
  BY DEF QueueStep, LoopStep
<1>5. CASE DequeueCommit(w) \/ CompleteCommits(w) \/ FailRetries(w) \/ MarkFailedDone(w)
  BY <1>2, <1>4, <1>5 DEF DequeueCommit, CompleteCommits, FailRetries, MarkFailedDone
<1>6. CASE Kill(w) \/ DequeueRaises(w) \/ FailRaises(w)
  BY <1>3, <1>4, <1>6 DEF Kill, DequeueRaises, FailRaises
<1>7. CASE DequeueSelect(w) \/ LeaveLoop(w) \/ CompleteRaises(w) \/ FailDeadLetters(w)
           \/ Restart(w) \/ (RequestStop(w) /\ pc[w] # "completing")
  BY <1>1, <1>4, <1>7 DEF TypeOK, DequeueSelect, LeaveLoop, CompleteRaises, FailDeadLetters,
                          Restart, RequestStop
<1> QED
  BY <1>5, <1>6, <1>7

(* A step that stops or restarts a worker does not move it in its pipeline. *)
LEMMA OperateEffect ==
    ASSUME SagaInv, NEW w \in Workers, Operate(w)
    PROVE  Effect(w)
<1>1. IngestionTypeOK /\ StoredInOrder /\ IndInv /\ Position(w) /\ QueueStep(w)
  BY DEF SagaInv, QueueInv, Positions, Operate, QueueStep
<1>2. UNCHANGED docVars
  BY DEF Operate
<1>3. Position(w)'
  <2>1. CASE RequestStop(w)
    BY <1>1, <1>2, <2>1 DEF RequestStop, docVars, Position, StillLegal, Doc
  <2>2. CASE Restart(w)
    <3>1. pc[w] \in {"stopped", "down"} /\ pc'[w] # "completing"
      BY <1>1, <2>2, LoopTarget DEF Restart
    <3>2. step'[w] = "start"
      BY <1>1, <1>2, <3>1 DEF Position, docVars
    <3> QED
      BY <3>1, <3>2, OutOfThePipeline
  <2> QED
    BY <2>1, <2>2 DEF Operate
<1> QED
  BY <1>1, <1>2, <1>3 DEF Effect, docVars, DocStep, IngestionTypeOK, StoredInOrder

(* Every step of a worker is one of the above. *)
LEMMA WorkerHasEffect ==
    ASSUME SagaInv, NEW w \in Workers,
           WorkerStep(w) \/ WorkerFault(w) \/ ProcessEnds(w) \/ Operate(w)
    PROVE  Effect(w)
<1>1. /\ IndInv /\ IngestionTypeOK /\ StoredInOrder /\ MaxFaults \in Nat
      /\ step[w] # "start" => current[w] # NoJob /\ pc[w] \in {"handling", "marking"}
  BY IngestionAssumption DEF SagaInv, QueueInv, IngestionTypeOK
<1>2. CASE Poll(w) \/ Complete(w) \/ Fail(w)
  <2>1. /\ pc[w] \in {"polling", "claiming", "completing", "failing"} /\ UNCHANGED docVars
        /\ QueueStep(w) /\ pc'[w] # "completing"
    BY <1>1, <1>2, LoopTarget
    DEF Poll, Complete, Fail, DequeueSelect, DequeueCommit, LeaveLoop, CompleteCommits,
        FailRetries, FailDeadLetters
  <2>2. faults' \in 0..MaxFaults /\ DocStep(w)
    BY <1>1, <2>1 DEF docVars, DocStep, IngestionTypeOK
  <2> QED
    BY <1>1, <2>1, <2>2, LoopEffect DEF docVars
<1>3. CASE CompleteFaults(w)
  <2>1. pc[w] = "completing" /\ QueueStep(w) /\ pc'[w] # "completing"
    BY <1>1, <1>3, LoopTarget DEF CompleteFaults, CompleteRaises
  <2>2. faults' \in 0..MaxFaults /\ DocStep(w)
    BY <1>1, <1>3 DEF CompleteFaults, DocStep, IngestionTypeOK
  <2> QED
    BY <1>1, <1>3, <2>1, <2>2, LoopEffect DEF CompleteFaults
<1>4. CASE HandlerFaults(w)
  <2>1. faults' \in 0..MaxFaults
    BY <1>1, <1>4 DEF HandlerFaults, IngestionTypeOK
  <2> QED
    BY <1>1, <1>4, <2>1, RaiseEffect
    DEF HandlerFaults, Effect, DocStep, IngestionTypeOK, StoredInOrder
<1>5. CASE LoadFailed(w)
  <2>1. /\ pc[w] = "marking" /\ MayMove(doc[Doc(w)], "failed") /\ GoTo(w, "save_failed")
        /\ UNCHANGED queueVars /\ UNCHANGED <<doc, contents, chunks, upload, deleting, faults>>
    BY <1>5 DEF LoadFailed
  <2>2. /\ step' \in [Workers -> Steps] /\ step'[w] = "save_failed"
        /\ \A v \in Workers : v # w => step'[v] = step[v]
        /\ pc' = pc /\ current' = current
    BY <2>1, GoOnEffect DEF Steps
  <2>3. Position(w)'
    BY <2>1, <2>2, InHand DEF Position, StillLegal, Doc, Busy
  <2> QED
    BY <1>1, <2>1, <2>2, <2>3 DEF Effect, DocStep, StoredInOrder, IngestionTypeOK
<1>6. CASE SkipFailed(w)
  <2>1. step[w] = "start" /\ UNCHANGED docVars /\ QueueStep(w) /\ pc'[w] # "completing"
    BY <1>1, <1>6, LoopTarget DEF SkipFailed
  <2>2. faults' \in 0..MaxFaults /\ DocStep(w)
    BY <1>1, <2>1 DEF docVars, DocStep, IngestionTypeOK
  <2> QED
    BY <2>1, <2>2, LoopEffect DEF docVars
<1>7. CASE SaveFailed(w) \/ MarkFailedFaults(w)
  <2>1. GoTo(w, "start") /\ QueueStep(w) /\ pc'[w] # "completing"
    BY <1>1, <1>7, LoopTarget DEF SaveFailed, MarkFailedFaults
  <2>2. faults' \in 0..MaxFaults /\ DocStep(w) /\ UNCHANGED <<contents, chunks, upload, deleting>>
    BY <1>1, <1>7 DEF SaveFailed, MarkFailedFaults, DocStep, IngestionTypeOK
  <2> QED
    BY <2>1, <2>2, LoopEffect
<1>8. CASE ProcessEnds(w)
  <2>1. GoTo(w, "start") /\ QueueStep(w) /\ pc'[w] # "completing"
    BY <1>1, <1>8, LoopTarget DEF ProcessEnds
  <2>2. faults' \in 0..MaxFaults /\ DocStep(w) /\ UNCHANGED <<contents, chunks, upload, deleting>>
    BY <1>1, <1>8 DEF ProcessEnds, DocStep, IngestionTypeOK
  <2> QED
    BY <2>1, <2>2, LoopEffect
<1> QED
  BY <1>2, <1>3, <1>4, <1>5, <1>6, <1>7, <1>8, LoadEffect, SaveIngestingEffect, ExtractEffect,
     ReplaceChunksEffect, SaveIndexedEffect, OperateEffect
  DEF WorkerStep, WorkerFault

-----------------------------------------------------------------------------
(* A client's step moves no worker and writes one status only: DELETED,    *)
(* which leaves legal whatever a worker is about to save.                  *)
LEMMA ClientKeepsSagaInv ==
    ASSUME SagaInv, NEW d \in Docs, ClientStep(d)
    PROVE  SagaInv'
<1>1. QueueInv /\ IndInv /\ IngestionTypeOK /\ StoredInOrder
  BY DEF SagaInv, QueueInv
<1>2. UNCHANGED <<pc, current, step, chunks, faults>>
  BY DEF ClientStep, UploadVerify, UploadStore, UploadEnqueue, UploadAborts, DeleteLoad,
         DeleteSave, DeleteAborts, Enqueue, queueVars
<1>3. QueueInv'
  <2>1. [IngestionNext]_vars
    BY DEF IngestionNext
  <2> QED
    BY <1>1, <2>1, SagaUsesQueue, QueueInvStep
<1>4. /\ doc' \in [Docs -> DocumentStatus]
      /\ \A e \in Docs : doc'[e] = doc[e] \/ doc'[e] = "deleted"
  <2>1. CASE DeleteSave(d)
    BY <1>1, <2>1 DEF DeleteSave, IngestionTypeOK, DocumentStatus
  <2>2. CASE UNCHANGED doc
    BY <1>1, <2>2 DEF IngestionTypeOK
  <2> QED
    BY <2>1, <2>2 DEF ClientStep, UploadVerify, UploadStore, UploadEnqueue, UploadAborts,
                      DeleteLoad, DeleteAborts
<1>5. /\ upload' \in [Docs -> {"idle", "verified", "stored"}]
      /\ contents' \subseteq Docs /\ deleting' \subseteq Docs
      /\ contents \subseteq contents'
      /\ \A e \in Docs : upload'[e] = "stored" => upload[e] = "stored" \/ e \in contents'
  BY <1>1 DEF ClientStep, UploadVerify, UploadStore, UploadEnqueue, UploadAborts, DeleteLoad,
              DeleteSave, DeleteAborts, IngestionTypeOK
<1>6. \A e \in Docs :
        /\ job'[e].status # "absent" => job[e].status # "absent" \/ upload[e] = "stored"
        /\ job'[e].status = "completed" => job[e].status = "completed"
        /\ job[e].status = "dead_letter" => job'[e].status = "dead_letter"
  <2>1. CASE UploadEnqueue(d)
    BY <1>1, <2>1, EnqueueRows DEF UploadEnqueue
  <2>2. CASE job' = job
    BY <2>2
  <2> QED
    BY <2>1, <2>2 DEF ClientStep, UploadVerify, UploadStore, UploadAborts, DeleteLoad,
                      DeleteSave, DeleteAborts, queueVars
<1>7. Positions'
  <2> SUFFICES ASSUME NEW w \in Workers PROVE Position(w)'
    BY DEF Positions
  <2>1. Position(w)
    BY DEF SagaInv, Positions
  <2>2. CASE current[w] # NoJob
    BY <1>1, <1>2, <1>4, <2>1, <2>2, BusyShape DEF Position, StillLegal, Doc
  <2>3. CASE current[w] = NoJob
    BY <1>1, <1>2, <2>1, <2>3 DEF QueueInv, BusyHasJob, Busy, Position, IngestionTypeOK, Steps
  <2> QED
    BY <2>2, <2>3
<1>8. StoredInOrder'
  BY <1>1, <1>2, <1>4, <1>5, <1>6 DEF StoredInOrder
<1>9. CompletedIsIndexed'
  BY <1>4, <1>6 DEF SagaInv, CompletedIsIndexed
<1>10. FailedIsDeadLettered'
  BY <1>4, <1>6 DEF SagaInv, FailedIsDeadLettered
<1>11. IngestionTypeOK'
  BY <1>1, <1>2, <1>4, <1>5 DEF IngestionTypeOK
<1> QED
  BY <1>3, <1>7, <1>8, <1>9, <1>10, <1>11 DEF SagaInv

LEMMA SagaInvInit == IngestionInit => SagaInv
<1> SUFFICES ASSUME IngestionInit PROVE SagaInv
  OBVIOUS
<1>1. QueueInv
  BY QueueInvInit DEF IngestionInit
<1>2. IngestionTypeOK
  BY IngestionAssumption DEF IngestionInit, IngestionTypeOK, DocumentStatus, Steps
<1>3. Positions
  BY DEF IngestionInit, Init, Positions, Position
<1>4. StoredInOrder /\ CompletedIsIndexed /\ FailedIsDeadLettered
  BY DEF IngestionInit, Init, NoRow, StoredInOrder, CompletedIsIndexed, FailedIsDeadLettered
<1> QED
  BY <1>1, <1>2, <1>3, <1>4 DEF SagaInv

LEMMA SagaInvStep == SagaInv /\ [IngestionNext]_vars => SagaInv'
<1> SUFFICES ASSUME SagaInv, [IngestionNext]_vars PROVE SagaInv'
  OBVIOUS
<1>1. ASSUME NEW d \in Docs, ClientStep(d) PROVE SagaInv'
  BY <1>1, ClientKeepsSagaInv
<1>2. ASSUME NEW w \in Workers,
             WorkerStep(w) \/ WorkerFault(w) \/ ProcessEnds(w) \/ Operate(w)
      PROVE  SagaInv'
  BY <1>2, WorkerHasEffect, EffectKeepsSagaInv
<1>3. ASSUME UNCHANGED docVars, UNCHANGED <<job, pc, current>> PROVE SagaInv'
  <2>1. QueueInv'
    BY SagaUsesQueue, QueueInvStep DEF SagaInv
  <2> QED
    BY <1>3, <2>1 DEF SagaInv, docVars, IngestionTypeOK, Positions, Position, StillLegal, Doc,
                      StoredInOrder, CompletedIsIndexed, FailedIsDeadLettered
<1>4. CASE (Tick /\ UNCHANGED docVars) \/ UNCHANGED vars
  BY <1>3, <1>4 DEF Tick, vars, queueVars
<1> QED
  BY <1>1, <1>2, <1>4 DEF IngestionNext

LEMMA SagaInvHolds == Spec => []SagaInv
  BY SagaInvInit, SagaInvStep, PTL DEF Spec

(* Any status may be followed by DELETED. *)
LEMMA MayBeDeleted ==
    ASSUME NEW status \in DocumentStatus, status # "deleted"
    PROVE  MayMove(status, "deleted")
<1>1. /\ AllowedTransitions["registered"] = {"ingesting", "deleted"}
      /\ AllowedTransitions["ingesting"] = {"indexed", "failed", "deleted"}
      /\ AllowedTransitions["indexed"] = {"ingesting", "deleted"}
      /\ AllowedTransitions["failed"] = {"ingesting", "deleted"}
  BY DEF AllowedTransitions
<1>2. CASE status = "registered"
  BY <1>1, <1>2 DEF MayMove
<1>3. CASE status = "ingesting"
  BY <1>1, <1>3 DEF MayMove
<1>4. CASE status = "indexed"
  BY <1>1, <1>4 DEF MayMove
<1>5. CASE status = "failed"
  BY <1>1, <1>5 DEF MayMove
<1> QED
  BY <1>2, <1>3, <1>4, <1>5 DEF DocumentStatus

(* What a step may do to the status of a document. *)
StatusStep ==
    \A d \in Docs : doc'[d] # doc[d] =>
        \/ MayMove(doc[d], doc'[d])
        \/ doc[d] = "deleted" /\ doc'[d] \in {"ingesting", "indexed", "failed"}

LEMMA StatusStepHolds == SagaInv /\ [IngestionNext]_vars => StatusStep
<1> SUFFICES ASSUME SagaInv, [IngestionNext]_vars PROVE StatusStep
  OBVIOUS
<1>1. ASSUME NEW w \in Workers,
             WorkerStep(w) \/ WorkerFault(w) \/ ProcessEnds(w) \/ Operate(w)
      PROVE  StatusStep
  <2>1. DocStep(w)
    BY <1>1, WorkerHasEffect DEF Effect
  <2> QED
    BY <2>1, DocStepShape DEF StatusStep, StillLegal
<1>2. ASSUME NEW d \in Docs, DeleteSave(d) PROVE StatusStep
  <2>1. doc \in [Docs -> DocumentStatus] /\ doc' = [doc EXCEPT ![d] = "deleted"]
    BY <1>2 DEF SagaInv, IngestionTypeOK, DeleteSave
  <2> SUFFICES ASSUME NEW e \in Docs, doc'[e] # doc[e] PROVE MayMove(doc[e], doc'[e])
    BY DEF StatusStep
  <2>2. doc'[e] = "deleted" /\ doc[e] # "deleted" /\ doc[e] \in DocumentStatus
    BY <2>1
  <2> QED
    BY <2>2, MayBeDeleted
<1>3. CASE doc' = doc
  BY <1>3 DEF StatusStep
<1>4. ASSUME NEW d \in Docs, ClientStep(d) PROVE DeleteSave(d) \/ doc' = doc
  BY <1>4 DEF ClientStep, UploadVerify, UploadStore, UploadEnqueue, UploadAborts, DeleteLoad,
              DeleteAborts
<1> QED
  BY <1>1, <1>2, <1>3, <1>4 DEF IngestionNext, docVars, vars

-----------------------------------------------------------------------------
(* The pipeline, the uploads and the deletions reach rows, locks and       *)
(* workers only through the operations of the queue, so what is proved of  *)
(* the queue holds of the saga.                                            *)
THEOREM SagaImplementsQueue == Spec => UsesQueue
<1>1. IngestionInit => Init
  BY DEF IngestionInit
<1> QED
  BY <1>1, SagaUsesQueue, PTL DEF Spec, UsesQueue, QueueSpec

(* So the saga keeps the contract of the queue as well, with pipelines     *)
(* that fail anywhere in place of the handler the queue leaves open.       *)
THEOREM SagaKeepsContract == Spec => ImplementsContract
  BY SagaImplementsQueue, QueueImplementsContract DEF UsesQueue

(* Statuses, stores and handler positions stay well-formed; in particular  *)
(* a worker is in the pipeline only with a job in hand.                    *)
THEOREM SagaTypeCorrect == Spec => []IngestionTypeOK
  BY SagaInvHolds, PTL DEF SagaInv

(* Two workers never act on one document, whatever is retried, killed or   *)
(* answered too late, also while one still marks it FAILED after its job   *)
(* was settled.                                                            *)
THEOREM DocumentsHaveOneWorker == Spec => []OneWorkerPerDocument
  BY SagaInvHolds, PTL DEF SagaInv, QueueInv

(* Whoever has a job has its text, and a document that reads INDEXED has   *)
(* exactly the chunks of its text, although text, job, chunks and status   *)
(* are committed apart.                                                    *)
THEOREM IndexedDocumentsAreServed == Spec => []IndexedIsServed
<1>1. SagaInv => IndexedIsServed
  BY DEF SagaInv, StoredInOrder, IndexedIsServed
<1> QED
  BY <1>1, SagaInvHolds, PTL

(* A job is COMPLETED only if its document is INDEXED or was deleted, also *)
(* when the answer to complete is lost.                                    *)
THEOREM CompletedJobsAreIndexed == Spec => []CompletedIsIndexed
  BY SagaInvHolds, PTL DEF SagaInv

(* A document is FAILED only if its job is dead-lettered.                  *)
THEOREM FailedJobsAreDeadLettered == Spec => []FailedIsDeadLettered
  BY SagaInvHolds, PTL DEF SagaInv

(* The unlocked read and write of a status change loses no update but that *)
(* of a DELETE request: every other change is one the aggregate allows.    *)
THEOREM StaleWritesHitOnlyDeletes == Spec => OnlyDeletesAreOverwritten
<1>1. SagaInv /\ [IngestionNext]_vars => [StatusStep]_vars
  BY StatusStepHolds
<1> QED
  BY <1>1, SagaInvHolds, PTL DEF Spec, OnlyDeletesAreOverwritten, StatusStep
=============================================================================
