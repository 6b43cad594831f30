------------------------------ MODULE Ingestion -----------------------------
(***************************************************************************)
(* The ingestion saga: clients upload and delete documents through the     *)
(* API while worker processes run the pipeline (ingestion/application/     *)
(* content.py and pipeline.py, documents/application/lifecycle.py and      *)
(* commands.py) between claiming a job and settling it (JobQueue.tla).     *)
(*                                                                         *)
(* No transaction spans two of these parts. A status change is a read in   *)
(* one statement and a write by id in a later one, with no lock and no     *)
(* version check between them; both are actions here. What a transaction   *)
(* writes and commits in one go is one action.                             *)
(*                                                                         *)
(* Data: the text of a document is fixed by its content hash, so content   *)
(* is stored or not, and its chunks are written or not. A document in      *)
(* Blank has a text without any piece. Every document starts registered.   *)
(***************************************************************************)
EXTENDS JobQueue, Document

CONSTANTS
    Blank,          \* documents whose text splits into no piece at all
    Deletable,      \* documents some client may delete
    MaxFaults       \* bound: database or embedding errors inside a worker's try

VARIABLES
    doc,            \* Docs -> status column of the document
    contents,       \* documents with a row in document_contents
    chunks,         \* documents whose chunk set is stored
    step,           \* Workers -> where handler.handle or mark_failed is
    upload,         \* Docs -> progress of an upload request
    deleting,       \* documents a DELETE request has loaded and not yet saved
    faults

docVars == <<doc, contents, chunks, step, upload, deleting, faults>>
vars    == <<queueVars, docVars>>

ASSUME IngestionAssumption ==
    Blank \subseteq Docs /\ Deletable \subseteq Docs /\ MaxFaults \in Nat

Steps == {"start", "save_ingesting", "extract", "replace", "load_indexed",
          "save_indexed", "save_failed"}

IngestionInit ==
    /\ Init
    /\ doc = [d \in Docs |-> "registered"]
    /\ contents = {} /\ chunks = {}
    /\ step = [w \in Workers |-> "start"]
    /\ upload = [d \in Docs |-> "idle"]
    /\ deleting = {}
    /\ faults = 0

At(w, s) == pc[w] = "handling" /\ step[w] = s

Doc(w) == current[w].doc

GoTo(w, s) == step' = [step EXCEPT ![w] = s]

-----------------------------------------------------------------------------
(* POST /documents/{id}/content: verify the hash against the document,     *)
(* store the text in one transaction, enqueue in another.                  *)
UploadVerify(d) ==
    /\ upload[d] = "idle" /\ Visible(doc[d])
    /\ upload' = [upload EXCEPT ![d] = "verified"]
    /\ UNCHANGED <<queueVars, doc, contents, chunks, step, deleting, faults>>

UploadStore(d) ==
    /\ upload[d] = "verified"
    /\ contents' = contents \cup {d}
    /\ upload' = [upload EXCEPT ![d] = "stored"]
    /\ UNCHANGED <<queueVars, doc, chunks, step, deleting, faults>>

(* Mutant: a repeated upload puts a dead-lettered job back to work. *)
UploadRequeues(d) ==
    /\ upload[d] = "stored"
    /\ job' = [job EXCEPT ![d] = IF @.status = "dead_letter"
                                 THEN [@ EXCEPT !.status = "pending", !.attempts = 0]
                                 ELSE EnqueuedRow(@)]
    /\ upload' = [upload EXCEPT ![d] = "idle"]
    /\ UNCHANGED <<now, locks, pc, claimed, current, stopping, budget,
                   doc, contents, chunks, step, deleting, faults>>

UploadEnqueue(d) ==
    /\ upload[d] = "stored"
    /\ Enqueue(d)
    /\ upload' = [upload EXCEPT ![d] = "idle"]
    /\ UNCHANGED <<doc, contents, chunks, step, deleting, faults>>

(* The request fails or its process ends between two transactions. *)
UploadAborts(d) ==
    /\ upload[d] # "idle"
    /\ upload' = [upload EXCEPT ![d] = "idle"]
    /\ UNCHANGED <<queueVars, doc, contents, chunks, step, deleting, faults>>

(* DELETE /documents/{id}: load, delete() on the aggregate, save by id.    *)
(* Content, chunks and jobs are not looked at.                             *)
DeleteLoad(d) ==
    /\ d \in Deletable \ deleting /\ Visible(doc[d])
    /\ deleting' = deleting \cup {d}
    /\ UNCHANGED <<queueVars, doc, contents, chunks, step, upload, faults>>

DeleteSave(d) ==
    /\ d \in deleting
    /\ doc' = [doc EXCEPT ![d] = "deleted"]
    /\ deleting' = deleting \ {d}
    /\ UNCHANGED <<queueVars, contents, chunks, step, upload, faults>>

DeleteAborts(d) ==
    /\ d \in deleting
    /\ deleting' = deleting \ {d}
    /\ UNCHANGED <<queueVars, doc, contents, chunks, step, upload, faults>>

-----------------------------------------------------------------------------
(* Mutant: what an attempt achieved is kept and the next one resumes there. *)
RaiseResumes(w) == HandlerRaises(w) /\ UNCHANGED step

(* handler.handle raises: the loop catches it and goes on to queue.fail. *)
Raise(w) == HandlerRaises(w) /\ GoTo(w, "start")

(* One faulty statement of the handler, before anything it does commits. *)
HandlerFaults(w) ==
    /\ pc[w] = "handling" /\ faults < MaxFaults
    /\ Raise(w)
    /\ faults' = faults + 1
    /\ UNCHANGED <<doc, contents, chunks, upload, deleting>>

(* A commit of the handler took effect. Its answer arrives, or is lost and *)
(* the handler raises.                                                     *)
Committed(w, next) ==
    \/ /\ IF next = "return" THEN HandlerReturns(w) /\ GoTo(w, "start")
                             ELSE UNCHANGED queueVars /\ GoTo(w, next)
       /\ UNCHANGED faults
    \/ /\ faults < MaxFaults
       /\ Raise(w)
       /\ faults' = faults + 1

(* mark_ingesting, mark_indexed: load the document and transition it in    *)
(* memory. A deleted document is not found; a transition may be illegal.   *)
Load(w, from, target, save) ==
    /\ At(w, from)
    /\ \/ /\ Visible(doc[Doc(w)]) /\ MayMove(doc[Doc(w)], target)
          /\ GoTo(w, save)
          /\ UNCHANGED queueVars
       \/ /\ ~Visible(doc[Doc(w)]) \/ ~MayMove(doc[Doc(w)], target)
          /\ Raise(w)
    /\ UNCHANGED <<doc, contents, chunks, upload, deleting, faults>>

(* ... and write the new status by id, whatever the row says by now. *)
Save(w, save, target, next) ==
    /\ At(w, save)
    /\ doc' = [doc EXCEPT ![Doc(w)] = target]
    /\ Committed(w, next)
    /\ UNCHANGED <<contents, chunks, upload, deleting>>

LoadIngesting(w) == Load(w, "start", "ingesting", "save_ingesting")
SaveIngesting(w) == Save(w, "save_ingesting", "ingesting", "extract")

(* content.get, split, embed: nothing is written. *)
Extract(w) ==
    /\ At(w, "extract")
    /\ IF Doc(w) \in contents THEN GoTo(w, "replace") /\ UNCHANGED queueVars
                              ELSE Raise(w)
    /\ UNCHANGED <<doc, contents, chunks, upload, deleting, faults>>

(* Mutant: the chunks are committed only after mark_indexed. *)
ReplaceChunksLate(w) ==
    /\ At(w, "replace")
    /\ Committed(w, "load_indexed")
    /\ UNCHANGED <<doc, contents, chunks, upload, deleting>>

(* replace_for_document: delete and insert in one transaction. *)
ReplaceChunks(w) ==
    /\ At(w, "replace")
    /\ chunks' = IF Doc(w) \in Blank THEN chunks \ {Doc(w)} ELSE chunks \cup {Doc(w)}
    /\ Committed(w, "load_indexed")
    /\ UNCHANGED <<doc, contents, upload, deleting>>

LoadIndexed(w) == Load(w, "load_indexed", "indexed", "save_indexed")

(* Mutant: the job is reported done without marking the document. *)
SaveIndexedForgotten(w) ==
    /\ At(w, "save_indexed") /\ HandlerReturns(w) /\ GoTo(w, "start")
    /\ UNCHANGED <<doc, contents, chunks, upload, deleting, faults>>

SaveIndexed(w) == Save(w, "save_indexed", "indexed", "return")

(* Mutant: every failure marks the document, not only the last one. *)
FailAlwaysMarks(w) ==
    /\ pc[w] = "failing"
    /\ FailUpdate(w)
    /\ claimed' = [claimed EXCEPT ![w] = @ \ {current[w]}]
    /\ pc' = [pc EXCEPT ![w] = "marking"]
    /\ UNCHANGED <<now, locks, current, stopping, budget, docVars>>

(* complete and fail, as in JobQueue; a complete that raises is a fault. *)
Complete(w) ==
    /\ CompleteCommits(w)
    /\ UNCHANGED docVars

CompleteFaults(w) ==
    /\ CompleteRaises(w) /\ faults < MaxFaults
    /\ faults' = faults + 1
    /\ UNCHANGED <<doc, contents, chunks, step, upload, deleting>>

Fail(w) ==
    /\ FailRetries(w) \/ FailDeadLetters(w)
    /\ UNCHANGED docVars

(* mark_failed, after the job was dead-lettered. Whatever it raises is     *)
(* logged and dropped.                                                     *)
LoadFailed(w) ==
    /\ pc[w] = "marking" /\ step[w] = "start"
    /\ Visible(doc[Doc(w)]) /\ MayMove(doc[Doc(w)], "failed")
    /\ GoTo(w, "save_failed")
    /\ UNCHANGED <<queueVars, doc, contents, chunks, upload, deleting, faults>>

SkipFailed(w) ==
    /\ pc[w] = "marking" /\ step[w] = "start"
    /\ ~Visible(doc[Doc(w)]) \/ ~MayMove(doc[Doc(w)], "failed")
    /\ MarkFailedDone(w)
    /\ UNCHANGED docVars

SaveFailed(w) ==
    /\ pc[w] = "marking" /\ step[w] = "save_failed"
    /\ doc' = [doc EXCEPT ![Doc(w)] = "failed"]
    /\ MarkFailedDone(w) /\ GoTo(w, "start")
    /\ UNCHANGED <<contents, chunks, upload, deleting, faults>>

MarkFailedFaults(w) ==
    /\ pc[w] = "marking" /\ faults < MaxFaults
    /\ MarkFailedDone(w) /\ GoTo(w, "start")
    /\ faults' = faults + 1
    /\ UNCHANGED <<doc, contents, chunks, upload, deleting>>

(* The process ends wherever the handler is. *)
ProcessEnds(w) ==
    /\ Kill(w) \/ DequeueRaises(w) \/ FailRaises(w)
    /\ GoTo(w, "start")
    /\ UNCHANGED <<doc, contents, chunks, upload, deleting, faults>>

-----------------------------------------------------------------------------
Poll(w) ==
    /\ DequeueSelect(w) \/ DequeueCommit(w) \/ LeaveLoop(w)
    /\ UNCHANGED docVars

Operate(w) ==
    /\ RequestStop(w) \/ Restart(w)
    /\ UNCHANGED docVars

WorkerStep(w) ==
    \/ Poll(w)
    \/ LoadIngesting(w) \/ SaveIngesting(w) \/ Extract(w) \/ ReplaceChunks(w)
    \/ LoadIndexed(w) \/ SaveIndexed(w)
    \/ Complete(w) \/ Fail(w)
    \/ LoadFailed(w) \/ SkipFailed(w) \/ SaveFailed(w)

WorkerFault(w) == HandlerFaults(w) \/ CompleteFaults(w) \/ MarkFailedFaults(w)

ClientStep(d) ==
    \/ UploadVerify(d) \/ UploadStore(d) \/ UploadEnqueue(d) \/ UploadAborts(d)
    \/ DeleteLoad(d) \/ DeleteSave(d) \/ DeleteAborts(d)

IngestionNext ==
    \/ \E d \in Docs : ClientStep(d)
    \/ \E w \in Workers : WorkerStep(w) \/ WorkerFault(w)
    \/ \E w \in Workers : ProcessEnds(w) \/ Operate(w)
    \/ Tick /\ UNCHANGED docVars

Spec == IngestionInit /\ [][IngestionNext]_vars

(* A worker process that runs keeps running, one that ended is started     *)
(* again, and time passes. Clients owe nothing.                            *)
Fairness ==
    /\ \A w \in Workers : WF_vars(WorkerStep(w))
    /\ \A w \in Workers : WF_vars(Restart(w) /\ UNCHANGED docVars)
    /\ WF_vars(Tick /\ UNCHANGED docVars)

FairSpec == Spec /\ Fairness
-----------------------------------------------------------------------------
(* Type invariant of what this module adds to the queue. *)
IngestionTypeOK ==
    /\ doc \in [Docs -> DocumentStatus]
    /\ contents \subseteq Docs /\ chunks \subseteq Docs /\ deleting \subseteq Docs
    /\ step \in [Workers -> Steps]
    /\ upload \in [Docs -> {"idle", "verified", "stored"}]
    /\ faults \in 0..MaxFaults
    /\ \A w \in Workers :
         step[w] # "start" => current[w] # NoJob /\ pc[w] \in {"handling", "marking"}

(* content.py and pipeline.py: text, job, chunks and status are written in *)
(* four transactions, by a request and a worker; their order is what keeps *)
(* ContentMissingError from ever being raised, and "INDEXED only on        *)
(* success". A document that reads INDEXED has the chunks of its text.     *)
IndexedIsServed ==
    \A d \in Docs :
        /\ job[d].status # "absent" => d \in contents
        /\ doc[d] = "indexed" => (d \in chunks <=> d \notin Blank)

(* A COMPLETED job leaves a document that is INDEXED or was deleted, also  *)
(* when the answer to complete was lost and the job is about to be failed. *)
CompletedIsIndexed ==
    \A d \in Docs : job[d].status = "completed" => doc[d] \in {"indexed", "deleted"}

(* worker.py: a document is FAILED only once its job exhausted its         *)
(* retries; nothing brings such a job back.                                *)
FailedIsDeadLettered ==
    \A d \in Docs : doc[d] = "failed" => job[d].status = "dead_letter"

(* Two workers never act on one document, not even when the one is still   *)
(* marking it after its job was settled.                                   *)
OneWorkerPerDocument ==
    \A v, w \in Workers :
        v # w /\ current[v] # NoJob /\ current[w] # NoJob => Doc(v) # Doc(w)

(* The unlocked read and write of a status change: because of              *)
(* OneWorkerPerDocument the only write that can be overwritten by a stale  *)
(* one is that of a DELETE request. Every other change is a transition the *)
(* aggregate allows.                                                       *)
OnlyDeletesAreOverwritten ==
    [][\A d \in Docs : doc'[d] # doc[d] =>
           \/ MayMove(doc[d], doc'[d])
           \/ doc[d] = "deleted" /\ doc'[d] \in {"ingesting", "indexed", "failed"}]_vars

(* The saga uses the queue as JobQueue says it behaves. *)
UsesQueue == QueueSpec

-----------------------------------------------------------------------------
Served(d) == doc[d] = "deleted" \/ (doc[d] = "indexed" /\ (d \in Blank \/ d \in chunks))

(* A queued job ends COMPLETED or DEAD_LETTER, whatever fault hits the     *)
(* pipeline or complete; without a fault its document ends up indexed, or  *)
(* deleted by a client, and stays so, however the worker's and the         *)
(* client's reads and writes interleave.                                   *)
UploadsAreServed ==
    \A d \in Docs :
        /\ job[d].status = "pending" ~> Settled(d)
        /\ [](faults = 0) => (job[d].status = "pending" ~> []Served(d))

-----------------------------------------------------------------------------
(* pipeline.py: "a failure at any point leaves the system recoverable".    *)
(* Stated: a document nobody deletes is dead-lettered only after           *)
(* MaxAttempts faults. The code needs one (Ingestion_retry.cfg).           *)
DeadLetterNeedsFaults ==
    \A d \in Docs \ Deletable : job[d].status = "dead_letter" => faults >= MaxAttempts

(* document.py: DELETED allows no transition. The code's unlocked writes   *)
(* bring a deleted document back (Ingestion_delete.cfg).                   *)
DeletedIsFinal == [][\A d \in Docs : doc[d] = "deleted" => doc'[d] = "deleted"]_vars

(* worker.py: "Jobs that exhaust their retries are moved to the            *)
(* dead-letter state and their document is marked FAILED". The code does   *)
(* not always (Ingestion_deadletter.cfg).                                  *)
DeadLetterMarksFailed ==
    \A d \in Docs : job[d].status = "dead_letter" ~> doc[d] \in {"failed", "deleted"}
=============================================================================
