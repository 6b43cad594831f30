--------------------------- MODULE JobQueueProofs ---------------------------
(***************************************************************************)
(* Safety of the job queue for any number of documents, workers, attempts  *)
(* and failures. ExclusiveClaim and HolderOwnsRow need each other: the row *)
(* a worker settles is still its own only because nobody else claimed it,  *)
(* and nobody else can claim it only because the row still says so. What   *)
(* ties them to the two steps of a dequeue is that a locked row is PENDING *)
(* and locked by one worker.                                               *)
(***************************************************************************)
EXTENDS JobQueue, TLAPS

(* The rows of an open dequeue are pending and locked once. *)
LockedRowsPending ==
    \A w \in Workers :
        /\ locks[w] # {} => pc[w] = "claiming"
        /\ \A d \in locks[w] : job[d].status = "pending"
        /\ \A v \in Workers : v # w => locks[v] \cap locks[w] = {}

(* A worker holds copies only inside its "for job in jobs" loop, and the   *)
(* job it is about to settle is one of them.                               *)
BatchInLoop ==
    \A w \in Workers :
        /\ claimed[w] # {} => pc[w] \in {"handling", "completing", "failing", "marking"}
        /\ pc[w] \in {"handling", "completing", "failing"} => current[w] \in claimed[w]

IndInv ==
    /\ TypeOK
    /\ LockedRowsPending
    /\ BatchInLoop
    /\ HolderOwnsRow
    /\ ExclusiveClaim
    /\ DeadLetterIffExhausted

-----------------------------------------------------------------------------
(* A retry delay is a number of seconds, for every attempt that may fail. *)
LEMMA BackoffType ==
    ASSUME NEW n \in 1..MaxAttempts
    PROVE  Backoff(n) \in Nat
  BY QueueAssumption

(* Advance stays among the jobs it is given, and out of every other        *)
(* worker's.                                                               *)
LEMMA AdvanceShape ==
    ASSUME TypeOK, NEW w \in Workers, NEW rest \in SUBSET IngestionJob, Advance(w, rest)
    PROVE  /\ claimed' = [claimed EXCEPT ![w] = rest]
           /\ pc' \in [Workers -> LoopStates]
           /\ current' \in [Workers -> IngestionJob \cup {NoJob}]
           /\ \A v \in Workers : v # w => pc'[v] = pc[v] /\ current'[v] = current[v]
           /\ rest = {} => pc'[w] = "polling"
           /\ rest # {} => pc'[w] = "handling" /\ current'[w] \in rest
  BY DEF TypeOK, Advance, LoopStates

(* What is left of a worker whose process ended: nothing.                  *)
LEMMA DieShape ==
    ASSUME TypeOK, NEW w \in Workers, Die(w)
    PROVE  /\ claimed' = [claimed EXCEPT ![w] = {}]
           /\ locks' = [locks EXCEPT ![w] = {}]
           /\ pc' = [pc EXCEPT ![w] = "down"]
           /\ current' \in [Workers -> IngestionJob \cup {NoJob}]
           /\ stopping' \in [Workers -> BOOLEAN]
           /\ \A v \in Workers : v # w => current'[v] = current[v]
  BY DEF TypeOK, Die

(* The row fail writes is within the table's columns, and is parked        *)
(* exactly when its attempts are spent.                                    *)
LEMMA FailedRowShape ==
    ASSUME TypeOK, NEW row \in JobRow, NEW j \in IngestionJob, j.attempts # MaxAttempts
    PROVE  /\ FailedRow(row, j) \in JobRow
           /\ FailedRow(row, j).status \in {"pending", "dead_letter"}
           /\ FailedRow(row, j).status = "dead_letter" <=>
                 FailedRow(row, j).attempts = MaxAttempts
           /\ FailedRow(row, j).lockedBy = NoWorker
<1> DEFINE n == j.attempts + 1
<1>1. j.attempts \in 0..MaxAttempts /\ MaxAttempts \in Nat
  BY QueueAssumption DEF IngestionJob
<1>2. n \in 1..MaxAttempts
  BY <1>1
<1>3. Backoff(n) \in Nat
  BY <1>2, BackoffType
<1>4. now + Backoff(n) \in Nat
  BY <1>3 DEF TypeOK
<1>5. n \in 0..MaxAttempts /\ NoWorker \in Workers \cup {NoWorker}
  BY <1>2
<1>6. CASE n >= MaxAttempts
  <2>1. FailedRow(row, j) = [row EXCEPT !.status = "dead_letter", !.attempts = n,
                                        !.lockedBy = NoWorker]
    BY <1>6 DEF FailedRow
  <2>2. FailedRow(row, j) = [status |-> "dead_letter", attempts |-> n,
                             availableAt |-> row.availableAt, lockedBy |-> NoWorker]
    BY <2>1 DEF JobRow
  <2>3. n = MaxAttempts
    BY <1>1, <1>2, <1>6
  <2> HIDE DEF n
  <2> QED
    BY <2>2, <2>3, <1>5 DEF JobRow, JobStatus
<1>7. CASE ~(n >= MaxAttempts)
  <2>1. FailedRow(row, j) = [row EXCEPT !.status = "pending", !.attempts = n,
                                        !.availableAt = now + Backoff(n), !.lockedBy = NoWorker]
    BY <1>7 DEF FailedRow
  <2>2. FailedRow(row, j) = [status |-> "pending", attempts |-> n,
                             availableAt |-> now + Backoff(n), lockedBy |-> NoWorker]
    BY <2>1 DEF JobRow
  <2>3. n # MaxAttempts
    BY <1>1, <1>2, <1>7
  <2> HIDE DEF n
  <2> QED
    BY <2>2, <2>3, <1>4, <1>5 DEF JobRow, JobStatus
<1> QED
  BY <1>6, <1>7
-----------------------------------------------------------------------------
(* The empty queue satisfies the invariant.                                *)
LEMMA IndInvInit == Init => IndInv
<1> SUFFICES ASSUME Init PROVE IndInv
  OBVIOUS
<1>1. NoRow \in JobRow
  BY QueueAssumption DEF NoRow, JobRow, JobStatus
<1>2. TypeOK
  BY <1>1, QueueAssumption DEF Init, TypeOK, LoopStates, IngestionJob
<1>3. LockedRowsPending /\ BatchInLoop /\ HolderOwnsRow /\ ExclusiveClaim
  BY DEF Init, LockedRowsPending, BatchInLoop, HolderOwnsRow, ExclusiveClaim
<1>4. DeadLetterIffExhausted
  BY QueueAssumption DEF Init, NoRow, DeadLetterIffExhausted
<1> QED
  BY <1>2, <1>3, <1>4 DEF IndInv

(* A copy a worker holds is of a row that is not yet out of attempts. *)
LEMMA HeldNotExhausted ==
    ASSUME IndInv, NEW w \in Workers, NEW j \in claimed[w]
    PROVE  /\ j \in IngestionJob /\ job[j.doc] \in JobRow
           /\ j.attempts = job[j.doc].attempts
           /\ j.attempts # MaxAttempts
           /\ job[j.doc].status \in {"processing", "completed"}
<1>1. j \in IngestionJob /\ j.doc \in Docs /\ job[j.doc] \in JobRow
  BY DEF IndInv, TypeOK, IngestionJob
<1> QED
  BY <1>1 DEF IndInv, HolderOwnsRow, DeadLetterIffExhausted

(* Settling one held job: whatever row is written for it, PENDING,         *)
(* COMPLETED or DEAD_LETTER, the relation between rows, locks and copies   *)
(* survives, provided the settled copy is dropped and nobody else's copies *)
(* change.                                                                 *)
LEMMA SettleStep ==
    ASSUME IndInv, NEW w \in Workers, NEW j \in claimed[w],
           pc[w] \in {"completing", "failing"}, current[w] = j,
           NEW row \in JobRow,
           row.status \in {"pending", "completed", "dead_letter"},
           row.status = "dead_letter" <=> row.attempts = MaxAttempts,
           row.lockedBy = NoWorker,
           job' = [job EXCEPT ![j.doc] = row],
           locks' = locks,
           NEW rest \in SUBSET (claimed[w] \ {j}),
           claimed' = [claimed EXCEPT ![w] = rest],
           \A v \in Workers : v # w => pc'[v] = pc[v] /\ current'[v] = current[v]
    PROVE  /\ job' \in [Docs -> JobRow]
           /\ claimed' \in [Workers -> SUBSET IngestionJob]
           /\ LockedRowsPending' /\ HolderOwnsRow' /\ ExclusiveClaim'
           /\ DeadLetterIffExhausted'
<1>1. j \in IngestionJob /\ j.doc \in Docs /\ locks[w] = {}
  BY DEF IndInv, TypeOK, IngestionJob, LockedRowsPending
<1>2. job \in [Docs -> JobRow] /\ claimed \in [Workers -> SUBSET IngestionJob]
  BY DEF IndInv, TypeOK
<1>3. job' \in [Docs -> JobRow] /\ claimed' \in [Workers -> SUBSET IngestionJob]
  BY <1>1, <1>2
<1>4. job[j.doc].status \in {"processing", "completed"}
  BY HeldNotExhausted
<1>5. LockedRowsPending'
  <2>1. \A v \in Workers : \A d \in locks[v] : d # j.doc
    BY <1>4 DEF IndInv, LockedRowsPending
  <2>2. \A v \in Workers : \A d \in locks[v] : d \in Docs /\ job'[d] = job[d]
    BY <1>2, <2>1 DEF IndInv, TypeOK
  <2> QED
    BY <1>1, <2>2 DEF IndInv, LockedRowsPending
<1>6. \A v \in Workers : \A i \in claimed'[v] : i \in claimed[v] /\ <<v, i>> # <<w, j>>
  BY <1>2
<1>7. HolderOwnsRow'
  <2> SUFFICES ASSUME NEW v \in Workers, NEW i \in claimed'[v]
               PROVE  /\ job'[i.doc].attempts = i.attempts
                      /\ \/ job'[i.doc].status = "processing" /\ job'[i.doc].lockedBy = v
                         \/ job'[i.doc].status = "completed" /\ pc'[v] = "failing" /\ current'[v] = i
    BY DEF HolderOwnsRow
  <2>1. i \in claimed[v] /\ <<v, i>> # <<w, j>>
    BY <1>6
  <2>2. job'[i.doc] = job[i.doc]
    <3>1. i \in IngestionJob /\ i.doc \in Docs
      BY <1>2, <2>1 DEF IngestionJob
    <3>2. i.doc # j.doc
      BY <2>1 DEF IndInv, ExclusiveClaim
    <3> QED
      BY <1>1, <1>2, <3>1, <3>2
  <2>3. CASE v # w
    BY <2>1, <2>2, <2>3 DEF IndInv, HolderOwnsRow
  <2>4. CASE v = w
    BY <2>1, <2>2, <2>4 DEF IndInv, HolderOwnsRow
  <2> QED
    BY <2>3, <2>4
<1>8. ExclusiveClaim'
  BY <1>6 DEF IndInv, ExclusiveClaim
<1>9. DeadLetterIffExhausted'
  BY <1>1, <1>2 DEF IndInv, DeadLetterIffExhausted
<1> QED
  BY <1>3, <1>5, <1>7, <1>8, <1>9

(* The end of a process only takes copies and locks away.                  *)
LEMMA DieStep ==
    ASSUME IndInv, NEW w \in Workers, Die(w), job' = job
    PROVE  /\ claimed' \in [Workers -> SUBSET IngestionJob]
           /\ locks' \in [Workers -> SUBSET Docs]
           /\ LockedRowsPending' /\ BatchInLoop' /\ HolderOwnsRow' /\ ExclusiveClaim'
           /\ DeadLetterIffExhausted'
<1>1. TypeOK
  BY DEF IndInv
<1>2. \A v \in Workers :
        /\ v # w => /\ claimed'[v] = claimed[v] /\ locks'[v] = locks[v]
                    /\ pc'[v] = pc[v] /\ current'[v] = current[v]
        /\ v = w => claimed'[v] = {} /\ locks'[v] = {} /\ pc'[v] = "down"
  BY <1>1, DieShape DEF TypeOK
<1>3. claimed' \in [Workers -> SUBSET IngestionJob] /\ locks' \in [Workers -> SUBSET Docs]
  BY <1>1, DieShape DEF TypeOK
<1>4. LockedRowsPending'
  <2>1. \A v \in Workers :
          /\ locks'[v] # {} => pc'[v] = "claiming"
          /\ \A d \in locks'[v] : job'[d].status = "pending"
    BY <1>2 DEF IndInv, LockedRowsPending
  <2>2. \A u, v \in Workers : u # v => locks'[u] \cap locks'[v] = {}
    BY <1>2 DEF IndInv, LockedRowsPending
  <2> QED
    BY <2>1, <2>2 DEF LockedRowsPending
<1>5. BatchInLoop'
  BY <1>1, <1>2, DieShape DEF IndInv, BatchInLoop, TypeOK
<1>6. HolderOwnsRow'
  <2> SUFFICES ASSUME NEW v \in Workers, NEW i \in claimed'[v]
               PROVE  /\ job'[i.doc].attempts = i.attempts
                      /\ \/ job'[i.doc].status = "processing" /\ job'[i.doc].lockedBy = v
                         \/ job'[i.doc].status = "completed" /\ pc'[v] = "failing" /\ current'[v] = i
    BY DEF HolderOwnsRow
  <2>1. v # w /\ i \in claimed[v]
    BY <1>2
  <2> QED
    BY <1>2, <2>1 DEF IndInv, HolderOwnsRow
<1>7. ExclusiveClaim'
  <2>1. \A v \in Workers : \A i \in claimed'[v] : i \in claimed[v]
    BY <1>2
  <2> QED
    BY <2>1 DEF IndInv, ExclusiveClaim
<1>8. DeadLetterIffExhausted'
  BY DEF IndInv, DeadLetterIffExhausted
<1> QED
  BY <1>3, <1>4, <1>5, <1>6, <1>7, <1>8

(* What the commit of a dequeue does to the table: its locked rows become  *)
(* PROCESSING with their attempts as they were; no row somebody holds, or  *)
(* another dequeue has locked, is touched.                                 *)
LEMMA ClaimedRowsShape ==
    ASSUME IndInv, NEW w \in Workers, pc[w] = "claiming", job' = ClaimedRows(w)
    PROVE  /\ job' \in [Docs -> JobRow]
           /\ \A d \in locks[w] : d \in Docs
           /\ \A d \in locks[w] : job'[d].status = "processing" /\ job'[d].lockedBy = w
           /\ \A d \in locks[w] : job'[d].attempts = job[d].attempts
           /\ \A d \in Docs \ locks[w] : job'[d] = job[d]
           /\ \A v \in Workers : \A i \in claimed[v] :
                 i.doc \in Docs \ locks[w] /\ job'[i.doc] = job[i.doc]
           /\ DeadLetterIffExhausted'
<1>1. TypeOK /\ locks[w] \subseteq Docs
  BY DEF IndInv, TypeOK
<1>2. ASSUME NEW d \in locks[w]
      PROVE  /\ job'[d] \in JobRow
             /\ job'[d].status = "processing" /\ job'[d].lockedBy = w
             /\ job'[d].attempts = job[d].attempts
  <2> DEFINE old == job[d]
             new == job'[d]
  <2>1. old \in JobRow /\ d \in Docs
    BY <1>1 DEF TypeOK
  <2>2. new = [old EXCEPT !.status = "processing", !.lockedBy = w]
    BY <2>1 DEF ClaimedRows
  <2> HIDE DEF old, new
  <2>3. new = [status |-> "processing", attempts |-> old.attempts,
               availableAt |-> old.availableAt, lockedBy |-> w]
    BY <2>1, <2>2 DEF JobRow
  <2>4. /\ new \in JobRow /\ new.status = "processing" /\ new.lockedBy = w
        /\ new.attempts = old.attempts
    BY <2>1, <2>3 DEF JobRow, JobStatus
  <2> QED
    BY <2>4 DEF old, new
<1>3. \A d \in Docs \ locks[w] : job'[d] = job[d]
  BY DEF ClaimedRows
<1>4. \A d \in Docs : job'[d] \in JobRow
  <2> TAKE d \in Docs
  <2>1. job[d] \in JobRow
    BY <1>1 DEF TypeOK
  <2>2. CASE d \in locks[w]
    BY <1>2, <2>2
  <2>3. CASE d \notin locks[w]
    BY <1>3, <2>1, <2>3
  <2> QED
    BY <2>2, <2>3
<1>5. job' \in [Docs -> JobRow]
  BY <1>4 DEF ClaimedRows
<1>6. \A v \in Workers : \A i \in claimed[v] : i.doc \in Docs \ locks[w]
  <2> TAKE v \in Workers
  <2> TAKE i \in claimed[v]
  <2>1. i.doc \in Docs
    BY <1>1 DEF TypeOK, IngestionJob
  <2>2. job[i.doc].status # "pending"
    BY HeldNotExhausted
  <2>3. \A d \in locks[w] : job[d].status = "pending"
    BY DEF IndInv, LockedRowsPending
  <2> QED
    BY <2>1, <2>2, <2>3
<1>7. DeadLetterIffExhausted'
  <2> SUFFICES ASSUME NEW d \in Docs
               PROVE  /\ job'[d].status = "dead_letter" <=> job'[d].attempts = MaxAttempts
                      /\ job'[d].lockedBy # NoWorker <=> job'[d].status = "processing"
    BY DEF DeadLetterIffExhausted
  <2>1. CASE d \in locks[w]
    <3>1. job[d].status = "pending"
      BY <2>1 DEF IndInv, LockedRowsPending
    <3>2. job[d].attempts # MaxAttempts
      BY <3>1 DEF IndInv, DeadLetterIffExhausted
    <3> QED
      BY <1>2, <2>1, <3>2, QueueAssumption
  <2>2. CASE d \notin locks[w]
    BY <1>3, <2>2 DEF IndInv, DeadLetterIffExhausted
  <2> QED
    BY <2>1, <2>2
<1> QED
  BY <1>1, <1>2, <1>3, <1>5, <1>6, <1>7

(* A claim hands over copies of rows nobody held. *)
LEMMA ClaimStep ==
    ASSUME IndInv, NEW w \in Workers, DequeueCommit(w)
    PROVE  IndInv'
<1>1. TypeOK /\ pc[w] = "claiming" /\ job' = ClaimedRows(w)
  BY DEF IndInv, DequeueCommit
<1>2. Copies(w) \in SUBSET IngestionJob
  BY <1>1 DEF Copies, IngestionJob, TypeOK, JobRow
<1>3. Advance(w, Copies(w)) /\ locks' = [locks EXCEPT ![w] = {}]
  BY DEF DequeueCommit
<1>4. /\ claimed' = [claimed EXCEPT ![w] = Copies(w)]
      /\ pc' \in [Workers -> LoopStates]
      /\ current' \in [Workers -> IngestionJob \cup {NoJob}]
      /\ \A v \in Workers : v # w => pc'[v] = pc[v] /\ current'[v] = current[v]
      /\ Copies(w) = {} => pc'[w] = "polling"
      /\ Copies(w) # {} => pc'[w] = "handling" /\ current'[w] \in Copies(w)
  BY <1>1, <1>2, <1>3, AdvanceShape
<1>5. /\ \A v \in Workers : v # w => claimed'[v] = claimed[v] /\ locks'[v] = locks[v]
      /\ claimed'[w] = Copies(w) /\ locks'[w] = {}
  BY <1>1, <1>3, <1>4 DEF TypeOK
<1>6. TypeOK'
  BY <1>1, <1>2, <1>3, <1>4, ClaimedRowsShape DEF TypeOK, DequeueCommit, budget
<1>7. LockedRowsPending'
  <2> SUFFICES ASSUME NEW v \in Workers
               PROVE  /\ locks'[v] # {} => pc'[v] = "claiming"
                      /\ \A d \in locks'[v] : job'[d].status = "pending"
                      /\ \A u \in Workers : u # v => locks'[u] \cap locks'[v] = {}
    BY DEF LockedRowsPending
  <2>1. CASE v = w
    BY <1>5, <2>1
  <2>2. CASE v # w
    <3>1. \A d \in locks[v] : d \in Docs \ locks[w]
      BY <1>1, <2>2 DEF IndInv, TypeOK, LockedRowsPending
    <3>2. \A d \in locks[v] : job'[d] = job[d]
      BY <1>1, <3>1, ClaimedRowsShape
    <3> QED
      BY <1>4, <1>5, <2>2, <3>2 DEF IndInv, LockedRowsPending
  <2> QED
    BY <2>1, <2>2
<1>8. BatchInLoop'
  BY <1>4, <1>5 DEF IndInv, BatchInLoop
<1>9. \A i \in Copies(w) : i.doc \in locks[w] /\ i.attempts = job[i.doc].attempts
  BY DEF Copies
<1>10. HolderOwnsRow'
  <2> SUFFICES ASSUME NEW v \in Workers, NEW i \in claimed'[v]
               PROVE  /\ job'[i.doc].attempts = i.attempts
                      /\ \/ job'[i.doc].status = "processing" /\ job'[i.doc].lockedBy = v
                         \/ job'[i.doc].status = "completed" /\ pc'[v] = "failing" /\ current'[v] = i
    BY DEF HolderOwnsRow
  <2>1. CASE v = w
    BY <1>1, <1>5, <1>9, <2>1, ClaimedRowsShape
  <2>2. CASE v # w
    <3>1. i \in claimed[v]
      BY <1>5, <2>2
    <3>2. job'[i.doc] = job[i.doc]
      BY <1>1, <3>1, ClaimedRowsShape
    <3> QED
      BY <1>4, <2>2, <3>1, <3>2 DEF IndInv, HolderOwnsRow
  <2> QED
    BY <2>1, <2>2
<1>11. ExclusiveClaim'
  <2> SUFFICES ASSUME NEW u \in Workers, NEW v \in Workers,
                      NEW i \in claimed'[u], NEW j \in claimed'[v], i.doc = j.doc
               PROVE  u = v /\ i = j
    BY DEF ExclusiveClaim
  <2>1. CASE u # w /\ v # w
    BY <1>5, <2>1 DEF IndInv, ExclusiveClaim
  <2>2. CASE u = w /\ v = w
    BY <1>5, <2>2 DEF Copies
  <2>3. CASE u = w /\ v # w
    <3>1. i.doc \in locks[w] /\ j \in claimed[v]
      BY <1>5, <1>9, <2>3
    <3>2. j.doc \notin locks[w]
      BY <1>1, <3>1, ClaimedRowsShape
    <3> QED
      BY <3>1, <3>2
  <2>4. CASE u # w /\ v = w
    <3>1. j.doc \in locks[w] /\ i \in claimed[u]
      BY <1>5, <1>9, <2>4
    <3>2. i.doc \notin locks[w]
      BY <1>1, <3>1, ClaimedRowsShape
    <3> QED
      BY <3>1, <3>2
  <2> QED
    BY <2>1, <2>2, <2>3, <2>4
<1> QED
  BY <1>1, <1>6, <1>7, <1>8, <1>10, <1>11, ClaimedRowsShape DEF IndInv

(* The same claim on behalf of a process that ends before it hears of it.  *)
LEMMA LostClaimStep ==
    ASSUME IndInv, NEW w \in Workers, DequeueRaises(w)
    PROVE  IndInv'
<1>1. TypeOK /\ Die(w)
  BY DEF IndInv, DequeueRaises
<1>2. TypeOK' \/ job' \notin [Docs -> JobRow]
  BY <1>1, DieShape, QueueAssumption DEF DequeueRaises, TypeOK, LoopStates
<1>3. CASE UNCHANGED job
  BY <1>1, <1>2, <1>3, DieStep DEF IndInv, TypeOK
<1>4. CASE pc[w] = "claiming" /\ job' = ClaimedRows(w)
  <2>1. \A v \in Workers :
          /\ v # w => /\ claimed'[v] = claimed[v] /\ locks'[v] = locks[v]
                      /\ pc'[v] = pc[v] /\ current'[v] = current[v]
          /\ v = w => claimed'[v] = {} /\ locks'[v] = {} /\ pc'[v] = "down"
    BY <1>1, DieShape DEF TypeOK
  <2>2. LockedRowsPending'
    <3> SUFFICES ASSUME NEW v \in Workers
                 PROVE  /\ locks'[v] # {} => pc'[v] = "claiming"
                        /\ \A d \in locks'[v] : job'[d].status = "pending"
                        /\ \A u \in Workers : u # v => locks'[u] \cap locks'[v] = {}
      BY DEF LockedRowsPending
    <3>1. CASE v = w
      BY <2>1, <3>1
    <3>2. CASE v # w
      <4>1. \A d \in locks[v] : d \in Docs \ locks[w]
        BY <3>2 DEF IndInv, TypeOK, LockedRowsPending
      <4>2. \A d \in locks[v] : job'[d] = job[d]
        BY <1>4, <4>1, ClaimedRowsShape
      <4>3. \A u \in Workers : locks'[u] \subseteq locks[u]
        BY <2>1
      <4> QED
        BY <2>1, <3>2, <4>2, <4>3 DEF IndInv, LockedRowsPending
    <3> QED
      BY <3>1, <3>2
  <2>3. BatchInLoop'
    BY <2>1 DEF IndInv, BatchInLoop
  <2>4. HolderOwnsRow'
    <3> SUFFICES ASSUME NEW v \in Workers, NEW i \in claimed'[v]
                 PROVE  /\ job'[i.doc].attempts = i.attempts
                        /\ \/ job'[i.doc].status = "processing" /\ job'[i.doc].lockedBy = v
                           \/ job'[i.doc].status = "completed" /\ pc'[v] = "failing" /\ current'[v] = i
      BY DEF HolderOwnsRow
    <3>1. v # w /\ i \in claimed[v]
      BY <2>1
    <3>2. job'[i.doc] = job[i.doc]
      BY <1>4, <3>1, ClaimedRowsShape
    <3> QED
      BY <2>1, <3>1, <3>2 DEF IndInv, HolderOwnsRow
  <2>5. ExclusiveClaim'
    <3>1. \A v \in Workers : \A i \in claimed'[v] : i \in claimed[v]
      BY <2>1
    <3> QED
      BY <3>1 DEF IndInv, ExclusiveClaim
  <2> QED
    BY <1>2, <1>4, <2>2, <2>3, <2>4, <2>5, ClaimedRowsShape DEF IndInv
<1> QED
  BY <1>3, <1>4 DEF DequeueRaises

(* The job in hand is one the worker holds, and its row may be settled. *)
LEMMA CurrentHeld ==
    ASSUME IndInv, NEW w \in Workers, pc[w] \in {"completing", "failing"}
    PROVE  /\ current[w] \in claimed[w] /\ current[w] \in IngestionJob
           /\ current[w].doc \in Docs
           /\ CompletedRow(job[current[w].doc]) \in JobRow
           /\ CompletedRow(job[current[w].doc]).status = "completed"
           /\ CompletedRow(job[current[w].doc]).attempts = current[w].attempts
           /\ CompletedRow(job[current[w].doc]).attempts # MaxAttempts
           /\ CompletedRow(job[current[w].doc]).lockedBy = NoWorker
           /\ FailedRow(job[current[w].doc], current[w]) \in JobRow
           /\ FailedRow(job[current[w].doc], current[w]).status \in {"pending", "dead_letter"}
           /\ FailedRow(job[current[w].doc], current[w]).status = "dead_letter" <=>
                 FailedRow(job[current[w].doc], current[w]).attempts = MaxAttempts
           /\ FailedRow(job[current[w].doc], current[w]).lockedBy = NoWorker
<1> DEFINE j == current[w]
           row == job[j.doc]
           done == CompletedRow(row)
<1>1. j \in claimed[w]
  BY DEF IndInv, BatchInLoop
<1>2. /\ j \in IngestionJob /\ row \in JobRow
      /\ j.attempts = row.attempts /\ j.attempts # MaxAttempts
  BY <1>1, HeldNotExhausted
<1>3. j.doc \in Docs
  BY <1>2 DEF IngestionJob
<1>4. done = [row EXCEPT !.status = "completed", !.lockedBy = NoWorker]
  BY DEF CompletedRow
<1> HIDE DEF row, done
<1>5. done = [status |-> "completed", attempts |-> row.attempts,
              availableAt |-> row.availableAt, lockedBy |-> NoWorker]
  BY <1>2, <1>4 DEF JobRow
<1>6. /\ done \in JobRow /\ done.status = "completed" /\ done.lockedBy = NoWorker
      /\ done.attempts = row.attempts
  BY <1>2, <1>5 DEF JobRow, JobStatus
<1>7. /\ FailedRow(row, j) \in JobRow
      /\ FailedRow(row, j).status \in {"pending", "dead_letter"}
      /\ FailedRow(row, j).status = "dead_letter" <=>
            FailedRow(row, j).attempts = MaxAttempts
      /\ FailedRow(row, j).lockedBy = NoWorker
  BY <1>2, FailedRowShape DEF IndInv
<1> QED
  BY <1>1, <1>2, <1>3, <1>6, <1>7 DEF row, done

(* Enqueue adds a PENDING row, and only where there is none.               *)
LEMMA EnqueueStep ==
    ASSUME IndInv, NEW e \in Docs, Enqueue(e)
    PROVE  IndInv'
<1> DEFINE old == job[e]
           new == EnqueuedRow(old)
<1>1. TypeOK /\ old \in JobRow /\ now \in Nat
  BY DEF IndInv, TypeOK
<1>2. job' = [job EXCEPT ![e] = new]
  BY DEF Enqueue
<1>3. CASE old.status # "absent"
  <2>1. new = old
    BY <1>3 DEF EnqueuedRow
  <2>2. job' = job
    BY <1>1, <1>2, <2>1 DEF TypeOK
  <2> QED
    BY <2>2 DEF Enqueue, budget, IndInv, TypeOK, LockedRowsPending, BatchInLoop,
                HolderOwnsRow, ExclusiveClaim, DeadLetterIffExhausted
<1>4. CASE old.status = "absent"
  <2>1. new = [old EXCEPT !.status = "pending", !.availableAt = now]
    BY <1>4 DEF EnqueuedRow
  <2>2. old.attempts # MaxAttempts /\ old.lockedBy = NoWorker
    BY <1>4 DEF IndInv, DeadLetterIffExhausted
  <2>3. /\ \A w \in Workers : e \notin locks[w]
        /\ \A w \in Workers : \A j \in claimed[w] : j.doc # e /\ j.doc \in Docs
    BY <1>1, <1>4, HeldNotExhausted DEF IndInv, LockedRowsPending, IngestionJob
  <2> HIDE DEF old, new
  <2>4. new = [status |-> "pending", attempts |-> old.attempts,
               availableAt |-> now, lockedBy |-> old.lockedBy]
    BY <1>1, <2>1 DEF JobRow
  <2>5. /\ new \in JobRow /\ new.status = "pending"
        /\ new.attempts # MaxAttempts /\ new.lockedBy = NoWorker
    BY <1>1, <2>2, <2>4 DEF JobRow, JobStatus
  <2>6. job' \in [Docs -> JobRow] /\ job'[e] = new /\ \A d \in Docs \ {e} : job'[d] = job[d]
    BY <1>1, <1>2, <2>5 DEF TypeOK
  <2>7. TypeOK'
    BY <1>1, <2>6 DEF TypeOK, Enqueue, budget
  <2>8. LockedRowsPending' /\ BatchInLoop'
    BY <1>1, <2>3, <2>6 DEF IndInv, TypeOK, LockedRowsPending, BatchInLoop, Enqueue
  <2>9. HolderOwnsRow' /\ ExclusiveClaim'
    BY <1>1, <2>3, <2>6 DEF IndInv, TypeOK, HolderOwnsRow, ExclusiveClaim, Enqueue
  <2>10. DeadLetterIffExhausted'
    BY <2>5, <2>6 DEF IndInv, DeadLetterIffExhausted
  <2> QED
    BY <2>7, <2>8, <2>9, <2>10 DEF IndInv
<1> QED
  BY <1>3, <1>4

(* Settle the job in hand and go on to the next one: the shape of          *)
(* CompleteCommits and FailRetries.                                        *)
LEMMA SettleAndAdvance ==
    ASSUME IndInv, NEW w \in Workers, pc[w] \in {"completing", "failing"},
           NEW row \in JobRow,
           row.status \in {"pending", "completed", "dead_letter"},
           row.status = "dead_letter" <=> row.attempts = MaxAttempts,
           row.lockedBy = NoWorker,
           job' = [job EXCEPT ![current[w].doc] = row],
           Advance(w, claimed[w] \ {current[w]}),
           UNCHANGED <<now, locks, stopping, kills, errors, stops>>
    PROVE  IndInv'
<1> DEFINE j == current[w]
           rest == claimed[w] \ {j}
<1>1. TypeOK /\ j \in claimed[w] /\ rest \in SUBSET IngestionJob
  BY CurrentHeld DEF IndInv, TypeOK
<1>2. /\ claimed' = [claimed EXCEPT ![w] = rest]
      /\ pc' \in [Workers -> LoopStates]
      /\ current' \in [Workers -> IngestionJob \cup {NoJob}]
      /\ \A v \in Workers : v # w => pc'[v] = pc[v] /\ current'[v] = current[v]
      /\ rest = {} => pc'[w] = "polling"
      /\ rest # {} => pc'[w] = "handling" /\ current'[w] \in rest
  BY <1>1, AdvanceShape
<1>3. /\ job' \in [Docs -> JobRow] /\ claimed' \in [Workers -> SUBSET IngestionJob]
      /\ LockedRowsPending' /\ HolderOwnsRow' /\ ExclusiveClaim' /\ DeadLetterIffExhausted'
  BY <1>1, <1>2, SettleStep
<1>4. TypeOK'
  BY <1>1, <1>2, <1>3 DEF TypeOK
<1>5. BatchInLoop'
  BY <1>1, <1>2 DEF TypeOK, IndInv, BatchInLoop
<1> QED
  BY <1>3, <1>4, <1>5 DEF IndInv

(* A worker's own steps preserve the invariant.                            *)
LEMMA LoopStepPreserves ==
    ASSUME IndInv, NEW w \in Workers, LoopStep(w)
    PROVE  IndInv'
<1> DEFINE j == current[w]
<1>0. TypeOK
  BY DEF IndInv
<1>1. CASE DequeueSelect(w)
  <2>1. PICK S \in SUBSET Claimable : locks' = [locks EXCEPT ![w] = S]
    BY <1>1 DEF DequeueSelect
  <2>2. S \subseteq Docs /\ \A d \in S : job[d].status = "pending"
    BY <2>1 DEF Claimable, Due
  <2>3. \A d \in S : \A v \in Workers : d \notin locks[v]
    BY <2>1 DEF Claimable
  <2>4. TypeOK'
    BY <1>0, <1>1, <2>1, <2>2 DEF DequeueSelect, TypeOK, LoopStates, budget
  <2>5. LockedRowsPending'
    BY <1>0, <1>1, <2>1, <2>2, <2>3 DEF DequeueSelect, TypeOK, IndInv, LockedRowsPending
  <2>6. BatchInLoop' /\ HolderOwnsRow' /\ ExclusiveClaim' /\ DeadLetterIffExhausted'
    BY <1>0, <1>1 DEF DequeueSelect, TypeOK, IndInv, BatchInLoop, HolderOwnsRow,
                      ExclusiveClaim, DeadLetterIffExhausted
  <2> QED
    BY <2>4, <2>5, <2>6 DEF IndInv
<1>2. CASE DequeueCommit(w)
  BY <1>2, ClaimStep
<1>3. CASE HandlerReturns(w) \/ HandlerRaises(w)
  <2>1. TypeOK'
    BY <1>0, <1>3 DEF HandlerReturns, HandlerRaises, TypeOK, LoopStates, budget
  <2>2. LockedRowsPending' /\ BatchInLoop'
    BY <1>0, <1>3 DEF HandlerReturns, HandlerRaises, TypeOK, IndInv, LockedRowsPending, BatchInLoop
  <2>3. HolderOwnsRow' /\ ExclusiveClaim' /\ DeadLetterIffExhausted'
    BY <1>0, <1>3 DEF HandlerReturns, HandlerRaises, TypeOK, IndInv, HolderOwnsRow,
                      ExclusiveClaim, DeadLetterIffExhausted
  <2> QED
    BY <2>1, <2>2, <2>3 DEF IndInv
<1>4. CASE CompleteCommits(w)
  BY <1>4, CurrentHeld, SettleAndAdvance DEF CompleteCommits, budget
<1>5. CASE CompleteRaises(w)
  <2> DEFINE row == CompletedRow(job[j.doc])
  <2>1. pc[w] = "completing" /\ pc' = [pc EXCEPT ![w] = "failing"]
    BY <1>5 DEF CompleteRaises
  <2>2. /\ j \in claimed[w] /\ j.doc \in Docs /\ row \in JobRow /\ row.status = "completed"
        /\ row.attempts = j.attempts /\ row.attempts # MaxAttempts /\ row.lockedBy = NoWorker
    BY <2>1, CurrentHeld
  <2>3. UNCHANGED <<now, locks, claimed, current, stopping, kills, errors, stops>>
    BY <1>5 DEF CompleteRaises, budget
  <2>4. CASE UNCHANGED job
    <3>1. TypeOK'
      BY <1>0, <2>1, <2>3, <2>4 DEF TypeOK, LoopStates
    <3>2. LockedRowsPending' /\ BatchInLoop'
      BY <1>0, <2>1, <2>3, <2>4 DEF TypeOK, IndInv, LockedRowsPending, BatchInLoop
    <3>3. HolderOwnsRow' /\ ExclusiveClaim' /\ DeadLetterIffExhausted'
      BY <1>0, <2>1, <2>3, <2>4 DEF TypeOK, IndInv, HolderOwnsRow, ExclusiveClaim,
                                   DeadLetterIffExhausted
    <3> QED
      BY <3>1, <3>2, <3>3 DEF IndInv
  <2>5. CASE job' = [job EXCEPT ![j.doc] = row]
    <3> HIDE DEF row
    <3>1. job' \in [Docs -> JobRow] /\ job'[j.doc] = row /\ \A d \in Docs \ {j.doc} : job'[d] = job[d]
      BY <1>0, <2>2, <2>5 DEF TypeOK
    <3>2. TypeOK'
      BY <1>0, <2>1, <2>3, <3>1 DEF TypeOK, LoopStates
    <3>3. BatchInLoop'
      BY <1>0, <2>1, <2>3 DEF TypeOK, IndInv, BatchInLoop
    <3>4. LockedRowsPending'
      <4>1. job[j.doc].status # "pending"
        BY <2>2, HeldNotExhausted
      <4>2. \A v \in Workers : \A d \in locks[v] : d \in Docs \ {j.doc}
        BY <1>0, <4>1 DEF TypeOK, IndInv, LockedRowsPending
      <4> QED
        BY <1>0, <2>1, <2>3, <3>1, <4>2 DEF TypeOK, IndInv, LockedRowsPending
    <3>5. HolderOwnsRow'
      <4> SUFFICES ASSUME NEW v \in Workers, NEW i \in claimed[v]
                   PROVE  /\ job'[i.doc].attempts = i.attempts
                          /\ \/ job'[i.doc].status = "processing" /\ job'[i.doc].lockedBy = v
                             \/ job'[i.doc].status = "completed" /\ pc'[v] = "failing" /\ current'[v] = i
        BY <2>3 DEF HolderOwnsRow
      <4>1. CASE <<v, i>> = <<w, j>>
        BY <1>0, <2>1, <2>2, <2>3, <3>1, <4>1 DEF TypeOK
      <4>2. CASE <<v, i>> # <<w, j>>
        <5>1. i.doc \in Docs \ {j.doc}
          BY <1>0, <2>2, <4>2 DEF TypeOK, IndInv, ExclusiveClaim, IngestionJob
        <5>2. job'[i.doc] = job[i.doc] /\ current' = current
          BY <2>3, <3>1, <5>1
        <5>3. v # w => pc'[v] = pc[v]
          BY <1>0, <2>1 DEF TypeOK
        <5>4. v = w => job[i.doc].status = "processing" /\ job[i.doc].lockedBy = v
          BY <2>1, <4>2 DEF IndInv, HolderOwnsRow
        <5> QED
          BY <5>2, <5>3, <5>4 DEF IndInv, HolderOwnsRow
      <4> QED
        BY <4>1, <4>2
    <3>6. ExclusiveClaim'
      BY <2>3 DEF IndInv, ExclusiveClaim
    <3>7. DeadLetterIffExhausted'
      BY <2>2, <3>1 DEF IndInv, DeadLetterIffExhausted
    <3> QED
      BY <3>2, <3>3, <3>4, <3>5, <3>6, <3>7 DEF IndInv
  <2> QED
    BY <1>5, <2>4, <2>5 DEF CompleteRaises
<1>6. CASE FailRetries(w)
  <2>1. FailedRow(job[j.doc], j).status \in {"pending", "completed", "dead_letter"}
    BY <1>6, CurrentHeld DEF FailRetries
  <2> QED
    BY <1>6, <2>1, CurrentHeld, SettleAndAdvance DEF FailRetries, FailUpdate, budget
<1>7. CASE FailDeadLetters(w)
  <2> DEFINE row == FailedRow(job[j.doc], j)
             rest == claimed[w] \ {j}
  <2>1. /\ pc[w] = "failing" /\ pc' = [pc EXCEPT ![w] = "marking"]
        /\ job' = [job EXCEPT ![j.doc] = row]
        /\ claimed' = [claimed EXCEPT ![w] = rest]
        /\ UNCHANGED <<now, locks, current, stopping, kills, errors, stops>>
    BY <1>7 DEF FailDeadLetters, FailUpdate, budget
  <2>2. /\ j \in claimed[w] /\ row \in JobRow /\ row.lockedBy = NoWorker
        /\ row.status \in {"pending", "completed", "dead_letter"}
        /\ row.status = "dead_letter" <=> row.attempts = MaxAttempts
    BY <2>1, CurrentHeld
  <2>3. \A v \in Workers : v # w => pc'[v] = pc[v] /\ current'[v] = current[v]
    BY <1>0, <2>1 DEF TypeOK
  <2> HIDE DEF row
  <2>4. /\ job' \in [Docs -> JobRow] /\ claimed' \in [Workers -> SUBSET IngestionJob]
        /\ LockedRowsPending' /\ HolderOwnsRow' /\ ExclusiveClaim' /\ DeadLetterIffExhausted'
    BY <2>1, <2>2, <2>3, SettleStep
  <2>5. TypeOK'
    BY <1>0, <2>1, <2>4 DEF TypeOK, LoopStates
  <2>6. BatchInLoop'
    BY <1>0, <2>1 DEF TypeOK, IndInv, BatchInLoop
  <2> QED
    BY <2>4, <2>5, <2>6 DEF IndInv
<1>8. CASE MarkFailedDone(w)
  <2>1. Advance(w, claimed[w]) /\ claimed[w] \in SUBSET IngestionJob /\ pc[w] = "marking"
    BY <1>0, <1>8 DEF MarkFailedDone, TypeOK
  <2>2. /\ claimed' = [claimed EXCEPT ![w] = claimed[w]]
        /\ pc' \in [Workers -> LoopStates]
        /\ current' \in [Workers -> IngestionJob \cup {NoJob}]
        /\ \A v \in Workers : v # w => pc'[v] = pc[v] /\ current'[v] = current[v]
        /\ claimed[w] = {} => pc'[w] = "polling"
        /\ claimed[w] # {} => pc'[w] = "handling" /\ current'[w] \in claimed[w]
    BY <1>0, <2>1, AdvanceShape
  <2>3. claimed' = claimed
    BY <1>0, <2>2 DEF TypeOK
  <2>4. TypeOK'
    BY <1>0, <1>8, <2>2, <2>3 DEF MarkFailedDone, TypeOK, budget
  <2>5. LockedRowsPending' /\ BatchInLoop'
    BY <1>8, <2>1, <2>2, <2>3 DEF MarkFailedDone, IndInv, LockedRowsPending, BatchInLoop
  <2>6. HolderOwnsRow' /\ ExclusiveClaim' /\ DeadLetterIffExhausted'
    BY <1>8, <2>1, <2>2, <2>3 DEF MarkFailedDone, IndInv, HolderOwnsRow, ExclusiveClaim,
                                 DeadLetterIffExhausted
  <2> QED
    BY <2>4, <2>5, <2>6 DEF IndInv
<1>9. CASE LeaveLoop(w)
  <2>1. TypeOK'
    BY <1>0, <1>9 DEF LeaveLoop, TypeOK, LoopStates, budget
  <2>2. LockedRowsPending' /\ BatchInLoop'
    BY <1>0, <1>9 DEF LeaveLoop, TypeOK, IndInv, LockedRowsPending, BatchInLoop
  <2>3. HolderOwnsRow' /\ ExclusiveClaim' /\ DeadLetterIffExhausted'
    BY <1>0, <1>9 DEF LeaveLoop, TypeOK, IndInv, HolderOwnsRow, ExclusiveClaim,
                      DeadLetterIffExhausted
  <2> QED
    BY <2>1, <2>2, <2>3 DEF IndInv
<1> QED
  BY <1>1, <1>2, <1>3, <1>4, <1>5, <1>6, <1>7, <1>8, <1>9 DEF LoopStep

(* The end of a process while it reports a failure, applied or not. *)
LEMMA FailRaisesStep ==
    ASSUME IndInv, NEW w \in Workers, FailRaises(w)
    PROVE  IndInv'
<1> DEFINE j == current[w]
           row == FailedRow(job[j.doc], j)
<1>1. TypeOK /\ Die(w) /\ pc[w] = "failing"
  BY DEF IndInv, FailRaises
<1>2. /\ j \in claimed[w] /\ row \in JobRow /\ row.lockedBy = NoWorker
      /\ row.status \in {"pending", "completed", "dead_letter"}
      /\ row.status = "dead_letter" <=> row.attempts = MaxAttempts
  BY <1>1, CurrentHeld
<1>3. job' \in [Docs -> JobRow] => TypeOK'
  BY <1>1, DieShape, QueueAssumption DEF FailRaises, TypeOK, LoopStates
<1>4. CASE UNCHANGED job
  BY <1>1, <1>3, <1>4, DieStep DEF IndInv, TypeOK
<1>5. CASE job' = [job EXCEPT ![j.doc] = row]
  <2> HIDE DEF row
  <2>1. locks' = locks
    <3>1. locks[w] = {}
      BY <1>1 DEF IndInv, LockedRowsPending
    <3>2. locks' = [locks EXCEPT ![w] = {}]
      BY <1>1, DieShape
    <3> QED
      BY <1>1, <3>1, <3>2 DEF TypeOK
  <2>2. claimed' = [claimed EXCEPT ![w] = {}] /\ {} \in SUBSET (claimed[w] \ {j})
    BY <1>1, DieShape
  <2>3. \A v \in Workers : v # w => pc'[v] = pc[v] /\ current'[v] = current[v]
    BY <1>1, DieShape DEF TypeOK
  <2>4. /\ job' \in [Docs -> JobRow]
        /\ LockedRowsPending' /\ HolderOwnsRow' /\ ExclusiveClaim' /\ DeadLetterIffExhausted'
    BY <1>1, <1>2, <1>5, <2>1, <2>2, <2>3, SettleStep
  <2>5. BatchInLoop'
    BY <1>1, <2>2, <2>3, DieShape DEF TypeOK, IndInv, BatchInLoop
  <2> QED
    BY <1>3, <2>4, <2>5 DEF IndInv
<1> QED
  BY <1>4, <1>5 DEF FailRaises, FailUpdate

(* The invariant is inductive: one case per action of Next.                *)
LEMMA IndInvStep == IndInv /\ [Next]_queueVars => IndInv'
<1> SUFFICES ASSUME IndInv, [Next]_queueVars
             PROVE  IndInv'
  OBVIOUS
<1>0. TypeOK
  BY DEF IndInv
<1>1. CASE UNCHANGED queueVars
  BY <1>1 DEF queueVars, IndInv, TypeOK, LockedRowsPending, BatchInLoop, HolderOwnsRow,
              ExclusiveClaim, DeadLetterIffExhausted
<1>2. ASSUME NEW d \in Docs, Enqueue(d) PROVE IndInv'
  BY <1>2, EnqueueStep
<1>3. ASSUME NEW w \in Workers, LoopStep(w) PROVE IndInv'
  BY <1>3, LoopStepPreserves
<1>4. ASSUME NEW w \in Workers, DequeueRaises(w) PROVE IndInv'
  BY <1>4, LostClaimStep
<1>5. ASSUME NEW w \in Workers, FailRaises(w) PROVE IndInv'
  BY <1>5, FailRaisesStep
<1>6. ASSUME NEW w \in Workers, RequestStop(w) PROVE IndInv'
  <2>1. TypeOK'
    BY <1>0, <1>6, QueueAssumption DEF RequestStop, TypeOK
  <2> QED
    BY <1>6, <2>1 DEF RequestStop, IndInv, LockedRowsPending, BatchInLoop, HolderOwnsRow,
                      ExclusiveClaim, DeadLetterIffExhausted
<1>7. ASSUME NEW w \in Workers, Kill(w) PROVE IndInv'
  <2>1. Die(w) /\ job' = job
    BY <1>7 DEF Kill
  <2>2. kills' \in 0..MaxKills /\ UNCHANGED <<now, errors, stops>>
    BY <1>0, <1>7, QueueAssumption DEF Kill, TypeOK
  <2>3. /\ pc' \in [Workers -> LoopStates]
        /\ current' \in [Workers -> IngestionJob \cup {NoJob}]
        /\ stopping' \in [Workers -> BOOLEAN]
        /\ claimed' \in [Workers -> SUBSET IngestionJob]
        /\ locks' \in [Workers -> SUBSET Docs]
    BY <1>0, <2>1, DieShape, DieStep DEF TypeOK, LoopStates
  <2>4. TypeOK'
    BY <1>0, <2>1, <2>2, <2>3 DEF TypeOK
  <2> QED
    BY <2>1, <2>4, DieStep DEF IndInv
<1>8. ASSUME NEW w \in Workers, Restart(w) PROVE IndInv'
  <2>1. TypeOK'
    BY <1>0, <1>8 DEF Restart, TypeOK, LoopStates, budget
  <2>2. LockedRowsPending' /\ BatchInLoop'
    BY <1>0, <1>8 DEF Restart, TypeOK, IndInv, LockedRowsPending, BatchInLoop
  <2>3. HolderOwnsRow' /\ ExclusiveClaim' /\ DeadLetterIffExhausted'
    BY <1>0, <1>8 DEF Restart, TypeOK, IndInv, HolderOwnsRow, ExclusiveClaim,
                      DeadLetterIffExhausted
  <2> QED
    BY <2>1, <2>2, <2>3 DEF IndInv
<1>9. CASE Tick
  <2>1. TypeOK'
    BY <1>0, <1>9 DEF Tick, TypeOK, budget
  <2> QED
    BY <1>9, <2>1 DEF Tick, IndInv, LockedRowsPending, BatchInLoop, HolderOwnsRow,
                      ExclusiveClaim, DeadLetterIffExhausted
<1> QED
  BY <1>1, <1>2, <1>3, <1>4, <1>5, <1>6, <1>7, <1>8, <1>9 DEF Next

(* So it holds in every state the queue can reach.                         *)
LEMMA IndInvHolds == QueueSpec => []IndInv
  BY IndInvInit, IndInvStep, PTL DEF QueueSpec

-----------------------------------------------------------------------------
(* Every PROCESSING row has its holder. *)
RowsHaveHolders ==
    \A d \in Docs : job[d].status = "processing" =>
        \E w \in Workers : job[d].lockedBy = w /\ \E j \in claimed[w] : j.doc = d

(* The holder is in its loop, because that is the only place where a       *)
(* worker holds anything.                                                  *)
LEMMA HoldersAreInLoop ==
    ASSUME IndInv, kills + errors = 0 => RowsHaveHolders
    PROVE  NoStrandedRow
  BY DEF IndInv, BatchInLoop, RowsHaveHolders, NoStrandedRow

(* Settling a job that is held leaves every other row with its holder. *)
LEMMA SettleKeepsHolders ==
    ASSUME IndInv, RowsHaveHolders, NEW w \in Workers, NEW j \in claimed[w],
           NEW row \in JobRow, row.status # "processing",
           job' = [job EXCEPT ![j.doc] = row],
           claimed' = [claimed EXCEPT ![w] = claimed[w] \ {j}]
    PROVE  RowsHaveHolders'
<1>1. TypeOK /\ j.doc \in Docs
  BY DEF IndInv, TypeOK, IngestionJob
<1> SUFFICES ASSUME NEW d \in Docs, job'[d].status = "processing"
             PROVE  \E v \in Workers : job'[d].lockedBy = v /\ \E i \in claimed'[v] : i.doc = d
  BY DEF RowsHaveHolders
<1>2. d # j.doc /\ job'[d] = job[d]
  BY <1>1 DEF TypeOK
<1>3. PICK v \in Workers : job[d].lockedBy = v /\ \E i \in claimed[v] : i.doc = d
  BY <1>2 DEF RowsHaveHolders
<1>4. PICK i \in claimed[v] : i.doc = d
  BY <1>3
<1>5. i \in claimed'[v]
  BY <1>1, <1>2, <1>4 DEF TypeOK
<1> QED
  BY <1>2, <1>3, <1>4, <1>5

(* No step of a queue in which nobody dies leaves a PROCESSING row without *)
(* the worker that holds its copy: a stop waits for the end of a batch.    *)
LEMMA RowsHaveHoldersStep ==
    ASSUME IndInv, RowsHaveHolders, [Next]_queueVars, UNCHANGED <<kills, errors>>
    PROVE  RowsHaveHolders'
<1>0. TypeOK
  BY DEF IndInv
<1>1. ASSUME UNCHANGED <<job, claimed>> PROVE RowsHaveHolders'
  BY <1>1 DEF RowsHaveHolders
<1>2. ASSUME NEW e \in Docs, Enqueue(e) PROVE RowsHaveHolders'
  <2>1. \A d \in Docs : job'[d].status = "processing" => job'[d] = job[d]
    <3> TAKE d \in Docs
    <3>1. CASE d # e
      BY <1>0, <1>2, <3>1 DEF TypeOK, Enqueue
    <3>2. CASE d = e
      <4> DEFINE old == job[d]
      <4>1. old \in JobRow /\ job'[d] = EnqueuedRow(old)
        BY <1>0, <1>2, <3>2 DEF TypeOK, Enqueue
      <4>2. CASE old.status = "absent"
        <5>1. EnqueuedRow(old) = [old EXCEPT !.status = "pending", !.availableAt = now]
          BY <4>2 DEF EnqueuedRow
        <5> HIDE DEF old
        <5>2. EnqueuedRow(old).status = "pending"
          BY <4>1, <5>1 DEF JobRow
        <5> QED
          BY <4>1, <5>2
      <4>3. CASE old.status # "absent"
        BY <4>1, <4>3 DEF EnqueuedRow
      <4> QED
        BY <4>2, <4>3
    <3> QED
      BY <3>1, <3>2
  <2> QED
    BY <1>2, <2>1 DEF Enqueue, RowsHaveHolders
<1>3. ASSUME NEW w \in Workers, DequeueCommit(w) PROVE RowsHaveHolders'
  <2>1. /\ pc[w] = "claiming" /\ job' = ClaimedRows(w) /\ locks[w] \subseteq Docs
        /\ Advance(w, Copies(w)) /\ claimed' = [claimed EXCEPT ![w] = Copies(w)]
    BY <1>0, <1>3 DEF DequeueCommit, Advance, TypeOK
  <2>2. claimed[w] = {}
    BY <2>1 DEF IndInv, BatchInLoop
  <2> SUFFICES ASSUME NEW d \in Docs, job'[d].status = "processing"
               PROVE  \E v \in Workers : job'[d].lockedBy = v /\ \E i \in claimed'[v] : i.doc = d
    BY DEF RowsHaveHolders
  <2>3. CASE d \in locks[w]
    <3>1. job'[d].lockedBy = w
      BY <2>1, <2>3, ClaimedRowsShape
    <3>2. claimed'[w] = Copies(w)
      BY <1>0, <2>1 DEF TypeOK
    <3>3. [doc |-> d, attempts |-> job[d].attempts] \in claimed'[w]
      BY <2>3, <3>2 DEF Copies
    <3> QED
      BY <3>1, <3>3
  <2>4. CASE d \notin locks[w]
    <3>1. job'[d] = job[d]
      BY <2>1, <2>4, ClaimedRowsShape
    <3>2. PICK v \in Workers : job[d].lockedBy = v /\ \E i \in claimed[v] : i.doc = d
      BY <3>1 DEF RowsHaveHolders
    <3>3. v # w /\ claimed'[v] = claimed[v]
      BY <1>0, <2>1, <2>2, <3>2 DEF TypeOK
    <3> QED
      BY <3>1, <3>2, <3>3
  <2> QED
    BY <2>3, <2>4
<1>4. ASSUME NEW w \in Workers, CompleteCommits(w) PROVE RowsHaveHolders'
  BY <1>4, CurrentHeld, SettleKeepsHolders DEF CompleteCommits, Advance
<1>5. ASSUME NEW w \in Workers, FailRetries(w) \/ FailDeadLetters(w) PROVE RowsHaveHolders'
  <2>1. /\ pc[w] = "failing" /\ FailUpdate(w)
        /\ claimed' = [claimed EXCEPT ![w] = claimed[w] \ {current[w]}]
    BY <1>5 DEF FailRetries, FailDeadLetters, Advance
  <2> QED
    BY <2>1, CurrentHeld, SettleKeepsHolders DEF FailUpdate
<1>6. ASSUME NEW w \in Workers, CompleteRaises(w) PROVE RowsHaveHolders'
  <2>1. pc[w] = "completing" /\ claimed' = claimed
    BY <1>6 DEF CompleteRaises
  <2>2. CASE UNCHANGED job
    BY <1>1, <2>1, <2>2
  <2>3. CASE job' = [job EXCEPT ![current[w].doc] = CompletedRow(@)]
    <3>1. current[w].doc \in Docs /\ CompletedRow(job[current[w].doc]).status = "completed"
      BY <2>1, CurrentHeld
    <3>2. \A d \in Docs : job'[d].status = "processing" => job'[d] = job[d]
      BY <1>0, <2>3, <3>1 DEF TypeOK
    <3> QED
      BY <2>1, <3>2 DEF RowsHaveHolders
  <2> QED
    BY <1>6, <2>2, <2>3 DEF CompleteRaises
<1>7. ASSUME NEW w \in Workers, LoopStep(w) PROVE RowsHaveHolders'
  <2>1. CASE DequeueSelect(w) \/ HandlerReturns(w) \/ HandlerRaises(w) \/ LeaveLoop(w)
    BY <1>1, <2>1 DEF DequeueSelect, HandlerReturns, HandlerRaises, LeaveLoop
  <2>2. CASE MarkFailedDone(w)
    <3>1. job' = job /\ claimed' = claimed
      BY <1>0, <2>2 DEF MarkFailedDone, Advance, TypeOK
    <3> QED
      BY <1>1, <3>1
  <2> QED
    BY <1>3, <1>4, <1>5, <1>6, <1>7, <2>1, <2>2 DEF LoopStep
<1>8. ASSUME NEW w \in Workers, DequeueRaises(w) \/ FailRaises(w) \/ Kill(w) PROVE FALSE
  BY <1>0, <1>8 DEF DequeueRaises, FailRaises, Kill, TypeOK
<1>9. ASSUME NEW w \in Workers, RequestStop(w) \/ Restart(w) PROVE RowsHaveHolders'
  BY <1>1, <1>9 DEF RequestStop, Restart
<1>10. CASE Tick \/ UNCHANGED queueVars
  BY <1>1, <1>10 DEF Tick, queueVars
<1> QED
  BY <1>2, <1>7, <1>8, <1>9, <1>10 DEF Next

(* The budgets only grow, so "nobody has died yet" held before. *)
LEMMA DeathsAreCounted ==
    ASSUME IndInv, [Next]_queueVars, kills' + errors' = 0
    PROVE  kills + errors = 0 /\ UNCHANGED <<kills, errors>>
<1>1. kills \in Nat /\ errors \in Nat
  BY QueueAssumption DEF IndInv, TypeOK
<1>2. UNCHANGED kills \/ kills' = kills + 1
  BY DEF Next, queueVars, budget, Enqueue, LoopStep, DequeueSelect, DequeueCommit,
         HandlerReturns, HandlerRaises, CompleteCommits, CompleteRaises, FailRetries,
         FailDeadLetters, MarkFailedDone, LeaveLoop, DequeueRaises, FailRaises,
         RequestStop, Kill, Restart, Tick
<1>3. UNCHANGED errors \/ errors' = errors + 1
  BY DEF Next, queueVars, budget, Enqueue, LoopStep, DequeueSelect, DequeueCommit,
         HandlerReturns, HandlerRaises, CompleteCommits, CompleteRaises, FailRetries,
         FailDeadLetters, MarkFailedDone, LeaveLoop, DequeueRaises, FailRaises,
         RequestStop, Kill, Restart, Tick
<1> QED
  BY <1>1, <1>2, <1>3

-----------------------------------------------------------------------------
(* Whatever is retried, killed, restarted or answered too late, the table  *)
(* and the workers' memory stay well-formed; in particular no job is ever  *)
(* charged more than MaxAttempts failures.                                 *)
THEOREM TypeCorrect == QueueSpec => []TypeOK
  BY IndInvHolds, PTL DEF IndInv

(* SCALING.md: each row is claimed by exactly one worker, for any number   *)
(* of workers and any batch size.                                          *)
THEOREM ClaimsAreExclusive == QueueSpec => []ExclusiveClaim
  BY IndInvHolds, PTL DEF IndInv

(* The unconditional updates of complete and fail only ever hit a row that *)
(* still is what the worker claimed, or already settled it as itself.      *)
THEOREM HoldersOwnTheirRows == QueueSpec => []HolderOwnsRow
  BY IndInvHolds, PTL DEF IndInv

(* A job is dead-lettered exactly when its attempts are spent, and a row   *)
(* names a worker exactly while it is processed.                           *)
THEOREM DeadLettersAreExhausted == QueueSpec => []DeadLetterIffExhausted
  BY IndInvHolds, PTL DEF IndInv

(* worker.py: in-flight jobs finish and locks are released. As long as no  *)
(* process died, no row is left PROCESSING without a running worker that   *)
(* holds it, however often workers are stopped and started.                *)
THEOREM NoRowIsStranded == QueueSpec => []NoStrandedRow
<1> DEFINE SInv == kills + errors = 0 => RowsHaveHolders
<1>1. Init => SInv
  BY DEF Init, NoRow, RowsHaveHolders
<1>2. IndInv /\ SInv /\ [Next]_queueVars => SInv'
  BY DeathsAreCounted, RowsHaveHoldersStep
<1>3. IndInv /\ SInv => NoStrandedRow
  BY HoldersAreInLoop
<1> HIDE DEF SInv
<1> QED
  BY <1>1, <1>2, <1>3, IndInvHolds, PTL DEF QueueSpec

-----------------------------------------------------------------------------
(* The job queue implements its contract, which knows no rows, locks or    *)
(* copies; what lets it forget them is IndInv: a copy is of a row nobody   *)
(* else may claim or settle.                                               *)
Tries(d) == job[d].attempts

Free(d) == \A w \in Workers : d \notin Holds(w)

-----------------------------------------------------------------------------
(* The actions of the contract, told one document and one worker at a      *)
(* time.                                                                   *)
LEMMA StutterBar ==
    ASSUME \A w \in Workers : Holds(w)' = Holds(w),
           \A d \in Docs : Stage(d)' = Stage(d) /\ Tries(d)' = Tries(d)
    PROVE  UNCHANGED Contract!vars
  BY DEF Contract!vars, Tries

LEMMA PublishBar ==
    ASSUME NEW e \in Docs, Stage(e) = "absent",
           \A w \in Workers : Holds(w)' = Holds(w),
           \A d \in Docs : /\ Stage(d)' = IF d = e THEN "waiting" ELSE Stage(d)
                           /\ Tries(d)' = Tries(d)
    PROVE  Contract!Publish(e)
  BY DEF Contract!Publish, Tries

LEMMA TakeBar ==
    ASSUME NEW w \in Workers, NEW S \in SUBSET Docs, S # {}, Holds(w) = {},
           \A d \in S : Stage(d) = "waiting",
           \A v \in Workers : Holds(v)' = IF v = w THEN S ELSE Holds(v),
           \A d \in Docs : /\ Stage(d)' = IF d \in S THEN "held" ELSE Stage(d)
                           /\ Tries(d)' = Tries(d)
    PROVE  Contract!Take(w, S)
  BY DEF Contract!Take, Tries

LEMMA AckBar ==
    ASSUME NEW w \in Workers, NEW e \in Docs, e \in Holds(w),
           \A v \in Workers : Holds(v)' = IF v = w THEN Holds(w) \ {e} ELSE Holds(v),
           \A d \in Docs : /\ Stage(d)' = IF d = e THEN "done" ELSE Stage(d)
                           /\ Tries(d)' = Tries(d)
    PROVE  Contract!Ack(w, e)
  BY DEF Contract!Ack, Tries

LEMMA NackBar ==
    ASSUME NEW w \in Workers, NEW e \in Docs, e \in Holds(w),
           \A v \in Workers : Holds(v)' = IF v = w THEN Holds(w) \ {e} ELSE Holds(v),
           \A d \in Docs :
               /\ Stage(d)' = IF d # e THEN Stage(d)
                              ELSE IF Tries(e) + 1 = MaxAttempts THEN "dead" ELSE "waiting"
               /\ Tries(d)' = IF d = e THEN Tries(e) + 1 ELSE Tries(d)
    PROVE  Contract!Nack(w, e)
  BY DEF Contract!Nack, Tries

LEMMA AbandonBar ==
    ASSUME NEW w \in Workers, NEW e \in Docs, e \in Holds(w),
           NEW fate \in {"lost", "done", "nacked"},
           \A v \in Workers : Holds(v)' = IF v = w THEN {} ELSE Holds(v),
           \A d \in Docs :
               /\ Tries(d)' = IF d = e /\ fate = "nacked" THEN Tries(e) + 1 ELSE Tries(d)
               /\ Stage(d)' = IF d \notin Holds(w) THEN Stage(d)
                              ELSE IF d # e THEN "lost"
                              ELSE IF fate # "nacked" THEN fate
                              ELSE IF Tries(e) + 1 = MaxAttempts THEN "dead" ELSE "waiting"
    PROVE  Contract!Abandon(w, e)
  BY DEF Contract!Abandon, Tries

LEMMA VanishBar ==
    ASSUME NEW S \in SUBSET Docs, S # {}, \A d \in S : Stage(d) = "waiting",
           \A v \in Workers : Holds(v)' = Holds(v),
           \A d \in Docs : /\ Stage(d)' = IF d \in S THEN "lost" ELSE Stage(d)
                           /\ Tries(d)' = Tries(d)
    PROVE  Contract!Vanish(S)
  BY DEF Contract!Vanish, Tries

-----------------------------------------------------------------------------
(* A job is held by one worker, through one copy, and its row says so.     *)
LEMMA HeldShape ==
    ASSUME IndInv, NEW w \in Workers, NEW j \in claimed[w]
    PROVE  /\ j.doc \in Docs /\ j.doc \in Holds(w)
           /\ j.attempts = Tries(j.doc) /\ j.attempts \in 0..MaxAttempts
           /\ job[j.doc].status \in {"processing", "completed"}
           /\ job[j.doc].status = "completed" => pc[w] = "failing" /\ current[w] = j
           /\ \A v \in Workers : j.doc \in Holds(v) => v = w
           /\ \A i \in claimed[w] : i.doc = j.doc => i = j
<1>1. j \in IngestionJob /\ j.attempts = job[j.doc].attempts
      /\ job[j.doc].status \in {"processing", "completed"}
  BY HeldNotExhausted
<1>2. j.doc \in Docs /\ j.attempts \in 0..MaxAttempts
  BY <1>1 DEF IngestionJob
<1>3. job[j.doc].status = "completed" => pc[w] = "failing" /\ current[w] = j
  BY DEF IndInv, HolderOwnsRow
<1>4. \A v \in Workers : \A i \in claimed[v] : i.doc = j.doc => v = w /\ i = j
  BY DEF IndInv, ExclusiveClaim
<1> QED
  BY <1>1, <1>2, <1>3, <1>4 DEF Holds, Tries

LEMMA HoldsInDocs ==
    ASSUME IndInv, NEW w \in Workers
    PROVE  Holds(w) \in SUBSET Docs
  BY HeldShape DEF Holds

(* A row nobody holds is at the stage its status says.                     *)
LEMMA FreeStage ==
    ASSUME IndInv, NEW d \in Docs, Free(d)
    PROVE  /\ job[d].status = "absent"      <=> Stage(d) = "absent"
           /\ job[d].status = "pending"     <=> Stage(d) = "waiting"
           /\ job[d].status = "processing"  <=> Stage(d) = "lost"
           /\ job[d].status = "completed"   <=> Stage(d) = "done"
           /\ job[d].status = "dead_letter" <=> Stage(d) = "dead"
<1>1. job[d].status \in JobStatus
  BY DEF IndInv, TypeOK, JobRow
<1>2. Stage(d) = RowStage[job[d].status]
  BY DEF Stage, Free
<1>3. /\ RowStage["absent"] = "absent" /\ RowStage["pending"] = "waiting"
      /\ RowStage["processing"] = "lost" /\ RowStage["completed"] = "done"
      /\ RowStage["dead_letter"] = "dead"
  BY DEF RowStage
<1> QED
  BY <1>1, <1>2, <1>3 DEF JobStatus

LEMMA HeldStage ==
    ASSUME NEW w \in Workers, NEW d \in Holds(w)
    PROVE  Stage(d) = "held"
  BY DEF Stage

(* Rows that are offered or not there yet are held by nobody.              *)
LEMMA UnclaimedIsFree ==
    ASSUME IndInv, NEW d \in Docs, job[d].status \in {"absent", "pending", "dead_letter"}
    PROVE  Free(d)
  BY HeldShape DEF Free, Holds

(* The same holders and an unchanged row: the same stage.                  *)
LEMMA SameStage ==
    ASSUME NEW d \in Docs, job'[d] = job[d],
           \A w \in Workers : d \in Holds(w)' <=> d \in Holds(w)
    PROVE  Stage(d)' = Stage(d) /\ Tries(d)' = Tries(d)
  BY DEF Stage, Tries

(* Steps that change neither rows nor copies are none of the contract.     *)
LEMMA SilentStep ==
    ASSUME UNCHANGED <<job, claimed>>
    PROVE  UNCHANGED Contract!vars
<1>1. \A w \in Workers : Holds(w)' = Holds(w)
  BY DEF Holds
<1> QED
  BY <1>1, SameStage, StutterBar

LEMMA RowStages ==
    /\ RowStage["absent"] = "absent" /\ RowStage["pending"] = "waiting"
    /\ RowStage["processing"] = "lost" /\ RowStage["completed"] = "done"
    /\ RowStage["dead_letter"] = "dead"
  BY DEF RowStage

(* The stage of a document after a step. *)
LEMMA StageAfter ==
    ASSUME NEW d \in Docs
    PROVE  /\ (\E w \in Workers : d \in Holds(w)') => Stage(d)' = "held"
           /\ (\A w \in Workers : d \notin Holds(w)') => Stage(d)' = RowStage[job'[d].status]
  BY DEF Stage

-----------------------------------------------------------------------------
(* enqueue publishes the job, or does nothing if there is one.             *)
LEMMA EnqueueMaps ==
    ASSUME IndInv, NEW e \in Docs, Enqueue(e)
    PROVE  Contract!Publish(e) \/ UNCHANGED Contract!vars
<1> DEFINE row == job[e]
<1>1. row \in JobRow /\ job \in [Docs -> JobRow]
  BY DEF IndInv, TypeOK
<1>2. /\ claimed' = claimed /\ job'[e] = EnqueuedRow(row)
      /\ \A d \in Docs \ {e} : job'[d] = job[d]
  BY <1>1 DEF Enqueue
<1>3. \A w \in Workers : Holds(w)' = Holds(w)
  BY <1>2 DEF Holds
<1>4. CASE row.status # "absent"
  <2>1. job'[e] = row
    BY <1>2, <1>4 DEF EnqueuedRow
  <2>2. job' = job
    BY <1>1, <2>1, <1>4 DEF Enqueue, EnqueuedRow
  <2> QED
    BY <1>2, <2>2, SilentStep
<1>5. CASE row.status = "absent"
  <2>1. EnqueuedRow(row) = [row EXCEPT !.status = "pending", !.availableAt = now]
    BY <1>5 DEF EnqueuedRow
  <2>2. Free(e) /\ Stage(e) = "absent"
    BY <1>5, UnclaimedIsFree, FreeStage
  <2> HIDE DEF row
  <2>3. EnqueuedRow(row).status = "pending" /\ EnqueuedRow(row).attempts = row.attempts
    BY <1>1, <2>1 DEF JobRow
  <2>4. job'[e].status = "pending" /\ Tries(e)' = Tries(e)
    BY <1>2, <2>3 DEF Tries, row
  <2>5. Stage(e)' = "waiting"
    BY <1>3, <2>2, <2>4, StageAfter, RowStages DEF Free
  <2>6. \A d \in Docs \ {e} : Stage(d)' = Stage(d) /\ Tries(d)' = Tries(d)
    BY <1>2, <1>3, SameStage
  <2> QED
    BY <1>3, <2>2, <2>4, <2>5, <2>6, PublishBar
<1> QED
  BY <1>4, <1>5

(* The commit of a dequeue, heard of or not: the jobs of the locked rows   *)
(* were waiting, and are held, or lost, from now on.                       *)
LEMMA ClaimMaps ==
    ASSUME IndInv, NEW w \in Workers, pc[w] = "claiming", job' = ClaimedRows(w),
           \/ claimed' = [claimed EXCEPT ![w] = Copies(w)]
           \/ claimed' = [claimed EXCEPT ![w] = {}]
    PROVE  \/ Contract!Take(w, locks[w])
           \/ Contract!Vanish(locks[w])
           \/ UNCHANGED Contract!vars
<1> DEFINE S == locks[w]
<1>1. claimed \in [Workers -> SUBSET IngestionJob] /\ S \in SUBSET Docs
  BY DEF IndInv, TypeOK
<1>2. claimed[w] = {} /\ Holds(w) = {}
  BY DEF IndInv, BatchInLoop, Holds
<1>3. /\ \A d \in S : job'[d].status = "processing" /\ Tries(d)' = Tries(d)
      /\ \A d \in Docs \ S : job'[d] = job[d]
  BY ClaimedRowsShape DEF Tries
<1>4. \A d \in S : Free(d) /\ Stage(d) = "waiting"
  <2> TAKE d \in S
  <2>1. d \in Docs /\ job[d].status = "pending"
    BY <1>1 DEF IndInv, LockedRowsPending
  <2> QED
    BY <2>1, UnclaimedIsFree, FreeStage
<1>5. \A v \in Workers : v # w => Holds(v)' = Holds(v)
  BY <1>1 DEF Holds
<1>6. CASE claimed' = [claimed EXCEPT ![w] = Copies(w)]
  <2>1. Holds(w)' = S
    <3>1. claimed'[w] = Copies(w)
      BY <1>1, <1>6
    <3>2. ASSUME NEW d \in S PROVE d \in Holds(w)'
      <4>1. [doc |-> d, attempts |-> job[d].attempts] \in claimed'[w]
        BY <3>1 DEF Copies
      <4> QED
        BY <4>1 DEF Holds
    <3>3. ASSUME NEW j \in Copies(w) PROVE j.doc \in S
      BY DEF Copies
    <3> QED
      BY <3>1, <3>2, <3>3 DEF Holds
  <2>2. \A d \in S : Stage(d)' = "held"
    BY <1>1, <2>1, StageAfter
  <2>3. \A d \in Docs \ S : Stage(d)' = Stage(d) /\ Tries(d)' = Tries(d)
    <3> TAKE d \in Docs \ S
    <3>1. \A v \in Workers : d \in Holds(v)' <=> d \in Holds(v)
      BY <1>2, <1>5, <2>1
    <3> QED
      BY <1>3, <3>1, SameStage
  <2>4. CASE S = {}
    BY <1>2, <1>5, <2>1, <2>3, <2>4, StutterBar
  <2>5. CASE S # {}
    <3>1. \A v \in Workers : Holds(v)' = IF v = w THEN S ELSE Holds(v)
      BY <1>5, <2>1
    <3> QED
      BY <1>1, <1>2, <1>3, <1>4, <2>2, <2>3, <2>5, <3>1, TakeBar
  <2> QED
    BY <2>4, <2>5
<1>7. CASE claimed' = [claimed EXCEPT ![w] = {}]
  <2>1. \A v \in Workers : Holds(v)' = Holds(v)
    BY <1>1, <1>2, <1>7 DEF Holds
  <2>2. \A d \in S : Stage(d)' = "lost"
    <3> TAKE d \in S
    <3>1. d \in Docs /\ \A v \in Workers : d \notin Holds(v)'
      BY <1>1, <1>4, <2>1 DEF Free
    <3> QED
      BY <1>3, <3>1, StageAfter, RowStages
  <2>3. \A d \in Docs \ S : Stage(d)' = Stage(d) /\ Tries(d)' = Tries(d)
    BY <1>3, <2>1, SameStage
  <2>4. CASE S = {}
    BY <2>1, <2>3, <2>4, StutterBar
  <2>5. CASE S # {}
    BY <1>1, <1>3, <1>4, <2>1, <2>2, <2>3, <2>5, VanishBar
  <2> QED
    BY <2>4, <2>5
<1> QED
  BY <1>6, <1>7

(* What settling one held job, and dropping its copy, does to the mapping. *)
LEMMA DropShape ==
    ASSUME IndInv, NEW w \in Workers, NEW j \in claimed[w],
           NEW row, job' = [job EXCEPT ![j.doc] = row],
           claimed' = [claimed EXCEPT ![w] = claimed[w] \ {j}]
    PROVE  /\ j.doc \in Docs /\ j.doc \in Holds(w)
           /\ \A v \in Workers :
                Holds(v)' = IF v = w THEN Holds(w) \ {j.doc} ELSE Holds(v)
           /\ \A d \in Docs \ {j.doc} : Stage(d)' = Stage(d) /\ Tries(d)' = Tries(d)
           /\ Stage(j.doc)' = RowStage[row.status] /\ Tries(j.doc)' = row.attempts
<1>1. claimed \in [Workers -> SUBSET IngestionJob] /\ job \in [Docs -> JobRow]
  BY DEF IndInv, TypeOK
<1>2. /\ j.doc \in Docs /\ j.doc \in Holds(w)
      /\ \A v \in Workers : j.doc \in Holds(v) => v = w
      /\ \A i \in claimed[w] : i.doc = j.doc => i = j
  BY HeldShape
<1>3. Holds(w)' = Holds(w) \ {j.doc}
  <2>1. claimed'[w] = claimed[w] \ {j}
    BY <1>1
  <2> QED
    BY <1>2, <2>1 DEF Holds
<1>4. \A v \in Workers : v # w => Holds(v)' = Holds(v)
  BY <1>1 DEF Holds
<1>5. job'[j.doc] = row /\ \A d \in Docs \ {j.doc} : job'[d] = job[d]
  BY <1>1, <1>2
<1>6. \A d \in Docs \ {j.doc} : Stage(d)' = Stage(d) /\ Tries(d)' = Tries(d)
  BY <1>3, <1>4, <1>5, SameStage
<1>7. \A v \in Workers : j.doc \notin Holds(v)'
  BY <1>2, <1>3, <1>4
<1>8. Stage(j.doc)' = RowStage[row.status]
  BY <1>2, <1>5, <1>7, StageAfter
<1>9. Tries(j.doc)' = row.attempts
  BY <1>5 DEF Tries
<1> QED
  BY <1>2, <1>3, <1>4, <1>6, <1>8, <1>9

LEMMA CompleteMaps ==
    ASSUME IndInv, NEW w \in Workers, CompleteCommits(w)
    PROVE  \E d \in Docs : Contract!Ack(w, d)
<1>1. /\ pc[w] = "completing" /\ current[w] \in claimed[w]
      /\ CompletedRow(job[current[w].doc]).status = "completed"
      /\ CompletedRow(job[current[w].doc]).attempts = current[w].attempts
  BY CurrentHeld DEF CompleteCommits
<1>2. PICK j \in claimed[w] : j = current[w]
  BY <1>1
<1>3. PICK row : row = CompletedRow(job[j.doc])
  OBVIOUS
<1>4. /\ job' = [job EXCEPT ![j.doc] = row]
      /\ claimed' = [claimed EXCEPT ![w] = claimed[w] \ {j}]
  BY <1>2, <1>3 DEF CompleteCommits, Advance
<1>5. row.status = "completed" /\ row.attempts = Tries(j.doc)
  BY <1>1, <1>2, <1>3, HeldShape
<1>6. /\ j.doc \in Docs /\ j.doc \in Holds(w)
      /\ \A v \in Workers : Holds(v)' = IF v = w THEN Holds(w) \ {j.doc} ELSE Holds(v)
      /\ \A d \in Docs \ {j.doc} : Stage(d)' = Stage(d) /\ Tries(d)' = Tries(d)
      /\ Stage(j.doc)' = RowStage[row.status] /\ Tries(j.doc)' = row.attempts
  BY <1>4, DropShape
<1>7. Stage(j.doc)' = "done" /\ Tries(j.doc)' = Tries(j.doc)
  BY <1>5, <1>6, RowStages
<1>8. Contract!Ack(w, j.doc)
  BY <1>6, <1>7, AckBar
<1> QED
  BY <1>6, <1>8

(* The row fail writes, in the words of the contract.                      *)
LEMMA FailedRowMaps ==
    ASSUME IndInv, NEW w \in Workers, pc[w] = "failing"
    PROVE  LET j   == current[w]
               row == FailedRow(job[j.doc], j)
           IN  /\ row.attempts = Tries(j.doc) + 1
               /\ RowStage[row.status] = IF Tries(j.doc) + 1 = MaxAttempts THEN "dead" ELSE "waiting"
<1> DEFINE j == current[w]
           old == job[j.doc]
           row == FailedRow(old, j)
<1>1. j \in claimed[w] /\ row.status \in {"pending", "dead_letter"}
      /\ (row.status = "dead_letter" <=> row.attempts = MaxAttempts)
  BY CurrentHeld
<1>2. old \in JobRow /\ j.attempts = Tries(j.doc)
  BY <1>1, HeldNotExhausted, HeldShape
<1>3. row.attempts = j.attempts + 1
  <2>1. \/ row = [old EXCEPT !.status = "dead_letter", !.attempts = j.attempts + 1,
                             !.lockedBy = NoWorker]
        \/ row = [old EXCEPT !.status = "pending", !.attempts = j.attempts + 1,
                             !.availableAt = now + Backoff(j.attempts + 1), !.lockedBy = NoWorker]
    BY DEF FailedRow
  <2> HIDE DEF old, row, j
  <2>2. \/ row = [status |-> "dead_letter", attempts |-> j.attempts + 1,
                  availableAt |-> old.availableAt, lockedBy |-> NoWorker]
        \/ row = [status |-> "pending", attempts |-> j.attempts + 1,
                  availableAt |-> now + Backoff(j.attempts + 1), lockedBy |-> NoWorker]
    BY <1>2, <2>1 DEF JobRow
  <2> QED
    BY <2>2
<1> HIDE DEF row
<1> QED
  BY <1>1, <1>2, <1>3, RowStages DEF row

LEMMA FailMaps ==
    ASSUME IndInv, NEW w \in Workers, FailRetries(w) \/ FailDeadLetters(w)
    PROVE  \E d \in Docs : Contract!Nack(w, d)
<1>1. pc[w] = "failing" /\ current[w] \in claimed[w]
  BY CurrentHeld DEF FailRetries, FailDeadLetters
<1>2. PICK j \in claimed[w] : j = current[w]
  BY <1>1
<1>3. PICK row : row = FailedRow(job[j.doc], j)
  OBVIOUS
<1>4. /\ job' = [job EXCEPT ![j.doc] = row]
      /\ claimed' = [claimed EXCEPT ![w] = claimed[w] \ {j}]
  BY <1>2, <1>3 DEF FailRetries, FailDeadLetters, FailUpdate, Advance
<1>5. /\ row.attempts = Tries(j.doc) + 1
      /\ RowStage[row.status] = IF Tries(j.doc) + 1 = MaxAttempts THEN "dead" ELSE "waiting"
  BY <1>1, <1>2, <1>3, FailedRowMaps
<1>6. /\ j.doc \in Docs /\ j.doc \in Holds(w)
      /\ \A v \in Workers : Holds(v)' = IF v = w THEN Holds(w) \ {j.doc} ELSE Holds(v)
      /\ \A d \in Docs \ {j.doc} : Stage(d)' = Stage(d) /\ Tries(d)' = Tries(d)
      /\ Stage(j.doc)' = RowStage[row.status] /\ Tries(j.doc)' = row.attempts
  BY <1>4, DropShape
<1>7. Contract!Nack(w, j.doc)
  BY <1>5, <1>6, NackBar
<1> QED
  BY <1>6, <1>7

-----------------------------------------------------------------------------
(* The end of a process: whatever became of one held row, the others read  *)
(* PROCESSING and have nobody any more.                                    *)
LEMMA AbandonMaps ==
    ASSUME IndInv, NEW w \in Workers, Die(w), NEW j \in claimed[w],
           NEW row, job' = [job EXCEPT ![j.doc] = row],
           NEW fate \in {"lost", "done", "nacked"},
           row.attempts = IF fate = "nacked" THEN Tries(j.doc) + 1 ELSE Tries(j.doc),
           RowStage[row.status] =
               IF fate # "nacked" THEN fate
               ELSE IF Tries(j.doc) + 1 = MaxAttempts THEN "dead" ELSE "waiting",
           \A i \in claimed[w] : i # j => job[i.doc].status = "processing"
    PROVE  \E d \in Docs : Contract!Abandon(w, d)
<1>1. job \in [Docs -> JobRow] /\ claimed' = [claimed EXCEPT ![w] = {}]
      /\ claimed \in [Workers -> SUBSET IngestionJob]
  BY DieShape DEF IndInv, TypeOK
<1>2. j.doc \in Docs /\ j.doc \in Holds(w) /\ Holds(w) \in SUBSET Docs
  BY HeldShape, HoldsInDocs
<1>3. \A v \in Workers : Holds(v)' = IF v = w THEN {} ELSE Holds(v)
  BY <1>1 DEF Holds
<1>4. job'[j.doc] = row /\ \A d \in Docs \ {j.doc} : job'[d] = job[d]
  BY <1>1, <1>2
<1>5. \A d \in Docs \ Holds(w) : Stage(d)' = Stage(d) /\ Tries(d)' = Tries(d)
  BY <1>2, <1>3, <1>4, SameStage
<1>6. ASSUME NEW d \in Holds(w)
      PROVE  \A v \in Workers : d \notin Holds(v)'
  <2>1. PICK i \in claimed[w] : i.doc = d
    BY DEF Holds
  <2>2. \A v \in Workers : d \in Holds(v) => v = w
    BY <2>1, HeldShape
  <2> QED
    BY <1>3, <2>2
<1>7. ASSUME NEW d \in Holds(w), d # j.doc
      PROVE  Stage(d)' = "lost" /\ Tries(d)' = Tries(d)
  <2>1. PICK i \in claimed[w] : i.doc = d
    BY DEF Holds
  <2>2. job[d].status = "processing"
    BY <1>7, <2>1
  <2>3. d \in Docs /\ job'[d] = job[d] /\ \A v \in Workers : d \notin Holds(v)'
    BY <1>2, <1>4, <1>6, <1>7
  <2> QED
    BY <2>2, <2>3, StageAfter, RowStages DEF Tries
<1>8. Stage(j.doc)' = RowStage[row.status] /\ Tries(j.doc)' = row.attempts
  BY <1>2, <1>4, <1>6, StageAfter DEF Tries
<1>9. Contract!Abandon(w, j.doc)
  BY <1>2, <1>3, <1>5, <1>7, <1>8, AbandonBar
<1> QED
  BY <1>2, <1>9

(* A process that ends without a word to the queue. Only the row it was    *)
(* about to fail may be settled, by a complete whose answer was lost.      *)
LEMMA DeathMaps ==
    ASSUME IndInv, NEW w \in Workers, Die(w), job' = job
    PROVE  \/ \E d \in Docs : Contract!Abandon(w, d)
           \/ UNCHANGED Contract!vars
<1>1. job \in [Docs -> JobRow] /\ claimed' = [claimed EXCEPT ![w] = {}]
      /\ claimed \in [Workers -> SUBSET IngestionJob]
  BY DieShape DEF IndInv, TypeOK
<1>2. CASE claimed[w] = {}
  <2>1. claimed' = claimed
    BY <1>1, <1>2
  <2> QED
    BY <2>1, SilentStep
<1>3. CASE \E j \in claimed[w] : job[j.doc].status = "completed"
  <2>1. PICK j \in claimed[w] : job[j.doc].status = "completed"
    BY <1>3
  <2>2. PICK row : row = job[j.doc]
    OBVIOUS
  <2>3. j.doc \in Docs /\ row.attempts = Tries(j.doc) /\ current[w] = j
    BY <2>1, <2>2, HeldShape DEF Tries
  <2>4. job' = [job EXCEPT ![j.doc] = row]
    BY <1>1, <2>2, <2>3
  <2>5. \A i \in claimed[w] : i # j => job[i.doc].status = "processing"
    BY <2>3, HeldShape
  <2>6. RowStage[row.status] = "done"
    BY <2>1, <2>2, RowStages
  <2> QED
    BY <2>3, <2>4, <2>5, <2>6, AbandonMaps
<1>4. CASE claimed[w] # {} /\ ~\E j \in claimed[w] : job[j.doc].status = "completed"
  <2>1. PICK j \in claimed[w] : TRUE
    BY <1>4
  <2>2. PICK row : row = job[j.doc]
    OBVIOUS
  <2>3. j.doc \in Docs /\ row.attempts = Tries(j.doc) /\ row.status = "processing"
    BY <1>4, <2>2, HeldShape DEF Tries
  <2>4. job' = [job EXCEPT ![j.doc] = row]
    BY <1>1, <2>2, <2>3
  <2>5. \A i \in claimed[w] : i # j => job[i.doc].status = "processing"
    BY <1>4, HeldShape
  <2>6. RowStage[row.status] = "lost"
    BY <2>3, RowStages
  <2> QED
    BY <2>3, <2>4, <2>5, <2>6, AbandonMaps
<1> QED
  BY <1>2, <1>3, <1>4

(* fail ends the process, with its update committed or not.                *)
LEMMA FailRaisesMaps ==
    ASSUME IndInv, NEW w \in Workers, FailRaises(w)
    PROVE  \/ \E d \in Docs : Contract!Abandon(w, d)
           \/ UNCHANGED Contract!vars
<1>1. pc[w] = "failing" /\ Die(w) /\ current[w] \in claimed[w]
  BY CurrentHeld DEF FailRaises
<1>2. CASE job' = job
  BY <1>1, <1>2, DeathMaps
<1>3. CASE FailUpdate(w)
  <2>1. PICK j \in claimed[w] : j = current[w]
    BY <1>1
  <2>2. PICK row : row = FailedRow(job[j.doc], j)
    OBVIOUS
  <2>3. job' = [job EXCEPT ![j.doc] = row]
    BY <1>3, <2>1, <2>2 DEF FailUpdate
  <2>4. /\ row.attempts = Tries(j.doc) + 1
        /\ RowStage[row.status] = IF Tries(j.doc) + 1 = MaxAttempts THEN "dead" ELSE "waiting"
    BY <1>1, <2>1, <2>2, FailedRowMaps
  <2>5. \A i \in claimed[w] : i # j => job[i.doc].status = "processing"
    BY <2>1, HeldShape
  <2> QED
    BY <1>1, <2>3, <2>4, <2>5, AbandonMaps
<1> QED
  BY <1>2, <1>3 DEF FailRaises

(* complete raises: applied or not, its job stays in hand.                 *)
LEMMA CompleteRaisesMaps ==
    ASSUME IndInv, NEW w \in Workers, CompleteRaises(w)
    PROVE  UNCHANGED Contract!vars
<1>1. /\ pc[w] = "completing" /\ current[w] \in claimed[w] /\ claimed' = claimed
      /\ CompletedRow(job[current[w].doc]).attempts = current[w].attempts
  BY CurrentHeld DEF CompleteRaises
<1>2. CASE job' = job
  BY <1>1, <1>2, SilentStep
<1>3. CASE job' = [job EXCEPT ![current[w].doc] = CompletedRow(@)]
  <2>1. PICK j \in claimed[w] : j = current[w]
    BY <1>1
  <2>2. PICK row : row = CompletedRow(job[j.doc])
    OBVIOUS
  <2>3. /\ job' = [job EXCEPT ![j.doc] = row] /\ job \in [Docs -> JobRow]
        /\ j.doc \in Docs /\ j.doc \in Holds(w)
        /\ row.attempts = Tries(j.doc)
    BY <1>1, <1>3, <2>1, <2>2, HeldShape DEF IndInv, TypeOK
  <2>4. \A v \in Workers : Holds(v)' = Holds(v)
    BY <1>1 DEF Holds
  <2>5. \A d \in Docs \ {j.doc} : Stage(d)' = Stage(d) /\ Tries(d)' = Tries(d)
    <3>1. \A d \in Docs \ {j.doc} : job'[d] = job[d]
      BY <2>3
    <3> QED
      BY <2>4, <3>1, SameStage
  <2>6. Stage(j.doc)' = "held" /\ Stage(j.doc) = "held"
    BY <2>3, <2>4, HeldStage, StageAfter
  <2>7. Tries(j.doc)' = Tries(j.doc)
    BY <2>3 DEF Tries
  <2> QED
    BY <2>4, <2>5, <2>6, <2>7, StutterBar
<1> QED
  BY <1>2, <1>3 DEF CompleteRaises

-----------------------------------------------------------------------------
(* The step of the contract behind each step of a worker's loop.           *)
LEMMA LoopStepMaps ==
    ASSUME IndInv, NEW w \in Workers, LoopStep(w)
    PROVE  Contract!Next \/ UNCHANGED Contract!vars
<1>1. CASE DequeueSelect(w) \/ HandlerReturns(w) \/ HandlerRaises(w) \/ LeaveLoop(w)
  BY <1>1, SilentStep DEF DequeueSelect, HandlerReturns, HandlerRaises, LeaveLoop
<1>2. CASE MarkFailedDone(w)
  <2>1. job' = job /\ claimed' = claimed
    BY <1>2 DEF MarkFailedDone, Advance, IndInv, TypeOK
  <2> QED
    BY <2>1, SilentStep
<1>3. CASE DequeueCommit(w)
  <2>1. locks[w] \in SUBSET Docs
    BY DEF IndInv, TypeOK
  <2>2. /\ pc[w] = "claiming" /\ job' = ClaimedRows(w)
        /\ claimed' = [claimed EXCEPT ![w] = Copies(w)]
    BY <1>3 DEF DequeueCommit, Advance
  <2> QED
    BY <2>1, <2>2, ClaimMaps DEF Contract!Next
<1>4. CASE CompleteCommits(w)
  BY <1>4, CompleteMaps DEF Contract!Next
<1>5. CASE CompleteRaises(w)
  BY <1>5, CompleteRaisesMaps
<1>6. CASE FailRetries(w) \/ FailDeadLetters(w)
  BY <1>6, FailMaps DEF Contract!Next
<1> QED
  BY <1>1, <1>2, <1>3, <1>4, <1>5, <1>6 DEF LoopStep

(* dequeue ends the process: its claim is undone, or lost with it.         *)
LEMMA DequeueRaisesMaps ==
    ASSUME IndInv, NEW w \in Workers, DequeueRaises(w)
    PROVE  Contract!Next \/ UNCHANGED Contract!vars
<1>1. Die(w) /\ claimed' = [claimed EXCEPT ![w] = {}] /\ locks[w] \in SUBSET Docs
  BY DieShape DEF DequeueRaises, IndInv, TypeOK
<1>2. CASE job' = job
  BY <1>1, <1>2, DeathMaps DEF Contract!Next
<1>3. CASE pc[w] = "claiming" /\ job' = ClaimedRows(w)
  BY <1>1, <1>3, ClaimMaps DEF Contract!Next
<1> QED
  BY <1>2, <1>3 DEF DequeueRaises

LEMMA StepMaps == IndInv /\ [Next]_queueVars => [Contract!Next]_(Contract!vars)
<1> SUFFICES ASSUME IndInv, [Next]_queueVars
             PROVE  Contract!Next \/ UNCHANGED Contract!vars
  OBVIOUS
<1>1. ASSUME NEW d \in Docs, Enqueue(d) PROVE Contract!Next \/ UNCHANGED Contract!vars
  BY <1>1, EnqueueMaps DEF Contract!Next
<1>2. ASSUME NEW w \in Workers, LoopStep(w) PROVE Contract!Next \/ UNCHANGED Contract!vars
  BY <1>2, LoopStepMaps
<1>3. ASSUME NEW w \in Workers, DequeueRaises(w)
      PROVE  Contract!Next \/ UNCHANGED Contract!vars
  BY <1>3, DequeueRaisesMaps
<1>4. ASSUME NEW w \in Workers, FailRaises(w) \/ Kill(w)
      PROVE  Contract!Next \/ UNCHANGED Contract!vars
  BY <1>4, FailRaisesMaps, DeathMaps DEF Kill, Contract!Next
<1>5. CASE \/ \E w \in Workers : RequestStop(w) \/ Restart(w)
           \/ Tick \/ UNCHANGED queueVars
  BY <1>5, SilentStep DEF RequestStop, Restart, Tick, queueVars
<1> QED
  BY <1>1, <1>2, <1>3, <1>4, <1>5 DEF Next

LEMMA InitMaps == Init => Contract!Init
<1> SUFFICES ASSUME Init PROVE Contract!Init
  OBVIOUS
<1>1. \A w \in Workers : Holds(w) = {}
  BY DEF Init, Holds
<1>2. \A d \in Docs : job[d].status = "absent" /\ job[d].attempts = 0
  BY DEF Init, NoRow
<1>3. \A d \in Docs : Stage(d) = "absent"
  BY <1>1, <1>2, RowStages DEF Stage
<1> QED
  BY <1>1, <1>2, <1>3 DEF Contract!Init

(* Every execution of rows, locks, copies and restarts is one the contract *)
(* allows: for any number of documents and workers, whoever is killed and  *)
(* whichever answer is lost, a job is in one worker's hands, costs one try *)
(* per hand-back, and is settled once.                                     *)
THEOREM QueueImplementsContract == QueueSpec => ImplementsContract
  BY InitMaps, StepMaps, IndInvHolds, PTL DEF QueueSpec, ImplementsContract, Contract!Spec
=============================================================================
