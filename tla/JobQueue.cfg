\* Two documents, and every failure of a worker and of the queue's own calls once.
SPECIFICATION FairQueueSpec
CONSTANTS
    Docs = {d1, d2}
    Workers = {w1, w2}
    NoWorker = NoWorker
    NoJob = NoJob
    MaxAttempts = 3
    BatchSize = 2
    BackoffBase = 1
    BackoffCap = 2
    MaxKills = 1
    MaxErrors = 1
    MaxStops = 1
INVARIANTS
    TypeOK
    ExclusiveClaim
    HolderOwnsRow
    NoStrandedRow
    DeadLetterIffExhausted
PROPERTIES
    ImplementsContract
    JobsSettleUnlessKilled
    StopCompletes
