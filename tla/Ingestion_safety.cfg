\* Two workers, two documents of which one has no text, a fault, a kill, an error and a stop.
SPECIFICATION Spec
CONSTANTS
    Docs = {d1, d2}
    Workers = {w1, w2}
    NoWorker = NoWorker
    NoJob = NoJob
    MaxAttempts = 2
    BatchSize = 2
    BackoffBase = 1
    BackoffCap = 2
    MaxKills = 1
    MaxErrors = 1
    MaxStops = 1
    Blank = {d2}
    Deletable = {d1}
    MaxFaults = 1
SYMMETRY WorkerSymmetry
INVARIANTS
    IngestionTypeOK
    IndexedIsServed
    CompletedIsIndexed
    FailedIsDeadLettered
    OneWorkerPerDocument
PROPERTIES
    OnlyDeletesAreOverwritten
    UsesQueue
