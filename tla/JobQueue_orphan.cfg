\* One worker process of two is killed once and started again.
SPECIFICATION FairQueueSpec
CONSTANTS
    Docs = {d1}
    Workers = {w1, w2}
    NoWorker = NoWorker
    NoJob = NoJob
    MaxAttempts = 2
    BatchSize = 2
    BackoffBase = 1
    BackoffCap = 2
    MaxKills = 1
    MaxErrors = 0
    MaxStops = 0
PROPERTIES
    JobsSettle
