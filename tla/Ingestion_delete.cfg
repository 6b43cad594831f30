\* A client deletes the document while a worker ingests it. Nothing fails.
SPECIFICATION FairSpec
CONSTANTS
    Docs = {d1}
    Workers = {w1}
    NoWorker = NoWorker
    NoJob = NoJob
    MaxAttempts = 2
    BatchSize = 2
    BackoffBase = 1
    BackoffCap = 2
    MaxKills = 0
    MaxErrors = 0
    MaxStops = 0
    Blank = {}
    Deletable = {d1}
    MaxFaults = 0
CHECK_DEADLOCK FALSE
PROPERTIES
    DeletedIsFinal
