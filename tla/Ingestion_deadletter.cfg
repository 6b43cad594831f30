\* One document that nobody deletes, two faults and no dead process.
SPECIFICATION FairSpec
CONSTANTS
    Docs = {d1}
    Workers = {w1}
    NoWorker = NoWorker
    NoJob = NoJob
    MaxAttempts = 2
    BatchSize = 2
    BackoffBase = 1
    BackoffCap = 2
    MaxKills = 0
    MaxErrors = 0
    MaxStops = 0
    Blank = {}
    Deletable = {}
    MaxFaults = 2
PROPERTIES
    DeadLetterMarksFailed
