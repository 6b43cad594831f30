\* One document that nobody deletes, one fault, three attempts.
SPECIFICATION Spec
CONSTANTS
    Docs = {d1}
    Workers = {w1, w2}
    NoWorker = NoWorker
    NoJob = NoJob
    MaxAttempts = 3
    BatchSize = 2
    BackoffBase = 1
    BackoffCap = 2
    MaxKills = 0
    MaxErrors = 0
    MaxStops = 0
    Blank = {}
    Deletable = {}
    MaxFaults = 1
INVARIANTS
    DeadLetterNeedsFaults
