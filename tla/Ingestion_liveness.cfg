\* Two workers that nothing ends and that claim one job at a time, one fault.
SPECIFICATION FairSpec
CONSTANTS
    Docs = {d1, d2}
    Workers = {w1, w2}
    NoWorker = NoWorker
    NoJob = NoJob
    MaxAttempts = 2
    BatchSize = 1
    BackoffBase = 1
    BackoffCap = 2
    MaxKills = 0
    MaxErrors = 0
    MaxStops = 0
    Blank = {d2}
    Deletable = {d1}
    MaxFaults = 1
PROPERTIES
    UploadsAreServed
