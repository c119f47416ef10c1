SPECIFICATION FairSpec
CONSTANTS
    AttId = {a1}
    Client = {c1}
    Worker = {w1}
    MaxAttempts = 2
    MaxCrashes = 0
    Faults = {}
PROPERTIES
    PromiseKeptInTime
    FilesConverge
