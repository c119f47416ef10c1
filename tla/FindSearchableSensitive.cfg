SPECIFICATION Spec
CONSTANTS
    AttId = {a1}
    Client = {c1}
    Worker = {w1}
    MaxAttempts = 1
    MaxCrashes = 0
    Faults = {}
INVARIANT SensitiveNotSearchable
