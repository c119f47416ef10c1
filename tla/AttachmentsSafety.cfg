SPECIFICATION Spec
CONSTANTS
    AttId = {a1}
    Client = {c1, c2}
    Worker = {w1}
    MaxAttempts = 2
    MaxCrashes = 1
    Faults = {"remove"}
SYMMETRY SameClients
INVARIANTS
    RowHasFile
    NoFalseAlarm
    ClaimIsCurrent
PROPERTIES
    SensitivityOneWay
    TerminalKept
    SettledHandTextKept
    PromiseKept
