SPECIFICATION Spec
CONSTANTS
    AttId = {a1}
    Client = {c1}
    Worker = {w1, w2}
    MaxAttempts = 2
    MaxCrashes = 0
    Faults = {"remove", "lostAck"}
SYMMETRY SameWorkers
INVARIANTS
    TypeOK
    TextHasRow
    SealedOnlyIfSensitive
    MarksAreHonest
    DoneHasText
    AuditCoversRows
    ReadsAreAudited
