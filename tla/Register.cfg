SPECIFICATION Spec
CONSTANTS
    PropId = {p1, p2}
    Session = {s1, s2}
    Value = {v1, v2}
    Field = {"secret"}
    Sensitive = {"secret"}
    MaxCode = 2
    UuidCode = {u1}
    IdOf <- IdOfSomeProperty
    Budget = 2
    MaxLog = 4
SYMMETRY SameSessions
INVARIANTS
    TypeOK
    CodesUnique
    VersionCountsRecords
PROPERTIES
    NoLostUpdate
    RegisterPromiseKept
    AuditTruthful
    UndoRestoresLastChange
    UndoFindsItsProperty
