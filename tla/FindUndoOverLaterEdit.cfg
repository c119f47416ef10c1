SPECIFICATION Spec
CONSTANTS
    PropId = {p1}
    Session = {s1}
    Value = {v1, v2}
    Field = {"secret"}
    Sensitive = {"secret"}
    MaxCode = 2
    UuidCode = {}
    IdOf <- IdOfSomeProperty
    Budget = 2
    MaxLog = 4
PROPERTY UndoOnlyLastChange
