SPECIFICATION Spec
CONSTANTS
    Name = {u1, u2}
    Attempt = {a1, a2}
    Free = Free
    MaxWait = 4
    Expire = 5
    Span = 1
    MaxCount = 3
INVARIANT TypeOK
PROPERTIES
    FreshCountKept
    FailureCounts
    NeverLocked
