SPECIFICATION Spec
CONSTANTS
    ChunkSize = 3
    MaxLength = 10
    MaxInt = 15
CHECK_DEADLOCK FALSE
INVARIANTS
    TypeOK
    RoundTrip
    OutputIsTrue
    WrongLengthCaught
