SPECIFICATION Spec
CONSTANTS
    s1 = s1
    s2 = s2
    Streams <- Calls
    Turns <- MCTurns
    Mode = "raw"
    MaxInflight = 2
    ByteBudget = 40
    BodyLimit = 20
    Reserve = 2
    RawCap = 3
    MaxAttempts = 2
INVARIANTS SlotsExact BytesExact CountedOnce RowsAreKeptWhole
PROPERTY RetriesAreHarmless
CHECK_DEADLOCK FALSE
