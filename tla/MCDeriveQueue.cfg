SPECIFICATION Spec
CONSTANTS
    Session = {s1}
    Turn = {t1, t2}
    TranscriptTurn = {t2}
    Worker = {w1, w2}
    Rederiver = {r1}
    Stamp = {c1, c2, c3, c4}
    NoStamp = NoStamp
    NoRow = NoRow
    Keyless = Keyless
    Nobody = Nobody
    MaxFaults = 2
    MaxLockLosses = 0
SYMMETRY Symmetry
INVARIANTS TypeOK PassHoldsLock NothingLost
PROPERTIES NeverPruneLive Refines
