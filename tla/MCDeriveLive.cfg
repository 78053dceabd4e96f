SPECIFICATION FairSpec
CONSTANTS
    Session = {s1}
    Turn = {t1, t2}
    TranscriptTurn = {t2}
    Worker = {w1}
    Rederiver = {r1}
    Stamp = {c1, c2, c3}
    NoStamp = NoStamp
    NoRow = NoRow
    Keyless = Keyless
    Nobody = Nobody
    MaxFaults = 1
    MaxLockLosses = 1
PROPERTIES MarkedIsProjected RecentIsProjected
