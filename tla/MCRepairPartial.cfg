SPECIFICATION RepairSpec
CONSTANTS
    s1 = s1
    s2 = s2
    Session = {s1, s2}
    Turn = {t1}
    TranscriptTurn = {}
    Worker = {w1}
    Rederiver = {}
    Repairer = {p1, p2}
    Rank <- MCRank
    Stamp = {c1, c2, c3, c4}
    NoStamp = NoStamp
    NoRow = NoRow
    Keyless = Keyless
    Nobody = Nobody
    MaxFaults = 1
    MaxLockLosses = 0
    MaxRepairs = 2
SYMMETRY Symmetry
INVARIANT RepairConverges
