CONSTANTS
    Call = {"m1", "m2", "m3", "m4", "k1", "x1", "x2", "y1", "z1", "c1", "c2", "c3", "w1", "g1", "b1", "f1", "f2"}
    Node = {"p1", "a1", "r1", "a2", "i1", "p2", "a3", "s1", "a4", "q1", "z1", "g1", "h1", "u1", "h2", "g2", "h3", "g3", "h4", "c1", "v1", "v2", "w2", "e1"}
    Tool = {"t1", "t2", "t3", "b1", "b2", "w1"}
    Turn <- MCTurn
    Info <- MCInfo
    Uses <- MCUses
    Files <- MCFiles
    MainThread = ""
    NoTool = "no-tool"
    NoNode = "no-node"
    NoTurn = "no-turn"
    MaxCalls = 4
    Record = {"u1", "a1", "a2", "r1", "b1", "u2", "b2", "lp", "lq", "bad", "c1", "ti", "d1", "h1"}
    RecordInfo <- MCRecordInfo
    Agent = {0, 1, 2}
    MainAgent = 0
    SpawnTool <- MCSpawnTool
    WireCall = {"w1", "w2"}
    WireInfo <- MCWireInfo
    None = ""
    MaxRecords = 5
    MaxRows = 2
SPECIFICATION Run
INVARIANTS SpansHoldTogether AttributionsHold ProjectionIsSound SelectionIsSound
PROPERTIES PassEnds GrowthIsStable
