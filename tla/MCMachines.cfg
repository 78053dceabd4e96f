SPECIFICATION Spec
CONSTANTS
    Machines = {"debounce", "pool", "feed", "stream", "proxy", "fleet"}
    Session = {a, p}
    Poison = {p}
    Debounce = 2
    MaxDeriveLag = 4
    PollInterval = 1
    ListSize = 2
    MaxPageTime = 1
    light = light
    heavy = heavy
    bulky = bulky
    free = free
    Job = {light, heavy, bulky, free}
    Worker = {w1, w2}
    Weight <- JobWeight
    QueueSize = 1
    ByteBudget = 3
    NoJob = NoJob
    Row = {1, 2}
    Content = {c1, c2}
    Gone = Gone
    PageSize = 2
    MaxXid = 3
    NoStatus = NoStatus
    Request = {r1}
    Buffer = {b1}
    Chunk <- Chunks
    NoTool = NoTool
    Anonymous = Anonymous
    MaxChunks = 3
    None = None
    Source = {"a", "b"}
    Name = {"x", "y"}
    Document = {"x1", "x2", "y1", "bad"}
    NameOf <- MCNameOf
    Down = Down
    Absent = Absent
    MaxChanges = 2
INVARIANTS BoundedLag ClosedIsDrained SeenIsComplete CaptureIsTheAnswer TablesAgree
PROPERTIES EveryCaptureIsDerived PoolGivesBack StreamSettles ExchangesSettle FleetIsStable
CHECK_DEADLOCK FALSE
