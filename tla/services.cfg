SPECIFICATION PartSpec
CHECK_DEADLOCK FALSE
CONSTANTS
    w1 = w1 w2 = w2 h1 = h1 h2 = h2 h3 = h3 q1 = q1 q2 = q2
    Writers = {w1, w2}
    Tables = {t1}
    HepTables = {hep}
    Cols = {a, b}
    MaxPoints = 2
    MaxRestarts = 1
    Calls = {c1}
    Handlers = {h1, h2, h3}
    Names = {admin, ann}
    Admin = admin
    MaxRows = 2
    MaxSessions = 2
    MaxLogins = 1
    Flows = {f1}
    Users = {boss, ann}
    Boss = boss
    Reqs = {q1, q2}
    MaxTableRows = 2
    RlPackets = {1, 2, 3}
    RlLogged = {1, 3}
    RlStructs = {1, 2}
    RlBuffer = 1
    RlBulk = 2
    RlMaxFaults = 1
    SfNodes = {"n1", "n2"}
    SfMaxEvents = 2
    SfHistory = 1
    SfCap = 1
    SfMaxFaults = 1
    RgIds = {"a", "b"}
    RgMaxRequests = 3
    TrRows = {1, 2}
    TrKinds = {"ping", "options", "log"}
    TrWorkers = {"w1", "w2"}
    TrMaxSwaps = 3
    HrWorkers = {"w1", "w2"}
    HrContents <- MCHrContents
    HrRaws = {0, 3, 7, 103}
    HrStart = 4
    HrEnd = 5
    HrDay = 2
    HrYear = 2
    HrPast = 4
    HrFuture = 2
    HrNtp = 99
    HrZone = 1
    HrWindow = 2
    HrMaxPackets = 3
    HrFile <- MCHrFile
    HrBatch = 1
    HrMaxBesides = 1
    LsProcs = {"a", "b"}
    LsMaxShards = 2
    LsMaxFaults = 1
    LsMaxStarts = 1
INVARIANTS
    IngestRowsSafe ReceiversSafe DeliverySafe SettingsDBSafe StorageSafe
