SPECIFICATION AreaSpec
CHECK_DEADLOCK FALSE
CONSTANTS
    NrPlayers = {1, 2, 3}
    NrCodes = {1, 2}
    NrRoomIds = {1, 2}
    NcPlayers = {1, 2, 3}
    NcCodes = {1}
    NcRoomIds = {1, 2}
    InitialMS = 1
    MaxClock = 1
    MaxMoves = 2
    SeNodes = {"n1", "n2"}
    SeRowSet <- MCRows
    SeWindows <- MCWindows
    SeLimit = 2
    SeChunk = 1
    SeSlack = 0
    MaxChanges = 1
    NqRows <- MCNqRows
    NqWindow <- MCNqWindow
    NqLimit = 2
    NqChunk = 1
    NqMaxMoves = 2
    NqMaxFaults = 1
    r1 = r1 hot = hot cold = cold
    NhRequests = {r1}
    NhVolumes = {hot, cold}
    NhMaxHandles = 3
    CiCodecs = {"a", "b"}
    CiFinals = {302, 486}
    CiMaxRows = 6
    CiMaxShared = 2
INVARIANTS
    GamesSafe QueriesSafe
