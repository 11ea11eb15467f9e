\* Two packets, one struct in the pool.
SPECIFICATION RlSpec
CHECK_DEADLOCK FALSE
CONSTANTS
    RlPackets = {1, 2}
    RlLogged = {1, 2}
    RlStructs = {1}
    RlBuffer = 1
    RlBulk = 2
    RlMaxFaults = 0
INVARIANTS
    LoggedAsReceived
