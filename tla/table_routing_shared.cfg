\* A SIP keepalive and an OPTIONS request.
SPECIFICATION TrSpec
CHECK_DEADLOCK FALSE
CONSTANTS
    TrRows = {1, 2}
    TrKinds = {"ping", "options"}
    TrWorkers = {"w1", "w2"}
    TrMaxSwaps = 2
INVARIANTS
    AppendWaitsForFlush
