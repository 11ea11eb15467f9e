\* Central flush queue; two statements may fail.
SPECIFICATION Spec
CONSTANTS
    Rows = {r1, r2, r3}
    Writers = {w1, w2}
    BatchSize = 2
    PoolConns = 2
    QueueCap = 2
    FlushQueue = TRUE
    MaxRetries = 1
    MaxFaults = 2
    FaultsDuringStop = TRUE
SYMMETRY Symmetry
INVARIANTS
    AtMostOnce
    RowsAwaitFlush
    CleanStopLosesNothing
    MaintenanceBlocksNoAppend
PROPERTIES
    CustodySpec
