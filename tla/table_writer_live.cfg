\* Liveness, per-table flush worker: one connection, a full flush channel, one failed statement.
SPECIFICATION FairSpec
CONSTANTS
    Rows = {r1}
    Writers = {w1}
    BatchSize = 1
    PoolConns = 1
    QueueCap = 1
    FlushQueue = FALSE
    MaxRetries = 1
    MaxFaults = 1
    FaultsDuringStop = TRUE
PROPERTIES
    AppendedReachesLake
    StopTerminates
