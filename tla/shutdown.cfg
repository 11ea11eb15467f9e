\* Two requests of any kind, queues of one place, one VQ-RTCPXR worker.
SPECIFICATION SdFairSpec
CONSTANTS
    Requests = {r1, r2}
    QueueDepth = 1
    VqDepth = 1
    VqWorkers = 1
INVARIANTS
    CleanExitStored
    LateUseIsUnjoined
PROPERTIES
    StopEnds
