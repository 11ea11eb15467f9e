\* Two connections for one semaphore slot, one of them idle, a request, a UDP
\* event loop, two workers and a queue with room for one packet.
SPECIFICATION FairSpec
CONSTANTS
    UdpPackets = {u1}
    JoinedPackets = {p1}
    Loops = {l1}
    Conns = {c1, c2}
    Requests = {q1}
    Workers = {w1, w2}
    QueueCap = 1
    MaxConns = 1
    None = None
INVARIANTS
    JoinedPacketsHandled
    StoreOutlivesWorkers
    NoConnSurvivesStop
PROPERTIES
    StopReturns
