\* Three events through a ring of two, two workers, one client, a queue of one
\* event and one event per second.
SPECIFICATION FairSpec
CONSTANTS
    Events = {e1, e2, e3}
    Publishers = {p1, p2}
    Subs = {s1}
    Filters = {{e1, e2, e3}, {e1}}
    MaxSubscribers = 1
    PerSubQueueLen = 1
    BufferSize = 2
    RatePerSubPPS = 1
    HistoryLimit = 2
    None = None
INVARIANTS
    RingHoldsLatest
    NoGap
PROPERTIES
    PublishReturns
