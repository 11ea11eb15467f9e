\* A cancel between the snapshot of Publish and its send.
SPECIFICATION Spec
CONSTANTS
    Events = {e1}
    Publishers = {p1}
    Subs = {s1}
    Filters = {{e1}}
    MaxSubscribers = 1
    PerSubQueueLen = 1
    BufferSize = 1
    RatePerSubPPS = 0
    HistoryLimit = 0
    None = None
INVARIANTS
    NoSendOnClosed
