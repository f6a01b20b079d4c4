CONSTANTS
    Topic = {events, other}
    Subscribed = events
    Handler = {p1}
    ReplayLimit = 2
    RingSize = 1
    WireSize = 1
    MaxHead = 2
    MaxFaults = 2
    MaxSignals = 1
SPECIFICATION DaemonSpec
INVARIANTS
    DaemonTypeOK
    ResumesAtFirstMissing
    StrictlyIncreasing
    
PROPERTIES
    StopsWhenDrained
    ReturnedUnlessStopped
CHECK_DEADLOCK FALSE
