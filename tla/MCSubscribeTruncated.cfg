CONSTANTS
    Topic = {events}
    Subscribed = events
    Handler = {p1}
    ReplayLimit = 1
    RingSize = 2
    WireSize = 1
    MaxHead = 3
    MaxFaults = 0
SPECIFICATION Spec
INVARIANTS
    ResumesAtFirstMissing
CHECK_DEADLOCK FALSE
