CONSTANTS
    Topic = {events}
    Subscribed = events
    Handler = {p1, p2}
    ReplayLimit = 3
    RingSize = 2
    WireSize = 1
    MaxHead = 3
    MaxFaults = 0
SPECIFICATION Spec
INVARIANTS
    LiveNotSkipped
CHECK_DEADLOCK FALSE
