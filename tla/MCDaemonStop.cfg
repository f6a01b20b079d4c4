CONSTANTS
    Topic = {events}
    Subscribed = events
    Handler = {p1}
    ReplayLimit = 2
    RingSize = 2
    WireSize = 1
    MaxHead = 2
    MaxFaults = 0
    MaxSignals = 1
SPECIFICATION DaemonSpec
PROPERTIES
    SignalStops
CHECK_DEADLOCK FALSE
