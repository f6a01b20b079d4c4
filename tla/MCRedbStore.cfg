CONSTANTS
    Log = {1, 2}
    MarkerLog = {2}
    Id = {i1, i2}
    Queue = {1, 2}
    FifoId = {m1, m2}
    Base = 3
    Width = 2
    Bounds = {1, 2, 8}
    U32Max = 1
    MaxHead = 3
    MaxSequence = 3
    MaxRows = 3
    MaxMarkers = 1
    MaxTombstones = 1
SPECIFICATION Spec
CONSTRAINTS
    Apart
    Few
SYMMETRY Symmetry
INVARIANTS
    TypeOK
    FetchInOrder
    HeadsHaveMessages
PROPERTIES
    ImplementsStore
    ImplementsFifo
