CONSTANTS
    Log = {events, deletes}
    Id = {i1, i2, i3}
    I64Max = 2
    U64Max = 3
    Queue = {q1, q2}
    FifoId = {m1, m2}
    U32Max = 1
    MaxTombstones = 2
SPECIFICATION DatabaseSpec
CONSTRAINTS
    FewTombstones
    Apart
SYMMETRY Symmetry
INVARIANTS
    TypeOK
    GapFree
    TombstonesApplied
    ListHeadsComplete
    FetchIsSlice
    WaitingAreNewest
PROPERTIES
    ImplementsStore
    AppendOnly
    ImplementsFifo
