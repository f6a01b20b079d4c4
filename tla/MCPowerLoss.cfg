CONSTANTS
    a = a
    b = b
    Node <- Pair
    Topic = {events}
    DeleteTopic = deletes
    Peers <- OneWay
    Expected <- Unpinned
    Rank <- DeletesFirst
    BatchLimit = 1
    HeadLimit <- WideHeads
    Ranges <- DeleteRanges
    Publisher <- OnlyA
    U32Max = 1
    MaxHead = 2
    MaxDeletes = 1
    MaxFaults = 2
    Lossy <- OnlyB
SPECIFICATION PowerSpec
INVARIANTS
    TypeOK
    MarkersApplied
    SuccessMeansCaughtUp
PROPERTIES
    FailuresClear
    Convergence
