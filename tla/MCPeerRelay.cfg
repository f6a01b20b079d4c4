CONSTANTS
    a = a
    b = b
    c = c
    Node <- Trio
    Topic = {events}
    DeleteTopic = deletes
    Peers <- Triangle
    Expected <- Unpinned
    Rank <- DeletesFirst
    BatchLimit = 1
    HeadLimit <- MixedHeads
    Ranges <- RelayRanges
    Publisher <- OnlyA
    U32Max = 1
    MaxHead = 1
    MaxDeletes = 1
    MaxFaults = 1
SPECIFICATION Spec
INVARIANTS
    ReplicaPrefix
    DeletedOnlyByOrigin
