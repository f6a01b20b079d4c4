CONSTANTS
    a = a
    b = b
    c = c
    Node <- Pair
    Topic = {events}
    DeleteTopic = deletes
    Peers <- OneWay
    Expected <- Unpinned
    Rank <- DeletesFirst
    BatchLimit = 1
    HeadLimit <- MixedHeads
    Ranges <- WideRange
    Publisher <- OnlyA
    U32Max = 1
    MaxHead = 1
    MaxDeletes = 1
    MaxFaults = 0
SPECIFICATION FairSpec
PROPERTIES
    Convergence
