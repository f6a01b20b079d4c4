CONSTANTS
    a = a
    b = b
    c = c
    Node <- Pair
    Topic = {events}
    DeleteTopic = deletes
    Peers <- Mutual
    Expected <- MutualPins
    Rank <- DeletesFirst
    BatchLimit = 1
    HeadLimit <- WideHeads
    Ranges <- OpenRange
    Publisher <- Pair
    U32Max = 1
    MaxHead = 1
    MaxDeletes = 1
    MaxFaults = 0
SPECIFICATION FairSpec
INVARIANTS
    ReplicaPrefix
PROPERTIES
    AppendOnly
    Convergence
