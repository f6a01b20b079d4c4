CONSTANTS
    Queue = {q1, q2}
    Id = {m1, m2, m3}
    Consumer = {c1, c2}
    I64Max = 2
    U32Max = 1
SPECIFICATION FairSpec
INVARIANTS
    TypeOK
    Conservation
PROPERTIES
    OnlyPeekedLeaves
    EventuallyAcked
CHECK_DEADLOCK FALSE
