--------------------------- MODULE FifoContract ---------------------------
(***************************************************************************)
(* What enqueue_fifo, ack_fifo and reject_fifo of the MsgbusStore trait    *)
(* promise: each queue is a sequence, new messages go to its end, and only *)
(* its first message can be acknowledged or rejected.                      *)
(***************************************************************************)
EXTENDS Naturals, Sequences

CONSTANTS Queue, Id,
          Capacity,   \* how many messages a queue ever takes
          UniqueIds,  \* the backend refuses the id of a message that waits
          MaxAttempts \* where the attempts counter saturates

VARIABLES queue,   \* queue[q]: sequence of [id, attempts]
          total,   \* total[q]: how many messages were ever enqueued
          reply    \* the queue and the answer of the last operation; true is
                   \* named after the operation

absVars == <<queue, total, reply>>

FifoAnswer(q, a) == [queue |-> q, answer |-> a]

AbsInit == /\ queue = [q \in Queue |-> <<>>]
           /\ total = [q \in Queue |-> 0]
           /\ reply = FifoAnswer("none", "none")

IsWaiting(id) == UniqueIds /\ \E q \in Queue : \E k \in 1 .. Len(queue[q]) : queue[q][k].id = id

IsFront(q, id) == queue[q] # <<>> /\ Head(queue[q]).id = id

AbsEnqueue(q, id) ==
    \/ /\ reply' = FifoAnswer(q, "ok")
       /\ total[q] < Capacity
       /\ ~IsWaiting(id)
       /\ queue' = [queue EXCEPT ![q] = Append(queue[q], [id |-> id, attempts |-> 0])]
       /\ total' = [total EXCEPT ![q] = total[q] + 1]
    \/ /\ reply' = FifoAnswer(q, "InvalidArgument")
       /\ total[q] = Capacity
       /\ UNCHANGED <<queue, total>>
    \/ /\ reply' = FifoAnswer(q, "Storage")
       /\ total[q] < Capacity
       /\ IsWaiting(id)
       /\ UNCHANGED <<queue, total>>

AbsAck(q, id) ==
    /\ reply' = FifoAnswer(q, "acknowledged")
    /\ IsFront(q, id)
    /\ queue' = [queue EXCEPT ![q] = Tail(queue[q])]
    /\ UNCHANGED total

AbsReject(q, id) ==
    /\ reply' = FifoAnswer(q, "rejected")
    /\ IsFront(q, id)
    /\ queue' = [queue EXCEPT ![q][1].attempts = IF @ < MaxAttempts THEN @ + 1 ELSE @]
    /\ UNCHANGED total

AbsNotFront(q, id) ==
    /\ reply' = FifoAnswer(q, "ignored")
    /\ ~IsFront(q, id)
    /\ UNCHANGED <<queue, total>>

AbsNext == \E q \in Queue, id \in Id :
              \/ AbsEnqueue(q, id) \/ AbsAck(q, id)
              \/ AbsReject(q, id)  \/ AbsNotFront(q, id)

AbsSpec == AbsInit /\ [][AbsNext]_absVars
=============================================================================
