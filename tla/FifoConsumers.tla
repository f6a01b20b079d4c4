--------------------------- MODULE FifoConsumers ---------------------------
(***************************************************************************)
(* Consumers of the FIFO queues, over the RPCs PeekFifo, AckFifo and       *)
(* RejectFifo (crates/msgbus-server/src/lib.rs).  The daemon hands the     *)
(* front to everyone who peeks, so several consumers may hold the same     *)
(* message, hold one that has since left the queue, and repeat a request   *)
(* whose response they never saw.                                          *)
(***************************************************************************)
EXTENDS FifoQueue

CONSTANT Consumer

VARIABLES held,      \* held[c]: what c peeked and has not settled, or Nothing
          enqueued,  \* history: enqueued[q], the ids stored in q, in order
          acked      \* history: acked[q], the ids whose ack was accepted, in order

vars == <<sequences, fifo, reply, held, enqueued, acked>>

Nothing == [queue |-> "none", id |-> "none"]

Ticket == [queue : Queue, id : Id]

Init == /\ FifoInit
        /\ held = [c \in Consumer |-> Nothing]
        /\ enqueued = [q \in Queue |-> <<>>]
        /\ acked = [q \in Queue |-> <<>>]

(* MessageId::new gives every message an id of its own *)
Fresh(id) == \A q \in Queue : \A k \in 1 .. Len(enqueued[q]) : enqueued[q][k] # id

Enqueue(q, id) ==
    /\ Fresh(id)
    /\ EnqueueFifo(q, id)
    /\ enqueued' = IF reply'.answer = "ok" THEN [enqueued EXCEPT ![q] = Append(@, id)]
                                           ELSE enqueued
    /\ UNCHANGED <<held, acked>>

(* PeekFifo answers with the front and leaves it in the queue *)
Peek(c, q) ==
    /\ held[c] = Nothing
    /\ \E r \in RowsOf(q) : /\ IsFirst(r)
                            /\ held' = [held EXCEPT ![c] = [queue |-> q, id |-> r.id]]
    /\ UNCHANGED <<sequences, fifo, reply, enqueued, acked>>

(* The response arrives and c is done, or it is lost and c may ask again *)
Settle(c) == \E settled \in BOOLEAN :
                held' = IF settled THEN [held EXCEPT ![c] = Nothing] ELSE held

Ack(c) ==
    /\ held[c] # Nothing
    /\ \/ /\ AckFifo(held[c].queue, held[c].id)
          /\ acked' = [acked EXCEPT ![held[c].queue] = Append(@, held[c].id)]
       \/ /\ NotFront(held[c].queue, held[c].id)
          /\ UNCHANGED acked
    /\ Settle(c)
    /\ UNCHANGED enqueued

Reject(c) ==
    /\ held[c] # Nothing
    /\ RejectFifo(held[c].queue, held[c].id) \/ NotFront(held[c].queue, held[c].id)
    /\ Settle(c)
    /\ UNCHANGED <<enqueued, acked>>

(* A consumer dies or gives up: its message stays in the queue *)
Forget(c) ==
    /\ held[c] # Nothing
    /\ held' = [held EXCEPT ![c] = Nothing]
    /\ UNCHANGED <<sequences, fifo, reply, enqueued, acked>>

Next == \/ \E q \in Queue, id \in Id : Enqueue(q, id)
        \/ \E c \in Consumer, q \in Queue : Peek(c, q)
        \/ \E c \in Consumer : Ack(c) \/ Reject(c) \/ Forget(c)

Spec == Init /\ [][Next]_vars

(* An accepted acknowledgement whose response arrives *)
AckArrives(c, q) ==
    /\ held[c] # Nothing /\ held[c].queue = q
    /\ Ack(c) /\ held'[c] = Nothing

(* Clients, not the daemon: each keeps peeking at each queue, and one that can
   acknowledge again and again does not reject, drop or lose it for ever. *)
FairSpec == /\ Spec
            /\ \A c \in Consumer, q \in Queue :
                  SF_vars(Peek(c, q)) /\ SF_vars(AckArrives(c, q))

----------------------------------------------------------------------------
TypeOK == /\ FifoTypeOK
          /\ held \in [Consumer -> Ticket \cup {Nothing}]
          /\ enqueued \in [Queue -> Seq(Id)]
          /\ acked \in [Queue -> Seq(Id)]

(* What was acknowledged, followed by what waits, is what was enqueued: no
   message is lost, consumed twice or overtaken, whoever acknowledges or
   rejects what, however late and however often. *)
Conservation ==
    \A q \in Queue :
        /\ sequences[q] = Len(enqueued[q])
        /\ Len(acked[q]) <= Len(enqueued[q])
        /\ \A k \in 1 .. Len(acked[q]) : acked[q][k] = enqueued[q][k]
        /\ {r.sequence : r \in RowsOf(q)} = Len(acked[q]) + 1 .. Len(enqueued[q])
        /\ \A r \in RowsOf(q) : r.id = enqueued[q][r.sequence]

(* A message leaves its queue only when a consumer that has peeked at that
   very message acknowledges it: a repeated or late acknowledgement never
   removes the message that took the front since. *)
LeavesAfterPeek ==
    \A r \in fifo :
        (\A e \in fifo' : e.queue # r.queue \/ e.id # r.id)
            => \E c \in Consumer : held[c] = [queue |-> r.queue, id |-> r.id]

OnlyPeekedLeaves == [][LeavesAfterPeek]_vars

(* Every message enqueued is acknowledged in the end. *)
IsIn(id, s) == \E k \in 1 .. Len(s) : s[k] = id

EventuallyAcked ==
    \A q \in Queue, id \in Id : IsIn(id, enqueued[q]) ~> IsIn(id, acked[q])
=============================================================================
