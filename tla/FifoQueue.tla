----------------------------- MODULE FifoQueue -----------------------------
(***************************************************************************)
(* The FIFO tables of a store, as crates/msgbus-store-sqlite/src/lib.rs    *)
(* keeps them: fifo_sequences, the last sequence number given out in each  *)
(* queue, and fifo_messages, the messages waiting.  Each operation is one  *)
(* transaction under the connection mutex.                                 *)
(***************************************************************************)
EXTENDS Naturals, FiniteSets, Sequences

CONSTANTS Queue, Id,
          I64Max,  \* the largest sequence an SQLite column holds
          U32Max   \* where saturating_add stops the attempts counter

ASSUME FifoAssumption == I64Max \in Nat \ {0} /\ U32Max \in Nat \ {0}

VARIABLES sequences,  \* table fifo_sequences; 0 stands for a missing row
          fifo,       \* table fifo_messages, a set of rows
          reply       \* the queue and the answer of the last operation; true is
                      \* named after the operation

fifoVars == <<sequences, fifo, reply>>

FifoRow == [queue : Queue, sequence : Nat, id : Id, attempts : 0 .. U32Max]

RowsOf(q) == {r \in fifo : r.queue = q}

(* ORDER BY sequence ASC LIMIT 1 *)
IsFirst(r) == /\ r \in fifo
              /\ \A e \in RowsOf(r.queue) : r.sequence <= e.sequence

FifoAnswer(q, a) == [queue |-> q, answer |-> a]

FifoInit == /\ sequences = [q \in Queue |-> 0]
            /\ fifo = {}
            /\ reply = FifoAnswer("none", "none")

(* idx_fifo_messages_id: no two waiting messages share an id *)
IdWaiting(id) == \E r \in fifo : r.id = id

(* Seeded fault: the sequence is taken from the rows, not from the counter. *)
NewRowFromRows(q, id) ==
    [queue |-> q, sequence |-> Cardinality(RowsOf(q)) + 1, id |-> id, attempts |-> 0]

NewRow(q, id) == [queue |-> q, sequence |-> sequences[q] + 1, id |-> id, attempts |-> 0]

EnqueueFifo(q, id) ==
    \/ /\ sequences[q] + 1 <= I64Max
       /\ ~IdWaiting(id)
       /\ sequences' = [sequences EXCEPT ![q] = sequences[q] + 1]
       /\ fifo' = fifo \cup {NewRow(q, id)}
       /\ reply' = FifoAnswer(q, "ok")
    \/ /\ sequences[q] + 1 > I64Max
       /\ reply' = FifoAnswer(q, "InvalidArgument")
       /\ UNCHANGED <<sequences, fifo>>
    \/ /\ sequences[q] + 1 <= I64Max
       /\ IdWaiting(id)
       /\ reply' = FifoAnswer(q, "Storage")
       /\ UNCHANGED <<sequences, fifo>>

(* Seeded fault: whatever is the front is acknowledged. *)
AckFifoAnyFront(q, id) ==
    /\ \E r \in RowsOf(q) : IsFirst(r) /\ fifo' = fifo \ {r}
    /\ reply' = FifoAnswer(q, "acknowledged")
    /\ UNCHANGED sequences

(* update_fifo_front with FifoFrontAction::Ack: the front leaves the queue *)
AckFifo(q, id) ==
    /\ \E r \in RowsOf(q) : /\ IsFirst(r) /\ r.id = id
                            /\ fifo' = fifo \ {r}
    /\ reply' = FifoAnswer(q, "acknowledged")
    /\ UNCHANGED sequences

(* Seeded fault: the attempts counter does not saturate. *)
Unsaturated(n) == n + 1

Saturating(n) == IF n < U32Max THEN n + 1 ELSE U32Max

(* Seeded fault: a rejected message is dropped. *)
RejectFifoDrops(q, id) ==
    /\ \E r \in RowsOf(q) : /\ IsFirst(r) /\ r.id = id
                            /\ fifo' = fifo \ {r}
    /\ reply' = FifoAnswer(q, "rejected")
    /\ UNCHANGED sequences

(* update_fifo_front with FifoFrontAction::Reject: one more attempt, and the
   message stays where it is *)
RejectFifo(q, id) ==
    /\ \E r \in RowsOf(q) :
         /\ IsFirst(r) /\ r.id = id
         /\ fifo' = (fifo \ {r}) \cup {[r EXCEPT !.attempts = Saturating(r.attempts)]}
    /\ reply' = FifoAnswer(q, "rejected")
    /\ UNCHANGED sequences

(* update_fifo_front for a message that is not the front: nothing happens *)
NotFront(q, id) ==
    /\ ~ \E r \in RowsOf(q) : IsFirst(r) /\ r.id = id
    /\ reply' = FifoAnswer(q, "ignored")
    /\ UNCHANGED <<sequences, fifo>>

FifoNext == \E q \in Queue, id \in Id :
               \/ EnqueueFifo(q, id) \/ AckFifo(q, id)
               \/ RejectFifo(q, id)  \/ NotFront(q, id)

FifoSpec == FifoInit /\ [][FifoNext]_fifoVars

----------------------------------------------------------------------------
Answers == {"none", "ok", "acknowledged", "rejected", "ignored", "InvalidArgument", "Storage"}

FifoTypeOK == /\ sequences \in [Queue -> 0 .. I64Max]
              /\ fifo \subseteq FifoRow
              /\ reply \in [queue : Queue \cup {"none"}, answer : Answers]

(* The rows of a queue are the newest sequence numbers given out in it, with
   none missing in between and none twice.  Were the counter taken from the
   rows, it would start again when a queue runs empty. *)
Waiting(q) == Cardinality(RowsOf(q))

WaitingAreNewest ==
    \A q \in Queue :
        {r.sequence : r \in RowsOf(q)} = (sequences[q] - Waiting(q) + 1) .. sequences[q]

(***************************************************************************)
(* The tables implement the contract.                                      *)
(***************************************************************************)
RowWith(q, s) == CHOOSE r \in RowsOf(q) : r.sequence = s

QueueOf(q) ==
    [k \in 1 .. Waiting(q) |->
        LET r == RowWith(q, sequences[q] - Waiting(q) + k)
        IN  [id |-> r.id, attempts |-> r.attempts]]

Contract == INSTANCE FifoContract
               WITH queue <- [q \in Queue |-> QueueOf(q)],
                    total <- sequences,
                    Capacity <- I64Max,
                    UniqueIds <- TRUE,
                    MaxAttempts <- U32Max

(* Sequence numbers and ORDER BY give the contract's first-in first-out
   queues: a stale acknowledgement is ignored, a rejected message stays first. *)
ImplementsFifo == Contract!AbsSpec
=============================================================================
