--------------------------- MODULE SqliteDatabase ---------------------------
(***************************************************************************)
(* The SQLite database of a daemon: the message tables of SqliteStore and  *)
(* the FIFO tables of FifoQueue, in one file and behind one mutex.         *)
(***************************************************************************)
EXTENDS SqliteStore

CONSTANTS Queue, FifoId, U32Max

ASSUME AttemptsAssumption == U32Max \in Nat \ {0}

VARIABLES sequences, fifo, fifo_reply

F == INSTANCE FifoQueue WITH reply <- fifo_reply, Id <- FifoId

databaseVars == <<heads, messages, tombstones, reply, sequences, fifo, fifo_reply>>

DatabaseInit == Init /\ F!FifoInit

DatabaseNext == \/ Next /\ UNCHANGED <<sequences, fifo, fifo_reply>>
                \/ F!FifoNext /\ UNCHANGED vars

DatabaseSpec == DatabaseInit /\ [][DatabaseNext]_databaseVars

(* The rows of a queue are the newest sequence numbers given out in it: an
   emptied queue does not start again. *)
WaitingAreNewest == F!WaitingAreNewest

(* The FIFO tables implement first-in first-out queues, also where sequence
   numbers run out, attempts saturate and an id is enqueued twice. *)
ImplementsFifo == F!ImplementsFifo
=============================================================================
