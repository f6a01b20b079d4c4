---------------------------- MODULE MCRedbStore ----------------------------
(* Two logs and two queues whose keys are neighbours, and numbers of two
   digits to the base 3, so that 3 has more significant digits than 2.  Message
   and FIFO operations share no table and are explored apart. *)
EXTENDS RedbStore, TLC

CONSTANTS MaxRows,        \* bound: messages in both logs, or waiting in both queues
          MaxMarkers,     \* bound: messages in a log of markers
          MaxTombstones   \* bound: recorded ranges

Apart == reply.op = "none" \/ fifo_reply.answer = "none"

Few == /\ Cardinality(DOMAIN messages) <= MaxRows
       /\ Cardinality(DOMAIN fifo) <= MaxRows
       /\ \A l \in MarkerLog : heads[l] <= MaxMarkers
       /\ Cardinality(DOMAIN tombstones) <= MaxTombstones

Symmetry == Permutations(Id) \cup Permutations(FifoId)
=============================================================================
