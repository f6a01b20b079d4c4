--------------------------- MODULE MCSqliteStore ---------------------------
(* Two logs, an application log and the delete-marker log; callers that may
   name one head id more than the columns hold; two queues that run out of
   sequence numbers.  Message and FIFO operations share no table and are
   explored apart. *)
EXTENDS SqliteDatabase, TLC

CONSTANT MaxTombstones   \* bound: recorded ranges

FewTombstones == Cardinality(tombstones) <= MaxTombstones

Apart == reply.op = "none" \/ fifo_reply.answer = "none"

(* No definition tells the two logs apart either: any log may take the marker. *)
Symmetry == Permutations(Id) \cup Permutations(Log)
=============================================================================
