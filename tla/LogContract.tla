---------------------------- MODULE LogContract ----------------------------
(***************************************************************************)
(* The values the message-log operations of the MsgbusStore trait compute. *)
(* A log is a sequence of entries, records with a field `deleted`; the     *)
(* entry with head id h is the h-th.  A set of pairs <<from, to>> holds    *)
(* the log's recorded tombstone ranges.  No operation ever leaves a gap or *)
(* a second entry with the same head id, which is what lets a sequence     *)
(* stand for the tables of a backend (SqliteStore shows it does).          *)
(***************************************************************************)
EXTENDS Naturals, Sequences

Covered(ts, h) == \E r \in ts : r[1] <= h /\ h <= r[2]

(* Seeded fault: the flag is computed anew and forgets earlier deletions. *)
MarkedAnew(e, ts, h) == [e EXCEPT !.deleted = Covered(ts, h)]

(* apply_tombstone_markers on the entry e with head id h *)
Marked(e, ts, h) == [e EXCEPT !.deleted = e.deleted \/ Covered(ts, h)]

(* append_message_in_txn *)
Placed(s, ts, e) == Append(s, Marked(e, ts, Len(s) + 1))

(* tombstone_range_in_txn, for every range in ts *)
Flagged(s, ts) == [h \in 1 .. Len(s) |-> Marked(s[h], ts, h)]

SameExceptDeleted(d, e) == [d EXCEPT !.deleted = TRUE] = [e EXCEPT !.deleted = TRUE]

(* put_replicated_message: what it answers, and the log it leaves *)
Outcome(s, ts, h, e) ==
    CASE h = 0 \/ h > Len(s) + 1          -> "InvalidArgument"
      [] h = Len(s) + 1                   -> "Inserted"
      [] OTHER ->
           CASE s[h] = Marked(e, ts, h)   -> "AlreadyPresent"
             [] /\ s[h] # Marked(e, ts, h)
                /\ SameExceptDeleted(s[h], e) /\ Marked(e, ts, h).deleted -> "Inserted"
             [] OTHER                     -> "Conflict"

Replicated(s, ts, h, e) ==
    CASE h = Len(s) + 1                      -> Placed(s, ts, e)
      [] h \in 1 .. Len(s) /\ Outcome(s, ts, h, e) = "Inserted"
                                             -> [s EXCEPT ![h] = Marked(e, ts, h)]
      [] OTHER                               -> s
=============================================================================
