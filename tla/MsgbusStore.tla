---------------------------- MODULE MsgbusStore ----------------------------
(***************************************************************************)
(* What the MsgbusStore trait (crates/msgbus-core/src/lib.rs) promises of  *)
(* the message log, whichever backend implements it.                       *)
(*                                                                         *)
(* A log is a sequence: the message with head id h is its h-th element, so *)
(* there is nothing to keep in step, no gap and no second message with the *)
(* same head id.  Deletion is a flag that the recorded ranges set.         *)
(***************************************************************************)
EXTENDS Naturals, Sequences, FiniteSets

CONSTANTS Log, Id,
          Capacity,   \* the longest log stored
          MaxRange,   \* the largest range bound stored
          UniqueIds,  \* the backend refuses a second message with the same id
          HeadIds     \* the head ids callers name

VARIABLES log,    \* log[l]: sequence of [id, deleted]
          tombs,  \* tombs[l]: set of recorded ranges <<from, to>>
          reply   \* the last operation, and what it returned

absVars == <<log, tombs, reply>>

Covered(ts, h) == \E r \in ts : r[1] <= h /\ h <= r[2]

Entry(id, deleted) == [id |-> id, deleted |-> deleted]

Stored(id) == UniqueIds /\ \E l \in Log : \E h \in 1 .. Len(log[l]) : log[l][h].id = id

(* The log s once the range <<f, t>> is deleted *)
Flagged(s, f, t) ==
    [h \in 1 .. Len(s) |-> Entry(s[h].id, s[h].deleted \/ (f <= h /\ h <= t))]

Live(s, f, t) == {h \in 1 .. Len(s) : f <= h /\ h <= t /\ ~s[h].deleted}

Return(op, kind, value) == reply' = [op |-> op, kind |-> kind, value |-> value]

Refused(op, kind) == Return(op, kind, 0) /\ UNCHANGED <<log, tombs>>

AbsInit == /\ log = [l \in Log |-> <<>>]
           /\ tombs = [l \in Log |-> {}]
           /\ reply = [op |-> "none", kind |-> "none", value |-> 0]

(* Append at the end; a deleted range may already reach the new head id. *)
Appended(s, ts, id) == Append(s, Entry(id, Covered(ts, Len(s) + 1)))

AbsAppend(l, id) ==
    \/ /\ Len(log[l]) < Capacity
       /\ ~Stored(id)
       /\ Return("append", "ok", Len(log[l]) + 1)
       /\ log' = [log EXCEPT ![l] = Appended(log[l], tombs[l], id)]
       /\ UNCHANGED tombs
    \/ /\ Refused("append", "InvalidArgument")
       /\ Len(log[l]) = Capacity
    \/ /\ Refused("append", "Storage")
       /\ Len(log[l]) < Capacity
       /\ Stored(id)

(* A message copied from a peer goes where the origin put it, or nowhere. *)
AbsReplicate(l, h, id, d) ==
    LET deleted == d \/ Covered(tombs[l], h) IN
    \/ /\ Refused("put", "InvalidArgument")
       /\ h \notin 1 .. Len(log[l]) + 1 \/ h > Capacity
    \/ /\ Refused("put", "AlreadyPresent")
       /\ h \in 1 .. Len(log[l])
       /\ log[l][h] = Entry(id, deleted)
    \/ /\ Return("put", "Inserted", 0)
       /\ h \in 1 .. Len(log[l])
       /\ log[l][h] = Entry(id, FALSE) /\ deleted
       /\ log' = [log EXCEPT ![l][h] = Entry(id, TRUE)]
       /\ UNCHANGED tombs
    \/ /\ Refused("put", "Conflict")
       /\ h \in 1 .. Len(log[l])
       /\ log[l][h].id # id \/ (log[l][h].deleted /\ ~deleted)
    \/ /\ Return("put", "Inserted", 0)
       /\ h = Len(log[l]) + 1 /\ h <= Capacity
       /\ ~Stored(id)
       /\ log' = [log EXCEPT ![l] = Append(log[l], Entry(id, deleted))]
       /\ UNCHANGED tombs
    \/ /\ Refused("put", "Storage")
       /\ h = Len(log[l]) + 1 /\ h <= Capacity
       /\ Stored(id)

(* Delete a range: the entries there now, and those that come later. *)
AbsDelete(l, f, t) ==
    \/ /\ f <= t /\ t <= MaxRange
       /\ tombs' = [tombs EXCEPT ![l] = tombs[l] \cup {<<f, t>>}]
       /\ Return("delete", "ok", Cardinality(Live(log[l], f, t)))
       /\ log' = [log EXCEPT ![l] = Flagged(log[l], f, t)]
    \/ /\ Refused("delete", "InvalidArgument")
       /\ f > t \/ t > MaxRange

(* Delete a range and announce it in some log: both happen, or neither. *)
AbsDeleteAndAnnounce(l, f, t) ==
    \/ /\ f <= t /\ t <= MaxRange
       /\ tombs' = [tombs EXCEPT ![l] = tombs[l] \cup {<<f, t>>}]
       /\ Return("announce", "ok", Cardinality(Live(log[l], f, t)))
       /\ \E ml \in Log, id \in Id :
             /\ Len(log[ml]) < Capacity
             /\ ~Stored(id)
             /\ LET flagged == [log EXCEPT ![l] = Flagged(log[l], f, t)]
                IN  log' = [flagged EXCEPT ![ml] = Appended(flagged[ml], tombs'[ml], id)]
    \/ /\ Refused("announce", "InvalidArgument")
       /\ f > t \/ t > MaxRange \/ \E ml \in Log : Len(log[ml]) = Capacity
    \/ /\ Refused("announce", "Storage")
       /\ f <= t /\ t <= MaxRange
       /\ \E ml \in Log, id \in Id : Len(log[ml]) < Capacity /\ Stored(id)

Called(op) == reply'.op = op

AbsNext ==
    \/ Called("append") /\ \E l \in Log, id \in Id : AbsAppend(l, id)
    \/ /\ Called("put")
       /\ \E l \in Log, h \in HeadIds, id \in Id, d \in BOOLEAN : AbsReplicate(l, h, id, d)
    \/ Called("delete") /\ \E l \in Log, f, t \in HeadIds : AbsDelete(l, f, t)
    \/ /\ Called("announce")
       /\ \E l \in Log, f, t \in HeadIds : AbsDeleteAndAnnounce(l, f, t)

AbsSpec == AbsInit /\ [][AbsNext]_absVars
=============================================================================
