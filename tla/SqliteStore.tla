---------------------------- MODULE SqliteStore ----------------------------
(***************************************************************************)
(* The message tables of the SQLite backend                                *)
(* (crates/msgbus-store-sqlite/src/lib.rs).                                *)
(*                                                                         *)
(* Every operation takes the connection mutex and runs in one transaction, *)
(* so each is one action here.  An operation that returns an error drops   *)
(* its transaction and leaves the tables as they were.                     *)
(*                                                                         *)
(* A member of Log stands for a (topic, origin_key) pair.  A member of Id  *)
(* stands for what same_message_except_deleted compares beside the key:    *)
(* the UUID, payload, headers and creation time of a message.              *)
(***************************************************************************)
EXTENDS Naturals, FiniteSets

CONSTANTS Log,      \* the (topic, origin_key) pairs
          Id,       \* message identities (UUID and content)
          I64Max,   \* the largest integer an SQLite column holds
          U64Max    \* the largest head id a caller can name

ASSUME WidthAssumption == /\ I64Max \in Nat \ {0}
                          /\ U64Max \in Nat
                          /\ I64Max < U64Max

VARIABLES heads,       \* table heads; 0 stands for a missing row
          messages,    \* table messages, a set of rows
          tombstones,  \* table tombstones, a set of rows
          reply        \* the last operation, and what it returned to its caller

vars == <<heads, messages, tombstones, reply>>

Row == [log : Log, head_id : Nat, id : Id, deleted : BOOLEAN]
Tombstone == [log : Log, from_head_id : Nat, to_head_id : Nat]
Answer(op, kind, value) == [op |-> op, kind |-> kind, value |-> value]
Ops == {"none", "append", "put", "delete", "announce"}
Kinds == {"none", "ok", "Inserted", "AlreadyPresent",
          "Conflict", "InvalidArgument", "Storage"}

Init == /\ heads = [l \in Log |-> 0]
        /\ messages = {}
        /\ tombstones = {}
        /\ reply = Answer("none", "none", 0)

Refuse(op, kind) == /\ reply' = Answer(op, kind, 0)
                    /\ UNCHANGED <<heads, messages, tombstones>>

(* Seeded fault: the column width is not checked. *)
StorableAnyU64(n) == n <= U64Max

(* u64_to_i64 succeeds *)
Storable(n) == n <= I64Max

InRange(m, r) == /\ r.log = m.log
                 /\ r.from_head_id <= m.head_id
                 /\ m.head_id <= r.to_head_id

(* Seeded fault: a message ignores the tombstones recorded before it came. *)
MarkedNever(m, ts) == m

(* apply_tombstone_markers: the message as it is stored under tombstones ts *)
Marked(m, ts) == [m EXCEPT !.deleted = m.deleted \/ \E r \in ts : InRange(m, r)]

(* idx_messages_id refuses a second row with the same id *)
IdTaken(id) == \E m \in messages : m.id = id

(* Seeded fault: the message takes the current head id, the head moves on. *)
AppendedRowAtCurrent(l, id, ts) ==
    Marked([log |-> l, head_id |-> heads[l], id |-> id, deleted |-> FALSE], ts)

(* The row append_message_in_tx writes when the tombstones are ts *)
AppendedRow(l, id, ts) ==
    Marked([log |-> l, head_id |-> heads[l] + 1, id |-> id, deleted |-> FALSE], ts)

(* Seeded fault: the rows are removed instead of flagged. *)
DeletedRows(r) == {m \in messages : ~InRange(m, r)}

(* The messages table after the UPDATE of tombstone_range_in_tx *)
Deleted(r) == {[m EXCEPT !.deleted = m.deleted \/ InRange(m, r)] : m \in messages}

(* Seeded fault: rows deleted before are counted again. *)
ChangedAll(r) == Cardinality({m \in messages : InRange(m, r)})

(* How many rows that UPDATE changes *)
Changed(r) == Cardinality({m \in messages : InRange(m, r) /\ ~m.deleted})

(***************************************************************************)
(* append_message                                                          *)
(***************************************************************************)
AppendMessage(l, id) ==
    \/ /\ Storable(heads[l] + 1)
       /\ ~IdTaken(id)
       /\ heads' = [heads EXCEPT ![l] = heads[l] + 1]
       /\ messages' = messages \cup {AppendedRow(l, id, tombstones)}
       /\ reply' = Answer("append", "ok", heads[l] + 1)
       /\ UNCHANGED tombstones
    \/ /\ ~Storable(heads[l] + 1)
       /\ Refuse("append", "InvalidArgument")
    \/ /\ Storable(heads[l] + 1)
       /\ IdTaken(id)
       /\ Refuse("append", "Storage")

(***************************************************************************)
(* put_replicated_message: a row some peer sent, one action per outcome    *)
(***************************************************************************)
Existing(m) == {e \in messages : e.log = m.log /\ e.head_id = m.head_id}

PutInvalid(m) ==
    /\ m.head_id = 0 \/ ~Storable(m.head_id)
    /\ Refuse("put", "InvalidArgument")

PutAlreadyPresent(m) ==
    /\ m.head_id > 0 /\ Storable(m.head_id)
    /\ Marked(m, tombstones) \in Existing(m)
    /\ Refuse("put", "AlreadyPresent")

(* The row is there, not yet deleted, and the incoming copy is. *)
PutDeletion(m) ==
    /\ m.head_id > 0 /\ Storable(m.head_id)
    /\ Marked(m, tombstones).deleted
    /\ \E e \in Existing(m) :
          /\ e.id = m.id /\ ~e.deleted
          /\ messages' = (messages \ {e}) \cup {Marked(m, tombstones)}
    /\ reply' = Answer("put", "Inserted", 0)
    /\ UNCHANGED <<heads, tombstones>>

PutConflict(m) ==
    /\ m.head_id > 0 /\ Storable(m.head_id)
    /\ \E e \in Existing(m) :
          /\ e # Marked(m, tombstones)
          /\ e.id = m.id => ~Marked(m, tombstones).deleted
    /\ Refuse("put", "Conflict")

(* Seeded fault: one message may be skipped. *)
LeavesLongGap(m) == m.head_id > heads[m.log] + 2

LeavesGap(m) == m.head_id > heads[m.log] + 1

PutGap(m) ==
    /\ Storable(m.head_id)
    /\ Existing(m) = {}
    /\ LeavesGap(m)
    /\ Refuse("put", "InvalidArgument")

PutInsert(m) ==
    /\ m.head_id > 0 /\ Storable(m.head_id)
    /\ Existing(m) = {}
    /\ ~LeavesGap(m)
    /\ \/ /\ ~IdTaken(m.id)
          /\ messages' = messages \cup {Marked(m, tombstones)}
          /\ heads' = [heads EXCEPT ![m.log] =
                          IF heads[m.log] < m.head_id THEN m.head_id ELSE heads[m.log]]
          /\ reply' = Answer("put", "Inserted", 0)
          /\ UNCHANGED tombstones
       \/ /\ IdTaken(m.id)
          /\ Refuse("put", "Storage")

PutReplicatedMessage(m) ==
    \/ PutInvalid(m)  \/ PutAlreadyPresent(m) \/ PutDeletion(m)
    \/ PutConflict(m) \/ PutGap(m)            \/ PutInsert(m)

(***************************************************************************)
(* tombstone_range: flag the stored rows and record the range, so that     *)
(* rows that arrive later are flagged too                                  *)
(***************************************************************************)
RangeRefused(r) == \/ r.from_head_id > r.to_head_id
                   \/ ~Storable(r.to_head_id)

TombstoneRange(r) ==
    \/ /\ ~RangeRefused(r)
       /\ messages' = Deleted(r)
       /\ tombstones' = tombstones \cup {r}
       /\ reply' = Answer("delete", "ok", Changed(r))
       /\ UNCHANGED heads
    \/ /\ RangeRefused(r)
       /\ Refuse("delete", "InvalidArgument")

(* tombstone_range_with_marker: the same, and the marker message appended to
   log ml, in one transaction; a marker that cannot be stored undoes it all. *)
TombstoneRangeWithMarker(r, ml, id) ==
    \/ /\ ~RangeRefused(r)
       /\ Storable(heads[ml] + 1)
       /\ ~IdTaken(id)
       /\ messages' = Deleted(r) \cup {AppendedRow(ml, id, tombstones \cup {r})}
       /\ tombstones' = tombstones \cup {r}
       /\ heads' = [heads EXCEPT ![ml] = heads[ml] + 1]
       /\ reply' = Answer("announce", "ok", Changed(r))
    \/ /\ RangeRefused(r) \/ ~Storable(heads[ml] + 1)
       /\ Refuse("announce", "InvalidArgument")
    \/ /\ ~RangeRefused(r) /\ Storable(heads[ml] + 1)
       /\ IdTaken(id)
       /\ Refuse("announce", "Storage")

Next == \/ \E l \in Log, id \in Id : AppendMessage(l, id)
        \/ \E l \in Log, h \in 0 .. U64Max, id \in Id, d \in BOOLEAN :
              PutReplicatedMessage([log |-> l, head_id |-> h, id |-> id, deleted |-> d])
        \/ \E l \in Log, f, t \in 0 .. U64Max :
              LET r == [log |-> l, from_head_id |-> f, to_head_id |-> t]
              IN  \/ TombstoneRange(r)
                  \/ \E ml \in Log, id \in Id : TombstoneRangeWithMarker(r, ml, id)

Spec == Init /\ [][Next]_vars

----------------------------------------------------------------------------
(***************************************************************************)
(* Queries                                                                 *)
(***************************************************************************)
(* list_heads: the join of heads with the message at the head *)
ListHeads == {<<l, heads[l]>> :
                 l \in {k \in Log : \E m \in messages : m.log = k /\ m.head_id = heads[k]}}

(* Seeded fault: the page starts after the head id asked for. *)
FetchMessagesAfter(l, from, limit) ==
    LET found == {m \in messages : m.log = l /\ m.head_id > from}
    IN  {m \in found : Cardinality({e \in found : e.head_id < m.head_id}) < limit}

(* fetch_messages: WHERE head_id >= from ORDER BY head_id LIMIT limit *)
FetchMessages(l, from, limit) ==
    LET found == {m \in messages : m.log = l /\ m.head_id >= from}
    IN  {m \in found : Cardinality({e \in found : e.head_id < m.head_id}) < limit}

----------------------------------------------------------------------------
TypeOK == /\ heads \in [Log -> 0 .. I64Max]
          /\ messages \subseteq Row
          /\ tombstones \subseteq Tombstone
          /\ reply \in [op : Ops, kind : Kinds, value : Nat]

(* A log is gap-free: its rows carry the head ids 1 .. head, each once.  Two
   tables written by four operations (append, two branches of
   put_replicated_message, the delete marker) have to stay in step for this. *)
GapFree == /\ \A l \in Log : \A h \in 1 .. heads[l] :
                \E m \in messages : m.log = l /\ m.head_id = h
           /\ \A m \in messages : m.head_id \in 1 .. heads[m.log]
           /\ \A m, e \in messages :
                m.log = e.log /\ m.head_id = e.head_id => m = e

(* Whatever the order in which a delete and the messages of its range reach
   the store, a stored message that a recorded tombstone covers is deleted. *)
TombstonesApplied ==
    \A m \in messages, r \in tombstones : InRange(m, r) => m.deleted

(* list_heads reports every log that has a head: its join, which would skip a
   head without a message (and so hide the log from every peer), never does. *)
ListHeadsComplete ==
    ListHeads = {<<l, heads[l]>> : l \in {k \in Log : heads[k] > 0}}

(* A page of fetch_messages is the next limit messages of the log, none left
   out: what peer sync and control replay page through. *)
FetchIsSlice ==
    \A l \in Log, from \in 1 .. I64Max, limit \in 1 .. I64Max :
        {m.head_id : m \in FetchMessages(l, from, limit)} =
            {h \in from .. from + limit - 1 : h <= heads[l]}

(* No step changes or removes a stored message, takes back a deletion, or
   moves a head backwards: the log is append-only and tombstones are final. *)
Kept == /\ \A m \in messages : \E e \in messages' :
              /\ e.log = m.log /\ e.head_id = m.head_id /\ e.id = m.id
              /\ m.deleted => e.deleted
        /\ \A l \in Log : heads'[l] >= heads[l]
        /\ tombstones \subseteq tombstones'

AppendOnly == [][Kept]_vars

(***************************************************************************)
(* The tables implement the trait: read back as sequences, every operation *)
(* is the trait's operation, replies included.                             *)
(***************************************************************************)
RowAt(l, h) == CHOOSE m \in messages : m.log = l /\ m.head_id = h

LogOf(l) == [h \in 1 .. heads[l] |-> [id |-> RowAt(l, h).id, deleted |-> RowAt(l, h).deleted]]

RangesOf(l) == {<<r.from_head_id, r.to_head_id>> : r \in {q \in tombstones : q.log = l}}

Store == INSTANCE MsgbusStore
            WITH log <- [l \in Log |-> LogOf(l)],
                 tombs <- [l \in Log |-> RangesOf(l)],
                 Capacity <- I64Max,
                 MaxRange <- I64Max,
                 HeadIds <- 0 .. U64Max,
                 UniqueIds <- TRUE

(* SqliteStore implements the store contract. *)
ImplementsStore == Store!AbsSpec
=============================================================================
