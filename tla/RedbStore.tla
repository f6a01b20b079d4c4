----------------------------- MODULE RedbStore -----------------------------
(***************************************************************************)
(* The redb backend (crates/msgbus-store-redb/src/lib.rs).                 *)
(*                                                                         *)
(* redb has no queries.  A table maps keys, which are strings, to rows;    *)
(* all the code can do is look a key up and walk the table in the order of *)
(* the keys.  So what a scan finds, and where it may stop, rests on how    *)
(* keys are built: a prefix for the log or queue, which no other prefix    *)
(* begins with (enc leaves no '/' in a name), then the number, padded to a *)
(* fixed width.  A key is here the sequence of the rank of its prefix and  *)
(* of its digits.                                                          *)
(*                                                                         *)
(* redb has one write transaction at a time, so every operation is one     *)
(* action.  An operation that returns an error does not commit.            *)
(***************************************************************************)
EXTENDS Naturals, Sequences, FiniteSetsExt

CONSTANTS Log,        \* the (topic, origin key) pairs, by the rank of their prefix
          MarkerLog,  \* those that take delete markers
          Id,         \* message identities: id, origin, content
          Queue,      \* the FIFO queues, by the rank of their prefix
          FifoId,     \* identities of FIFO messages
          Base,       \* of the digits (10 in the code)
          Width,      \* digits in a key (20)
          Bounds,     \* the ends of ranges that callers name
          U32Max,     \* where saturating_add stops the attempts counter
          MaxHead,    \* bound: messages per log
          MaxSequence \* bound: messages ever enqueued per queue

(* The value of a digit 1 with i digits behind it *)
Power[i \in Nat] == IF i = 0 THEN 1 ELSE Base * Power[i - 1]

U64Max == Power[Width] - 1   \* every u64 fits the width, as with 20 digits

ASSUME RedbAssumption ==
    /\ Log \subseteq Nat /\ MarkerLog \subseteq Log /\ Queue \subseteq Nat
    /\ Base \in Nat \ {0, 1} /\ Width \in Nat \ {0} /\ U32Max \in Nat \ {0}
    /\ Bounds \subseteq 0 .. U64Max
    /\ MaxHead \in Nat /\ MaxHead < U64Max
    /\ MaxSequence \in Nat /\ MaxSequence < U64Max

VARIABLES heads,       \* table heads; 0 stands for a missing row
          messages,    \* table messages: keys to rows
          tombstones,  \* table tombstones: keys to ranges
          sequences,   \* table fifo_sequences; 0 stands for a missing row
          fifo,        \* table fifo_messages: keys to rows
          reply,       \* the last message operation, and what it returned
          fifo_reply   \* the last FIFO operation, its queue and what it returned

logVars == <<heads, messages, tombstones, reply>>
fifoVars == <<sequences, fifo, fifo_reply>>
vars == <<heads, messages, tombstones, sequences, fifo, reply, fifo_reply>>

Answer(op, kind, value) == [op |-> op, kind |-> kind, value |-> value]

FifoAnswer(q, a) == [queue |-> q, answer |-> a]

Init == /\ heads = [l \in Log |-> 0]
        /\ messages = <<>> /\ tombstones = <<>> /\ fifo = <<>>
        /\ sequences = [q \in Queue |-> 0]
        /\ reply = Answer("none", "none", 0)
        /\ fifo_reply = FifoAnswer("none", "none")

----------------------------------------------------------------------------
(***************************************************************************)
(* Keys and tables                                                         *)
(***************************************************************************)
Digit(n, i) == (n \div Power[i]) % Base

(* Seeded fault: {} instead of {:020}. *)
DigitsUnpadded(n) ==
    LET w == CHOOSE w \in 1 .. Width : n < Power[w] /\ (w = 1 \/ n >= Power[w - 1])
    IN  [i \in 1 .. w |-> Digit(n, w - i)]

(* {:020} *)
Digits(n) == [i \in 1 .. Width |-> Digit(n, Width - i)]

Prefix(p) == <<p>>
MessageKey(l, h) == Prefix(l) \o Digits(h)
TombstoneKey(l, f, t) == Prefix(l) \o Digits(f) \o Digits(t)
FifoKey(q, s) == Prefix(q) \o Digits(s)

(* The order of strings *)
Before(j, k) ==
    \E i \in 1 .. Len(k) :
        /\ i <= Len(j) + 1 /\ \A d \in 1 .. i - 1 : j[d] = k[d]
        /\ i <= Len(j) => j[i] < k[i]

(* key.starts_with(&prefix) *)
StartsWith(key, prefix) ==
    Len(prefix) <= Len(key) /\ SubSeq(key, 1, Len(prefix)) = prefix

(* table.range(start..) *)
RangeFrom(table, start) == {k \in DOMAIN table : ~Before(k, start)}

(* The keys a loop over range(start..) reaches that breaks at the first key
   without the prefix *)
Walk(table, prefix, start) ==
    LET range == RangeFrom(table, start)
    IN  {k \in range : \A j \in range : ~Before(k, j) => StartsWith(j, prefix)}

Insert(table, k, v) == [j \in DOMAIN table \cup {k} |-> IF j = k THEN v ELSE table[j]]

Without(table, k) == [j \in DOMAIN table \ {k} |-> table[j]]

----------------------------------------------------------------------------
(***************************************************************************)
(* Messages                                                                *)
(***************************************************************************)
Refuse(op, kind) == /\ reply' = Answer(op, kind, 0)
                    /\ UNCHANGED <<heads, messages, tombstones>>

(* apply_tombstone_markers, with the tombstones table ts *)
Marked(m, ts) ==
    [m EXCEPT !.deleted = m.deleted \/ \E k \in Walk(ts, Prefix(m.log), Prefix(m.log)) :
                                          ts[k].from <= m.head_id /\ m.head_id <= ts[k].to]

NewRow(l, h, id, d) == [log |-> l, head_id |-> h, id |-> id, deleted |-> d]

(* Seeded fault: the message goes under the key of the head before it. *)
AppendedLate(table, l, id, ts) ==
    Insert(table, MessageKey(l, heads[l]), Marked(NewRow(l, heads[l] + 1, id, FALSE), ts))

(* The messages table once append_message_in_txn has added to it *)
Appended(table, l, id, ts) ==
    Insert(table, MessageKey(l, heads[l] + 1), Marked(NewRow(l, heads[l] + 1, id, FALSE), ts))

AppendMessage(l, id) ==
    /\ heads[l] < MaxHead
    /\ heads' = [heads EXCEPT ![l] = heads[l] + 1]
    /\ messages' = Appended(messages, l, id, tombstones)
    /\ reply' = Answer("append", "ok", heads[l] + 1)
    /\ UNCHANGED tombstones

Present(m) == MessageKey(m.log, m.head_id) \in DOMAIN messages

Existing(m) == messages[MessageKey(m.log, m.head_id)]

PutInvalid(m) ==
    /\ m.head_id = 0 \/ (~Present(m) /\ m.head_id > heads[m.log] + 1)
    /\ Refuse("put", "InvalidArgument")

PutAlreadyPresent(m) ==
    /\ m.head_id > 0 /\ Present(m)
    /\ Existing(m) = Marked(m, tombstones)
    /\ Refuse("put", "AlreadyPresent")

PutConflict(m) ==
    /\ m.head_id > 0 /\ Present(m)
    /\ Existing(m) # Marked(m, tombstones)
    /\ Existing(m).id = m.id => ~Marked(m, tombstones).deleted
    /\ Refuse("put", "Conflict")

(* A new row at the end, or the deletion of one that is there; then the head
   is raised *)
PutInserted(m) ==
    /\ m.head_id > 0 /\ m.head_id <= MaxHead
    /\ IF Present(m) THEN /\ Existing(m) # Marked(m, tombstones)
                          /\ Existing(m).id = m.id /\ Marked(m, tombstones).deleted
                     ELSE m.head_id <= heads[m.log] + 1
    /\ messages' = Insert(messages, MessageKey(m.log, m.head_id), Marked(m, tombstones))
    /\ heads' = [heads EXCEPT ![m.log] = IF @ < m.head_id THEN m.head_id ELSE @]
    /\ reply' = Answer("put", "Inserted", 0)
    /\ UNCHANGED tombstones

PutReplicatedMessage(m) ==
    PutInvalid(m) \/ PutAlreadyPresent(m) \/ PutConflict(m) \/ PutInserted(m)

(* Seeded fault: the loop does not stop at the end of the range. *)
TouchedToEnd(l, f, t) == Walk(messages, Prefix(l), MessageKey(l, f))

(* The rows the loop of tombstone_range_in_txn visits: it breaks at the first
   one past the range *)
Touched(l, f, t) ==
    LET walk == Walk(messages, Prefix(l), MessageKey(l, f))
    IN  {k \in walk : \A j \in walk : ~Before(k, j) => messages[j].head_id <= t}

Deleted(l, f, t) ==
    [k \in DOMAIN messages |->
        [messages[k] EXCEPT !.deleted = messages[k].deleted \/ k \in Touched(l, f, t)]]

Changed(l, f, t) == Cardinality({k \in Touched(l, f, t) : ~messages[k].deleted})

Recorded(l, f, t) == Insert(tombstones, TombstoneKey(l, f, t), [log |-> l, from |-> f, to |-> t])

TombstoneRange(l, f, t) ==
    \/ /\ f <= t
       /\ messages' = Deleted(l, f, t)
       /\ tombstones' = Recorded(l, f, t)
       /\ reply' = Answer("delete", "ok", Changed(l, f, t))
       /\ UNCHANGED heads
    \/ f > t /\ Refuse("delete", "InvalidArgument")

TombstoneRangeWithMarker(l, f, t, ml, id) ==
    \/ /\ f <= t /\ heads[ml] < MaxHead
       /\ tombstones' = Recorded(l, f, t)
       /\ messages' = Appended(Deleted(l, f, t), ml, id, Recorded(l, f, t))
       /\ heads' = [heads EXCEPT ![ml] = heads[ml] + 1]
       /\ reply' = Answer("announce", "ok", Changed(l, f, t))
    \/ f > t /\ Refuse("announce", "InvalidArgument")

LogNext ==
    \/ \E l \in Log, id \in Id : AppendMessage(l, id)
    \/ \E l \in Log, h \in 0 .. MaxHead + 1, id \in Id, d \in BOOLEAN :
          PutReplicatedMessage(NewRow(l, h, id, d))
    \/ \E l \in Log, f, t \in Bounds :
          TombstoneRange(l, f, t)
          \/ \E ml \in MarkerLog, id \in Id : TombstoneRangeWithMarker(l, f, t, ml, id)

----------------------------------------------------------------------------
(***************************************************************************)
(* FIFO queues                                                             *)
(***************************************************************************)
EnqueueFifo(q, id) ==
    /\ sequences[q] < MaxSequence
    /\ sequences' = [sequences EXCEPT ![q] = sequences[q] + 1]
    /\ fifo' = Insert(fifo, FifoKey(q, sequences[q] + 1),
                      [queue |-> q, sequence |-> sequences[q] + 1, id |-> id, attempts |-> 0])
    /\ fifo_reply' = FifoAnswer(q, "ok")

(* Seeded fault: the first key at or after the prefix, of whatever queue. *)
FrontOfAnyQueue(q) ==
    LET range == RangeFrom(fifo, Prefix(q))
    IN  {k \in range : \A j \in range : ~Before(j, k)}

(* peek_fifo: the first key at or after the prefix, if it has the prefix *)
FrontOf(q) ==
    LET range == RangeFrom(fifo, Prefix(q))
    IN  {k \in range : StartsWith(k, Prefix(q)) /\ \A j \in range : ~Before(j, k)}

AckFifo(q, id) ==
    /\ \E k \in FrontOf(q) : fifo[k].id = id /\ fifo' = Without(fifo, k)
    /\ fifo_reply' = FifoAnswer(q, "acknowledged")
    /\ UNCHANGED sequences

(* Seeded fault: the attempts counter does not saturate. *)
Unsaturated(n) == n + 1

Saturating(n) == IF n < U32Max THEN n + 1 ELSE U32Max

RejectFifo(q, id) ==
    /\ \E k \in FrontOf(q) :
          /\ fifo[k].id = id
          /\ fifo' = Insert(fifo, k, [fifo[k] EXCEPT !.attempts = Saturating(@)])
    /\ fifo_reply' = FifoAnswer(q, "rejected")
    /\ UNCHANGED sequences

NotFront(q, id) ==
    /\ \A k \in FrontOf(q) : fifo[k].id # id
    /\ fifo_reply' = FifoAnswer(q, "ignored")
    /\ UNCHANGED <<sequences, fifo>>

FifoNext == \E q \in Queue, id \in FifoId :
               EnqueueFifo(q, id) \/ AckFifo(q, id) \/ RejectFifo(q, id) \/ NotFront(q, id)

Next == \/ LogNext /\ UNCHANGED fifoVars
        \/ FifoNext /\ UNCHANGED logVars

Spec == Init /\ [][Next]_vars

----------------------------------------------------------------------------
(***************************************************************************)
(* Queries                                                                 *)
(***************************************************************************)
(* fetch_messages: the rows in the order of their keys, at most limit *)
FetchMessages(l, from, limit) ==
    LET walk == Walk(messages, Prefix(l), MessageKey(l, from))
        Nth(i) == CHOOSE k \in walk : Cardinality({j \in walk : Before(j, k)}) = i - 1
    IN  [i \in 1 .. Min({Cardinality(walk), limit}) |-> messages[Nth(i)]]

(* list_heads: the logs whose head entry has no message; one such entry makes
   the whole call fail *)
DanglingHeads == {l \in Log : heads[l] > 0 /\ MessageKey(l, heads[l]) \notin DOMAIN messages}

----------------------------------------------------------------------------
Row == [log : Log, head_id : 1 .. MaxHead, id : Id, deleted : BOOLEAN]
FifoRow == [queue : Queue, sequence : 1 .. MaxSequence, id : FifoId, attempts : 0 .. U32Max]

TypeOK == /\ heads \in [Log -> 0 .. MaxHead]
          /\ \A k \in DOMAIN messages : messages[k] \in Row
          /\ \A k \in DOMAIN tombstones :
                tombstones[k] \in [log : Log, from : Bounds, to : Bounds]
          /\ sequences \in [Queue -> 0 .. MaxSequence]
          /\ \A k \in DOMAIN fifo : fifo[k] \in FifoRow

(* fetch_messages returns the messages from .. from + limit - 1 of the log, in
   the order of their head ids, and none of the log whose keys come next: the
   order of strings has to be the order of the numbers in them. *)
FetchInOrder ==
    \A l \in Log, from \in 1 .. MaxHead, limit \in {2, MaxHead} :
        LET page == FetchMessages(l, from, limit)
            rest == heads[l] + 1 - from
        IN  /\ Len(page) = IF from > heads[l] THEN 0 ELSE IF rest < limit THEN rest ELSE limit
            /\ \A i \in 1 .. Len(page) : page[i].log = l /\ page[i].head_id = from + i - 1

(* list_heads, which gives up on all logs when a head has no message under the
   key it puts together, always succeeds; peer sync depends on it. *)
HeadsHaveMessages == DanglingHeads = {}

(***************************************************************************)
(* The tables implement the contracts.                                     *)
(***************************************************************************)
EntryAt(l, h) == LET m == messages[MessageKey(l, h)] IN [id |-> m.id, deleted |-> m.deleted]

RangesOf(l) == {<<tombstones[k].from, tombstones[k].to>> :
                   k \in {j \in DOMAIN tombstones : tombstones[j].log = l}}

Store == INSTANCE MsgbusStore
            WITH log <- [l \in Log |-> [h \in 1 .. heads[l] |-> EntryAt(l, h)]],
                 tombs <- [l \in Log |-> RangesOf(l)],
                 Capacity <- MaxHead,
                 MaxRange <- U64Max,
                 HeadIds <- (0 .. MaxHead + 1) \cup Bounds,
                 UniqueIds <- FALSE

(* The redb tables implement the store contract, answers included: what the
   scans flag, find and leave out is what the contract says. *)
ImplementsStore == Store!AbsSpec

Waiting(q) == {fifo[k] : k \in {j \in DOMAIN fifo : fifo[j].queue = q}}

QueueOf(q) ==
    [i \in 1 .. Cardinality(Waiting(q)) |->
        LET r == CHOOSE r \in Waiting(q) :
                    Cardinality({s \in Waiting(q) : s.sequence < r.sequence}) = i - 1
        IN  [id |-> r.id, attempts |-> r.attempts]]

Fifo == INSTANCE FifoContract
           WITH queue <- [q \in Queue |-> QueueOf(q)],
                total <- sequences,
                reply <- fifo_reply,
                Id <- FifoId,
                Capacity <- MaxSequence,
                UniqueIds <- FALSE,
                MaxAttempts <- U32Max

(* The FIFO tables of redb implement the queues' contract: the first key at or
   after a queue's prefix is its oldest message, or belongs to another queue. *)
ImplementsFifo == Fifo!AbsSpec
=============================================================================
