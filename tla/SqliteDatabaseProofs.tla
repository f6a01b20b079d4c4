----------------------- MODULE SqliteDatabaseProofs -----------------------
(***************************************************************************)
(* The SQLite backend, for every set of logs, ids and queues, every column *)
(* width and every limit of the attempts counter: its tables implement the *)
(* store contract and the queues' contract.                                *)
(*                                                                         *)
(* The message tables keep their types, every log stays gap-free, and      *)
(* recorded tombstones are applied whatever the order of deletes and       *)
(* messages.  The three are proved together.  That put_replicated_message  *)
(* never fills a hole or skips a head id needs GapFree (the branch that    *)
(* inserts finds no row at the head id, so the id is the next one);        *)
(* TombstonesApplied needs the row types.  The answers count rows, so the  *)
(* messages table has to be finite.  Of gap-free tables a page of          *)
(* fetch_messages is a slice of the log, and each operation is the one of  *)
(* the contract on the log its rows make up.                               *)
(*                                                                         *)
(* The inductive invariant of the FIFO tables is that the rows of a queue  *)
(* carry the newest sequence numbers of its counter, each once.  Then the  *)
(* first row in the order of sequence numbers is the head of the           *)
(* contract's queue, a new row its end.                                    *)
(***************************************************************************)
EXTENDS SqliteDatabase, Counting

(* The tables fit together: hs, ms and ts are contents of heads, messages and
   tombstones. *)
Consistent(hs, ms, ts) ==
    /\ hs \in [Log -> 0 .. I64Max]
    /\ ms \subseteq Row /\ IsFiniteSet(ms)
    /\ ts \subseteq Tombstone
    /\ \A l \in Log : \A h \in 1 .. hs[l] : \E m \in ms : m.log = l /\ m.head_id = h
    /\ \A m \in ms : m.head_id \in 1 .. hs[m.log]
    /\ \A m, e \in ms : m.log = e.log /\ m.head_id = e.head_id => m = e
    /\ \A m \in ms, r \in ts : InRange(m, r) => m.deleted

IInv == /\ Consistent(heads, messages, tombstones)
        /\ reply \in [op : Ops, kind : Kinds, value : Nat]

----------------------------------------------------------------------------
(* apply_tombstone_markers changes nothing but the flag, and sets it if a
   recorded range covers the message. *)
LEMMA MarkedRow ==
    ASSUME NEW m \in Row, NEW ts \in SUBSET Tombstone
    PROVE  /\ Marked(m, ts) \in Row
           /\ Marked(m, ts).log = m.log
           /\ Marked(m, ts).head_id = m.head_id
           /\ Marked(m, ts).id = m.id
           /\ \A r \in ts : InRange(Marked(m, ts), r) => Marked(m, ts).deleted
<1> DEFINE d == m.deleted \/ \E r \in ts : InRange(m, r)
<1>1. d \in BOOLEAN
  OBVIOUS
<1>2. Marked(m, ts) = [m EXCEPT !.deleted = d]
  BY DEF Marked
<1> HIDE DEF d
<1>3. /\ Marked(m, ts) \in Row /\ Marked(m, ts).log = m.log
      /\ Marked(m, ts).head_id = m.head_id /\ Marked(m, ts).id = m.id
      /\ Marked(m, ts).deleted = d
  BY <1>1, <1>2 DEF Row
<1>4. ASSUME NEW r \in ts, InRange(Marked(m, ts), r)
      PROVE  Marked(m, ts).deleted
  <2>1. InRange(m, r)
    BY <1>3, <1>4 DEF InRange
  <2>2. d
    BY <2>1 DEF d
  <2> QED BY <2>2, <1>3
<1> QED BY <1>3, <1>4

(* A message that takes the next head id of its log, flagged as the recorded
   tombstones ask, keeps the tables consistent. *)
LEMMA InsertNext ==
    ASSUME NEW hs, NEW ms, NEW ts, Consistent(hs, ms, ts),
           NEW x \in Row, x.head_id = hs[x.log] + 1, x.head_id <= I64Max,
           \A r \in ts : InRange(x, r) => x.deleted
    PROVE  Consistent([hs EXCEPT ![x.log] = x.head_id], ms \cup {x}, ts)
<1> DEFINE hn == [hs EXCEPT ![x.log] = x.head_id]
           mn == ms \cup {x}
<1>0. I64Max \in Nat
  BY WidthAssumption
<1>1. x.log \in Log /\ x.head_id \in Nat
  BY DEF Row
<1>2. hn \in [Log -> 0 .. I64Max]
  BY <1>0, <1>1 DEF Consistent
<1>3. mn \subseteq Row /\ IsFiniteSet(mn) /\ ts \subseteq Tombstone
  BY FS_AddElement DEF Consistent
<1>4. ASSUME NEW l \in Log, NEW h \in 1 .. hn[l]
      PROVE  \E m \in mn : m.log = l /\ m.head_id = h
  <2>1. CASE l = x.log /\ h = x.head_id
    BY <2>1
  <2>2. CASE ~(l = x.log /\ h = x.head_id)
    <3>1. h \in 1 .. hs[l]
      BY <2>2, <1>1, <1>4, <1>0 DEF Consistent
    <3> QED BY <3>1 DEF Consistent
  <2> QED BY <2>1, <2>2
<1>5. \A m \in mn : m.head_id \in 1 .. hn[m.log]
  <2> TAKE m \in mn
  <2>1. CASE m = x
    BY <2>1, <1>1 DEF Consistent
  <2>2. CASE m \in ms
    <3>1. m.log \in Log /\ m.head_id \in 1 .. hs[m.log]
      BY <2>2 DEF Consistent, Row
    <3>2. hs[m.log] \in Nat /\ hn[m.log] \in Nat /\ hs[m.log] <= hn[m.log]
      BY <3>1, <1>1, <1>0 DEF Consistent
    <3> QED BY <3>1, <3>2
  <2> QED BY <2>1, <2>2
<1>6. \A m \in ms : ~(m.log = x.log /\ m.head_id = x.head_id)
  <2> SUFFICES ASSUME NEW m \in ms, m.log = x.log, m.head_id = x.head_id
               PROVE  FALSE
    OBVIOUS
  <2>1. x.head_id \in 1 .. hs[x.log]
    BY DEF Consistent
  <2>2. hs[x.log] \in Nat
    BY <1>0, <1>1 DEF Consistent
  <2> QED BY <2>1, <2>2
<1>7. \A m, e \in mn : m.log = e.log /\ m.head_id = e.head_id => m = e
  BY <1>6 DEF Consistent
<1>8. \A m \in mn, r \in ts : InRange(m, r) => m.deleted
  BY DEF Consistent
<1> QED BY <1>2, <1>3, <1>4, <1>5, <1>7, <1>8 DEF Consistent

(* A row may be replaced by the same message flagged as deleted. *)
LEMMA ReplaceDeleted ==
    ASSUME NEW hs, NEW ms, NEW ts, Consistent(hs, ms, ts),
           NEW e \in ms, NEW x \in Row,
           x.log = e.log, x.head_id = e.head_id, x.deleted
    PROVE  Consistent(hs, (ms \ {e}) \cup {x}, ts)
<1> DEFINE mn == (ms \ {e}) \cup {x}
<1>1. mn \subseteq Row /\ IsFiniteSet(mn)
  BY Zenon, FS_AddElement, FS_RemoveElement DEF Consistent
<1>2. \A l \in Log : \A h \in 1 .. hs[l] : \E m \in mn : m.log = l /\ m.head_id = h
  BY DEF Consistent
<1>3. \A m \in mn : m.head_id \in 1 .. hs[m.log]
  BY DEF Consistent
<1>4. \A m, d \in mn : m.log = d.log /\ m.head_id = d.head_id => m = d
  BY DEF Consistent
<1>5. \A m \in mn, r \in ts : InRange(m, r) => m.deleted
  BY DEF Consistent
<1> QED BY <1>1, <1>2, <1>3, <1>4, <1>5 DEF Consistent

(* One row under the UPDATE of tombstone_range_in_tx. *)
LEMMA FlaggedRow ==
    ASSUME NEW m \in Row, NEW r \in Tombstone
    PROVE  LET x == [m EXCEPT !.deleted = m.deleted \/ InRange(m, r)]
           IN  /\ x \in Row /\ x.log = m.log /\ x.head_id = m.head_id /\ x.id = m.id
               /\ m.deleted => x.deleted
               /\ InRange(m, r) => x.deleted
<1> DEFINE d == m.deleted \/ InRange(m, r)
           x == [m EXCEPT !.deleted = d]
<1>1. d \in BOOLEAN
  BY DEF InRange
<1> HIDE DEF d
<1>2. x \in Row /\ x.log = m.log /\ x.head_id = m.head_id /\ x.id = m.id /\ x.deleted = d
  BY <1>1 DEF Row
<1> USE DEF d
<1> QED BY Zenon, <1>2

(* Deleting a range flags rows, adds and removes none, and may be recorded. *)
LEMMA DeleteRange ==
    ASSUME Consistent(heads, messages, tombstones), NEW r \in Tombstone
    PROVE  /\ Consistent(heads, Deleted(r), tombstones \cup {r})
           /\ \A m \in messages : \E e \in Deleted(r) :
                 /\ e.log = m.log /\ e.head_id = m.head_id /\ e.id = m.id
                 /\ m.deleted => e.deleted
<1> DEFINE Flag(m) == [m EXCEPT !.deleted = m.deleted \/ InRange(m, r)]
           f == [m \in messages |-> Flag(m)]
           mn == Deleted(r)
<1>1. mn = {Flag(m) : m \in messages}
  BY DEF Deleted
<1>2. \A m \in messages :
         /\ Flag(m) \in Row /\ Flag(m).log = m.log /\ Flag(m).head_id = m.head_id /\ Flag(m).id = m.id
         /\ m.deleted => Flag(m).deleted
         /\ InRange(m, r) => Flag(m).deleted
  BY FlaggedRow DEF Consistent
<1>3. IsFiniteSet(mn)
  <2>1. f \in Surjection(messages, mn)
    BY Zenon, <1>1 DEF Surjection
  <2> QED BY <2>1, FS_Surjection DEF Consistent
<1> HIDE DEF Flag, mn
<1>4. mn \subseteq Row
  BY <1>1, <1>2
<1>5. \A l \in Log : \A h \in 1 .. heads[l] : \E m \in mn : m.log = l /\ m.head_id = h
  BY <1>1, <1>2 DEF Consistent
<1>6. \A m \in mn : m.head_id \in 1 .. heads[m.log]
  BY <1>1, <1>2 DEF Consistent
<1>7. \A m, e \in mn : m.log = e.log /\ m.head_id = e.head_id => m = e
  BY <1>1, <1>2 DEF Consistent
<1>8. \A m \in mn, q \in tombstones \cup {r} : InRange(m, q) => m.deleted
  <2> SUFFICES ASSUME NEW m \in messages, NEW q \in tombstones \cup {r}, InRange(Flag(m), q)
               PROVE  Flag(m).deleted
    BY <1>1
  <2>1. InRange(m, q)
    BY <1>2 DEF InRange
  <2> QED BY <2>1, <1>2 DEF Consistent
<1>9. Consistent(heads, mn, tombstones \cup {r})
  BY <1>3, <1>4, <1>5, <1>6, <1>7, <1>8 DEF Consistent
<1>10. \A m \in messages : \E e \in mn :
          /\ e.log = m.log /\ e.head_id = m.head_id /\ e.id = m.id
          /\ m.deleted => e.deleted
  BY <1>1, <1>2
<1> QED BY <1>9, <1>10 DEF mn

(* The count in the answer to a delete is a number. *)
LEMMA ChangedIsNat ==
    ASSUME Consistent(heads, messages, tombstones), NEW r
    PROVE  Changed(r) \in Nat
<1> DEFINE S == {m \in messages : InRange(m, r) /\ ~m.deleted}
<1>1. S \in SUBSET messages
  OBVIOUS
<1>2. IsFiniteSet(S)
  BY <1>1, FS_Subset DEF Consistent
<1> QED BY <1>2, FS_CardinalityType DEF Changed

----------------------------------------------------------------------------
(* An operation that fails drops its transaction. *)
LEMMA RefuseStep ==
    ASSUME IInv, NEW op \in Ops, NEW kind \in Kinds, Refuse(op, kind)
    PROVE  IInv' /\ Kept
<1>1. IInv'
  BY DEF IInv, Refuse, Answer, Consistent
<1>2. Kept
  BY WidthAssumption DEF IInv, Refuse, Kept, Consistent
<1> QED BY <1>1, <1>2

(* append_message: a row at the next head id. *)
LEMMA AppendStep ==
    ASSUME IInv, NEW l \in Log, NEW id \in Id, AppendMessage(l, id)
    PROVE  IInv' /\ Kept
<1> DEFINE m == [log |-> l, head_id |-> heads[l] + 1, id |-> id, deleted |-> FALSE]
           x == AppendedRow(l, id, tombstones)
<1>0. heads \in [Log -> 0 .. I64Max] /\ heads[l] \in Nat /\ tombstones \in SUBSET Tombstone
  BY WidthAssumption DEF IInv, Consistent
<1>1. CASE /\ Storable(heads[l] + 1) /\ ~IdTaken(id)
           /\ heads' = [heads EXCEPT ![l] = heads[l] + 1]
           /\ messages' = messages \cup {x}
           /\ reply' = Answer("append", "ok", heads[l] + 1)
           /\ UNCHANGED tombstones
  <2>1. m \in Row
    BY <1>0 DEF Row
  <2>2. /\ x \in Row /\ x.log = l /\ x.head_id = heads[l] + 1
        /\ \A r \in tombstones : InRange(x, r) => x.deleted
    BY Zenon, <1>0, <2>1, MarkedRow DEF AppendedRow
  <2>3. heads[l] + 1 <= I64Max
    BY <1>1 DEF Storable
  <2> HIDE DEF x
  <2>4. Consistent([heads EXCEPT ![x.log] = x.head_id], messages \cup {x}, tombstones)
    BY <2>2, <2>3, InsertNext DEF IInv
  <2>5. Consistent(heads', messages', tombstones')
    BY <2>2, <2>4, <1>1
  <2>6. reply' \in [op : Ops, kind : Kinds, value : Nat]
    BY <1>0, <1>1 DEF Answer, Ops, Kinds
  <2>7. Kept
    BY <1>0, <1>1, WidthAssumption DEF Kept
  <2> QED BY <2>5, <2>6, <2>7 DEF IInv
<1>2. CASE Refuse("append", "InvalidArgument") \/ Refuse("append", "Storage")
  BY <1>2, RefuseStep DEF Ops, Kinds
<1> QED BY <1>1, <1>2 DEF AppendMessage

(* put_replicated_message, outcome by outcome. *)
LEMMA PutStep ==
    ASSUME IInv, NEW m \in Row, PutReplicatedMessage(m)
    PROVE  IInv' /\ Kept
<1> DEFINE x == Marked(m, tombstones)
<1>0. /\ heads \in [Log -> 0 .. I64Max] /\ tombstones \in SUBSET Tombstone
      /\ m.log \in Log /\ m.head_id \in Nat /\ heads[m.log] \in Nat
  BY WidthAssumption DEF IInv, Consistent, Row
<1>1. /\ x \in Row /\ x.log = m.log /\ x.head_id = m.head_id /\ x.id = m.id
      /\ \A r \in tombstones : InRange(x, r) => x.deleted
  BY <1>0, MarkedRow
<1>2. CASE PutDeletion(m)
  <2>1. PICK e \in Existing(m) : /\ e.id = m.id /\ ~e.deleted
                                 /\ messages' = (messages \ {e}) \cup {x}
    BY <1>2 DEF PutDeletion
  <2>2. e \in messages /\ e.log = m.log /\ e.head_id = m.head_id
    BY DEF Existing
  <2>3. x.deleted
    BY <1>2 DEF PutDeletion
  <2> HIDE DEF x
  <2>4. Consistent(heads, messages', tombstones)
    BY <1>1, <2>1, <2>2, <2>3, ReplaceDeleted DEF IInv
  <2>5. heads' = heads /\ tombstones' = tombstones /\ reply' = Answer("put", "Inserted", 0)
    BY <1>2 DEF PutDeletion
  <2>6. Kept
    BY <1>0, <1>1, <2>1, <2>2, <2>3, <2>5 DEF Kept
  <2>7. Consistent(heads', messages', tombstones')
    BY <2>4, <2>5
  <2> QED BY <2>5, <2>6, <2>7 DEF IInv, Answer, Ops, Kinds
<1>3. CASE PutInsert(m) /\ ~IdTaken(m.id)
  <2>0. /\ messages' = messages \cup {x} /\ tombstones' = tombstones
        /\ heads' = [heads EXCEPT ![m.log] =
                        IF heads[m.log] < m.head_id THEN m.head_id ELSE heads[m.log]]
        /\ reply' = Answer("put", "Inserted", 0)
    BY <1>3 DEF PutInsert
  <2>1. m.head_id > 0 /\ m.head_id <= I64Max /\ Existing(m) = {} /\ m.head_id <= heads[m.log] + 1
    BY <1>0, <1>3 DEF PutInsert, Storable, LeavesGap
  <2>2. m.head_id = heads[m.log] + 1
    <3>1. m.head_id \notin 1 .. heads[m.log]
      BY <1>0, <2>1 DEF IInv, Consistent, Existing
    <3> QED BY <1>0, <2>1, <3>1
  <2>3. heads' = [heads EXCEPT ![x.log] = x.head_id]
    <3>1. (IF heads[m.log] < m.head_id THEN m.head_id ELSE heads[m.log]) = m.head_id
      BY <1>0, <2>2
    <3> HIDE DEF x
    <3> QED BY Zenon, <1>1, <2>0, <3>1
  <2> HIDE DEF x
  <2>4. Consistent([heads EXCEPT ![x.log] = x.head_id], messages \cup {x}, tombstones)
    BY <1>1, <2>1, <2>2, InsertNext DEF IInv
  <2>5. Consistent(heads', messages', tombstones')
    BY Zenon, <2>0, <2>3, <2>4
  <2>6. Kept
    BY <1>0, <2>0, WidthAssumption DEF Kept
  <2> QED BY <2>0, <2>5, <2>6 DEF IInv, Answer, Ops, Kinds
<1>4. CASE \/ Refuse("put", "InvalidArgument") \/ Refuse("put", "AlreadyPresent")
           \/ Refuse("put", "Conflict")        \/ Refuse("put", "Storage")
  BY <1>4, RefuseStep DEF Ops, Kinds
<1> QED
  BY <1>2, <1>3, <1>4
     DEF PutReplicatedMessage, PutInvalid, PutAlreadyPresent, PutConflict, PutGap, PutInsert

(* tombstone_range, with and without the marker. *)
LEMMA TombstoneStep ==
    ASSUME IInv, NEW r \in Tombstone, TombstoneRange(r)
    PROVE  IInv' /\ Kept
<1>1. CASE /\ messages' = Deleted(r) /\ tombstones' = tombstones \cup {r}
           /\ reply' = Answer("delete", "ok", Changed(r)) /\ UNCHANGED heads
  <2>1. Consistent(heads', messages', tombstones')
    BY <1>1, DeleteRange DEF IInv
  <2>2. reply' \in [op : Ops, kind : Kinds, value : Nat]
    BY <1>1, ChangedIsNat DEF IInv, Answer, Ops, Kinds
  <2>3. \A l \in Log : heads'[l] >= heads[l]
    BY <1>1, WidthAssumption DEF IInv, Consistent
  <2>4. Kept
    BY <1>1, <2>3, DeleteRange DEF IInv, Kept
  <2> QED BY <2>1, <2>2, <2>4 DEF IInv
<1>2. CASE Refuse("delete", "InvalidArgument")
  BY <1>2, RefuseStep DEF Ops, Kinds
<1> QED BY <1>1, <1>2 DEF TombstoneRange

(* The range is deleted first, so the marker is appended to consistent tables. *)
LEMMA TombstoneWithMarkerStep ==
    ASSUME IInv, NEW r \in Tombstone, NEW ml \in Log, NEW id \in Id,
           TombstoneRangeWithMarker(r, ml, id)
    PROVE  IInv' /\ Kept
<1> DEFINE ts == tombstones \cup {r}
           m == [log |-> ml, head_id |-> heads[ml] + 1, id |-> id, deleted |-> FALSE]
           x == AppendedRow(ml, id, ts)
<1>0. heads \in [Log -> 0 .. I64Max] /\ heads[ml] \in Nat /\ ts \in SUBSET Tombstone
  BY WidthAssumption DEF IInv, Consistent
<1>1. CASE /\ Storable(heads[ml] + 1)
           /\ messages' = Deleted(r) \cup {x}
           /\ tombstones' = ts
           /\ heads' = [heads EXCEPT ![ml] = heads[ml] + 1]
           /\ reply' = Answer("announce", "ok", Changed(r))
  <2>1. m \in Row
    BY <1>0 DEF Row
  <2>2. /\ x \in Row /\ x.log = ml /\ x.head_id = heads[ml] + 1
        /\ \A q \in ts : InRange(x, q) => x.deleted
    BY Zenon, <1>0, <2>1, MarkedRow DEF AppendedRow
  <2>3. heads[ml] + 1 <= I64Max
    BY <1>1 DEF Storable
  <2>4. Consistent(heads, Deleted(r), ts)
    BY DeleteRange DEF IInv
  <2> HIDE DEF x, ts
  <2>5. Consistent([heads EXCEPT ![x.log] = x.head_id], Deleted(r) \cup {x}, ts)
    BY <2>2, <2>3, <2>4, InsertNext
  <2>6. Consistent(heads', messages', tombstones')
    BY <1>1, <2>2, <2>5
  <2>7. reply' \in [op : Ops, kind : Kinds, value : Nat]
    BY <1>1, ChangedIsNat DEF IInv, Answer, Ops, Kinds
  <2>8. /\ \A l \in Log : heads'[l] >= heads[l]
        /\ tombstones \subseteq tombstones'
    BY <1>0, <1>1, WidthAssumption DEF ts
  <2>9. \A e \in messages : \E d \in Deleted(r) :
           /\ d.log = e.log /\ d.head_id = e.head_id /\ d.id = e.id
           /\ e.deleted => d.deleted
    BY Zenon, DeleteRange DEF IInv
  <2>10. Kept
    BY <1>1, <2>8, <2>9 DEF Kept
  <2> QED BY <2>6, <2>7, <2>10 DEF IInv
<1>2. CASE Refuse("announce", "InvalidArgument") \/ Refuse("announce", "Storage")
  BY <1>2, RefuseStep DEF Ops, Kinds
<1> QED BY <1>1, <1>2 DEF TombstoneRangeWithMarker

(* Every operation keeps the tables consistent and takes nothing back. *)
LEMMA NextStep ==
    ASSUME IInv, [Next]_vars
    PROVE  IInv' /\ [Kept]_vars
<1>1. CASE UNCHANGED vars
  BY <1>1 DEF IInv, Consistent, vars
<1>2. CASE \E l \in Log, id \in Id : AppendMessage(l, id)
  BY <1>2, AppendStep
<1>3. CASE \E l \in Log, h \in 0 .. U64Max, id \in Id, d \in BOOLEAN :
              PutReplicatedMessage([log |-> l, head_id |-> h, id |-> id, deleted |-> d])
  <2>1. PICK l \in Log, h \in 0 .. U64Max, id \in Id, d \in BOOLEAN :
              PutReplicatedMessage([log |-> l, head_id |-> h, id |-> id, deleted |-> d])
    BY <1>3
  <2>2. [log |-> l, head_id |-> h, id |-> id, deleted |-> d] \in Row
    BY WidthAssumption DEF Row
  <2> QED BY <2>1, <2>2, PutStep
<1>4. ASSUME NEW l \in Log, NEW f \in 0 .. U64Max, NEW t \in 0 .. U64Max,
             LET r == [log |-> l, from_head_id |-> f, to_head_id |-> t]
             IN  \/ TombstoneRange(r)
                 \/ \E ml \in Log, id \in Id : TombstoneRangeWithMarker(r, ml, id)
      PROVE  IInv' /\ [Kept]_vars
  <2> DEFINE r == [log |-> l, from_head_id |-> f, to_head_id |-> t]
  <2>1. r \in Tombstone
    BY WidthAssumption DEF Tombstone
  <2> HIDE DEF r
  <2>2. \/ TombstoneRange(r)
        \/ \E ml \in Log, id \in Id : TombstoneRangeWithMarker(r, ml, id)
    BY <1>4 DEF r
  <2> QED BY <2>1, <2>2, TombstoneStep, TombstoneWithMarkerStep
<1> QED BY Zenon, <1>1, <1>2, <1>3, <1>4 DEF Next

(* The inductive invariant holds in every reachable state. *)
THEOREM TablesConsistent == Spec => []IInv
<1>1. Init => IInv
  <2>1. Init => Consistent(heads, messages, tombstones)
    BY WidthAssumption, FS_EmptySet DEF Init, Consistent
  <2>2. Init => reply \in [op : Ops, kind : Kinds, value : Nat]
    BY DEF Init, Answer, Ops, Kinds
  <2> QED BY <2>1, <2>2 DEF IInv
<1>2. IInv /\ [Next]_vars => IInv'
  BY NextStep
<1> QED BY <1>1, <1>2, PTL DEF Spec

(* The tables and answers have their types; in particular no head id exceeds
   what an SQLite column holds. *)
THEOREM TypeCorrect == Spec => []TypeOK
<1>1. IInv => TypeOK
  BY DEF IInv, Consistent, TypeOK
<1> QED BY <1>1, TablesConsistent, PTL

(* append_message, put_replicated_message and delete markers together leave no
   gap in a log and give no head id twice. *)
THEOREM LogsGapFree == Spec => []GapFree
<1>1. IInv => GapFree
  BY DEF IInv, Consistent, GapFree
<1> QED BY <1>1, TablesConsistent, PTL

(* Deletes and the messages they cover may reach the store in any order. *)
THEOREM DeletionsHold == Spec => []TombstonesApplied
<1>1. IInv => TombstonesApplied
  BY DEF IInv, Consistent, TombstonesApplied
<1> QED BY <1>1, TablesConsistent, PTL

(* No operation alters or removes a stored message, revives a deleted one, or
   lowers a head. *)
THEOREM LogsAppendOnly == Spec => AppendOnly
<1>1. IInv /\ [Next]_vars => [Kept]_vars
  BY NextStep
<1> QED BY <1>1, TablesConsistent, PTL DEF Spec, AppendOnly

(* The join of list_heads hides no log from the peers. *)
THEOREM AllHeadsListed == Spec => []ListHeadsComplete
<1>1. IInv => ListHeadsComplete
  <2> SUFFICES ASSUME IInv PROVE ListHeadsComplete
    OBVIOUS
  <2>1. ASSUME NEW l \in Log
        PROVE  (\E m \in messages : m.log = l /\ m.head_id = heads[l]) <=> heads[l] > 0
    <3>1. heads[l] \in Nat
      BY WidthAssumption DEF IInv, Consistent
    <3>2. ASSUME heads[l] > 0
          PROVE  \E m \in messages : m.log = l /\ m.head_id = heads[l]
      <4>1. heads[l] \in 1 .. heads[l]
        BY <3>1, <3>2
      <4> QED BY <4>1 DEF IInv, Consistent
    <3>3. ASSUME NEW m \in messages, m.log = l, m.head_id = heads[l]
          PROVE  heads[l] > 0
      <4>1. heads[l] \in 1 .. heads[l]
        BY <3>3 DEF IInv, Consistent
      <4> QED BY <3>1, <4>1
    <3> QED BY <3>2, <3>3
  <2> QED BY <2>1 DEF ListHeadsComplete, ListHeads
<1> QED BY <1>1, TablesConsistent, PTL

----------------------------------------------------------------------------
(***************************************************************************)
(* Queries                                                                 *)
(***************************************************************************)
(* The rows of a page before the row at head id h carry the ids from .. h - 1. *)
LEMMA RowsBefore ==
    ASSUME Consistent(heads, messages, tombstones), NEW l \in Log, NEW from \in Nat \ {0},
           NEW h \in from .. heads[l]
    PROVE  Cardinality({e \in messages : e.log = l /\ e.head_id >= from /\ e.head_id < h})
              = h - from
<1> DEFINE S == {e \in messages : e.log = l /\ e.head_id >= from /\ e.head_id < h}
           f == [e \in S |-> e.head_id]
<1>1. heads[l] \in Nat /\ h \in Nat
  BY WidthAssumption DEF Consistent
<1>2. \A e \in S : e.head_id \in Nat /\ e.head_id \in from .. h - 1
  BY <1>1 DEF Consistent, Row
<1>3. f \in [S -> from .. h - 1]
  BY <1>2
<1>4. \A d, e \in S : f[d] = f[e] => d = e
  BY DEF Consistent
<1>5. ASSUME NEW k \in from .. h - 1
      PROVE  \E e \in S : f[e] = k
  <2>1. k \in 1 .. heads[l] /\ k >= from /\ k < h
    BY <1>1
  <2>2. PICK e \in messages : e.log = l /\ e.head_id = k
    BY <2>1 DEF Consistent
  <2> QED
    BY <2>1, <2>2
<1> HIDE DEF S, f
<1>6. from \in Int /\ h - 1 \in Int
  BY <1>1
<1>7. Cardinality(S) = IF from > h - 1 THEN 0 ELSE (h - 1) - from + 1
  BY <1>3, <1>4, <1>5, <1>6, CountByKey
<1> QED
  BY <1>1, <1>7 DEF S

(* A page is the next limit messages. *)
LEMMA PageIsSlice ==
    ASSUME Consistent(heads, messages, tombstones), NEW l \in Log, NEW from \in Nat \ {0},
           NEW limit \in Nat \ {0}
    PROVE  {m.head_id : m \in FetchMessages(l, from, limit)} =
              {h \in from .. from + limit - 1 : h <= heads[l]}
<1> DEFINE found == {m \in messages : m.log = l /\ m.head_id >= from}
           page == FetchMessages(l, from, limit)
<1>1. heads[l] \in Nat
  BY WidthAssumption DEF Consistent
<1>2. page = {m \in found : Cardinality({e \in found : e.head_id < m.head_id}) < limit}
  BY DEF FetchMessages
<1>3. ASSUME NEW m \in found
      PROVE  m.head_id \in from .. heads[l] /\ (m \in page <=> m.head_id - from < limit)
  <2>1. m.head_id \in from .. heads[l]
    BY <1>1 DEF Consistent, Row
  <2>2. {e \in found : e.head_id < m.head_id} =
           {e \in messages : e.log = l /\ e.head_id >= from /\ e.head_id < m.head_id}
    OBVIOUS
  <2>3. Cardinality({e \in found : e.head_id < m.head_id}) = m.head_id - from
    BY <2>1, <2>2, RowsBefore
  <2> QED
    BY <1>2, <2>1, <2>3
<1>4. ASSUME NEW m \in page
      PROVE  m.head_id \in from .. from + limit - 1 /\ m.head_id <= heads[l]
  <2>1. m \in found
    BY <1>2
  <2>2. m.head_id \in from .. heads[l] /\ m.head_id - from < limit
    BY <1>3, <2>1
  <2> QED
    BY <1>1, <2>2
<1>5. ASSUME NEW h \in from .. from + limit - 1, h <= heads[l]
      PROVE  \E m \in page : m.head_id = h
  <2>1. h \in 1 .. heads[l] /\ h >= from /\ h - from < limit
    BY <1>1, <1>5
  <2>2. PICK m \in messages : m.log = l /\ m.head_id = h
    BY <2>1 DEF Consistent
  <2>3. m \in found
    BY <2>1, <2>2
  <2> QED
    BY <1>3, <2>1, <2>2, <2>3
<1> HIDE DEF page
<1> QED
  BY <1>4, <1>5 DEF page

(* A page of fetch_messages is the next limit messages of the log, none left
   out, although the query counts rows and knows nothing of head ids being
   consecutive. *)
THEOREM PagesAreSlices == Spec => []FetchIsSlice
<1>1. IInv => FetchIsSlice
  <2> SUFFICES ASSUME IInv, NEW l \in Log, NEW from \in 1 .. I64Max, NEW limit \in 1 .. I64Max
               PROVE  {m.head_id : m \in FetchMessages(l, from, limit)} =
                         {h \in from .. from + limit - 1 : h <= heads[l]}
    BY DEF FetchIsSlice
  <2>1. from \in Nat \ {0} /\ limit \in Nat \ {0}
    BY WidthAssumption
  <2> QED
    BY <2>1, PageIsSlice DEF IInv
<1> QED
  BY <1>1, TablesConsistent, PTL

----------------------------------------------------------------------------
(***************************************************************************)
(* The tables implement the store contract                                 *)
(***************************************************************************)
(* The log that rows ms with heads hs stand for; LogOf reads the tables so *)
RowIn(ms, l, h) == CHOOSE m \in ms : m.log = l /\ m.head_id = h

Entries == [id : Id, deleted : BOOLEAN]

EntryOf(m) == [id |-> m.id, deleted |-> m.deleted]

View(hs, ms, l) == [h \in 1 .. hs[l] |-> EntryOf(RowIn(ms, l, h))]

(* Every row is where its head id says. *)
LEMMA ViewRow ==
    ASSUME NEW hs, NEW ms, NEW ts, Consistent(hs, ms, ts), NEW l \in Log
    PROVE  /\ hs[l] \in Nat /\ View(hs, ms, l) \in Seq(Entries)
           /\ Len(View(hs, ms, l)) = hs[l]
           /\ \A m \in ms : m.log = l => /\ m.head_id \in 1 .. hs[l]
                                         /\ View(hs, ms, l)[m.head_id] = EntryOf(m)
<1>1. hs[l] \in Nat
  BY WidthAssumption DEF Consistent
<1>2. ASSUME NEW h \in 1 .. hs[l]
      PROVE  /\ RowIn(ms, l, h) \in ms
             /\ RowIn(ms, l, h).log = l /\ RowIn(ms, l, h).head_id = h
  <2>1. \E m \in ms : m.log = l /\ m.head_id = h
    BY DEF Consistent
  <2> QED
    BY <2>1 DEF RowIn
<1>3. \A m \in ms : EntryOf(m) \in Entries
  BY DEF EntryOf, Entries, Consistent, Row
<1>4. /\ View(hs, ms, l) \in Seq(Entries)
      /\ Len(View(hs, ms, l)) = hs[l]
  <2>1. View(hs, ms, l) \in [1 .. hs[l] -> Entries]
    BY <1>2, <1>3 DEF View
  <2> QED
    BY <1>1, <2>1
<1>5. ASSUME NEW m \in ms, m.log = l
      PROVE  m.head_id \in 1 .. hs[l] /\ View(hs, ms, l)[m.head_id] = EntryOf(m)
  <2>1. m.head_id \in 1 .. hs[l]
    BY <1>5 DEF Consistent
  <2>2. RowIn(ms, l, m.head_id) = m
    BY <1>2, <1>5, <2>1 DEF Consistent
  <2> QED
    BY <2>1, <2>2 DEF View
<1> QED
  BY <1>1, <1>4, <1>5

(* ... and that determines the log. *)
LEMMA ViewIs ==
    ASSUME NEW hs, NEW ms, NEW ts, Consistent(hs, ms, ts), NEW l \in Log,
           NEW S, NEW s \in Seq(S), Len(s) = hs[l],
           \A m \in ms : m.log = l => s[m.head_id] = EntryOf(m)
    PROVE  View(hs, ms, l) = s
<1>1. /\ Len(View(hs, ms, l)) = hs[l] /\ hs[l] \in Nat
      /\ View(hs, ms, l) \in Seq(Entries)
  BY ViewRow
<1>2. ASSUME NEW h \in 1 .. hs[l]
      PROVE  View(hs, ms, l)[h] = s[h]
  <2>1. PICK m \in ms : m.log = l /\ m.head_id = h
    BY DEF Consistent
  <2> QED
    BY <2>1, ViewRow
<1> QED
  BY <1>1, <1>2

(* Inserting the next row appends to the log. *)
LEMMA ViewInsert ==
    ASSUME NEW hs, NEW ms, NEW ts, Consistent(hs, ms, ts), NEW x \in Row,
           x.head_id = hs[x.log] + 1,
           Consistent([hs EXCEPT ![x.log] = x.head_id], ms \cup {x}, ts), NEW l \in Log
    PROVE  View([hs EXCEPT ![x.log] = x.head_id], ms \cup {x}, l) =
              IF l = x.log THEN Append(View(hs, ms, l), EntryOf(x)) ELSE View(hs, ms, l)
<1> DEFINE hn == [hs EXCEPT ![x.log] = x.head_id]
           mn == ms \cup {x}
           v == View(hs, ms, l)
<1>1. x.log \in Log /\ EntryOf(x) \in Entries
  BY DEF Row, EntryOf, Entries
<1>2. /\ v \in Seq(Entries) /\ Len(v) = hs[l] /\ hs[l] \in Nat
      /\ \A m \in ms : m.log = l => m.head_id \in 1 .. hs[l] /\ v[m.head_id] = EntryOf(m)
  BY ViewRow
<1>3. hn[l] = IF l = x.log THEN hs[l] + 1 ELSE hs[l]
  BY <1>1 DEF Consistent
<1> HIDE DEF v, hn
<1>4. CASE l = x.log
  <2> DEFINE s == Append(v, EntryOf(x))
  <2>1. /\ s \in Seq(Entries) /\ Len(s) = hs[l] + 1
        /\ \A k \in 1 .. hs[l] : s[k] = v[k]
        /\ s[hs[l] + 1] = EntryOf(x)
    BY <1>1, <1>2
  <2> HIDE DEF s
  <2>2. \A m \in mn : m.log = l => s[m.head_id] = EntryOf(m)
    BY <1>2, <1>4, <2>1
  <2>3. Len(s) = hn[l]
    BY <1>3, <1>4, <2>1
  <2>4. View(hn, mn, l) = s
    BY <2>1, <2>2, <2>3, ViewIs DEF hn
  <2> QED
    BY Zenon, <1>4, <2>4 DEF s, v, hn
<1>5. CASE l # x.log
  <2>1. \A m \in mn : m.log = l => v[m.head_id] = EntryOf(m)
    BY <1>2, <1>5
  <2>2. Len(v) = hn[l] /\ Consistent(hn, mn, ts)
    BY <1>2, <1>3, <1>5 DEF hn
  <2>3. View(hn, mn, l) = v
    BY <1>2, <2>1, <2>2, ViewIs
  <2> QED
    BY <1>5, <2>3 DEF v, hn
<1> QED
  BY <1>4, <1>5

(* Replacing a row changes one entry. *)
LEMMA ViewReplace ==
    ASSUME NEW hs, NEW ms, NEW ts, Consistent(hs, ms, ts), NEW e \in ms, NEW x \in Row,
           x.log = e.log, x.head_id = e.head_id,
           Consistent(hs, (ms \ {e}) \cup {x}, ts), NEW l \in Log
    PROVE  View(hs, (ms \ {e}) \cup {x}, l) =
              IF l = e.log THEN [View(hs, ms, l) EXCEPT ![e.head_id] = EntryOf(x)]
              ELSE View(hs, ms, l)
<1> DEFINE mn == (ms \ {e}) \cup {x}
           v == View(hs, ms, l)
           s == IF l = e.log THEN [v EXCEPT ![e.head_id] = EntryOf(x)] ELSE v
<1>1. EntryOf(x) \in Entries
  BY DEF Row, EntryOf, Entries
<1>2. /\ v \in Seq(Entries) /\ Len(v) = hs[l] /\ hs[l] \in Nat
      /\ \A m \in ms : m.log = l => m.head_id \in 1 .. hs[l] /\ v[m.head_id] = EntryOf(m)
  BY ViewRow
<1> HIDE DEF v
<1>3. /\ s \in Seq(Entries) /\ Len(s) = hs[l]
      /\ \A k \in 1 .. hs[l] : s[k] = IF l = e.log /\ k = e.head_id THEN EntryOf(x) ELSE v[k]
  BY <1>1, <1>2
<1> HIDE DEF s
<1>4. ASSUME NEW m \in mn, m.log = l
      PROVE  s[m.head_id] = EntryOf(m)
  <2>1. CASE m = x
    BY <1>2, <1>3, <1>4, <2>1
  <2>2. CASE m \in ms /\ m # e
    <3>1. ~(l = e.log /\ m.head_id = e.head_id)
      BY <1>4, <2>2 DEF Consistent
    <3> QED
      BY <1>2, <1>3, <1>4, <2>2, <3>1
  <2> QED
    BY <2>1, <2>2
<1>5. View(hs, mn, l) = s
  BY <1>3, <1>4, ViewIs
<1> QED
  BY <1>5 DEF s, v

(* Deleting a range flags the entries in it. *)
LEMMA ViewDeleted ==
    ASSUME Consistent(heads, messages, tombstones), NEW r \in Tombstone, NEW l \in Log
    PROVE  View(heads, Deleted(r), l) =
              IF l = r.log THEN Store!Flagged(View(heads, messages, l),
                                              r.from_head_id, r.to_head_id)
              ELSE View(heads, messages, l)
<1> DEFINE v == View(heads, messages, l)
           Flag(h) == [id |-> v[h].id,
                       deleted |-> v[h].deleted \/ (r.from_head_id <= h /\ h <= r.to_head_id)]
           f == [h \in 1 .. Len(v) |-> Flag(h)]
           s == IF l = r.log THEN f ELSE v
<1>1. /\ v \in Seq(Entries) /\ Len(v) = heads[l] /\ heads[l] \in Nat
      /\ \A m \in messages : m.log = l =>
            m.head_id \in 1 .. heads[l] /\ v[m.head_id] = EntryOf(m)
  BY ViewRow
<1>2. f = Store!Flagged(v, r.from_head_id, r.to_head_id)
  BY DEF Store!Flagged, Store!Entry
<1> HIDE DEF v
<1>3. f \in Seq(Entries) /\ Len(f) = heads[l] /\ \A k \in 1 .. heads[l] : f[k] = Flag(k)
  <2>1. \A k \in 1 .. heads[l] : v[k] \in Entries
    BY <1>1
  <2>2. \A k \in 1 .. heads[l] : Flag(k) \in Entries
    BY <2>1 DEF Entries
  <2> QED
    BY <1>1, <2>2
<1>4. Consistent(heads, Deleted(r), tombstones \cup {r})
  BY DeleteRange
<1>5. ASSUME NEW m \in Deleted(r), m.log = l
      PROVE  s[m.head_id] = EntryOf(m)
  <2>1. PICK e \in messages : m = [e EXCEPT !.deleted = e.deleted \/ InRange(e, r)]
    BY DEF Deleted
  <2>2. e \in Row
    BY DEF Consistent
  <2>3. /\ m.log = e.log /\ m.head_id = e.head_id /\ m.id = e.id
        /\ m.deleted = (e.deleted \/ InRange(e, r)) /\ e.deleted \in BOOLEAN
    BY <2>1, <2>2 DEF Row
  <2>4. e.head_id \in 1 .. heads[l] /\ v[e.head_id] = EntryOf(e)
    BY <1>1, <1>5, <2>3
  <2>5. v[e.head_id].id = e.id /\ v[e.head_id].deleted = e.deleted
    BY <2>4 DEF EntryOf
  <2>6. CASE l = r.log
    <3>1. s[m.head_id] = Flag(e.head_id)
      BY <1>3, <2>3, <2>4, <2>6
    <3>2. m.deleted = (e.deleted \/ (r.from_head_id <= e.head_id /\ e.head_id <= r.to_head_id))
      BY Zenon, <1>5, <2>3, <2>6 DEF InRange
    <3> QED
      BY <2>3, <2>5, <3>1, <3>2 DEF EntryOf
  <2>7. CASE l # r.log
    <3>1. m.deleted = e.deleted
      BY <1>5, <2>3, <2>7 DEF InRange
    <3> QED
      BY <2>3, <2>4, <2>7, <3>1 DEF EntryOf
  <2> QED
    BY <2>6, <2>7
<1>6. s \in Seq(Entries) /\ Len(s) = heads[l]
  BY <1>1, <1>3
<1> HIDE DEF s
<1>7. View(heads, Deleted(r), l) = s
  BY <1>4, <1>5, <1>6, ViewIs
<1> QED
  BY <1>2, <1>7 DEF s, v

(* The cardinality of the contract is that of the tables. *)
LEMMA SameCardinality == ASSUME NEW S PROVE Store!Cardinality(S) = Cardinality(S)
BY DEF Store!Cardinality, Cardinality

(* tombstone_range counts the live entries of the range. *)
LEMMA ChangedIsLive ==
    ASSUME Consistent(heads, messages, tombstones), NEW r \in Tombstone
    PROVE  Changed(r) = Store!Cardinality(Store!Live(View(heads, messages, r.log),
                                                     r.from_head_id, r.to_head_id))
<1> DEFINE l == r.log
           v == View(heads, messages, l)
           S == {m \in messages : InRange(m, r) /\ ~m.deleted}
           T == {h \in 1 .. Len(v) : r.from_head_id <= h /\ h <= r.to_head_id /\ ~v[h].deleted}
           f == [m \in S |-> m.head_id]
<1>0. l \in Log
  BY DEF Tombstone
<1>1. /\ Len(v) = heads[l] /\ heads[l] \in Nat
      /\ \A m \in messages : m.log = l =>
            m.head_id \in 1 .. heads[l] /\ v[m.head_id] = EntryOf(m)
  BY <1>0, ViewRow
<1>2. T = Store!Live(v, r.from_head_id, r.to_head_id)
  BY DEF Store!Live
<1> HIDE DEF v
<1>a. ASSUME NEW m \in messages, m.log = l
      PROVE  m.head_id \in 1 .. Len(v) /\ (v[m.head_id].deleted <=> m.deleted)
  <2>1. v[m.head_id] = [id |-> m.id, deleted |-> m.deleted] /\ m.head_id \in 1 .. Len(v)
    BY <1>1, <1>a DEF EntryOf
  <2> QED
    BY <2>1
<1>3. f \in [S -> T]
  <2> SUFFICES ASSUME NEW m \in S PROVE m.head_id \in T
    OBVIOUS
  <2>1. m.log = l /\ r.from_head_id <= m.head_id /\ m.head_id <= r.to_head_id
    BY DEF InRange
  <2> QED
    BY <1>a, <2>1
<1>4. \A x, y \in S : f[x] = f[y] => x = y
  BY DEF InRange, Consistent
<1>5. ASSUME NEW h \in T
      PROVE  \E x \in S : f[x] = h
  <2>1. h \in 1 .. heads[l]
    BY <1>1
  <2>2. PICK m \in messages : m.log = l /\ m.head_id = h
    BY <1>0, <2>1 DEF Consistent
  <2>3. ~m.deleted
    BY <1>a, <2>2
  <2> QED
    BY <2>2, <2>3 DEF InRange
<1>6. IsFiniteSet(T)
  <2>1. IsFiniteSet(1 .. Len(v))
    BY <1>1, FS_Interval
  <2> QED
    BY <2>1, FS_Subset
<1> HIDE DEF S, T, f
<1>7. Cardinality(S) = Cardinality(T)
  BY <1>3, <1>4, <1>5, <1>6, CountBoth
<1> QED
  BY <1>2, <1>7, SameCardinality DEF Changed, S, v

(* What the contract calls the log of l is the view of the tables. *)
LEMMA LogIsView == ASSUME NEW l PROVE LogOf(l) = View(heads, messages, l)
BY DEF LogOf, RowAt, View, RowIn, EntryOf

(* The same of the next state *)
LEMMA NextLogIsView == ASSUME NEW l PROVE LogOf(l)' = View(heads', messages', l)
BY DEF LogOf, RowAt, View, RowIn, EntryOf

(* The unique index and the contract refuse the same ids. *)
LEMMA TakenIsStored ==
    ASSUME Consistent(heads, messages, tombstones), NEW id
    PROVE  Store!Stored(id) <=> IdTaken(id)
<1>1. Store!Stored(id) <=> \E l \in Log : \E h \in 1 .. Len(LogOf(l)) : LogOf(l)[h].id = id
  BY DEF Store!Stored
<1>2. ASSUME NEW l \in Log, NEW h \in 1 .. Len(LogOf(l)), LogOf(l)[h].id = id
      PROVE  IdTaken(id)
  <2>1. h \in 1 .. heads[l] /\ View(heads, messages, l)[h].id = id
    BY <1>2, LogIsView, ViewRow
  <2>2. PICK m \in messages : m.log = l /\ m.head_id = h
    BY <2>1 DEF Consistent
  <2>3. View(heads, messages, l)[h] = EntryOf(m)
    BY <2>2, ViewRow
  <2> QED
    BY <2>1, <2>3 DEF IdTaken, EntryOf
<1>3. ASSUME NEW m \in messages, m.id = id
      PROVE  \E l \in Log : \E h \in 1 .. Len(LogOf(l)) : LogOf(l)[h].id = id
  <2>1. m.log \in Log
    BY DEF Consistent, Row
  <2>2. /\ m.head_id \in 1 .. Len(View(heads, messages, m.log))
        /\ View(heads, messages, m.log)[m.head_id] = EntryOf(m)
    BY <2>1, ViewRow
  <2>3. View(heads, messages, m.log)[m.head_id].id = id
    BY <1>3, <2>2 DEF EntryOf
  <2> QED
    BY <2>1, <2>2, <2>3, LogIsView
<1> QED
  BY <1>1, <1>2, <1>3 DEF IdTaken

(* The ranges that rows ts of the tombstones table give for log l *)
Ranges(ts, l) == {<<r.from_head_id, r.to_head_id>> : r \in {q \in ts : q.log = l}}

(* apply_tombstone_markers sets the flag the contract asks for. *)
LEMMA MarkedEntry ==
    ASSUME NEW m \in Row, NEW ts \in SUBSET Tombstone
    PROVE  EntryOf(Marked(m, ts)) =
              Store!Entry(m.id, m.deleted \/ Store!Covered(Ranges(ts, m.log), m.head_id))
<1>1. Store!Covered(Ranges(ts, m.log), m.head_id) <=> \E r \in ts : InRange(m, r)
  <2>1. ASSUME NEW r \in ts, InRange(m, r)
        PROVE  Store!Covered(Ranges(ts, m.log), m.head_id)
    <3>1. <<r.from_head_id, r.to_head_id>> \in Ranges(ts, m.log)
      BY <2>1 DEF Ranges, InRange
    <3> QED
      BY <2>1, <3>1 DEF Store!Covered, InRange
  <2>2. ASSUME NEW q \in Ranges(ts, m.log), q[1] <= m.head_id, m.head_id <= q[2]
        PROVE  \E r \in ts : InRange(m, r)
    BY <2>2 DEF Ranges, InRange
  <2> QED
    BY <2>1, <2>2 DEF Store!Covered
<1> DEFINE c == Store!Covered(Ranges(ts, m.log), m.head_id)
           d == m.deleted \/ \E r \in ts : InRange(m, r)
<1>2. d = (m.deleted \/ c)
  BY <1>1
<1>3. Marked(m, ts) = [m EXCEPT !.deleted = d]
  BY DEF Marked
<1> HIDE DEF c, d
<1>4. Marked(m, ts).id = m.id /\ Marked(m, ts).deleted = d
  BY <1>3 DEF Row
<1> QED
  BY <1>2, <1>4 DEF EntryOf, Store!Entry, c

(* A call that is refused changes nothing. *)
LEMMA RefuseRefines ==
    ASSUME NEW op, NEW kind, Refuse(op, kind)
    PROVE  Store!Refused(op, kind) /\ Store!Called(op)
<1>1. \A l : LogOf(l)' = LogOf(l) /\ RangesOf(l)' = RangesOf(l)
  BY DEF Refuse, LogOf, RowAt, RangesOf
<1>2. Store!Refused(op, kind)
  BY <1>1 DEF Refuse, Answer, Store!Refused, Store!Return
<1>3. Store!Called(op)
  BY DEF Refuse, Answer, Store!Called
<1> QED
  BY <1>2, <1>3

(* append_message *)
LEMMA AppendRefines ==
    ASSUME IInv, NEW l \in Log, NEW id \in Id, AppendMessage(l, id)
    PROVE  Store!Called("append") /\ Store!AbsAppend(l, id)
<1> DEFINE log == [k \in Log |-> LogOf(k)]
           tombs == [k \in Log |-> RangesOf(k)]
           m == [log |-> l, head_id |-> heads[l] + 1, id |-> id, deleted |-> FALSE]
           x == AppendedRow(l, id, tombstones)
<1>0. heads[l] \in 0 .. I64Max /\ I64Max \in Nat /\ tombstones \in SUBSET Tombstone
  BY WidthAssumption DEF IInv, Consistent
<1>1. Len(LogOf(l)) = heads[l] /\ log[l] = LogOf(l) /\ tombs[l] = RangesOf(l)
  BY LogIsView, ViewRow DEF IInv
<1>2. Store!Stored(id) <=> IdTaken(id)
  BY TakenIsStored DEF IInv
<1>3. CASE /\ Storable(heads[l] + 1) /\ ~IdTaken(id)
           /\ heads' = [heads EXCEPT ![l] = heads[l] + 1]
           /\ messages' = messages \cup {x}
           /\ reply' = Answer("append", "ok", heads[l] + 1)
           /\ UNCHANGED tombstones
  <2>1. m \in Row
    BY <1>0, <1>3, WidthAssumption DEF Row, Storable
  <2>2. x \in Row /\ x.log = l /\ x.head_id = heads[l] + 1
    BY <1>0, <2>1, MarkedRow DEF AppendedRow
  <2>3. EntryOf(x) = Store!Entry(id, Store!Covered(RangesOf(l), heads[l] + 1))
    <3> DEFINE c == Store!Covered(Ranges(tombstones, l), heads[l] + 1)
    <3>1. EntryOf(x) = Store!Entry(id, FALSE \/ c)
      BY <1>0, <2>1, MarkedEntry DEF AppendedRow
    <3>2. (FALSE \/ c) = c
      BY Zenon DEF Store!Covered
    <3> QED
      BY <3>1, <3>2 DEF Ranges, RangesOf
  <2>4. Consistent(heads', messages', tombstones)
    BY Zenon, <1>3, AppendStep DEF IInv
  <2>5. \A k \in Log : LogOf(k)' = IF k = l THEN Append(LogOf(k), EntryOf(x)) ELSE LogOf(k)
    <3>1. heads' = [heads EXCEPT ![x.log] = x.head_id] /\ messages' = messages \cup {x}
      BY <1>3, <2>2
    <3> HIDE DEF x
    <3>2. \A k \in Log : View(heads', messages', k) =
             IF k = x.log THEN Append(View(heads, messages, k), EntryOf(x))
             ELSE View(heads, messages, k)
      BY Zenon, <2>2, <2>4, <3>1, ViewInsert DEF IInv
    <3> QED
      BY <2>2, <3>2, LogIsView, NextLogIsView
  <2>6. log' = [log EXCEPT ![l] = Store!Appended(log[l], tombs[l], id)]
    BY Zenon, <1>1, <2>3, <2>5 DEF Store!Appended
  <2>7. tombs' = tombs
    BY <1>3 DEF RangesOf
  <2>8. Len(log[l]) < I64Max
    BY <1>0, <1>1, <1>3 DEF Storable
  <2>9. Store!Called("append") /\ Store!Return("append", "ok", Len(log[l]) + 1)
    BY <1>1, <1>3 DEF Answer, Store!Called, Store!Return
  <2> QED
    BY <1>2, <1>3, <2>6, <2>7, <2>8, <2>9 DEF Store!AbsAppend
<1>4. CASE ~Storable(heads[l] + 1) /\ Refuse("append", "InvalidArgument")
  <2>1. Len(log[l]) = I64Max
    BY <1>0, <1>1, <1>4 DEF Storable
  <2> QED
    BY <1>4, <2>1, RefuseRefines DEF Store!AbsAppend
<1>5. CASE Storable(heads[l] + 1) /\ IdTaken(id) /\ Refuse("append", "Storage")
  <2>1. Len(log[l]) < I64Max
    BY <1>0, <1>1, <1>5 DEF Storable
  <2> QED
    BY <1>2, <1>5, <2>1, RefuseRefines DEF Store!AbsAppend
<1> QED
  BY <1>3, <1>4, <1>5 DEF AppendMessage

(* put_replicated_message *)
LEMMA PutRefines ==
    ASSUME IInv, NEW m \in Row, PutReplicatedMessage(m)
    PROVE  Store!Called("put") /\ Store!AbsReplicate(m.log, m.head_id, m.id, m.deleted)
<1> DEFINE l == m.log
           h == m.head_id
           log == [k \in Log |-> LogOf(k)]
           tombs == [k \in Log |-> RangesOf(k)]
           x == Marked(m, tombstones)
           dl == m.deleted \/ Store!Covered(tombs[l], h)
<1>0. /\ l \in Log /\ h \in Nat /\ m.deleted \in BOOLEAN /\ heads[l] \in 0 .. I64Max
      /\ I64Max \in Nat /\ tombstones \in SUBSET Tombstone
  BY WidthAssumption DEF IInv, Consistent, Row
<1>1. /\ log[l] = LogOf(l) /\ LogOf(l) = View(heads, messages, l)
      /\ Len(log[l]) = heads[l] /\ tombs[l] = RangesOf(l)
  BY <1>0, LogIsView, ViewRow DEF IInv
<1>2. Store!Stored(m.id) <=> IdTaken(m.id)
  BY TakenIsStored DEF IInv
<1>3. EntryOf(x) = Store!Entry(m.id, dl)
  BY Zenon, <1>0, <1>1, MarkedEntry DEF Ranges, RangesOf
<1>4. x \in Row /\ x.log = l /\ x.head_id = h /\ x.id = m.id
  BY <1>0, MarkedRow
<1>5. x.deleted = dl /\ x.deleted \in BOOLEAN
  BY <1>3, <1>4 DEF EntryOf, Store!Entry, Row
<1>6. \A e \in Existing(m) : /\ e \in messages /\ e.log = l /\ e.head_id = h /\ e \in Row
                             /\ h \in 1 .. heads[l] /\ log[l][h] = EntryOf(e)
  <2> SUFFICES ASSUME NEW e \in Existing(m)
               PROVE  /\ e \in messages /\ e.log = l /\ e.head_id = h /\ e \in Row
                      /\ h \in 1 .. heads[l] /\ log[l][h] = EntryOf(e)
    OBVIOUS
  <2>1. e \in messages /\ e.log = l /\ e.head_id = h /\ e \in Row
    BY DEF IInv, Existing, Consistent
  <2>2. e.head_id \in 1 .. heads[l] /\ View(heads, messages, l)[e.head_id] = EntryOf(e)
    BY <1>0, <2>1, ViewRow DEF IInv
  <2> QED
    BY <1>1, <2>1, <2>2
<1>7. Existing(m) = {} => h \notin 1 .. heads[l]
  BY <1>0 DEF IInv, Existing, Consistent
<1>8. Consistent(heads', messages', tombstones')
  BY PutStep DEF IInv
<1>9. Store!AbsReplicate(l, h, m.id, m.deleted) <=>
      \/ /\ Store!Refused("put", "InvalidArgument")
         /\ h \notin 1 .. Len(log[l]) + 1 \/ h > I64Max
      \/ /\ Store!Refused("put", "AlreadyPresent")
         /\ h \in 1 .. Len(log[l])
         /\ log[l][h] = Store!Entry(m.id, dl)
      \/ /\ Store!Return("put", "Inserted", 0)
         /\ h \in 1 .. Len(log[l])
         /\ log[l][h] = Store!Entry(m.id, FALSE) /\ dl
         /\ log' = [log EXCEPT ![l][h] = Store!Entry(m.id, TRUE)]
         /\ UNCHANGED tombs
      \/ /\ Store!Refused("put", "Conflict")
         /\ h \in 1 .. Len(log[l])
         /\ log[l][h].id # m.id \/ (log[l][h].deleted /\ ~dl)
      \/ /\ Store!Return("put", "Inserted", 0)
         /\ h = Len(log[l]) + 1 /\ h <= I64Max
         /\ ~Store!Stored(m.id)
         /\ log' = [log EXCEPT ![l] = Append(log[l], Store!Entry(m.id, dl))]
         /\ UNCHANGED tombs
      \/ /\ Store!Refused("put", "Storage")
         /\ h = Len(log[l]) + 1 /\ h <= I64Max
         /\ Store!Stored(m.id)
  BY DEF Store!AbsReplicate
<1> HIDE DEF l, h, x, dl
<1>10. CASE PutInvalid(m)
  <2>1. h = 0 \/ h > I64Max
    BY <1>0, <1>10 DEF PutInvalid, Storable, h
  <2>3. h \notin 1 .. Len(log[l]) + 1 \/ h > I64Max
    BY <1>0, <2>1
  <2>2. Store!Refused("put", "InvalidArgument") /\ Store!Called("put")
    BY <1>10, RefuseRefines DEF PutInvalid
  <2> QED
    BY Zenon, <1>9, <2>2, <2>3 DEF l, h
<1>11. CASE PutAlreadyPresent(m)
  <2>1. x \in Existing(m)
    BY <1>11 DEF PutAlreadyPresent, x
  <2>2. h \in 1 .. Len(log[l]) /\ log[l][h] = Store!Entry(m.id, dl)
    BY Zenon, <1>1, <1>3, <1>6, <2>1
  <2>3. Store!Refused("put", "AlreadyPresent") /\ Store!Called("put")
    BY <1>11, RefuseRefines DEF PutAlreadyPresent
  <2> QED
    BY Zenon, <1>9, <2>2, <2>3 DEF l, h
<1>12. CASE PutDeletion(m)
  <2>1. PICK e \in Existing(m) : /\ e.id = m.id /\ ~e.deleted
                                 /\ messages' = (messages \ {e}) \cup {x}
    BY <1>12 DEF PutDeletion, x
  <2>2. dl /\ x.deleted = TRUE
    BY <1>5, <1>12 DEF PutDeletion, x
  <2>3. EntryOf(x) = Store!Entry(m.id, TRUE)
    BY Zenon, <1>4, <2>2 DEF EntryOf, Store!Entry
  <2>4. e.deleted = FALSE
    BY <1>6, <2>1 DEF Row
  <2>5. h \in 1 .. Len(log[l]) /\ log[l][h] = Store!Entry(m.id, FALSE)
    BY Zenon, <1>1, <1>6, <2>1, <2>4 DEF EntryOf, Store!Entry
  <2>6. heads' = heads /\ tombstones' = tombstones /\ reply' = Answer("put", "Inserted", 0)
    BY <1>12 DEF PutDeletion
  <2>7. \A k \in Log : View(heads, (messages \ {e}) \cup {x}, k) =
             IF k = e.log THEN [View(heads, messages, k) EXCEPT ![e.head_id] = EntryOf(x)]
             ELSE View(heads, messages, k)
    <3>1. Consistent(heads, (messages \ {e}) \cup {x}, tombstones)
      BY <1>8, <2>1, <2>6
    <3>2. e \in messages /\ x.log = e.log /\ x.head_id = e.head_id
      BY Zenon, <1>4, <1>6
    <3> QED
      BY <1>4, <3>1, <3>2, ViewReplace DEF IInv
  <2>8. \A k \in Log : LogOf(k)' = IF k = l THEN [LogOf(k) EXCEPT ![h] = EntryOf(x)]
                                   ELSE LogOf(k)
    BY Zenon, <1>6, <2>1, <2>6, <2>7, LogIsView, NextLogIsView
  <2>9. log' = [log EXCEPT ![l][h] = Store!Entry(m.id, TRUE)]
    BY Zenon, <1>0, <2>3, <2>8
  <2>10. tombs' = tombs
    BY <2>6 DEF RangesOf
  <2>11. Store!Called("put") /\ Store!Return("put", "Inserted", 0)
    BY <2>6 DEF Answer, Store!Called, Store!Return
  <2> QED
    BY Zenon, <1>9, <2>2, <2>5, <2>9, <2>10, <2>11 DEF l, h
<1>13. CASE PutConflict(m)
  <2>1. PICK e \in Existing(m) : e # x /\ (e.id = m.id => ~x.deleted)
    BY <1>13 DEF PutConflict, x
  <2>2. e \in Row /\ e.log = l /\ e.head_id = h
    BY Zenon, <1>6
  <2>3. e.id # m.id \/ (e.deleted /\ ~dl)
    <3> SUFFICES ASSUME e.id = m.id PROVE e.deleted /\ ~dl
      OBVIOUS
    <3>1. x.deleted = FALSE /\ ~dl
      BY <1>5, <2>1
    <3>2. e.deleted # FALSE
      <4>1. e = [log |-> e.log, head_id |-> e.head_id, id |-> e.id, deleted |-> e.deleted]
        BY <2>2 DEF Row
      <4>2. x = [log |-> x.log, head_id |-> x.head_id, id |-> x.id, deleted |-> x.deleted]
        BY <1>4 DEF Row
      <4> QED
        BY Zenon, <1>4, <2>1, <2>2, <3>1, <4>1, <4>2
    <3> QED
      BY Zenon, <2>2, <3>1, <3>2 DEF Row
  <2>4. h \in 1 .. Len(log[l]) /\ log[l][h] = EntryOf(e)
    BY <1>1, <1>6
  <2>5. log[l][h].id # m.id \/ (log[l][h].deleted /\ ~dl)
    BY <2>3, <2>4 DEF EntryOf
  <2>6. Store!Refused("put", "Conflict") /\ Store!Called("put")
    BY <1>13, RefuseRefines DEF PutConflict
  <2> QED
    BY Zenon, <1>9, <2>4, <2>5, <2>6 DEF l, h
<1>14. CASE PutGap(m)
  <2>1. h > heads[l] + 1
    BY <1>14 DEF PutGap, LeavesGap, l, h
  <2>2. Store!Refused("put", "InvalidArgument") /\ Store!Called("put")
    BY <1>14, RefuseRefines DEF PutGap
  <2>3. h \notin 1 .. Len(log[l]) + 1
    BY <1>0, <1>1, <2>1
  <2> QED
    BY Zenon, <1>9, <2>2, <2>3 DEF l, h
<1>15. CASE PutInsert(m)
  <2>1. h = heads[l] + 1 /\ h <= I64Max
    BY <1>0, <1>7, <1>15 DEF PutInsert, Storable, LeavesGap, l, h
  <2>2. h = Len(log[l]) + 1
    BY <1>1, <2>1
  <2>3. CASE /\ ~IdTaken(m.id) /\ messages' = messages \cup {x}
             /\ heads' = [heads EXCEPT ![l] = IF heads[l] < h THEN h ELSE heads[l]]
             /\ reply' = Answer("put", "Inserted", 0) /\ UNCHANGED tombstones
    <3>1. heads' = [heads EXCEPT ![x.log] = x.head_id]
      <4>1. (IF heads[l] < h THEN h ELSE heads[l]) = h
        BY <1>0, <2>1
      <4> QED
        BY Zenon, <1>4, <2>3, <4>1
    <3>2. \A k \in Log : View(heads', messages', k) =
             IF k = x.log THEN Append(View(heads, messages, k), EntryOf(x))
             ELSE View(heads, messages, k)
      <4>1. /\ Consistent([heads EXCEPT ![x.log] = x.head_id], messages \cup {x}, tombstones)
            /\ x.head_id = heads[x.log] + 1
        BY Zenon, <1>4, <1>8, <2>1, <2>3, <3>1
      <4>2. \A k \in Log : View([heads EXCEPT ![x.log] = x.head_id], messages \cup {x}, k) =
               IF k = x.log THEN Append(View(heads, messages, k), EntryOf(x))
               ELSE View(heads, messages, k)
        BY Zenon, <1>4, <4>1, ViewInsert DEF IInv
      <4> QED
        BY Zenon, <2>3, <3>1, <4>2
    <3>3. \A k \in Log : LogOf(k)' = IF k = l THEN Append(LogOf(k), EntryOf(x)) ELSE LogOf(k)
      BY <1>4, <3>2, LogIsView, NextLogIsView
    <3>4. log' = [log EXCEPT ![l] = Append(log[l], Store!Entry(m.id, dl))]
      BY Zenon, <1>0, <1>1, <1>3, <3>3
    <3>5. tombs' = tombs
      BY <2>3 DEF RangesOf
    <3>6. Store!Called("put") /\ Store!Return("put", "Inserted", 0)
      BY <2>3 DEF Answer, Store!Called, Store!Return
    <3> QED
      BY Zenon, <1>2, <1>9, <2>1, <2>2, <2>3, <3>4, <3>5, <3>6 DEF l, h
  <2>4. CASE IdTaken(m.id) /\ Refuse("put", "Storage")
    BY Zenon, <1>2, <1>9, <2>1, <2>2, <2>4, RefuseRefines DEF l, h
  <2> QED
    BY <1>15, <2>3, <2>4 DEF PutInsert, l, h, x
<1> QED
  BY <1>10, <1>11, <1>12, <1>13, <1>14, <1>15 DEF PutReplicatedMessage

(* Recording a range adds it to the ranges of its log. *)
LEMMA RangesAdd ==
    ASSUME NEW ts \in SUBSET Tombstone, NEW r \in Tombstone, NEW l
    PROVE  Ranges(ts \cup {r}, l) =
              IF l = r.log THEN Ranges(ts, l) \cup {<<r.from_head_id, r.to_head_id>>}
              ELSE Ranges(ts, l)
BY DEF Ranges

(* Recording r and flagging its rows, as the contract sees it *)
LEMMA DeleteView ==
    ASSUME Consistent(heads, messages, tombstones), NEW r \in Tombstone
    PROVE  /\ Store!Flagged(LogOf(r.log), r.from_head_id, r.to_head_id)
                 = View(heads, Deleted(r), r.log)
           /\ \A k \in Log : k # r.log => View(heads, Deleted(r), k) = LogOf(k)
           /\ Store!Cardinality(Store!Live(LogOf(r.log), r.from_head_id, r.to_head_id))
                 = Changed(r)
<1>1. r.log \in Log
  BY DEF Tombstone
<1>2. LogOf(r.log) = View(heads, messages, r.log)
  BY LogIsView
<1>3. Store!Flagged(LogOf(r.log), r.from_head_id, r.to_head_id)
         = View(heads, Deleted(r), r.log)
  BY <1>1, <1>2, ViewDeleted
<1>4. \A k \in Log : k # r.log => View(heads, Deleted(r), k) = LogOf(k)
  BY ViewDeleted, LogIsView
<1>5. Store!Cardinality(Store!Live(LogOf(r.log), r.from_head_id, r.to_head_id)) = Changed(r)
  BY <1>2, ChangedIsLive
<1> QED
  BY <1>3, <1>4, <1>5

(* tombstone_range *)
LEMMA TombstoneRefines ==
    ASSUME IInv, NEW r \in Tombstone, TombstoneRange(r)
    PROVE  /\ Store!Called("delete")
           /\ Store!AbsDelete(r.log, r.from_head_id, r.to_head_id)
<1> DEFINE l == r.log
           f == r.from_head_id
           t == r.to_head_id
           log == [k \in Log |-> LogOf(k)]
           tombs == [k \in Log |-> RangesOf(k)]
<1>0. l \in Log /\ f \in Nat /\ t \in Nat /\ I64Max \in Nat /\ tombstones \in SUBSET Tombstone
  BY WidthAssumption DEF IInv, Consistent, Tombstone
<1>1. CASE /\ ~RangeRefused(r) /\ messages' = Deleted(r) /\ tombstones' = tombstones \cup {r}
           /\ reply' = Answer("delete", "ok", Changed(r)) /\ UNCHANGED heads
  <2>1. \A k \in Log : LogOf(k)' = IF k = l THEN Store!Flagged(LogOf(l), f, t) ELSE LogOf(k)
    BY <1>1, DeleteView, NextLogIsView DEF IInv
  <2>2. log' = [log EXCEPT ![l] = Store!Flagged(log[l], f, t)]
    BY <1>0, <2>1
  <2>3. \A k : RangesOf(k) = Ranges(tombstones, k) /\ RangesOf(k)' = Ranges(tombstones \cup {r}, k)
    BY <1>1 DEF RangesOf, Ranges
  <2>4. tombs' = [tombs EXCEPT ![l] = tombs[l] \cup {<<f, t>>}]
    BY Zenon, <1>0, <2>3, RangesAdd
  <2>5. f <= t /\ t <= I64Max
    BY <1>0, <1>1 DEF RangeRefused, Storable
  <2>6. Store!Called("delete")
    BY <1>1 DEF Answer, Store!Called
  <2>7. Store!Return("delete", "ok", Store!Cardinality(Store!Live(log[l], f, t)))
    BY <1>0, <1>1, DeleteView DEF Answer, Store!Return, IInv
  <2> QED
    BY <2>2, <2>4, <2>5, <2>6, <2>7 DEF Store!AbsDelete
<1>2. CASE RangeRefused(r) /\ Refuse("delete", "InvalidArgument")
  <2>1. f > t \/ t > I64Max
    BY <1>0, <1>2 DEF RangeRefused, Storable
  <2> QED
    BY <1>2, <2>1, RefuseRefines DEF Store!AbsDelete
<1> QED
  BY <1>1, <1>2 DEF TombstoneRange

(* tombstone_range_with_marker *)
LEMMA MarkerRefines ==
    ASSUME IInv, NEW r \in Tombstone, NEW ml \in Log, NEW id \in Id,
           TombstoneRangeWithMarker(r, ml, id)
    PROVE  /\ Store!Called("announce")
           /\ Store!AbsDeleteAndAnnounce(r.log, r.from_head_id, r.to_head_id)
<1> DEFINE l == r.log
           f == r.from_head_id
           t == r.to_head_id
           log == [k \in Log |-> LogOf(k)]
           tombs == [k \in Log |-> RangesOf(k)]
           ts == tombstones \cup {r}
           m == [log |-> ml, head_id |-> heads[ml] + 1, id |-> id, deleted |-> FALSE]
           x == AppendedRow(ml, id, ts)
           flagged == [log EXCEPT ![l] = Store!Flagged(log[l], f, t)]
<1>0. /\ l \in Log /\ f \in Nat /\ t \in Nat /\ I64Max \in Nat /\ ts \in SUBSET Tombstone
      /\ heads[ml] \in 0 .. I64Max
  BY WidthAssumption DEF IInv, Consistent, Tombstone
<1>1. Len(log[ml]) = heads[ml] /\ log[ml] = LogOf(ml)
  BY LogIsView, ViewRow DEF IInv
<1>2. Store!Stored(id) <=> IdTaken(id)
  BY TakenIsStored DEF IInv
<1>3. /\ RangeRefused(r) <=> f > t \/ ~(t <= I64Max)
      /\ Storable(heads[ml] + 1) <=> heads[ml] + 1 <= I64Max
  BY DEF RangeRefused, Storable
<1>4. /\ f \in Nat /\ t \in Nat /\ I64Max \in Nat
      /\ Len(log[ml]) = heads[ml] /\ heads[ml] \in 0 .. I64Max
  BY <1>0, <1>1, WidthAssumption
<1>5. CASE /\ ~RangeRefused(r) /\ Storable(heads[ml] + 1) /\ ~IdTaken(id)
           /\ messages' = Deleted(r) \cup {x}
           /\ tombstones' = ts
           /\ heads' = [heads EXCEPT ![ml] = heads[ml] + 1]
           /\ reply' = Answer("announce", "ok", Changed(r))
  <2>1. m \in Row
    BY <1>0, <1>5, WidthAssumption DEF Row, Storable
  <2>2. x \in Row /\ x.log = ml /\ x.head_id = heads[ml] + 1
    BY <1>0, <2>1, MarkedRow DEF AppendedRow
  <2>3. EntryOf(x) = Store!Entry(id, Store!Covered(Ranges(ts, ml), heads[ml] + 1))
    <3> DEFINE c == Store!Covered(Ranges(ts, ml), heads[ml] + 1)
    <3>1. EntryOf(x) = Store!Entry(id, FALSE \/ c)
      BY <1>0, <2>1, MarkedEntry DEF AppendedRow
    <3>2. (FALSE \/ c) = c
      BY Zenon DEF Store!Covered
    <3> QED
      BY <3>1, <3>2
  <2>4. Consistent(heads, Deleted(r), ts)
    BY DeleteRange DEF IInv
  <2>5. /\ heads' = [heads EXCEPT ![x.log] = x.head_id]
        /\ Consistent([heads EXCEPT ![x.log] = x.head_id], Deleted(r) \cup {x}, ts)
        /\ x.head_id = heads[x.log] + 1
    BY Zenon, <1>5, <2>2, TombstoneWithMarkerStep DEF IInv
  <2> HIDE DEF x, ts
  <2>6. \A k \in Log : View([heads EXCEPT ![x.log] = x.head_id], Deleted(r) \cup {x}, k) =
           IF k = x.log THEN Append(View(heads, Deleted(r), k), EntryOf(x))
           ELSE View(heads, Deleted(r), k)
    BY Zenon, <2>2, <2>4, <2>5, ViewInsert
  <2>7. \A k \in Log : View(heads, Deleted(r), k) = flagged[k] /\ Len(flagged[k]) = heads[k]
    <3>1. \A k \in Log : View(heads, Deleted(r), k) = flagged[k]
      BY <1>0, DeleteView DEF IInv
    <3>2. \A k \in Log : Len(View(heads, Deleted(r), k)) = heads[k]
      BY <2>4, ViewRow
    <3> QED
      BY <3>1, <3>2
  <2>8. \A k : RangesOf(k) = Ranges(tombstones, k) /\ RangesOf(k)' = Ranges(ts, k)
    BY <1>5 DEF RangesOf, Ranges
  <2>9. tombs' = [tombs EXCEPT ![l] = tombs[l] \cup {<<f, t>>}] /\ tombs'[ml] = Ranges(ts, ml)
    <3>1. tombstones \in SUBSET Tombstone
      BY DEF IInv, Consistent
    <3>2. \A k : Ranges(ts, k) = IF k = l THEN Ranges(tombstones, k) \cup {<<f, t>>}
                                 ELSE Ranges(tombstones, k)
      BY Zenon, <3>1, RangesAdd DEF ts
    <3> QED
      BY Zenon, <1>0, <2>8, <3>2
  <2>10. \A k \in Log : LogOf(k)' = IF k = ml THEN Append(flagged[k], EntryOf(x))
                                    ELSE flagged[k]
    BY Zenon, <1>5, <2>2, <2>5, <2>6, <2>7, NextLogIsView
  <2>11. EntryOf(x) = Store!Entry(id, Store!Covered(tombs'[ml], Len(flagged[ml]) + 1))
    BY <2>3, <2>7, <2>9
  <2>12. log' = [flagged EXCEPT ![ml] = Store!Appended(flagged[ml], tombs'[ml], id)]
    BY Zenon, <2>10, <2>11 DEF Store!Appended
  <2>13. f <= t /\ t <= I64Max /\ Len(log[ml]) < I64Max
    BY <1>3, <1>4, <1>5
  <2>14. Store!Called("announce")
    BY <1>5 DEF Answer, Store!Called
  <2>15. Store!Return("announce", "ok", Store!Cardinality(Store!Live(log[l], f, t)))
    BY <1>0, <1>5, DeleteView DEF Answer, Store!Return, IInv
  <2> QED
    BY <1>2, <1>5, <2>9, <2>12, <2>13, <2>14, <2>15 DEF Store!AbsDeleteAndAnnounce
<1>6. CASE /\ RangeRefused(r) \/ ~Storable(heads[ml] + 1)
           /\ Refuse("announce", "InvalidArgument")
  <2>1. f > t \/ t > I64Max \/ Len(log[ml]) = I64Max
    BY <1>3, <1>4, <1>6
  <2> QED
    BY Zenon, <1>6, <2>1, RefuseRefines DEF Store!AbsDeleteAndAnnounce
<1>7. CASE /\ ~RangeRefused(r) /\ Storable(heads[ml] + 1) /\ IdTaken(id)
           /\ Refuse("announce", "Storage")
  <2>1. f <= t /\ t <= I64Max /\ Len(log[ml]) < I64Max
    BY <1>3, <1>4, <1>7
  <2> QED
    BY Zenon, <1>2, <1>7, <2>1, RefuseRefines DEF Store!AbsDeleteAndAnnounce
<1> QED
  BY <1>5, <1>6, <1>7 DEF TombstoneRangeWithMarker

(* Every step of the tables is a step of the contract. *)
LEMMA StepRefines ==
    ASSUME IInv, [Next]_vars
    PROVE  [Store!AbsNext]_(Store!absVars)
<1>1. CASE UNCHANGED vars
  BY <1>1 DEF vars, LogOf, RowAt, RangesOf, Store!absVars
<1>2. ASSUME NEW l \in Log, NEW id \in Id, AppendMessage(l, id)
      PROVE  Store!AbsNext
  BY <1>2, AppendRefines DEF Store!AbsNext
<1>3. ASSUME NEW l \in Log, NEW h \in 0 .. U64Max, NEW id \in Id, NEW d \in BOOLEAN,
             PutReplicatedMessage([log |-> l, head_id |-> h, id |-> id, deleted |-> d])
      PROVE  Store!AbsNext
  <2> DEFINE m == [log |-> l, head_id |-> h, id |-> id, deleted |-> d]
  <2>1. m \in Row
    BY DEF Row
  <2>2. Store!Called("put") /\ Store!AbsReplicate(m.log, m.head_id, m.id, m.deleted)
    BY <1>3, <2>1, PutRefines
  <2>3. Store!Called("put") /\ Store!AbsReplicate(l, h, id, d)
    BY <2>2
  <2> QED
    BY <2>3 DEF Store!AbsNext
<1>4. ASSUME NEW l \in Log, NEW f \in 0 .. U64Max, NEW t \in 0 .. U64Max,
             LET r == [log |-> l, from_head_id |-> f, to_head_id |-> t]
             IN  \/ TombstoneRange(r)
                 \/ \E ml \in Log, id \in Id : TombstoneRangeWithMarker(r, ml, id)
      PROVE  Store!AbsNext
  <2> DEFINE r == [log |-> l, from_head_id |-> f, to_head_id |-> t]
  <2>1. r \in Tombstone /\ r.log = l /\ r.from_head_id = f /\ r.to_head_id = t
    BY DEF Tombstone
  <2> HIDE DEF r
  <2>2. CASE TombstoneRange(r)
    BY <2>1, <2>2, TombstoneRefines DEF Store!AbsNext
  <2>3. CASE \E ml \in Log, id \in Id : TombstoneRangeWithMarker(r, ml, id)
    BY <2>1, <2>3, MarkerRefines DEF Store!AbsNext
  <2> QED
    BY <1>4, <2>2, <2>3 DEF r
<1> QED
  BY Zenon, <1>1, <1>2, <1>3, <1>4 DEF Next

(* The SQLite store is the store the contract promises: the answers of
   append_message, put_replicated_message, tombstone_range and
   tombstone_range_with_marker are those of logs that only grow, whatever the
   sequence of calls. *)
THEOREM SqliteImplementsStore == Spec => ImplementsStore
<1>1. Init => Store!AbsInit
  <2> SUFFICES ASSUME Init PROVE Store!AbsInit
    OBVIOUS
  <2>1. \A l \in Log : LogOf(l) = <<>> /\ RangesOf(l) = {}
    BY DEF Init, LogOf, RangesOf
  <2> QED
    BY <2>1 DEF Init, Answer, Store!AbsInit
<1>2. IInv /\ [Next]_vars => [Store!AbsNext]_(Store!absVars)
  BY StepRefines
<1> QED
  BY <1>1, <1>2, TablesConsistent, PTL DEF Spec, ImplementsStore, Store!AbsSpec

----------------------------------------------------------------------------
(***************************************************************************)
(* The FIFO tables                                                         *)
(***************************************************************************)
(* The inductive invariant of the FIFO tables: the rows of each queue stand in
   line behind the last sequence number given out. *)
Lines == /\ sequences \in [Queue -> 0 .. I64Max]
         /\ fifo \subseteq F!FifoRow
         /\ \A q \in Queue : InLine(F!RowsOf(q), sequences[q])

(* What is in a queue *)
Items == [id : FifoId, attempts : 0 .. U32Max]

(* The Cardinality of the FIFO module is the Cardinality of this one. *)
LEMMA FifoCardinality == ASSUME NEW S PROVE F!Cardinality(S) = Cardinality(S)
BY DEF F!Cardinality, Cardinality

(* The contract's queue is the line of the rows. *)
LEMMA QueueIsLine ==
    ASSUME NEW q PROVE F!QueueOf(q) = LineOf(F!RowsOf(q), sequences[q])
BY Zenon, FifoCardinality DEF F!QueueOf, F!Waiting, F!RowWith, LineOf, Gone, RowAtPlace, Item

(* The same of the next state *)
LEMMA NextQueueIsLine ==
    ASSUME NEW q PROVE F!QueueOf(q)' = LineOf(F!RowsOf(q)', sequences'[q])
BY Zenon, FifoCardinality DEF F!QueueOf, F!Waiting, F!RowWith, LineOf, Gone, RowAtPlace, Item

(* Rows carry items. *)
LEMMA RowsHaveItems ==
    ASSUME fifo \subseteq F!FifoRow, NEW q
    PROVE  \A r \in F!RowsOf(q) : Item(r) \in Items
BY DEF F!RowsOf, F!FifoRow, Item, Items

(* The index on ids and the contract refuse the same ids. *)
LEMMA WaitingIsWaiting ==
    ASSUME Lines, NEW id
    PROVE  F!Contract!IsWaiting(id) <=> F!IdWaiting(id)
<1>1. F!Contract!IsWaiting(id) <=>
         \E q \in Queue : \E k \in 1 .. Len(F!QueueOf(q)) : F!QueueOf(q)[k].id = id
  BY DEF F!Contract!IsWaiting
<1>2. ASSUME NEW q \in Queue, NEW k \in 1 .. Len(F!QueueOf(q)), F!QueueOf(q)[k].id = id
      PROVE  F!IdWaiting(id)
  <2> DEFINE R == F!RowsOf(q)
             n == sequences[q]
  <2>1. F!QueueOf(q) = LineOf(R, n) /\ InLine(R, n)
    BY QueueIsLine DEF Lines
  <2> HIDE DEF R, n
  <2>2. k \in 1 .. Cardinality(R) /\ LineOf(R, n)[k].id = id
    BY <1>2, <2>1, LineItem
  <2>3. PICK r \in R : LineOf(R, n)[k] = Item(r)
    BY <2>1, <2>2, LineItem
  <2>4. r.id = id
    BY <2>2, <2>3 DEF Item
  <2> QED
    BY <2>4 DEF R, F!RowsOf, F!IdWaiting
<1>3. ASSUME NEW r \in fifo, r.id = id
      PROVE  \E q \in Queue : \E k \in 1 .. Len(F!QueueOf(q)) : F!QueueOf(q)[k].id = id
  <2> DEFINE q == r.queue
             R == F!RowsOf(q)
             n == sequences[q]
             k == r.sequence - Gone(R, n)
  <2>1. q \in Queue /\ r \in R
    BY DEF Lines, F!FifoRow, F!RowsOf
  <2>2. F!QueueOf(q) = LineOf(R, n) /\ InLine(R, n)
    BY <2>1, QueueIsLine DEF Lines
  <2> HIDE DEF R, n
  <2>3. /\ k \in 1 .. Cardinality(R) /\ Len(LineOf(R, n)) = Cardinality(R)
        /\ LineOf(R, n)[k] = Item(r)
    BY <2>1, <2>2, LineItem
  <2>4. LineOf(R, n)[k].id = id
    BY <1>3, <2>3 DEF Item
  <2> QED
    BY <2>1, <2>2, <2>3, <2>4
<1> QED
  BY <1>1, <1>2, <1>3 DEF F!IdWaiting

(* The first row and the front of the contract's queue are the same. *)
LEMMA FirstIsFront ==
    ASSUME Lines, NEW q \in Queue, NEW id
    PROVE  F!Contract!IsFront(q, id) <=> \E r \in F!RowsOf(q) : F!IsFirst(r) /\ r.id = id
<1> DEFINE R == F!RowsOf(q)
           n == sequences[q]
           s == LineOf(R, n)
<1>1. InLine(R, n) /\ F!QueueOf(q) = s
  BY QueueIsLine DEF Lines
<1>2. F!Contract!IsFront(q, id) <=> s # <<>> /\ Head(s).id = id
  BY <1>1 DEF F!Contract!IsFront
<1>3. \A r \in R : F!IsFirst(r) <=> \A e \in R : r.sequence <= e.sequence
  BY DEF F!IsFirst, F!RowsOf
<1>4. s \in Seq(Items) /\ Len(s) = Cardinality(R) /\ Cardinality(R) \in Nat
  BY <1>1, RowsHaveItems, LineType, LineItem DEF Lines
<1> HIDE DEF R, n
<1>5. ASSUME NEW r \in R, F!IsFirst(r)
      PROVE  s # <<>> /\ Head(s) = Item(r)
  <2>1. Cardinality(R) >= 1 /\ s[1] = Item(r)
    BY <1>1, <1>3, <1>5, LineFront
  <2> HIDE DEF s
  <2> QED
    BY <1>4, <2>1
<1>6. ASSUME s # <<>>, Head(s).id = id
      PROVE  \E r \in R : F!IsFirst(r) /\ r.id = id
  <2>1. R # {}
    <3>1. Cardinality({}) = 0
      BY FS_EmptySet
    <3>2. R = {} => Len(s) = 0
      BY <1>4, <3>1
    <3>3. Len(s) # 0
      <4> HIDE DEF s
      <4> QED BY <1>4, <1>6
    <3> QED
      BY <3>2, <3>3
  <2>2. PICK r \in R : \A e \in R : r.sequence <= e.sequence
    BY <1>1, <2>1, LineHasFront
  <2>3. Head(s) = Item(r) /\ F!IsFirst(r)
    BY <1>3, <1>5, <2>2
  <2>4. r.id = id
    BY <1>6, <2>3 DEF Item
  <2> QED
    BY <2>3, <2>4
<1>7. ASSUME NEW r \in R, F!IsFirst(r), r.id = id
      PROVE  s # <<>> /\ Head(s).id = id
  BY <1>5, <1>7 DEF Item
<1> QED
  BY <1>2, <1>6, <1>7 DEF R

(* enqueue_fifo: a row joins the line of its queue *)
LEMMA EnqueueLines ==
    ASSUME Lines, NEW q \in Queue, NEW id \in FifoId, F!EnqueueFifo(q, id)
    PROVE  Lines' /\ F!Contract!AbsEnqueue(q, id)
<1> DEFINE queue == [k \in Queue |-> F!QueueOf(k)]
           R == F!RowsOf(q)
           n == sequences[q]
           p == n + 1
           x == F!NewRow(q, id)
<1>0. n \in 0 .. I64Max /\ I64Max \in Nat /\ p = n + 1
  BY WidthAssumption DEF Lines
<1>1. F!Contract!IsWaiting(id) <=> F!IdWaiting(id)
  BY WaitingIsWaiting
<1>2. CASE /\ n + 1 <= I64Max /\ ~F!IdWaiting(id)
           /\ sequences' = [sequences EXCEPT ![q] = n + 1]
           /\ fifo' = fifo \cup {x}
           /\ fifo_reply' = F!FifoAnswer(q, "ok")
  <2>1. /\ x \in F!FifoRow /\ x.queue = q /\ x.sequence = p
        /\ Item(x) \in Items /\ Item(x) = [id |-> id, attempts |-> 0]
    BY <1>0, AttemptsAssumption DEF F!NewRow, F!FifoRow, Item, Items
  <2>2. \A k \in Queue : F!RowsOf(k)' = IF k = q THEN R \cup {x} ELSE F!RowsOf(k)
    BY <1>2, <2>1 DEF F!RowsOf
  <2>3. /\ InLine(R \cup {x}, p)
        /\ LineOf(R \cup {x}, p) = Append(LineOf(R, n), Item(x))
    <3>1. InLine(R, n)
      BY DEF Lines
    <3>2. Follows(x.sequence, n) /\ x.sequence = p
      BY <2>1 DEF Follows
    <3> HIDE DEF R, n, p, x
    <3> QED
      BY Zenon, <3>1, <3>2, LineJoin
  <2>4. \A k \in Queue : sequences'[k] = IF k = q THEN n + 1 ELSE sequences[k]
    BY <1>2 DEF Lines
  <2>5. \A k \in Queue : InLine(F!RowsOf(k)', sequences'[k])
    BY Zenon, <2>2, <2>3, <2>4 DEF Lines
  <2>6. sequences' \in [Queue -> 0 .. I64Max] /\ fifo' \subseteq F!FifoRow
    BY <1>0, <1>2, <2>1 DEF Lines
  <2>7. Lines'
    BY <2>5, <2>6 DEF Lines, F!FifoRow
  <2>8. \A k \in Queue : F!QueueOf(k)' = IF k = q THEN Append(F!QueueOf(q), Item(x))
                                         ELSE F!QueueOf(k)
    BY Zenon, <2>2, <2>3, <2>4, QueueIsLine, NextQueueIsLine
  <2>9. queue' = [queue EXCEPT ![q] = Append(queue[q], [id |-> id, attempts |-> 0])]
    BY Zenon, <2>1, <2>8
  <2>10. n < I64Max
    BY <1>0, <1>2
  <2> QED
    BY <1>1, <1>2, <2>7, <2>9, <2>10 DEF F!Contract!AbsEnqueue, F!Contract!FifoAnswer, F!FifoAnswer
<1>3. CASE /\ n + 1 > I64Max /\ fifo_reply' = F!FifoAnswer(q, "InvalidArgument")
           /\ UNCHANGED <<sequences, fifo>>
  <2>1. Lines' /\ queue' = queue
    BY Zenon, <1>3 DEF Lines, F!RowsOf, F!QueueOf, F!RowWith, F!Waiting, F!FifoRow
  <2>2. n = I64Max
    BY <1>0, <1>3
  <2> QED
    BY <1>3, <2>1, <2>2 DEF F!Contract!AbsEnqueue, F!Contract!FifoAnswer, F!FifoAnswer
<1>4. CASE /\ n + 1 <= I64Max /\ F!IdWaiting(id) /\ fifo_reply' = F!FifoAnswer(q, "Storage")
           /\ UNCHANGED <<sequences, fifo>>
  <2>1. Lines' /\ queue' = queue
    BY <1>4 DEF Lines, F!RowsOf, F!QueueOf, F!RowWith, F!Waiting, F!FifoRow
  <2>2. n < I64Max
    BY <1>0, <1>4
  <2> QED
    BY <1>1, <1>4, <2>1, <2>2 DEF F!Contract!AbsEnqueue, F!Contract!FifoAnswer, F!FifoAnswer
<1> QED
  BY <1>2, <1>3, <1>4 DEF F!EnqueueFifo

(* ack_fifo: the first row leaves *)
LEMMA AckLines ==
    ASSUME Lines, NEW q \in Queue, NEW id \in FifoId, F!AckFifo(q, id)
    PROVE  Lines' /\ F!Contract!AbsAck(q, id)
<1> DEFINE queue == [k \in Queue |-> F!QueueOf(k)]
           R == F!RowsOf(q)
           n == sequences[q]
<1>1. PICK x \in R : F!IsFirst(x) /\ x.id = id /\ fifo' = fifo \ {x}
  BY DEF F!AckFifo
<1>2. sequences' = sequences /\ fifo_reply' = F!FifoAnswer(q, "acknowledged")
  BY DEF F!AckFifo
<1>3. F!Contract!IsFront(q, id)
  BY <1>1, FirstIsFront
<1>4. x.queue = q /\ \A e \in R : x.sequence <= e.sequence
  BY <1>1 DEF F!IsFirst, F!RowsOf
<1>5. \A k \in Queue : F!RowsOf(k)' = IF k = q THEN R \ {x} ELSE F!RowsOf(k)
  BY <1>1, <1>4 DEF F!RowsOf
<1>6. InLine(R \ {x}, n) /\ LineOf(R \ {x}, n) = Tail(LineOf(R, n))
  <2>1. InLine(R, n)
    BY DEF Lines
  <2> HIDE DEF R, n
  <2> QED
    BY Zenon, <1>4, <2>1, LineLeave
<1>7. Lines'
  <2>1. \A k \in Queue : InLine(F!RowsOf(k)', sequences'[k])
    BY Zenon, <1>2, <1>5, <1>6 DEF Lines
  <2>2. sequences' \in [Queue -> 0 .. I64Max] /\ fifo' \subseteq F!FifoRow
    BY <1>1, <1>2 DEF Lines
  <2> QED
    BY <2>1, <2>2 DEF Lines, F!FifoRow
<1>8. \A k \in Queue : F!QueueOf(k)' = IF k = q THEN Tail(F!QueueOf(q)) ELSE F!QueueOf(k)
  BY Zenon, <1>2, <1>5, <1>6, QueueIsLine, NextQueueIsLine
<1>9. queue' = [queue EXCEPT ![q] = Tail(queue[q])]
  BY Zenon, <1>8
<1> QED
  BY <1>2, <1>3, <1>7, <1>9 DEF F!Contract!AbsAck, F!Contract!FifoAnswer, F!FifoAnswer

(* reject_fifo: the first row stays, with one attempt more *)
LEMMA RejectLines ==
    ASSUME Lines, NEW q \in Queue, NEW id \in FifoId, F!RejectFifo(q, id)
    PROVE  Lines' /\ F!Contract!AbsReject(q, id)
<1> DEFINE queue == [k \in Queue |-> F!QueueOf(k)]
           R == F!RowsOf(q)
           n == sequences[q]
           Retried(r) == [r EXCEPT !.attempts = F!Saturating(r.attempts)]
<1>1. PICK x \in R : F!IsFirst(x) /\ x.id = id /\ fifo' = (fifo \ {x}) \cup {Retried(x)}
  BY DEF F!RejectFifo
<1>2. sequences' = sequences /\ fifo_reply' = F!FifoAnswer(q, "rejected")
  BY DEF F!RejectFifo
<1>3. F!Contract!IsFront(q, id)
  BY <1>1, FirstIsFront
<1>4. x.queue = q /\ x \in F!FifoRow /\ \A e \in R : x.sequence <= e.sequence
  BY <1>1 DEF F!IsFirst, F!RowsOf, Lines
<1> DEFINE y == Retried(x)
           a == x.attempts
<1>5. a \in 0 .. U32Max /\ U32Max \in Nat
  BY <1>4, AttemptsAssumption DEF F!FifoRow
<1>6. F!Saturating(a) \in 0 .. U32Max /\ F!Saturating(a) = IF a < U32Max THEN a + 1 ELSE a
  BY <1>5 DEF F!Saturating
<1>7. /\ y \in F!FifoRow /\ y.queue = q /\ y.sequence = x.sequence /\ y.id = x.id
      /\ y.attempts = F!Saturating(a)
  BY <1>4, <1>6 DEF F!FifoRow
<1>8. Item(y) \in Items /\ Item(y) = [Item(x) EXCEPT !.attempts = F!Saturating(a)]
  BY <1>4, <1>6, <1>7 DEF Item, Items, F!FifoRow
<1> HIDE DEF y, a
<1>9. \A k \in Queue : F!RowsOf(k)' = IF k = q THEN (R \ {x}) \cup {y} ELSE F!RowsOf(k)
  BY Zenon, <1>1, <1>4, <1>7 DEF F!RowsOf, y
<1>10. /\ InLine((R \ {x}) \cup {y}, n)
       /\ LineOf((R \ {x}) \cup {y}, n) = [LineOf(R, n) EXCEPT ![1] = Item(y)]
       /\ LineOf(R, n)[1] = Item(x)
  <2>1. InLine(R, n)
    BY DEF Lines
  <2> HIDE DEF R, n
  <2> QED
    BY <1>4, <1>7, <1>8, <2>1, LineStay, LineFront
<1>11. Lines'
  <2>1. \A k \in Queue : InLine(F!RowsOf(k)', sequences'[k])
    BY <1>2, <1>9, <1>10 DEF Lines
  <2>2. sequences' \in [Queue -> 0 .. I64Max] /\ fifo' \subseteq F!FifoRow
    BY <1>1, <1>2, <1>7 DEF Lines, y
  <2> QED
    BY <2>1, <2>2 DEF Lines, F!FifoRow
<1>12. /\ \A k \in Queue : F!QueueOf(k)' = IF k = q THEN [F!QueueOf(q) EXCEPT ![1] = Item(y)]
                                           ELSE F!QueueOf(k)
       /\ F!QueueOf(q)[1] = Item(x)
  BY <1>2, <1>9, <1>10, QueueIsLine, NextQueueIsLine
<1>13. queue' = [queue EXCEPT ![q] = [queue[q] EXCEPT ![1] = Item(y)]]
  BY Zenon, <1>12
<1>14. Item(y) = [queue[q][1] EXCEPT !.attempts = IF queue[q][1].attempts < U32Max
                                                  THEN queue[q][1].attempts + 1
                                                  ELSE queue[q][1].attempts]
  <2>1. queue[q][1] = Item(x) /\ Item(x).attempts = a
    BY <1>12 DEF Item, a
  <2> QED
    BY <1>6, <1>8, <2>1
<1>15. queue' = [queue EXCEPT ![q][1].attempts = IF @ < U32Max THEN @ + 1 ELSE @]
  BY <1>13, <1>14
<1> QED
  BY <1>2, <1>3, <1>11, <1>15 DEF F!Contract!AbsReject, F!Contract!FifoAnswer, F!FifoAnswer

(* Every step of the FIFO tables is a step of the queues' contract. *)
LEMMA FifoStep ==
    ASSUME Lines, F!FifoNext
    PROVE  Lines' /\ F!Contract!AbsNext
<1>1. PICK q \in Queue, id \in FifoId : \/ F!EnqueueFifo(q, id) \/ F!AckFifo(q, id)
                                        \/ F!RejectFifo(q, id)  \/ F!NotFront(q, id)
  BY DEF F!FifoNext
<1>2. CASE F!EnqueueFifo(q, id)
  BY <1>2, EnqueueLines DEF F!Contract!AbsNext
<1>3. CASE F!AckFifo(q, id)
  BY <1>3, AckLines DEF F!Contract!AbsNext
<1>4. CASE F!RejectFifo(q, id)
  BY <1>4, RejectLines DEF F!Contract!AbsNext
<1>5. CASE F!NotFront(q, id)
  <2>1. sequences' = sequences /\ fifo' = fifo /\ fifo_reply' = F!FifoAnswer(q, "ignored")
    BY <1>5 DEF F!NotFront
  <2>2. ~F!Contract!IsFront(q, id)
    BY <1>5, FirstIsFront DEF F!NotFront
  <2>3. Lines' /\ \A k : F!QueueOf(k)' = F!QueueOf(k)
    BY <2>1 DEF Lines, F!RowsOf, F!QueueOf, F!RowWith, F!Waiting, F!FifoRow
  <2>4. F!Contract!AbsNotFront(q, id)
    BY <2>1, <2>2, <2>3 DEF F!Contract!AbsNotFront, F!Contract!FifoAnswer, F!FifoAnswer
  <2> QED
    BY <2>3, <2>4 DEF F!Contract!AbsNext
<1> QED
  BY <1>1, <1>2, <1>3, <1>4, <1>5

(* The message operations leave the queues alone. *)
LEMMA DatabaseStep ==
    ASSUME Lines, [DatabaseNext]_databaseVars
    PROVE  Lines' /\ [F!Contract!AbsNext]_(F!Contract!absVars)
<1>1. CASE UNCHANGED <<sequences, fifo, fifo_reply>>
  BY <1>1 DEF Lines, F!RowsOf, F!QueueOf, F!RowWith, F!Waiting, F!FifoRow, F!Contract!absVars
<1>2. CASE F!FifoNext
  BY <1>2, FifoStep
<1> QED
  BY <1>1, <1>2 DEF DatabaseNext, databaseVars

(* The queues start empty. *)
LEMMA FifoStart ==
    ASSUME DatabaseInit
    PROVE  Lines /\ F!Contract!AbsInit
<1>1. /\ sequences = [q \in Queue |-> 0] /\ fifo = {}
      /\ fifo_reply = F!FifoAnswer("none", "none")
      /\ \A q : F!RowsOf(q) = {}
  BY DEF DatabaseInit, F!FifoInit, F!RowsOf
<1>2. \A q \in Queue : InLine(F!RowsOf(q), sequences[q])
  BY <1>1, LineEmpty
<1>3. sequences \in [Queue -> 0 .. I64Max]
  BY <1>1, WidthAssumption
<1>4. Lines
  BY <1>1, <1>2, <1>3 DEF Lines
<1>5. \A q \in Queue : F!QueueOf(q) = <<>>
  BY Zenon, <1>1, LineEmpty, QueueIsLine
<1> QED
  BY <1>1, <1>4, <1>5 DEF F!Contract!AbsInit, F!Contract!FifoAnswer, F!FifoAnswer

(* A message of a queue waits behind all that were enqueued before it and are
   not acknowledged, and no sequence number is skipped or given out twice,
   whatever was enqueued, acknowledged and rejected: the rows of a queue are
   the newest numbers of its counter. *)
THEOREM QueuesInLine == DatabaseSpec => []WaitingAreNewest
<1>1. DatabaseInit => Lines
  BY FifoStart
<1>2. Lines /\ [DatabaseNext]_databaseVars => Lines'
  BY DatabaseStep
<1>3. Lines => WaitingAreNewest
  <2> SUFFICES ASSUME Lines, NEW q \in Queue
               PROVE  {r.sequence : r \in F!RowsOf(q)} =
                         (sequences[q] - F!Waiting(q) + 1) .. sequences[q]
    BY DEF WaitingAreNewest, F!WaitingAreNewest
  <2>1. InLine(F!RowsOf(q), sequences[q]) /\ F!Waiting(q) = Cardinality(F!RowsOf(q))
    BY FifoCardinality DEF Lines, F!Waiting
  <2> QED
    BY <2>1 DEF InLine, Gone
<1> QED
  BY <1>1, <1>2, <1>3, PTL DEF DatabaseSpec

(* The FIFO tables of SQLite are first-in first-out queues as the contract
   has them: only the front is acknowledged or rejected, a rejected message
   stays the front, a stale id changes nothing. *)
THEOREM SqliteImplementsFifo == DatabaseSpec => ImplementsFifo
<1>1. DatabaseInit => Lines /\ F!Contract!AbsInit
  BY FifoStart
<1>2. Lines /\ [DatabaseNext]_databaseVars
         => Lines' /\ [F!Contract!AbsNext]_(F!Contract!absVars)
  BY DatabaseStep
<1>3. ImplementsFifo <=> F!Contract!AbsInit /\ [][F!Contract!AbsNext]_(F!Contract!absVars)
  BY DEF ImplementsFifo, F!ImplementsFifo, F!Contract!AbsSpec
<1> QED
  BY <1>1, <1>2, <1>3, PTL DEF DatabaseSpec

(* What is shown of the message tables above holds of the database:
   the FIFO operations do not touch them. *)
THEOREM DatabaseKeepsLogs == DatabaseSpec => Spec
<1>1. DatabaseInit => Init
  BY DEF DatabaseInit
<1>2. [DatabaseNext]_databaseVars => [Next]_vars
  BY DEF DatabaseNext, databaseVars, vars
<1> QED
  BY <1>1, <1>2, PTL DEF DatabaseSpec, Spec
=============================================================================
