-------------------------- MODULE RedbStoreProofs --------------------------
(***************************************************************************)
(* The redb backend, for every set of logs, ids and queues, every width    *)
(* of the key fields and every bound: its ordered key-value tables         *)
(* implement the store contract and the queues' contract.                  *)
(*                                                                         *)
(* The inductive invariants say that every row is filed under the key of   *)
(* what is in it.  LogInv says so of the messages, one for every head id   *)
(* up to the log's head, and of the tombstone ranges; FifoInv of the       *)
(* queues, whose rows moreover carry the newest sequence numbers, each     *)
(* once.  Keys determine rows (RedbKeysProofs), so inserting under a key   *)
(* adds a row or replaces the one meant, and never another log's.          *)
(***************************************************************************)
EXTENDS RedbKeysProofs

----------------------------------------------------------------------------
(***************************************************************************)
(* The message tables implement the store contract                         *)
(***************************************************************************)
(* The function f with e for i *)
With(f, i, e) == [f EXCEPT ![i] = e]

Entries == [id : Id, deleted : BOOLEAN]

EntryOf(m) == [id |-> m.id, deleted |-> m.deleted]

(* The log that the rows ms with heads hs stand for *)
View(hs, ms, l) == [h \in 1 .. hs[l] |-> EntryOf(ms[MessageKey(l, h)])]

(* The ranges that rows ts of the tombstones table give for log l *)
RangesIn(ts, l) == {<<ts[k].from, ts[k].to>> : k \in {j \in DOMAIN ts : ts[j].log = l}}

(* The contract's log *)
LogOf(l) == [h \in 1 .. heads[l] |-> EntryAt(l, h)]

(* Logs and ranges of the contract, before and after a step *)
LEMMA LogIsView ==
    ASSUME NEW l
    PROVE  /\ LogOf(l) = View(heads, messages, l) /\ LogOf(l)' = View(heads', messages', l)
           /\ RangesOf(l) = RangesIn(tombstones, l) /\ RangesOf(l)' = RangesIn(tombstones', l)
BY DEF LogOf, EntryAt, View, EntryOf, RangesOf, RangesIn

(* A log is a sequence, and every row is where its head id says. *)
LEMMA ViewRow ==
    ASSUME NEW hs, NEW ms, Filed(hs, ms), NEW l \in Log
    PROVE  /\ hs[l] \in Nat /\ hs[l] <= MaxHead /\ View(hs, ms, l) \in Seq(Entries)
           /\ Len(View(hs, ms, l)) = hs[l]
           /\ \A h \in 1 .. hs[l] : /\ View(hs, ms, l)[h] = EntryOf(ms[MessageKey(l, h)])
                                    /\ EntryOf(ms[MessageKey(l, h)]) \in Entries
<1>1. hs[l] \in Nat /\ hs[l] <= MaxHead
  BY RowUnder, Numbers
<1>2. \A h \in 1 .. hs[l] : EntryOf(ms[MessageKey(l, h)]) \in Entries
  <2>1. \A h \in 1 .. hs[l] : ms[MessageKey(l, h)] \in Row
    BY RowUnder
  <2> QED
    BY <2>1 DEF Row, EntryOf, Entries
<1>3. View(hs, ms, l) \in [1 .. hs[l] -> Entries]
  BY <1>2 DEF View
<1>4. \A h \in 1 .. hs[l] : View(hs, ms, l)[h] = EntryOf(ms[MessageKey(l, h)])
  BY DEF View
<1> QED
  BY <1>1, <1>2, <1>3, <1>4

(* The entries determine the log. *)
LEMMA ViewIs ==
    ASSUME NEW hs, NEW ms, Filed(hs, ms), NEW l \in Log,
           NEW s \in Seq(Entries), Len(s) = hs[l],
           \A h \in 1 .. hs[l] : s[h] = EntryOf(ms[MessageKey(l, h)])
    PROVE  View(hs, ms, l) = s
<1>1. View(hs, ms, l) \in Seq(Entries) /\ Len(View(hs, ms, l)) = hs[l] /\ hs[l] \in Nat
  BY ViewRow
<1>2. \A h \in 1 .. hs[l] : View(hs, ms, l)[h] = s[h]
  BY ViewRow
<1> HIDE DEF View
<1> QED
  BY <1>1, <1>2, SameElements

(* What lies under the keys once a row is inserted *)
LEMMA InsertedUnder ==
    ASSUME NEW ms, NEW x \in Row, NEW l \in Log, NEW h \in 1 .. MaxHead
    PROVE  Insert(ms, MessageKey(x.log, x.head_id), x)[MessageKey(l, h)] =
              IF l = x.log /\ h = x.head_id THEN x
              ELSE IF MessageKey(l, h) \in DOMAIN ms THEN ms[MessageKey(l, h)]
              ELSE Insert(ms, MessageKey(x.log, x.head_id), x)[MessageKey(l, h)]
<1>1. x.log \in Nat /\ x.head_id \in 0 .. U64Max /\ l \in Nat /\ h \in 0 .. U64Max
  BY Numbers DEF Row
<1>2. MessageKey(l, h) = MessageKey(x.log, x.head_id) => l = x.log /\ h = x.head_id
  BY <1>1, KeyUnique
<1> QED
  BY <1>2 DEF Insert

(* Inserting the next row appends to the log. *)
LEMMA ViewInsert ==
    ASSUME NEW hs, NEW ms, Filed(hs, ms), NEW x \in Row, x.head_id = hs[x.log] + 1
    PROVE  LET hn == [hs EXCEPT ![x.log] = x.head_id]
               mn == Insert(ms, MessageKey(x.log, x.head_id), x)
           IN  /\ Filed(hn, mn)
               /\ \A l \in Log : View(hn, mn, l) =
                     IF l = x.log THEN Append(View(hs, ms, l), EntryOf(x)) ELSE View(hs, ms, l)
<1> DEFINE hn == [hs EXCEPT ![x.log] = x.head_id]
           mn == Insert(ms, MessageKey(x.log, x.head_id), x)
<1>8. Filed(hn, mn)
  <2>1. /\ x.head_id <= hs[x.log] + 1
        /\ (IF hs[x.log] < x.head_id THEN x.head_id ELSE hs[x.log]) = x.head_id
    BY Numbers DEF Row, Filed
  <2> QED
    BY <2>1, InsertRow
<1> SUFFICES ASSUME NEW l \in Log
             PROVE  View(hn, mn, l) =
                       IF l = x.log THEN Append(View(hs, ms, l), EntryOf(x)) ELSE View(hs, ms, l)
  BY Zenon, <1>8
<1> DEFINE v == View(hs, ms, l)
<1>1. x.log \in Log /\ EntryOf(x) \in Entries
  BY DEF Row, EntryOf, Entries
<1>2. /\ v \in Seq(Entries) /\ Len(v) = hs[l] /\ hs[l] \in Nat /\ hs[l] <= MaxHead
      /\ \A h \in 1 .. hs[l] : v[h] = EntryOf(ms[MessageKey(l, h)])
  BY ViewRow
<1>3. hn[l] = IF l = x.log THEN hs[l] + 1 ELSE hs[l]
  BY <1>1 DEF Filed
<1>4. hn[l] \in Nat /\ hn[l] <= MaxHead
  BY <1>8, ViewRow
<1> HIDE DEF hn
<1>5. ASSUME NEW h \in 1 .. hn[l]
      PROVE  mn[MessageKey(l, h)] = IF l = x.log /\ h = x.head_id THEN x ELSE ms[MessageKey(l, h)]
  <2>1. h \in 1 .. MaxHead /\ (~(l = x.log /\ h = x.head_id) => h \in 1 .. hs[l])
    BY <1>2, <1>3, <1>4, Numbers
  <2>2. ~(l = x.log /\ h = x.head_id) => MessageKey(l, h) \in DOMAIN ms
    BY <2>1 DEF Filed
  <2> QED
    BY Zenon, <2>1, <2>2, InsertedUnder
<1> HIDE DEF v, mn
<1>6. CASE l = x.log
  <2>0. /\ Append(v, EntryOf(x)) \in Seq(Entries) /\ Len(Append(v, EntryOf(x))) = hs[l] + 1
        /\ \A k \in 1 .. hs[l] : Append(v, EntryOf(x))[k] = v[k]
        /\ Append(v, EntryOf(x))[hs[l] + 1] = EntryOf(x)
    BY <1>1, <1>2
  <2>5. PICK s \in Seq(Entries) : /\ s = Append(v, EntryOf(x)) /\ Len(s) = hs[l] + 1
                                  /\ \A k \in 1 .. hs[l] : s[k] = v[k]
                                  /\ s[hs[l] + 1] = EntryOf(x)
    BY Zenon, <2>0
  <2>1. /\ Len(s) = hs[l] + 1
        /\ \A k \in 1 .. hs[l] : s[k] = v[k]
        /\ s[hs[l] + 1] = EntryOf(x)
    BY Zenon, <2>5
  <2>2. ASSUME NEW h \in 1 .. hn[l]
        PROVE  s[h] = EntryOf(mn[MessageKey(l, h)])
    <3>1. CASE h = x.head_id
      BY <1>5, <1>6, <2>1, <3>1
    <3>2. CASE h # x.head_id
      <4>1. h \in 1 .. hs[l]
        BY <1>2, <1>3, <1>6, <3>2
      <4> QED
        BY <1>2, <1>5, <2>1, <3>2, <4>1
    <3> QED
      BY <3>1, <3>2
  <2>3. Len(s) = hn[l]
    BY <1>3, <1>6, <2>1
  <2>4. View(hn, mn, l) = s
    BY <1>8, <2>2, <2>3, ViewIs
  <2> QED
    BY <1>6, <2>4, <2>5 DEF v
<1>7. CASE l # x.log
  <2>1. \A h \in 1 .. hn[l] : v[h] = EntryOf(mn[MessageKey(l, h)])
    BY <1>2, <1>3, <1>5, <1>7
  <2>2. Len(v) = hn[l]
    BY <1>2, <1>3, <1>7
  <2>3. View(hn, mn, l) = v
    BY <1>2, <1>8, <2>1, <2>2, ViewIs
  <2> QED
    BY <1>7, <2>3 DEF v
<1> QED
  BY <1>6, <1>7

(* Inserting a row that is there replaces one entry. *)
LEMMA ViewReplace ==
    ASSUME NEW hs, NEW ms, Filed(hs, ms), NEW x \in Row, x.head_id <= hs[x.log],
           NEW l \in Log
    PROVE  LET mn == Insert(ms, MessageKey(x.log, x.head_id), x)
           IN  /\ Filed(hs, mn)
               /\ View(hs, mn, l) = IF l = x.log
                                    THEN With(View(hs, ms, l), x.head_id, EntryOf(x))
                                    ELSE View(hs, ms, l)
<1> DEFINE mn == Insert(ms, MessageKey(x.log, x.head_id), x)
<1>6. Filed(hs, mn)
  <2>1. /\ x.log \in Log /\ x.head_id <= hs[x.log] + 1
        /\ (IF hs[x.log] < x.head_id THEN x.head_id ELSE hs[x.log]) = hs[x.log]
    BY Numbers DEF Row, Filed
  <2>2. [hs EXCEPT ![x.log] = hs[x.log]] = hs
    BY <2>1 DEF Filed
  <2> QED
    BY <2>1, <2>2, InsertRow
<1> DEFINE v == View(hs, ms, l)
           s == IF l = x.log THEN [v EXCEPT ![x.head_id] = EntryOf(x)] ELSE v
<1>1. EntryOf(x) \in Entries
  BY DEF Row, EntryOf, Entries
<1>2. /\ v \in Seq(Entries) /\ Len(v) = hs[l] /\ hs[l] \in Nat /\ hs[l] <= MaxHead
      /\ \A h \in 1 .. hs[l] : v[h] = EntryOf(ms[MessageKey(l, h)])
  BY ViewRow
<1> HIDE DEF v
<1>3. /\ s \in Seq(Entries) /\ Len(s) = hs[l]
      /\ \A k \in 1 .. hs[l] : s[k] = IF l = x.log /\ k = x.head_id THEN EntryOf(x) ELSE v[k]
  <2>1. CASE l = x.log
    <3>1. x.head_id \in 1 .. Len(v)
      BY <1>2, <2>1, Numbers DEF Row
    <3> QED
      BY <1>1, <1>2, <2>1, <3>1, ElementReplaced
  <2>2. CASE l # x.log
    BY <1>2, <2>2
  <2> QED
    BY <2>1, <2>2
<1> HIDE DEF s
<1>4. ASSUME NEW h \in 1 .. hs[l]
      PROVE  s[h] = EntryOf(mn[MessageKey(l, h)])
  <2>1. h \in 1 .. MaxHead /\ MessageKey(l, h) \in DOMAIN ms
    BY <1>2, Numbers DEF Filed
  <2>2. mn[MessageKey(l, h)] = IF l = x.log /\ h = x.head_id THEN x ELSE ms[MessageKey(l, h)]
    BY <2>1, InsertedUnder
  <2> QED
    BY <1>2, <1>3, <2>2
<1> HIDE DEF mn
<1>5. View(hs, mn, l) = s
  BY <1>3, <1>4, <1>6, ViewIs
<1> QED
  BY <1>5, <1>6 DEF s, v, mn, With

(* Deleting a range flags the entries in it. *)
LEMMA ViewDeleted ==
    ASSUME Filed(heads, messages), NEW l \in Log, NEW f \in 0 .. U64Max, NEW t \in Nat, NEW k \in Log
    PROVE  View(heads, Deleted(l, f, t), k) =
              IF k = l THEN Store!Flagged(View(heads, messages, k), f, t)
              ELSE View(heads, messages, k)
<1> DEFINE v == View(heads, messages, k)
           Flag(h) == [id |-> v[h].id, deleted |-> v[h].deleted \/ (f <= h /\ h <= t)]
           g == [h \in 1 .. Len(v) |-> Flag(h)]
           s == IF k = l THEN g ELSE v
           mn == Deleted(l, f, t)
<1>1. /\ v \in Seq(Entries) /\ Len(v) = heads[k] /\ heads[k] \in Nat
      /\ \A h \in 1 .. heads[k] : v[h] = EntryOf(messages[MessageKey(k, h)])
  BY ViewRow
<1>2. g = Store!Flagged(v, f, t)
  BY DEF Store!Flagged, Store!Entry
<1> HIDE DEF v
<1>3. g \in Seq(Entries) /\ Len(g) = heads[k] /\ \A h \in 1 .. heads[k] : g[h] = Flag(h)
  <2>1. \A h \in 1 .. heads[k] : v[h] \in Entries
    BY <1>1
  <2>2. \A h \in 1 .. heads[k] : Flag(h) \in Entries
    BY <2>1 DEF Entries
  <2> QED
    BY <1>1, <2>2
<1>4. Filed(heads, mn)
  BY FlagRows
<1>5. ASSUME NEW h \in 1 .. heads[k]
      PROVE  s[h] = EntryOf(mn[MessageKey(k, h)])
  <2>1. PICK c \in DOMAIN messages : /\ c = MessageKey(k, h) /\ messages[c] \in Row
                                     /\ messages[c].log = k /\ messages[c].head_id = h
    BY RowUnder
  <2>2. c \in Touched(l, f, t) <=> k = l /\ f <= h /\ h <= t
    BY <2>1, TouchedIs
  <2> DEFINE d == messages[c].deleted \/ c \in Touched(l, f, t)
  <2>3. mn[c] = [messages[c] EXCEPT !.deleted = d]
    BY DEF Deleted
  <2>4. EntryOf(mn[c]) = [id |-> messages[c].id, deleted |-> d]
    BY <2>1, <2>3 DEF EntryOf, Row
  <2>5. v[h].id = messages[c].id /\ v[h].deleted = messages[c].deleted
    <3>1. v[h] = [id |-> messages[c].id, deleted |-> messages[c].deleted]
      BY <1>1, <2>1 DEF EntryOf
    <3> QED
      BY <3>1
  <2>6. CASE k = l
    <3>1. d = (v[h].deleted \/ (f <= h /\ h <= t))
      BY <2>2, <2>5, <2>6
    <3>2. s[h] = Flag(h)
      BY <1>3, <2>6
    <3> QED
      BY <2>1, <2>4, <2>5, <3>1, <3>2
  <2>7. CASE k # l
    <3>1. d = messages[c].deleted
      BY <2>1, <2>2, <2>7 DEF Row
    <3> QED
      BY <1>1, <2>1, <2>4, <2>7, <3>1 DEF EntryOf
  <2> QED
    BY <2>6, <2>7
<1>6. s \in Seq(Entries) /\ Len(s) = heads[k]
  BY <1>1, <1>3
<1> HIDE DEF s, mn
<1>7. View(heads, mn, k) = s
  BY <1>4, <1>5, <1>6, ViewIs
<1> QED
  BY <1>2, <1>7 DEF s, v, mn

(* The cardinality of the contract is that of the tables. *)
LEMMA StoreCardinality == ASSUME NEW S PROVE Store!Cardinality(S) = Cardinality(S)
BY DEF Store!Cardinality, Cardinality

(* tombstone_range counts the live entries of the range. *)
LEMMA ChangedIsLive ==
    ASSUME Filed(heads, messages), NEW l \in Log, NEW f \in 0 .. U64Max, NEW t \in Nat
    PROVE  Changed(l, f, t) = Store!Cardinality(Store!Live(View(heads, messages, l), f, t))
<1> DEFINE v == View(heads, messages, l)
           S == {k \in Touched(l, f, t) : ~messages[k].deleted}
           T == {h \in 1 .. Len(v) : f <= h /\ h <= t /\ ~v[h].deleted}
           g == [k \in S |-> messages[k].head_id]
<1>1. /\ Len(v) = heads[l] /\ heads[l] \in Nat
      /\ \A h \in 1 .. heads[l] : v[h] = EntryOf(messages[MessageKey(l, h)])
  BY ViewRow
<1>2. T = Store!Live(v, f, t)
  BY DEF Store!Live
<1>3. Touched(l, f, t) = {k \in DOMAIN messages : /\ messages[k].log = l
                             /\ f <= messages[k].head_id /\ messages[k].head_id <= t}
  BY TouchedIs
<1> HIDE DEF v
<1>4. ASSUME NEW k \in DOMAIN messages, messages[k].log = l
      PROVE  messages[k].head_id \in 1 .. Len(v) /\ v[messages[k].head_id].deleted = messages[k].deleted
  <2>1. messages[k].head_id \in 1 .. heads[l]
    BY <1>4, RowKey
  <2>2. k = MessageKey(l, messages[k].head_id)
    BY <1>4 DEF Filed
  <2>3. v[messages[k].head_id] = EntryOf(messages[k])
    BY <1>1, <2>1, <2>2
  <2> QED
    BY <1>1, <2>1, <2>3 DEF EntryOf
<1>5. g \in [S -> T]
  <2> SUFFICES ASSUME NEW k \in S PROVE messages[k].head_id \in T
    OBVIOUS
  <2>1. k \in DOMAIN messages /\ messages[k].log = l /\ ~messages[k].deleted
        /\ f <= messages[k].head_id /\ messages[k].head_id <= t
    BY <1>3
  <2> QED
    BY <1>4, <2>1
<1>6. \A x, y \in S : g[x] = g[y] => x = y
  <2> SUFFICES ASSUME NEW x \in S, NEW y \in S, messages[x].head_id = messages[y].head_id
               PROVE  x = y
    OBVIOUS
  <2>1. /\ x \in DOMAIN messages /\ y \in DOMAIN messages
        /\ messages[x].log = messages[y].log
    BY <1>3
  <2> QED
    BY <2>1, RowKey
<1>7. ASSUME NEW h \in T
      PROVE  \E x \in S : g[x] = h
  <2>1. h \in 1 .. heads[l] /\ f <= h /\ h <= t /\ ~v[h].deleted
    BY <1>1
  <2>2. PICK k \in DOMAIN messages : messages[k].log = l /\ messages[k].head_id = h
    BY <2>1, RowUnder
  <2>3. k \in S
    BY <1>3, <1>4, <2>1, <2>2
  <2> QED
    BY <2>2, <2>3
<1>8. IsFiniteSet(T)
  <2>1. IsFiniteSet(1 .. Len(v))
    BY <1>1, FS_Interval
  <2> QED
    BY <2>1, FS_Subset
<1> HIDE DEF S, T, g
<1>9. Cardinality(S) = Cardinality(T)
  BY <1>5, <1>6, <1>7, <1>8, CountBoth
<1> QED
  BY <1>2, <1>9, StoreCardinality DEF Changed, S, v

(* A range deleted, as the contract sees it *)
LEMMA DeleteView ==
    ASSUME Filed(heads, messages), NEW l \in Log, NEW f \in Bounds, NEW t \in Bounds
    PROVE  /\ f \in 0 .. U64Max /\ t \in 0 .. U64Max /\ f \in Nat /\ t \in Nat
           /\ \A k \in Log : View(heads, Deleted(l, f, t), k) =
                                IF k = l THEN Store!Flagged(LogOf(l), f, t) ELSE LogOf(k)
           /\ Store!Cardinality(Store!Live(LogOf(l), f, t)) = Changed(l, f, t)
<1>1. f \in 0 .. U64Max /\ t \in 0 .. U64Max /\ f \in Nat /\ t \in Nat
  BY Widest, RedbAssumption
<1>2. ASSUME NEW k \in Log
      PROVE  View(heads, Deleted(l, f, t), k) =
                IF k = l THEN Store!Flagged(LogOf(l), f, t) ELSE LogOf(k)
  BY <1>1, ViewDeleted, LogIsView
<1>3. Store!Cardinality(Store!Live(LogOf(l), f, t)) = Changed(l, f, t)
  BY <1>1, ChangedIsLive, LogIsView
<1> QED
  BY <1>1, <1>2, <1>3

(* Recording a range adds it to the ranges of its log. *)
LEMMA RangesAdd ==
    ASSUME FiledRanges(tombstones), NEW l \in Log, NEW f \in Bounds, NEW t \in Bounds, NEW k
    PROVE  RangesIn(Recorded(l, f, t), k) =
              IF k = l THEN RangesIn(tombstones, k) \cup {<<f, t>>} ELSE RangesIn(tombstones, k)
<1> DEFINE tn == Recorded(l, f, t)
           x == [log |-> l, from |-> f, to |-> t]
           Has(T, r) == \E j \in DOMAIN T : T[j] = r
<1>1. \A r : Has(tn, r) <=> r = x \/ Has(tombstones, r)
  BY RecordRange
<1> HIDE DEF tn
<1>2. \A T, p : p \in RangesIn(T, k) <=> \E r : Has(T, r) /\ r.log = k /\ p = <<r.from, r.to>>
  BY DEF RangesIn
<1>3. x.log = l /\ <<x.from, x.to>> = <<f, t>>
  OBVIOUS
<1> HIDE DEF Has, x
<1>4. \A p : p \in RangesIn(tn, k) <=>
                \/ k = l /\ p = <<f, t>>
                \/ p \in RangesIn(tombstones, k)
  <2> SUFFICES ASSUME NEW p
               PROVE  p \in RangesIn(tn, k) <=> \/ k = l /\ p = <<f, t>>
                                                \/ p \in RangesIn(tombstones, k)
    OBVIOUS
  <2>1. ASSUME p \in RangesIn(tn, k) PROVE (k = l /\ p = <<f, t>>) \/ p \in RangesIn(tombstones, k)
    <3>1. PICK r : Has(tn, r) /\ r.log = k /\ p = <<r.from, r.to>>
      BY <1>2, <2>1
    <3> QED
      BY <1>1, <1>2, <1>3, <3>1
  <2>2. ASSUME k = l, p = <<f, t>> PROVE p \in RangesIn(tn, k)
    BY <1>1, <1>2, <1>3, <2>2
  <2>3. ASSUME p \in RangesIn(tombstones, k) PROVE p \in RangesIn(tn, k)
    BY <1>1, <1>2, <2>3
  <2> QED
    BY <2>1, <2>2, <2>3
<1> QED
  BY <1>4 DEF tn

(* The inductive invariant of the message tables *)
LogInv == Filed(heads, messages) /\ FiledRanges(tombstones)

(* apply_tombstone_markers sets the flag the contract asks for, and nothing
   else. *)
LEMMA MarkedRow ==
    ASSUME NEW m \in Row, NEW ts, FiledRanges(ts)
    PROVE  /\ Marked(m, ts) \in Row /\ Marked(m, ts).log = m.log
           /\ Marked(m, ts).head_id = m.head_id /\ Marked(m, ts).id = m.id
           /\ Marked(m, ts).deleted =
                 (m.deleted \/ Store!Covered(RangesIn(ts, m.log), m.head_id))
<1> DEFINE l == m.log
           h == m.head_id
           W == Walk(ts, Prefix(l), Prefix(l))
           c == Store!Covered(RangesIn(ts, l), h)
           d == m.deleted \/ \E k \in W : ts[k].from <= h /\ h <= ts[k].to
<1>1. l \in Log
  BY DEF Row
<1>2. W = {k \in DOMAIN ts : ts[k].log = l}
  BY <1>1, WalkRanges
<1>3. c <=> \E k \in W : ts[k].from <= h /\ h <= ts[k].to
  <2>1. c <=> \E r \in RangesIn(ts, l) : r[1] <= h /\ h <= r[2]
    BY DEF Store!Covered
  <2>2. RangesIn(ts, l) = {<<ts[k].from, ts[k].to>> : k \in W}
    BY <1>2 DEF RangesIn
  <2> HIDE DEF W, c, l, h
  <2>3. (\E r \in RangesIn(ts, l) : r[1] <= h /\ h <= r[2]) <=>
           \E k \in W : ts[k].from <= h /\ h <= ts[k].to
    <3>1. ASSUME NEW k \in W, ts[k].from <= h, h <= ts[k].to
          PROVE  \E r \in RangesIn(ts, l) : r[1] <= h /\ h <= r[2]
      <4>1. <<ts[k].from, ts[k].to>> \in RangesIn(ts, l)
        BY <2>2
      <4> QED
        BY <3>1, <4>1
    <3>2. ASSUME NEW r \in RangesIn(ts, l), r[1] <= h, h <= r[2]
          PROVE  \E k \in W : ts[k].from <= h /\ h <= ts[k].to
      BY <2>2, <3>2
    <3> QED
      BY <3>1, <3>2
  <2> QED
    BY <2>1, <2>3
<1>4. d = (m.deleted \/ c)
  BY <1>3
<1>5. Marked(m, ts) = [m EXCEPT !.deleted = d] /\ d \in BOOLEAN
  BY DEF Marked
<1> HIDE DEF d, c, W
<1> QED
  BY Zenon, <1>4, <1>5 DEF Row, c

(* A call that is refused changes nothing. *)
LEMMA RefuseRefines ==
    ASSUME LogInv, NEW op, NEW kind, Refuse(op, kind)
    PROVE  LogInv' /\ Store!Refused(op, kind) /\ Store!Called(op)
<1>1. heads' = heads /\ messages' = messages /\ tombstones' = tombstones
      /\ reply' = Answer(op, kind, 0)
  BY DEF Refuse
<1>2. \A l : LogOf(l)' = LogOf(l) /\ RangesOf(l)' = RangesOf(l)
  BY <1>1, LogIsView
<1>3. Store!Refused(op, kind)
  BY <1>1, <1>2 DEF LogOf, Answer, Store!Refused, Store!Return
<1>4. Store!Called(op)
  BY <1>1 DEF Answer, Store!Called
<1>5. LogInv'
  BY <1>1 DEF LogInv, Filed, FiledRanges, Row, RangeRow
<1> QED
  BY <1>3, <1>4, <1>5

(* What append_message_in_txn adds to a table of rows ms with the heads, and
   with ranges ts *)
LEMMA AppendedRow ==
    ASSUME NEW ms, Filed(heads, ms), NEW ts, FiledRanges(ts), NEW l \in Log, NEW id \in Id,
           heads[l] < MaxHead
    PROVE  LET hn == With(heads, l, heads[l] + 1)
               mn == Appended(ms, l, id, ts)
           IN  /\ Filed(hn, mn)
               /\ \A k \in Log : View(hn, mn, k) =
                     IF k = l THEN Store!Appended(View(heads, ms, l), RangesIn(ts, l), id)
                     ELSE View(heads, ms, k)
<1> DEFINE hn == With(heads, l, heads[l] + 1)
           mn == Appended(ms, l, id, ts)
           n == heads[l] + 1
           m == NewRow(l, n, id, FALSE)
           x == Marked(m, ts)
           c == Store!Covered(RangesIn(ts, l), n)
<1>1. heads[l] \in Nat /\ MaxHead \in Nat /\ heads[l] = Len(View(heads, ms, l))
  BY ViewRow, Numbers
<1>2. m \in Row /\ m.log = l /\ m.head_id = n /\ m.id = id /\ m.deleted = FALSE
  BY <1>1 DEF NewRow, Row
<1> HIDE DEF m
<1>3. x \in Row /\ x.log = l /\ x.head_id = n /\ x.id = id /\ x.deleted = (FALSE \/ c)
  BY <1>2, MarkedRow
<1>4. x.deleted = c
  <2>1. (FALSE \/ c) = c
    BY Zenon DEF Store!Covered
  <2> QED
    BY <1>3, <2>1
<1>5. mn = Insert(ms, MessageKey(x.log, x.head_id), x)
  BY Zenon, <1>3 DEF Appended, m
<1>6. EntryOf(x) = Store!Entry(id, c)
  BY <1>3, <1>4 DEF EntryOf, Store!Entry
<1> HIDE DEF x, c, n
<1>7. x.head_id = heads[x.log] + 1
  BY <1>3 DEF n
<1>8. hn = [heads EXCEPT ![x.log] = x.head_id]
  BY <1>3 DEF n, With
<1>10. /\ Filed(hn, mn)
       /\ \A k \in Log : View(hn, mn, k) =
             IF k = x.log THEN Append(View(heads, ms, k), EntryOf(x)) ELSE View(heads, ms, k)
  <2> DEFINE hm == [heads EXCEPT ![x.log] = x.head_id]
             mm == Insert(ms, MessageKey(x.log, x.head_id), x)
  <2>1. /\ Filed(hm, mm)
        /\ \A k \in Log : View(hm, mm, k) =
              IF k = x.log THEN Append(View(heads, ms, k), EntryOf(x)) ELSE View(heads, ms, k)
    BY Zenon, <1>3, <1>7, ViewInsert
  <2> HIDE DEF hm, mm
  <2>2. hn = hm /\ mn = mm
    BY <1>5, <1>8 DEF hm, mm
  <2> HIDE DEF hn, mn
  <2> QED
    BY <2>1, <2>2
<1>11. Append(View(heads, ms, l), EntryOf(x)) =
          Store!Appended(View(heads, ms, l), RangesIn(ts, l), id)
  BY <1>1, <1>6 DEF Store!Appended, c, n
<1> QED
  BY Zenon, <1>3, <1>10, <1>11

(* append_message *)
LEMMA AppendRefines ==
    ASSUME LogInv, NEW l \in Log, NEW id \in Id, AppendMessage(l, id)
    PROVE  LogInv' /\ Store!Called("append") /\ Store!AbsAppend(l, id)
<1> DEFINE log == [k \in Log |-> LogOf(k)]
           tombs == [k \in Log |-> RangesOf(k)]
<1>1. /\ heads[l] < MaxHead /\ heads' = [heads EXCEPT ![l] = heads[l] + 1]
      /\ messages' = Appended(messages, l, id, tombstones)
      /\ reply' = Answer("append", "ok", heads[l] + 1) /\ tombstones' = tombstones
  BY DEF AppendMessage
<1>2. Len(log[l]) = heads[l] /\ log[l] = LogOf(l) /\ tombs[l] = RangesOf(l)
  BY LogIsView, ViewRow DEF LogInv
<1>3. /\ Filed(heads', messages')
      /\ \A k \in Log : View(heads', messages', k) =
            IF k = l THEN Store!Appended(View(heads, messages, l), RangesIn(tombstones, l), id)
            ELSE View(heads, messages, k)
  <2> DEFINE hn == With(heads, l, heads[l] + 1)
             mn == Appended(messages, l, id, tombstones)
  <2>1. /\ Filed(hn, mn)
        /\ \A k \in Log : View(hn, mn, k) =
              IF k = l THEN Store!Appended(View(heads, messages, l), RangesIn(tombstones, l), id)
              ELSE View(heads, messages, k)
    <3>1. heads[l] < MaxHead /\ Filed(heads, messages) /\ FiledRanges(tombstones)
      BY <1>1 DEF LogInv
    <3> QED
      BY <3>1, AppendedRow
  <2> HIDE DEF hn, mn
  <2>2. heads' = hn /\ messages' = mn
    BY <1>1 DEF hn, mn, With
  <2> QED
    BY <2>1, <2>2
<1>4. LogInv'
  BY <1>1, <1>3 DEF LogInv, Filed, FiledRanges, Row, RangeRow
<1>5. \A k \in Log : LogOf(k)' = IF k = l THEN Store!Appended(LogOf(l), RangesOf(l), id) ELSE LogOf(k)
  BY <1>3, LogIsView
<1>6. log' = [log EXCEPT ![l] = Store!Appended(log[l], tombs[l], id)]
  BY Zenon, <1>2, <1>5
<1>7. tombs' = tombs
  BY <1>1, LogIsView
<1>8. Store!Called("append") /\ Store!Return("append", "ok", Len(log[l]) + 1)
  BY <1>1, <1>2 DEF Answer, Store!Called, Store!Return
<1>9. ~Store!Stored(id)
  BY DEF Store!Stored
<1>10. Store!AbsAppend(l, id)
  BY Zenon, <1>1, <1>2, <1>6, <1>7, <1>8, <1>9 DEF Store!AbsAppend, LogOf
<1> QED
  BY <1>4, <1>8, <1>10

(* put_replicated_message *)
LEMMA PutRefines ==
    ASSUME LogInv, NEW l \in Log, NEW h \in 0 .. MaxHead + 1, NEW id \in Id, NEW b \in BOOLEAN,
           PutReplicatedMessage(NewRow(l, h, id, b))
    PROVE  LogInv' /\ Store!Called("put") /\ Store!AbsReplicate(l, h, id, b)
<1> DEFINE m == NewRow(l, h, id, b)
           c == MessageKey(l, h)
           log == [k \in Log |-> LogOf(k)]
           tombs == [k \in Log |-> RangesOf(k)]
           x == Marked(m, tombstones)
           e == messages[c]
           dl == b \/ Store!Covered(tombs[l], h)
<1>0. /\ h \in Nat /\ heads[l] \in Nat /\ heads[l] <= MaxHead /\ MaxHead \in Nat
      /\ m.log = l /\ m.head_id = h /\ m.id = id /\ m.deleted = b
  BY ViewRow, Numbers DEF LogInv, NewRow
<1>1. /\ log[l] = LogOf(l) /\ LogOf(l) = View(heads, messages, l)
      /\ Len(log[l]) = heads[l] /\ tombs[l] = RangesOf(l)
  BY LogIsView, ViewRow DEF LogInv
<1>2. ~Store!Stored(id)
  BY DEF Store!Stored
<1>3. ASSUME h \in 1 .. MaxHead
      PROVE  /\ x \in Row /\ x.log = l /\ x.head_id = h /\ x.id = id /\ x.deleted = dl
             /\ EntryOf(x) = Store!Entry(id, dl)
  <2>1. m \in Row
    BY <1>3 DEF NewRow, Row
  <2>2. tombs[l] = RangesIn(tombstones, l)
    BY <1>1, LogIsView
  <2>3. /\ x \in Row /\ x.log = m.log /\ x.head_id = m.head_id /\ x.id = m.id
        /\ x.deleted = (m.deleted \/ Store!Covered(RangesIn(tombstones, m.log), m.head_id))
    <3> HIDE DEF m
    <3> QED
      BY <2>1, MarkedRow DEF LogInv
  <2>4. x \in Row /\ x.log = l /\ x.head_id = h /\ x.id = id /\ x.deleted = dl
    BY <1>0, <2>2, <2>3
  <2> HIDE DEF x, dl
  <2> QED
    BY <2>4 DEF EntryOf, Store!Entry
<1>4. /\ Present(m) <=> c \in DOMAIN messages
      /\ Existing(m) = e
      /\ Present(m) <=> h \in 1 .. heads[l]
  <2>1. Present(m) <=> c \in DOMAIN messages
    BY <1>0 DEF Present
  <2>2. Existing(m) = e
    BY <1>0 DEF Existing
  <2>3. h \in 0 .. U64Max
    BY Numbers
  <2> QED
    BY <2>1, <2>2, <2>3, RowUnder DEF LogInv
<1>5. ASSUME Present(m)
      PROVE  /\ h \in 1 .. MaxHead /\ h \in 1 .. heads[l]
             /\ e \in Row /\ e.log = l /\ e.head_id = h /\ log[l][h] = EntryOf(e)
  <2>1. h \in 1 .. heads[l]
    BY <1>4, <1>5
  <2>2. e \in Row /\ e.log = l /\ e.head_id = h
    BY <2>1, RowUnder DEF LogInv
  <2>3. log[l][h] = EntryOf(e)
    BY <1>1, <2>1, ViewRow DEF LogInv
  <2> QED
    BY <1>0, <2>1, <2>2, <2>3
<1>6. Store!AbsReplicate(l, h, id, b) <=>
      \/ /\ Store!Refused("put", "InvalidArgument")
         /\ h \notin 1 .. Len(log[l]) + 1 \/ h > MaxHead
      \/ /\ Store!Refused("put", "AlreadyPresent")
         /\ h \in 1 .. Len(log[l])
         /\ log[l][h] = Store!Entry(id, dl)
      \/ /\ Store!Return("put", "Inserted", 0)
         /\ h \in 1 .. Len(log[l])
         /\ log[l][h] = Store!Entry(id, FALSE) /\ dl
         /\ log' = [log EXCEPT ![l][h] = Store!Entry(id, TRUE)]
         /\ UNCHANGED tombs
      \/ /\ Store!Refused("put", "Conflict")
         /\ h \in 1 .. Len(log[l])
         /\ log[l][h].id # id \/ (log[l][h].deleted /\ ~dl)
      \/ /\ Store!Return("put", "Inserted", 0)
         /\ h = Len(log[l]) + 1 /\ h <= MaxHead
         /\ ~Store!Stored(id)
         /\ log' = [log EXCEPT ![l] = Append(log[l], Store!Entry(id, dl))]
         /\ UNCHANGED tombs
      \/ /\ Store!Refused("put", "Storage")
         /\ h = Len(log[l]) + 1 /\ h <= MaxHead
         /\ Store!Stored(id)
  BY DEF Store!AbsReplicate, LogOf
<1> HIDE DEF m, x, e, dl, c
<1>7. CASE PutInvalid(m)
  <2>1. h \notin 1 .. Len(log[l]) + 1 /\ Refuse("put", "InvalidArgument")
    BY <1>0, <1>1, <1>7 DEF PutInvalid
  <2> QED
    BY Zenon, <1>6, <2>1, RefuseRefines
<1>8. CASE PutAlreadyPresent(m)
  <2>1. Present(m) /\ e = x /\ Refuse("put", "AlreadyPresent")
    BY <1>4, <1>8 DEF PutAlreadyPresent, x
  <2>2. h \in 1 .. Len(log[l]) /\ log[l][h] = Store!Entry(id, dl)
    BY <1>1, <1>3, <1>5, <2>1
  <2> QED
    BY Zenon, <1>6, <2>1, <2>2, RefuseRefines
<1>9. CASE PutConflict(m)
  <2>1. /\ Present(m) /\ e # x /\ (e.id = id => ~x.deleted) /\ Refuse("put", "Conflict")
    BY <1>0, <1>4, <1>9 DEF PutConflict, x
  <2>2. /\ h \in 1 .. Len(log[l]) /\ log[l][h] = EntryOf(e)
        /\ e \in Row /\ e.log = l /\ e.head_id = h
        /\ x \in Row /\ x.log = l /\ x.head_id = h /\ x.id = id /\ x.deleted = dl
    BY Zenon, <1>1, <1>3, <1>5, <2>1
  <2>3. e.id # id \/ (e.deleted /\ ~dl)
    <3> SUFFICES ASSUME e.id = id PROVE e.deleted /\ ~dl
      OBVIOUS
    <3>1. x.deleted = FALSE /\ ~dl
      BY <2>1, <2>2 DEF Row
    <3>2. e.deleted # FALSE
      <4>1. e = [log |-> e.log, head_id |-> e.head_id, id |-> e.id, deleted |-> e.deleted]
        BY <2>2 DEF Row
      <4>2. x = [log |-> x.log, head_id |-> x.head_id, id |-> x.id, deleted |-> x.deleted]
        BY <2>2 DEF Row
      <4> QED
        BY Zenon, <2>1, <2>2, <3>1, <4>1, <4>2
    <3> QED
      BY Zenon, <2>2, <3>1, <3>2 DEF Row
  <2>4. log[l][h].id # id \/ (log[l][h].deleted /\ ~dl)
    BY <2>2, <2>3 DEF EntryOf
  <2> QED
    BY Zenon, <1>6, <2>1, <2>2, <2>4, RefuseRefines
<1>10. CASE PutInserted(m)
  <2>1. /\ h \in 1 .. MaxHead
        /\ messages' = Insert(messages, c, x)
        /\ heads' = [heads EXCEPT ![l] = IF heads[l] < h THEN h ELSE heads[l]]
        /\ reply' = Answer("put", "Inserted", 0) /\ tombstones' = tombstones
        /\ IF Present(m) THEN e # x /\ e.id = id /\ x.deleted ELSE h <= heads[l] + 1
    BY <1>0, <1>4, <1>10 DEF PutInserted, x, c
  <2>2. /\ x \in Row /\ x.log = l /\ x.head_id = h /\ x.id = id /\ x.deleted = dl
        /\ EntryOf(x) = Store!Entry(id, dl)
    BY <1>3, <2>1
  <2>3. tombs' = tombs
    BY <2>1, LogIsView
  <2>4. Store!Called("put") /\ Store!Return("put", "Inserted", 0)
    BY <2>1 DEF Answer, Store!Called, Store!Return
  <2> DEFINE mn == Insert(messages, MessageKey(x.log, x.head_id), x)
  <2>5. messages' = mn
    BY <2>1, <2>2 DEF c
  <2>6. Filed(heads', messages') => LogInv'
    BY <2>1 DEF LogInv, Filed, FiledRanges, Row, RangeRow
  <2>7. CASE Present(m)
    <3>1. /\ h \in 1 .. heads[l] /\ e \in Row /\ e.log = l /\ e.head_id = h
          /\ log[l][h] = EntryOf(e) /\ e # x /\ e.id = id /\ x.deleted
      BY <1>5, <2>1, <2>7
    <3>2. heads' = heads
      <4>1. (IF heads[l] < h THEN h ELSE heads[l]) = heads[l]
        BY <1>0, <3>1
      <4> QED
        BY <2>1, <4>1 DEF LogInv, Filed
    <3>3. dl /\ x.deleted = TRUE /\ EntryOf(x) = Store!Entry(id, TRUE)
      BY <2>2, <3>1 DEF Row, EntryOf, Store!Entry
    <3>4. e.deleted = FALSE
      <4>1. e = [log |-> e.log, head_id |-> e.head_id, id |-> e.id, deleted |-> e.deleted]
        BY <3>1 DEF Row
      <4>2. x = [log |-> x.log, head_id |-> x.head_id, id |-> x.id, deleted |-> x.deleted]
        BY <2>2 DEF Row
      <4>3. e.deleted # TRUE
        BY Zenon, <2>2, <3>1, <3>3, <4>1, <4>2
      <4> QED
        BY Zenon, <3>1, <4>3 DEF Row
    <3>5. log[l][h] = Store!Entry(id, FALSE)
      BY Zenon, <3>1, <3>4 DEF EntryOf, Store!Entry
    <3>6. /\ Filed(heads, mn)
          /\ \A k \in Log : View(heads, mn, k) =
                IF k = x.log THEN With(View(heads, messages, k), x.head_id, EntryOf(x))
                ELSE View(heads, messages, k)
      <4>1. x.head_id <= heads[x.log] /\ Filed(heads, messages)
        BY <1>0, <2>2, <3>1 DEF LogInv
      <4>2. ASSUME NEW k \in Log
            PROVE  /\ Filed(heads, mn)
                   /\ View(heads, mn, k) =
                         IF k = x.log THEN With(View(heads, messages, k), x.head_id, EntryOf(x))
                         ELSE View(heads, messages, k)
        BY <2>2, <4>1, ViewReplace
      <4> QED
        BY <4>2
    <3> HIDE DEF mn
    <3>7. \A k \in Log : LogOf(k)' = IF k = l THEN With(LogOf(k), h, EntryOf(x))
                                     ELSE LogOf(k)
      BY <2>2, <2>5, <3>2, <3>6, LogIsView
    <3>8. log' = [log EXCEPT ![l][h] = Store!Entry(id, TRUE)]
      BY Zenon, <3>3, <3>7 DEF With
    <3>9. LogInv'
      BY <2>5, <2>6, <3>2, <3>6
    <3> QED
      BY Zenon, <1>1, <1>6, <2>3, <2>4, <3>1, <3>3, <3>5, <3>8, <3>9
  <2>8. CASE ~Present(m)
    <3>1. h = heads[l] + 1 /\ h = Len(log[l]) + 1
      BY <1>0, <1>1, <1>4, <2>1, <2>8
    <3> DEFINE hn == [heads EXCEPT ![x.log] = x.head_id]
    <3>2. heads' = hn
      <4>1. (IF heads[l] < h THEN h ELSE heads[l]) = h
        BY <1>0, <3>1
      <4> QED
        BY Zenon, <2>1, <2>2, <4>1
    <3>3. /\ Filed(hn, mn)
          /\ \A k \in Log : View(hn, mn, k) =
                IF k = x.log THEN Append(View(heads, messages, k), EntryOf(x))
                ELSE View(heads, messages, k)
      <4>1. x.head_id = heads[x.log] + 1 /\ Filed(heads, messages)
        BY <2>2, <3>1 DEF LogInv
      <4> QED
        BY Zenon, <2>2, <4>1, ViewInsert
    <3> HIDE DEF hn, mn
    <3>4. \A k \in Log : LogOf(k)' = IF k = l THEN Append(LogOf(k), EntryOf(x)) ELSE LogOf(k)
      BY <2>2, <2>5, <3>2, <3>3, LogIsView
    <3>5. log' = [log EXCEPT ![l] = Append(log[l], Store!Entry(id, dl))]
      BY Zenon, <1>1, <2>2, <3>4
    <3>6. LogInv'
      BY <2>5, <2>6, <3>2, <3>3
    <3>7. h <= MaxHead
      BY <2>1
    <3> QED
      BY Zenon, <1>2, <1>6, <2>3, <2>4, <3>1, <3>5, <3>6, <3>7
  <2> QED
    BY <2>7, <2>8
<1> QED
  BY <1>7, <1>8, <1>9, <1>10 DEF PutReplicatedMessage, m

(* tombstone_range *)
LEMMA TombstoneRefines ==
    ASSUME LogInv, NEW l \in Log, NEW f \in Bounds, NEW t \in Bounds, TombstoneRange(l, f, t)
    PROVE  LogInv' /\ Store!Called("delete") /\ Store!AbsDelete(l, f, t)
<1> DEFINE log == [k \in Log |-> LogOf(k)]
           tombs == [k \in Log |-> RangesOf(k)]
<1>0. /\ f \in Nat /\ t \in Nat /\ t <= U64Max
      /\ \A k \in Log : View(heads, Deleted(l, f, t), k) =
                           IF k = l THEN Store!Flagged(LogOf(l), f, t) ELSE LogOf(k)
      /\ Store!Cardinality(Store!Live(LogOf(l), f, t)) = Changed(l, f, t)
  BY DeleteView, Numbers DEF LogInv
<1>1. CASE /\ f <= t /\ messages' = Deleted(l, f, t) /\ tombstones' = Recorded(l, f, t)
           /\ reply' = Answer("delete", "ok", Changed(l, f, t)) /\ heads' = heads
  <2>1. Filed(heads', messages') /\ FiledRanges(tombstones')
    BY <1>1, FlagRows, RecordRange DEF LogInv
  <2>2. LogInv'
    BY <2>1 DEF LogInv, Filed, FiledRanges, Row, RangeRow
  <2>3. \A k \in Log : LogOf(k)' = IF k = l THEN Store!Flagged(LogOf(l), f, t) ELSE LogOf(k)
    BY <1>0, <1>1, LogIsView
  <2>4. log' = [log EXCEPT ![l] = Store!Flagged(log[l], f, t)]
    BY Zenon, <2>3
  <2>5. \A k \in Log : RangesOf(k)' = IF k = l THEN RangesOf(k) \cup {<<f, t>>} ELSE RangesOf(k)
    BY <1>1, RangesAdd, LogIsView DEF LogInv
  <2>6. tombs' = [tombs EXCEPT ![l] = tombs[l] \cup {<<f, t>>}]
    BY Zenon, <2>5
  <2>7. Store!Called("delete")
    BY <1>1 DEF Answer, Store!Called
  <2>8. Store!Return("delete", "ok", Store!Cardinality(Store!Live(log[l], f, t)))
    BY <1>0, <1>1 DEF Answer, Store!Return
  <2> QED
    BY <1>0, <1>1, <2>2, <2>4, <2>6, <2>7, <2>8 DEF Store!AbsDelete, LogOf
<1>2. CASE f > t /\ Refuse("delete", "InvalidArgument")
  BY <1>2, RefuseRefines DEF Store!AbsDelete
<1> QED
  BY <1>1, <1>2 DEF TombstoneRange

(* tombstone_range_with_marker *)
LEMMA MarkerRefines ==
    ASSUME LogInv, NEW l \in Log, NEW f \in Bounds, NEW t \in Bounds, NEW ml \in Log, NEW id \in Id,
           TombstoneRangeWithMarker(l, f, t, ml, id)
    PROVE  LogInv' /\ Store!Called("announce") /\ Store!AbsDeleteAndAnnounce(l, f, t)
<1> DEFINE log == [k \in Log |-> LogOf(k)]
           tombs == [k \in Log |-> RangesOf(k)]
           ms == Deleted(l, f, t)
           ts == Recorded(l, f, t)
           flagged == [log EXCEPT ![l] = Store!Flagged(log[l], f, t)]
<1>0. /\ f \in Nat /\ t \in Nat /\ t <= U64Max
      /\ \A k \in Log : View(heads, ms, k) =
                           IF k = l THEN Store!Flagged(LogOf(l), f, t) ELSE LogOf(k)
      /\ Store!Cardinality(Store!Live(LogOf(l), f, t)) = Changed(l, f, t)
  BY DeleteView, Numbers DEF LogInv
<1>1. Filed(heads, ms) /\ FiledRanges(ts)
  BY FlagRows, RecordRange DEF LogInv
<1>2. CASE /\ f <= t /\ heads[ml] < MaxHead
           /\ tombstones' = ts /\ messages' = Appended(ms, ml, id, ts)
           /\ heads' = [heads EXCEPT ![ml] = heads[ml] + 1]
           /\ reply' = Answer("announce", "ok", Changed(l, f, t))
  <2> DEFINE hn == With(heads, ml, heads[ml] + 1)
             mn == Appended(ms, ml, id, ts)
  <2> HIDE DEF ms, ts
  <2>1. /\ Filed(hn, mn)
        /\ \A k \in Log : View(hn, mn, k) =
              IF k = ml THEN Store!Appended(View(heads, ms, ml), RangesIn(ts, ml), id)
              ELSE View(heads, ms, k)
    BY <1>1, <1>2, AppendedRow
  <2> HIDE DEF hn, mn
  <2>2. heads' = hn /\ messages' = mn
    BY <1>2 DEF hn, mn, With
  <2>3. Filed(heads', messages') /\ FiledRanges(tombstones')
    BY Zenon, <1>1, <1>2, <2>1, <2>2
  <2>4. LogInv'
    BY <2>3 DEF LogInv, Filed, FiledRanges, Row, RangeRow
  <2>5. \A k \in Log : flagged[k] = View(heads, ms, k)
    BY <1>0
  <2>6. \A k \in Log : RangesOf(k)' = IF k = l THEN RangesOf(k) \cup {<<f, t>>} ELSE RangesOf(k)
    BY <1>2, RangesAdd, LogIsView DEF LogInv, ts
  <2>7. tombs' = [tombs EXCEPT ![l] = tombs[l] \cup {<<f, t>>}]
    BY Zenon, <2>6
  <2>8. tombs'[ml] = RangesIn(ts, ml)
    BY <1>2, LogIsView
  <2>9. \A k \in Log : LogOf(k)' = IF k = ml THEN Store!Appended(flagged[ml], tombs'[ml], id)
                                   ELSE flagged[k]
    BY <2>1, <2>2, <2>5, <2>8, LogIsView
  <2>10. log' = [flagged EXCEPT ![ml] = Store!Appended(flagged[ml], tombs'[ml], id)]
    BY <2>9
  <2>11. Len(log[ml]) < MaxHead
    BY <1>2, LogIsView, ViewRow DEF LogInv
  <2>12. Store!Called("announce")
    BY <1>2 DEF Answer, Store!Called
  <2>13. Store!Return("announce", "ok", Store!Cardinality(Store!Live(log[l], f, t)))
    BY <1>0, <1>2 DEF Answer, Store!Return
  <2>14. ~Store!Stored(id)
    BY DEF Store!Stored
  <2>15. Store!AbsDeleteAndAnnounce(l, f, t)
    BY Zenon, <1>0, <1>2, <2>7, <2>10, <2>11, <2>13, <2>14 DEF Store!AbsDeleteAndAnnounce, LogOf
  <2> QED
    BY <2>4, <2>12, <2>15
<1>3. CASE f > t /\ Refuse("announce", "InvalidArgument")
  BY Zenon, <1>3, RefuseRefines DEF Store!AbsDeleteAndAnnounce
<1> QED
  BY <1>2, <1>3 DEF TombstoneRangeWithMarker

(* Every step of the message tables is a step of the contract. *)
LEMMA LogStep ==
    ASSUME LogInv, LogNext
    PROVE  LogInv' /\ Store!AbsNext
<1>1. ASSUME NEW l \in Log, NEW id \in Id, AppendMessage(l, id)
      PROVE  LogInv' /\ Store!AbsNext
  BY <1>1, AppendRefines DEF Store!AbsNext
<1>2. ASSUME NEW l \in Log, NEW h \in 0 .. MaxHead + 1, NEW id \in Id, NEW d \in BOOLEAN,
             PutReplicatedMessage(NewRow(l, h, id, d))
      PROVE  LogInv' /\ Store!AbsNext
  BY <1>2, PutRefines DEF Store!AbsNext
<1>3. ASSUME NEW l \in Log, NEW f \in Bounds, NEW t \in Bounds, TombstoneRange(l, f, t)
      PROVE  LogInv' /\ Store!AbsNext
  BY Zenon, <1>3, TombstoneRefines DEF Store!AbsNext
<1>4. ASSUME NEW l \in Log, NEW f \in Bounds, NEW t \in Bounds, NEW ml \in MarkerLog, NEW id \in Id,
             TombstoneRangeWithMarker(l, f, t, ml, id)
      PROVE  LogInv' /\ Store!AbsNext
  <2>1. ml \in Log
    BY RedbAssumption
  <2> QED
    BY Zenon, <1>4, <2>1, MarkerRefines DEF Store!AbsNext
<1> QED
  BY <1>1, <1>2, <1>3, <1>4 DEF LogNext

(* FIFO operations leave the message tables alone. *)
LEMMA StoreStep ==
    ASSUME LogInv, [Next]_vars
    PROVE  LogInv' /\ [Store!AbsNext]_(Store!absVars)
<1>1. CASE UNCHANGED logVars
  <2>1. heads' = heads /\ messages' = messages /\ tombstones' = tombstones /\ reply' = reply
    BY <1>1 DEF logVars
  <2>2. LogInv'
    BY <2>1 DEF LogInv, Filed, FiledRanges, Row, RangeRow
  <2>3. \A l : LogOf(l)' = LogOf(l) /\ RangesOf(l)' = RangesOf(l)
    BY <2>1, LogIsView
  <2>4. UNCHANGED Store!absVars
    BY <2>1, <2>3 DEF Store!absVars, LogOf
  <2> QED
    BY <2>2, <2>4
<1>2. CASE LogNext
  BY <1>2, LogStep
<1> QED
  BY <1>1, <1>2 DEF Next, vars, logVars

(* The tables start empty. *)
LEMMA StoreStart ==
    ASSUME Init
    PROVE  LogInv /\ Store!AbsInit
<1>1. /\ heads = [l \in Log |-> 0] /\ DOMAIN messages = {} /\ DOMAIN tombstones = {}
      /\ reply = Answer("none", "none", 0)
  BY DEF Init
<1>2. LogInv
  BY <1>1, Numbers DEF LogInv, Filed, FiledRanges
<1>3. \A l \in Log : LogOf(l) = <<>> /\ RangesOf(l) = {}
  BY <1>1 DEF LogOf, RangesOf
<1>4. Store!AbsInit
  BY <1>1, <1>3 DEF Answer, Store!AbsInit, LogOf
<1> QED
  BY <1>2, <1>4

(* Every row of the message tables stays under its own key, with none missing
   below the head of its log. *)
LEMMA TablesFiled == Spec => []LogInv
<1>1. Init => LogInv
  BY StoreStart
<1>2. LogInv /\ [Next]_vars => LogInv'
  BY StoreStep
<1> QED
  BY <1>1, <1>2, PTL DEF Spec

(* fetch_messages pages through a log in order and never into the next one,
   for every base and number of digits: the keys are padded, so their order is
   that of the numbers. *)
THEOREM PagesInOrder == Spec => []FetchInOrder
<1>1. LogInv => FetchInOrder
  <2> SUFFICES ASSUME LogInv, NEW l \in Log, NEW from \in 1 .. MaxHead, NEW limit \in {2, MaxHead}
               PROVE  LET page == FetchMessages(l, from, limit)
                          rest == heads[l] + 1 - from
                      IN  /\ Len(page) = IF from > heads[l] THEN 0
                                         ELSE IF rest < limit THEN rest ELSE limit
                          /\ \A i \in 1 .. Len(page) :
                                page[i].log = l /\ page[i].head_id = from + i - 1
    BY Zenon DEF FetchInOrder
  <2>1. limit \in Nat
    BY Numbers
  <2> QED
    BY <2>1, PageInOrder DEF LogInv
<1> QED
  BY <1>1, TablesFiled, PTL

(* list_heads always finds the message of a head, so it never fails. *)
THEOREM HeadsResolve == Spec => []HeadsHaveMessages
<1>1. LogInv => HeadsHaveMessages
  <2> SUFFICES ASSUME LogInv, NEW l \in Log, heads[l] > 0
               PROVE  MessageKey(l, heads[l]) \in DOMAIN messages
    BY DEF HeadsHaveMessages, DanglingHeads
  <2>1. heads[l] \in 1 .. heads[l]
    BY Numbers DEF LogInv, Filed
  <2> QED
    BY <2>1 DEF LogInv, Filed
<1> QED
  BY <1>1, TablesFiled, PTL

(* The redb tables implement the store contract, answers included, for every
   set of logs, ids and ranges, every base and number of digits. *)
THEOREM RedbImplementsStore == Spec => ImplementsStore
<1>1. Init => Store!AbsInit
  BY StoreStart
<1>2. LogInv /\ [Next]_vars => [Store!AbsNext]_(Store!absVars)
  BY StoreStep
<1> QED
  BY <1>1, <1>2, TablesFiled, PTL DEF Spec, ImplementsStore, Store!AbsSpec

----------------------------------------------------------------------------
(***************************************************************************)
(* The FIFO tables implement the queues' contract                          *)
(***************************************************************************)
FiledFifo(fs) == \A k \in DOMAIN fs : /\ fs[k] \in FifoRow
                                      /\ k = FifoKey(fs[k].queue, fs[k].sequence)

(* The rows of queue q in a table *)
RowsIn(fs, q) == {fs[k] : k \in {j \in DOMAIN fs : fs[j].queue = q}}

(* The inductive invariant of the FIFO tables: every row lies under its own
   key, and the rows of a queue carry the newest numbers of its counter. *)
FifoInv == /\ sequences \in [Queue -> 0 .. MaxSequence]
           /\ FiledFifo(fifo)
           /\ \A q \in Queue : InLine(RowsIn(fifo, q), sequences[q])

(* What is in a queue *)
Items == [id : FifoId, attempts : 0 .. U32Max]

(* The queue the rows R stand for, as the refinement mapping reads it: by how
   many rows are before each *)
Placed(R) == [i \in 1 .. Cardinality(R) |->
                 Item(CHOOSE r \in R : Cardinality({s \in R : s.sequence < r.sequence}) = i - 1)]

(* The contract's queue is what the rows of the queue give. *)
LEMMA QueueIsPlaced ==
    ASSUME NEW q
    PROVE  /\ QueueOf(q) = Placed(RowsIn(fifo, q))
           /\ QueueOf(q)' = Placed(RowsIn(fifo', q))
BY DEF QueueOf, Waiting, Placed, RowsIn, Item

(* In a line, as many rows are before a row as its number says. *)
LEMMA PlacedIsLine ==
    ASSUME NEW R, NEW n, InLine(R, n)
    PROVE  Placed(R) = LineOf(R, n)
<1> DEFINE g == Gone(R, n)
           Ahead(r) == {s \in R : s.sequence < r.sequence}
<1>1. n \in Nat /\ g \in 0 .. n /\ Cardinality(R) \in Nat /\ Cardinality(R) = n - g
  BY LineItem
<1>2. /\ \A r \in R : r.sequence \in g + 1 .. n
      /\ \A s \in g + 1 .. n : \E r \in R : r.sequence = s
      /\ \A r, e \in R : r.sequence = e.sequence => r = e
  BY DEF InLine
<1> HIDE DEF g
<1>3. ASSUME NEW r \in R
      PROVE  Cardinality(Ahead(r)) = r.sequence - g - 1
  <2> DEFINE b == r.sequence - 1
             S == Ahead(r)
             f == [s \in S |-> s.sequence]
  <2>1. b \in Int /\ g + 1 \in Int /\ r.sequence \in g + 1 .. n
    BY <1>1, <1>2
  <2>2. f \in [S -> g + 1 .. b]
    BY <1>1, <1>2, <2>1
  <2>3. \A x, y \in S : f[x] = f[y] => x = y
    BY <1>2
  <2>4. \A k \in g + 1 .. b : \E x \in S : f[x] = k
    <3> SUFFICES ASSUME NEW k \in g + 1 .. b PROVE \E x \in S : f[x] = k
      OBVIOUS
    <3>1. k \in g + 1 .. n /\ k < r.sequence
      BY <1>1, <2>1
    <3>2. PICK x \in R : x.sequence = k
      BY <1>2, <3>1
    <3> QED
      BY <3>1, <3>2
  <2> HIDE DEF S, f, b
  <2>5. Cardinality(S) = IF g + 1 > b THEN 0 ELSE b - (g + 1) + 1
    BY <2>1, <2>2, <2>3, <2>4, CountByKey
  <2>6. (IF g + 1 > b THEN 0 ELSE b - (g + 1) + 1) = r.sequence - g - 1
    BY <1>1, <2>1 DEF b
  <2> QED
    BY <2>5, <2>6 DEF S
<1> HIDE DEF Ahead
<1>4. ASSUME NEW i \in 1 .. Cardinality(R)
      PROVE  (CHOOSE r \in R : Cardinality(Ahead(r)) = i - 1) = RowAtPlace(R, g + i)
  <2>1. g + i \in g + 1 .. n /\ i \in Nat
    BY <1>1
  <2>2. PICK x \in R : x.sequence = g + i
    BY <1>2, <2>1
  <2>3. ASSUME NEW r \in R PROVE Cardinality(Ahead(r)) = i - 1 <=> r.sequence = g + i
    <3>1. Cardinality(Ahead(r)) = r.sequence - g - 1
      BY <1>3
    <3>2. r.sequence \in Nat
      BY <1>1, <1>2
    <3> QED
      BY <1>1, <2>1, <3>1, <3>2
  <2>4. \A r \in R : r.sequence = g + i <=> r = x
    BY <1>2, <2>2
  <2>5. RowAtPlace(R, g + i) = x
    BY <2>4 DEF RowAtPlace
  <2> QED
    BY <2>3, <2>4, <2>5
<1>5. Placed(R) = [i \in 1 .. Cardinality(R) |->
                      Item(CHOOSE r \in R : Cardinality(Ahead(r)) = i - 1)]
  BY DEF Placed, Ahead
<1>6. LineOf(R, n) = [i \in 1 .. Cardinality(R) |-> Item(RowAtPlace(R, g + i))]
  BY DEF LineOf, g
<1> QED
  BY <1>4, <1>5, <1>6

(* The keys of FIFO rows follow queues first and numbers second. *)
LEMMA FifoRowKey ==
    ASSUME NEW fs, FiledFifo(fs), NEW k \in DOMAIN fs
    PROVE  /\ k \in Seq(Nat) /\ Len(k) >= 1 /\ k[1] = fs[k].queue
           /\ fs[k].queue \in Nat /\ fs[k].queue \in Queue /\ fs[k].sequence \in Nat
           /\ \A j \in DOMAIN fs :
                 /\ Before(k, j) <=> \/ fs[k].queue < fs[j].queue
                                     \/ fs[k].queue = fs[j].queue /\ fs[k].sequence < fs[j].sequence
                 /\ fs[k].queue = fs[j].queue /\ fs[k].sequence = fs[j].sequence => k = j
<1>1. \A j \in DOMAIN fs : /\ fs[j].queue \in Queue /\ fs[j].sequence \in 1 .. MaxSequence
                           /\ j = MessageKey(fs[j].queue, fs[j].sequence)
  BY DEF FiledFifo, FifoRow, FifoKey, MessageKey
<1>2. \A j \in DOMAIN fs : /\ fs[j].queue \in Nat /\ fs[j].sequence \in Nat
                           /\ fs[j].sequence \in 0 .. U64Max
  BY <1>1, Numbers
<1>3. PICK l \in Nat, h \in 0 .. U64Max : /\ l = fs[k].queue /\ h = fs[k].sequence
                                          /\ k = MessageKey(l, h) /\ h \in Nat
  BY <1>1, <1>2
<1>4. k \in Seq(Nat) /\ Len(k) >= 1 /\ k[1] = l
  <2>1. k \in Seq(Nat) /\ Len(k) = Width + 1 /\ k[1] = l
    BY <1>3, KeyShape
  <2> QED
    BY <2>1, RedbAssumption
<1>5. \A m \in Nat, g \in 0 .. U64Max : Before(k, MessageKey(m, g)) <=> l < m \/ (l = m /\ h < g)
  BY <1>3, KeyOrder
<1>6. ASSUME NEW j \in DOMAIN fs
      PROVE  Before(k, j) <=> l < fs[j].queue \/ (l = fs[j].queue /\ h < fs[j].sequence)
  BY <1>1, <1>2, <1>5
<1>7. ASSUME NEW j \in DOMAIN fs, fs[k].queue = fs[j].queue, fs[k].sequence = fs[j].sequence
      PROVE  k = j
  BY <1>1, <1>7
<1> QED
  BY Zenon, <1>1, <1>2, <1>3, <1>4, <1>6, <1>7

(* peek_fifo finds the row with the least number of its queue, if there is
   one, and never one of another queue. *)
LEMMA FrontIs ==
    ASSUME FiledFifo(fifo), NEW q \in Queue
    PROVE  FrontOf(q) = {k \in DOMAIN fifo :
                            /\ fifo[k].queue = q
                            /\ \A e \in RowsIn(fifo, q) : fifo[k].sequence <= e.sequence}
<1> DEFINE range == RangeFrom(fifo, Prefix(q))
<1>1. q \in Nat
  BY Numbers
<1>2. ASSUME NEW k \in DOMAIN fifo
      PROVE  /\ Before(k, Prefix(q)) <=> fifo[k].queue < q
             /\ StartsWith(k, Prefix(q)) <=> fifo[k].queue = q
  <2>1. k \in Seq(Nat) /\ Len(k) >= 1 /\ k[1] = fifo[k].queue
    BY FifoRowKey
  <2>2. (Before(k, Prefix(q)) <=> k[1] < q) /\ (StartsWith(k, Prefix(q)) <=> k[1] = q)
    BY <1>1, <2>1, PrefixOrder
  <2> QED
    BY <2>1, <2>2
<1>3. range = {k \in DOMAIN fifo : ~(fifo[k].queue < q)}
  BY <1>2 DEF RangeFrom
<1>4. FrontOf(q) = {k \in range : StartsWith(k, Prefix(q)) /\ \A j \in range : ~Before(j, k)}
  BY DEF FrontOf
<1> HIDE DEF range
<1>5. ASSUME NEW k \in DOMAIN fifo, fifo[k].queue = q
      PROVE  /\ k \in range
             /\ (\A j \in range : ~Before(j, k)) <=>
                   \A e \in RowsIn(fifo, q) : fifo[k].sequence <= e.sequence
  <2>1. k \in range
    BY <1>1, <1>3, <1>5
  <2>2. ASSUME NEW j \in range, \A e \in RowsIn(fifo, q) : fifo[k].sequence <= e.sequence
        PROVE  ~Before(j, k)
    <3>1. /\ j \in DOMAIN fifo /\ ~(fifo[j].queue < q) /\ fifo[j].queue \in Nat
          /\ fifo[j].sequence \in Nat /\ fifo[k].sequence \in Nat
      BY <1>3, FifoRowKey
    <3>2. Before(j, k) <=> \/ fifo[j].queue < fifo[k].queue
                           \/ fifo[j].queue = fifo[k].queue /\ fifo[j].sequence < fifo[k].sequence
      BY <3>1, FifoRowKey
    <3>3. fifo[j].queue = q => fifo[k].sequence <= fifo[j].sequence
      BY <2>2, <3>1 DEF RowsIn
    <3> QED
      BY <1>5, <3>1, <3>2, <3>3
  <2>3. ASSUME \A j \in range : ~Before(j, k), NEW e \in RowsIn(fifo, q)
        PROVE  fifo[k].sequence <= e.sequence
    <3>1. PICK j \in DOMAIN fifo : fifo[j].queue = q /\ e = fifo[j]
      BY DEF RowsIn
    <3>2. j \in range /\ fifo[j].sequence \in Nat /\ fifo[k].sequence \in Nat
      BY <1>1, <1>3, <3>1, FifoRowKey
    <3>3. ~(fifo[j].sequence < fifo[k].sequence)
      <4>1. ~Before(j, k)
        BY <2>3, <3>2
      <4>2. Before(j, k) <=> \/ fifo[j].queue < fifo[k].queue
                             \/ fifo[j].queue = fifo[k].queue /\ fifo[j].sequence < fifo[k].sequence
        BY FifoRowKey
      <4> QED
        BY <1>5, <3>1, <4>1, <4>2
    <3> QED
      BY <3>1, <3>2, <3>3
  <2> QED
    BY <2>1, <2>2, <2>3
<1>6. \A k \in range : k \in DOMAIN fifo /\ (StartsWith(k, Prefix(q)) <=> fifo[k].queue = q)
  BY <1>2, <1>3
<1> QED
  BY <1>4, <1>5, <1>6

(* The contract's queue is the line of the rows, before and after a step. *)
LEMMA QueueIsLine ==
    ASSUME FifoInv, NEW q \in Queue
    PROVE  QueueOf(q) = LineOf(RowsIn(fifo, q), sequences[q])
BY QueueIsPlaced, PlacedIsLine DEF FifoInv

(* The same of the next state *)
LEMMA NextQueueIsLine ==
    ASSUME NEW q, InLine(RowsIn(fifo', q), sequences'[q])
    PROVE  QueueOf(q)' = LineOf(RowsIn(fifo', q), sequences'[q])
BY QueueIsPlaced, PlacedIsLine

(* Rows carry items. *)
LEMMA RowsHaveItems ==
    ASSUME FiledFifo(fifo), NEW q
    PROVE  \A r \in RowsIn(fifo, q) : Item(r) \in Items
BY DEF RowsIn, FiledFifo, FifoRow, Item, Items

(* The row peek_fifo finds is the front of the contract's queue. *)
LEMMA FrontIsFront ==
    ASSUME FifoInv, NEW q \in Queue, NEW id
    PROVE  Fifo!IsFront(q, id) <=> \E k \in FrontOf(q) : fifo[k].id = id
<1> DEFINE R == RowsIn(fifo, q)
           n == sequences[q]
           s == LineOf(R, n)
<1>1. InLine(R, n) /\ QueueOf(q) = s
  BY QueueIsLine DEF FifoInv
<1>2. Fifo!IsFront(q, id) <=> s # <<>> /\ Head(s).id = id
  BY <1>1 DEF Fifo!IsFront
<1>3. /\ \A k \in FrontOf(q) : fifo[k] \in R /\ \A e \in R : fifo[k].sequence <= e.sequence
      /\ \A r \in R : (\A e \in R : r.sequence <= e.sequence) => \E k \in FrontOf(q) : fifo[k] = r
  BY FrontIs DEF RowsIn, FifoInv
<1>4. s \in Seq(Items) /\ Len(s) = Cardinality(R) /\ Cardinality(R) \in Nat
  BY <1>1, RowsHaveItems, LineType, LineItem DEF FifoInv
<1> HIDE DEF R, n
<1>5. ASSUME NEW r \in R, \A e \in R : r.sequence <= e.sequence
      PROVE  s # <<>> /\ Head(s) = Item(r)
  <2>1. Cardinality(R) >= 1 /\ s[1] = Item(r)
    BY <1>1, <1>5, LineFront
  <2> HIDE DEF s
  <2> QED
    BY <1>4, <2>1
<1>6. ASSUME s # <<>>, Head(s).id = id
      PROVE  \E k \in FrontOf(q) : fifo[k].id = id
  <2>1. R # {}
    <3>1. Cardinality({}) = 0
      BY FS_EmptySet
    <3>2. R = {} => Len(s) = 0
      BY <1>4, <3>1
    <3>3. Len(s) # 0
      <4> HIDE DEF s
      <4> QED BY <1>4, <1>6
    <3> QED
      BY <3>2, <3>3
  <2>2. PICK r \in R : \A e \in R : r.sequence <= e.sequence
    BY <1>1, <2>1, LineHasFront
  <2>3. Head(s) = Item(r)
    BY <1>5, <2>2
  <2>4. r.id = id
    BY <1>6, <2>3 DEF Item
  <2> QED
    BY <1>3, <2>2, <2>4
<1>7. ASSUME NEW k \in FrontOf(q), fifo[k].id = id
      PROVE  s # <<>> /\ Head(s).id = id
  <2>1. fifo[k] \in R /\ \A e \in R : fifo[k].sequence <= e.sequence
    BY <1>3
  <2>2. s # <<>> /\ Head(s) = Item(fifo[k])
    BY <1>5, <2>1
  <2> QED
    BY <1>7, <2>2 DEF Item
<1> QED
  BY <1>2, <1>6, <1>7

(* enqueue_fifo: a row joins the line of its queue *)
LEMMA EnqueueRefines ==
    ASSUME FifoInv, NEW q \in Queue, NEW id \in FifoId, EnqueueFifo(q, id)
    PROVE  FifoInv' /\ Fifo!AbsEnqueue(q, id)
<1> DEFINE queue == [k \in Queue |-> QueueOf(k)]
           R == RowsIn(fifo, q)
           n == sequences[q]
           p == n + 1
           c == FifoKey(q, p)
           x == [queue |-> q, sequence |-> p, id |-> id, attempts |-> 0]
<1>0. n \in 0 .. MaxSequence /\ MaxSequence \in Nat /\ p \in 1 .. MaxSequence /\ n < MaxSequence
  BY Numbers DEF FifoInv, EnqueueFifo
<1>1. /\ sequences' = [sequences EXCEPT ![q] = p] /\ fifo' = Insert(fifo, c, x)
      /\ fifo_reply' = FifoAnswer(q, "ok")
  BY DEF EnqueueFifo
<1>2. /\ x \in FifoRow /\ x.queue = q /\ x.sequence = p
      /\ Item(x) = [id |-> id, attempts |-> 0]
  BY <1>0, RedbAssumption DEF FifoRow, Item
<1> HIDE DEF x
<1>3. InLine(R, n) /\ FiledFifo(fifo)
  BY DEF FifoInv
<1>4. c \notin DOMAIN fifo
  <2> SUFFICES ASSUME c \in DOMAIN fifo PROVE FALSE
    OBVIOUS
  <2>1. /\ fifo[c].queue \in Queue /\ fifo[c].sequence \in 1 .. MaxSequence
        /\ MessageKey(q, p) = MessageKey(fifo[c].queue, fifo[c].sequence)
    BY Zenon, <1>3 DEF FiledFifo, FifoRow, FifoKey, MessageKey
  <2>2. /\ q \in Nat /\ fifo[c].queue \in Nat /\ p \in 0 .. U64Max
        /\ fifo[c].sequence \in 0 .. U64Max
    BY <1>0, <2>1, Numbers
  <2>3. fifo[c].queue = q /\ fifo[c].sequence = p
    BY <2>1, <2>2, KeyUnique
  <2>4. fifo[c] \in R
    BY <2>3 DEF RowsIn
  <2>5. fifo[c].sequence <= n
    <3> HIDE DEF R, n
    <3>1. fifo[c].sequence \in Gone(R, n) + 1 .. n
      BY <1>3, <2>4 DEF InLine
    <3> QED
      BY <3>1
  <2> QED
    BY <1>0, <2>3, <2>5
<1>5. /\ DOMAIN fifo' = DOMAIN fifo \cup {c} /\ fifo'[c] = x
      /\ \A k \in DOMAIN fifo : fifo'[k] = fifo[k]
  BY <1>1, <1>4 DEF Insert
<1>6. \A k : RowsIn(fifo', k) = IF k = q THEN R \cup {x} ELSE RowsIn(fifo, k)
  <2> SUFFICES ASSUME NEW k
               PROVE  RowsIn(fifo', k) = IF k = q THEN R \cup {x} ELSE RowsIn(fifo, k)
    OBVIOUS
  <2>1. \A r : r \in RowsIn(fifo', k) <=> r \in RowsIn(fifo, k) \/ (k = q /\ r = x)
    BY <1>2, <1>5 DEF RowsIn
  <2> QED
    BY <2>1
<1>7. /\ InLine(R \cup {x}, p)
      /\ LineOf(R \cup {x}, p) = Append(LineOf(R, n), Item(x))
  <2>1. Follows(x.sequence, n) /\ x.sequence = p
    BY <1>2 DEF Follows
  <2> HIDE DEF R, n, p
  <2> QED
    BY Zenon, <1>3, <2>1, LineJoin
<1>8. FiledFifo(fifo')
  BY <1>2, <1>3, <1>5 DEF FiledFifo
<1>9. sequences' \in [Queue -> 0 .. MaxSequence]
      /\ \A k \in Queue : sequences'[k] = IF k = q THEN p ELSE sequences[k]
  BY <1>0, <1>1 DEF FifoInv
<1>10. \A k \in Queue : InLine(RowsIn(fifo', k), sequences'[k])
  BY Zenon, <1>6, <1>7, <1>9 DEF FifoInv
<1>11. FifoInv'
  BY <1>8, <1>9, <1>10 DEF FifoInv, FiledFifo, RowsIn, FifoRow
<1>12. \A k \in Queue : QueueOf(k)' = IF k = q THEN Append(QueueOf(q), Item(x)) ELSE QueueOf(k)
  BY Zenon, <1>6, <1>7, <1>9, <1>10, QueueIsLine, NextQueueIsLine
<1>13. queue' = [queue EXCEPT ![q] = Append(queue[q], [id |-> id, attempts |-> 0])]
  BY Zenon, <1>2, <1>12
<1>14. ~Fifo!IsWaiting(id)
  BY DEF Fifo!IsWaiting
<1> QED
  BY <1>0, <1>1, <1>11, <1>13, <1>14 DEF Fifo!AbsEnqueue, Fifo!FifoAnswer, FifoAnswer

(* The row of the front *)
LEMMA FrontRow ==
    ASSUME FifoInv, NEW q \in Queue, NEW c \in FrontOf(q)
    PROVE  /\ c \in DOMAIN fifo /\ fifo[c] \in FifoRow /\ fifo[c].queue = q
           /\ c = FifoKey(q, fifo[c].sequence) /\ fifo[c] \in RowsIn(fifo, q)
           /\ \A e \in RowsIn(fifo, q) : fifo[c].sequence <= e.sequence
           /\ \A k \in DOMAIN fifo : fifo[k] = fifo[c] => k = c
<1>1. /\ c \in DOMAIN fifo /\ fifo[c].queue = q
      /\ \A e \in RowsIn(fifo, q) : fifo[c].sequence <= e.sequence
  BY FrontIs DEF FifoInv
<1>2. \A k \in DOMAIN fifo : fifo[k] \in FifoRow /\ k = FifoKey(fifo[k].queue, fifo[k].sequence)
  BY DEF FifoInv, FiledFifo
<1>3. fifo[c] \in RowsIn(fifo, q)
  BY <1>1 DEF RowsIn
<1> QED
  BY <1>1, <1>2, <1>3

(* ack_fifo: the first row leaves *)
LEMMA AckRefines ==
    ASSUME FifoInv, NEW q \in Queue, NEW id \in FifoId, AckFifo(q, id)
    PROVE  FifoInv' /\ Fifo!AbsAck(q, id)
<1> DEFINE queue == [k \in Queue |-> QueueOf(k)]
           R == RowsIn(fifo, q)
           n == sequences[q]
<1>1. PICK c \in FrontOf(q) : fifo[c].id = id /\ fifo' = Without(fifo, c)
  BY DEF AckFifo
<1>2. sequences' = sequences /\ fifo_reply' = FifoAnswer(q, "acknowledged")
  BY DEF AckFifo
<1>3. Fifo!IsFront(q, id)
  BY <1>1, FrontIsFront
<1>4. PICK x \in R : /\ x = fifo[c] /\ c \in DOMAIN fifo /\ x.queue = q
                     /\ \A e \in R : x.sequence <= e.sequence
                     /\ \A k \in DOMAIN fifo : fifo[k] = x => k = c
  BY FrontRow
<1>5. DOMAIN fifo' = DOMAIN fifo \ {c} /\ \A k \in DOMAIN fifo : k # c => fifo'[k] = fifo[k]
  BY <1>1 DEF Without
<1>6. \A k : RowsIn(fifo', k) = IF k = q THEN R \ {x} ELSE RowsIn(fifo, k)
  <2> SUFFICES ASSUME NEW k
               PROVE  RowsIn(fifo', k) = IF k = q THEN R \ {x} ELSE RowsIn(fifo, k)
    OBVIOUS
  <2>1. \A r : r \in RowsIn(fifo', k) <=> r \in RowsIn(fifo, k) /\ ~(k = q /\ r = x)
    BY <1>4, <1>5 DEF RowsIn
  <2> QED
    BY <2>1
<1>7. InLine(R \ {x}, n) /\ LineOf(R \ {x}, n) = Tail(LineOf(R, n))
  <2>1. InLine(R, n)
    BY DEF FifoInv
  <2> HIDE DEF R, n
  <2> QED
    BY Zenon, <1>4, <2>1, LineLeave
<1>8. \A k \in Queue : InLine(RowsIn(fifo', k), sequences'[k])
  BY Zenon, <1>2, <1>6, <1>7 DEF FifoInv
<1>9. FiledFifo(fifo') /\ sequences' \in [Queue -> 0 .. MaxSequence]
  BY <1>2, <1>5 DEF FifoInv, FiledFifo
<1>10. FifoInv'
  BY Zenon, <1>8, <1>9 DEF FifoInv, FiledFifo, RowsIn, FifoRow
<1>11. \A k \in Queue : QueueOf(k)' = IF k = q THEN Tail(QueueOf(q)) ELSE QueueOf(k)
  BY Zenon, <1>2, <1>6, <1>7, <1>8, QueueIsLine, NextQueueIsLine
<1>12. queue' = [queue EXCEPT ![q] = Tail(queue[q])]
  BY Zenon, <1>11
<1> QED
  BY <1>2, <1>3, <1>10, <1>12 DEF Fifo!AbsAck, Fifo!FifoAnswer, FifoAnswer

(* reject_fifo: the first row stays, with one attempt more *)
LEMMA RejectRefines ==
    ASSUME FifoInv, NEW q \in Queue, NEW id \in FifoId, RejectFifo(q, id)
    PROVE  FifoInv' /\ Fifo!AbsReject(q, id)
<1> DEFINE queue == [k \in Queue |-> QueueOf(k)]
           R == RowsIn(fifo, q)
           n == sequences[q]
           Retried(r) == [r EXCEPT !.attempts = Saturating(r.attempts)]
<1>1. PICK c \in FrontOf(q) : fifo[c].id = id /\ fifo' = Insert(fifo, c, Retried(fifo[c]))
  BY DEF RejectFifo
<1>2. sequences' = sequences /\ fifo_reply' = FifoAnswer(q, "rejected")
  BY DEF RejectFifo
<1>3. Fifo!IsFront(q, id)
  BY <1>1, FrontIsFront
<1>4. PICK x \in R : /\ x = fifo[c] /\ c \in DOMAIN fifo /\ x.queue = q /\ x \in FifoRow
                     /\ c = FifoKey(q, x.sequence)
                     /\ \A e \in R : x.sequence <= e.sequence
                     /\ \A k \in DOMAIN fifo : fifo[k] = x => k = c
  BY FrontRow
<1> DEFINE y == Retried(x)
           a == x.attempts
<1>5. a \in 0 .. U32Max /\ U32Max \in Nat
  BY <1>4, RedbAssumption DEF FifoRow
<1>6. Saturating(a) \in 0 .. U32Max /\ Saturating(a) = IF a < U32Max THEN a + 1 ELSE a
  BY <1>5 DEF Saturating
<1>7. /\ y \in FifoRow /\ y.queue = q /\ y.sequence = x.sequence /\ y.id = x.id
      /\ y.attempts = Saturating(a)
  BY <1>4, <1>6 DEF FifoRow
<1>8. Item(y) = [Item(x) EXCEPT !.attempts = Saturating(a)]
  BY <1>4, <1>6, <1>7 DEF Item, FifoRow
<1>9. fifo' = Insert(fifo, c, y)
  BY <1>1, <1>4
<1> HIDE DEF y, a
<1>10. /\ DOMAIN fifo' = DOMAIN fifo /\ fifo'[c] = y
       /\ \A k \in DOMAIN fifo : k # c => fifo'[k] = fifo[k]
  BY <1>4, <1>9 DEF Insert
<1>11. \A k : RowsIn(fifo', k) = IF k = q THEN (R \ {x}) \cup {y} ELSE RowsIn(fifo, k)
  <2> SUFFICES ASSUME NEW k
               PROVE  RowsIn(fifo', k) = IF k = q THEN (R \ {x}) \cup {y} ELSE RowsIn(fifo, k)
    OBVIOUS
  <2>1. ASSUME NEW r
        PROVE  r \in RowsIn(fifo', k) <=>
                  (r \in RowsIn(fifo, k) /\ ~(k = q /\ r = x)) \/ (k = q /\ r = y)
    <3>1. ASSUME r \in RowsIn(fifo', k)
          PROVE  (r \in RowsIn(fifo, k) /\ ~(k = q /\ r = x)) \/ (k = q /\ r = y)
      <4>1. PICK j \in DOMAIN fifo : r = fifo'[j] /\ fifo'[j].queue = k
        BY <1>10, <3>1 DEF RowsIn
      <4> QED
        BY <1>4, <1>7, <1>10, <4>1 DEF RowsIn
    <3>2. ASSUME r \in RowsIn(fifo, k), ~(k = q /\ r = x)
          PROVE  r \in RowsIn(fifo', k)
      BY <1>4, <1>10, <3>2 DEF RowsIn
    <3>3. ASSUME k = q, r = y
          PROVE  r \in RowsIn(fifo', k)
      BY <1>4, <1>7, <1>10, <3>3 DEF RowsIn
    <3> QED
      BY <3>1, <3>2, <3>3
  <2> QED
    BY <2>1
<1>12. /\ InLine((R \ {x}) \cup {y}, n)
       /\ LineOf((R \ {x}) \cup {y}, n) = [LineOf(R, n) EXCEPT ![1] = Item(y)]
       /\ LineOf(R, n)[1] = Item(x)
  <2>1. InLine(R, n)
    BY DEF FifoInv
  <2>2. y.sequence = x.sequence /\ \A e \in R : x.sequence <= e.sequence
    BY Zenon, <1>4, <1>7
  <2> HIDE DEF R, n
  <2> QED
    BY <2>1, <2>2, LineStay, LineFront
<1>13. \A k \in Queue : InLine(RowsIn(fifo', k), sequences'[k])
  BY <1>2, <1>11, <1>12 DEF FifoInv
<1>14. FiledFifo(fifo') /\ sequences' \in [Queue -> 0 .. MaxSequence]
  BY <1>2, <1>4, <1>7, <1>10 DEF FifoInv, FiledFifo
<1>15. FifoInv'
  BY Zenon, <1>13, <1>14 DEF FifoInv, FiledFifo, RowsIn, FifoRow
<1>16. /\ \A k \in Queue : QueueOf(k)' = IF k = q THEN [QueueOf(q) EXCEPT ![1] = Item(y)]
                                         ELSE QueueOf(k)
       /\ QueueOf(q)[1] = Item(x)
  BY <1>2, <1>11, <1>12, <1>13, QueueIsLine, NextQueueIsLine
<1>17. queue' = [queue EXCEPT ![q] = [queue[q] EXCEPT ![1] = Item(y)]]
  BY Zenon, <1>16
<1>18. Item(y) = [queue[q][1] EXCEPT !.attempts = IF queue[q][1].attempts < U32Max
                                                  THEN queue[q][1].attempts + 1
                                                  ELSE queue[q][1].attempts]
  <2>1. queue[q][1] = Item(x) /\ Item(x).attempts = a
    BY <1>16 DEF Item, a
  <2> QED
    BY <1>6, <1>8, <2>1
<1>19. queue' = [queue EXCEPT ![q][1].attempts = IF @ < U32Max THEN @ + 1 ELSE @]
  BY <1>17, <1>18
<1> QED
  BY <1>2, <1>3, <1>15, <1>19 DEF Fifo!AbsReject, Fifo!FifoAnswer, FifoAnswer

(* A step that leaves the FIFO tables alone leaves the queues alone. *)
LEMMA FifoStutter ==
    ASSUME FifoInv, sequences' = sequences, fifo' = fifo
    PROVE  FifoInv' /\ \A k : QueueOf(k)' = QueueOf(k)
<1>1. FifoInv'
  BY DEF FifoInv, FiledFifo, RowsIn, FifoRow
<1>2. \A k : QueueOf(k)' = QueueOf(k)
  BY QueueIsPlaced
<1> QED
  BY <1>1, <1>2

(* Every step of the FIFO tables is a step of the queues' contract, and the
   message operations leave them alone. *)
LEMMA QueueStep ==
    ASSUME FifoInv, [Next]_vars
    PROVE  FifoInv' /\ [Fifo!AbsNext]_(Fifo!absVars)
<1>1. CASE UNCHANGED fifoVars
  <2>1. sequences' = sequences /\ fifo' = fifo /\ fifo_reply' = fifo_reply
    BY <1>1 DEF fifoVars
  <2> QED
    BY <2>1, FifoStutter DEF Fifo!absVars
<1>2. ASSUME NEW q \in Queue, NEW id \in FifoId,
             EnqueueFifo(q, id) \/ AckFifo(q, id) \/ RejectFifo(q, id) \/ NotFront(q, id)
      PROVE  FifoInv' /\ Fifo!AbsNext
  <2>1. CASE EnqueueFifo(q, id)
    BY <2>1, EnqueueRefines DEF Fifo!AbsNext
  <2>2. CASE AckFifo(q, id)
    BY <2>2, AckRefines DEF Fifo!AbsNext
  <2>3. CASE RejectFifo(q, id)
    BY <2>3, RejectRefines DEF Fifo!AbsNext
  <2>4. CASE NotFront(q, id)
    <3>1. sequences' = sequences /\ fifo' = fifo /\ fifo_reply' = FifoAnswer(q, "ignored")
      BY <2>4 DEF NotFront
    <3>2. ~Fifo!IsFront(q, id)
      BY <2>4, FrontIsFront DEF NotFront
    <3>3. FifoInv' /\ \A k : QueueOf(k)' = QueueOf(k)
      BY <3>1, FifoStutter
    <3>4. Fifo!AbsNotFront(q, id)
      BY <3>1, <3>2, <3>3 DEF Fifo!AbsNotFront, Fifo!FifoAnswer, FifoAnswer
    <3> QED
      BY <3>3, <3>4 DEF Fifo!AbsNext
  <2> QED
    BY <1>2, <2>1, <2>2, <2>3, <2>4
<1> QED
  BY <1>1, <1>2 DEF Next, FifoNext, vars, fifoVars

(* The queues start empty. *)
LEMMA QueueStart ==
    ASSUME Init
    PROVE  FifoInv /\ Fifo!AbsInit
<1>1. /\ sequences = [q \in Queue |-> 0] /\ DOMAIN fifo = {}
      /\ fifo_reply = FifoAnswer("none", "none")
      /\ \A q : RowsIn(fifo, q) = {}
  BY DEF Init, RowsIn
<1>2. \A q \in Queue : InLine(RowsIn(fifo, q), sequences[q])
  BY <1>1, LineEmpty
<1>3. FifoInv
  BY <1>1, <1>2, Numbers DEF FifoInv, FiledFifo
<1>4. \A q \in Queue : QueueOf(q) = <<>>
  BY <1>1, <1>3, LineEmpty, QueueIsLine
<1> QED
  BY <1>1, <1>3, <1>4 DEF Fifo!AbsInit, Fifo!FifoAnswer, FifoAnswer

(* The FIFO tables keep their invariant. *)
LEMMA QueuesFiled == Spec => []FifoInv
<1>1. Init => FifoInv
  BY QueueStart
<1>2. FifoInv /\ [Next]_vars => FifoInv'
  BY QueueStep
<1> QED
  BY <1>1, <1>2, PTL DEF Spec

(* The tables of redb hold what their columns are for: no head past the
   bound, no row of an unknown log or queue, no attempts past u32. *)
THEOREM RedbTypes == Spec => []TypeOK
<1>1. LogInv /\ FifoInv => TypeOK
  BY DEF LogInv, Filed, FiledRanges, RangeRow, FifoInv, FiledFifo, TypeOK
<1> QED
  BY <1>1, TablesFiled, QueuesFiled, PTL

(* The FIFO tables of redb are first-in first-out queues as the contract has
   them: the first key at or after a queue's prefix is its oldest message, or
   belongs to another queue and then the queue is empty. *)
THEOREM RedbImplementsFifo == Spec => ImplementsFifo
<1>1. Init => Fifo!AbsInit
  BY QueueStart
<1>2. FifoInv /\ [Next]_vars => [Fifo!AbsNext]_(Fifo!absVars)
  BY QueueStep
<1> QED
  BY <1>1, <1>2, QueuesFiled, PTL DEF Spec, ImplementsFifo, Fifo!AbsSpec
=============================================================================
