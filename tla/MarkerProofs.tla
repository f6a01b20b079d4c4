---------------------------- MODULE MarkerProofs ----------------------------
(***************************************************************************)
(* Delete markers, and the power failures of PowerLoss.                    *)
(*                                                                         *)
(* A delete marker that a running daemon has stored has taken effect there *)
(* (MarkersApplied of PeerSync), for any nodes, peers, crashes and orders  *)
(* of arrival, provided every backend can store the ranges that are        *)
(* deleted.  Without that proviso it is false: the run peer_wide_range     *)
(* shows where a replica is left.                                          *)
(*                                                                         *)
(* The argument adds to the invariant of PeerSyncProofs what happens       *)
(* between the two transactions of sync_head: a marker that is stored has  *)
(* its range recorded, but for the one marker the task is applying, and    *)
(* for all markers of a daemon that is down.                               *)
(*                                                                         *)
(* With power failures a store may take messages back, and nothing of the  *)
(* above follows from stores that only grow.  It still holds if only       *)
(* replicas lose power: the logs at their origins go on growing, and the   *)
(* database on the disk of a replica is one that its origins know.         *)
(***************************************************************************)
EXTENDS PowerLoss, PeerSyncProofs

(* Every backend stores the ends of the ranges that clients delete *)
RangesFit == \A r \in Ranges, n \in Node : r[2] <= HeadLimit[n]

Markers(o) == <<DeleteTopic, o>>

(* No marker is ever deleted, and every node can apply it *)
Applicable(o) ==
    /\ tombs[o][Markers(o)] = {}
    /\ \A h \in 1 .. Len(log[o][Markers(o)]) :
          LET e == log[o][Markers(o)][h]
          IN  /\ ~e.deleted
              /\ e.range.from <= e.range.to
              /\ \A n \in Node : e.range.to <= HeadLimit[n]

(* n has recorded the range of the marker at h of the markers of o *)
RecordedAt(n, o, h) ==
    LET r == log[n][Markers(o)][h].range
    IN  <<r.from, r.to>> \in tombs[n][<<r.topic, r.origin>>]

AllRecorded(n) ==
    \A o \in Node : \A h \in 1 .. Len(log[n][Markers(o)]) :
        up[n] /\ ~Applying(n, Markers(o), h) => RecordedAt(n, o, h)

MarkersAt(n) == /\ \A l \in Log : Applied(log[n][l], tombs[n][l])
                /\ Applicable(n)
                /\ AllRecorded(n)

MInv == up \in [Node -> BOOLEAN] /\ \A n \in Node : MarkersAt(n)

----------------------------------------------------------------------------
(* The log of markers of a node *)
LEMMA MarkersFacts ==
    ASSUME NEW o \in Node
    PROVE  /\ Markers(o) \in Log /\ Markers(o)[1] = DeleteTopic /\ Markers(o)[2] = o
           /\ \A t \in Topic : t # DeleteTopic /\ <<t, o>> \in Log /\ <<t, o>> # Markers(o)
BY PeerSyncAssumption DEF Markers, Log

(* A marker that n stores is the one its origin made: a marker of an
   application topic, recorded at the origin, and neither deleted nor refused. *)
LEMMA StoredMarker ==
    ASSUME Stores, NEW n \in Node, NEW o \in Node, NEW h \in 1 .. Len(log[n][Markers(o)])
    PROVE  LET e == log[n][Markers(o)][h]
           IN  /\ h \in 1 .. Len(log[o][Markers(o)])
               /\ e \in Entry /\ e.range = log[o][Markers(o)][h].range
               /\ e.deleted => log[o][Markers(o)][h].deleted
               /\ e.range.origin = o /\ e.range.topic \in Topic
               /\ <<e.range.from, e.range.to>> \in tombs[o][<<e.range.topic, o>>]
<1> DEFINE d == Markers(o)
<1>1. d \in Log /\ d[2] = o
  BY MarkersFacts
<1>2. /\ log[n][d] \in Seq(Entry) /\ log[o][d] \in Seq(Entry)
      /\ Below(log[n][d], log[o][d])
  BY <1>1 DEF Stores, StoreTypes, CopyAt
<1>3. h \in 1 .. Len(log[o][d])
  BY <1>2 DEF Below
<1>4. log[n][d][h] \in Entry /\ log[o][d][h] \in Entry
  BY <1>2, <1>3
<1>5. /\ SameExceptDeleted(log[n][d][h], log[o][d][h])
      /\ log[n][d][h].deleted => log[o][d][h].deleted
  BY <1>2 DEF Below
<1>6. log[n][d][h].range = log[o][d][h].range
  BY <1>4, <1>5, SameFields
<1>7. AnnouncedAt(o)
  BY DEF Stores
<1> QED
  BY Zenon, <1>3, <1>4, <1>5, <1>6, <1>7 DEF AnnouncedAt, Markers

(* With the ranges recorded and applied, what a marker covers is deleted. *)
LEMMA RecordedSuffices ==
    ASSUME IInv, MInv
    PROVE  MarkersApplied
<1> SUFFICES ASSUME NEW n \in Node, NEW d \in {DeleteTopic} \X Node,
                    NEW h \in 1 .. Len(log[n][d]), up[n], ~Applying(n, d, h)
             PROVE  LET r == log[n][d][h].range
                        target == log[n][<<r.topic, r.origin>>]
                    IN  \A k \in 1 .. Len(target) :
                           r.from <= k /\ k <= r.to => target[k].deleted
  BY Zenon DEF MarkersApplied
<1>0. PICK o \in Node : d = Markers(o)
  BY DEF Markers
<1> DEFINE r == log[n][d][h].range
           l == <<r.topic, r.origin>>
<1>1. l \in Log /\ r.origin = o
  <2>1. h \in 1 .. Len(log[n][Markers(o)]) /\ Stores
    BY <1>0 DEF IInv
  <2>2. log[n][Markers(o)][h].range.origin = o /\ log[n][Markers(o)][h].range.topic \in Topic
    BY Zenon, <2>1, StoredMarker
  <2>3. r.origin = o /\ r.topic \in Topic
    BY <1>0, <2>2
  <2> QED
    BY <2>3, MarkersFacts
<1>2. <<r.from, r.to>> \in tombs[n][l] /\ Applied(log[n][l], tombs[n][l])
  BY Zenon, <1>0, <1>1 DEF MInv, MarkersAt, AllRecorded, RecordedAt
<1>3. ASSUME NEW k \in 1 .. Len(log[n][l]), r.from <= k, k <= r.to
      PROVE  log[n][l][k].deleted
  <2> DEFINE q == <<r.from, r.to>>
  <2>1. q \in tombs[n][l] /\ q[1] <= k /\ k <= q[2]
    BY Zenon, <1>2, <1>3
  <2> HIDE DEF q, l, r
  <2>2. Covered(tombs[n][l], k)
    BY <2>1 DEF Covered
  <2> QED
    BY <1>2, <2>2 DEF Applied
<1> QED
  BY <1>3

----------------------------------------------------------------------------
(***************************************************************************)
(* Steps                                                                   *)
(***************************************************************************)
(* Nothing but n changes *)
OnlyAt(n) == /\ up' \in [Node -> BOOLEAN]
             /\ \A m \in Node : m # n => /\ log'[m] = log[m] /\ tombs'[m] = tombs[m]
                                         /\ up'[m] = up[m] /\ sync'[m] = sync[m]

(* The other nodes are as they were. *)
LEMMA OthersKept ==
    ASSUME MInv, NEW n \in Node, OnlyAt(n), MarkersAt(n)'
    PROVE  MInv'
<1> SUFFICES ASSUME NEW m \in Node, m # n
             PROVE  MarkersAt(m)'
  BY DEF MInv, OnlyAt
<1>1. MarkersAt(m)
  BY DEF MInv
<1>2. log'[m] = log[m] /\ tombs'[m] = tombs[m] /\ up'[m] = up[m] /\ sync'[m] = sync[m]
  BY DEF OnlyAt
<1>3. Applicable(m)'
  BY <1>1, <1>2 DEF MarkersAt, Applicable
<1>4. AllRecorded(m)'
  <2> SUFFICES ASSUME NEW o \in Node, NEW h \in 1 .. Len(log'[m][Markers(o)]),
                      up'[m] /\ ~Applying(m, Markers(o), h)'
               PROVE  RecordedAt(m, o, h)'
    BY DEF AllRecorded
  <2>1. up[m] /\ ~Applying(m, Markers(o), h) /\ h \in 1 .. Len(log[m][Markers(o)])
    BY <1>2 DEF Applying, Incoming
  <2>2. RecordedAt(m, o, h)
    BY <1>1, <2>1 DEF MarkersAt, AllRecorded
  <2> QED
    BY <1>2, <2>2 DEF RecordedAt
<1> QED
  BY <1>1, <1>2, <1>3, <1>4 DEF MarkersAt

(* A step that writes no store, of a task that is not applying a marker or of a
   daemon that goes down. *)
LEMMA QuietMarkers ==
    ASSUME MInv, NEW n \in Node, log' = log, tombs' = tombs, up' \in [Node -> BOOLEAN],
           \A m \in Node : m # n => up'[m] = up[m] /\ sync'[m] = sync[m],
           up'[n] => up[n] /\ sync[n].pc # "apply"
    PROVE  MInv'
<1>1. MarkersAt(n)
  BY DEF MInv
<1>2. AllRecorded(n)'
  BY <1>1 DEF MarkersAt, AllRecorded, RecordedAt, Applying
<1>3. MarkersAt(n)'
  BY <1>1, <1>2 DEF MarkersAt, Applicable
<1> QED
  BY <1>3, OthersKept DEF OnlyAt

(* publish writes an application log. *)
LEMMA PublishMarkers ==
    ASSUME IInv, MInv, NEW n \in Node, NEW t \in Topic \cup {DeleteTopic}, NEW o,
           Publish(n, t, o)
    PROVE  MInv'
<1> DEFINE l == <<t, n>>
           s == Placed(log[n][l], tombs[n][l], NewEntry(n, NoRange))
<1>1. RequestOrigin(n, o) = n /\ t # DeleteTopic
  BY DEF Publish, OwnedOrigin, ApplicationTopic
<1>2. l \in Log /\ \A q \in Node : l # Markers(q)
  BY <1>1 DEF Log, Markers
<1>3. log' = [log EXCEPT ![n][l] = s] /\ tombs' = tombs /\ up' = up /\ sync' = sync
  BY <1>1 DEF Publish
<1>4. log[n][l] \in Seq(Entry) /\ Applied(log[n][l], tombs[n][l])
  BY <1>2 DEF IInv, Stores, StoreTypes, MInv, MarkersAt
<1>5. Applied(s, tombs[n][l])
  <2>1. NewEntry(n, NoRange) \in Entry
    BY NewEntryType DEF IInv, Stores, Range
  <2> QED
    BY <1>4, <2>1, PlacedFacts
<1> HIDE DEF l, s
<1>6. /\ log'[n][l] = s /\ \A k \in Log : k # l => log'[n][k] = log[n][k]
      /\ \A m \in Node : m # n => log'[m] = log[m]
  BY <1>2, <1>3 DEF IInv, Stores, StoreTypes
<1>7. \A q \in Node : log'[n][Markers(q)] = log[n][Markers(q)]
  BY <1>2, <1>6, MarkersFacts
<1>8. MarkersAt(n)
  BY DEF MInv
<1>9. \A k \in Log : Applied(log'[n][k], tombs'[n][k])
  BY <1>3, <1>5, <1>6, <1>8 DEF MarkersAt
<1>10. Applicable(n)' /\ AllRecorded(n)'
  BY <1>3, <1>7, <1>8 DEF MarkersAt, Applicable, AllRecorded, RecordedAt, Applying, Incoming
<1> QED
  BY <1>3, <1>6, <1>9, <1>10, OthersKept DEF OnlyAt, MarkersAt, MInv
(* A recorded marker stays recorded while the store grows. *)
LEMMA StaysRecorded ==
    ASSUME Stores, NEW n \in Node, StoreStep(n), NEW o \in Node,
           NEW h \in 1 .. Len(log[n][Markers(o)]), RecordedAt(n, o, h)
    PROVE  RecordedAt(n, o, h)'
<1> DEFINE d == Markers(o)
           e == log[n][d][h]
           f == log'[n][d][h]
<1>1. d \in Log
  BY MarkersFacts
<1>2. /\ e \in Entry /\ e.range.topic \in Topic /\ e.range.origin = o
      /\ <<e.range.from, e.range.to>> \in tombs[n][<<e.range.topic, e.range.origin>>]
  BY Zenon, StoredMarker DEF RecordedAt
<1>3. log'[n][d] \in Seq(Entry) /\ log[n][d] \in Seq(Entry) /\ Below(log[n][d], log'[n][d])
  BY <1>1 DEF Stores, StoreTypes, StoreStep
<1>4. f \in Entry /\ SameExceptDeleted(e, f)
  BY <1>3 DEF Below
<1>5. f.range = e.range
  BY <1>2, <1>4, SameFields
<1>6. tombs[n][<<e.range.topic, o>>] \subseteq tombs'[n][<<e.range.topic, o>>]
  BY Zenon, <1>2, MarkersFacts DEF StoreStep
<1> QED
  BY Zenon, <1>2, <1>5, <1>6 DEF RecordedAt

(* The node's own markers stay applicable when none is added and none deleted. *)
LEMMA StaysApplicable ==
    ASSUME Stores, NEW n \in Node, StoreStep(n), Applicable(n), tombs'[n][Markers(n)] = {},
           Below(log'[n][Markers(n)], log[n][Markers(n)])
    PROVE  Applicable(n)'
<1> DEFINE d == Markers(n)
<1>1. d \in Log
  BY MarkersFacts
<1>2. log'[n][d] \in Seq(Entry) /\ log[n][d] \in Seq(Entry)
  BY <1>1 DEF Stores, StoreTypes, StoreStep
<1>3. ASSUME NEW h \in 1 .. Len(log'[n][d])
      PROVE  /\ ~log'[n][d][h].deleted
             /\ log'[n][d][h].range.from <= log'[n][d][h].range.to
             /\ \A m \in Node : log'[n][d][h].range.to <= HeadLimit[m]
  <2>1. h \in 1 .. Len(log[n][d])
    BY <1>2 DEF Below
  <2>2. log'[n][d][h] \in Entry /\ log[n][d][h] \in Entry
    BY <1>2, <2>1
  <2>3. /\ SameExceptDeleted(log'[n][d][h], log[n][d][h])
        /\ log'[n][d][h].deleted => log[n][d][h].deleted
    BY DEF Below
  <2>4. log'[n][d][h].range = log[n][d][h].range
    BY <2>2, <2>3, SameFields
  <2> QED
    BY <2>1, <2>3, <2>4 DEF Applicable
<1> QED
  BY <1>3 DEF Applicable

(* delete_range appends a marker that every node can apply, and records its
   range in the same transaction. *)
LEMMA DeleteRangeMarkers ==
    ASSUME RangesFit, IInv, MInv, NEW n \in Node, NEW t \in Topic \cup {DeleteTopic}, NEW o,
           NEW r \in Ranges, DeleteRange(n, t, o, r)
    PROVE  MInv'
<1> DEFINE l == <<t, n>>
           d == Markers(n)
           range == [topic |-> t, origin |-> n, from |-> r[1], to |-> r[2]]
           e == NewEntry(n, range)
           p == Placed(log[n][d], {}, e)
<1>1. RequestOrigin(n, o) = n /\ t # DeleteTopic /\ t \in Topic
  BY DEF DeleteRange, OwnedOrigin, ApplicationTopic
<1>2. r \in Nat \X Nat /\ r[1] <= r[2] /\ \A m \in Node : r[2] <= HeadLimit[m]
  BY PeerSyncAssumption DEF DeleteRange, RangesFit
<1>3. l \in Log /\ d \in Log /\ l # d
  BY <1>1, MarkersFacts
<1>4. MarkersAt(n) /\ tombs[n][d] = {} /\ StoreStep(n)
  BY Zenon, DeleteRangeStep DEF MInv, MarkersAt, Applicable, IInv
<1>5. /\ log' = [log EXCEPT ![n][l] = Flagged(log[n][l], {r}), ![n][d] = p]
      /\ tombs' = [tombs EXCEPT ![n][l] = tombs[n][l] \cup {r}]
      /\ up' = up /\ sync' = sync
  BY <1>1, <1>3, <1>4 DEF DeleteRange, Markers
<1>6. e \in Entry /\ e.range = range /\ ~e.deleted
  <2>1. range \in Range
    BY <1>1, <1>2 DEF Range
  <2>2. e \in Entry /\ e.range = range
    BY <2>1, NewEntryType DEF IInv, Stores
  <2> QED
    BY <2>2 DEF NewEntry
<1>7. log[n][d] \in Seq(Entry) /\ Len(log[n][d]) \in Nat
  BY <1>3 DEF IInv, Stores, StoreTypes
<1>8. range.from = r[1] /\ range.to = r[2]
  OBVIOUS
<1> HIDE DEF range, e
<1>9. /\ Len(p) = Len(log[n][d]) + 1
      /\ \A h \in 1 .. Len(log[n][d]) : p[h] = log[n][d][h]
      /\ p[Len(log[n][d]) + 1].range = range /\ ~p[Len(log[n][d]) + 1].deleted
  <2> DEFINE s == log[n][d]
  <2>1. s \in Seq(Entry)
    BY <1>7
  <2> HIDE DEF s
  <2>2. LET q == Placed(s, {}, e)
        IN  /\ Len(q) = Len(s) + 1 /\ \A h \in 1 .. Len(s) : q[h] = s[h]
            /\ q[Len(s) + 1] = Marked(e, {}, Len(s) + 1)
    BY <1>6, <2>1, PlacedFacts
  <2>3. /\ Marked(e, {}, Len(s) + 1).range = range
        /\ ~Marked(e, {}, Len(s) + 1).deleted
    BY <1>6, MarkedFacts DEF Covered
  <2> QED
    BY <2>2, <2>3 DEF s
<1> HIDE DEF p, l, d
<1>10. /\ log'[n][d] = p /\ tombs'[n][d] = {}
       /\ \A k \in Log : k # l /\ k # d => log'[n][k] = log[n][k]
       /\ \A k \in Log : k # l => tombs'[n][k] = tombs[n][k]
  BY <1>3, <1>4, <1>5 DEF IInv, Stores, StoreTypes
<1>11. \A k \in Log : Applied(log'[n][k], tombs'[n][k])
  <2> SUFFICES ASSUME NEW k \in Log
               PROVE  Applied(log'[n][k], tombs'[n][k])
    OBVIOUS
  <2>1. CASE k[2] = n
    BY <1>4, <2>1 DEF StoreStep
  <2>2. CASE k[2] # n
    <3>1. k # l /\ k # d
      BY <2>2 DEF l, d, Markers
    <3> QED
      BY <1>4, <1>10, <3>1 DEF MarkersAt
  <2> QED
    BY <2>1, <2>2
<1>12. Applicable(n)'
  <2> SUFFICES ASSUME NEW h \in 1 .. Len(p)
               PROVE  /\ ~p[h].deleted /\ p[h].range.from <= p[h].range.to
                      /\ \A m \in Node : p[h].range.to <= HeadLimit[m]
    BY <1>10 DEF Applicable, d
  <2>1. CASE h = Len(p)
    BY <1>2, <1>8, <1>9, <2>1
  <2>2. CASE h # Len(p)
    <3>1. h \in 1 .. Len(log[n][d]) /\ p[h] = log[n][d][h]
      BY <1>7, <1>9, <2>2
    <3> QED
      BY <1>4, <3>1 DEF MarkersAt, Applicable, d
  <2> QED
    BY <2>1, <2>2
<1>13. AllRecorded(n)'
  <2> SUFFICES ASSUME NEW q \in Node, NEW h \in 1 .. Len(log'[n][Markers(q)]),
                      up'[n] /\ ~Applying(n, Markers(q), h)'
               PROVE  RecordedAt(n, q, h)'
    BY DEF AllRecorded
  <2>1. CASE q = n
    <3>1. AnnouncedAt(n)'
      BY <1>4 DEF StoreStep
    <3> QED
      BY Zenon, <2>1, <3>1 DEF AnnouncedAt, RecordedAt, Markers
  <2>2. CASE q # n
    <3>1. Markers(q) \in Log /\ Markers(q) # l /\ Markers(q) # d
      BY <1>1, <2>2, MarkersFacts DEF Markers, l, d
    <3>2. log'[n][Markers(q)] = log[n][Markers(q)]
      BY <1>10, <3>1
    <3>3. up[n] /\ ~Applying(n, Markers(q), h) /\ h \in 1 .. Len(log[n][Markers(q)])
      BY Zenon, <1>5, <3>2 DEF Applying, Incoming
    <3>4. RecordedAt(n, q, h)
      BY <1>4, <3>3 DEF MarkersAt, AllRecorded
    <3> QED
      BY <1>4, <3>3, <3>4, StaysRecorded DEF IInv
  <2> QED
    BY <2>1, <2>2
<1>14. OnlyAt(n)
  BY <1>4, <1>5 DEF OnlyAt, MInv, StoreStep
<1> QED
  BY <1>11, <1>12, <1>13, <1>14, OthersKept DEF MarkersAt
(* put_replicated_message: the marker it stores is the one to be applied next. *)
LEMMA PutMarkers ==
    ASSUME IInv, MInv, NEW n \in Node, Put(n)
    PROVE  MInv'
<1> DEFINE l == sync[n].head.log
           m == Incoming(n)
           s == log[n][l]
           ts == tombs[n][l]
           f == Replicated(s, ts, m.head_id, m.entry)
<1>1. l \in Log /\ m \in Message /\ Known(m, log[l[2]][l])
  BY IncomingKnown DEF Put, At
<1>2. m.head_id \in Nat /\ m.entry \in Entry
  BY <1>1 DEF Message
<1>3. Outcome(s, ts, m.head_id, m.entry) \in {"Inserted", "AlreadyPresent"}
  BY DEF Put, PutOutcome
<1>4. /\ log' = [log EXCEPT ![n][l] = f] /\ tombs' = tombs /\ up' = up
      /\ sync' = [sync EXCEPT ![n].pc = "apply", ![n].outcome = PutOutcome(n)]
  BY DEF Put
<1>5. MarkersAt(n) /\ StoreStep(n) /\ sync[n].pc = "put" /\ sync[n] \in SyncTask
  BY Zenon, PutStep DEF MInv, Put, At, IInv
<1>6. s \in Seq(Entry) /\ Applied(s, ts)
  BY <1>1, <1>5 DEF IInv, Stores, StoreTypes, MarkersAt
<1>7. /\ \A q \in Node : q # n => sync'[q] = sync[q]
      /\ sync'[n].pc = "apply" /\ sync'[n].head = sync[n].head /\ sync'[n].batch = sync[n].batch
  BY <1>4, <1>5 DEF IInv, SyncTask
<1>8. ASSUME NEW d \in Log, NEW h
      PROVE  Applying(n, d, h)' <=> d = l /\ h = m.head_id
  BY <1>7 DEF Applying, Incoming
<1>9. f \in Seq(Entry) /\ Applied(f, ts) /\ Len(f) \in Nat
      /\ \A h \in 1 .. Len(f) : h # m.head_id => h \in 1 .. Len(s)
  <2> DEFINE k == m.head_id
             e == m.entry
  <2>1. k \in Nat /\ e \in Entry /\ Outcome(s, ts, k, e) \in {"Inserted", "AlreadyPresent"}
    BY <1>2, <1>3
  <2>2. f = Replicated(s, ts, k, e)
    OBVIOUS
  <2>3. s \in Seq(Entry) /\ Applied(s, ts) /\ Len(s) \in Nat
    BY <1>6
  <2> HIDE DEF k, e, f, s, ts
  <2>4. /\ k \in 1 .. Len(s) + 1 /\ f \in Seq(Entry)
        /\ k = Len(s) + 1 => f = Placed(s, ts, e)
        /\ k # Len(s) + 1 => /\ Len(f) = Len(s)
                             /\ \A j \in 1 .. Len(s) : j # k => f[j] = s[j]
                             /\ f[k] = s[k] \/ f[k] = Marked(e, ts, k)
    BY <2>1, <2>2, <2>3, ReplicatedFacts
  <2>5. CASE k = Len(s) + 1
    <3>1. Applied(s, ts) => Applied(Placed(s, ts, e), ts)
      BY <2>1, <2>3, PlacedFacts
    <3>2. Len(Placed(s, ts, e)) = Len(s) + 1
      BY <2>1, <2>3, PlacedFacts
    <3> QED
      BY <2>3, <2>4, <2>5, <3>1, <3>2 DEF k
  <2>6. CASE k # Len(s) + 1
    <3>1. Covered(ts, k) => Marked(e, ts, k).deleted
      BY <2>1, MarkedFacts
    <3>2. Applied(f, ts)
      BY <2>3, <2>4, <2>6, <3>1 DEF Applied
    <3> QED
      BY <2>3, <2>4, <2>6, <3>2
  <2> QED
    BY <2>5, <2>6
<1>10. l = Markers(n) => Below(f, s)
  <2> SUFFICES ASSUME l = Markers(n)
               PROVE  Below(f, s)
    OBVIOUS
  <2>1. l[2] = n
    BY MarkersFacts
  <2>2. Known(m, s) /\ Below(s, s) /\ ts \subseteq ts
    BY <1>1, <1>6, <2>1, BelowReflexive
  <2> HIDE DEF l, m, s, ts
  <2> QED
    BY Zenon, <1>1, <1>3, <1>6, <2>2, ReplicatedBelow
<1> HIDE DEF l, m, f
<1>11. /\ log'[n][l] = f /\ \A k \in Log : k # l => log'[n][k] = log[n][k]
       /\ log[n] \in [Log -> Seq(Entry)]
  BY <1>1, <1>4 DEF IInv, Stores, StoreTypes
<1>12. \A k \in Log : Applied(log'[n][k], tombs'[n][k])
  BY <1>4, <1>5, <1>9, <1>11 DEF MarkersAt
<1>13. Applicable(n)'
  <2>1. Below(log'[n][Markers(n)], log[n][Markers(n)])
    BY <1>10, <1>11, MarkersFacts, BelowReflexive
  <2>2. tombs'[n][Markers(n)] = {} /\ Applicable(n)
    BY <1>4, <1>5 DEF MarkersAt, Applicable
  <2> QED
    BY <1>5, <2>1, <2>2, StaysApplicable DEF IInv
<1>14. AllRecorded(n)'
  <2> SUFFICES ASSUME NEW q \in Node, NEW h \in 1 .. Len(log'[n][Markers(q)]),
                      up'[n], ~Applying(n, Markers(q), h)'
               PROVE  RecordedAt(n, q, h)'
    BY DEF AllRecorded
  <2>1. Markers(q) \in Log
    BY MarkersFacts
  <2>2. h \in 1 .. Len(log[n][Markers(q)])
    BY <1>8, <1>9, <1>11, <2>1
  <2>3. up[n] /\ ~Applying(n, Markers(q), h)
    BY <1>4, <1>5 DEF Applying
  <2>4. RecordedAt(n, q, h)
    BY <1>5, <2>2, <2>3 DEF MarkersAt, AllRecorded
  <2> QED
    BY <1>5, <2>2, <2>4, StaysRecorded DEF IInv
<1>15. OnlyAt(n)
  BY Zenon, <1>4, <1>5, <1>7 DEF OnlyAt, MInv, StoreStep
<1> QED
  BY <1>12, <1>13, <1>14, <1>15, OthersKept DEF MarkersAt

(* Applying markers records their ranges, deletes what the ranges cover and
   leaves the markers themselves alone. *)
LEMMA ApplyMarkersFacts ==
    ASSUME IInv, MInv, NEW n \in Node, NEW es, Genuine(es), ApplyMarkers(n, es)
    PROVE  /\ StoreStep(n)
           /\ \A l \in Log : Applied(log'[n][l], tombs'[n][l])
           /\ Applicable(n)'
           /\ \A l \in Log : Len(log'[n][l]) = Len(log[n][l])
           /\ \A e \in es : <<e.range.from, e.range.to>> \in tombs'[n][<<e.range.topic, e.range.origin>>]
<1>1. StoreStep(n)
  BY ApplyMarkersStep DEF IInv
<1>2. ASSUME NEW l \in Log
      PROVE  /\ log'[n][l] = Flagged(log[n][l], RangesFor(es, l))
             /\ tombs'[n][l] = tombs[n][l] \cup RangesFor(es, l)
             /\ log[n][l] \in Seq(Entry) /\ Applied(log[n][l], tombs[n][l])
  BY DEF ApplyMarkers, IInv, Stores, StoreTypes, MInv, MarkersAt
<1>3. ASSUME NEW l \in Log
      PROVE  /\ Applied(log'[n][l], tombs'[n][l]) /\ Len(log'[n][l]) = Len(log[n][l])
             /\ log'[n][l] \in Seq(Entry)
             /\ \A h \in 1 .. Len(log[n][l]) : log'[n][l][h] = Marked(log[n][l][h], RangesFor(es, l), h)
  <2> DEFINE s == log[n][l]
             rs == RangesFor(es, l)
             ts == tombs[n][l]
  <2>1. s \in Seq(Entry) /\ log'[n][l] = Flagged(s, rs) /\ tombs'[n][l] = ts \cup rs /\ Applied(s, ts)
    BY <1>2
  <2> HIDE DEF s, rs, ts
  <2>2. /\ Flagged(s, rs) \in Seq(Entry) /\ Len(Flagged(s, rs)) = Len(s)
        /\ Applied(s, ts) => Applied(Flagged(s, rs), ts \cup rs)
        /\ \A h \in 1 .. Len(s) : Flagged(s, rs)[h] = Marked(s[h], rs, h)
    BY Zenon, <2>1, FlaggedFacts
  <2> QED
    BY <2>1, <2>2 DEF s, rs, ts
<1>4. RangesFor(es, Markers(n)) = {}
  <2>1. \A e \in es : e.range.topic # DeleteTopic
    BY Zenon, PeerSyncAssumption DEF Genuine
  <2> QED
    BY <2>1, MarkersFacts DEF RangesFor
<1>5. Applicable(n)'
  <2> DEFINE d == Markers(n)
  <2>1. d \in Log /\ Applicable(n) /\ RangesFor(es, d) = {}
    BY <1>4, MarkersFacts DEF MInv, MarkersAt
  <2>2. tombs'[n][d] = {}
    BY <1>2, <2>1 DEF Applicable
  <2>3. /\ log[n][d] \in Seq(Entry) /\ Len(log'[n][d]) = Len(log[n][d])
        /\ \A h \in 1 .. Len(log[n][d]) : log'[n][d][h] = Marked(log[n][d][h], {}, h)
    BY Zenon, <1>2, <1>3, <2>1
  <2>4. ASSUME NEW h \in 1 .. Len(log[n][d])
        PROVE  /\ log'[n][d][h].range = log[n][d][h].range
               /\ log'[n][d][h].deleted <=> log[n][d][h].deleted
    <3>1. log[n][d][h] \in Entry
      BY <2>3
    <3> QED
      BY <2>3, <3>1, MarkedFacts DEF Covered
  <2> QED
    BY <2>1, <2>2, <2>3, <2>4 DEF Applicable
<1>6. ASSUME NEW e \in es
      PROVE  <<e.range.from, e.range.to>> \in tombs'[n][<<e.range.topic, e.range.origin>>]
  <2> DEFINE k == <<e.range.topic, e.range.origin>>
  <2>1. k \in Log /\ k[1] = e.range.topic /\ k[2] = e.range.origin
    BY Zenon DEF Genuine, Log
  <2>2. <<e.range.from, e.range.to>> \in RangesFor(es, k)
    BY <2>1 DEF RangesFor
  <2> QED
    BY <1>2, <2>1, <2>2
<1> QED
  BY <1>1, <1>3, <1>5, <1>6
(* The marker a sync task is at is not deleted, was recorded where it was made,
   and is accepted by the store. *)
LEMMA IncomingMarker ==
    ASSUME IInv, MInv, NEW n \in Node, sync[n].pc = "apply", sync[n].head.log[1] = DeleteTopic
    PROVE  LET l == sync[n].head.log
               m == Incoming(n)
           IN  /\ l[2] \in Node /\ l = Markers(l[2])
               /\ m.head_id \in 1 .. Len(log[l[2]][l])
               /\ m.entry.range = log[l[2]][l][m.head_id].range
               /\ ~m.entry.deleted /\ Genuine({m.entry}) /\ CanApply(n, l, m.entry)
<1> DEFINE l == sync[n].head.log
           m == Incoming(n)
           o == l[2]
           e == log[o][l][m.head_id]
<1>1. l \in Log /\ m \in Message /\ Known(m, log[o][l])
  BY IncomingKnown DEF IInv, InFlight
<1>2. o \in Node /\ l = Markers(o)
  BY <1>1, LogFacts DEF Markers
<1>3. m.entry \in Entry /\ m.head_id \in 1 .. Len(log[o][l])
  BY Zenon, <1>1 DEF Message, Known
<1>4. log[o][l] \in Seq(Entry) /\ AnnouncedAt(o) /\ Applicable(o)
  BY <1>1, <1>2 DEF IInv, Stores, StoreTypes, MInv, MarkersAt
<1>5. /\ ~e.deleted /\ e.range.from <= e.range.to /\ e.range.to <= HeadLimit[n]
  BY Zenon, <1>2, <1>3, <1>4 DEF Applicable
<1>6. /\ e.range.origin = o /\ e.range.topic \in Topic
      /\ <<e.range.from, e.range.to>> \in tombs[o][<<e.range.topic, o>>]
  BY Zenon, <1>2, <1>3, <1>4 DEF AnnouncedAt, Markers
<1>7. SameExceptDeleted(m.entry, e) /\ (m.entry.deleted => e.deleted)
  BY Zenon, <1>1 DEF Known
<1> HIDE DEF l, m, o
<1>8. e \in Entry
  BY <1>3, <1>4
<1>9. m.entry.range = e.range
  BY <1>3, <1>7, <1>8, SameFields
<1> HIDE DEF e
<1>10. Genuine({m.entry}) /\ CanApply(n, l, m.entry)
  BY <1>2, <1>5, <1>6, <1>9 DEF Genuine, CanApply, o
<1> QED
  BY Zenon, <1>2, <1>3, <1>5, <1>7, <1>9, <1>10 DEF l, m, o, e

(* apply_control_message on the marker that was just stored. *)
LEMMA ApplyMarkersAt ==
    ASSUME IInv, MInv, NEW n \in Node, Apply(n)
    PROVE  MInv'
<1>0. ASSUME NEW o \in Node, NEW h \in 1 .. Len(log[n][Markers(o)])
      PROVE  /\ log[n][Markers(o)][h] \in Entry
             /\ log[n][Markers(o)][h].range = log[o][Markers(o)][h].range
  <2>1. Stores
    BY DEF IInv
  <2>2. LET e == log[n][Markers(o)][h]
        IN  /\ h \in 1 .. Len(log[o][Markers(o)])
            /\ e \in Entry /\ e.range = log[o][Markers(o)][h].range
            /\ e.deleted => log[o][Markers(o)][h].deleted
            /\ e.range.origin = o /\ e.range.topic \in Topic
            /\ <<e.range.from, e.range.to>> \in tombs[o][<<e.range.topic, o>>]
    BY Zenon, <2>1, StoredMarker
  <2> QED
    BY <2>2
<1> DEFINE l == sync[n].head.log
           m == Incoming(n)
<1>1. /\ sync[n].pc = "apply" /\ up' = up /\ MarkersAt(n)
      /\ \A q \in Node : q # n => sync'[q] = sync[q]
  BY DEF Apply, At, MInv, IInv
<1>2. sync'[n].pc = "put"
  BY DEF Apply, IInv, SyncTask
<1>3. CASE l[1] # DeleteTopic
  <2>1. log' = log /\ tombs' = tombs
    BY <1>3 DEF Apply, IsMarker
  <2>2. ASSUME NEW q \in Node, NEW h
        PROVE  ~Applying(n, Markers(q), h)
    BY <1>3, MarkersFacts DEF Applying
  <2>3. AllRecorded(n)'
    BY Zenon, <1>1, <2>1, <2>2 DEF MarkersAt, AllRecorded, RecordedAt
  <2>4. MarkersAt(n)'
    BY <1>1, <2>1, <2>3 DEF MarkersAt, Applicable
  <2> QED
    BY <1>1, <2>1, <2>4, OthersKept DEF OnlyAt, MInv
<1>4. CASE l[1] = DeleteTopic
  <2>1. /\ l[2] \in Node /\ l = Markers(l[2]) /\ m.entry.range = log[l[2]][l][m.head_id].range
        /\ ~m.entry.deleted /\ Genuine({m.entry})
    BY Zenon, <1>1, <1>4, IncomingMarker
  <2>2. ApplyMarkers(n, {m.entry})
    BY Zenon, <1>4, <2>1 DEF Apply, IsMarker
  <2>3. /\ StoreStep(n)
        /\ \A k \in Log : Applied(log'[n][k], tombs'[n][k])
        /\ Applicable(n)'
        /\ \A k \in Log : Len(log'[n][k]) = Len(log[n][k])
        /\ <<m.entry.range.from, m.entry.range.to>>
              \in tombs'[n][<<m.entry.range.topic, m.entry.range.origin>>]
    BY Zenon, <2>1, <2>2, ApplyMarkersFacts
  <2>4. AllRecorded(n)'
    <3> SUFFICES ASSUME NEW q \in Node, NEW h \in 1 .. Len(log'[n][Markers(q)]), up'[n]
                 PROVE  RecordedAt(n, q, h)'
      BY DEF AllRecorded
    <3>1. Markers(q) \in Log /\ h \in 1 .. Len(log[n][Markers(q)])
      BY <2>3, MarkersFacts
    <3>2. CASE Applying(n, Markers(q), h)
      <4>1. l = Markers(q) /\ m.head_id = h /\ l[2] = q
        BY <3>2, MarkersFacts DEF Applying
      <4>2. m.entry.range = log[q][Markers(q)][h].range
        BY <2>1, <4>1
      <4>3. log[n][Markers(q)][h] \in Entry /\ log[n][Markers(q)][h].range = m.entry.range
        BY <1>0, <3>1, <4>2
      <4>4. /\ log'[n][Markers(q)] \in Seq(Entry)
            /\ Below(log[n][Markers(q)], log'[n][Markers(q)])
        BY <2>3, <3>1 DEF StoreStep
      <4>5. /\ log'[n][Markers(q)][h] \in Entry
            /\ SameExceptDeleted(log[n][Markers(q)][h], log'[n][Markers(q)][h])
        BY <3>1, <4>4 DEF Below
      <4>6. log'[n][Markers(q)][h].range = m.entry.range
        BY <4>3, <4>5, SameFields
      <4> HIDE DEF l, m
      <4> QED
        BY <2>3, <4>6 DEF RecordedAt
    <3>3. CASE ~Applying(n, Markers(q), h)
      <4>1. RecordedAt(n, q, h)
        BY <1>1, <3>1, <3>3 DEF MarkersAt, AllRecorded
      <4> QED
        BY <2>3, <3>1, <4>1, StaysRecorded DEF IInv
    <3> QED
      BY <3>2, <3>3
  <2>5. OnlyAt(n)
    BY <1>1, <2>3 DEF OnlyAt, MInv, StoreStep
  <2> QED
    BY <2>3, <2>4, <2>5, OthersKept DEF MarkersAt
<1> QED
  BY <1>3, <1>4

(* replay_control_messages: whatever the crash interrupted is made up for. *)
LEMMA RestartMarkers ==
    ASSUME IInv, MInv, NEW n \in Node, Restart(n)
    PROVE  MInv'
<1>1. ASSUME NEW o \in Node, NEW h \in 1 .. Len(log[n][Markers(o)])
      PROVE  log[n][Markers(o)][h] \in MarkersIn(n)
  <2>1. /\ h \in 1 .. Len(log[o][Markers(o)])
        /\ log[n][Markers(o)][h].deleted => log[o][Markers(o)][h].deleted
    BY Zenon, StoredMarker DEF IInv
  <2>2. ~log[n][Markers(o)][h].deleted
    BY <2>1 DEF MInv, MarkersAt, Applicable
  <2> QED
    BY <2>2 DEF MarkersIn, Markers
<1>2. Genuine(MarkersIn(n))
  BY StoredGenuine DEF IInv
<1>3. /\ StoreStep(n)
      /\ \A k \in Log : Applied(log'[n][k], tombs'[n][k])
      /\ Applicable(n)'
      /\ \A k \in Log : Len(log'[n][k]) = Len(log[n][k])
      /\ \A e \in MarkersIn(n) : <<e.range.from, e.range.to>>
                                    \in tombs'[n][<<e.range.topic, e.range.origin>>]
  BY <1>2, ApplyMarkersFacts DEF Restart
<1>4. AllRecorded(n)'
  <2> SUFFICES ASSUME NEW q \in Node, NEW h \in 1 .. Len(log'[n][Markers(q)])
               PROVE  RecordedAt(n, q, h)'
    BY DEF AllRecorded
  <2> DEFINE d == Markers(q)
             e == log[n][d][h]
             f == log'[n][d][h]
  <2>1. d \in Log /\ h \in 1 .. Len(log[n][d])
    BY <1>3, MarkersFacts
  <2>2. /\ e \in Entry
        /\ <<e.range.from, e.range.to>> \in tombs'[n][<<e.range.topic, e.range.origin>>]
    BY Zenon, <1>1, <1>3, <2>1, StoredMarker DEF IInv
  <2>3. log'[n][d] \in Seq(Entry) /\ Below(log[n][d], log'[n][d])
    BY <1>3, <2>1 DEF StoreStep
  <2>4. f \in Entry /\ SameExceptDeleted(e, f)
    BY <2>1, <2>3 DEF Below
  <2>5. f.range = e.range
    BY <2>2, <2>4, SameFields
  <2> QED
    BY <2>2, <2>5 DEF RecordedAt
<1>5. OnlyAt(n)
  BY <1>3 DEF OnlyAt, MInv, StoreStep, Restart
<1> QED
  BY <1>3, <1>4, <1>5, OthersKept DEF MarkersAt
----------------------------------------------------------------------------
(* Every step of every node *)
LEMMA MarkersStep ==
    ASSUME RangesFit, IInv, MInv, Next
    PROVE  MInv'
<1> PICK n \in Node :
       \/ \E t \in Topic \cup {DeleteTopic}, o \in Node \cup {Unset} :
             Publish(n, t, o) \/ \E r \in Ranges : DeleteRange(n, t, o, r)
       \/ SyncStep(n)
       \/ Crash(n) \/ Restart(n)
  BY DEF Next
<1>1. ASSUME NEW t \in Topic \cup {DeleteTopic}, NEW o, Publish(n, t, o)
      PROVE  MInv'
  BY <1>1, PublishMarkers
<1>2. ASSUME NEW t \in Topic \cup {DeleteTopic}, NEW o, NEW r \in Ranges, DeleteRange(n, t, o, r)
      PROVE  MInv'
  BY <1>2, DeleteRangeMarkers
<1>3. CASE Put(n)
  BY <1>3, PutMarkers
<1>4. CASE Apply(n)
  BY <1>4, ApplyMarkersAt
<1>5. CASE Restart(n)
  BY <1>5, RestartMarkers
<1>6. CASE Crash(n)
  <2>1. up' = [up EXCEPT ![n] = FALSE] /\ up \in [Node -> BOOLEAN] /\ log' = log /\ tombs' = tombs
    BY <1>6 DEF Crash, MInv
  <2>2. \A m \in Node : m # n => sync'[m] = sync[m]
    BY <1>6 DEF Crash, IInv
  <2>3. up' \in [Node -> BOOLEAN] /\ ~up'[n] /\ \A m \in Node : m # n => up'[m] = up[m]
    BY <2>1
  <2> QED
    BY Zenon, <2>1, <2>2, <2>3, QuietMarkers
<1>7. ASSUME log' = log, tombs' = tombs, up' = up, sync[n].pc # "apply",
             \A m \in Node : m # n => sync'[m] = sync[m]
      PROVE  MInv'
  BY <1>7, QuietMarkers DEF MInv
<1>8. CASE ListHeads(n) \/ NextHead(n) \/ Fetch(n) \/ EndBatch(n)
  BY Zenon, <1>7, <1>8 DEF ListHeads, NextHead, Fetch, EndBatch, At, IInv
<1>9. CASE FinishPeer(n) \/ RpcFails(n) \/ IdentityRefused(n) \/ PeerFailed(n)
  BY <1>7, <1>9 DEF FinishPeer, RpcFails, IdentityRefused, PeerFailed, GiveUpPeer, At, IInv
<1>10. CASE StoreRefuses(n)
  <2>1. sync[n].pc # "apply"
    BY Zenon, <1>10, IncomingMarker DEF StoreRefuses, At, IsMarker
  <2> QED
    BY <1>7, <1>10, <2>1 DEF StoreRefuses, GiveUpPeer, IInv
<1> QED
  BY <1>1, <1>2, <1>3, <1>4, <1>5, <1>6, <1>8, <1>9, <1>10 DEF SyncStep

(* Nothing is stored at first. *)
LEMMA MarkersInitially ==
    ASSUME Init
    PROVE  MInv
<1>1. \A n \in Node, l \in Log : log[n][l] = <<>> /\ tombs[n][l] = {}
  BY DEF Init
<1>2. \A n \in Node, o \in Node : log[n][Markers(o)] = <<>> /\ tombs[n][Markers(o)] = {}
  BY <1>1, MarkersFacts
<1>3. up \in [Node -> BOOLEAN]
  BY DEF Init
<1> QED
  BY <1>1, <1>2, <1>3 DEF MInv, MarkersAt, Applied, Applicable, AllRecorded

(* Nothing happens. *)
LEMMA MarkersStutter ==
    ASSUME MInv, UNCHANGED vars
    PROVE  MInv'
BY Zenon DEF vars, MInv, MarkersAt, Applicable, AllRecorded, RecordedAt, Applying, Incoming

(* If every backend can store the ranges that are deleted, a running daemon has
   carried out every deletion whose marker it stores, but for the one its
   sync_head is about to apply: whatever crashes come between storing and
   applying, and whether the messages or the marker came first. *)
THEOREM MarkersTakeEffect ==
    ASSUME RangesFit
    PROVE  Spec => []MarkersApplied
<1>1. Init => MInv
  BY MarkersInitially
<1>2. IInv /\ MInv /\ [Next]_vars => MInv'
  BY MarkersStep, MarkersStutter
<1>3. IInv /\ MInv => MarkersApplied
  BY RecordedSuffices
<1> QED
  BY <1>1, <1>2, <1>3, Inductive, PTL DEF Spec
----------------------------------------------------------------------------
(***************************************************************************)
(* Power failures                                                          *)
(***************************************************************************)
(* The machines that may lose power are those of replicas: no client of theirs
   publishes or deletes *)
ReplicasLose == Lossy \cap Publisher = {}

(* Nothing is stored in the logs of which n is the origin *)
Silent(n) == \A l \in Log : l[2] = n => log[n][l] = <<>> /\ tombs[n][l] = {}

(* The database that n falls back to is one that its origins know *)
OnDisk(n) ==
    /\ durable[n].log \in [Log -> Seq(Entry)]
    /\ durable[n].tombs \in [Log -> SUBSET (Nat \X Nat)]
    /\ durable[n].states \in RowsOf(n)
    /\ \A l \in Log : /\ Below(durable[n].log[l], log[l[2]][l])
                      /\ durable[n].tombs[l] \subseteq tombs[l[2]][l]
                      /\ l[2] = n => durable[n].log[l] = <<>> /\ durable[n].tombs[l] = {}

PInv == /\ IInv /\ Bookkeeping
        /\ durable = [n \in Lossy |-> durable[n]]
        /\ \A n \in Lossy : Silent(n) /\ OnDisk(n)

----------------------------------------------------------------------------
(* Applying the markers that origins made records nothing in the logs of an
   origin that made none. *)
LEMMA SilentMarkers ==
    ASSUME Stores, NEW n \in Node, Silent(n), NEW es, Genuine(es), ApplyMarkers(n, es)
    PROVE  Silent(n)'
<1> SUFFICES ASSUME NEW l \in Log, l[2] = n
             PROVE  log'[n][l] = <<>> /\ tombs'[n][l] = {}
  BY DEF Silent
<1>1. /\ log[n][l] = <<>> /\ tombs[n][l] = {}
      /\ log'[n][l] = Flagged(log[n][l], RangesFor(es, l))
      /\ tombs'[n][l] = tombs[n][l] \cup RangesFor(es, l)
  BY DEF ApplyMarkers, Stores, StoreTypes, Silent
<1>2. l = <<l[1], n>>
  BY LogFacts
<1>3. RangesFor(es, l) = {}
  <2> SUFFICES ASSUME NEW e \in es, e.range.topic = l[1], e.range.origin = n
               PROVE  FALSE
    BY Zenon DEF RangesFor
  <2>1. <<e.range.from, e.range.to>> \in tombs[n][<<l[1], n>>]
    BY Zenon DEF Genuine
  <2> QED
    BY Zenon, <1>1, <1>2, <2>1
<1>4. log'[n][l] \in Seq(Entry) /\ Len(log'[n][l]) = 0
  <2> DEFINE s == log[n][l]
  <2>1. s \in Seq(Entry) /\ Len(s) = 0
    BY <1>1
  <2> HIDE DEF s
  <2>2. Flagged(s, {}) \in Seq(Entry) /\ Len(Flagged(s, {})) = Len(s)
    BY Zenon, <2>1, FlaggedFacts
  <2> QED
    BY <1>1, <1>3, <2>1, <2>2 DEF s
<1> QED
  BY <1>1, <1>3, <1>4

(* put_replicated_message adds nothing there either: what a peer sends is in
   the log at the origin. *)
LEMMA SilentPut ==
    ASSUME IInv, NEW n \in Node, Silent(n), Put(n)
    PROVE  Silent(n)'
<1> DEFINE l == sync[n].head.log
           m == Incoming(n)
<1>1. l \in Log /\ Known(m, log[l[2]][l])
  BY IncomingKnown DEF Put, At
<1>2. l[2] # n
  <2> SUFFICES ASSUME l[2] = n
               PROVE  FALSE
    OBVIOUS
  <2>1. log[n][l] = <<>>
    BY <1>1 DEF Silent
  <2> QED
    BY <1>1, <2>1 DEF Known
<1>3. tombs' = tombs /\ \A k \in Log : k # l => log'[n][k] = log[n][k]
  BY DEF Put, IInv, Stores, StoreTypes
<1> HIDE DEF l, m
<1> QED
  BY Zenon, <1>2, <1>3 DEF Silent

(* A node whose clients do not write stays without a log of its own. *)
LEMMA SilentStep ==
    ASSUME IInv, Next, NEW n \in Node, n \notin Publisher, Silent(n)
    PROVE  Silent(n)'
<1> PICK m \in Node :
       \/ \E t \in Topic \cup {DeleteTopic}, o \in Node \cup {Unset} :
             Publish(m, t, o) \/ \E r \in Ranges : DeleteRange(m, t, o, r)
       \/ SyncStep(m)
       \/ Crash(m) \/ Restart(m)
  BY DEF Next
<1>1. ASSUME log'[n] = log[n], tombs'[n] = tombs[n]
      PROVE  Silent(n)'
  BY <1>1 DEF Silent
<1>2. CASE log' = log /\ tombs' = tombs
  BY <1>1, <1>2
<1>3. ASSUME StoreStep(m), m # n
      PROVE  Silent(n)'
  BY <1>1, <1>3 DEF StoreStep
<1>4. ASSUME NEW t \in Topic \cup {DeleteTopic}, NEW o, Publish(m, t, o)
      PROVE  Silent(n)'
  <2>1. m \in Publisher /\ StoreStep(m)
    BY Zenon, <1>4, PublishStep DEF IInv, Publish
  <2> QED
    BY <1>3, <2>1
<1>5. ASSUME NEW t \in Topic \cup {DeleteTopic}, NEW o, NEW r \in Ranges, DeleteRange(m, t, o, r)
      PROVE  Silent(n)'
  <2>1. m \in Publisher /\ StoreStep(m)
    BY Zenon, <1>5, DeleteRangeStep DEF IInv, DeleteRange
  <2> QED
    BY <1>3, <2>1
<1>6. CASE Put(m)
  BY <1>3, <1>6, PutStep, SilentPut
<1>7. CASE Apply(m)
  <2>1. CASE m # n
    BY <1>3, <1>7, <2>1, ApplyStep
  <2>2. CASE m = n /\ ~IsMarker(sync[n].head.log, Incoming(n).entry)
    BY <1>2, <1>7, <2>2 DEF Apply
  <2>3. CASE m = n /\ IsMarker(sync[n].head.log, Incoming(n).entry)
    BY Zenon, <1>7, <2>3, ApplyGenuine, SilentMarkers DEF IInv
  <2> QED
    BY <2>1, <2>2, <2>3
<1>8. CASE Restart(m)
  <2>1. Genuine(MarkersIn(m)) /\ ApplyMarkers(m, MarkersIn(m))
    BY Zenon, <1>8, StoredGenuine DEF IInv, Restart
  <2> QED
    BY Zenon, <1>3, <2>1, ApplyMarkersStep, SilentMarkers DEF IInv
<1> QED
  BY Zenon, <1>2, <1>4, <1>5, <1>6, <1>7, <1>8 DEF SyncStep, ListHeads, NextHead, Fetch, EndBatch,
     FinishPeer, RpcFails, IdentityRefused, StoreRefuses, PeerFailed, Crash

(* Logs that only grow stay above what was below them. *)
LEMMA AboveKept ==
    ASSUME StoreTypes, StoreTypes', Kept, NEW l \in Log, NEW s \in Seq(Entry),
           Below(s, log[l[2]][l])
    PROVE  Below(s, log'[l[2]][l])
<1> DEFINE o == l[2]
           t == log[o][l]
           u == log'[o][l]
<1>1. o \in Node
  BY LogFacts
<1>2. t \in Seq(Entry) /\ u \in Seq(Entry)
  BY <1>1 DEF StoreTypes
<1>3. /\ Len(u) >= Len(t)
      /\ \A h \in 1 .. Len(t) : SameExceptDeleted(u[h], t[h]) /\ (t[h].deleted => u[h].deleted)
  BY <1>1 DEF Kept
<1>4. \A d, e : SameExceptDeleted(d, e) => SameExceptDeleted(e, d)
  BY DEF SameExceptDeleted
<1> HIDE DEF t, u, o
<1>5. Below(t, u)
  BY <1>2, <1>3, <1>4 DEF Below
<1>6. Below(s, t)
  BY DEF t, o
<1> QED
  BY <1>2, <1>5, <1>6, BelowTransitive DEF u, o

(* The database on the disk stays behind its origins, whatever the daemons do. *)
LEMMA OnDiskKept ==
    ASSUME PInv, IInv', Kept, durable' = durable, NEW n \in Lossy
    PROVE  OnDisk(n)'
<1>1. OnDisk(n) /\ StoreTypes /\ StoreTypes'
  BY DEF PInv, IInv, Stores
<1>2. ASSUME NEW l \in Log
      PROVE  /\ Below(durable[n].log[l], log'[l[2]][l])
             /\ durable[n].tombs[l] \subseteq tombs'[l[2]][l]
  <2>1. l[2] \in Node /\ durable[n].log[l] \in Seq(Entry)
    BY <1>1, LogFacts DEF OnDisk
  <2>2. Below(durable[n].log[l], log[l[2]][l]) /\ durable[n].tombs[l] \subseteq tombs[l[2]][l]
    BY <1>1 DEF OnDisk
  <2>3. tombs[l[2]][l] \subseteq tombs'[l[2]][l]
    BY <2>1 DEF Kept
  <2> QED
    BY Zenon, <1>1, <2>1, <2>2, <2>3, AboveKept
<1> QED
  BY Zenon, <1>1, <1>2 DEF OnDisk

----------------------------------------------------------------------------
(* The daemon of n loses power: its own logs are as empty on the disk as they
   were, so every log is at its origin what it was. *)
LEMMA OriginsUnharmed ==
    ASSUME PInv, NEW n \in Lossy, PowerFails(n)
    PROVE  /\ n \in Node /\ StoreTypes'
           /\ log'[n] = durable[n].log /\ tombs'[n] = durable[n].tombs
           /\ \A m \in Node : m # n => log'[m] = log[m] /\ tombs'[m] = tombs[m]
           /\ \A l \in Log : log'[l[2]][l] = log[l[2]][l] /\ tombs'[l[2]][l] = tombs[l[2]][l]
<1>1. n \in Node
  BY LossyAssumption
<1>2. /\ durable[n].log \in [Log -> Seq(Entry)]
      /\ durable[n].tombs \in [Log -> SUBSET (Nat \X Nat)]
      /\ \A l \in Log : l[2] = n => durable[n].log[l] = <<>> /\ durable[n].tombs[l] = {}
      /\ \A l \in Log : l[2] = n => log[n][l] = <<>> /\ tombs[n][l] = {}
  BY Zenon DEF PInv, OnDisk, Silent
<1>3. /\ log' = [log EXCEPT ![n] = durable[n].log]
      /\ tombs' = [tombs EXCEPT ![n] = durable[n].tombs] /\ created' = created
  BY Zenon DEF PowerFails
<1> DEFINE dl == durable[n].log
           dt == durable[n].tombs
<1>4. StoreTypes
  BY DEF PInv, IInv, Stores
<1> HIDE DEF dl, dt
<1>5. /\ dl \in [Log -> Seq(Entry)] /\ dt \in [Log -> SUBSET (Nat \X Nat)]
      /\ log' = [log EXCEPT ![n] = dl] /\ tombs' = [tombs EXCEPT ![n] = dt]
  BY <1>2, <1>3 DEF dl, dt
<1>6. log'[n] = dl /\ tombs'[n] = dt /\ StoreTypes'
  BY <1>1, <1>3, <1>4, <1>5 DEF StoreTypes
<1>7. \A m \in Node : m # n => log'[m] = log[m] /\ tombs'[m] = tombs[m]
  BY <1>1, <1>4, <1>5 DEF StoreTypes
<1>8. ASSUME NEW l \in Log
      PROVE  log'[l[2]][l] = log[l[2]][l] /\ tombs'[l[2]][l] = tombs[l[2]][l]
  <2>1. l[2] \in Node
    BY LogFacts
  <2>2. CASE l[2] = n
    BY Zenon, <1>2, <1>6, <2>2 DEF dl, dt
  <2>3. CASE l[2] # n
    BY Zenon, <1>7, <2>1, <2>3
  <2> QED
    BY <2>2, <2>3
<1> QED
  BY <1>1, <1>6, <1>7, <1>8 DEF dl, dt

(* The stores agree with their origins after a power failure as before. *)
LEMMA PowerFailsStores ==
    ASSUME PInv, NEW n \in Lossy, PowerFails(n)
    PROVE  Stores'
<1>1. /\ n \in Node /\ StoreTypes'
      /\ log'[n] = durable[n].log /\ tombs'[n] = durable[n].tombs
      /\ \A m \in Node : m # n => log'[m] = log[m] /\ tombs'[m] = tombs[m]
      /\ \A l \in Log : log'[l[2]][l] = log[l[2]][l] /\ tombs'[l[2]][l] = tombs[l[2]][l]
  BY OriginsUnharmed
<1>2. Stores /\ OnDisk(n)
  BY DEF PInv, IInv
<1>3. ASSUME NEW m \in Node, NEW l \in Log
      PROVE  CopyAt(m, l)'
  <2>1. CASE m = n
    <3>1. Below(durable[n].log[l], log[l[2]][l]) /\ durable[n].tombs[l] \subseteq tombs[l[2]][l]
      BY Zenon, <1>2 DEF OnDisk
    <3> QED
      BY Zenon, <1>1, <2>1, <3>1 DEF CopyAt
  <2>2. CASE m # n
    BY Zenon, <1>1, <1>2, <2>2 DEF Stores, CopyAt
  <2> QED
    BY <2>1, <2>2
<1>4. ASSUME NEW l \in Log
      PROVE  Applied(log'[l[2]][l], tombs'[l[2]][l])
  BY Zenon, <1>1, <1>2 DEF Stores
<1>5. ASSUME NEW o \in Node
      PROVE  AnnouncedAt(o)'
  <2> DEFINE d == <<DeleteTopic, o>>
  <2>1. d \in Log /\ d[2] = o /\ \A t \in Topic : <<t, o>> \in Log /\ <<t, o>>[2] = o
    BY DEF Log
  <2>2. /\ log'[o][d] = log[o][d]
        /\ \A t \in Topic : tombs'[o][<<t, o>>] = tombs[o][<<t, o>>]
    BY Zenon, <1>1, <2>1
  <2>3. AnnouncedAt(o)
    BY <1>2 DEF Stores
  <2> QED
    BY Zenon, <2>2, <2>3 DEF AnnouncedAt
<1> QED
  BY Zenon, <1>1, <1>3, <1>4, <1>5 DEF Stores

(* ... and so do the sync tasks, of which that of n starts over. *)
LEMMA PowerFailsTasks ==
    ASSUME PInv, NEW n \in Lossy, PowerFails(n)
    PROVE  IInv' /\ sync'[n] = AtPeer(1) /\ \A m \in Node : m # n => sync'[m] = sync[m]
<1>1. /\ n \in Node
      /\ \A l \in Log : log'[l[2]][l] = log[l[2]][l] /\ tombs'[l[2]][l] = tombs[l[2]][l]
  BY OriginsUnharmed
<1>2. AtPeer(1) \in SyncTask /\ AtPeer(1).pc = "idle" /\ AtPeer(1).peer = 1
  BY Zenon, AtPeerType
<1> DEFINE x == AtPeer(1)
<1>3. sync' = [sync EXCEPT ![n] = x] /\ sync \in [Node -> SyncTask]
  BY DEF PowerFails, PInv, IInv
<1> HIDE DEF x
<1>4. /\ sync' \in [Node -> SyncTask] /\ sync'[n] = x
      /\ \A m \in Node : m # n => sync'[m] = sync[m]
  BY <1>1, <1>2, <1>3 DEF x
<1>5. ASSUME NEW m \in Node
      PROVE  InFlight(m)'
  <2>1. CASE m = n
    <3>1. Peers[n] # <<>> => 1 \in 1 .. Len(Peers[n])
      BY <1>1, PeerSyncAssumption
    <3> QED
      BY Zenon, <1>2, <1>4, <2>1, <3>1 DEF InFlight, x
  <2>2. CASE m # n
    <3> DEFINE l == sync[m].head.log
    <3>1. InFlight(m) /\ sync'[m] = sync[m]
      BY <1>4, <2>2 DEF PInv, IInv
    <3>2. sync[m].pc \in {"put", "apply"} => log'[l[2]][l] = log[l[2]][l]
      BY <1>1, <3>1 DEF InFlight
    <3> QED
      BY Zenon, <3>1, <3>2 DEF InFlight
  <2> QED
    BY <2>1, <2>2
<1> QED
  BY Zenon, <1>4, <1>5, PowerFailsStores DEF IInv, x

(* A power failure leaves a state that peer sync allows. *)
LEMMA PowerFailsStep ==
    ASSUME PInv, NEW n \in Lossy, PowerFails(n)
    PROVE  PInv'
<1>1. /\ n \in Node
      /\ log'[n] = durable[n].log /\ tombs'[n] = durable[n].tombs
      /\ \A m \in Node : m # n => log'[m] = log[m] /\ tombs'[m] = tombs[m]
      /\ \A l \in Log : log'[l[2]][l] = log[l[2]][l] /\ tombs'[l[2]][l] = tombs[l[2]][l]
  BY OriginsUnharmed
<1>2. IInv' /\ durable' = durable
  BY Zenon, PowerFailsTasks DEF PowerFails
<1>3. ASSUME NEW m \in Lossy
      PROVE  Silent(m)' /\ OnDisk(m)'
  <2>1. Silent(m) /\ OnDisk(m)
    BY DEF PInv
  <2>2. Silent(m)'
    BY Zenon, <1>1, <2>1 DEF Silent
  <2>3. durable'[m] = durable[m]
    BY <1>2
  <2>4. OnDisk(m)'
    BY Zenon, <1>1, <2>1, <2>3 DEF OnDisk
  <2> QED
    BY <2>2, <2>4
<1>4. Rows'
  <2>1. Rows /\ durable[n].states \in RowsOf(n)
    BY Zenon DEF PInv, Bookkeeping, OnDisk
  <2> DEFINE x == durable[n].states
  <2>2. states' = [states EXCEPT ![n] = x]
    BY DEF PowerFails
  <2> HIDE DEF x
  <2>3. x \in RowsOf(n)
    BY <2>1 DEF x
  <2>4. states' \in [Node -> UNION {RowsOf(m) : m \in Node}]
    BY Zenon, <1>1, <2>1, <2>2, <2>3 DEF Rows
  <2>5. \A m \in Node : states'[m] \in RowsOf(m)
    BY Zenon, <2>1, <2>2, <2>3 DEF Rows
  <2> QED
    BY Zenon, <2>4, <2>5 DEF Rows
<1>5. up' \in [Node -> BOOLEAN]
  BY Zenon DEF PowerFails, PInv, Bookkeeping
<1>6. faults' \in 0 .. MaxFaults
  <2>1. faults \in 0 .. MaxFaults /\ faults < MaxFaults /\ faults' = faults + 1 /\ MaxFaults \in Nat
    BY PeerSyncAssumption DEF PowerFails, PInv, Bookkeeping
  <2> QED
    BY <2>1
<1> QED
  BY Zenon, <1>2, <1>3, <1>4, <1>5, <1>6 DEF PInv, Bookkeeping

(* What is written to the disk is a store that its origins know. *)
LEMMA CheckpointStep ==
    ASSUME PInv, NEW n \in Lossy, Checkpoint(n)
    PROVE  PInv'
<1>1. n \in Node /\ UNCHANGED vars /\ IInv' /\ Bookkeeping'
  BY LossyAssumption, Stutter DEF Checkpoint, PInv, vars, Bookkeeping, Rows
<1>2. durable' = [durable EXCEPT ![n] = Database(n)] /\ durable = [m \in Lossy |-> durable[m]]
  BY DEF Checkpoint, PInv
<1>3. /\ durable' = [m \in Lossy |-> durable'[m]] /\ durable'[n] = Database(n)
      /\ \A m \in Lossy : m # n => durable'[m] = durable[m]
  BY Zenon, <1>2
<1>4. ASSUME NEW m \in Lossy
      PROVE  Silent(m)'
  BY <1>1 DEF PInv, Silent, vars
<1>5. OnDisk(n)'
  <2>1. /\ durable'[n].log = log[n] /\ durable'[n].tombs = tombs[n]
        /\ durable'[n].states = states[n]
    BY <1>3 DEF Database
  <2>2. log' = log /\ tombs' = tombs
    BY <1>1 DEF vars
  <2>3. /\ log[n] \in [Log -> Seq(Entry)] /\ tombs[n] \in [Log -> SUBSET (Nat \X Nat)]
        /\ states[n] \in RowsOf(n)
    BY Zenon, <1>1 DEF PInv, IInv, Stores, StoreTypes, Bookkeeping, Rows
  <2>4. \A l \in Log : /\ Below(log[n][l], log[l[2]][l])
                       /\ tombs[n][l] \subseteq tombs[l[2]][l]
                       /\ l[2] = n => log[n][l] = <<>> /\ tombs[n][l] = {}
    BY Zenon, <1>1 DEF PInv, IInv, Stores, CopyAt, Silent
  <2> QED
    BY Zenon, <2>1, <2>2, <2>3, <2>4 DEF OnDisk
<1>6. ASSUME NEW m \in Lossy, m # n
      PROVE  OnDisk(m)'
  <2>1. log' = log /\ tombs' = tombs /\ durable'[m] = durable[m] /\ OnDisk(m)
    BY <1>1, <1>3, <1>6 DEF PInv, vars
  <2> QED
    BY Zenon, <2>1 DEF OnDisk
<1> QED
  BY Zenon, <1>1, <1>3, <1>4, <1>5, <1>6 DEF PInv

(* Every step of daemons, disks and power *)
LEMMA PowerStep ==
    ASSUME ReplicasLose, PInv, [PowerNext]_powerVars
    PROVE  PInv'
<1>1. CASE Next /\ UNCHANGED durable
  <2>1. IInv' /\ Kept /\ Bookkeeping'
    BY <1>1, Step, BookkeepingStep DEF PInv
  <2>2. ASSUME NEW n \in Lossy
        PROVE  Silent(n)' /\ OnDisk(n)'
    <3>1. n \in Node /\ n \notin Publisher /\ IInv /\ Silent(n)
      BY LossyAssumption DEF ReplicasLose, PInv
    <3> QED
      BY <1>1, <2>1, <3>1, SilentStep, OnDiskKept
  <2> QED
    BY Zenon, <1>1, <2>1, <2>2 DEF PInv
<1>2. ASSUME NEW n \in Lossy, Checkpoint(n) \/ PowerFails(n)
      PROVE  PInv'
  BY <1>2, CheckpointStep, PowerFailsStep
<1>3. CASE UNCHANGED powerVars
  <2>1. UNCHANGED vars /\ durable' = durable
    BY <1>3 DEF powerVars, vars
  <2>2. IInv'
    BY <2>1, Stutter DEF PInv
  <2> QED
    BY Zenon, <2>1, <2>2 DEF PInv, vars, Bookkeeping, Rows, Silent, OnDisk
<1> QED
  BY <1>1, <1>2, <1>3 DEF PowerNext

(* Disks hold what the daemons hold at first: nothing. *)
LEMMA PowerInitially ==
    ASSUME PowerInit
    PROVE  PInv
<1>1. Init /\ IInv /\ Bookkeeping
  BY Initially, BookkeepingInitially DEF PowerInit
<1>2. durable = [n \in Lossy |-> Database(n)]
  BY DEF PowerInit
<1>3. durable = [n \in Lossy |-> durable[n]]
  BY Zenon, <1>2
<1>4. \A n \in Node, l \in Log : log[n][l] = <<>> /\ tombs[n][l] = {}
  BY <1>1 DEF Init
<1>5. ASSUME NEW n \in Lossy
      PROVE  Silent(n) /\ OnDisk(n)
  <2>1. n \in Node /\ Silent(n)
    BY <1>4, LossyAssumption DEF Silent
  <2>2. durable[n].log = log[n] /\ durable[n].tombs = tombs[n] /\ durable[n].states = states[n]
    BY <1>2 DEF Database
  <2>3. /\ log[n] \in [Log -> Seq(Entry)] /\ tombs[n] \in [Log -> SUBSET (Nat \X Nat)]
        /\ states[n] \in RowsOf(n)
    BY Zenon, <1>1, <2>1 DEF IInv, Stores, StoreTypes, Bookkeeping, Rows
  <2>4. \A l \in Log : /\ Below(log[n][l], log[l[2]][l])
                       /\ tombs[n][l] \subseteq tombs[l[2]][l]
                       /\ l[2] = n => log[n][l] = <<>> /\ tombs[n][l] = {}
    BY Zenon, <1>1, <2>1 DEF IInv, Stores, CopyAt, Silent
  <2> QED
    BY Zenon, <2>1, <2>2, <2>3, <2>4 DEF OnDisk
<1> QED
  BY Zenon, <1>1, <1>3, <1>5 DEF PInv

(* The invariant of peer sync with power failures *)
THEOREM PowerInductive ==
    ASSUME ReplicasLose
    PROVE  PowerSpec => []PInv
BY PowerInitially, PowerStep, PTL DEF PowerSpec

(* If only replicas lose power, a database that falls back to what was on the
   disk is still a prefix of its origins, and deletes nothing they have not
   deleted: whatever it had passed on to other replicas, and whatever it pulls
   again. *)
THEOREM CopiesSurvivePowerLoss ==
    ASSUME ReplicasLose
    PROVE  PowerSpec => [](ReplicaPrefix /\ DeletedOnlyByOrigin)
<1>1. PInv => ReplicaPrefix /\ DeletedOnlyByOrigin
  BY CopiesSuffice DEF PInv
<1> QED
  BY <1>1, PowerInductive, PTL

(* The stores, the tasks and the rows of peer_sync_states keep their types when
   databases fall back. *)
THEOREM TypesSurvivePowerLoss ==
    ASSUME ReplicasLose
    PROVE  PowerSpec => []TypeOK
<1>1. PInv => TypeOK
  BY TypesSuffice DEF PInv
<1> QED
  BY <1>1, PowerInductive, PTL

----------------------------------------------------------------------------
(* A deletion is on the disk with its tombstone: both are written in one
   transaction *)
DiskApplied == \A n \in Lossy : \A l \in Log : Applied(durable[n].log[l], durable[n].tombs[l])

(* A node that comes back from a power failure has its markers to replay. *)
LEMMA PowerFailsMarkers ==
    ASSUME PInv, MInv, DiskApplied, NEW n \in Lossy, PowerFails(n)
    PROVE  MInv'
<1>1. /\ n \in Node
      /\ log'[n] = durable[n].log /\ tombs'[n] = durable[n].tombs
      /\ \A m \in Node : m # n => log'[m] = log[m] /\ tombs'[m] = tombs[m]
      /\ \A l \in Log : log'[l[2]][l] = log[l[2]][l] /\ tombs'[l[2]][l] = tombs[l[2]][l]
  BY OriginsUnharmed
<1>2. \A m \in Node : m # n => sync'[m] = sync[m]
  BY PowerFailsTasks
<1>3. up' = [up EXCEPT ![n] = FALSE] /\ up \in [Node -> BOOLEAN]
  BY DEF PowerFails, MInv
<1>4. up' \in [Node -> BOOLEAN] /\ ~up'[n] /\ \A m \in Node : m # n => up'[m] = up[m]
  BY <1>1, <1>3
<1>5. \A l \in Log : Applied(log'[n][l], tombs'[n][l])
  BY Zenon, <1>1 DEF DiskApplied
<1>6. Applicable(n)'
  <2>1. Applicable(n) /\ Markers(n) \in Log /\ Markers(n)[2] = n
    BY <1>1, MarkersFacts DEF MInv, MarkersAt
  <2>2. log'[n][Markers(n)] = log[n][Markers(n)] /\ tombs'[n][Markers(n)] = tombs[n][Markers(n)]
    BY Zenon, <1>1, <2>1
  <2> QED
    BY Zenon, <2>1, <2>2 DEF Applicable
<1>7. AllRecorded(n)'
  BY <1>4 DEF AllRecorded
<1>8. OnlyAt(n)
  BY <1>1, <1>2, <1>4 DEF OnlyAt
<1> QED
  BY <1>1, <1>5, <1>6, <1>7, <1>8, OthersKept DEF MarkersAt

(* Markers and disks in every step *)
LEMMA PowerMarkersStep ==
    ASSUME RangesFit, PInv, MInv, DiskApplied, [PowerNext]_powerVars
    PROVE  MInv' /\ DiskApplied'
<1>1. CASE Next /\ UNCHANGED durable
  BY Zenon, <1>1, MarkersStep DEF PInv, DiskApplied
<1>2. ASSUME NEW n \in Lossy, Checkpoint(n)
      PROVE  MInv' /\ DiskApplied'
  <2>1. MInv'
    BY <1>2, MarkersStutter DEF Checkpoint
  <2>2. /\ durable' = [durable EXCEPT ![n] = Database(n)]
        /\ durable = [m \in Lossy |-> durable[m]]
    BY <1>2 DEF Checkpoint, PInv
  <2>3. durable'[n] = Database(n) /\ \A m \in Lossy : m # n => durable'[m] = durable[m]
    BY Zenon, <2>2
  <2>4. durable'[n].log = log[n] /\ durable'[n].tombs = tombs[n]
    BY <2>3 DEF Database
  <2>5. \A l \in Log : Applied(log[n][l], tombs[n][l])
    BY LossyAssumption DEF MInv, MarkersAt
  <2>6. DiskApplied'
    BY Zenon, <2>3, <2>4, <2>5 DEF DiskApplied
  <2> QED
    BY <2>1, <2>6
<1>3. ASSUME NEW n \in Lossy, PowerFails(n)
      PROVE  MInv' /\ DiskApplied'
  <2>1. durable' = durable
    BY <1>3 DEF PowerFails
  <2> QED
    BY Zenon, <1>3, <2>1, PowerFailsMarkers DEF DiskApplied
<1>4. CASE UNCHANGED powerVars
  <2>1. UNCHANGED vars /\ durable' = durable
    BY <1>4 DEF powerVars, vars
  <2> QED
    BY Zenon, <2>1, MarkersStutter DEF DiskApplied
<1> QED
  BY <1>1, <1>2, <1>3, <1>4 DEF PowerNext

(* A replica that lost power carries out, once it runs again, every deletion
   whose marker it stores: a marker may have reached the disk without the
   transaction that applied it, and serve replays it. *)
THEOREM MarkersSurvivePowerLoss ==
    ASSUME ReplicasLose, RangesFit
    PROVE  PowerSpec => []MarkersApplied
<1>1. PowerInit => MInv /\ DiskApplied
  <2> SUFFICES ASSUME PowerInit
               PROVE  MInv /\ DiskApplied
    OBVIOUS
  <2>1. MInv
    BY MarkersInitially DEF PowerInit
  <2>2. \A n \in Lossy : durable[n].log = log[n] /\ durable[n].tombs = tombs[n]
    BY DEF PowerInit, Database
  <2>3. \A n \in Lossy : \A l \in Log : Applied(log[n][l], tombs[n][l])
    BY <2>1, LossyAssumption DEF MInv, MarkersAt
  <2> QED
    BY Zenon, <2>1, <2>2, <2>3 DEF DiskApplied
<1>2. PInv /\ MInv /\ DiskApplied /\ [PowerNext]_powerVars => MInv' /\ DiskApplied'
  BY PowerMarkersStep
<1>3. PInv /\ MInv => MarkersApplied
  BY RecordedSuffices DEF PInv
<1> QED
  BY <1>1, <1>2, <1>3, PowerInductive, PTL DEF PowerSpec

----------------------------------------------------------------------------
(* No machine that may lose power answers at a peer address *)
PeersKeepPower == \A n \in Node : \A i \in DOMAIN Peers[n] : Peers[n][i] \notin Lossy

(* A power failure of n takes nothing from the peers of the others. *)
LEMMA PowerFailsTrack ==
    ASSUME PeersKeepPower, PInv, CatchingUp, NEW n \in Lossy, PowerFails(n)
    PROVE  CatchingUp'
<1>1. n \in Node /\ \A m \in Node : m # n => log'[m] = log[m]
  BY OriginsUnharmed
<1>2. sync'[n] = AtPeer(1) /\ \A m \in Node : m # n => sync'[m] = sync[m]
  BY PowerFailsTasks
<1> SUFFICES ASSUME NEW m \in Node
             PROVE  Track(m, sync'[m], log')
  BY DEF CatchingUp
<1>3. CASE m = n
  <2>1. sync'[m].pc = "idle"
    BY <1>2, <1>3 DEF AtPeer
  <2> QED
    BY Zenon, <2>1 DEF Track
<1>4. CASE m # n
  <2> DEFINE p == Peers[m][sync[m].peer]
  <2>1. sync'[m] = sync[m] /\ log'[m] = log[m] /\ Track(m, sync[m], log)
    BY <1>1, <1>2, <1>4 DEF CatchingUp
  <2>2. Peers[m] # <<>> => log'[p] = log[p]
    <3> HAVE Peers[m] # <<>>
    <3>1. sync[m].peer \in 1 .. Len(Peers[m]) /\ p \in Node
      BY PeerFacts DEF PInv, Peer
    <3>2. sync[m].peer \in DOMAIN Peers[m]
      BY <3>1, PeerSyncAssumption
    <3> QED
      BY Zenon, <1>1, <3>1, <3>2 DEF PeersKeepPower
  <2> QED
    BY Zenon, <2>1, <2>2 DEF Track
<1> QED
  BY <1>3, <1>4

(* If no peer loses power, a replica that does, at any point of a pass, is
   never about to record a peer as synced without all that the peer listed. *)
THEOREM SyncedSurvivesPowerLoss ==
    ASSUME ReplicasLose, PeersKeepPower
    PROVE  PowerSpec => []SuccessMeansCaughtUp
<1>1. PowerInit => CatchingUp
  BY CatchingUpInitially DEF PowerInit
<1>2. PInv /\ PInv' /\ CatchingUp /\ [PowerNext]_powerVars => CatchingUp'
  <2> SUFFICES ASSUME PInv, PInv', CatchingUp, [PowerNext]_powerVars
               PROVE  CatchingUp'
    OBVIOUS
  <2>1. CASE Next
    BY <2>1, CatchingUpStep, Step DEF PInv
  <2>2. ASSUME NEW n \in Lossy, PowerFails(n)
        PROVE  CatchingUp'
    BY <2>2, PowerFailsTrack
  <2>3. CASE sync' = sync /\ log' = log
    BY Zenon, <2>3 DEF CatchingUp
  <2> QED
    BY Zenon, <2>1, <2>2, <2>3 DEF PowerNext, Checkpoint, powerVars, vars
<1> QED
  BY <1>1, <1>2, TrackSuffices, PowerInductive, PTL DEF PowerSpec
=============================================================================
