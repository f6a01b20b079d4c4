--------------------------- MODULE PeerSyncProofs ---------------------------
(***************************************************************************)
(* Peer sync is safe for any number of nodes, any topics, any peers (with  *)
(* cycles, wrong addresses and relays), any batch size and any crashes:    *)
(* copies follow their origin, deletions come from it, and no store ever   *)
(* takes anything back.                                                    *)
(*                                                                         *)
(* Everything rests on one order between logs.  A log is Below another if  *)
(* it is a prefix of it, message for message, and is not ahead of it in    *)
(* deletions.  Every step leaves a store's log above what it was, and      *)
(* every copy is below the log at its origin.                              *)
(***************************************************************************)
EXTENDS PeerSync, TLAPS

Below(s, t) ==
    /\ Len(s) <= Len(t)
    /\ \A h \in 1 .. Len(s) : /\ SameExceptDeleted(s[h], t[h])
                              /\ s[h].deleted => t[h].deleted

(* The message m, on its way to a replica, is in the log t *)
Known(m, t) ==
    /\ m.head_id \in 1 .. Len(t)
    /\ SameExceptDeleted(m.entry, t[m.head_id])
    /\ m.entry.deleted => t[m.head_id].deleted

(* The messages of t that the recorded ranges ts cover are deleted *)
Applied(t, ts) == \A h \in 1 .. Len(t) : Covered(ts, h) => t[h].deleted

----------------------------------------------------------------------------
(* What a marker announces at its origin is recorded there *)
AnnouncedAt(o) ==
    \A h \in 1 .. Len(log[o][<<DeleteTopic, o>>]) :
        LET r == log[o][<<DeleteTopic, o>>][h].range
        IN  r.origin = o /\ r.topic \in Topic /\ <<r.from, r.to>> \in tombs[o][<<r.topic, o>>]

CopyAt(n, l) == Below(log[n][l], log[l[2]][l]) /\ tombs[n][l] \subseteq tombs[l[2]][l]

StoreTypes == /\ log \in [Node -> [Log -> Seq(Entry)]]
              /\ tombs \in [Node -> [Log -> SUBSET (Nat \X Nat)]]
              /\ created \in [Node -> Nat]

Stores == /\ StoreTypes
          /\ \A n \in Node, l \in Log : CopyAt(n, l)
          /\ \A l \in Log : Applied(log[l[2]][l], tombs[l[2]][l])
          /\ \A o \in Node : AnnouncedAt(o)

(* What the sync task of n holds agrees with the origin of the log it syncs *)
InFlight(n) ==
    /\ Peers[n] # <<>> => sync[n].peer \in 1 .. Len(Peers[n])
    /\ sync[n].pc \in {"fetch", "put", "apply"} => sync[n].head.log \in Log
    /\ sync[n].pc = "apply" => sync[n].batch # <<>>
    /\ sync[n].pc \in {"put", "apply"} =>
         \A k \in 1 .. Len(sync[n].batch) :
             Known(sync[n].batch[k], log[sync[n].head.log[2]][sync[n].head.log])

IInv == /\ Stores
        /\ sync \in [Node -> SyncTask]
        /\ \A n \in Node : InFlight(n)
----------------------------------------------------------------------------
(* The flag aside, two entries agree if their other fields do. *)
LEMMA SameFields ==
    ASSUME NEW d \in Entry, NEW e \in Entry
    PROVE  SameExceptDeleted(d, e) <=> d.id = e.id /\ d.range = e.range
BY Zenon DEF SameExceptDeleted, Entry

(* Marking an entry sets its flag and nothing else. *)
LEMMA MarkedFacts ==
    ASSUME NEW e \in Entry, NEW ts, NEW h
    PROVE  /\ Marked(e, ts, h) \in Entry
           /\ Marked(e, ts, h).id = e.id
           /\ Marked(e, ts, h).range = e.range
           /\ Marked(e, ts, h).deleted <=> e.deleted \/ Covered(ts, h)
BY Zenon DEF Marked, Entry, Covered

(* A log is below itself. *)
LEMMA BelowReflexive ==
    ASSUME NEW s \in Seq(Entry)
    PROVE  Below(s, s)
BY DEF Below, SameExceptDeleted

(* What is below a copy is below what the copy is below. *)
LEMMA BelowTransitive ==
    ASSUME NEW s \in Seq(Entry), NEW t \in Seq(Entry), NEW u \in Seq(Entry),
           Below(s, t), Below(t, u)
    PROVE  Below(s, u)
<1>1. Len(s) <= Len(t) /\ Len(t) <= Len(u) /\ Len(s) <= Len(u)
  BY DEF Below
<1>2. ASSUME NEW h \in 1 .. Len(s)
      PROVE  SameExceptDeleted(s[h], u[h]) /\ (s[h].deleted => u[h].deleted)
  <2>1. h \in 1 .. Len(t) /\ h \in 1 .. Len(u)
    BY <1>1
  <2>2. s[h] \in Entry /\ t[h] \in Entry /\ u[h] \in Entry
    BY <2>1
  <2>3. /\ SameExceptDeleted(s[h], t[h]) /\ (s[h].deleted => t[h].deleted)
        /\ SameExceptDeleted(t[h], u[h]) /\ (t[h].deleted => u[h].deleted)
    BY <2>1 DEF Below
  <2> QED
    BY <2>2, <2>3, SameFields
<1> QED
  BY <1>1, <1>2 DEF Below

(* What is in a log stays in it as the log grows. *)
LEMMA KnownGrows ==
    ASSUME NEW m \in Message, NEW t \in Seq(Entry), NEW u \in Seq(Entry),
           Known(m, t), Below(t, u)
    PROVE  Known(m, u)
BY DEF Known, Below, SameExceptDeleted, Message

(* append_message_in_txn *)
LEMMA PlacedFacts ==
    ASSUME NEW s \in Seq(Entry), NEW ts, NEW e \in Entry
    PROVE  /\ Placed(s, ts, e) \in Seq(Entry)
           /\ Below(s, Placed(s, ts, e))
           /\ Len(Placed(s, ts, e)) = Len(s) + 1
           /\ \A h \in 1 .. Len(s) : Placed(s, ts, e)[h] = s[h]
           /\ Placed(s, ts, e)[Len(s) + 1] = Marked(e, ts, Len(s) + 1)
           /\ Applied(s, ts) => Applied(Placed(s, ts, e), ts)
<1> DEFINE x == Marked(e, ts, Len(s) + 1)
<1>1. x \in Entry /\ (Covered(ts, Len(s) + 1) => x.deleted)
  BY MarkedFacts
<1>2. Placed(s, ts, e) = Append(s, x)
  BY DEF Placed
<1>3. /\ Append(s, x) \in Seq(Entry)
      /\ Len(Append(s, x)) = Len(s) + 1
      /\ \A h \in 1 .. Len(s) : Append(s, x)[h] = s[h]
      /\ Append(s, x)[Len(s) + 1] = x
  BY <1>1
<1> HIDE DEF x
<1>4. Below(s, Append(s, x))
  BY <1>3 DEF Below, SameExceptDeleted
<1>5. Applied(s, ts) => Applied(Append(s, x), ts)
  BY <1>1, <1>3 DEF Applied
<1> QED
  BY <1>2, <1>3, <1>4, <1>5 DEF x

(* tombstone_range_in_txn *)
LEMMA FlaggedFacts ==
    ASSUME NEW s \in Seq(Entry), NEW rs, NEW ts
    PROVE  /\ Flagged(s, rs) \in Seq(Entry)
           /\ Below(s, Flagged(s, rs))
           /\ Len(Flagged(s, rs)) = Len(s)
           /\ \A h \in 1 .. Len(s) : Flagged(s, rs)[h] = Marked(s[h], rs, h)
           /\ Applied(s, ts) => Applied(Flagged(s, rs), ts \cup rs)
<1> DEFINE f == Flagged(s, rs)
<1>1. \A h \in 1 .. Len(s) : s[h] \in Entry
  OBVIOUS
<1>2. /\ f \in Seq(Entry)
      /\ Len(f) = Len(s)
      /\ \A h \in 1 .. Len(s) : f[h] = Marked(s[h], rs, h)
  BY <1>1, MarkedFacts DEF Flagged
<1> HIDE DEF f
<1>3. \A h \in 1 .. Len(s) : /\ f[h] \in Entry /\ f[h].id = s[h].id /\ f[h].range = s[h].range
                             /\ f[h].deleted <=> s[h].deleted \/ Covered(rs, h)
  BY <1>1, <1>2, MarkedFacts
<1>4. Below(s, f)
  BY <1>1, <1>2, <1>3, SameFields DEF Below
<1>5. Applied(s, ts) => Applied(f, ts \cup rs)
  BY <1>2, <1>3 DEF Applied, Covered
<1> QED
  BY <1>2, <1>4, <1>5 DEF f

(* put_replicated_message leaves a log above what it was. *)
LEMMA ReplicatedFacts ==
    ASSUME NEW s \in Seq(Entry), NEW ts, NEW h \in Nat, NEW e \in Entry,
           Outcome(s, ts, h, e) \in {"Inserted", "AlreadyPresent"}
    PROVE  LET f == Replicated(s, ts, h, e)
           IN  /\ h \in 1 .. Len(s) + 1
               /\ f \in Seq(Entry)
               /\ Below(s, f)
               /\ h = Len(s) + 1 => f = Placed(s, ts, e)
               /\ h # Len(s) + 1 => /\ Len(f) = Len(s)
                                    /\ \A k \in 1 .. Len(s) : k # h => f[k] = s[k]
                                    /\ f[h] = s[h] \/ f[h] = Marked(e, ts, h)
<1> DEFINE f == Replicated(s, ts, h, e)
           x == Marked(e, ts, h)
<1>0. x \in Entry /\ x.id = e.id /\ x.range = e.range
  BY MarkedFacts
<1>1. h \in 1 .. Len(s) + 1
  BY DEF Outcome
<1>2. CASE h = Len(s) + 1
  <2>1. f = Placed(s, ts, e)
    BY <1>2 DEF Replicated
  <2> QED
    BY <1>1, <1>2, <2>1, PlacedFacts
<1>3. CASE h # Len(s) + 1
  <2>1. h \in 1 .. Len(s)
    BY <1>1, <1>3
  <2>2. s[h] \in Entry
    BY <2>1
  <2>3. CASE Outcome(s, ts, h, e) = "Inserted"
    <3>1. f = [s EXCEPT ![h] = x]
      BY <1>3, <2>1, <2>3 DEF Replicated
    <3>2. SameExceptDeleted(s[h], e) /\ x.deleted
      BY <1>3, <2>1, <2>3 DEF Outcome
    <3> HIDE DEF f, x
    <3>3. /\ f \in Seq(Entry) /\ Len(f) = Len(s) /\ f[h] = x
          /\ \A k \in 1 .. Len(s) : k # h => f[k] = s[k]
      BY <1>0, <2>1, <3>1
    <3>4. SameExceptDeleted(s[h], x)
      BY <1>0, <2>2, <3>2, SameFields
    <3>5. ASSUME NEW k \in 1 .. Len(s)
          PROVE  SameExceptDeleted(s[k], f[k]) /\ (s[k].deleted => f[k].deleted)
      <4>1. SameExceptDeleted(s[k], s[k])
        BY DEF SameExceptDeleted
      <4> QED
        BY <3>2, <3>3, <3>4, <4>1
    <3>6. Below(s, f)
      BY <3>3, <3>5 DEF Below
    <3> QED
      BY <1>1, <1>3, <3>3, <3>6 DEF f, x
  <2>4. CASE Outcome(s, ts, h, e) # "Inserted"
    <3>1. f = s
      BY <1>3, <2>1, <2>4 DEF Replicated
    <3> QED
      BY <1>1, <1>3, <3>1, BelowReflexive
  <2> QED
    BY <2>3, <2>4
<1> QED
  BY <1>2, <1>3

(* A message that was taken is within the log. *)
LEMMA ReplicatedReaches ==
    ASSUME NEW s \in Seq(Entry), NEW ts, NEW h \in Nat, NEW e \in Entry,
           Outcome(s, ts, h, e) \in {"Inserted", "AlreadyPresent"}
    PROVE  h <= Len(Replicated(s, ts, h, e))
<1> DEFINE f == Replicated(s, ts, h, e)
<1>1. /\ h \in 1 .. Len(s) + 1 /\ Len(s) \in Nat
      /\ h = Len(s) + 1 => f = Placed(s, ts, e)
      /\ h # Len(s) + 1 => Len(f) = Len(s)
  BY ReplicatedFacts
<1>2. Len(Placed(s, ts, e)) = Len(s) + 1
  BY PlacedFacts
<1> QED
  BY <1>1, <1>2

(* A copy s of t stays below t when ranges that t knows are deleted in it. *)
LEMMA FlaggedBelow ==
    ASSUME NEW s \in Seq(Entry), NEW t \in Seq(Entry), NEW rs, NEW ts,
           Below(s, t), Applied(t, ts), rs \subseteq ts
    PROVE  Below(Flagged(s, rs), t)
<1> DEFINE f == Flagged(s, rs)
<1>1. /\ f \in Seq(Entry) /\ Len(f) = Len(s) /\ Len(s) <= Len(t)
      /\ \A h \in 1 .. Len(s) : f[h] = Marked(s[h], rs, h)
  BY Zenon, FlaggedFacts DEF Below
<1>2. \A h : Covered(rs, h) => Covered(ts, h)
  BY DEF Covered
<1> HIDE DEF f
<1>3. ASSUME NEW h \in 1 .. Len(s)
      PROVE  SameExceptDeleted(f[h], t[h]) /\ (f[h].deleted => t[h].deleted)
  <2>1. h \in 1 .. Len(t) /\ s[h] \in Entry /\ t[h] \in Entry
    BY <1>1
  <2>2. /\ f[h] \in Entry /\ f[h].id = s[h].id /\ f[h].range = s[h].range
        /\ f[h].deleted <=> s[h].deleted \/ Covered(rs, h)
    BY <1>1, <2>1, MarkedFacts
  <2>3. SameExceptDeleted(s[h], t[h]) /\ (s[h].deleted => t[h].deleted)
    BY DEF Below
  <2>4. Covered(ts, h) => t[h].deleted
    BY <2>1 DEF Applied
  <2> QED
    BY <1>2, <2>1, <2>2, <2>3, <2>4, SameFields
<1> QED
  BY <1>1, <1>3 DEF Below, f

(* ... and when it stores a message of t. *)
LEMMA ReplicatedBelow ==
    ASSUME NEW s \in Seq(Entry), NEW t \in Seq(Entry), NEW rs, NEW ts, NEW m \in Message,
           Below(s, t), Applied(t, ts), rs \subseteq ts, Known(m, t),
           Outcome(s, rs, m.head_id, m.entry) \in {"Inserted", "AlreadyPresent"}
    PROVE  Below(Replicated(s, rs, m.head_id, m.entry), t)
<1> DEFINE h == m.head_id
           f == Replicated(s, rs, h, m.entry)
           x == Marked(m.entry, rs, h)
<1>1. h \in Nat /\ m.entry \in Entry /\ h \in 1 .. Len(t) /\ t[h] \in Entry
  BY DEF Message, Known
<1>2. Covered(rs, h) => t[h].deleted
  <2>1. Covered(rs, h) => Covered(ts, h)
    BY DEF Covered
  <2> QED
    BY <1>1, <2>1 DEF Applied
<1>3. SameExceptDeleted(x, t[h]) /\ (x.deleted => t[h].deleted)
  <2>1. /\ x \in Entry /\ x.id = m.entry.id /\ x.range = m.entry.range
        /\ x.deleted <=> m.entry.deleted \/ Covered(rs, h)
    BY <1>1, MarkedFacts
  <2>2. SameExceptDeleted(m.entry, t[h]) /\ (m.entry.deleted => t[h].deleted)
    BY DEF Known
  <2> QED
    BY <1>1, <1>2, <2>1, <2>2, SameFields
<1>4. /\ h \in 1 .. Len(s) + 1
      /\ h = Len(s) + 1 => /\ Len(f) = Len(s) + 1 /\ f[h] = x
                           /\ \A k \in 1 .. Len(s) : f[k] = s[k]
      /\ h # Len(s) + 1 => /\ Len(f) = Len(s)
                           /\ \A k \in 1 .. Len(s) : k # h => f[k] = s[k]
                           /\ f[h] = s[h] \/ f[h] = x
  BY <1>1, ReplicatedFacts, PlacedFacts
<1> HIDE DEF h, f, x
<1>5. Len(s) \in Nat /\ Len(t) \in Nat /\ Len(s) <= Len(t)
  BY DEF Below
<1>6. Len(f) <= Len(t)
  BY <1>1, <1>4, <1>5
<1>7. ASSUME NEW k \in 1 .. Len(f)
      PROVE  SameExceptDeleted(f[k], t[k]) /\ (f[k].deleted => t[k].deleted)
  <2>1. k \in 1 .. Len(s) => SameExceptDeleted(s[k], t[k]) /\ (s[k].deleted => t[k].deleted)
    BY DEF Below
  <2>2. (f[k] = s[k] /\ k \in 1 .. Len(s)) \/ (f[k] = x /\ k = h)
    BY <1>4, <1>5
  <2> QED
    BY <1>3, <2>1, <2>2
<1> QED
  BY <1>6, <1>7 DEF Below, f, h

(* Storing a message again at its origin leaves the ranges applied. *)
LEMMA ReplicatedApplied ==
    ASSUME NEW s \in Seq(Entry), NEW ts, NEW m \in Message, Applied(s, ts), Known(m, s),
           Outcome(s, ts, m.head_id, m.entry) \in {"Inserted", "AlreadyPresent"}
    PROVE  Applied(Replicated(s, ts, m.head_id, m.entry), ts)
<1> DEFINE h == m.head_id
           f == Replicated(s, ts, h, m.entry)
           x == Marked(m.entry, ts, h)
<1>1. h \in Nat /\ m.entry \in Entry /\ h \in 1 .. Len(s) /\ h # Len(s) + 1
  BY DEF Message, Known
<1>2. Covered(ts, h) => x.deleted
  BY <1>1, MarkedFacts
<1>3. /\ Len(f) = Len(s) /\ \A k \in 1 .. Len(s) : k # h => f[k] = s[k]
      /\ f[h] = s[h] \/ f[h] = x
  BY <1>1, ReplicatedFacts
<1> HIDE DEF h, f, x
<1> QED
  BY <1>1, <1>2, <1>3 DEF Applied, f, h

----------------------------------------------------------------------------
(***************************************************************************)
(* The stores.  In every step at most one node changes its store; what the *)
(* step has to show about that node is StoreStep.                          *)
(***************************************************************************)
StoreStep(n) ==
    /\ log' \in [Node -> [Log -> Seq(Entry)]]
    /\ tombs' \in [Node -> [Log -> SUBSET (Nat \X Nat)]]
    /\ \A m \in Node : m # n => log'[m] = log[m] /\ tombs'[m] = tombs[m]
    /\ \A l \in Log : Below(log[n][l], log'[n][l]) /\ tombs[n][l] \subseteq tombs'[n][l]
    /\ \A l \in Log : l[2] # n => /\ Below(log'[n][l], log[l[2]][l])
                                 /\ tombs'[n][l] \subseteq tombs[l[2]][l]
    /\ \A l \in Log : l[2] = n => Applied(log'[n][l], tombs'[n][l])
    /\ AnnouncedAt(n)'

(* A log is a topic and an origin. *)
LEMMA LogFacts ==
    ASSUME NEW l \in Log
    PROVE  l[2] \in Node /\ l = <<l[1], l[2]>> /\ l[1] \in Topic \cup {DeleteTopic}
BY DEF Log

(* Such a step keeps every copy below its origin and takes nothing back. *)
LEMMA StoreStepSafe ==
    ASSUME Stores, NEW n \in Node, StoreStep(n), created' \in [Node -> Nat]
    PROVE  Stores' /\ Kept
<1> USE DEF Stores, StoreTypes, StoreStep
<1>1. ASSUME NEW m \in Node, NEW l \in Log
      PROVE  /\ log[m][l] \in Seq(Entry) /\ log'[m][l] \in Seq(Entry)
             /\ Below(log[m][l], log'[m][l]) /\ tombs[m][l] \subseteq tombs'[m][l]
  BY Zenon, BelowReflexive
<1>2. ASSUME NEW m \in Node, NEW l \in Log
      PROVE  CopyAt(m, l)'
  <2>1. l[2] \in Node
    BY LogFacts
  <2>2. CASE m = l[2]
    BY <1>1, <2>2, BelowReflexive DEF CopyAt
  <2>3. CASE m # l[2] /\ m = n
    <3>1. log'[l[2]][l] = log[l[2]][l] /\ tombs'[l[2]][l] = tombs[l[2]][l]
      BY <2>1, <2>3
    <3> QED
      BY <2>3, <3>1 DEF CopyAt
  <2>4. CASE m # l[2] /\ m # n
    <3>1. log'[m][l] = log[m][l] /\ tombs'[m][l] = tombs[m][l]
      BY <2>4
    <3>2. Below(log[m][l], log[l[2]][l]) /\ tombs[m][l] \subseteq tombs[l[2]][l]
      BY DEF CopyAt
    <3>3. Below(log[m][l], log'[l[2]][l])
      BY <1>1, <2>1, <3>2, BelowTransitive
    <3> QED
      BY <1>1, <2>1, <3>1, <3>2, <3>3 DEF CopyAt
  <2> QED
    BY <2>2, <2>3, <2>4
<1>3. ASSUME NEW l \in Log
      PROVE  Applied(log[l[2]][l], tombs[l[2]][l])'
  <2>1. l[2] \in Node
    BY LogFacts
  <2> QED
    BY Zenon, <2>1
<1>4. ASSUME NEW o \in Node
      PROVE  AnnouncedAt(o)'
  BY Zenon DEF AnnouncedAt
<1>5. Kept
  <2> SUFFICES ASSUME NEW m \in Node, NEW l \in Log
               PROVE  /\ Len(log'[m][l]) >= Len(log[m][l])
                      /\ \A h \in 1 .. Len(log[m][l]) :
                            /\ SameExceptDeleted(log'[m][l][h], log[m][l][h])
                            /\ log[m][l][h].deleted => log'[m][l][h].deleted
                      /\ tombs[m][l] \subseteq tombs'[m][l]
    BY DEF Kept
  <2>1. Below(log[m][l], log'[m][l]) /\ tombs[m][l] \subseteq tombs'[m][l]
    BY <1>1
  <2>2. Len(log[m][l]) \in Nat /\ Len(log'[m][l]) \in Nat
    BY <1>1
  <2>3. \A d, e : SameExceptDeleted(d, e) => SameExceptDeleted(e, d)
    BY DEF SameExceptDeleted
  <2> QED
    BY <2>1, <2>2, <2>3 DEF Below
<1> QED
  BY <1>2, <1>3, <1>4, <1>5

(* Markers that stay as they are stay announced. *)
LEMMA AnnouncedKept ==
    ASSUME Stores, NEW n \in Node, log' \in [Node -> [Log -> Seq(Entry)]],
           LET d == <<DeleteTopic, n>>
           IN  Len(log'[n][d]) = Len(log[n][d]) /\ Below(log[n][d], log'[n][d]),
           \A l \in Log : tombs[n][l] \subseteq tombs'[n][l]
    PROVE  AnnouncedAt(n)'
<1> DEFINE d == <<DeleteTopic, n>>
<1>1. d \in Log /\ \A t \in Topic : <<t, n>> \in Log
  BY DEF Log
<1>2. log[n][d] \in Seq(Entry) /\ log'[n][d] \in Seq(Entry)
  BY <1>1 DEF Stores, StoreTypes
<1>3. ASSUME NEW h \in 1 .. Len(log'[n][d])
      PROVE  log'[n][d][h].range = log[n][d][h].range
  <2>1. log[n][d][h] \in Entry /\ log'[n][d][h] \in Entry
    BY <1>2
  <2>2. SameExceptDeleted(log[n][d][h], log'[n][d][h])
    BY Zenon DEF Below
  <2> QED
    BY <2>1, <2>2, SameFields
<1>4. AnnouncedAt(n)
  BY DEF Stores
<1> QED
  BY Zenon, <1>1, <1>3, <1>4 DEF AnnouncedAt

(* A step that writes one log of n *)
LEMMA OneLogStep ==
    ASSUME Stores, NEW n \in Node, NEW l \in Log, NEW s \in Seq(Entry),
           log' = [log EXCEPT ![n][l] = s], tombs' = tombs,
           Below(log[n][l], s),
           l[2] # n => Below(s, log[l[2]][l]),
           l[2] = n => Applied(s, tombs[n][l]),
           l = <<DeleteTopic, n>> => Len(s) = Len(log[n][l])
    PROVE  StoreStep(n)
<1> USE DEF Stores, StoreTypes
<1>1. log' \in [Node -> [Log -> Seq(Entry)]] /\ tombs' \in [Node -> [Log -> SUBSET (Nat \X Nat)]]
  OBVIOUS
<1>2. \A m \in Node : m # n => log'[m] = log[m] /\ tombs'[m] = tombs[m]
  OBVIOUS
<1>3. log'[n][l] = s /\ \A k \in Log : k # l => log'[n][k] = log[n][k]
  OBVIOUS
<1>4. ASSUME NEW k \in Log
      PROVE  Below(log[n][k], log'[n][k]) /\ tombs[n][k] \subseteq tombs'[n][k]
  BY <1>3, BelowReflexive
<1>5. ASSUME NEW k \in Log, k[2] # n
      PROVE  Below(log'[n][k], log[k[2]][k]) /\ tombs'[n][k] \subseteq tombs[k[2]][k]
  BY <1>3, <1>5 DEF CopyAt
<1>6. ASSUME NEW k \in Log, k[2] = n
      PROVE  Applied(log'[n][k], tombs'[n][k])
  BY <1>3, <1>6
<1>7. AnnouncedAt(n)'
  <2>1. <<DeleteTopic, n>> \in Log
    BY DEF Log
  <2>2. Len(log'[n][<<DeleteTopic, n>>]) = Len(log[n][<<DeleteTopic, n>>])
    BY Zenon, <1>3, <2>1
  <2> QED
    BY Zenon, <1>1, <1>4, <2>1, <2>2, AnnouncedKept
<1> QED
  BY <1>1, <1>2, <1>4, <1>5, <1>6, <1>7 DEF StoreStep

----------------------------------------------------------------------------
(***************************************************************************)
(* The actions that write a store                                          *)
(***************************************************************************)
(* NewMessage::new makes an entry. *)
LEMMA NewEntryType ==
    ASSUME StoreTypes, NEW n \in Node, NEW r \in Range
    PROVE  NewEntry(n, r) \in Entry /\ NewEntry(n, r).range = r
BY DEF StoreTypes, NewEntry, Entry

(* publish: owned_origin keeps it to the logs of its own node. *)
LEMMA PublishStep ==
    ASSUME Stores, NEW n \in Node, NEW t \in Topic \cup {DeleteTopic}, NEW o, Publish(n, t, o)
    PROVE  StoreStep(n)
<1> DEFINE l == <<t, n>>
           s == Placed(log[n][l], tombs[n][l], NewEntry(n, NoRange))
<1>1. RequestOrigin(n, o) = n /\ t # DeleteTopic
  BY DEF Publish, OwnedOrigin, ApplicationTopic
<1>2. l \in Log /\ l[2] = n /\ l # <<DeleteTopic, n>>
  BY <1>1 DEF Log
<1>3. log' = [log EXCEPT ![n][l] = s] /\ tombs' = tombs
  BY <1>1 DEF Publish
<1>4. NewEntry(n, NoRange) \in Entry
  BY NewEntryType DEF Stores, Range
<1>5. log[n][l] \in Seq(Entry) /\ Applied(log[n][l], tombs[n][l])
  BY <1>2 DEF Stores, StoreTypes
<1>6. s \in Seq(Entry) /\ Below(log[n][l], s) /\ Applied(s, tombs[n][l])
  BY <1>4, <1>5, PlacedFacts
<1> HIDE DEF l, s
<1> QED
  BY Zenon, <1>2, <1>3, <1>6, OneLogStep

(* delete_range: flags, range and marker, in logs of its own node. *)
LEMMA DeleteRangeStep ==
    ASSUME Stores, NEW n \in Node, NEW t \in Topic \cup {DeleteTopic}, NEW o,
           NEW r \in Ranges, DeleteRange(n, t, o, r)
    PROVE  StoreStep(n)
<1> USE DEF Stores, StoreTypes
<1> DEFINE l == <<t, n>>
           d == <<DeleteTopic, n>>
           range == [topic |-> t, origin |-> n, from |-> r[1], to |-> r[2]]
           f == Flagged(log[n][l], {r})
           p == Placed(log[n][d], tombs[n][d], NewEntry(n, range))
<1>1. RequestOrigin(n, o) = n /\ t # DeleteTopic /\ t \in Topic
  BY DEF DeleteRange, OwnedOrigin, ApplicationTopic
<1>2. r \in Nat \X Nat /\ r = <<r[1], r[2]>>
  BY PeerSyncAssumption
<1>3. l \in Log /\ d \in Log /\ l # d /\ l[2] = n /\ d[2] = n
  BY <1>1 DEF Log
<1>4. /\ log' = [log EXCEPT ![n][l] = f, ![n][d] = p]
      /\ tombs' = [tombs EXCEPT ![n][l] = tombs[n][l] \cup {r}]
  BY <1>1, <1>3 DEF DeleteRange
<1>5. range \in Range
  BY <1>1, <1>2 DEF Range
<1>6. NewEntry(n, range) \in Entry /\ NewEntry(n, range).range = range
  BY <1>5, NewEntryType
<1>7. \A k \in {l, d} : log[n][k] \in Seq(Entry) /\ Applied(log[n][k], tombs[n][k])
  BY Zenon, <1>3
<1>8. f \in Seq(Entry) /\ Below(log[n][l], f) /\ Applied(f, tombs[n][l] \cup {r})
  BY Zenon, <1>7, FlaggedFacts
<1>9. /\ p \in Seq(Entry) /\ Below(log[n][d], p) /\ Applied(p, tombs[n][d])
      /\ Len(p) = Len(log[n][d]) + 1
      /\ \A h \in 1 .. Len(log[n][d]) : p[h] = log[n][d][h]
      /\ p[Len(p)].range = range
  <2> DEFINE e == NewEntry(n, range)
             s == log[n][d]
             ts == tombs[n][d]
  <2>1. p = Placed(s, ts, e) /\ e \in Entry /\ e.range = range
    BY <1>6
  <2>2. s \in Seq(Entry) /\ Applied(s, ts) /\ Len(s) \in Nat
    BY <1>7
  <2> HIDE DEF p, e, s, ts, range
  <2>3. /\ p \in Seq(Entry) /\ Below(s, p) /\ Applied(p, ts)
        /\ Len(p) = Len(s) + 1
        /\ \A h \in 1 .. Len(s) : p[h] = s[h]
        /\ p[Len(s) + 1] = Marked(e, ts, Len(s) + 1)
    BY <2>1, <2>2, PlacedFacts
  <2>4. Marked(e, ts, Len(s) + 1).range = range
    BY <2>1, MarkedFacts
  <2> QED
    BY Zenon, <2>3, <2>4 DEF s, ts
<1> HIDE DEF f, p, l, d
<1>10. /\ log'[n][l] = f /\ log'[n][d] = p
       /\ \A k \in Log : k # l /\ k # d => log'[n][k] = log[n][k]
       /\ tombs'[n][l] = tombs[n][l] \cup {r}
       /\ \A k \in Log : k # l => tombs'[n][k] = tombs[n][k]
  BY <1>3, <1>4
<1>11. log' \in [Node -> [Log -> Seq(Entry)]] /\ tombs' \in [Node -> [Log -> SUBSET (Nat \X Nat)]]
  BY <1>2, <1>3, <1>4, <1>8, <1>9
<1>12. \A m \in Node : m # n => log'[m] = log[m] /\ tombs'[m] = tombs[m]
  BY <1>4
<1>13. ASSUME NEW k \in Log
       PROVE  Below(log[n][k], log'[n][k]) /\ tombs[n][k] \subseteq tombs'[n][k]
  BY Zenon, <1>8, <1>9, <1>10, BelowReflexive
<1>14. ASSUME NEW k \in Log, k[2] # n
       PROVE  Below(log'[n][k], log[k[2]][k]) /\ tombs'[n][k] \subseteq tombs[k[2]][k]
  BY Zenon, <1>3, <1>10, <1>14 DEF CopyAt
<1>15. ASSUME NEW k \in Log, k[2] = n
       PROVE  Applied(log'[n][k], tombs'[n][k])
  BY Zenon, <1>3, <1>8, <1>9, <1>10, <1>15
<1>16. AnnouncedAt(n)'
  <2> SUFFICES ASSUME NEW h \in 1 .. Len(p)
               PROVE  LET q == p[h].range
                      IN  q.origin = n /\ q.topic \in Topic /\ <<q.from, q.to>> \in tombs'[n][<<q.topic, n>>]
    BY Zenon, <1>10 DEF AnnouncedAt, d
  <2>1. CASE h = Len(p)
    <3>1. p[h].range = range
      BY <1>9, <2>1
    <3>2. range.origin = n /\ range.topic = t /\ <<range.from, range.to>> = r
      BY <1>2
    <3>3. r \in tombs'[n][<<t, n>>]
      BY <1>10 DEF l
    <3> HIDE DEF range
    <3> QED
      BY Zenon, <1>1, <3>1, <3>2, <3>3
  <2>2. CASE h # Len(p)
    <3>1. h \in 1 .. Len(log[n][d]) /\ p[h] = log[n][d][h]
      BY <1>3, <1>9, <2>2
    <3>2. LET q == log[n][d][h].range
          IN  q.origin = n /\ q.topic \in Topic /\ <<q.from, q.to>> \in tombs[n][<<q.topic, n>>]
      BY Zenon, <3>1 DEF AnnouncedAt, d
    <3>3. \A u \in Topic : <<u, n>> \in Log
      BY DEF Log
    <3> QED
      BY <1>13, <3>1, <3>2, <3>3
  <2> QED
    BY <2>1, <2>2
<1> QED
  BY <1>11, <1>12, <1>13, <1>14, <1>15, <1>16 DEF StoreStep

(* Markers whose ranges are recorded at their origin *)
Genuine(es) == \A e \in es : LET r == e.range
                             IN  /\ r.origin \in Node /\ r.topic \in Topic
                                 /\ <<r.from, r.to>> \in tombs[r.origin][<<r.topic, r.origin>>]

(* apply_control_message on markers that their origin made. *)
LEMMA ApplyMarkersStep ==
    ASSUME Stores, NEW n \in Node, NEW es, Genuine(es), ApplyMarkers(n, es)
    PROVE  StoreStep(n)
<1> USE DEF Stores, StoreTypes
<1>1. ASSUME NEW l \in Log
      PROVE  RangesFor(es, l) \subseteq tombs[l[2]][l] /\ tombs[l[2]][l] \subseteq Nat \X Nat
  <2>1. l[2] \in Node /\ l = <<l[1], l[2]>>
    BY LogFacts
  <2> QED
    BY Zenon, <2>1 DEF RangesFor, Genuine
<1>2. /\ log' = [log EXCEPT ![n] = [l \in Log |-> Flagged(log[n][l], RangesFor(es, l))]]
      /\ tombs' = [tombs EXCEPT ![n] = [l \in Log |-> tombs[n][l] \cup RangesFor(es, l)]]
  BY DEF ApplyMarkers
<1>3. ASSUME NEW l \in Log
      PROVE  /\ log'[n][l] = Flagged(log[n][l], RangesFor(es, l))
             /\ tombs'[n][l] = tombs[n][l] \cup RangesFor(es, l)
  BY <1>2
<1>4. \A m \in Node : m # n => log'[m] = log[m] /\ tombs'[m] = tombs[m]
  BY <1>2
<1>5. ASSUME NEW l \in Log
      PROVE  /\ Flagged(log[n][l], RangesFor(es, l)) \in Seq(Entry)
             /\ Len(log'[n][l]) = Len(log[n][l])
             /\ Below(log[n][l], log'[n][l]) /\ tombs[n][l] \subseteq tombs'[n][l]
             /\ Applied(log[n][l], tombs[n][l]) => Applied(log'[n][l], tombs'[n][l])
  <2> DEFINE s == log[n][l]
             rs == RangesFor(es, l)
             ts == tombs[n][l]
  <2>1. s \in Seq(Entry)
    OBVIOUS
  <2>2. log'[n][l] = Flagged(s, rs) /\ tombs'[n][l] = ts \cup rs
    BY <1>3
  <2> HIDE DEF s, rs, ts
  <2>3. /\ Flagged(s, rs) \in Seq(Entry) /\ Len(Flagged(s, rs)) = Len(s)
        /\ Below(s, Flagged(s, rs))
        /\ Applied(s, ts) => Applied(Flagged(s, rs), ts \cup rs)
    BY <2>1, FlaggedFacts
  <2> QED
    BY <2>2, <2>3 DEF s, rs, ts
<1>6. log' \in [Node -> [Log -> Seq(Entry)]] /\ tombs' \in [Node -> [Log -> SUBSET (Nat \X Nat)]]
  <2>1. [l \in Log |-> Flagged(log[n][l], RangesFor(es, l))] \in [Log -> Seq(Entry)]
    BY <1>5
  <2>2. \A l \in Log : tombs[n][l] \cup RangesFor(es, l) \in SUBSET (Nat \X Nat)
    BY <1>1
  <2>3. [l \in Log |-> tombs[n][l] \cup RangesFor(es, l)] \in [Log -> SUBSET (Nat \X Nat)]
    BY <2>2
  <2> QED
    BY <1>2, <2>1, <2>3
<1>7. ASSUME NEW l \in Log, l[2] # n
      PROVE  Below(log'[n][l], log[l[2]][l]) /\ tombs'[n][l] \subseteq tombs[l[2]][l]
  <2>1. l[2] \in Node
    BY LogFacts
  <2>2. /\ log[n][l] \in Seq(Entry) /\ log[l[2]][l] \in Seq(Entry)
        /\ Below(log[n][l], log[l[2]][l]) /\ tombs[n][l] \subseteq tombs[l[2]][l]
        /\ Applied(log[l[2]][l], tombs[l[2]][l])
    BY <2>1 DEF CopyAt
  <2>3. Below(Flagged(log[n][l], RangesFor(es, l)), log[l[2]][l])
    BY <1>1, <2>2, FlaggedBelow
  <2> QED
    BY <1>1, <1>3, <2>2, <2>3
<1>8. ASSUME NEW l \in Log, l[2] = n
      PROVE  Applied(log'[n][l], tombs'[n][l])
  BY <1>5, <1>8
<1>9. AnnouncedAt(n)'
  <2>1. <<DeleteTopic, n>> \in Log
    BY DEF Log
  <2> QED
    BY Zenon, <1>5, <1>6, <2>1, AnnouncedKept
<1> QED
  BY <1>4, <1>5, <1>6, <1>7, <1>8, <1>9 DEF StoreStep

(* The message the sync task is at is one of its origin. *)
LEMMA IncomingKnown ==
    ASSUME IInv, NEW n \in Node, sync[n].pc \in {"put", "apply"}, sync[n].batch # <<>>
    PROVE  LET l == sync[n].head.log
               m == Incoming(n)
           IN  /\ l \in Log /\ m \in Message
               /\ Known(m, log[l[2]][l])
<1>1. sync[n] \in SyncTask
  BY DEF IInv
<1>2. sync[n].batch \in Seq(Message)
  BY <1>1 DEF SyncTask
<1>3. Incoming(n) = sync[n].batch[1] /\ 1 \in 1 .. Len(sync[n].batch)
  BY <1>2 DEF Incoming
<1> QED
  BY <1>2, <1>3 DEF IInv, InFlight

(* put_replicated_message with a message its origin has. *)
LEMMA PutStep ==
    ASSUME IInv, NEW n \in Node, Put(n)
    PROVE  StoreStep(n)
<1> DEFINE l == sync[n].head.log
           m == Incoming(n)
           o == l[2]
           s == log[n][l]
           t == log[o][l]
           f == Replicated(s, tombs[n][l], m.head_id, m.entry)
<1>1. l \in Log /\ m \in Message /\ Known(m, t)
  BY IncomingKnown DEF Put, At
<1>2. o \in Node
  BY <1>1, LogFacts
<1>3. /\ s \in Seq(Entry) /\ t \in Seq(Entry) /\ Below(s, t)
      /\ tombs[n][l] \subseteq tombs[o][l] /\ Applied(t, tombs[o][l])
  BY Zenon, <1>1, <1>2 DEF IInv, Stores, StoreTypes, CopyAt
<1>4. Outcome(s, tombs[n][l], m.head_id, m.entry) \in {"Inserted", "AlreadyPresent"}
  BY DEF Put, PutOutcome
<1>5. log' = [log EXCEPT ![n][l] = f] /\ tombs' = tombs
  BY DEF Put
<1>6. m.head_id \in Nat /\ m.entry \in Entry
  BY <1>1 DEF Message
<1> HIDE DEF l, m
<1>7. f \in Seq(Entry) /\ Below(s, f)
  BY <1>3, <1>4, <1>6, ReplicatedFacts
<1>8. Below(f, t)
  BY Zenon, <1>1, <1>3, <1>4, ReplicatedBelow
<1>9. o = n => Applied(f, tombs[n][l]) /\ Len(f) = Len(s)
  <2> SUFFICES ASSUME o = n
               PROVE  Applied(f, tombs[n][l]) /\ Len(f) = Len(s)
    OBVIOUS
  <2>1. Known(m, s) /\ Applied(s, tombs[n][l])
    BY <1>1, <1>3
  <2>2. m.head_id # Len(s) + 1
    BY <1>3, <2>1 DEF Known
  <2> QED
    BY <1>1, <1>3, <1>4, <1>6, <2>1, <2>2, ReplicatedApplied, ReplicatedFacts
<1>10. l = <<DeleteTopic, n>> => o = n
  OBVIOUS
<1> HIDE DEF f
<1> QED
  BY Zenon, <1>1, <1>5, <1>7, <1>8, <1>9, <1>10, OneLogStep DEF IInv

(* A step that writes no store. *)
LEMMA StoresUnchanged ==
    ASSUME Stores, NEW n \in Node, log' = log, tombs' = tombs
    PROVE  StoreStep(n)
<1>1. \A l \in Log : log[n][l] \in Seq(Entry)
  BY DEF Stores, StoreTypes
<1>2. \A l \in Log : Below(log[n][l], log'[n][l]) /\ tombs[n][l] \subseteq tombs'[n][l]
  BY <1>1, BelowReflexive
<1>3. \A l \in Log : l[2] # n => /\ Below(log'[n][l], log[l[2]][l])
                               /\ tombs'[n][l] \subseteq tombs[l[2]][l]
  BY DEF Stores, CopyAt
<1>4. \A l \in Log : l[2] = n => Applied(log'[n][l], tombs'[n][l])
  BY DEF Stores
<1>5. AnnouncedAt(n)'
  BY DEF Stores, AnnouncedAt
<1>6. log' \in [Node -> [Log -> Seq(Entry)]] /\ tombs' \in [Node -> [Log -> SUBSET (Nat \X Nat)]]
  BY DEF Stores, StoreTypes
<1> QED
  BY <1>2, <1>3, <1>4, <1>5, <1>6 DEF StoreStep

(* The marker sync_head has just stored is one that its origin made. *)
LEMMA ApplyGenuine ==
    ASSUME IInv, NEW n \in Node, Apply(n), IsMarker(sync[n].head.log, Incoming(n).entry)
    PROVE  Genuine({Incoming(n).entry}) /\ ApplyMarkers(n, {Incoming(n).entry})
<1> DEFINE l == sync[n].head.log
           m == Incoming(n)
           o == l[2]
<1>1. l \in Log /\ m \in Message /\ Known(m, log[o][l])
  BY IncomingKnown DEF Apply, At, IInv, InFlight
<1>2. ApplyMarkers(n, {m.entry})
  BY DEF Apply
<1>3. o \in Node /\ l = <<DeleteTopic, o>>
  BY <1>1, LogFacts DEF IsMarker
<1>4. log[o][l] \in Seq(Entry) /\ AnnouncedAt(o)
  BY <1>1, <1>3 DEF IInv, Stores, StoreTypes
<1>5. m.entry.range = log[o][l][m.head_id].range
  <2>0. m.entry \in Entry /\ m.head_id \in 1 .. Len(log[o][l])
    BY Zenon, <1>1 DEF Message, Known
  <2> HIDE DEF m, l, o
  <2>1. m.entry \in Entry /\ log[o][l][m.head_id] \in Entry
    BY <1>4, <2>0
  <2> QED
    BY <1>1, <2>1, SameFields DEF Known
<1> HIDE DEF m, l, o
<1>6. Genuine({m.entry})
  BY Zenon, <1>1, <1>3, <1>4, <1>5 DEF Genuine, AnnouncedAt, Known
<1> QED
  BY <1>2, <1>6 DEF m

(* apply_control_message on the marker sync_head has just stored. *)
LEMMA ApplyStep ==
    ASSUME IInv, NEW n \in Node, Apply(n)
    PROVE  StoreStep(n)
<1>1. CASE ~IsMarker(sync[n].head.log, Incoming(n).entry)
  BY <1>1, StoresUnchanged DEF Apply, IInv
<1>2. CASE IsMarker(sync[n].head.log, Incoming(n).entry)
  BY Zenon, <1>2, ApplyGenuine, ApplyMarkersStep DEF IInv
<1> QED
  BY <1>1, <1>2

(* The markers a store holds are those that their origins made. *)
LEMMA StoredGenuine ==
    ASSUME Stores, NEW n \in Node
    PROVE  Genuine(MarkersIn(n))
<1>1. ASSUME NEW e \in MarkersIn(n)
      PROVE  LET r == e.range
             IN  /\ r.origin \in Node /\ r.topic \in Topic
                 /\ <<r.from, r.to>> \in tombs[r.origin][<<r.topic, r.origin>>]
  <2>1. PICK o \in Node : \E h \in 1 .. Len(log[n][<<DeleteTopic, o>>]) : e = log[n][<<DeleteTopic, o>>][h]
    BY DEF MarkersIn
  <2> DEFINE d == <<DeleteTopic, o>>
  <2>2. PICK h \in 1 .. Len(log[n][d]) : e = log[n][d][h]
    BY <2>1
  <2>3. d \in Log /\ d[2] = o
    BY DEF Log
  <2>4. /\ log[n][d] \in Seq(Entry) /\ log[o][d] \in Seq(Entry)
        /\ Below(log[n][d], log[o][d])
    BY <2>3 DEF Stores, StoreTypes, CopyAt
  <2>5. h \in 1 .. Len(log[o][d])
    BY <2>4 DEF Below
  <2>6. log[o][d][h].range = e.range
    <3>1. e \in Entry /\ log[o][d][h] \in Entry
      BY <2>2, <2>4, <2>5
    <3>2. SameExceptDeleted(e, log[o][d][h])
      BY <2>2, <2>4 DEF Below
    <3> QED
      BY <3>1, <3>2, SameFields
  <2>7. AnnouncedAt(o)
    BY DEF Stores
  <2> QED
    BY Zenon, <2>5, <2>6, <2>7 DEF AnnouncedAt
<1> QED
  BY Zenon, <1>1 DEF Genuine

(* replay_control_messages on the markers a store holds. *)
LEMMA RestartStep ==
    ASSUME Stores, NEW n \in Node, Restart(n)
    PROVE  StoreStep(n)
BY StoredGenuine, ApplyMarkersStep DEF Restart

----------------------------------------------------------------------------
(***************************************************************************)
(* The sync tasks                                                          *)
(***************************************************************************)
(* What a sync task holds stays at the origin while the stores grow. *)
LEMMA HeldKept ==
    ASSUME IInv, Stores', Kept, NEW n \in Node, sync[n].pc \in {"put", "apply"}
    PROVE  \A k \in 1 .. Len(sync[n].batch) :
              Known(sync[n].batch[k], log'[sync[n].head.log[2]][sync[n].head.log])
<1> DEFINE l == sync[n].head.log
           b == sync[n].batch
<1>1. b \in Seq(Message) /\ l \in Log /\ \A k \in 1 .. Len(b) : Known(b[k], log[l[2]][l])
  BY DEF IInv, SyncTask, InFlight
<1> SUFFICES ASSUME NEW k \in 1 .. Len(b)
             PROVE  Known(b[k], log'[l[2]][l])
  OBVIOUS
<1> HIDE DEF l, b
<1>2. l[2] \in Node
  BY <1>1, LogFacts
<1> DEFINE s == log[l[2]][l]
           t == log'[l[2]][l]
<1>3. s \in Seq(Entry) /\ t \in Seq(Entry)
  BY <1>1, <1>2 DEF IInv, Stores, StoreTypes
<1>4. /\ Len(t) >= Len(s)
      /\ \A h \in 1 .. Len(s) : SameExceptDeleted(t[h], s[h]) /\ (s[h].deleted => t[h].deleted)
  BY <1>1, <1>2 DEF Kept
<1>5. \A d, e : SameExceptDeleted(d, e) => SameExceptDeleted(e, d)
  BY DEF SameExceptDeleted
<1> HIDE DEF s, t
<1>6. Below(s, t)
  BY <1>3, <1>4, <1>5 DEF Below
<1>7. b[k] \in Message /\ Known(b[k], s)
  BY <1>1 DEF s
<1> QED
  BY <1>3, <1>6, <1>7, KnownGrows DEF t

(* ... and so does a task that does not move. *)
LEMMA TaskKept ==
    ASSUME IInv, Stores', Kept, NEW n \in Node, sync'[n] = sync[n]
    PROVE  InFlight(n)'
BY HeldKept DEF IInv, InFlight

(* A step of n is safe if its store step and its new task are. *)
LEMMA TaskStep ==
    ASSUME IInv, NEW n \in Node, StoreStep(n), created' \in [Node -> Nat],
           sync' \in [Node -> SyncTask],
           \A m \in Node : m # n => sync'[m] = sync[m],
           sync'[n] = sync[n] \/ InFlight(n)'
    PROVE  IInv' /\ Kept
<1>1. Stores' /\ Kept
  BY StoreStepSafe DEF IInv
<1>2. ASSUME NEW m \in Node
      PROVE  InFlight(m)'
  BY <1>1, TaskKept
<1> QED
  BY <1>1, <1>2 DEF IInv

(* A step of n that leaves its store as it is and its task as x *)
LEMMA QuietStep ==
    ASSUME IInv, NEW n \in Node, NEW x \in SyncTask,
           log' = log, tombs' = tombs, created' = created, sync' = [sync EXCEPT ![n] = x],
           Peers[n] # <<>> => x.peer \in 1 .. Len(Peers[n]),
           x.pc # "apply", x.pc \in {"fetch", "put"} => x.head.log \in Log,
           x.pc = "put" => \A k \in 1 .. Len(x.batch) :
                              Known(x.batch[k], log[x.head.log[2]][x.head.log])
    PROVE  IInv' /\ Kept
<1>1. StoreStep(n) /\ created' \in [Node -> Nat]
  BY StoresUnchanged DEF IInv, Stores, StoreTypes
<1>2. sync' \in [Node -> SyncTask] /\ sync'[n] = x /\ \A m \in Node : m # n => sync'[m] = sync[m]
  BY DEF IInv
<1>3. InFlight(n)'
  BY <1>2 DEF InFlight
<1> QED
  BY <1>1, <1>2, <1>3, TaskStep

(* The sync task between two peers. *)
LEMMA AtPeerType ==
    ASSUME NEW k \in Nat
    PROVE  /\ AtPeer(k) \in SyncTask /\ AtPeer(k).pc = "idle" /\ AtPeer(k).peer = k
           /\ LET x == [AtPeer(k) EXCEPT !.pc = "failed"]
              IN  x \in SyncTask /\ x.pc = "failed" /\ x.peer = k
<1>1. <<>> \in Seq(Message)
  OBVIOUS
<1> QED
  BY Zenon, <1>1 DEF AtPeer, SyncTask

(* The address the sync task is at, and the one after it, are configured. *)
LEMMA PeerFacts ==
    ASSUME IInv, NEW n \in Node, Peers[n] # <<>>
    PROVE  /\ sync[n].peer \in 1 .. Len(Peers[n]) /\ NextPeer(n) \in 1 .. Len(Peers[n])
           /\ Peer(n) \in Node
<1>1. Peers[n] \in Seq(Node) /\ Len(Peers[n]) \in Nat
  BY PeerSyncAssumption
<1>2. sync[n].peer \in 1 .. Len(Peers[n])
  BY DEF IInv, InFlight
<1> QED
  BY <1>1, <1>2 DEF NextPeer, Peer

(* ListHeads writes no store. *)
LEMMA ListHeadsStep ==
    ASSUME IInv, NEW n \in Node, ListHeads(n)
    PROVE  IInv' /\ Kept
<1> DEFINE hs == HeadsAt(Peer(n))
           x == [sync[n] EXCEPT !.pc = "next", !.listed = hs, !.todo = hs]
<1>1. sync[n] \in SyncTask /\ Peers[n] # <<>>
  BY DEF IInv, ListHeads, At
<1>2. sync' = [sync EXCEPT ![n] = x]
  BY Zenon DEF ListHeads, IInv
<1>3. hs \subseteq TopicHead
  <2>1. Peer(n) \in Node
    BY <1>1, PeerFacts
  <2>2. \A l \in Log : log[Peer(n)][l] \in Seq(Entry) /\ Len(log[Peer(n)][l]) \in Nat
    BY <2>1 DEF IInv, Stores, StoreTypes
  <2> QED
    BY <2>2 DEF HeadsAt, TopicHead
<1> HIDE DEF hs
<1>4. x \in SyncTask /\ x.pc = "next" /\ x.peer = sync[n].peer
  BY Zenon, <1>1, <1>3 DEF SyncTask
<1> HIDE DEF x
<1> QED
  BY Zenon, <1>1, <1>2, <1>4, QuietStep, PeerFacts DEF ListHeads

(* sync_head begins with the local head. *)
LEMMA NextHeadStep ==
    ASSUME IInv, NEW n \in Node, NextHead(n)
    PROVE  IInv' /\ Kept
<1>1. sync[n] \in SyncTask /\ Peers[n] # <<>> /\ log \in [Node -> [Log -> Seq(Entry)]]
  BY DEF IInv, NextHead, At, Stores, StoreTypes
<1>2. PICK h \in sync[n].todo :
         LET local == Len(log[n][h.log])
             behind == local < h.head_id
         IN  sync' = [sync EXCEPT ![n].todo = @ \ {h}, ![n].head = h,
                         ![n].local_head = local, ![n].before = local,
                         ![n].pc = IF behind THEN "fetch" ELSE "next"]
  BY Zenon DEF NextHead
<1> DEFINE local == Len(log[n][h.log])
           pc == IF local < h.head_id THEN "fetch" ELSE "next"
           rest == sync[n].todo \ {h}
           x == [sync[n] EXCEPT !.todo = rest, !.head = h, !.local_head = local,
                                !.before = local, !.pc = pc]
<1>3. sync' = [sync EXCEPT ![n] = x]
  BY Zenon, <1>2 DEF IInv
<1>4. h \in TopicHead /\ h.log \in Log /\ rest \subseteq TopicHead
  BY <1>1 DEF SyncTask, TopicHead
<1>5. local \in Nat /\ pc \in {"fetch", "next"}
  BY <1>1, <1>4
<1> HIDE DEF local, pc, rest
<1>6. x \in SyncTask /\ x.pc = pc /\ x.peer = sync[n].peer /\ x.head = h
  BY Zenon, <1>1, <1>4, <1>5 DEF SyncTask
<1> HIDE DEF x
<1> QED
  BY Zenon, <1>1, <1>3, <1>4, <1>5, <1>6, QuietStep, PeerFacts DEF NextHead

(* What a peer sends from a copy s is in the log t at the origin. *)
LEMMA FetchFacts ==
    ASSUME NEW s \in Seq(Entry), NEW t \in Seq(Entry), Below(s, t),
           NEW from \in Nat \ {0}, NEW limit \in Nat \ {0}
    PROVE  /\ FetchMessages(s, from, limit) \in Seq(Message)
           /\ \A k \in 1 .. Len(FetchMessages(s, from, limit)) :
                 Known(FetchMessages(s, from, limit)[k], t)
<1> DEFINE c == Fetched(s, from, limit)
           b == FetchMessages(s, from, limit)
<1>1. Len(s) \in Nat /\ Len(t) \in Nat /\ Len(s) <= Len(t)
  BY DEF Below
<1>2. c \in Nat /\ (c > 0 => from + c - 1 <= Len(s))
  BY <1>1 DEF Fetched
<1>3. b = [k \in 1 .. c |-> [head_id |-> from + k - 1, entry |-> s[from + k - 1]]]
  BY DEF FetchMessages
<1> HIDE DEF b, c
<1>4. ASSUME NEW k \in 1 .. c
      PROVE  from + k - 1 \in 1 .. Len(s) /\ from + k - 1 \in Nat
  BY <1>1, <1>2
<1>5. ASSUME NEW k \in 1 .. c
      PROVE  s[from + k - 1] \in Entry
  BY <1>4
<1>6. \A k \in 1 .. c : [head_id |-> from + k - 1, entry |-> s[from + k - 1]] \in Message
  BY <1>4, <1>5 DEF Message
<1>7. b \in Seq(Message) /\ Len(b) = c
  <2>1. b \in [1 .. c -> Message]
    BY <1>3, <1>6
  <2> QED
    BY <1>2, <2>1
<1>8. ASSUME NEW k \in 1 .. Len(b)
      PROVE  Known(b[k], t)
  <2> DEFINE h == from + k - 1
  <2>1. h \in 1 .. Len(s) /\ b[k].head_id = h /\ b[k].entry = s[h]
    BY Zenon, <1>3, <1>4, <1>7
  <2> HIDE DEF h
  <2>2. h \in 1 .. Len(t)
    BY <1>1, <2>1
  <2>3. SameExceptDeleted(s[h], t[h]) /\ (s[h].deleted => t[h].deleted)
    BY <2>1 DEF Below
  <2> QED
    BY <2>1, <2>2, <2>3 DEF Known
<1> QED
  BY <1>7, <1>8 DEF b

(* What Fetch brings, from the origin or from a relay, the origin has. *)
LEMMA FetchStep ==
    ASSUME IInv, NEW n \in Node, Fetch(n)
    PROVE  IInv' /\ Kept
<1> DEFINE l == sync[n].head.log
           s == log[Peer(n)][l]
           from == sync[n].local_head + 1
           b == FetchMessages(s, from, BatchLimit)
           x == [sync[n] EXCEPT !.pc = "put", !.before = sync[n].local_head, !.batch = b]
<1>1. sync[n] \in SyncTask /\ Peers[n] # <<>> /\ l \in Log
  BY DEF IInv, Fetch, At, InFlight
<1>2. sync' = [sync EXCEPT ![n] = x]
  BY Zenon DEF Fetch, IInv
<1>3. sync[n].local_head \in Nat /\ BatchLimit \in Nat \ {0}
  BY <1>1, PeerSyncAssumption DEF SyncTask
<1>4. from \in Nat \ {0}
  BY <1>3
<1>5. Peer(n) \in Node /\ l[2] \in Node
  BY <1>1, PeerFacts, LogFacts
<1>6. s \in Seq(Entry) /\ log[l[2]][l] \in Seq(Entry) /\ Below(s, log[l[2]][l])
  BY <1>1, <1>5 DEF IInv, Stores, StoreTypes, CopyAt
<1> HIDE DEF s, from
<1>7. b \in Seq(Message) /\ \A k \in 1 .. Len(b) : Known(b[k], log[l[2]][l])
  BY Zenon, <1>3, <1>4, <1>6, FetchFacts
<1> HIDE DEF b
<1>8. /\ x \in SyncTask /\ x.pc = "put" /\ x.peer = sync[n].peer
      /\ x.head = sync[n].head /\ x.batch = b
  BY Zenon, <1>1, <1>3, <1>7 DEF SyncTask
<1> HIDE DEF x
<1> QED
  BY Zenon, <1>1, <1>2, <1>7, <1>8, QuietStep, PeerFacts DEF Fetch

(* The stream has ended, and the next round begins or the next head. *)
LEMMA EndBatchStep ==
    ASSUME IInv, NEW n \in Node, EndBatch(n)
    PROVE  IInv' /\ Kept
<1> DEFINE pc == IF AnotherRound(n) THEN "fetch" ELSE "next"
           x == [sync[n] EXCEPT !.pc = pc]
<1>1. sync[n] \in SyncTask /\ Peers[n] # <<>> /\ sync[n].head.log \in Log
  BY DEF IInv, EndBatch, At, InFlight
<1>2. sync' = [sync EXCEPT ![n] = x]
  BY DEF EndBatch, IInv
<1>3. pc \in {"fetch", "next"}
  OBVIOUS
<1> HIDE DEF pc
<1>4. x \in SyncTask /\ x.pc = pc /\ x.peer = sync[n].peer /\ x.head = sync[n].head
  BY <1>1, <1>3 DEF SyncTask
<1> HIDE DEF x
<1> QED
  BY Zenon, <1>1, <1>2, <1>3, <1>4, QuietStep, PeerFacts DEF EndBatch

(* The rest of the batch stays valid when a message is stored. *)
LEMMA PutTask ==
    ASSUME IInv, NEW n \in Node, Put(n)
    PROVE  IInv' /\ Kept
<1> DEFINE x == [sync[n] EXCEPT !.pc = "apply", !.outcome = PutOutcome(n)]
<1>1. /\ sync[n] \in SyncTask /\ sync[n].pc = "put" /\ sync[n].batch # <<>>
      /\ PutOutcome(n) \in {"Inserted", "AlreadyPresent"} /\ InFlight(n)
  BY DEF IInv, Put, At
<1>2. sync' = [sync EXCEPT ![n] = x]
  BY Zenon DEF Put, IInv
<1>3. /\ x \in SyncTask /\ x.pc = "apply" /\ x.peer = sync[n].peer
      /\ x.head = sync[n].head /\ x.batch = sync[n].batch
  BY Zenon, <1>1 DEF SyncTask
<1> HIDE DEF x
<1>4. sync' \in [Node -> SyncTask] /\ sync'[n] = x /\ \A m \in Node : m # n => sync'[m] = sync[m]
  BY <1>2, <1>3 DEF IInv
<1>5. StoreStep(n) /\ created' \in [Node -> Nat]
  BY Zenon, PutStep DEF Put, IInv, Stores, StoreTypes
<1>6. Stores' /\ Kept
  BY <1>5, StoreStepSafe DEF IInv
<1>7. InFlight(n)'
  <2>1. \A k \in 1 .. Len(sync[n].batch) :
            Known(sync[n].batch[k], log'[sync[n].head.log[2]][sync[n].head.log])
    BY <1>1, <1>6, HeldKept
  <2> QED
    BY <1>1, <1>3, <1>4, <2>1 DEF InFlight
<1> QED
  BY <1>4, <1>5, <1>7, TaskStep

(* The rest of the batch stays valid when a marker is applied. *)
LEMMA ApplyTask ==
    ASSUME IInv, NEW n \in Node, Apply(n)
    PROVE  IInv' /\ Kept
<1> DEFINE m == Incoming(n)
           local == IF sync[n].local_head < m.head_id THEN m.head_id ELSE sync[n].local_head
           b == Tail(sync[n].batch)
           x == [sync[n] EXCEPT !.pc = "put", !.batch = b, !.outcome = "none",
                                !.local_head = local]
<1>1. /\ sync[n] \in SyncTask /\ sync[n].pc = "apply" /\ sync[n].batch # <<>> /\ InFlight(n)
      /\ sync[n].batch \in Seq(Message) /\ sync[n].local_head \in Nat
  BY DEF IInv, Apply, At, InFlight, SyncTask
<1>2. sync' = [sync EXCEPT ![n] = x]
  BY Zenon DEF Apply, IInv
<1>3. local \in Nat
  BY <1>1, IncomingKnown DEF Message
<1>4. /\ b \in Seq(Message) /\ Len(b) = Len(sync[n].batch) - 1 /\ Len(sync[n].batch) \in Nat
      /\ \A k \in 1 .. Len(b) : b[k] = sync[n].batch[k + 1] /\ k + 1 \in 1 .. Len(sync[n].batch)
  BY <1>1
<1> HIDE DEF b, local
<1>5. /\ x \in SyncTask /\ x.pc = "put" /\ x.peer = sync[n].peer
      /\ x.head = sync[n].head /\ x.batch = b
  BY Zenon, <1>1, <1>3, <1>4 DEF SyncTask
<1> HIDE DEF x
<1>6. sync' \in [Node -> SyncTask] /\ sync'[n] = x /\ \A q \in Node : q # n => sync'[q] = sync[q]
  BY <1>2, <1>5 DEF IInv
<1>7. StoreStep(n) /\ created' \in [Node -> Nat]
  BY Zenon, ApplyStep DEF Apply, IInv, Stores, StoreTypes
<1>8. Stores' /\ Kept
  BY <1>7, StoreStepSafe DEF IInv
<1>9. InFlight(n)'
  <2>1. \A k \in 1 .. Len(sync[n].batch) :
            Known(sync[n].batch[k], log'[sync[n].head.log[2]][sync[n].head.log])
    BY <1>1, <1>8, HeldKept
  <2>2. \A k \in 1 .. Len(b) : Known(b[k], log'[sync[n].head.log[2]][sync[n].head.log])
    BY <1>4, <2>1
  <2> QED
    BY <1>1, <1>5, <1>6, <2>2 DEF InFlight
<1> QED
  BY <1>6, <1>7, <1>9, TaskStep

----------------------------------------------------------------------------
(* IInv holds initially. *)
LEMMA Initially ==
    ASSUME Init
    PROVE  IInv
<1>1. StoreTypes
  BY DEF Init, StoreTypes
<1>2. \A n \in Node, l \in Log : log[n][l] = <<>> /\ tombs[n][l] = {}
  BY DEF Init
<1>3. \A n \in Node, l \in Log : CopyAt(n, l)
  BY <1>2, LogFacts DEF CopyAt, Below
<1>4. \A l \in Log : Applied(log[l[2]][l], tombs[l[2]][l])
  BY <1>2, LogFacts DEF Applied
<1>5. \A o \in Node : AnnouncedAt(o)
  BY <1>2 DEF AnnouncedAt, Log
<1>6. \A n \in Node : sync[n] = AtPeer(1)
  BY DEF Init
<1>7. sync \in [Node -> SyncTask]
  BY Zenon, AtPeerType DEF Init
<1>8. ASSUME NEW n \in Node
      PROVE  InFlight(n)
  <2>1. sync[n].pc = "idle" /\ sync[n].peer = 1
    BY <1>6 DEF AtPeer
  <2>2. Peers[n] # <<>> => 1 \in 1 .. Len(Peers[n])
    BY PeerSyncAssumption
  <2> QED
    BY <2>1, <2>2 DEF InFlight
<1> QED
  BY <1>1, <1>3, <1>4, <1>5, <1>7, <1>8 DEF IInv, Stores

(* A step of a local client *)
LEMMA ClientStep ==
    ASSUME IInv, NEW n \in Node, StoreStep(n), created' = [created EXCEPT ![n] = @ + 1],
           sync' = sync
    PROVE  IInv' /\ Kept
<1>1. created' \in [Node -> Nat] /\ sync' \in [Node -> SyncTask]
  BY DEF IInv, Stores, StoreTypes
<1> QED
  BY <1>1, TaskStep

(* The work on a peer ends, with success or not *)
LEMMA GiveUpStep ==
    ASSUME IInv, NEW n \in Node, Peers[n] # <<>>, NEW k \in {sync[n].peer, NextPeer(n), 1},
           log' = log, tombs' = tombs, created' = created,
           \/ sync' = [sync EXCEPT ![n] = AtPeer(k)]
           \/ sync' = [sync EXCEPT ![n] = [AtPeer(k) EXCEPT !.pc = "failed"]]
    PROVE  IInv' /\ Kept
<1>1. k \in Nat /\ k \in 1 .. Len(Peers[n])
  BY PeerFacts, PeerSyncAssumption
<1> DEFINE x == AtPeer(k)
           y == [AtPeer(k) EXCEPT !.pc = "failed"]
<1>2. /\ x \in SyncTask /\ x.pc = "idle" /\ x.peer = k
      /\ y \in SyncTask /\ y.pc = "failed" /\ y.peer = k
  BY <1>1, AtPeerType
<1>3. sync' = [sync EXCEPT ![n] = x] \/ sync' = [sync EXCEPT ![n] = y]
  OBVIOUS
<1> HIDE DEF x, y
<1>4. CASE sync' = [sync EXCEPT ![n] = x]
  BY Zenon, <1>1, <1>2, <1>4, QuietStep
<1>5. CASE sync' = [sync EXCEPT ![n] = y]
  BY Zenon, <1>1, <1>2, <1>5, QuietStep
<1> QED
  BY <1>3, <1>4, <1>5

(* Every step preserves IInv and takes nothing back. *)
LEMMA Step ==
    ASSUME IInv, Next
    PROVE  IInv' /\ Kept
<1> PICK n \in Node :
       \/ \E t \in Topic \cup {DeleteTopic}, o \in Node \cup {Unset} :
             Publish(n, t, o) \/ \E r \in Ranges : DeleteRange(n, t, o, r)
       \/ SyncStep(n)
       \/ Crash(n) \/ Restart(n)
  BY DEF Next
<1>1. ASSUME NEW t \in Topic \cup {DeleteTopic}, NEW o, Publish(n, t, o)
      PROVE  IInv' /\ Kept
  BY Zenon, <1>1, PublishStep, ClientStep DEF IInv, Publish
<1>2. ASSUME NEW t \in Topic \cup {DeleteTopic}, NEW o, NEW r \in Ranges, DeleteRange(n, t, o, r)
      PROVE  IInv' /\ Kept
  BY Zenon, <1>2, DeleteRangeStep, ClientStep DEF IInv, DeleteRange
<1>3. CASE ListHeads(n)
  BY <1>3, ListHeadsStep
<1>4. CASE NextHead(n)
  BY <1>4, NextHeadStep
<1>5. CASE Fetch(n)
  BY <1>5, FetchStep
<1>6. CASE Put(n)
  BY <1>6, PutTask
<1>7. CASE Apply(n)
  BY <1>7, ApplyTask
<1>8. CASE EndBatch(n)
  BY <1>8, EndBatchStep
<1>9. CASE FinishPeer(n)
  BY Zenon, <1>9, GiveUpStep DEF FinishPeer, At
<1>10. CASE RpcFails(n)
  BY Zenon, <1>10, GiveUpStep DEF RpcFails, GiveUpPeer, At
<1>11. CASE IdentityRefused(n)
  BY Zenon, <1>11, GiveUpStep DEF IdentityRefused, GiveUpPeer, At
<1>12. CASE StoreRefuses(n)
  BY Zenon, <1>12, GiveUpStep DEF StoreRefuses, GiveUpPeer, At
<1>13. CASE PeerFailed(n)
  BY Zenon, <1>13, GiveUpStep DEF PeerFailed, At
<1>14. CASE Crash(n)
  <2> DEFINE x == AtPeer(1)
  <2>1. x \in SyncTask /\ x.pc = "idle" /\ x.peer = 1
    BY Zenon, AtPeerType
  <2>2. Peers[n] # <<>> => 1 \in 1 .. Len(Peers[n])
    BY PeerSyncAssumption
  <2>3. sync' = [sync EXCEPT ![n] = x] /\ log' = log /\ tombs' = tombs /\ created' = created
    BY <1>14 DEF Crash
  <2> HIDE DEF x
  <2> QED
    BY Zenon, <2>1, <2>2, <2>3, QuietStep
<1>15. CASE Restart(n)
  <2>1. StoreStep(n)
    BY <1>15, RestartStep DEF IInv
  <2>2. created' \in [Node -> Nat] /\ sync' \in [Node -> SyncTask] /\ sync' = sync
    BY <1>15 DEF Restart, IInv, Stores, StoreTypes
  <2> QED
    BY <2>1, <2>2, TaskStep
<1> QED
  BY <1>1, <1>2, <1>3, <1>4, <1>5, <1>6, <1>7, <1>8, <1>9, <1>10, <1>11, <1>12, <1>13,
     <1>14, <1>15 DEF SyncStep

(* Nothing happens. *)
LEMMA Stutter ==
    ASSUME IInv, UNCHANGED vars
    PROVE  IInv'
BY Zenon DEF vars, IInv, Stores, StoreTypes, CopyAt, AnnouncedAt, InFlight

(* The invariant of peer sync *)
THEOREM Inductive == Spec => []IInv
<1>1. Init => IInv
  BY Initially
<1>2. IInv /\ [Next]_vars => IInv'
  BY Step, Stutter
<1> QED
  BY <1>1, <1>2, PTL DEF Spec

(* Copies that are below their origins are what the properties ask for. *)
LEMMA CopiesSuffice ==
    ASSUME IInv
    PROVE  ReplicaPrefix /\ DeletedOnlyByOrigin
<1>1. ReplicaPrefix
  BY DEF IInv, Stores, CopyAt, Below, ReplicaPrefix
<1>2. ASSUME NEW n \in Node, NEW l \in Log, NEW h \in 1 .. Len(log[n][l]),
             log[n][l][h].deleted
      PROVE  h <= Len(log[l[2]][l]) /\ log[l[2]][l][h].deleted
  <2>1. l[2] \in Node
    BY LogFacts
  <2>2. Below(log[n][l], log[l[2]][l])
    BY DEF IInv, Stores, CopyAt
  <2>3. Len(log[n][l]) \in Nat /\ Len(log[l[2]][l]) \in Nat
    BY <2>1 DEF IInv, Stores, StoreTypes
  <2> QED
    BY <1>2, <2>2, <2>3 DEF Below
<1> QED
  BY <1>1, <1>2 DEF DeletedOnlyByOrigin

(* Every copy of a log is a prefix of the log at its origin, message for
   message: what publish, delete_range, sync_head and the replay at startup
   leave, for any peers and any order of passes. *)
THEOREM CopiesArePrefixes == Spec => []ReplicaPrefix
BY CopiesSuffice, Inductive, PTL

(* A message is deleted in a copy only if its origin has deleted it: markers
   and flags that sync_head passes on never run ahead of delete_range. *)
THEOREM OriginDeletes == Spec => []DeletedOnlyByOrigin
BY CopiesSuffice, Inductive, PTL

(* No store ever loses or changes a message or takes back a deletion: not when
   a daemon pulls its own log back from a peer, and not when it crashes and
   replays its markers. *)
THEOREM StoresAppendOnly == Spec => AppendOnly
<1>1. IInv /\ [Next]_vars => [Kept]_vars
  BY Step
<1> QED
  BY <1>1, Inductive, PTL DEF Spec, AppendOnly

----------------------------------------------------------------------------
(***************************************************************************)
(* Catching up                                                             *)
(***************************************************************************)
(* The head g is stored in the logs ls *)
Holds(ls, g) == g.head_id <= Len(ls[g.log])

(* The sync task s of n, over the stores lg: the heads it has listed are in its
   peer's logs, those it is done with are in its own, and the batch it works on
   begins right after what it has *)
Track(n, s, lg) ==
    /\ s.pc \in {"next", "fetch", "put", "apply"} =>
         /\ Peers[n] # <<>> /\ s.todo \subseteq s.listed
         /\ \A g \in s.listed : Holds(lg[Peers[n][s.peer]], g)
         /\ \A g \in s.listed \ s.todo : Holds(lg[n], g) \/ (s.pc # "next" /\ g = s.head)
    /\ s.pc \in {"fetch", "put", "apply"} =>
         s.head \in s.listed /\ s.local_head <= Len(lg[n][s.head.log])
    /\ s.pc = "fetch" => s.local_head < s.head.head_id
    /\ s.pc \in {"put", "apply"} =>
         /\ s.before < s.local_head \/ (s.before = s.local_head /\ s.batch # <<>>)
         /\ \A k \in 1 .. Len(s.batch) : s.batch[k].head_id = s.local_head + k
    /\ s.pc = "apply" => s.batch # <<>> /\ s.batch[1].head_id <= Len(lg[n][s.head.log])

CatchingUp == \A n \in Node : Track(n, sync[n], log)

(* A task keeps track of stores that grow. *)
LEMMA TrackGrows ==
    ASSUME IInv, IInv', Kept, NEW n \in Node, NEW s \in SyncTask, Track(n, s, log),
           Peers[n] # <<>> => s.peer \in 1 .. Len(Peers[n])
    PROVE  Track(n, s, log')
<1>1. \A m \in Node, l \in Log : /\ Len(log[m][l]) \in Nat /\ Len(log'[m][l]) \in Nat
                                 /\ Len(log[m][l]) <= Len(log'[m][l])
  <2>1. /\ log \in [Node -> [Log -> Seq(Entry)]]
        /\ log' \in [Node -> [Log -> Seq(Entry)]]
    BY Zenon DEF IInv, Stores, StoreTypes, Log, Entry
  <2>2. \A m \in Node, l \in Log : log[m][l] \in Seq(Entry) /\ log'[m][l] \in Seq(Entry)
    BY <2>1
  <2>3. \A m \in Node, l \in Log : Len(log'[m][l]) >= Len(log[m][l])
    BY DEF Kept
  <2> QED
    BY <2>2, <2>3
<1>2. Peers[n] # <<>> => Peers[n][s.peer] \in Node
  BY PeerSyncAssumption
<1>3. \A m \in Node, g \in TopicHead : Holds(log[m], g) => Holds(log'[m], g)
  BY <1>1 DEF Holds, TopicHead
<1>4. s.listed \subseteq TopicHead /\ s.local_head \in Nat /\ s.batch \in Seq(Message)
  BY DEF SyncTask
<1>5. s.pc \in {"next", "fetch", "put", "apply"} =>
         /\ Peers[n] # <<>> /\ s.todo \subseteq s.listed
         /\ \A g \in s.listed : Holds(log'[Peers[n][s.peer]], g)
         /\ \A g \in s.listed \ s.todo : Holds(log'[n], g) \/ (s.pc # "next" /\ g = s.head)
  BY <1>2, <1>3, <1>4 DEF Track
<1>6. s.pc \in {"fetch", "put", "apply"} =>
         s.head \in s.listed /\ s.local_head <= Len(log'[n][s.head.log])
  <2> HAVE s.pc \in {"fetch", "put", "apply"}
  <2>1. s.head \in s.listed /\ s.local_head <= Len(log[n][s.head.log])
    BY DEF Track
  <2>2. s.head.log \in Log
    BY <1>4, <2>1 DEF TopicHead
  <2> QED
    BY <1>1, <1>4, <2>1, <2>2
<1>7. s.pc = "apply" => s.batch # <<>> /\ s.batch[1].head_id <= Len(log'[n][s.head.log])
  <2> HAVE s.pc = "apply"
  <2>1. s.head \in TopicHead /\ s.batch # <<>> /\ s.batch[1].head_id \in Nat
    BY <1>4 DEF Track, Message
  <2>2. s.head.log \in Log /\ s.batch[1].head_id <= Len(log[n][s.head.log])
    BY <2>1 DEF Track, TopicHead
  <2> QED
    BY <1>1, <2>1, <2>2
<1> QED
  BY <1>5, <1>6, <1>7 DEF Track

(* A step of n is on track if its new task is. *)
LEMMA TrackStep ==
    ASSUME IInv, IInv', Kept, CatchingUp, NEW n \in Node,
           \A m \in Node : m # n => sync'[m] = sync[m],
           sync'[n] = sync[n] \/ Track(n, sync'[n], log) \/ Track(n, sync'[n], log')
    PROVE  CatchingUp'
<1> SUFFICES ASSUME NEW m \in Node
             PROVE  Track(m, sync'[m], log')
  BY DEF CatchingUp
<1>1. /\ sync'[m] \in SyncTask
      /\ Peers[m] # <<>> => sync'[m].peer \in 1 .. Len(Peers[m])
  BY DEF IInv, InFlight
<1>2. CASE Track(m, sync'[m], log)
  BY <1>1, <1>2, TrackGrows
<1> QED
  BY <1>2 DEF CatchingUp

(* A task that holds no batch and no heads is on track. *)
LEMMA TrackIdle ==
    ASSUME NEW n, NEW s, s.pc \in {"idle", "failed"}
    PROVE  Track(n, s, log)
BY DEF Track

(* The peer has what it lists. *)
LEMMA ListHeadsTrack ==
    ASSUME IInv, NEW n \in Node, ListHeads(n)
    PROVE  Track(n, sync'[n], log)
<1> DEFINE hs == HeadsAt(Peer(n))
           x == [sync[n] EXCEPT !.pc = "next", !.listed = hs, !.todo = hs]
<1>1. sync[n] \in SyncTask /\ Peers[n] # <<>> /\ sync'[n] = x
  BY DEF IInv, ListHeads, At
<1>2. Peer(n) \in Node
  BY <1>1, PeerFacts
<1>3. \A g \in hs : Holds(log[Peer(n)], g)
  <2>1. \A l \in Log : Len(log[Peer(n)][l]) \in Nat
    BY <1>2 DEF IInv, Stores, StoreTypes
  <2> QED
    BY <2>1 DEF HeadsAt, Holds
<1> HIDE DEF hs
<1>4. x.pc = "next" /\ x.listed = hs /\ x.todo = hs /\ Peers[n][x.peer] = Peer(n)
  BY <1>1 DEF SyncTask, Peer
<1> HIDE DEF x
<1> QED
  BY <1>1, <1>3, <1>4 DEF Track

(* A head that is not behind is stored; one that is becomes the current one. *)
LEMMA NextHeadTrack ==
    ASSUME IInv, NEW n \in Node, NextHead(n), Track(n, sync[n], log)
    PROVE  Track(n, sync'[n], log)
<1>1. sync[n] \in SyncTask /\ Peers[n] # <<>> /\ log \in [Node -> [Log -> Seq(Entry)]]
  BY DEF IInv, NextHead, At, Stores, StoreTypes
<1>2. PICK h \in sync[n].todo :
         LET local == Len(log[n][h.log])
             behind == local < h.head_id
         IN  sync' = [sync EXCEPT ![n].todo = @ \ {h}, ![n].head = h,
                         ![n].local_head = local, ![n].before = local,
                         ![n].pc = IF behind THEN "fetch" ELSE "next"]
  BY Zenon DEF NextHead
<1> DEFINE local == Len(log[n][h.log])
           pc == IF local < h.head_id THEN "fetch" ELSE "next"
           rest == sync[n].todo \ {h}
           x == [sync[n] EXCEPT !.todo = rest, !.head = h, !.local_head = local,
                                !.before = local, !.pc = pc]
<1>3. sync'[n] = x
  BY <1>2 DEF IInv
<1>4. h \in TopicHead /\ h.log \in Log /\ h.head_id \in Nat
  BY <1>1 DEF SyncTask, TopicHead
<1>5. local \in Nat
  BY <1>1, <1>4
<1>6. /\ sync[n].pc = "next" /\ sync[n].todo \subseteq sync[n].listed
      /\ \A g \in sync[n].listed : Holds(log[Peers[n][sync[n].peer]], g)
      /\ \A g \in sync[n].listed \ sync[n].todo : Holds(log[n], g)
  BY DEF NextHead, At, Track
<1>7. pc = "next" => Holds(log[n], h)
  BY <1>4, <1>5 DEF Holds
<1>8. local < h.head_id => pc = "fetch"
  OBVIOUS
<1>9. pc \in {"next", "fetch"} /\ (pc = "fetch" => local < h.head_id)
  OBVIOUS
<1> HIDE DEF pc, rest
<1>10. /\ x.pc = pc /\ x.peer = sync[n].peer /\ x.head = h /\ x.todo = rest
       /\ x.listed = sync[n].listed /\ x.local_head = local
  BY <1>1 DEF SyncTask
<1>11. rest = sync[n].todo \ {h}
  BY DEF rest
<1>12. local <= Len(log[n][h.log])
  BY <1>5
<1> HIDE DEF x, local
<1> QED
  BY Zenon, <1>1, <1>3, <1>5, <1>6, <1>7, <1>9, <1>10, <1>11, <1>12 DEF Track

(* The peer is ahead, so Fetch brings at least one message, and what it brings
   begins right after the local head. *)
LEMMA FetchTrack ==
    ASSUME IInv, NEW n \in Node, Fetch(n), Track(n, sync[n], log)
    PROVE  Track(n, sync'[n], log)
<1> DEFINE l == sync[n].head.log
           s == log[Peer(n)][l]
           from == sync[n].local_head + 1
           b == FetchMessages(s, from, BatchLimit)
           x == [sync[n] EXCEPT !.pc = "put", !.before = sync[n].local_head, !.batch = b]
<1>1. sync[n] \in SyncTask /\ Peers[n] # <<>> /\ l \in Log /\ sync'[n] = x
  BY DEF IInv, Fetch, At, InFlight
<1>2. sync[n].local_head \in Nat /\ BatchLimit \in Nat \ {0} /\ sync[n].listed \subseteq TopicHead
  BY <1>1, PeerSyncAssumption DEF SyncTask
<1>3. /\ sync[n].pc = "fetch" /\ sync[n].todo \subseteq sync[n].listed
      /\ sync[n].head \in sync[n].listed /\ Holds(log[Peer(n)], sync[n].head)
      /\ sync[n].local_head < sync[n].head.head_id
      /\ sync[n].local_head <= Len(log[n][l])
  BY DEF Fetch, At, Track, Peer
<1>4. s \in Seq(Entry) /\ sync[n].head.head_id \in Nat
  BY <1>1, <1>2, <1>3, PeerFacts DEF IInv, Stores, StoreTypes, TopicHead
<1>5. from \in Nat \ {0} /\ from <= Len(s) /\ Len(s) \in Nat
  <2>1. Len(s) \in Nat
    BY <1>4
  <2>2. sync[n].head.head_id <= Len(s)
    BY <1>3 DEF Holds
  <2> QED
    BY <1>2, <1>3, <1>4, <2>1, <2>2
<1> DEFINE c == Fetched(s, from, BatchLimit)
<1>6. c \in Nat \ {0}
  <2> HIDE DEF s, from
  <2> QED
    BY <1>2, <1>5 DEF Fetched
<1>7. b = [k \in 1 .. c |-> [head_id |-> from + k - 1, entry |-> s[from + k - 1]]]
  BY DEF FetchMessages
<1> HIDE DEF b, c
<1>8. Len(b) = c /\ b # <<>> /\ \A k \in 1 .. Len(b) : b[k].head_id = from + k - 1
  BY <1>6, <1>7
<1>9. \A k \in 1 .. Len(b) : b[k].head_id = sync[n].local_head + k
  BY <1>2, <1>8, <1>6
<1>10. /\ x.pc = "put" /\ x.peer = sync[n].peer /\ x.head = sync[n].head
       /\ x.todo = sync[n].todo /\ x.listed = sync[n].listed /\ x.batch = b
       /\ x.local_head = sync[n].local_head /\ x.before = sync[n].local_head
  BY <1>1 DEF SyncTask
<1> HIDE DEF x, from
<1> QED
  BY Zenon, <1>1, <1>3, <1>8, <1>9, <1>10 DEF Track

(* put_replicated_message succeeds only with a head id the log then reaches. *)
LEMMA PutTrack ==
    ASSUME IInv, IInv', Kept, NEW n \in Node, Put(n), Track(n, sync[n], log)
    PROVE  Track(n, sync'[n], log')
<1> DEFINE l == sync[n].head.log
           m == Incoming(n)
           s == log[n][l]
           f == Replicated(s, tombs[n][l], m.head_id, m.entry)
           x == [sync[n] EXCEPT !.pc = "apply", !.outcome = PutOutcome(n)]
<1>1. /\ sync[n] \in SyncTask /\ sync[n].pc = "put" /\ sync[n].batch # <<>>
      /\ sync[n].batch \in Seq(Message) /\ sync'[n] = x
  BY DEF IInv, Put, At, SyncTask
<1>2. l \in Log /\ m \in Message /\ m.head_id \in Nat /\ m.entry \in Entry /\ s \in Seq(Entry)
  BY <1>1, IncomingKnown DEF IInv, Stores, StoreTypes, Message
<1>3. Outcome(s, tombs[n][l], m.head_id, m.entry) \in {"Inserted", "AlreadyPresent"}
  BY DEF Put, PutOutcome
<1>4. log'[n][l] = f
  BY <1>2 DEF Put, IInv, Stores, StoreTypes
<1>5. m = sync[n].batch[1]
  BY <1>1 DEF Incoming
<1> HIDE DEF m
<1>6. m.head_id <= Len(f)
  BY <1>2, <1>3, ReplicatedReaches
<1>7. /\ x.pc = "apply" /\ x.peer = sync[n].peer /\ x.head = sync[n].head
      /\ x.todo = sync[n].todo /\ x.listed = sync[n].listed /\ x.batch = sync[n].batch
      /\ x.local_head = sync[n].local_head /\ x.before = sync[n].before
  BY <1>1 DEF SyncTask
<1>8. Peers[n] # <<>> => sync[n].peer \in 1 .. Len(Peers[n])
  BY Zenon DEF IInv, InFlight
<1>9. Track(n, sync[n], log')
  BY <1>1, <1>8, TrackGrows
<1> HIDE DEF x, f
<1> QED
  BY Zenon, <1>1, <1>4, <1>5, <1>6, <1>7, <1>9 DEF Track

(* The head id just stored becomes the local head. *)
LEMMA ApplyTrack ==
    ASSUME IInv, NEW n \in Node, Apply(n), Track(n, sync[n], log)
    PROVE  Track(n, sync'[n], log)
<1> DEFINE m == Incoming(n)
           local == IF sync[n].local_head < m.head_id THEN m.head_id ELSE sync[n].local_head
           b == Tail(sync[n].batch)
           x == [sync[n] EXCEPT !.pc = "put", !.batch = b, !.outcome = "none",
                                !.local_head = local]
<1>1. /\ sync[n] \in SyncTask /\ sync[n].pc = "apply" /\ sync[n].batch # <<>>
      /\ sync[n].batch \in Seq(Message) /\ sync[n].local_head \in Nat
      /\ sync[n].before \in Nat /\ sync'[n] = x
  BY DEF IInv, Apply, At, InFlight, SyncTask
<1>2. /\ m = sync[n].batch[1] /\ 1 \in 1 .. Len(sync[n].batch)
      /\ Len(b) = Len(sync[n].batch) - 1 /\ Len(sync[n].batch) \in Nat
      /\ \A k \in 1 .. Len(b) : b[k] = sync[n].batch[k + 1] /\ k + 1 \in 1 .. Len(sync[n].batch)
  BY <1>1 DEF Incoming
<1>3. /\ \A k \in 1 .. Len(sync[n].batch) : sync[n].batch[k].head_id = sync[n].local_head + k
      /\ sync[n].before <= sync[n].local_head
      /\ m.head_id <= Len(log[n][sync[n].head.log])
  BY <1>1, <1>2 DEF Track
<1>4. local = sync[n].local_head + 1 /\ local = m.head_id
  BY <1>1, <1>2, <1>3
<1> HIDE DEF b, local, m
<1>5. ASSUME NEW k \in 1 .. Len(b)
      PROVE  b[k].head_id = local + k
  <2>1. b[k].head_id = sync[n].local_head + (k + 1) /\ k \in Nat
    BY <1>2, <1>3
  <2> QED
    BY <1>1, <1>4, <2>1
<1>6. sync[n].before < local
  BY <1>1, <1>3, <1>4
<1>7. /\ x.pc = "put" /\ x.peer = sync[n].peer /\ x.head = sync[n].head
      /\ x.todo = sync[n].todo /\ x.listed = sync[n].listed /\ x.batch = b
      /\ x.local_head = local /\ x.before = sync[n].before
  BY <1>1 DEF SyncTask
<1> HIDE DEF x
<1> QED
  BY Zenon, <1>1, <1>3, <1>4, <1>5, <1>6, <1>7 DEF Track

(* A round that brought something ends the head only once it is reached. *)
LEMMA EndBatchTrack ==
    ASSUME IInv, NEW n \in Node, EndBatch(n), Track(n, sync[n], log)
    PROVE  Track(n, sync'[n], log)
<1> DEFINE pc == IF AnotherRound(n) THEN "fetch" ELSE "next"
           x == [sync[n] EXCEPT !.pc = pc]
<1>1. /\ sync[n] \in SyncTask /\ sync[n].local_head \in Nat /\ sync[n].before \in Nat
      /\ sync[n].listed \subseteq TopicHead /\ sync'[n] = x
  BY DEF IInv, EndBatch, At, SyncTask
<1>2. /\ sync[n].pc = "put" /\ sync[n].batch = <<>> /\ sync[n].before < sync[n].local_head
      /\ sync[n].head \in sync[n].listed
      /\ sync[n].local_head <= Len(log[n][sync[n].head.log])
  BY DEF EndBatch, At, Track
<1>3. /\ sync[n].head.head_id \in Nat /\ sync[n].head.log \in Log
      /\ Len(log[n][sync[n].head.log]) \in Nat
  BY <1>1, <1>2 DEF TopicHead, IInv, Stores, StoreTypes
<1>4. /\ pc \in {"fetch", "next"} /\ (pc = "fetch" => sync[n].local_head < sync[n].head.head_id)
      /\ pc = "next" => Holds(log[n], sync[n].head)
  BY <1>1, <1>2, <1>3 DEF AnotherRound, Holds
<1> HIDE DEF pc
<1>5. /\ x.pc = pc /\ x.peer = sync[n].peer /\ x.head = sync[n].head
      /\ x.todo = sync[n].todo /\ x.listed = sync[n].listed /\ x.batch = sync[n].batch
      /\ x.local_head = sync[n].local_head /\ x.before = sync[n].before
  BY <1>1 DEF SyncTask
<1> HIDE DEF x
<1> QED
  BY Zenon, <1>1, <1>2, <1>4, <1>5 DEF Track

(* A task that gives up a peer, or begins with the next one, holds nothing. *)
LEMMA GiveUpTrack ==
    ASSUME sync \in [Node -> SyncTask], NEW n \in Node, NEW k,
           \/ sync' = [sync EXCEPT ![n] = AtPeer(k)]
           \/ sync' = [sync EXCEPT ![n] = [AtPeer(k) EXCEPT !.pc = "failed"]]
    PROVE  Track(n, sync'[n], log) /\ \A m \in Node : m # n => sync'[m] = sync[m]
<1>1. sync'[n].pc \in {"idle", "failed"} /\ \A m \in Node : m # n => sync'[m] = sync[m]
  BY DEF AtPeer
<1> QED
  BY <1>1, TrackIdle

(* Every step keeps every task on track. *)
LEMMA CatchingUpStep ==
    ASSUME IInv, IInv', Kept, CatchingUp, Next
    PROVE  CatchingUp'
<1> PICK n \in Node :
       \/ \E t \in Topic \cup {DeleteTopic}, o \in Node \cup {Unset} :
             Publish(n, t, o) \/ \E r \in Ranges : DeleteRange(n, t, o, r)
       \/ SyncStep(n)
       \/ Crash(n) \/ Restart(n)
  BY DEF Next
<1>0. Track(n, sync[n], log) /\ sync \in [Node -> SyncTask]
  BY DEF CatchingUp, IInv
<1>1. CASE sync' = sync
  BY <1>1, TrackStep
<1>2. CASE \/ ListHeads(n) \/ NextHead(n) \/ Fetch(n) \/ Put(n) \/ Apply(n) \/ EndBatch(n)
  <2>1. \A m \in Node : m # n => sync'[m] = sync[m]
    BY Zenon, <1>0, <1>2 DEF ListHeads, NextHead, Fetch, Put, Apply, EndBatch
  <2>2. Track(n, sync'[n], log) \/ Track(n, sync'[n], log')
    BY <1>0, <1>2, ListHeadsTrack, NextHeadTrack, FetchTrack, PutTrack, ApplyTrack, EndBatchTrack
  <2> QED
    BY <2>1, <2>2, TrackStep
<1>3. ASSUME NEW k, \/ sync' = [sync EXCEPT ![n] = AtPeer(k)]
                    \/ sync' = [sync EXCEPT ![n] = [AtPeer(k) EXCEPT !.pc = "failed"]]
      PROVE  CatchingUp'
  <2>1. Track(n, sync'[n], log) /\ \A m \in Node : m # n => sync'[m] = sync[m]
    BY <1>0, <1>3, GiveUpTrack
  <2> QED
    BY Zenon, <2>1, TrackStep
<1>4. CASE \/ FinishPeer(n) \/ RpcFails(n) \/ IdentityRefused(n) \/ StoreRefuses(n)
           \/ PeerFailed(n) \/ Crash(n)
  BY Zenon, <1>3, <1>4 DEF FinishPeer, RpcFails, IdentityRefused, StoreRefuses, GiveUpPeer,
                    PeerFailed, Crash
<1> QED
  BY Zenon, <1>1, <1>2, <1>4 DEF Publish, DeleteRange, Restart, SyncStep

(* No task has listed anything at first. *)
LEMMA CatchingUpInitially ==
    ASSUME Init
    PROVE  CatchingUp
<1> SUFFICES ASSUME NEW n \in Node
             PROVE  Track(n, sync[n], log)
  BY DEF CatchingUp
<1>1. sync[n] = AtPeer(1)
  BY DEF Init
<1>2. AtPeer(1).pc = "idle"
  BY DEF AtPeer
<1> QED
  BY Zenon, <1>1, <1>2 DEF Track

(* A task that is on track and has no head left has all it listed. *)
LEMMA TrackSuffices ==
    ASSUME CatchingUp
    PROVE  SuccessMeansCaughtUp
<1> SUFFICES ASSUME NEW n \in Node, sync[n].pc = "next", sync[n].todo = {},
                    NEW h \in sync[n].listed
             PROVE  Len(log[n][h.log]) >= h.head_id
  BY DEF SuccessMeansCaughtUp
<1>1. Holds(log[n], h)
  BY DEF CatchingUp, Track
<1> QED
  BY <1>1 DEF Holds

(* When a sync task is about to record a peer as synced, every log the peer
   listed is stored up to the head it listed: sync_head never goes on to the
   next head with part of one missing, whatever the batch size, and no handler,
   crash or other task takes stored messages away in between. *)
THEOREM SyncedMeansStored == Spec => []SuccessMeansCaughtUp
<1>1. IInv /\ IInv' /\ CatchingUp /\ [Next]_vars => CatchingUp'
  <2>1. CASE UNCHANGED vars
    BY <2>1 DEF vars, CatchingUp
  <2> QED
    BY <2>1, CatchingUpStep, Step
<1> QED
  BY <1>1, CatchingUpInitially, TrackSuffices, Inductive, PTL DEF Spec

----------------------------------------------------------------------------
(***************************************************************************)
(* The rows of peer_sync_states                                            *)
(***************************************************************************)
Row == Log \cup {Whole}
RowsOf(n) == [DOMAIN Peers[n] -> [Row -> State]]

Rows == /\ states \in [Node -> UNION {RowsOf(n) : n \in Node}]
        /\ \A n \in Node : states[n] \in RowsOf(n)

Bookkeeping == up \in [Node -> BOOLEAN] /\ Rows /\ faults \in 0 .. MaxFaults

(* record_peer_sync_state replaces one row. *)
LEMMA RowWritten ==
    ASSUME IInv, Rows, NEW n \in Node, Peers[n] # <<>>, NEW k \in Row, NEW r \in State,
           states' = [states EXCEPT ![n][sync[n].peer][k] = r]
    PROVE  Rows'
<1>1. sync[n].peer \in DOMAIN Peers[n]
  BY PeerFacts, PeerSyncAssumption
<1> DEFINE i == sync[n].peer
           x == [states[n] EXCEPT ![i] = [states[n][i] EXCEPT ![k] = r]]
<1>2. states' = [states EXCEPT ![n] = x]
  BY DEF Rows
<1>3. states[n] \in RowsOf(n) /\ states[n][i] \in [Row -> State]
  BY <1>1 DEF Rows, RowsOf
<1>4. [states[n][i] EXCEPT ![k] = r] \in [Row -> State]
  BY <1>3
<1>5. x \in RowsOf(n)
  BY <1>1, <1>3, <1>4 DEF RowsOf
<1> HIDE DEF x, i
<1>6. states' \in [Node -> UNION {RowsOf(m) : m \in Node}]
  BY Zenon, <1>2, <1>5 DEF Rows
<1>7. \A m \in Node : states'[m] \in RowsOf(m)
  BY Zenon, <1>2, <1>5 DEF Rows
<1> QED
  BY Zenon, <1>6, <1>7 DEF Rows

(* The values record_peer_sync_state writes: the failure count stays within
   its width. *)
LEMMA RowValues ==
    ASSUME NEW local \in Nat, NEW remote \in Nat, NEW row \in State
    PROVE  Success(local, remote) \in State /\ Failure(row, local, remote) \in State
<1>1. U32Max \in Nat \ {0}
  BY PeerSyncAssumption
<1>2. Saturating(row.failures) \in 0 .. U32Max /\ row.succeeded \in BOOLEAN
  BY <1>1 DEF Saturating, State
<1>3. 0 \in 0 .. U32Max
  BY <1>1
<1> QED
  BY <1>2, <1>3 DEF Success, Failure, State

(* A row is in the table. *)
LEMMA RowRead ==
    ASSUME IInv, Rows, NEW n \in Node, Peers[n] # <<>>, NEW k \in Row
    PROVE  states[n][sync[n].peer][k] \in State
<1>1. sync[n].peer \in DOMAIN Peers[n]
  BY PeerFacts, PeerSyncAssumption
<1> QED
  BY <1>1 DEF Rows, RowsOf

(* What fails is recorded for the log being synced. *)
LEMMA GiveUpRows ==
    ASSUME IInv, Rows, NEW n \in Node, Peers[n] # <<>>, GiveUpPeer(n),
           sync[n].pc \in {"idle", "fetch", "put", "apply"}
    PROVE  Rows'
<1> DEFINE h == sync[n].head
           r == Failure(states[n][sync[n].peer][h.log], Len(log[n][h.log]), h.head_id)
<1>1. CASE sync[n].pc = "idle"
  BY <1>1 DEF GiveUpPeer, Rows
<1>2. CASE sync[n].pc # "idle"
  <2>1. h.log \in Log /\ h \in TopicHead \cup {NoHead}
    <3>1. sync[n] \in SyncTask /\ InFlight(n)
      BY DEF IInv
    <3> QED
      BY <1>2, <3>1 DEF InFlight, SyncTask
  <2>2. h.head_id \in Nat /\ Len(log[n][h.log]) \in Nat
    BY <2>1 DEF TopicHead, NoHead, IInv, Stores, StoreTypes
  <2>3. h.log \in Row
    BY <2>1 DEF Row
  <2>4. r \in State
    BY <2>2, <2>3, RowRead, RowValues
  <2>5. states' = [states EXCEPT ![n][sync[n].peer][h.log] = r]
    BY <1>2 DEF GiveUpPeer
  <2> HIDE DEF r
  <2> QED
    BY Zenon, <2>3, <2>4, <2>5, RowWritten
<1> QED
  BY <1>1, <1>2

(* sync_head and sync_once record a success or a failure. *)
LEMMA SyncRows ==
    ASSUME IInv, Rows, NEW n \in Node,
           NextHead(n) \/ EndBatch(n) \/ FinishPeer(n) \/ PeerFailed(n)
    PROVE  Rows'
<1>1. /\ Peers[n] # <<>> /\ sync[n] \in SyncTask /\ Whole \in Row
      /\ \A l \in Log : l \in Row /\ Len(log[n][l]) \in Nat
  <2>1. Peers[n] # <<>>
    BY Zenon DEF NextHead, EndBatch, FinishPeer, PeerFailed, At
  <2>2. sync[n] \in SyncTask /\ \A l \in Log : Len(log[n][l]) \in Nat
    BY DEF IInv, Stores, StoreTypes
  <2> QED
    BY <2>1, <2>2 DEF Row
<1>2. CASE NextHead(n)
  <2>1. PICK h \in sync[n].todo :
           LET local == Len(log[n][h.log])
               behind == local < h.head_id
           IN  states' = IF behind THEN states
                         ELSE [states EXCEPT ![n][sync[n].peer][h.log] = Success(local, h.head_id)]
    BY Zenon, <1>2 DEF NextHead
  <2>2. h.log \in Log /\ h.head_id \in Nat
    BY Zenon, <1>1 DEF SyncTask, TopicHead
  <2>3. Success(Len(log[n][h.log]), h.head_id) \in State
    <3>1. states[n][sync[n].peer][Whole] \in State
      BY <1>1, RowRead
    <3> QED
      BY Zenon, <1>1, <2>2, <3>1, RowValues
  <2>4. CASE states' = states
    BY <2>4 DEF Rows
  <2> QED
    BY <1>1, <2>1, <2>2, <2>3, <2>4, RowWritten
<1>3. CASE EndBatch(n)
  <2> DEFINE r == Success(sync[n].local_head, sync[n].head.head_id)
  <2>1. sync[n].head.log \in Log /\ sync[n].local_head \in Nat /\ sync[n].head.head_id \in Nat
    BY <1>3 DEF EndBatch, At, IInv, InFlight, SyncTask, TopicHead, NoHead
  <2>2. states[n][sync[n].peer][Whole] \in State
    BY <1>1, RowRead
  <2>3. r \in State
    BY Zenon, <2>1, <2>2, RowValues
  <2>4. states' = [states EXCEPT ![n][sync[n].peer][sync[n].head.log] = r]
    BY <1>3 DEF EndBatch
  <2> HIDE DEF r
  <2> QED
    BY Zenon, <1>1, <2>1, <2>3, <2>4, RowWritten
<1>4. CASE FinishPeer(n)
  <2>1. Success(0, 0) \in State
    BY Zenon, <1>1, RowRead, RowValues
  <2> QED
    BY Zenon, <1>1, <1>4, <2>1, RowWritten DEF FinishPeer
<1>5. CASE PeerFailed(n)
  <2> DEFINE r == Failure(states[n][sync[n].peer][Whole], 0, 0)
  <2>1. r \in State
    BY <1>1, RowRead, RowValues
  <2>2. states' = [states EXCEPT ![n][sync[n].peer][Whole] = r]
    BY <1>5 DEF PeerFailed
  <2> HIDE DEF r
  <2> QED
    BY Zenon, <1>1, <2>1, <2>2, RowWritten
<1> QED
  BY <1>2, <1>3, <1>4, <1>5

(* Every step leaves the bookkeeping in its range. *)
LEMMA BookkeepingStep ==
    ASSUME IInv, Bookkeeping, Next
    PROVE  Bookkeeping'
<1> PICK n \in Node :
       \/ \E t \in Topic \cup {DeleteTopic}, o \in Node \cup {Unset} :
             Publish(n, t, o) \/ \E r \in Ranges : DeleteRange(n, t, o, r)
       \/ SyncStep(n)
       \/ Crash(n) \/ Restart(n)
  BY DEF Next
<1> USE DEF Bookkeeping
<1>1. MaxFaults \in Nat
  BY PeerSyncAssumption
<1>2. up' \in [Node -> BOOLEAN]
  <2>1. up' = up \/ up' = [up EXCEPT ![n] = FALSE] \/ up' = [up EXCEPT ![n] = TRUE]
    BY Zenon DEF Publish, DeleteRange, SyncStep, ListHeads, NextHead, Fetch, Put, Apply, EndBatch,
           FinishPeer, RpcFails, IdentityRefused, StoreRefuses, PeerFailed, Crash, Restart
  <2> QED
    BY Zenon, <2>1
<1>3. faults' \in 0 .. MaxFaults
  <2>1. faults' = faults \/ (faults < MaxFaults /\ faults' = faults + 1)
    BY Zenon DEF Publish, DeleteRange, SyncStep, ListHeads, NextHead, Fetch, Put, Apply, EndBatch,
           FinishPeer, RpcFails, IdentityRefused, StoreRefuses, PeerFailed, Crash, Restart
  <2> QED
    BY <1>1, <2>1
<1>4. Rows'
  <2>1. CASE states' = states
    BY <2>1 DEF Rows
  <2>2. CASE NextHead(n) \/ EndBatch(n) \/ FinishPeer(n) \/ PeerFailed(n)
    BY <2>2, SyncRows
  <2>3. CASE RpcFails(n) \/ IdentityRefused(n) \/ StoreRefuses(n)
    BY Zenon, <2>3, GiveUpRows DEF RpcFails, IdentityRefused, StoreRefuses, At
  <2> QED
    BY Zenon, <2>1, <2>2, <2>3 DEF Publish, DeleteRange, SyncStep, ListHeads, Fetch, Put, Apply,
                            Crash, Restart
<1> QED
  BY <1>2, <1>3, <1>4

(* No row is written at first. *)
LEMMA BookkeepingInitially ==
    ASSUME Init
    PROVE  Bookkeeping
<1>1. NoState \in State /\ 0 \in 0 .. MaxFaults
  BY PeerSyncAssumption DEF NoState, State
<1>2. \A n \in Node : states[n] \in RowsOf(n)
  BY <1>1 DEF Init, RowsOf, Row
<1>3. states \in [Node -> UNION {RowsOf(n) : n \in Node}]
  BY Zenon, <1>2 DEF Init
<1>4. up \in [Node -> BOOLEAN] /\ faults = 0
  BY DEF Init
<1> QED
  BY <1>1, <1>2, <1>3, <1>4 DEF Bookkeeping, Rows

(* The types are part of the invariants. *)
LEMMA TypesSuffice ==
    ASSUME IInv, Bookkeeping
    PROVE  TypeOK
BY Zenon DEF IInv, Stores, StoreTypes, Bookkeeping, Rows, RowsOf, Row, TypeOK

(* The stores, the sync tasks and the rows of peer_sync_states keep their
   types: every row written belongs to a configured peer and to a log, and
   consecutive_failures never leaves its width. *)
THEOREM PeerTypes == Spec => []TypeOK
<1>1. IInv /\ Bookkeeping /\ [Next]_vars => Bookkeeping'
  <2>1. CASE UNCHANGED vars
    BY <2>1 DEF vars, Bookkeeping, Rows
  <2> QED
    BY <2>1, BookkeepingStep
<1> QED
  BY <1>1, BookkeepingInitially, TypesSuffice, Inductive, PTL DEF Spec
=============================================================================
