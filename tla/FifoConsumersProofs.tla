------------------------ MODULE FifoConsumersProofs ------------------------
(***************************************************************************)
(* For every number of queues, messages and consumers: what was            *)
(* acknowledged followed by what waits is what was enqueued, and a message *)
(* leaves its queue only through a consumer that has peeked at it.         *)
(*                                                                         *)
(* Conservation says which sequence numbers the waiting rows have; to see  *)
(* that removing the front leaves the others, no two rows of a queue may   *)
(* share one, which is the strengthening.                                  *)
(***************************************************************************)
EXTENDS FifoConsumers, TLAPS

(* Contents of the tables and the two histories that fit together *)
Conserved(sq, ff, en, ac) ==
    /\ sq \in [Queue -> 0 .. I64Max] /\ ff \subseteq FifoRow
    /\ en \in [Queue -> Seq(Id)] /\ ac \in [Queue -> Seq(Id)]
    /\ \A q \in Queue : /\ sq[q] = Len(en[q])
                        /\ Len(ac[q]) <= Len(en[q])
                        /\ \A k \in 1 .. Len(ac[q]) : ac[q][k] = en[q][k]
    /\ \A q \in Queue : \A s \in Len(ac[q]) + 1 .. Len(en[q]) :
          \E r \in ff : r.queue = q /\ r.sequence = s
    /\ \A r \in ff : /\ r.sequence \in Len(ac[r.queue]) + 1 .. Len(en[r.queue])
                     /\ r.id = en[r.queue][r.sequence]
    /\ \A r, e \in ff : r.queue = e.queue /\ r.sequence = e.sequence => r = e

Replies == [queue : Queue \cup {"none"}, answer : Answers]

IInv == /\ Conserved(sequences, fifo, enqueued, acked)
        /\ held \in [Consumer -> Ticket \cup {Nothing}]
        /\ reply \in Replies

----------------------------------------------------------------------------
(* What Append does to the elements of a sequence. *)
LEMMA AppendFacts ==
    ASSUME NEW S, NEW s \in Seq(S), NEW x \in S
    PROVE  /\ Append(s, x) \in Seq(S)
           /\ Len(s) \in Nat /\ Len(Append(s, x)) = Len(s) + 1
           /\ \A k \in 1 .. Len(s) : Append(s, x)[k] = s[k]
           /\ Append(s, x)[Len(s) + 1] = x
OBVIOUS

(* enqueue_fifo stores a new row under the next sequence number. *)
LEMMA EnqueueConserves ==
    ASSUME NEW sq, NEW ff, NEW en, NEW ac, Conserved(sq, ff, en, ac),
           NEW q \in Queue, NEW x \in FifoRow,
           x.queue = q, x.sequence = sq[q] + 1, sq[q] + 1 <= I64Max
    PROVE  Conserved([sq EXCEPT ![q] = sq[q] + 1], ff \cup {x},
                     [en EXCEPT ![q] = Append(en[q], x.id)], ac)
<1> DEFINE sn == [sq EXCEPT ![q] = sq[q] + 1]
           fn == ff \cup {x}
           enn == [en EXCEPT ![q] = Append(en[q], x.id)]
<1>0. /\ I64Max \in Nat /\ x.id \in Id /\ en[q] \in Seq(Id) /\ sq[q] = Len(en[q])
      /\ \A p \in Queue : Len(en[p]) \in Nat /\ Len(ac[p]) \in Nat /\ Len(ac[p]) <= Len(en[p])
  BY FifoAssumption DEF Conserved, FifoRow
<1>1. /\ Append(en[q], x.id) \in Seq(Id)
      /\ Len(Append(en[q], x.id)) = Len(en[q]) + 1
      /\ \A k \in 1 .. Len(en[q]) : Append(en[q], x.id)[k] = en[q][k]
      /\ Append(en[q], x.id)[Len(en[q]) + 1] = x.id
  BY <1>0, AppendFacts
<1>2. /\ sn \in [Queue -> 0 .. I64Max] /\ fn \subseteq FifoRow
      /\ enn \in [Queue -> Seq(Id)] /\ ac \in [Queue -> Seq(Id)]
  BY <1>0, <1>1 DEF Conserved
<1>3. /\ enn[q] = Append(en[q], x.id) /\ sn[q] = sq[q] + 1
      /\ \A p \in Queue : p # q => enn[p] = en[p] /\ sn[p] = sq[p]
  BY DEF Conserved
<1> HIDE DEF sn, enn
<1>4. \A p \in Queue : /\ sn[p] = Len(enn[p])
                       /\ Len(ac[p]) <= Len(enn[p])
                       /\ \A k \in 1 .. Len(ac[p]) : ac[p][k] = enn[p][k]
  <2> TAKE p \in Queue
  <2>1. CASE p = q
    <3>1. sn[p] = Len(enn[p]) /\ Len(ac[p]) <= Len(enn[p])
      BY <2>1, <1>0, <1>1, <1>3
    <3>2. \A k \in 1 .. Len(ac[p]) : k \in 1 .. Len(en[p]) /\ ac[p][k] = en[p][k]
      BY <2>1, <1>0 DEF Conserved
    <3> QED BY <2>1, <3>1, <3>2, <1>1, <1>3
  <2>2. CASE p # q
    BY <2>2, <1>3 DEF Conserved
  <2> QED BY <2>1, <2>2
<1>5. ASSUME NEW p \in Queue, NEW s \in Len(ac[p]) + 1 .. Len(enn[p])
      PROVE  \E r \in fn : r.queue = p /\ r.sequence = s
  <2>1. CASE p = q /\ s = Len(en[q]) + 1
    BY <2>1, <1>0
  <2>2. CASE ~(p = q /\ s = Len(en[q]) + 1)
    <3>1. s \in Len(ac[p]) + 1 .. Len(en[p])
      BY <2>2, <1>0, <1>1, <1>3, <1>5
    <3> QED BY <3>1 DEF Conserved
  <2> QED BY <2>1, <2>2
<1>6. \A r \in fn : /\ r.sequence \in Len(ac[r.queue]) + 1 .. Len(enn[r.queue])
                    /\ r.id = enn[r.queue][r.sequence]
  <2> TAKE r \in fn
  <2>1. CASE r = x
    BY <2>1, <1>0, <1>1, <1>3
  <2>2. CASE r \in ff
    <3>1. /\ r.queue \in Queue /\ r.sequence \in Len(ac[r.queue]) + 1 .. Len(en[r.queue])
          /\ r.id = en[r.queue][r.sequence]
      BY <2>2 DEF Conserved, FifoRow
    <3>2. CASE r.queue = q
      <4>1. r.sequence \in 1 .. Len(en[q])
        BY <3>1, <3>2, <1>0
      <4> QED BY <3>1, <3>2, <4>1, <1>0, <1>1, <1>3
    <3>3. CASE r.queue # q
      BY <3>1, <3>3, <1>3
    <3> QED BY <3>2, <3>3
  <2> QED BY <2>1, <2>2
<1>7. \A r \in ff : ~(r.queue = q /\ r.sequence = x.sequence)
  <2> SUFFICES ASSUME NEW r \in ff, r.queue = q, r.sequence = x.sequence
               PROVE  FALSE
    OBVIOUS
  <2>1. r.sequence \in Len(ac[q]) + 1 .. Len(en[q])
    BY DEF Conserved
  <2> QED BY <2>1, <1>0
<1>8. \A r, e \in fn : r.queue = e.queue /\ r.sequence = e.sequence => r = e
  BY <1>7 DEF Conserved
<1> QED BY <1>2, <1>4, <1>5, <1>6, <1>8 DEF Conserved, sn, enn

(* The front of a queue is the message after the last one acknowledged. *)
LEMMA FrontIsNext ==
    ASSUME Conserved(sequences, fifo, enqueued, acked), NEW r \in fifo, IsFirst(r)
    PROVE  r.sequence = Len(acked[r.queue]) + 1
<1>1. /\ r.queue \in Queue /\ r.sequence \in Len(acked[r.queue]) + 1 .. Len(enqueued[r.queue])
      /\ Len(acked[r.queue]) \in Nat /\ Len(enqueued[r.queue]) \in Nat
  BY DEF Conserved, FifoRow
<1>2. Len(acked[r.queue]) + 1 \in Len(acked[r.queue]) + 1 .. Len(enqueued[r.queue])
  BY <1>1
<1>3. PICK e \in fifo : e.queue = r.queue /\ e.sequence = Len(acked[r.queue]) + 1
  BY Zenon, <1>1, <1>2 DEF Conserved
<1>4. r.sequence <= e.sequence
  BY <1>3 DEF IsFirst, RowsOf
<1> QED BY <1>1, <1>3, <1>4

(* Removing the front of a queue and appending its id to what was acknowledged *)
LEMMA AckConserves ==
    ASSUME NEW sq, NEW ff, NEW en, NEW ac, Conserved(sq, ff, en, ac),
           NEW x \in ff, x.sequence = Len(ac[x.queue]) + 1
    PROVE  Conserved(sq, ff \ {x}, en, [ac EXCEPT ![x.queue] = Append(ac[x.queue], x.id)])
<1> DEFINE q == x.queue
           fn == ff \ {x}
           an == [ac EXCEPT ![q] = Append(ac[q], x.id)]
<1>0. /\ q \in Queue /\ x.id \in Id /\ ac[q] \in Seq(Id)
      /\ \A p \in Queue : Len(en[p]) \in Nat /\ Len(ac[p]) \in Nat /\ Len(ac[p]) <= Len(en[p])
      /\ x.sequence \in Len(ac[q]) + 1 .. Len(en[q]) /\ x.id = en[q][x.sequence]
  BY DEF Conserved, FifoRow
<1>1. /\ Append(ac[q], x.id) \in Seq(Id)
      /\ Len(Append(ac[q], x.id)) = Len(ac[q]) + 1
      /\ \A k \in 1 .. Len(ac[q]) : Append(ac[q], x.id)[k] = ac[q][k]
      /\ Append(ac[q], x.id)[Len(ac[q]) + 1] = x.id
  BY <1>0, AppendFacts
<1>2. /\ sq \in [Queue -> 0 .. I64Max] /\ fn \subseteq FifoRow
      /\ en \in [Queue -> Seq(Id)] /\ an \in [Queue -> Seq(Id)]
  BY <1>0, <1>1 DEF Conserved
<1>3. /\ an[q] = Append(ac[q], x.id)
      /\ \A p \in Queue : p # q => an[p] = ac[p]
  BY <1>0 DEF Conserved
<1> HIDE DEF an
<1>4. \A p \in Queue : /\ sq[p] = Len(en[p])
                       /\ Len(an[p]) <= Len(en[p])
                       /\ \A k \in 1 .. Len(an[p]) : an[p][k] = en[p][k]
  <2> TAKE p \in Queue
  <2>1. CASE p = q
    <3>1. sq[p] = Len(en[p]) /\ Len(an[p]) <= Len(en[p])
      BY <2>1, <1>0, <1>1, <1>3 DEF Conserved
    <3>2. ASSUME NEW k \in 1 .. Len(an[p]) PROVE an[p][k] = en[p][k]
      <4>1. CASE k = Len(ac[q]) + 1
        BY <4>1, <2>1, <1>0, <1>1, <1>3
      <4>2. CASE k # Len(ac[q]) + 1
        <5>1. k \in 1 .. Len(ac[q])
          BY <4>2, <2>1, <3>2, <1>0, <1>1, <1>3
        <5>2. ac[q][k] = en[q][k]
          BY <5>1, <1>0 DEF Conserved
        <5> QED BY <5>1, <5>2, <2>1, <1>1, <1>3
      <4> QED BY <4>1, <4>2
    <3> QED BY <3>1, <3>2
  <2>2. CASE p # q
    BY <2>2, <1>3 DEF Conserved
  <2> QED BY <2>1, <2>2
<1>5. ASSUME NEW p \in Queue, NEW s \in Len(an[p]) + 1 .. Len(en[p])
      PROVE  \E r \in fn : r.queue = p /\ r.sequence = s
  <2>1. s \in Len(ac[p]) + 1 .. Len(en[p])
    BY <1>0, <1>1, <1>3, <1>5
  <2>2. PICK r \in ff : r.queue = p /\ r.sequence = s
    BY <2>1 DEF Conserved
  <2>3. r # x
    BY <2>2, <1>0, <1>1, <1>3, <1>5
  <2> QED BY <2>2, <2>3
<1>6. \A r \in fn : /\ r.sequence \in Len(an[r.queue]) + 1 .. Len(en[r.queue])
                    /\ r.id = en[r.queue][r.sequence]
  <2> TAKE r \in fn
  <2>1. /\ r.queue \in Queue /\ r.sequence \in Len(ac[r.queue]) + 1 .. Len(en[r.queue])
        /\ r.id = en[r.queue][r.sequence]
    BY DEF Conserved, FifoRow
  <2>2. CASE r.queue = q
    <3>1. r.sequence # x.sequence
      BY <2>2 DEF Conserved
    <3> QED BY <2>1, <2>2, <3>1, <1>0, <1>1, <1>3
  <2>3. CASE r.queue # q
    BY <2>1, <2>3, <1>3
  <2> QED BY <2>2, <2>3
<1>7. \A r, e \in fn : r.queue = e.queue /\ r.sequence = e.sequence => r = e
  BY DEF Conserved
<1> QED BY <1>2, <1>4, <1>5, <1>6, <1>7 DEF Conserved, an

(* A row may be rewritten as long as queue, sequence and id stay. *)
LEMMA RewriteConserves ==
    ASSUME NEW sq, NEW ff, NEW en, NEW ac, Conserved(sq, ff, en, ac),
           NEW r \in ff, NEW x \in FifoRow,
           x.queue = r.queue, x.sequence = r.sequence, x.id = r.id
    PROVE  Conserved(sq, (ff \ {r}) \cup {x}, en, ac)
<1> DEFINE fn == (ff \ {r}) \cup {x}
<1>1. \A q \in Queue : \A s \in Len(ac[q]) + 1 .. Len(en[q]) :
         \E e \in fn : e.queue = q /\ e.sequence = s
  BY DEF Conserved
<1>2. \A e \in fn : /\ e.sequence \in Len(ac[e.queue]) + 1 .. Len(en[e.queue])
                    /\ e.id = en[e.queue][e.sequence]
  BY DEF Conserved
<1>3. \A e, d \in fn : e.queue = d.queue /\ e.sequence = d.sequence => e = d
  BY DEF Conserved
<1> QED BY <1>1, <1>2, <1>3 DEF Conserved

----------------------------------------------------------------------------
(* A response settles the message its consumer holds, or is lost. *)
LEMMA SettleType ==
    ASSUME held \in [Consumer -> Ticket \cup {Nothing}], NEW c \in Consumer, Settle(c)
    PROVE  held' \in [Consumer -> Ticket \cup {Nothing}]
BY DEF Settle

(* enqueue_fifo: the new row is the last. *)
LEMMA EnqueueStep ==
    ASSUME IInv, NEW q \in Queue, NEW id \in Id, Enqueue(q, id)
    PROVE  IInv' /\ LeavesAfterPeek
<1> DEFINE x == NewRow(q, id)
<1>0. /\ sequences[q] \in Nat /\ held' = held /\ acked' = acked
  BY FifoAssumption DEF IInv, Conserved, Enqueue
<1>1. CASE /\ sequences[q] + 1 <= I64Max
           /\ sequences' = [sequences EXCEPT ![q] = sequences[q] + 1]
           /\ fifo' = fifo \cup {x}
           /\ reply' = FifoAnswer(q, "ok")
  <2>1. /\ x \in FifoRow /\ x.queue = q /\ x.sequence = sequences[q] + 1 /\ x.id = id
    BY <1>0, FifoAssumption DEF NewRow, FifoRow
  <2>2. enqueued' = [enqueued EXCEPT ![q] = Append(enqueued[q], id)]
    BY <1>1 DEF Enqueue, FifoAnswer
  <2> HIDE DEF x
  <2>3. Conserved([sequences EXCEPT ![q] = sequences[q] + 1], fifo \cup {x},
                  [enqueued EXCEPT ![q] = Append(enqueued[q], x.id)], acked)
    BY Zenon, <1>1, <2>1, EnqueueConserves DEF IInv
  <2>4. Conserved(sequences', fifo', enqueued', acked')
    BY <1>0, <1>1, <2>1, <2>2, <2>3
  <2>5. LeavesAfterPeek
    BY <1>1 DEF LeavesAfterPeek
  <2>6. reply' \in Replies
    BY <1>1 DEF Replies, Answers, FifoAnswer
  <2> QED BY <1>0, <2>4, <2>5, <2>6 DEF IInv
<1>2. CASE /\ reply' \in {FifoAnswer(q, "InvalidArgument"), FifoAnswer(q, "Storage")}
           /\ UNCHANGED <<sequences, fifo>>
  <2>1. enqueued' = enqueued
    BY <1>2 DEF Enqueue, FifoAnswer
  <2>2. reply' \in Replies
    BY <1>2 DEF Replies, Answers, FifoAnswer
  <2> QED BY <1>0, <1>2, <2>1, <2>2 DEF IInv, Conserved, LeavesAfterPeek
<1> QED BY <1>1, <1>2 DEF Enqueue, EnqueueFifo

(* peek_fifo hands out the front and changes no table. *)
LEMMA PeekStep ==
    ASSUME IInv, NEW c \in Consumer, NEW q \in Queue, Peek(c, q)
    PROVE  IInv' /\ LeavesAfterPeek
<1>1. PICK r \in RowsOf(q) : held' = [held EXCEPT ![c] = [queue |-> q, id |-> r.id]]
  BY Zenon DEF Peek
<1>2. r.id \in Id
  BY DEF RowsOf, IInv, Conserved, FifoRow
<1>3. held' \in [Consumer -> Ticket \cup {Nothing}]
  BY <1>1, <1>2 DEF IInv, Ticket
<1>4. Conserved(sequences, fifo, enqueued, acked)'
  BY DEF Peek, IInv, Conserved
<1>5. (reply \in Replies)'
  BY DEF Peek, IInv, Replies, Answers
<1> QED BY <1>3, <1>4, <1>5 DEF Peek, IInv, LeavesAfterPeek

(* A request that finds another message at the front changes nothing. *)
LEMMA NotFrontStep ==
    ASSUME IInv, NEW c \in Consumer, NEW q \in Queue, NEW id, NotFront(q, id), Settle(c),
           UNCHANGED <<enqueued, acked>>
    PROVE  IInv' /\ LeavesAfterPeek
<1>1. held' \in [Consumer -> Ticket \cup {Nothing}]
  BY SettleType DEF IInv
<1>2. Conserved(sequences', fifo', enqueued', acked')
  BY DEF NotFront, IInv, Conserved
<1>3. reply' \in Replies
  BY DEF NotFront, Replies, Answers, FifoAnswer
<1> QED BY <1>1, <1>2, <1>3 DEF NotFront, IInv, LeavesAfterPeek

(* ack_fifo: only the front leaves, and somebody holds it. *)
LEMMA AckStep ==
    ASSUME IInv, NEW c \in Consumer, Ack(c)
    PROVE  IInv' /\ LeavesAfterPeek
<1>1. held[c] \in Ticket
  BY DEF Ack, IInv
<1>2. CASE /\ AckFifo(held[c].queue, held[c].id)
           /\ acked' = [acked EXCEPT ![held[c].queue] = Append(@, held[c].id)]
  <2>1. PICK r \in RowsOf(held[c].queue) :
            IsFirst(r) /\ r.id = held[c].id /\ fifo' = fifo \ {r}
    BY <1>2 DEF AckFifo
  <2>2. /\ r \in fifo /\ r.queue = held[c].queue
        /\ reply' = FifoAnswer(held[c].queue, "acknowledged")
        /\ sequences' = sequences /\ enqueued' = enqueued
    BY <1>2 DEF RowsOf, AckFifo, Ack
  <2>3. r.sequence = Len(acked[r.queue]) + 1
    BY <2>1, <2>2, FrontIsNext DEF IInv
  <2>4. Conserved(sequences, fifo \ {r}, enqueued,
                  [acked EXCEPT ![r.queue] = Append(acked[r.queue], r.id)])
    BY Zenon, <2>2, <2>3, AckConserves DEF IInv
  <2>5. acked' = [acked EXCEPT ![r.queue] = Append(acked[r.queue], r.id)]
    BY <1>2, <2>1, <2>2
  <2>6. Conserved(sequences', fifo', enqueued', acked')
    BY <2>1, <2>2, <2>4, <2>5
  <2>7. held' \in [Consumer -> Ticket \cup {Nothing}]
    BY SettleType DEF IInv, Ack
  <2>8. held[c] = [queue |-> r.queue, id |-> r.id]
    BY <1>1, <2>1, <2>2 DEF Ticket
  <2>9. LeavesAfterPeek
    BY Zenon, <2>1, <2>8 DEF LeavesAfterPeek
  <2>10. reply' \in Replies
    BY <1>1, <2>2 DEF Replies, Answers, FifoAnswer, Ticket
  <2> QED BY <2>6, <2>7, <2>9, <2>10 DEF IInv
<1>3. CASE NotFront(held[c].queue, held[c].id) /\ UNCHANGED acked
  BY <1>1, <1>3, NotFrontStep DEF Ack, Ticket
<1> QED BY <1>2, <1>3 DEF Ack

(* reject_fifo: the front stays, with one more attempt. *)
LEMMA RejectStep ==
    ASSUME IInv, NEW c \in Consumer, Reject(c)
    PROVE  IInv' /\ LeavesAfterPeek
<1>0. held[c] \in Ticket
  BY DEF Reject, IInv
<1>1. CASE RejectFifo(held[c].queue, held[c].id)
  <2>1. PICK r \in RowsOf(held[c].queue) :
            fifo' = (fifo \ {r}) \cup {[r EXCEPT !.attempts = Saturating(r.attempts)]}
    BY <1>1 DEF RejectFifo
  <2> DEFINE x == [r EXCEPT !.attempts = Saturating(r.attempts)]
  <2>2. /\ r \in fifo /\ r \in FifoRow
        /\ reply' = FifoAnswer(held[c].queue, "rejected") /\ sequences' = sequences
        /\ enqueued' = enqueued /\ acked' = acked
    BY <1>1 DEF RowsOf, RejectFifo, Reject, IInv, Conserved
  <2>3. Saturating(r.attempts) \in 0 .. U32Max
    BY <2>2, FifoAssumption DEF Saturating, FifoRow
  <2>4. x \in FifoRow /\ x.queue = r.queue /\ x.sequence = r.sequence /\ x.id = r.id
    BY <2>2, <2>3 DEF FifoRow
  <2> HIDE DEF x
  <2>5. fifo' = (fifo \ {r}) \cup {x}
    BY <2>1 DEF x
  <2>6. Conserved(sequences', fifo', enqueued', acked')
    BY <2>2, <2>4, <2>5, RewriteConserves DEF IInv
  <2>7. held' \in [Consumer -> Ticket \cup {Nothing}]
    BY SettleType DEF IInv, Reject
  <2>8. LeavesAfterPeek
    BY <2>4, <2>5 DEF LeavesAfterPeek
  <2>9. reply' \in Replies
    BY <1>0, <2>2 DEF Replies, Answers, FifoAnswer, Ticket
  <2> QED BY <2>6, <2>7, <2>8, <2>9 DEF IInv
<1>2. CASE NotFront(held[c].queue, held[c].id)
  BY <1>0, <1>2, NotFrontStep DEF Reject, Ticket
<1> QED BY <1>1, <1>2 DEF Reject

(* Every step of queues and consumers keeps the invariant. *)
LEMMA NextStep ==
    ASSUME IInv, [Next]_vars
    PROVE  IInv' /\ [LeavesAfterPeek]_vars
<1>1. CASE UNCHANGED vars
  <2>1. Conserved(sequences, fifo, enqueued, acked)'
    BY <1>1 DEF IInv, Conserved, vars
  <2>2. (held \in [Consumer -> Ticket \cup {Nothing}])'
    BY <1>1 DEF IInv, vars
  <2>3. (reply \in Replies)'
    BY <1>1 DEF IInv, Replies, Answers, vars
  <2> QED BY <1>1, <2>1, <2>2, <2>3 DEF IInv
<1>2. CASE \E q \in Queue, id \in Id : Enqueue(q, id)
  BY <1>2, EnqueueStep
<1>3. CASE \E c \in Consumer, q \in Queue : Peek(c, q)
  BY <1>3, PeekStep
<1>4. ASSUME NEW c \in Consumer, Forget(c)
      PROVE  IInv' /\ LeavesAfterPeek
  <2>1. Conserved(sequences, fifo, enqueued, acked)'
    BY <1>4 DEF Forget, IInv, Conserved
  <2>2. (held \in [Consumer -> Ticket \cup {Nothing}])'
    BY <1>4 DEF Forget, IInv
  <2>3. (reply \in Replies)'
    BY <1>4 DEF Forget, IInv, Replies, Answers
  <2> QED BY <1>4, <2>1, <2>2, <2>3 DEF Forget, IInv, LeavesAfterPeek
<1> QED BY <1>1, <1>2, <1>3, <1>4, AckStep, RejectStep DEF Next

(* The inductive invariant holds in every reachable state. *)
THEOREM QueuesConserved == Spec => []IInv
<1>1. Init => IInv
  <2>1. Init => Conserved(sequences, fifo, enqueued, acked)
    BY FifoAssumption DEF Init, FifoInit, Conserved
  <2>2. Init => reply \in Replies
    BY DEF Init, FifoInit, Replies, Answers, FifoAnswer
  <2> QED BY <2>1, <2>2 DEF Init, IInv
<1>2. IInv /\ [Next]_vars => IInv'
  BY NextStep
<1> QED BY <1>1, <1>2, PTL DEF Spec

(* Tables, tickets and histories have their types: sequence numbers stay in
   the column's range and attempts saturate. *)
THEOREM TypeCorrect == Spec => []TypeOK
<1>1. IInv => TypeOK
  BY DEF IInv, Conserved, Replies, TypeOK, FifoTypeOK
<1> QED BY <1>1, QueuesConserved, PTL

(* No message is lost, consumed twice or overtaken, whatever consumers do. *)
THEOREM NothingLost == Spec => []Conservation
<1>1. IInv => Conservation
  <2> SUFFICES ASSUME IInv, NEW q \in Queue
               PROVE  {r.sequence : r \in RowsOf(q)} = Len(acked[q]) + 1 .. Len(enqueued[q])
    BY DEF Conservation, IInv, Conserved, RowsOf
  <2>1. ASSUME NEW s \in Len(acked[q]) + 1 .. Len(enqueued[q])
        PROVE  s \in {r.sequence : r \in RowsOf(q)}
    <3>1. PICK r \in fifo : r.queue = q /\ r.sequence = s
      BY <2>1 DEF IInv, Conserved
    <3>2. r \in RowsOf(q)
      BY <3>1 DEF RowsOf
    <3> QED BY <3>1, <3>2
  <2>2. ASSUME NEW r \in RowsOf(q)
        PROVE  r.sequence \in Len(acked[q]) + 1 .. Len(enqueued[q])
    <3>1. r \in fifo /\ r.queue = q
      BY <2>2 DEF RowsOf
    <3> QED BY <3>1 DEF IInv, Conserved
  <2> QED BY <2>1, <2>2
<1> QED BY <1>1, QueuesConserved, PTL

(* A late or repeated acknowledgement removes no message its sender has not
   peeked at. *)
THEOREM LeavesOnlyPeeked == Spec => OnlyPeekedLeaves
<1>1. IInv /\ [Next]_vars => [LeavesAfterPeek]_vars
  BY NextStep
<1> QED BY <1>1, QueuesConserved, PTL DEF Spec, OnlyPeekedLeaves
=============================================================================
