---------------------------- MODULE DaemonProofs ----------------------------
(***************************************************************************)
(* What a reconnecting subscriber is given has strictly increasing head    *)
(* ids, for any number of topics and publish handlers, any limits and any  *)
(* number of faults, stops and starts.                                     *)
(*                                                                         *)
(* The argument follows a message from the server task to the caller:      *)
(* outbox, wire, returned.  In this order everything is strictly           *)
(* increasing, the items not yet returned lie between next_head_id and     *)
(* last_sent, and the report of a lag is the last item of its stream.      *)
(*                                                                         *)
(* If moreover publish handlers do not overlap and a replay covers the     *)
(* log, nothing is passed over: a stored message the client has not been   *)
(* handed is in the outbox, on the wire, ahead of the stream in the        *)
(* channel, or with its handler (NoGap).                                   *)
(***************************************************************************)
EXTENDS Daemon, TLAPS

USE SubscriptionAssumption

(* The items of a queue of the stream, with a lag reported at its end only *)
Ordered(s) == \A i, j \in 1 .. Len(s) :
                 i < j => s[i] # Lagged /\ (s[j] # Lagged => s[i] < s[j])

Within(s, from, to) == \A i \in 1 .. Len(s) : s[i] # Lagged => from <= s[i] /\ s[i] <= to

Reports(s) == \E i \in 1 .. Len(s) : s[i] = Lagged

(* Everything on the wire comes before everything in the outbox *)
WireFirst == \A i \in 1 .. Len(wire), j \in 1 .. Len(stream.outbox) :
                wire[i] # Lagged /\ (stream.outbox[j] # Lagged => wire[i] < stream.outbox[j])

InFlight ==
    /\ stream.phase \in {"closed", "opened"} => wire = <<>> /\ stream.outbox = <<>>
    /\ stream.phase = "opened" => stream.last_sent = client.next_head_id - 1
    /\ stream.phase # "closed" => stream.last_sent >= client.next_head_id - 1
    /\ Within(wire, client.next_head_id, stream.last_sent)
    /\ Within(stream.outbox, client.next_head_id, stream.last_sent)
    /\ Ordered(wire) /\ Ordered(stream.outbox) /\ WireFirst
    /\ Reports(wire) \/ Reports(stream.outbox) => stream.phase = "lagged"

Given == \A i \in 1 .. Len(client.returned) : client.returned[i] < client.next_head_id

IInv == /\ TypeOK
        /\ client.next_head_id <= heads[Subscribed] + 1
        /\ stream.last_sent <= heads[Subscribed]
        /\ \A k \in 1 .. Len(channel) : channel[k].head_id <= heads[channel[k].topic]
        /\ \A p \in Handler : handler[p] # Idle => handler[p].head_id <= heads[handler[p].topic]
        /\ InFlight /\ Given /\ StrictlyIncreasing

----------------------------------------------------------------------------
(* What Append and Tail do to the items of a sequence. *)
LEMMA AppendFacts ==
    ASSUME NEW S, NEW s \in Seq(S), NEW x \in S
    PROVE  /\ Append(s, x) \in Seq(S)
           /\ Len(s) \in Nat /\ Len(Append(s, x)) = Len(s) + 1
           /\ \A k \in 1 .. Len(s) : Append(s, x)[k] = s[k]
           /\ Append(s, x)[Len(s) + 1] = x
OBVIOUS

(* What reading the first item of a wire or an outbox leaves. *)
LEMMA TailFacts ==
    ASSUME NEW S, NEW s \in Seq(S), s # <<>>
    PROVE  /\ Head(s) \in S /\ Head(s) = s[1] /\ Tail(s) \in Seq(S)
           /\ Len(s) \in Nat \ {0} /\ Len(Tail(s)) = Len(s) - 1
           /\ \A k \in 1 .. Len(Tail(s)) : Tail(s)[k] = s[k + 1]
OBVIOUS

(* A daemon begins with nothing stored and nothing sent. *)
LEMMA InitInv == Init => IInv
  BY DEF Init, IInv, TypeOK, HeadSeq, Stream, InFlight, Given, StrictlyIncreasing, Closed, Within,
         Ordered, Reports, WireFirst, Message, Idle, Lagged

(* The parts of the invariant that only the stream and the client touch *)
LEMMA PublishKeeps ==
    ASSUME IInv, NEW p \in Handler, NEW t \in Topic, AppendMessage(p, t)
    PROVE  IInv'
<1>1. heads[t] \in Nat /\ heads[t] + 1 \in 1 .. MaxHead /\ heads[t] <= MaxHead
  BY DEF IInv, TypeOK, AppendMessage
<1>2. heads' \in [Topic -> 0 .. MaxHead] /\ (\A u \in Topic : heads[u] <= heads'[u])
      /\ heads'[t] = heads[t] + 1
  BY <1>1 DEF IInv, TypeOK, AppendMessage
<1>3. handler' \in [Handler -> Message \cup {Idle}]
  BY <1>1 DEF IInv, TypeOK, AppendMessage, Message
<1>4. \A q \in Handler : handler'[q] # Idle => handler'[q].head_id <= heads'[handler'[q].topic]
  <2> SUFFICES ASSUME NEW q \in Handler, handler'[q] # Idle
               PROVE  handler'[q].head_id <= heads'[handler'[q].topic]
    OBVIOUS
  <2>1. CASE q = p
    BY <2>1, <1>1, <1>2 DEF IInv, TypeOK, AppendMessage
  <2>2. CASE q # p
    <3>1. handler'[q] = handler[q] /\ handler[q] \in Message
      BY <2>2 DEF IInv, TypeOK, AppendMessage
    <3>2. handler[q].topic \in Topic /\ handler[q].head_id \in Nat
          /\ handler[q].head_id <= heads[handler[q].topic]
      BY <3>1 DEF Message, IInv
    <3>3. heads[handler[q].topic] \in Nat /\ heads'[handler[q].topic] \in Nat
      BY <3>2, <1>2 DEF IInv, TypeOK
    <3> QED BY <3>1, <3>2, <3>3, <1>2
  <2> QED BY <2>1, <2>2
<1>5. \A k \in 1 .. Len(channel) : channel[k].head_id <= heads'[channel[k].topic]
  <2> SUFFICES ASSUME NEW k \in 1 .. Len(channel)
               PROVE  channel[k].head_id <= heads'[channel[k].topic]
    OBVIOUS
  <2>1. channel[k] \in Message
    BY DEF IInv, TypeOK
  <2>2. channel[k].topic \in Topic /\ channel[k].head_id \in Nat
        /\ channel[k].head_id <= heads[channel[k].topic]
    BY <2>1 DEF Message, IInv
  <2>3. heads[channel[k].topic] \in Nat /\ heads'[channel[k].topic] \in Nat
    BY <2>2, <1>2 DEF IInv, TypeOK
  <2> QED BY <2>2, <2>3, <1>2
<1>6. client.next_head_id <= heads'[Subscribed] + 1 /\ stream.last_sent <= heads'[Subscribed]
  BY <1>2 DEF IInv, TypeOK, Stream
<1> QED
  BY <1>2, <1>3, <1>4, <1>5, <1>6
  DEF IInv, TypeOK, AppendMessage, InFlight, Within, Ordered, Reports, WireFirst, Given,
      StrictlyIncreasing

(* Sending a stored message to the channel. *)
LEMMA SendKeeps ==
    ASSUME IInv, NEW p \in Handler, PublishedSend(p)
    PROVE  IInv'
<1>1. handler[p] \in Message /\ handler[p].head_id <= heads[handler[p].topic]
  BY DEF IInv, TypeOK, PublishedSend
<1>2. /\ channel' \in Seq(Message) /\ Len(channel) \in Nat /\ Len(channel') = Len(channel) + 1
      /\ \A k \in 1 .. Len(channel) : channel'[k] = channel[k]
      /\ channel'[Len(channel) + 1] = handler[p]
  BY <1>1, AppendFacts DEF IInv, TypeOK, PublishedSend
<1>3. \A k \in 1 .. Len(channel') : channel'[k].head_id <= heads[channel'[k].topic]
  <2> SUFFICES ASSUME NEW k \in 1 .. Len(channel')
               PROVE  channel'[k].head_id <= heads[channel'[k].topic]
    OBVIOUS
  <2>1. k \in 1 .. Len(channel) \/ k = Len(channel) + 1
    BY <1>2
  <2> QED BY <2>1, <1>1, <1>2 DEF IInv
<1>4. handler' \in [Handler -> Message \cup {Idle}]
      /\ \A q \in Handler : handler'[q] # Idle => handler'[q] = handler[q]
  BY DEF IInv, TypeOK, PublishedSend
<1> QED
  BY <1>2, <1>3, <1>4
  DEF IInv, TypeOK, PublishedSend, InFlight, Within, Ordered, Reports, WireFirst, Given,
      StrictlyIncreasing

(* Taking the first item of a queue keeps its order and its range. *)
LEMMA TailQueue ==
    ASSUME NEW s \in HeadSeq, s # <<>>, NEW f \in Nat, NEW l \in Nat
    PROVE  /\ Ordered(s) => Ordered(Tail(s))
           /\ Within(s, f, l) => Within(Tail(s), f, l)
           /\ Reports(Tail(s)) => Reports(s)
           /\ \A k \in 1 .. Len(Tail(s)) : \E j \in 2 .. Len(s) : Tail(s)[k] = s[j]
           /\ \A k \in 1 .. Len(s) : s[k] \in 0 .. MaxHead
<1>1. /\ Tail(s) \in HeadSeq /\ Len(s) \in Nat \ {0} /\ Len(Tail(s)) = Len(s) - 1
      /\ \A k \in 1 .. Len(Tail(s)) : Tail(s)[k] = s[k + 1]
      /\ \A k \in 1 .. Len(s) : s[k] \in 0 .. MaxHead
  BY TailFacts DEF HeadSeq
<1>2. \A k \in 1 .. Len(Tail(s)) : k + 1 \in 1 .. Len(s) /\ k + 1 \in 2 .. Len(s)
  BY <1>1
<1>3. Ordered(s) => Ordered(Tail(s))
  <2> SUFFICES ASSUME Ordered(s), NEW i \in 1 .. Len(Tail(s)), NEW j \in 1 .. Len(Tail(s)), i < j
               PROVE  Tail(s)[i] # Lagged /\ (Tail(s)[j] # Lagged => Tail(s)[i] < Tail(s)[j])
    BY DEF Ordered
  <2>1. i + 1 \in 1 .. Len(s) /\ j + 1 \in 1 .. Len(s) /\ i + 1 < j + 1
    BY <1>1
  <2> QED BY <1>1, <2>1 DEF Ordered
<1>4. Within(s, f, l) => Within(Tail(s), f, l)
  BY <1>1, <1>2 DEF Within
<1>5. Reports(Tail(s)) => Reports(s)
  BY <1>1, <1>2 DEF Reports
<1> QED BY <1>1, <1>2, <1>3, <1>4, <1>5

(* What a replay sends. *)
LEMMA AscendingFacts ==
    ASSUME NEW from \in Nat, NEW n \in Nat, from >= 1, from + n <= MaxHead + 1
    PROVE  /\ Ascending(from, n) \in HeadSeq /\ Len(Ascending(from, n)) = n
           /\ Ordered(Ascending(from, n)) /\ ~Reports(Ascending(from, n))
           /\ Within(Ascending(from, n), from, from + n - 1)
<1>1. \A k \in 1 .. n : from + k - 1 \in 0 .. MaxHead
  OBVIOUS
<1>2. Ascending(from, n) \in HeadSeq /\ Len(Ascending(from, n)) = n
  BY <1>1 DEF Ascending, HeadSeq
<1>3. \A k \in 1 .. n : Ascending(from, n)[k] = from + k - 1
  BY DEF Ascending
<1> QED BY <1>2, <1>3 DEF Ordered, Reports, Within, Lagged

(* The server task of the subscription: joining the channel, replay, sending
   and the live stream. *)
LEMMA SubscribeKeeps == ASSUME IInv, Subscribe PROVE IInv'
<1>1. client.next_head_id \in 1 .. MaxHead + 1 /\ heads[Subscribed] \in 0 .. MaxHead
      /\ wire = <<>> /\ client.next_head_id <= heads[Subscribed] + 1
  BY DEF IInv, TypeOK, Subscribe, InFlight
<1>2. stream' \in Stream
  BY <1>1 DEF IInv, TypeOK, Subscribe, HeadSeq, Stream
<1>3. /\ stream'.phase = "opened" /\ stream'.outbox = <<>>
      /\ stream'.last_sent = client.next_head_id - 1
      /\ UNCHANGED <<heads, handler, channel, wire, client, faults>>
  BY DEF Subscribe
<1> QED
  BY <1>1, <1>2, <1>3
  DEF IInv, TypeOK, InFlight, Within, Ordered, Reports, WireFirst, Given, StrictlyIncreasing

(* subscribe reads the stored messages: they start at the resume point. *)
LEMMA ReplayKeeps == ASSUME IInv, Replay PROVE IInv'
<1> DEFINE from == client.next_head_id
           n == Stored(from)
<1>1. /\ from \in 1 .. MaxHead + 1 /\ heads[Subscribed] \in 0 .. MaxHead
      /\ wire = <<>> /\ from <= heads[Subscribed] + 1 /\ stream.last_sent = from - 1
      /\ UNCHANGED <<heads, handler, channel, wire, client, faults>>
  BY DEF IInv, TypeOK, Replay, InFlight
<1>2. n \in Nat /\ from + n <= heads[Subscribed] + 1
  BY <1>1 DEF Stored
<1>3. /\ Ascending(from, n) \in HeadSeq /\ Len(Ascending(from, n)) = n
      /\ Ordered(Ascending(from, n)) /\ ~Reports(Ascending(from, n))
      /\ Within(Ascending(from, n), from, from - 1 + n)
  <2> HIDE DEF n
  <2>1. from \in Nat /\ from >= 1 /\ from + n <= MaxHead + 1 /\ from + n - 1 = from - 1 + n
    BY <1>1, <1>2
  <2>2. Within(Ascending(from, n), from, from + n - 1)
    BY <1>2, <2>1, AscendingFacts
  <2> QED BY <1>2, <2>1, <2>2, AscendingFacts
<1>4. /\ stream' \in Stream /\ stream'.phase = "running"
      /\ stream'.outbox = Ascending(from, n) /\ stream'.last_sent = from - 1 + n
  <2> HIDE DEF from, n
  <2>1. stream \in Stream
    BY DEF IInv, TypeOK
  <2>2. stream' = [stream EXCEPT !.phase = "running", !.outbox = Ascending(from, n),
                                 !.last_sent = stream.last_sent + n]
    BY DEF Replay, from, n
  <2>3. stream.last_sent + n = from - 1 + n /\ from - 1 + n \in Nat
    BY <1>1, <1>2
  <2> QED BY Zenon, <1>3, <2>1, <2>2, <2>3 DEF Stream
<1>5. Ordered(<<>>) /\ ~Reports(<<>>) /\ Within(<<>>, from, from - 1 + n)
  BY DEF Ordered, Reports, Within
<1> QED
  <2> HIDE DEF n
  <2>1. InFlight'
    BY <1>1, <1>2, <1>3, <1>4, <1>5 DEF InFlight, WireFirst
  <2> QED
    BY <1>1, <1>2, <1>4, <2>1 DEF IInv, TypeOK, Given, StrictlyIncreasing

(* tx.send moves the first item of the outbox to the wire. *)
LEMMA TxSendKeeps == ASSUME IInv, TxSend PROVE IInv'
<1>0. PICK o : o = stream.outbox
  OBVIOUS
<1>1. /\ wire \in HeadSeq /\ o \in HeadSeq /\ o # <<>>
      /\ stream \in Stream /\ wire' = Append(wire, Head(o))
      /\ UNCHANGED <<heads, handler, channel, client, faults>>
  BY <1>0 DEF IInv, TypeOK, TxSend, Stream
<1>2. PICK q : q = Tail(o)
  BY Zenon
<1>3. /\ Head(o) \in 0 .. MaxHead /\ Head(o) = o[1] /\ q \in HeadSeq /\ Len(o) \in Nat \ {0}
  BY <1>1, <1>2, TailFacts DEF HeadSeq
<1>4. /\ wire' \in HeadSeq /\ Len(wire) \in Nat /\ Len(wire') = Len(wire) + 1
      /\ \A k \in 1 .. Len(wire) : wire'[k] = wire[k]
      /\ wire'[Len(wire) + 1] = o[1]
  BY <1>1, <1>3, AppendFacts DEF HeadSeq
<1>5. /\ stream' \in Stream /\ stream'.outbox = q /\ stream'.phase = stream.phase
      /\ stream'.last_sent = stream.last_sent
  <2>1. stream' = [stream EXCEPT !.outbox = q]
    BY <1>0, <1>2 DEF TxSend
  <2> QED BY Zenon, <1>1, <1>3, <2>1 DEF Stream
<1>6. TypeOK'
  BY <1>1, <1>4, <1>5 DEF IInv, TypeOK
<1>7. /\ client.next_head_id \in Nat /\ stream.last_sent \in Nat
      /\ 1 \in 1 .. Len(o) /\ o[1] \in Nat
      /\ \A k \in 1 .. Len(wire') : k \in 1 .. Len(wire) \/ k = Len(wire) + 1
  <2>1. client.next_head_id \in Nat /\ stream.last_sent \in Nat
    BY DEF IInv, TypeOK, Stream
  <2>2. 1 \in 1 .. Len(o) /\ Head(o) \in Nat
    BY <1>3
  <2> QED BY <1>3, <1>4, <2>1, <2>2
<1>8. InFlight'
  <2>1. /\ Within(wire, client.next_head_id, stream.last_sent)
        /\ Within(o, client.next_head_id, stream.last_sent)
        /\ Ordered(wire) /\ Ordered(o) /\ stream.phase \notin {"closed", "opened"}
        /\ \A i \in 1 .. Len(wire), j \in 1 .. Len(o) :
              wire[i] # Lagged /\ (o[j] # Lagged => wire[i] < o[j])
    BY <1>0 DEF IInv, InFlight, WireFirst, TxSend
  <2>2. Within(wire', client.next_head_id, stream.last_sent)
    BY <1>4, <1>7, <2>1 DEF Within
  <2>3. Within(q, client.next_head_id, stream.last_sent) /\ Ordered(q)
    BY <1>1, <1>2, <1>7, <2>1, TailQueue
  <2>4. Ordered(wire')
    BY <1>4, <1>7, <2>1 DEF Ordered
  <2>5. \A k \in 1 .. Len(q) : \E j \in 2 .. Len(o) : q[k] = o[j]
    BY <1>1, <1>2, <1>7, TailQueue
  <2>6. \A j \in 2 .. Len(o) : 1 < j /\ j \in 1 .. Len(o)
    BY <1>3
  <2>7. \A i \in 1 .. Len(wire'), j \in 1 .. Len(q) :
           wire'[i] # Lagged /\ (q[j] # Lagged => wire'[i] < q[j])
    BY Zenon, <1>4, <1>7, <2>1, <2>5, <2>6 DEF Ordered
  <2>8. Reports(wire') \/ Reports(q) => Reports(wire) \/ Reports(o)
    <3>1. Reports(q) => Reports(o)
      BY <1>1, <1>2, <1>7, TailQueue
    <3>2. Reports(wire') => Reports(wire) \/ Reports(o)
      BY <1>4, <1>7 DEF Reports
    <3> QED BY <3>1, <3>2
  <2> QED
    BY <1>0, <1>1, <1>5, <2>1, <2>2, <2>3, <2>4, <2>7, <2>8 DEF IInv, InFlight, WireFirst
<1> QED BY <1>1, <1>5, <1>6, <1>8 DEF IInv, Given, StrictlyIncreasing

(* live.next yields a message, and the filter on last_sent keeps the order. *)
LEMMA LiveNextKeeps == ASSUME IInv, LiveNext PROVE IInv'
<1>0. PICK m : m = channel[stream.pos + 1]
  OBVIOUS
<1>1. stream \in Stream /\ stream.outbox = <<>> /\ stream.phase = "running"
  BY DEF IInv, TypeOK, LiveNext
<1>2. stream.pos + 1 \in 1 .. Len(channel)
  BY <1>1 DEF IInv, TypeOK, LiveNext, Behind, Stream
<1>3. PICK n : n = stream.pos + 1
  OBVIOUS
<1>4. n \in Nat
  BY <1>1, <1>3 DEF Stream
<1>5. m \in Message /\ m.head_id <= heads[m.topic]
  BY <1>0, <1>2 DEF IInv, TypeOK
<1>6. UNCHANGED <<heads, handler, channel, wire, client, faults>>
  BY DEF LiveNext
<1>7. CASE ~Wanted(m)
  <2>1. stream' = [stream EXCEPT !.pos = n, !.outbox = <<>>,
                                 !.last_sent = stream.last_sent]
    BY <1>0, <1>3, <1>7 DEF LiveNext
  <2>2. <<>> \in HeadSeq
    BY DEF HeadSeq
  <2>3. /\ stream' \in Stream /\ stream'.phase = stream.phase
        /\ stream'.outbox = stream.outbox /\ stream'.last_sent = stream.last_sent
    BY Zenon, <1>1, <1>4, <2>1, <2>2 DEF Stream
  <2>4. InFlight'
    BY <1>6, <2>3 DEF IInv, InFlight, WireFirst
  <2> QED BY <1>6, <2>3, <2>4 DEF IInv, TypeOK, Given, StrictlyIncreasing
<1>8. CASE Wanted(m)
  <2>0. PICK h : h = m.head_id
    OBVIOUS
  <2>1. h \in 1 .. MaxHead /\ h <= heads[Subscribed] /\ h > stream.last_sent
    BY <1>5, <1>8, <2>0 DEF Message, Wanted
  <2>2. PICK o : o = <<h>>
    BY Zenon
  <2>3. stream' = [stream EXCEPT !.pos = n, !.outbox = o, !.last_sent = h]
    BY <1>0, <1>3, <1>8, <2>0, <2>2 DEF LiveNext
  <2>4. o \in HeadSeq /\ h \in Nat
    BY <2>1, <2>2 DEF HeadSeq
  <2>5. /\ stream' \in Stream /\ stream'.phase = "running"
        /\ stream'.outbox = <<h>> /\ stream'.last_sent = h
    <3>1. /\ stream' \in Stream /\ stream'.phase = stream.phase
          /\ stream'.outbox = o /\ stream'.last_sent = h
      BY Zenon, <1>1, <1>4, <2>3, <2>4 DEF Stream
    <3> QED BY <1>1, <2>2, <3>1
  <2>6. /\ client.next_head_id \in Nat /\ stream.last_sent \in Nat /\ wire \in HeadSeq
        /\ stream.last_sent >= client.next_head_id - 1
        /\ Within(wire, client.next_head_id, stream.last_sent) /\ Ordered(wire) /\ ~Reports(wire)
    BY <1>1 DEF IInv, TypeOK, InFlight, Stream
  <2>7. \A i \in 1 .. Len(wire) : wire[i] \in Nat
    BY <2>6 DEF HeadSeq
  <2>8. Within(wire, client.next_head_id, h) /\ Within(<<h>>, client.next_head_id, h)
    BY <2>1, <2>6, <2>7 DEF Within
  <2>9. Ordered(<<h>>) /\ ~Reports(<<h>>)
    BY <2>1 DEF Ordered, Reports, Lagged
  <2>10. \A i \in 1 .. Len(wire), j \in 1 .. Len(<<h>>) :
           wire[i] # Lagged /\ (<<h>>[j] # Lagged => wire[i] < <<h>>[j])
    BY <2>1, <2>6, <2>7 DEF Within, Reports
  <2>11. InFlight'
    BY <1>6, <2>1, <2>5, <2>6, <2>8, <2>9, <2>10 DEF InFlight, WireFirst
  <2> QED BY Zenon, <1>6, <2>1, <2>5, <2>11 DEF IInv, TypeOK, Given, StrictlyIncreasing
<1> QED BY <1>7, <1>8

(* live.next reports a lag, and the task sends nothing after it. *)
LEMMA LiveLaggedKeeps == ASSUME IInv, LiveLagged PROVE IInv'
<1>1. /\ stream \in Stream /\ stream.outbox = <<>> /\ stream.phase = "running"
      /\ UNCHANGED <<heads, handler, channel, wire, client, faults>>
      /\ stream' = [stream EXCEPT !.phase = "lagged", !.outbox = <<Lagged>>]
  BY DEF IInv, TypeOK, LiveLagged
<1>2. <<Lagged>> \in HeadSeq
  BY DEF HeadSeq, Lagged
<1>3. /\ stream' \in Stream /\ stream'.phase = "lagged"
      /\ stream'.outbox = <<Lagged>> /\ stream'.last_sent = stream.last_sent
  BY Zenon, <1>1, <1>2 DEF Stream
<1>4. /\ Within(wire, client.next_head_id, stream.last_sent) /\ Ordered(wire) /\ ~Reports(wire)
      /\ stream.last_sent >= client.next_head_id - 1
  BY <1>1 DEF IInv, InFlight
<1>5. Ordered(<<Lagged>>) /\ Within(<<Lagged>>, client.next_head_id, stream.last_sent)
  BY DEF Ordered, Within
<1>6. \A i \in 1 .. Len(wire), j \in 1 .. Len(<<Lagged>>) :
         wire[i] # Lagged /\ (<<Lagged>>[j] # Lagged => wire[i] < <<Lagged>>[j])
  BY <1>4 DEF Reports
<1>7. InFlight'
  BY <1>1, <1>3, <1>4, <1>5, <1>6 DEF InFlight, WireFirst
<1> QED BY <1>1, <1>3, <1>7 DEF IInv, TypeOK, Given, StrictlyIncreasing

(* The client: a message returned, and every way the stream goes away. *)
LEMMA NextMessageKeeps == ASSUME IInv, NextMessage PROVE IInv'
<1>0. PICK x, q, r : x = Head(wire) /\ q = Tail(wire) /\ r = client.returned
  BY Zenon
<1>1. /\ wire \in HeadSeq /\ wire # <<>> /\ x # Lagged /\ r \in HeadSeq
      /\ wire' = q /\ UNCHANGED <<heads, handler, channel, stream, faults>>
      /\ client.next_head_id \in Nat /\ stream.last_sent \in Nat /\ stream \in Stream
  BY <1>0 DEF IInv, TypeOK, NextMessage, Stream
<1>2. /\ x \in 0 .. MaxHead /\ x = wire[1] /\ q \in HeadSeq /\ 1 \in 1 .. Len(wire)
      /\ \A k \in 1 .. Len(q) : \E j \in 2 .. Len(wire) : q[k] = wire[j]
      /\ \A j \in 2 .. Len(wire) : 1 < j /\ j \in 1 .. Len(wire) /\ wire[j] \in Nat
  <2>1. /\ x \in 0 .. MaxHead /\ x = wire[1] /\ q \in HeadSeq /\ Len(wire) \in Nat \ {0}
    BY <1>0, <1>1, TailFacts DEF HeadSeq
  <2>2. \A k \in 1 .. Len(q) : \E j \in 2 .. Len(wire) : q[k] = wire[j]
    BY <1>0, <1>1, TailQueue
  <2>3. \A j \in 1 .. Len(wire) : wire[j] \in Nat
    BY <1>1 DEF HeadSeq
  <2> QED BY <2>1, <2>2, <2>3
<1>3. client.next_head_id <= x /\ x <= stream.last_sent /\ x \in 1 .. MaxHead
  BY <1>1, <1>2 DEF IInv, InFlight, Within, Lagged
<1>4. /\ Append(r, x) \in HeadSeq /\ Len(r) \in Nat /\ Len(Append(r, x)) = Len(r) + 1
      /\ \A k \in 1 .. Len(r) : Append(r, x)[k] = r[k] /\ r[k] \in Nat
      /\ Append(r, x)[Len(r) + 1] = x
  BY <1>1, <1>2, AppendFacts DEF HeadSeq
<1>5. client' = [next_head_id |-> x + 1, returned |-> Append(r, x)]
  BY <1>0 DEF NextMessage, Advanced
<1>6. PICK g : g = Append(r, x)
  BY Zenon
<1>7. /\ client' \in [next_head_id : 1 .. MaxHead + 1, returned : HeadSeq]
      /\ client'.next_head_id = x + 1 /\ client'.returned = g
  BY <1>3, <1>4, <1>5, <1>6
<1>8. /\ Len(r) \in Nat /\ Len(g) = Len(r) + 1 /\ g[Len(r) + 1] = x
      /\ \A k \in 1 .. Len(r) : g[k] = r[k] /\ r[k] \in Nat /\ r[k] < x
      /\ \A k \in 1 .. Len(g) : k \in 1 .. Len(r) \/ k = Len(r) + 1
  <2>1. \A k \in 1 .. Len(r) : r[k] < client.next_head_id
    BY <1>0 DEF IInv, Given
  <2> QED BY <1>1, <1>3, <1>4, <1>6, <2>1
<1>9. Given' /\ StrictlyIncreasing'
  <2>1. \A k \in 1 .. Len(g) : g[k] < x + 1
    BY <1>3, <1>8
  <2>2. \A i, j \in 1 .. Len(r) : i < j => r[i] < r[j]
    BY <1>0 DEF IInv, StrictlyIncreasing
  <2>3. \A i, j \in 1 .. Len(g) : i < j => g[i] < g[j]
    BY <1>8, <2>2
  <2> QED BY <1>7, <2>1, <2>3 DEF Given, StrictlyIncreasing
<1>10. InFlight'
  <2>1. /\ Within(wire, client.next_head_id, stream.last_sent)
        /\ Within(stream.outbox, client.next_head_id, stream.last_sent)
        /\ Ordered(wire) /\ Ordered(stream.outbox) /\ WireFirst
        /\ stream.phase \notin {"closed", "opened"}
        /\ Reports(wire) \/ Reports(stream.outbox) => stream.phase = "lagged"
    BY <1>1 DEF IInv, InFlight
  <2>2. Ordered(q) /\ (Reports(q) => Reports(wire))
    BY <1>0, <1>1, <2>1, TailQueue
  <2>3. Within(q, x + 1, stream.last_sent)
    BY <1>2, <1>3, <2>1 DEF Within, Ordered
  <2>4. \A k \in 1 .. Len(stream.outbox) : stream.outbox[k] \in Nat
    BY <1>1 DEF Stream, HeadSeq
  <2>5. Within(stream.outbox, x + 1, stream.last_sent)
    BY <1>1, <1>2, <1>3, <2>1, <2>4 DEF Within, WireFirst
  <2>6. \A i \in 1 .. Len(q), j \in 1 .. Len(stream.outbox) :
           q[i] # Lagged /\ (stream.outbox[j] # Lagged => q[i] < stream.outbox[j])
    BY Zenon, <1>2, <2>1 DEF WireFirst
  <2> QED BY <1>1, <1>3, <1>7, <2>1, <2>2, <2>3, <2>5, <2>6 DEF InFlight, WireFirst
<1> QED
  <2>1. x + 1 <= heads[Subscribed] + 1
    BY <1>1, <1>3 DEF IInv, TypeOK
  <2> QED BY <1>1, <1>2, <1>7, <1>9, <1>10, <2>1 DEF IInv, TypeOK

(* A stream that ends, for whatever reason, takes with it what was on its way. *)
LEMMA CloseKeeps ==
    ASSUME IInv, stream' = Closed, wire' = <<>>, UNCHANGED <<heads, client>>,
           UNCHANGED <<handler, channel>> \/ Gone, faults' \in 0 .. MaxFaults
    PROVE  IInv'
<1>1. /\ stream' \in Stream /\ stream'.phase = "closed" /\ stream'.outbox = <<>>
      /\ stream'.last_sent = 0 /\ wire' \in HeadSeq
  BY DEF Closed, Stream, HeadSeq
<1>2. /\ handler' \in [Handler -> Message \cup {Idle}] /\ channel' \in Seq(Message)
      /\ \A k \in 1 .. Len(channel') : channel'[k].head_id <= heads[channel'[k].topic]
      /\ \A p \in Handler : handler'[p] # Idle
                             => handler'[p].head_id <= heads[handler'[p].topic]
  <2>1. CASE UNCHANGED <<handler, channel>>
    BY <2>1 DEF IInv, TypeOK
  <2>2. CASE Gone
    BY <2>2 DEF Gone
  <2> QED BY <2>1, <2>2
<1>3. InFlight'
  BY <1>1 DEF InFlight, Within, Ordered, Reports, WireFirst
<1> QED BY <1>1, <1>2, <1>3 DEF IInv, TypeOK, Given, StrictlyIncreasing

(* Every step of the calls, and every step of the daemon's life. *)
LEMMA CallsKeep == ASSUME IInv, Calls PROVE IInv'
<1>1. CASE Subscribe BY <1>1, SubscribeKeeps
<1>2. CASE \E p \in Handler, t \in Topic : AppendMessage(p, t) BY <1>2, PublishKeeps
<1>3. CASE \E p \in Handler : PublishedSend(p) BY <1>3, SendKeeps
<1>4. CASE Replay BY <1>4, ReplayKeeps
<1>5. CASE TxSend BY <1>5, TxSendKeeps
<1>6. CASE LiveNext BY <1>6, LiveNextKeeps
<1>7. CASE LiveLagged BY <1>7, LiveLaggedKeeps
<1>8. CASE NextMessage BY <1>8, NextMessageKeeps
<1>9. CASE DropStream
  BY <1>9, CloseKeeps DEF DropStream, IInv, TypeOK
<1>10. CASE StreamBreaks
  <2>1. faults' \in 0 .. MaxFaults
    BY <1>10 DEF StreamBreaks, IInv, TypeOK
  <2> QED BY <1>10, <2>1, CloseKeeps DEF StreamBreaks
<1> QED
  BY <1>1, <1>2, <1>3, <1>4, <1>5, <1>6, <1>7, <1>8, <1>9, <1>10
  DEF Calls, Accepted, Ongoing, Server

(* The steps of serve and of the sync loop leave the subscription alone. *)
LEMMA StutterKeeps == ASSUME IInv, UNCHANGED vars PROVE IInv'
  BY DEF IInv, TypeOK, vars, InFlight, Within, Ordered, Reports, WireFirst, Given,
         StrictlyIncreasing

(* Every step of the daemon keeps the invariant. *)
LEMMA DaemonKeeps == ASSUME IInv, [DaemonNext]_allVars PROVE IInv'
<1>1. CASE Calls BY <1>1, CallsKeep
<1>2. CASE Signal \/ Tick \/ PassEnds \/ LoopBreaks \/ Drained \/ Start
  BY <1>2, StutterKeeps DEF Signal, Tick, PassEnds, LoopBreaks, Drained, Start
<1>3. CASE Ends
  BY <1>3, CloseKeeps DEF Ends, Gone, IInv, TypeOK
<1>4. CASE Dies
  <2>1. faults' \in 0 .. MaxFaults /\ Gone
    BY <1>4 DEF Dies, DaemonRestarts, IInv, TypeOK, Gone
  <2> QED BY <2>1, CloseKeeps DEF Gone
<1>5. CASE UNCHANGED allVars
  BY <1>5, StutterKeeps DEF allVars, vars
<1> QED BY <1>1, <1>2, <1>3, <1>4, <1>5 DEF DaemonNext, ExitJoined, ExitTimedOut

----------------------------------------------------------------------------
(* A subscriber that reconnects is given every head id at most once and in
   increasing order, although replay and live stream overlap, through lags,
   broken streams, crashes, shutdowns and restarts of the daemon. *)
THEOREM SubscriberInOrder == DaemonSpec => []StrictlyIncreasing
<1>1. DaemonInit => IInv
  BY InitInv DEF DaemonInit
<1>2. IInv /\ [DaemonNext]_allVars => IInv'
  BY DaemonKeeps
<1>3. IInv => StrictlyIncreasing
  BY DEF IInv
<1> QED BY <1>1, <1>2, <1>3, PTL DEF DaemonSpec

(* The state of the daemon stays within its types; in particular the resume
   point of the client never passes the head of its topic by more than one, and
   serve goes through its stages whatever the sync loop and the calls do. *)
THEOREM DaemonTypes ==
    DaemonSpec => [](DaemonTypeOK /\ client.next_head_id <= heads[Subscribed] + 1)
<1> DEFINE Stages == /\ server \in {"serving", "draining", "joining", "exited"}
                     /\ loop \in {"absent", "select", "pass", "ended"}
                     /\ signals \in 0 .. MaxSignals
<1>1. DaemonInit => IInv /\ Stages
  BY InitInv, SignalAssumption DEF DaemonInit, Spawned
<1>2. IInv /\ [DaemonNext]_allVars => IInv'
  BY DaemonKeeps
<1>3. Stages /\ [DaemonNext]_allVars => Stages'
  <2> SUFFICES ASSUME Stages, [DaemonNext]_allVars
               PROVE  Stages'
    OBVIOUS
  <2>1. CASE UNCHANGED daemonVars
    BY <2>1 DEF daemonVars
  <2>2. CASE Signal
    BY <2>2, SignalAssumption DEF Signal
  <2>3. CASE Tick \/ PassEnds \/ LoopBreaks \/ Drained \/ Ends \/ Start \/ Dies
    BY <2>3 DEF Tick, PassEnds, LoopBreaks, Drained, Ends, Start, Dies, Spawned
  <2> QED
    BY <2>1, <2>2, <2>3 DEF DaemonNext, Calls, ExitJoined, ExitTimedOut, allVars, daemonVars
<1>4. IInv /\ Stages => DaemonTypeOK /\ client.next_head_id <= heads[Subscribed] + 1
  BY DEF IInv, DaemonTypeOK
<1> QED BY <1>1, <1>2, <1>3, <1>4, PTL DEF DaemonSpec

(* The sync loop of a daemon in service never ends. *)
THEOREM SyncLoopServes == DaemonSpec => []SyncsWhileServing
<1>1. DaemonInit => SyncsWhileServing
  BY DEF DaemonInit, Spawned, SyncsWhileServing
<1>2. SyncsWhileServing /\ [DaemonNext]_allVars => SyncsWhileServing'
  BY DEF SyncsWhileServing, Told, Changed, DaemonNext, Calls, daemonVars, allVars, Signal, Tick,
         PassEnds, LoopBreaks, Drained, Ends, ExitJoined, ExitTimedOut, Start, Dies, Spawned
<1> QED BY <1>1, <1>2, PTL DEF DaemonSpec

----------------------------------------------------------------------------
(***************************************************************************)
(* Nothing is left out, if publishes do not overlap and one page of the    *)
(* store holds the replay.                                                 *)
(***************************************************************************)
(* The conditions without which the subscriber can miss a message *)
OneByOne == \A p, q \in Handler : p = q
ReplayInFull == MaxHead <= ReplayLimit

(* The live stream will still yield the message h, or its handler will send it *)
Coming(h) == \/ \E k \in stream.pos + 1 .. Len(channel) :
                   channel[k].topic = Subscribed /\ channel[k].head_id = h
             \/ \E p \in Handler : handler[p].topic = Subscribed /\ handler[p].head_id = h

(* Messages of a topic enter the channel in the order they were stored *)
ChannelInOrder ==
    /\ \A i, j \in 1 .. Len(channel) :
          i < j /\ channel[i].topic = channel[j].topic => channel[i].head_id < channel[j].head_id
    /\ \A p \in Handler, i \in 1 .. Len(channel) :
          handler[p] # Idle /\ channel[i].topic = handler[p].topic
             => channel[i].head_id < handler[p].head_id

Underway(h) == \/ \E i \in 1 .. Len(stream.outbox) : stream.outbox[i] = h
               \/ \E i \in 1 .. Len(wire) : wire[i] = h

NoGap ==
    /\ ChannelInOrder
    /\ stream.pos <= Len(channel)
    /\ stream.phase # "closed" =>
          \A h \in client.next_head_id .. stream.last_sent : Underway(h)
    /\ stream.phase = "running" =>
          \A h \in stream.last_sent + 1 .. heads[Subscribed] : Coming(h)
    /\ ResumesAtFirstMissing

(* Nobody is connected at first. *)
LEMMA NoGapInit == ASSUME Init PROVE NoGap
BY DEF Init, NoGap, ChannelInOrder, ResumesAtFirstMissing, Closed

(* The next message of a topic is stored: its handler holds it. *)
LEMMA PublishNoGap ==
    ASSUME OneByOne, IInv, NoGap, NEW p \in Handler, NEW t \in Topic, AppendMessage(p, t)
    PROVE  NoGap'
<1>1. /\ heads \in [Topic -> 0 .. MaxHead] /\ channel \in Seq(Message)
      /\ handler \in [Handler -> Message \cup {Idle}] /\ handler[p] = Idle
      /\ heads' = [heads EXCEPT ![t] = heads[t] + 1]
      /\ handler' = [handler EXCEPT ![p] = [topic |-> t, head_id |-> heads[t] + 1]]
      /\ UNCHANGED <<channel, stream, wire, client, faults>>
  BY DEF IInv, TypeOK, AppendMessage
<1>2. handler'[p] = [topic |-> t, head_id |-> heads[t] + 1] /\ \A q \in Handler : q = p
  BY <1>1 DEF OneByOne
<1>3. ASSUME NEW i \in 1 .. Len(channel), channel[i].topic = t
      PROVE  channel[i].head_id < heads[t] + 1
  <2>1. channel[i] \in Message /\ heads[t] \in Nat
    BY <1>1
  <2>2. channel[i].head_id <= heads[t]
    BY <1>3 DEF IInv
  <2> QED BY <2>1, <2>2 DEF Message
<1>4. ChannelInOrder'
  BY <1>1, <1>2, <1>3 DEF NoGap, ChannelInOrder
<1>5. ASSUME NEW h \in stream.last_sent + 1 .. heads'[Subscribed], stream.phase = "running"
      PROVE  Coming(h)'
  <2>1. stream.last_sent \in Nat /\ heads[Subscribed] \in Nat /\ heads'[Subscribed] \in Nat
    BY <1>1 DEF IInv, TypeOK, Stream
  <2>2. CASE h \in stream.last_sent + 1 .. heads[Subscribed]
    <3>1. Coming(h) /\ h # 0
      BY <1>5, <2>1, <2>2 DEF NoGap
    <3>2. \A q \in Handler : handler[q].head_id = 0
      BY <1>1, <1>2 DEF Idle
    <3> QED BY <1>1, <3>1, <3>2 DEF Coming
  <2>3. CASE h \notin stream.last_sent + 1 .. heads[Subscribed]
    <3>1. t = Subscribed /\ h = heads[t] + 1
      BY <1>1, <1>5, <2>1, <2>3
    <3> QED BY <1>2, <3>1 DEF Coming
  <2> QED BY <2>2, <2>3
<1> QED
  BY Zenon, <1>1, <1>4, <1>5 DEF NoGap, Underway, ResumesAtFirstMissing

(* ... and then the end of the channel. *)
LEMMA SendNoGap ==
    ASSUME OneByOne, IInv, NoGap, NEW p \in Handler, PublishedSend(p)
    PROVE  NoGap'
<1>1. /\ channel \in Seq(Message) /\ handler \in [Handler -> Message \cup {Idle}]
      /\ handler[p] \in Message /\ channel' = Append(channel, handler[p])
      /\ handler' = [handler EXCEPT ![p] = Idle] /\ stream.pos \in Nat
      /\ UNCHANGED <<heads, stream, wire, client, faults>>
  BY DEF IInv, TypeOK, PublishedSend, Stream
<1>2. /\ Len(channel) \in Nat /\ Len(channel') = Len(channel) + 1
      /\ \A k \in 1 .. Len(channel) : channel'[k] = channel[k]
      /\ channel'[Len(channel) + 1] = handler[p]
      /\ \A k \in 1 .. Len(channel') : k \in 1 .. Len(channel) \/ k = Len(channel) + 1
  BY <1>1, AppendFacts
<1>3. \A q \in Handler : q = p /\ handler'[q] = Idle
  BY <1>1 DEF OneByOne
<1>4. handler[p] # Idle
  BY DEF PublishedSend
<1>5. ChannelInOrder'
  <2>1. \A i, j \in 1 .. Len(channel') :
           i < j /\ channel'[i].topic = channel'[j].topic
              => channel'[i].head_id < channel'[j].head_id
    <3> SUFFICES ASSUME NEW i \in 1 .. Len(channel'), NEW j \in 1 .. Len(channel'), i < j,
                        channel'[i].topic = channel'[j].topic
                 PROVE  channel'[i].head_id < channel'[j].head_id
      OBVIOUS
    <3>1. i \in 1 .. Len(channel)
      BY <1>2
    <3>2. CASE j \in 1 .. Len(channel)
      BY <1>2, <3>1, <3>2 DEF NoGap, ChannelInOrder
    <3>3. CASE j = Len(channel) + 1
      BY <1>2, <1>4, <3>1, <3>3 DEF NoGap, ChannelInOrder
    <3> QED BY <1>2, <3>2, <3>3
  <2> QED BY <1>3, <2>1 DEF ChannelInOrder
<1>6. ASSUME NEW h \in stream.last_sent + 1 .. heads[Subscribed], stream.phase = "running"
      PROVE  Coming(h)'
  <2>1. Coming(h)
    BY <1>6 DEF NoGap
  <2>2. ASSUME NEW k \in stream.pos + 1 .. Len(channel),
               channel[k].topic = Subscribed /\ channel[k].head_id = h
        PROVE  Coming(h)'
    <3>1. k \in stream.pos + 1 .. Len(channel') /\ channel'[k] = channel[k]
      BY <1>1, <1>2
    <3> QED BY <1>1, <2>2, <3>1 DEF Coming
  <2>3. ASSUME NEW q \in Handler, handler[q].topic = Subscribed /\ handler[q].head_id = h
        PROVE  Coming(h)'
    <3>1. Len(channel) + 1 \in stream.pos + 1 .. Len(channel')
      BY <1>1, <1>2 DEF NoGap
    <3>2. channel'[Len(channel) + 1].topic = Subscribed /\ channel'[Len(channel) + 1].head_id = h
      BY <1>2, <1>3, <2>3
    <3> QED BY <1>1, <3>1, <3>2 DEF Coming
  <2> QED BY <2>1, <2>2, <2>3 DEF Coming
<1>7. stream.pos <= Len(channel')
  BY <1>1, <1>2 DEF NoGap
<1> QED
  BY <1>1, <1>5, <1>6, <1>7 DEF NoGap, Underway, ResumesAtFirstMissing

(* The subscription joins the channel at its end. *)
LEMMA SubscribeNoGap == ASSUME IInv, NoGap, Subscribe PROVE NoGap'
<1>1. /\ stream'.phase = "opened" /\ stream'.pos = Len(channel)
      /\ stream'.last_sent = client.next_head_id - 1
      /\ client.next_head_id \in Nat /\ Len(channel) \in Nat
      /\ UNCHANGED <<heads, handler, channel, wire, client, faults>>
  BY DEF Subscribe, IInv, TypeOK
<1>2. client.next_head_id .. client.next_head_id - 1 = {}
  BY <1>1
<1> QED
  BY <1>1, <1>2 DEF NoGap, ChannelInOrder, ResumesAtFirstMissing

(* The replay holds everything stored so far. *)
LEMMA ReplayNoGap == ASSUME ReplayInFull, IInv, NoGap, Replay PROVE NoGap'
<1> DEFINE from == client.next_head_id
           n == Stored(from)
<1>1. /\ from \in 1 .. MaxHead + 1 /\ heads[Subscribed] \in 0 .. MaxHead
      /\ from <= heads[Subscribed] + 1 /\ stream.last_sent = from - 1 /\ stream \in Stream
      /\ UNCHANGED <<heads, handler, channel, wire, client, faults>>
  BY DEF IInv, TypeOK, Replay, InFlight
<1>2. n = heads[Subscribed] + 1 - from /\ n \in Nat
  BY <1>1 DEF Stored, ReplayInFull
<1>3. /\ stream'.phase = "running" /\ stream'.pos = stream.pos
      /\ stream'.outbox = Ascending(from, n) /\ stream'.last_sent = heads[Subscribed]
  <2> HIDE DEF n, from
  <2>1. stream' = [stream EXCEPT !.phase = "running", !.outbox = Ascending(from, n),
                                 !.last_sent = stream.last_sent + n]
    BY DEF Replay, from, n
  <2>2. stream.last_sent + n = heads[Subscribed]
    BY <1>1, <1>2
  <2> QED BY <1>1, <2>1, <2>2 DEF Stream
<1>4. ASSUME NEW h \in from .. heads[Subscribed]
      PROVE  Underway(h)'
  <2> HIDE DEF n
  <2>1. h - from + 1 \in 1 .. n
    BY <1>1, <1>2
  <2>2. Len(Ascending(from, n)) = n /\ Ascending(from, n)[h - from + 1] = h
    BY <1>1, <1>2, <2>1 DEF Ascending
  <2> QED BY <1>3, <2>1, <2>2 DEF Underway
<1>5. heads[Subscribed] + 1 .. heads[Subscribed] = {}
  BY <1>1
<1> QED
  BY <1>1, <1>3, <1>4, <1>5 DEF NoGap, ChannelInOrder, ResumesAtFirstMissing

(* What leaves the outbox is on the wire. *)
LEMMA TxSendNoGap == ASSUME IInv, NoGap, TxSend PROVE NoGap'
<1>0. PICK o : o = stream.outbox
  OBVIOUS
<1>1. /\ wire \in Seq(0 .. MaxHead) /\ o \in Seq(0 .. MaxHead) /\ o # <<>>
      /\ stream \in Stream /\ wire' = Append(wire, Head(o))
      /\ stream' = [stream EXCEPT !.outbox = Tail(o)]
      /\ UNCHANGED <<heads, handler, channel, client, faults>>
  BY <1>0 DEF IInv, TypeOK, TxSend, Stream, HeadSeq
<1>2. /\ Len(wire) \in Nat /\ Len(wire') = Len(wire) + 1 /\ wire'[Len(wire) + 1] = o[1]
      /\ \A k \in 1 .. Len(wire) : wire'[k] = wire[k]
  BY <1>1, AppendFacts, TailFacts
<1>3. /\ Len(o) \in Nat \ {0} /\ Len(Tail(o)) = Len(o) - 1
      /\ \A k \in 1 .. Len(Tail(o)) : Tail(o)[k] = o[k + 1]
  BY <1>1, TailFacts
<1>4. /\ stream'.outbox = Tail(o) /\ stream'.phase = stream.phase /\ stream'.pos = stream.pos
      /\ stream'.last_sent = stream.last_sent
  BY <1>1 DEF Stream
<1>5. ASSUME NEW h, Underway(h)
      PROVE  Underway(h)'
  <2>1. CASE \E i \in 1 .. Len(wire) : wire[i] = h
    BY <1>2, <2>1 DEF Underway
  <2>2. ASSUME NEW i \in 1 .. Len(o), o[i] = h
        PROVE  Underway(h)'
    <3>1. CASE i = 1
      <4>1. Len(wire) + 1 \in 1 .. Len(wire') /\ wire'[Len(wire) + 1] = h
        BY <1>2, <2>2, <3>1
      <4> QED BY <4>1 DEF Underway
    <3>2. CASE i # 1
      <4>1. i - 1 \in 1 .. Len(Tail(o)) /\ Tail(o)[i - 1] = o[(i - 1) + 1] /\ (i - 1) + 1 = i
        BY <1>3, <3>2
      <4>2. i - 1 \in 1 .. Len(stream'.outbox) /\ stream'.outbox[i - 1] = h
        BY <1>4, <2>2, <4>1
      <4> QED BY <4>2 DEF Underway
    <3> QED BY <3>1, <3>2
  <2> QED BY <1>0, <1>5, <2>1, <2>2 DEF Underway
<1> QED
  BY <1>1, <1>4, <1>5 DEF NoGap, ChannelInOrder, Coming, ResumesAtFirstMissing

(* The next wanted message of the channel is the one after the last sent. *)
LEMMA LiveNextNoGap == ASSUME IInv, NoGap, LiveNext PROVE NoGap'
<1>0. PICK m, n : m = channel[stream.pos + 1] /\ n = stream.pos + 1
  OBVIOUS
<1>1. /\ stream \in Stream /\ stream.pos \in Nat /\ stream.last_sent \in Nat
      /\ stream.outbox = <<>> /\ stream.phase = "running"
      /\ channel \in Seq(Message) /\ Len(channel) \in Nat /\ heads[Subscribed] \in Nat
      /\ UNCHANGED <<heads, handler, channel, wire, client, faults>>
  BY DEF IInv, TypeOK, LiveNext, Stream
<1>2. n \in 1 .. Len(channel) /\ n \in Nat
  BY <1>0, <1>1 DEF LiveNext, Behind
<1>3. m \in Message /\ m.head_id \in Nat /\ m.head_id <= heads[m.topic]
  <2>1. m \in Message /\ m.head_id <= heads[m.topic]
    BY <1>0, <1>1, <1>2 DEF IInv
  <2> QED BY <2>1 DEF Message
<1>4. ASSUME NEW h \in Nat, Coming(h), ~(m.topic = Subscribed /\ m.head_id = h)
      PROVE  \/ \E k \in n + 1 .. Len(channel) :
                   channel[k].topic = Subscribed /\ channel[k].head_id = h
             \/ \E p \in Handler : handler[p].topic = Subscribed /\ handler[p].head_id = h
  <2>1. \A k \in stream.pos + 1 .. Len(channel) : k = n \/ k \in n + 1 .. Len(channel)
    BY <1>0, <1>1, <1>2
  <2> QED BY <1>0, <1>4, <2>1 DEF Coming
<1>5. CASE ~Wanted(m)
  <2>1. stream' = [stream EXCEPT !.pos = n, !.outbox = <<>>, !.last_sent = stream.last_sent]
    BY <1>0, <1>5 DEF LiveNext
  <2>2. /\ stream'.phase = stream.phase /\ stream'.pos = n
        /\ stream'.outbox = stream.outbox /\ stream'.last_sent = stream.last_sent
    BY <1>1, <2>1 DEF Stream
  <2>3. ASSUME NEW h \in stream.last_sent + 1 .. heads[Subscribed]
        PROVE  Coming(h)'
    <3>1. Coming(h) /\ h \in Nat /\ ~(m.topic = Subscribed /\ m.head_id = h)
      BY <1>1, <1>3, <1>5 DEF NoGap, Wanted
    <3> QED BY <1>1, <1>4, <2>2, <3>1 DEF Coming
  <2> QED
    BY <1>1, <1>2, <2>2, <2>3 DEF NoGap, ChannelInOrder, Underway, ResumesAtFirstMissing
<1>6. CASE Wanted(m)
  <2> DEFINE next == stream.last_sent + 1
  <2>1. m.topic = Subscribed /\ m.head_id >= next /\ m.head_id <= heads[Subscribed]
    BY <1>1, <1>3, <1>6 DEF Wanted
  <2>2. m.head_id = next
    <3> SUFFICES ASSUME m.head_id # next
                 PROVE  FALSE
      OBVIOUS
    <3>1. next \in stream.last_sent + 1 .. heads[Subscribed] /\ next \in Nat
      BY <1>1, <1>3, <2>1
    <3>2. Coming(next)
      BY <1>1, <3>1 DEF NoGap
    <3>3. \A k \in n + 1 .. Len(channel) :
             channel[k].topic = Subscribed => m.head_id < channel[k].head_id
      <4>1. \A k \in n + 1 .. Len(channel) : k \in 1 .. Len(channel) /\ n < k
        BY <1>1, <1>2
      <4> QED BY <1>0, <1>2, <2>1, <4>1 DEF NoGap, ChannelInOrder
    <3>4. \A p \in Handler : handler[p].topic = Subscribed /\ handler[p].head_id = next
                                => m.head_id < handler[p].head_id
      <4>1. next # 0
        BY <1>1
      <4> QED BY <1>0, <1>2, <2>1, <4>1 DEF NoGap, ChannelInOrder, Idle
    <3>5. m.head_id < next
      BY <1>4, <3>1, <3>2, <3>3, <3>4
    <3> QED BY <1>1, <1>3, <2>1, <3>5
  <2>3. stream' = [stream EXCEPT !.pos = n, !.outbox = <<m.head_id>>, !.last_sent = m.head_id]
    BY <1>0, <1>6 DEF LiveNext
  <2>4. PICK o : o = <<m.head_id>>
    BY Zenon
  <2>5. /\ stream'.phase = "running" /\ stream'.pos = n
        /\ stream'.outbox = o /\ stream'.last_sent = m.head_id
    BY <1>1, <2>3, <2>4 DEF Stream
  <2>6. ASSUME NEW h \in m.head_id + 1 .. heads[Subscribed]
        PROVE  Coming(h)'
    <3>1. h \in stream.last_sent + 1 .. heads[Subscribed] /\ h \in Nat /\ m.head_id # h
      BY <1>1, <1>3, <2>1
    <3>2. Coming(h)
      BY <1>1, <3>1 DEF NoGap
    <3> QED BY <1>1, <1>4, <2>5, <3>1, <3>2 DEF Coming
  <2>7. ASSUME NEW h \in client.next_head_id .. m.head_id
        PROVE  Underway(h)'
    <3>1. CASE h = m.head_id
      <4>1. 1 \in 1 .. Len(o) /\ o[1] = h
        BY <2>4, <3>1
      <4> QED BY <2>5, <4>1 DEF Underway
    <3>2. CASE h # m.head_id
      <4>1. client.next_head_id \in Nat
        BY DEF IInv, TypeOK
      <4>2. h \in client.next_head_id .. stream.last_sent
        BY <1>1, <1>3, <2>2, <3>2, <4>1
      <4>3. Underway(h)
        BY <1>1, <4>2 DEF NoGap
      <4>4. \E i \in 1 .. Len(wire) : wire[i] = h
        BY <1>1, <4>3 DEF Underway
      <4> QED BY <1>1, <4>4 DEF Underway
    <3> QED BY <3>1, <3>2
  <2> QED
    BY <1>1, <1>2, <2>5, <2>6, <2>7 DEF NoGap, ChannelInOrder, ResumesAtFirstMissing
<1> QED BY <1>5, <1>6

(* A lag is reported behind everything sent. *)
LEMMA LiveLaggedNoGap == ASSUME IInv, NoGap, LiveLagged PROVE NoGap'
<1>1. PICK o : o = <<Lagged>>
  BY Zenon
<1>2. /\ stream \in Stream /\ stream.outbox = <<>> /\ stream.phase = "running"
      /\ UNCHANGED <<heads, handler, channel, wire, client, faults>>
      /\ stream' = [stream EXCEPT !.phase = "lagged", !.outbox = o]
  BY <1>1 DEF IInv, TypeOK, LiveLagged
<1>3. /\ stream'.phase = "lagged" /\ stream'.outbox = o /\ stream'.pos = stream.pos
      /\ stream'.last_sent = stream.last_sent
  BY <1>2 DEF Stream
<1>4. \A h : Underway(h) => Underway(h)'
  BY <1>2 DEF Underway
<1> QED
  BY <1>2, <1>3, <1>4 DEF NoGap, ChannelInOrder, ResumesAtFirstMissing

(* The message returned is the resume point. *)
LEMMA NextMessageNoGap == ASSUME IInv, NoGap, NextMessage PROVE NoGap'
<1>0. PICK x, q, r, c : /\ x = Head(wire) /\ q = Tail(wire) /\ r = client.returned
                        /\ c = client.next_head_id
  BY Zenon
<1>1. /\ wire \in HeadSeq /\ wire # <<>> /\ x # Lagged /\ r \in HeadSeq
      /\ wire' = q /\ UNCHANGED <<heads, handler, channel, stream, faults>>
      /\ c \in Nat /\ stream.last_sent \in Nat /\ stream \in Stream
  BY <1>0 DEF IInv, TypeOK, NextMessage, Stream
<1>2. /\ x \in Nat /\ x = wire[1] /\ Len(wire) \in Nat \ {0} /\ Len(q) = Len(wire) - 1
      /\ \A k \in 1 .. Len(q) : q[k] = wire[k + 1]
  BY <1>0, <1>1, TailFacts DEF HeadSeq
<1>3. /\ Append(r, x) \in HeadSeq /\ Len(r) \in Nat /\ Len(Append(r, x)) = Len(r) + 1
      /\ \A k \in 1 .. Len(r) : Append(r, x)[k] = r[k]
      /\ Append(r, x)[Len(r) + 1] = x
  <2>1. x \in 0 .. MaxHead
    BY <1>0, <1>1, TailFacts DEF HeadSeq
  <2> QED BY <1>1, <2>1, AppendFacts DEF HeadSeq
<1>4. PICK g : g = Append(r, x)
  BY Zenon
<1>5. client'.next_head_id = x + 1 /\ client'.returned = g
  BY <1>0, <1>4 DEF NextMessage, Advanced
<1>6. stream.phase # "closed"
  BY <1>1 DEF IInv, InFlight
<1>7. c <= x /\ x <= stream.last_sent
  BY <1>0, <1>1, <1>2 DEF IInv, InFlight, Within
<1>8. ASSUME NEW h \in c .. stream.last_sent, h # x
      PROVE  x < h /\ Underway(h)'
  <2>1. Underway(h) /\ h \in Nat
    BY <1>0, <1>1, <1>6 DEF NoGap
  <2>2. h # Lagged
    <3>1. c >= 1
      BY <1>0 DEF IInv, TypeOK
    <3> QED BY <1>1, <3>1 DEF Lagged
  <2>3. ASSUME NEW i \in 1 .. Len(wire), wire[i] = h
        PROVE  x < h /\ Underway(h)'
    <3>1. i \in Nat /\ 1 \in 1 .. Len(wire) /\ 1 < i
      BY <1>2, <1>8, <2>3
    <3>2. x < h
      BY <1>2, <2>2, <2>3, <3>1 DEF IInv, InFlight, Ordered
    <3>3. i - 1 \in 1 .. Len(q) /\ q[i - 1] = wire[(i - 1) + 1] /\ (i - 1) + 1 = i
      BY <1>2, <3>1
    <3>4. i - 1 \in 1 .. Len(wire') /\ wire'[i - 1] = h
      BY <1>1, <2>3, <3>3
    <3> QED BY <3>2, <3>4 DEF Underway
  <2>4. ASSUME NEW i \in 1 .. Len(stream.outbox), stream.outbox[i] = h
        PROVE  x < h /\ Underway(h)'
    <3>1. 1 \in 1 .. Len(wire)
      BY <1>2
    <3>2. x < h
      BY <1>2, <2>2, <2>4, <3>1 DEF IInv, InFlight, WireFirst
    <3> QED BY <1>1, <2>4, <3>2 DEF Underway
  <2> QED BY <2>1, <2>3, <2>4 DEF Underway
<1>9. x = c
  <2> SUFFICES ASSUME x # c
               PROVE  FALSE
    OBVIOUS
  <2>1. c \in c .. stream.last_sent
    BY <1>1, <1>2, <1>7
  <2>2. x < c
    BY <1>8, <2>1
  <2> QED BY <1>1, <1>2, <1>7, <2>2
<1>10. ASSUME NEW h \in 1 .. x
       PROVE  \E i \in 1 .. Len(g) : g[i] = h
  <2>1. CASE h = x
    <3>1. Len(r) + 1 \in 1 .. Len(g) /\ g[Len(r) + 1] = h
      BY <1>3, <1>4, <2>1
    <3> QED BY <3>1
  <2>2. CASE h # x
    <3>1. h \in 1 .. c - 1
      BY <1>1, <1>9, <2>2
    <3>2. PICK i \in 1 .. Len(r) : r[i] = h
      BY <1>0, <3>1 DEF NoGap, ResumesAtFirstMissing
    <3>3. i \in 1 .. Len(g) /\ g[i] = h
      BY <1>3, <1>4, <3>2
    <3> QED BY <3>3
  <2> QED BY <2>1, <2>2
<1>11. ResumesAtFirstMissing'
  <2>1. (x + 1) - 1 = x
    BY <1>2
  <2> QED BY <1>5, <1>10, <2>1 DEF ResumesAtFirstMissing
<1>12. \A h \in x + 1 .. stream.last_sent : Underway(h)'
  <2>1. \A h \in x + 1 .. stream.last_sent : h \in c .. stream.last_sent /\ h # x
    BY <1>1, <1>2, <1>9
  <2> QED BY <1>8, <2>1
<1> QED
  BY <1>1, <1>5, <1>11, <1>12 DEF NoGap, ChannelInOrder, Coming

(* A stream that ends leaves the client at its resume point. *)
LEMMA CloseNoGap ==
    ASSUME IInv, NoGap, stream' = Closed, UNCHANGED <<heads, client>>,
           UNCHANGED <<handler, channel>> \/ Gone
    PROVE  NoGap'
<1>1. stream'.phase = "closed" /\ stream'.pos = 0
  BY DEF Closed
<1>2. CASE UNCHANGED <<handler, channel>>
  <2>1. Len(channel) \in Nat
    BY DEF IInv, TypeOK
  <2> QED BY <1>1, <1>2, <2>1 DEF NoGap, ChannelInOrder, ResumesAtFirstMissing
<1>3. CASE Gone
  <2>1. /\ channel' = <<>> /\ Len(channel') = 0
    BY <1>3 DEF Gone
  <2> QED BY <1>1, <2>1 DEF NoGap, ChannelInOrder, ResumesAtFirstMissing
<1> QED BY <1>2, <1>3

(* Every step of the daemon keeps the stream without gaps. *)
LEMMA NoGapStep ==
    ASSUME OneByOne, ReplayInFull, IInv, NoGap, [DaemonNext]_allVars
    PROVE  NoGap'
<1>1. CASE UNCHANGED vars
  BY <1>1 DEF vars, NoGap, ChannelInOrder, Underway, Coming, ResumesAtFirstMissing
<1>2. CASE Accepted
  BY <1>2, SubscribeNoGap, PublishNoGap DEF Accepted
<1>3. CASE Server
  BY <1>3, SendNoGap, ReplayNoGap, TxSendNoGap, LiveNextNoGap, LiveLaggedNoGap DEF Server
<1>4. CASE NextMessage
  BY <1>4, NextMessageNoGap
<1>5. CASE DropStream \/ StreamBreaks
  BY <1>5, CloseNoGap DEF DropStream, StreamBreaks
<1>6. CASE Ends
  BY <1>6, CloseNoGap DEF Ends, Gone
<1>7. CASE Dies
  <2>1. Gone
    BY <1>7 DEF Dies, DaemonRestarts, Gone
  <2> QED BY <2>1, CloseNoGap DEF Gone
<1>8. CASE Signal \/ Tick \/ PassEnds \/ LoopBreaks \/ Drained \/ Start \/ UNCHANGED allVars
  BY <1>1, <1>8 DEF Signal, Tick, PassEnds, LoopBreaks, Drained, Start, allVars, vars
<1> QED
  BY <1>2, <1>3, <1>4, <1>5, <1>6, <1>7, <1>8
  DEF DaemonNext, Calls, Ongoing, ExitJoined, ExitTimedOut

(* If publish handlers do not overlap and the replay of subscribe returns all
   that is stored, a reconnecting subscriber never passes over a message: its
   resume point is the first message it has not returned, and the live stream
   skips nothing at the seam with the replay, through lags, broken streams,
   crashes and shutdowns.  Without either condition the code loses messages. *)
THEOREM SubscriberComplete ==
    ASSUME OneByOne, ReplayInFull
    PROVE  DaemonSpec => [](ResumesAtFirstMissing /\ LiveNotSkipped)
<1>1. DaemonInit => IInv /\ NoGap
  BY InitInv, NoGapInit DEF DaemonInit
<1>2. IInv /\ [DaemonNext]_allVars => IInv'
  BY DaemonKeeps
<1>3. IInv /\ NoGap /\ [DaemonNext]_allVars => NoGap'
  BY NoGapStep
<1>4. IInv /\ NoGap => ResumesAtFirstMissing /\ LiveNotSkipped
  <2> SUFFICES ASSUME IInv, NoGap, stream.phase # "closed",
                      NEW h \in stream.opened + 1 .. stream.last_sent
               PROVE  OnItsWay(h)
    BY DEF NoGap, LiveNotSkipped
  <2>1. /\ stream.opened \in Nat /\ stream.last_sent \in Nat /\ client.next_head_id \in Nat
    BY DEF IInv, TypeOK, Stream
  <2>2. h \in 1 .. client.next_head_id - 1 \/ h \in client.next_head_id .. stream.last_sent
    BY <2>1
  <2> QED
    BY <2>2 DEF NoGap, ResumesAtFirstMissing, Underway, OnItsWay
<1> QED
  BY <1>1, <1>2, <1>3, <1>4, PTL DEF DaemonSpec
=============================================================================
