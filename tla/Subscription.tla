---------------------------- MODULE Subscription ----------------------------
(***************************************************************************)
(* Publish and Subscribe of one daemon (crates/msgbus-server/src/lib.rs)   *)
(* with a reconnecting subscriber (ResilientSubscription of the Rust SDK,  *)
(* crates/msgbus-sdk-rust/src/lib.rs).                                     *)
(*                                                                         *)
(* A publish handler commits to the store and only then sends to the       *)
(* broadcast channel; handlers run concurrently.  A subscription joins the *)
(* channel, then reads the stored messages, sends those, and from then on  *)
(* forwards what the channel brings.  The log is append-only, so a message *)
(* is named by its topic and head id.  All messages have one origin.       *)
(***************************************************************************)
EXTENDS Naturals, Sequences

CONSTANTS Topic,
          Subscribed,   \* the topic the subscriber follows
          Handler,      \* concurrent publish handlers
          ReplayLimit,  \* replay_limit, after the default and the store's cap
          RingSize,     \* capacity of the broadcast channel (1024 in the code)
          WireSize,     \* capacity of the mpsc channel to the client (128)
          MaxHead,      \* bound: messages published per topic
          MaxFaults     \* bound: broken streams and daemon crashes

ASSUME SubscriptionAssumption ==
    /\ Subscribed \in Topic
    /\ ReplayLimit \in Nat \ {0} /\ RingSize \in Nat \ {0} /\ WireSize \in Nat \ {0}
    /\ MaxHead \in Nat /\ MaxFaults \in Nat

VARIABLES heads,    \* heads[t]: the store's head of topic t
          handler,  \* handler[p]: the message p has stored and not yet sent, or Idle
          channel,  \* all messages sent to the broadcast channel, in order
          stream,   \* the server task of the subscription
          wire,     \* what that task has sent and the client has not received
          client,   \* next_head_id, and returned: the head ids given to the caller
          faults    \* how many faults have happened

vars == <<heads, handler, channel, stream, wire, client, faults>>

Idle == [topic |-> "none", head_id |-> 0]
Lagged == 0   \* the Status::unavailable item; head ids start at 1

Message == [topic : Topic, head_id : 1 .. MaxHead]

(* No stream: the client's `stream` is None *)
Closed == [phase |-> "closed", pos |-> 0, outbox |-> <<>>, last_sent |-> 0, opened |-> 0]

Init == /\ heads = [t \in Topic |-> 0]
        /\ handler = [p \in Handler |-> Idle]
        /\ channel = <<>>
        /\ stream = Closed
        /\ wire = <<>>
        /\ client = [next_head_id |-> 1, returned |-> <<>>]
        /\ faults = 0

----------------------------------------------------------------------------
(***************************************************************************)
(* publish: append_message, then published.send                            *)
(***************************************************************************)
AppendMessage(p, t) ==
    /\ handler[p] = Idle
    /\ heads[t] < MaxHead
    /\ heads' = [heads EXCEPT ![t] = heads[t] + 1]
    /\ handler' = [handler EXCEPT ![p] = [topic |-> t, head_id |-> heads[t] + 1]]
    /\ UNCHANGED <<channel, stream, wire, client, faults>>

PublishedSend(p) ==
    /\ handler[p] # Idle
    /\ channel' = Append(channel, handler[p])
    /\ handler' = [handler EXCEPT ![p] = Idle]
    /\ UNCHANGED <<heads, stream, wire, client, faults>>

----------------------------------------------------------------------------
(***************************************************************************)
(* subscribe                                                               *)
(***************************************************************************)
(* open_stream reaches the handler, which first joins the channel *)
Subscribe ==
    /\ stream.phase = "closed"
    /\ stream' = [phase |-> "opened", pos |-> Len(channel), outbox |-> <<>>,
                  last_sent |-> client.next_head_id - 1, opened |-> heads[Subscribed]]
    /\ UNCHANGED <<heads, handler, channel, wire, client, faults>>

(* Seeded fault: the replay reaches one past the head. *)
StoredPastHead(from) == IF heads[Subscribed] + 2 - from < ReplayLimit
                        THEN heads[Subscribed] + 2 - from ELSE ReplayLimit

(* How many messages fetch_messages returns: those from .. head, at most
   ReplayLimit *)
Stored(from) == IF heads[Subscribed] + 1 - from < ReplayLimit
                THEN heads[Subscribed] + 1 - from ELSE ReplayLimit

Ascending(from, count) == [k \in 1 .. count |-> from + k - 1]

Replay ==
    /\ stream.phase = "opened"
    /\ LET from == client.next_head_id
       IN  stream' = [stream EXCEPT !.phase = "running",
                        !.outbox = Ascending(from, Stored(from)),
                        !.last_sent = @ + Stored(from)]
    /\ UNCHANGED <<heads, handler, channel, wire, client, faults>>

(* tx.send(...).await: waits for room *)
TxSend ==
    /\ stream.phase = "running" \/ stream.phase = "lagged"
    /\ stream.outbox # <<>>
    /\ Len(wire) < WireSize
    /\ wire' = Append(wire, Head(stream.outbox))
    /\ stream' = [stream EXCEPT !.outbox = Tail(@)]
    /\ UNCHANGED <<heads, handler, channel, client, faults>>

Behind == Len(channel) - stream.pos

(* Seeded fault: the live stream does not filter what the replay has sent. *)
WantedAll(m) == m.topic = Subscribed

(* Seeded fault: off by one at the seam between replay and live stream. *)
WantedLater(m) == m.topic = Subscribed /\ m.head_id > stream.last_sent + 1

(* The message that live.next() yields is wanted *)
Wanted(m) == m.topic = Subscribed /\ m.head_id > stream.last_sent

LiveNext ==
    /\ stream.phase = "running"
    /\ stream.outbox = <<>>
    /\ Behind > 0 /\ Behind <= RingSize
    /\ LET m == channel[stream.pos + 1]
       IN  stream' = [stream EXCEPT !.pos = @ + 1,
                        !.outbox = IF Wanted(m) THEN <<m.head_id>> ELSE <<>>,
                        !.last_sent = IF Wanted(m) THEN m.head_id ELSE @]
    /\ UNCHANGED <<heads, handler, channel, wire, client, faults>>

(* Seeded fault: after a lag the task goes on with what the ring still has. *)
LiveSkipsAhead ==
    /\ stream.phase = "running"
    /\ stream.outbox = <<>>
    /\ Behind > RingSize
    /\ stream' = [stream EXCEPT !.pos = Len(channel) - RingSize]
    /\ UNCHANGED <<heads, handler, channel, wire, client, faults>>

(* The ring overwrote what this receiver had not read: the task reports it,
   and returns *)
LiveLagged ==
    /\ stream.phase = "running"
    /\ stream.outbox = <<>>
    /\ Behind > RingSize
    /\ stream' = [stream EXCEPT !.phase = "lagged", !.outbox = <<Lagged>>]
    /\ UNCHANGED <<heads, handler, channel, wire, client, faults>>

----------------------------------------------------------------------------
(***************************************************************************)
(* ResilientSubscription.next_message                                      *)
(***************************************************************************)
Advanced(h) == [next_head_id |-> h + 1, returned |-> Append(client.returned, h)]

NextMessage ==
    /\ wire # <<>> /\ Head(wire) # Lagged
    /\ client' = Advanced(Head(wire))
    /\ wire' = Tail(wire)
    /\ UNCHANGED <<heads, handler, channel, stream, faults>>

(* A retryable status: drop the stream; the loop opens another *)
DropStream ==
    /\ wire # <<>> /\ Head(wire) = Lagged
    /\ stream' = Closed
    /\ wire' = <<>>
    /\ UNCHANGED <<heads, handler, channel, client, faults>>

(* The connection breaks: what was on its way is lost *)
StreamBreaks ==
    /\ faults < MaxFaults
    /\ stream # Closed
    /\ stream' = Closed
    /\ wire' = <<>>
    /\ faults' = faults + 1
    /\ UNCHANGED <<heads, handler, channel, client>>

(* The daemon dies and restarts: the store survives, handlers that had stored
   and not sent never send *)
DaemonRestarts ==
    /\ faults < MaxFaults
    /\ handler' = [p \in Handler |-> Idle]
    /\ channel' = <<>>
    /\ stream' = Closed
    /\ wire' = <<>>
    /\ faults' = faults + 1
    /\ UNCHANGED <<heads, client>>

Server == \/ \E p \in Handler : PublishedSend(p)
          \/ Replay \/ TxSend \/ LiveNext \/ LiveLagged

Reader == Subscribe \/ NextMessage \/ DropStream

Next == \/ \E p \in Handler, t \in Topic : AppendMessage(p, t)
        \/ Server \/ Reader
        \/ StreamBreaks \/ DaemonRestarts

(* Every task of the daemon and the reading client keeps running; nobody is
   obliged to publish, and nothing has to fail. *)
Fairness == /\ \A p \in Handler : WF_vars(PublishedSend(p))
            /\ WF_vars(Replay \/ TxSend \/ LiveNext \/ LiveLagged)
            /\ WF_vars(Reader)

Spec == Init /\ [][Next]_vars /\ Fairness

----------------------------------------------------------------------------
HeadSeq == Seq(0 .. MaxHead)
Stream == [phase : {"closed", "opened", "running", "lagged"},
           pos : Nat, outbox : HeadSeq, last_sent : Nat, opened : Nat]

TypeOK ==
    /\ heads \in [Topic -> 0 .. MaxHead]
    /\ handler \in [Handler -> Message \cup {Idle}]
    /\ channel \in Seq(Message)
    /\ stream \in Stream
    /\ wire \in HeadSeq
    /\ client \in [next_head_id : 1 .. MaxHead + 1, returned : HeadSeq]
    /\ faults \in 0 .. MaxFaults

(* The caller sees head ids strictly increase: no message twice and none out
   of order, over any number of lags, broken streams and restarts, although
   the replay and the live channel overlap. *)
StrictlyIncreasing ==
    \A i, j \in 1 .. Len(client.returned) :
        i < j => client.returned[i] < client.returned[j]

(* The resume point is the first message not yet returned: everything below
   next_head_id has been given to the caller. *)
ResumesAtFirstMissing ==
    \A h \in 1 .. client.next_head_id - 1 :
        \E i \in 1 .. Len(client.returned) : client.returned[i] = h

(* A message published after the stream was opened is not passed over: what
   the task has gone past it has handed on. *)
OnItsWay(h) == \/ \E i \in 1 .. Len(stream.outbox) : stream.outbox[i] = h
               \/ \E i \in 1 .. Len(wire) : wire[i] = h
               \/ \E i \in 1 .. Len(client.returned) : client.returned[i] = h

LiveNotSkipped ==
    stream.phase # "closed" =>
        \A h \in stream.opened + 1 .. stream.last_sent : OnItsWay(h)

(* The caller has been given the message with head id h *)
Returned(h) == \E i \in 1 .. Len(client.returned) : client.returned[i] = h
=============================================================================
