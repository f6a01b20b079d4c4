------------------------------ MODULE PeerSync ------------------------------
(***************************************************************************)
(* Several daemons that publish, delete and pull each other's logs         *)
(* (crates/msgbus-server/src/sync.rs, and the publish, delete and startup  *)
(* code of crates/msgbus-server/src/lib.rs).                               *)
(*                                                                         *)
(* Each daemon runs one sync task.  It asks one peer after the other for   *)
(* its heads, and for each head that is ahead of the local one fetches the *)
(* missing messages in batches and stores them one by one.  A message of   *)
(* the delete topic is a marker; once it is stored its range is deleted    *)
(* locally, in a second transaction.  Handlers of the daemon and the other *)
(* daemons run between any two steps; a daemon may crash between any two,  *)
(* and re-applies all its markers when it starts.                          *)
(***************************************************************************)
EXTENDS LogContract

CONSTANTS Node,
          Topic,        \* application topics
          DeleteTopic,  \* $msgbus.delete
          Peers,        \* Peers[n]: who answers at the peer addresses of n, in order
          Expected,     \* Expected[n]: the identity each address is pinned to, or Unset
          Rank,         \* Rank[l]: position of log l in list_heads
          BatchLimit,   \* sync batch_limit
          HeadLimit,    \* HeadLimit[n]: largest head id n's backend stores
          Ranges,       \* head id ranges <<from, to>> that clients delete
          Publisher,    \* nodes whose clients publish and delete
          U32Max,       \* where consecutive_failures saturates
          MaxHead,      \* bound: messages published per topic and node
          MaxDeletes,   \* bound: deletes per node
          MaxFaults     \* bound: crashes and RPCs that fail with both ends up

Log == (Topic \cup {DeleteTopic}) \X Node

Unset == "none"   \* an origin or an identity that is not given

ASSUME PeerSyncAssumption ==
    /\ DeleteTopic \notin Topic
    /\ Publisher \subseteq Node
    /\ Unset \notin Node
    /\ Peers \in [Node -> Seq(Node)]
    /\ Expected \in [Node -> Seq(Node \cup {Unset})]
    /\ \A n \in Node : Len(Expected[n]) = Len(Peers[n])
    /\ Rank \in [Log -> Nat]
    /\ BatchLimit \in Nat \ {0} /\ U32Max \in Nat \ {0}
    /\ HeadLimit \in [Node -> Nat]
    /\ Ranges \subseteq Nat \X Nat
    /\ MaxHead \in Nat /\ MaxDeletes \in Nat /\ MaxFaults \in Nat

VARIABLES log,      \* log[n][l]: n's copy of log l
          tombs,    \* tombs[n][l]: the ranges of l recorded at n
          created,  \* created[n]: messages n has created, to give them ids
          up,       \* up[n]: the daemon n is running
          sync,     \* sync[n]: where the sync task of n is
          states,   \* states[n][i][k]: row of peer_sync_states for the
                    \* i-th address of n; k is a log or Whole
          faults    \* how many faults have happened

vars == <<log, tombs, created, up, sync, states, faults>>

NoRange == [topic |-> "none", origin |-> "none", from |-> 0, to |-> 0]
NoHead == [log |-> <<"none", "none">>, head_id |-> 0]
Whole == <<"none", "none">>   \* the row with neither topic nor origin
NoState == [local_head |-> 0, remote_head |-> 0, succeeded |-> FALSE, failures |-> 0]

(* The sync task before it turns to the k-th peer *)
AtPeer(k) == [pc |-> "idle", peer |-> k, listed |-> {}, todo |-> {}, head |-> NoHead,
              local_head |-> 0, before |-> 0, batch |-> <<>>, outcome |-> "none"]

Init == /\ log = [n \in Node |-> [l \in Log |-> <<>>]]
        /\ tombs = [n \in Node |-> [l \in Log |-> {}]]
        /\ created = [n \in Node |-> 0]
        /\ up = [n \in Node |-> TRUE]
        /\ sync = [n \in Node |-> AtPeer(1)]
        /\ states = [n \in Node |-> [i \in DOMAIN Peers[n] |->
                        [k \in Log \cup {Whole} |-> NoState]]]
        /\ faults = 0

----------------------------------------------------------------------------
(***************************************************************************)
(* Requests of local clients                                               *)
(***************************************************************************)
NewEntry(n, range) == [id |-> <<n, created[n] + 1>>, range |-> range, deleted |-> FALSE]

(* request_origin: an origin that is not given is the daemon's own *)
RequestOrigin(n, o) == IF o = Unset THEN n ELSE o

(* Seeded fault: writes may use the origin of another node. *)
AnyOrigin(n, o) == TRUE

(* owned_origin: writes must use the daemon's own origin *)
OwnedOrigin(n, o) == RequestOrigin(n, o) = n

(* ensure_application_topic *)
ApplicationTopic(t) == t # DeleteTopic

Publish(n, t, o) ==
    /\ up[n] /\ n \in Publisher
    /\ ApplicationTopic(t) /\ OwnedOrigin(n, o)
    /\ LET l == <<t, RequestOrigin(n, o)>>
       IN  /\ Len(log[n][l]) < MaxHead
           /\ log' = [log EXCEPT ![n][l] = Placed(@, tombs[n][l], NewEntry(n, NoRange))]
    /\ created' = [created EXCEPT ![n] = @ + 1]
    /\ UNCHANGED <<tombs, up, sync, states, faults>>

(* delete_range: tombstone_range_with_marker, one transaction; refused when
   the range is empty or its end does not fit the backend *)
DeleteRange(n, t, o, r) ==
    /\ up[n] /\ n \in Publisher
    /\ ApplicationTopic(t) /\ OwnedOrigin(n, o)
    /\ Len(log[n][<<DeleteTopic, n>>]) < MaxDeletes
    /\ r[1] <= r[2] /\ r[2] <= HeadLimit[n]
    /\ LET l == <<t, RequestOrigin(n, o)>>
           d == <<DeleteTopic, n>>
           marker == NewEntry(n, [topic |-> t, origin |-> l[2], from |-> r[1], to |-> r[2]])
       IN  /\ log' = [log EXCEPT ![n][l] = Flagged(@, {r}),
                                 ![n][d] = Placed(@, tombs[n][d], marker)]
           /\ tombs' = [tombs EXCEPT ![n][l] = @ \cup {r}]
    /\ created' = [created EXCEPT ![n] = @ + 1]
    /\ UNCHANGED <<up, sync, states, faults>>

----------------------------------------------------------------------------
(***************************************************************************)
(* Control messages                                                        *)
(***************************************************************************)
(* apply_control_message acts on a marker e of log l *)
IsMarker(l, e) == l[1] = DeleteTopic /\ ~e.deleted

(* ... and node n accepts it *)
CanApply(n, l, e) == /\ e.range.origin = l[2]
                     /\ e.range.from <= e.range.to
                     /\ e.range.to <= HeadLimit[n]

MarkersIn(n) == {e \in UNION {{log[n][l][h] : h \in 1 .. Len(log[n][l])} :
                                 l \in {DeleteTopic} \X Node} : ~e.deleted}

(* Seeded fault: the deleted range starts one message early. *)
RangesForEarly(es, l) ==
    {<<e.range.from - 1, e.range.to>> :
        e \in {d \in es : d.range.topic = l[1] /\ d.range.origin = l[2]}}

(* Seeded fault: the range is deleted in the logs of all origins. *)
RangesForAllOrigins(es, l) ==
    {<<e.range.from, e.range.to>> : e \in {d \in es : d.range.topic = l[1]}}

(* The ranges of log l that the markers es delete *)
RangesFor(es, l) ==
    {<<e.range.from, e.range.to>> :
        e \in {d \in es : d.range.topic = l[1] /\ d.range.origin = l[2]}}

(* The stores of n once the markers es are applied to its application logs *)
ApplyMarkers(n, es) ==
    /\ log' = [log EXCEPT ![n] = [l \in Log |-> Flagged(@[l], RangesFor(es, l))]]
    /\ tombs' = [tombs EXCEPT ![n] = [l \in Log |-> @[l] \cup RangesFor(es, l)]]

----------------------------------------------------------------------------
(***************************************************************************)
(* Rows of peer_sync_states                                                *)
(***************************************************************************)
(* Seeded fault: the failure count does not saturate. *)
Unsaturated(k) == k + 1

Saturating(k) == IF k < U32Max THEN k + 1 ELSE U32Max

Success(local, remote) ==
    [local_head |-> local, remote_head |-> remote, succeeded |-> TRUE, failures |-> 0]

(* record_peer_sync_state with last_error set: the count of failures goes up
   and the time of the last success stays *)
Failure(row, local, remote) ==
    [local_head |-> local, remote_head |-> remote,
     succeeded |-> row.succeeded, failures |-> Saturating(row.failures)]

----------------------------------------------------------------------------
(***************************************************************************)
(* The sync task                                                           *)
(***************************************************************************)
Peer(n) == Peers[n][sync[n].peer]

(* After the last peer the pass is over; the next tick starts with the first *)
NextPeer(n) == IF sync[n].peer < Len(Peers[n]) THEN sync[n].peer + 1 ELSE 1

At(n, pc) == up[n] /\ sync[n].pc = pc /\ Peers[n] # <<>>

HeadsAt(p) == {[log |-> l, head_id |-> Len(log[p][l])] : l \in {k \in Log : log[p][k] # <<>>}}

(* verify_peer_identity: the peer is not this node, and is who it should be *)
VerifyPeerIdentity(n) == /\ Peer(n) # n
                         /\ Expected[n][sync[n].peer] \in {Unset, Peer(n)}

(* sync_peer: connect, verify the identity, ListHeads *)
ListHeads(n) ==
    /\ At(n, "idle") /\ up[Peer(n)] /\ VerifyPeerIdentity(n)
    /\ sync' = [sync EXCEPT ![n].pc = "next", ![n].listed = HeadsAt(Peer(n)),
                            ![n].todo = HeadsAt(Peer(n))]
    /\ UNCHANGED <<log, tombs, created, up, states, faults>>

(* Seeded fault: a log that is not behind is passed over without a record. *)
NextHeadUnrecorded(n) ==
    /\ At(n, "next")
    /\ \E h \in sync[n].todo :
         /\ \A g \in sync[n].todo : Rank[h.log] <= Rank[g.log]
         /\ LET local == Len(log[n][h.log])
            IN  sync' = [sync EXCEPT ![n].todo = @ \ {h}, ![n].head = h,
                            ![n].local_head = local, ![n].before = local,
                            ![n].pc = IF local < h.head_id THEN "fetch" ELSE "next"]
    /\ UNCHANGED <<log, tombs, created, up, states, faults>>

(* sync_head begins: a log that is not behind is recorded as synced *)
NextHead(n) ==
    /\ At(n, "next")
    /\ \E h \in sync[n].todo :
         /\ \A g \in sync[n].todo : Rank[h.log] <= Rank[g.log]
         /\ LET local == Len(log[n][h.log])
                behind == local < h.head_id
            IN  /\ sync' = [sync EXCEPT ![n].todo = @ \ {h}, ![n].head = h,
                                        ![n].local_head = local, ![n].before = local,
                                        ![n].pc = IF behind THEN "fetch" ELSE "next"]
                /\ states' = IF behind THEN states
                             ELSE [states EXCEPT ![n][sync[n].peer][h.log] = Success(local, h.head_id)]
    /\ UNCHANGED <<log, tombs, created, up, faults>>

(* How many messages of the log s a request brings *)
Fetched(s, from, limit) == IF Len(s) < from THEN 0
                           ELSE IF Len(s) < from + limit THEN Len(s) + 1 - from
                           ELSE limit

(* Fetch: the next messages of the peer's copy, in order *)
FetchMessages(s, from, limit) ==
    [k \in 1 .. Fetched(s, from, limit) |-> [head_id |-> from + k - 1, entry |-> s[from + k - 1]]]

Fetch(n) ==
    /\ At(n, "fetch") /\ up[Peer(n)]
    /\ sync' = [sync EXCEPT ![n].pc = "put", ![n].before = sync[n].local_head,
                   ![n].batch = FetchMessages(log[Peer(n)][sync[n].head.log],
                                              sync[n].local_head + 1, BatchLimit)]
    /\ UNCHANGED <<log, tombs, created, up, states, faults>>

(* The next message of the stream *)
Incoming(n) == Head(sync[n].batch)

PutOutcome(n) ==
    LET l == sync[n].head.log
        m == Incoming(n)
    IN  IF m.head_id > HeadLimit[n] THEN "InvalidArgument"
        ELSE Outcome(log[n][l], tombs[n][l], m.head_id, m.entry)

(* put_replicated_message commits *)
Put(n) ==
    /\ At(n, "put") /\ sync[n].batch # <<>>
    /\ PutOutcome(n) \in {"Inserted", "AlreadyPresent"}
    /\ LET l == sync[n].head.log
           m == Incoming(n)
       IN  log' = [log EXCEPT ![n][l] = Replicated(@, tombs[n][l], m.head_id, m.entry)]
    /\ sync' = [sync EXCEPT ![n].pc = "apply", ![n].outcome = PutOutcome(n)]
    /\ UNCHANGED <<tombs, created, up, states, faults>>

(* apply_control_message in a transaction of its own; a message that was
   inserted is sent to the live subscribers, and the task goes on to the next *)
Apply(n) ==
    /\ At(n, "apply")
    /\ LET l == sync[n].head.log
           m == Incoming(n)
       IN  /\ IF IsMarker(l, m.entry)
              THEN CanApply(n, l, m.entry) /\ ApplyMarkers(n, {m.entry})
              ELSE UNCHANGED <<log, tombs>>
           /\ sync' = [sync EXCEPT ![n].pc = "put", ![n].batch = Tail(@), ![n].outcome = "none",
                          ![n].local_head = IF @ < m.head_id THEN m.head_id ELSE @]
    /\ UNCHANGED <<created, up, states, faults>>

(* Seeded fault: one batch per head. *)
OneRound(n) == FALSE

(* Another round while the peer is ahead and the last one brought something *)
AnotherRound(n) == /\ sync[n].local_head # sync[n].before
                   /\ sync[n].local_head < sync[n].head.head_id

(* The stream ends: record the progress, and go round again or to the next head *)
EndBatch(n) ==
    /\ At(n, "put") /\ sync[n].batch = <<>>
    /\ sync' = [sync EXCEPT ![n].pc = IF AnotherRound(n) THEN "fetch" ELSE "next"]
    /\ states' = [states EXCEPT ![n][sync[n].peer][sync[n].head.log] =
                     Success(sync[n].local_head, sync[n].head.head_id)]
    /\ UNCHANGED <<log, tombs, created, up, faults>>

(* All heads are done *)
FinishPeer(n) ==
    /\ At(n, "next") /\ sync[n].todo = {}
    /\ states' = [states EXCEPT ![n][sync[n].peer][Whole] = Success(0, 0)]
    /\ sync' = [sync EXCEPT ![n] = AtPeer(NextPeer(n))]
    /\ UNCHANGED <<log, tombs, created, up, faults>>

----------------------------------------------------------------------------
(***************************************************************************)
(* Failures                                                                *)
(***************************************************************************)
(* The first error ends the work on this peer: the head being synced, if any,
   is recorded as failed, and the heads not reached are left *)
GiveUpPeer(n) ==
    /\ states' = IF sync[n].pc = "idle" THEN states
                 ELSE [states EXCEPT ![n][sync[n].peer][sync[n].head.log] =
                         Failure(@, Len(log[n][sync[n].head.log]), sync[n].head.head_id)]
    /\ sync' = [sync EXCEPT ![n] = [AtPeer(sync[n].peer) EXCEPT !.pc = "failed"]]

(* Connect, ListHeads, Fetch or reading the stream fails: the peer is down, or
   the network fails *)
RpcFails(n) ==
    /\ At(n, "idle") \/ At(n, "fetch") \/ At(n, "put")
    /\ IF up[Peer(n)] THEN faults < MaxFaults /\ faults' = faults + 1
                      ELSE faults' = faults
    /\ GiveUpPeer(n)
    /\ UNCHANGED <<log, tombs, created, up>>

(* Somebody else answers at the address *)
IdentityRefused(n) ==
    /\ At(n, "idle") /\ up[Peer(n)] /\ ~VerifyPeerIdentity(n)
    /\ GiveUpPeer(n)
    /\ UNCHANGED <<log, tombs, created, up, faults>>

(* The store refuses the message, or the marker it has just stored *)
StoreRefuses(n) ==
    /\ \/ /\ At(n, "put") /\ sync[n].batch # <<>>
          /\ PutOutcome(n) \notin {"Inserted", "AlreadyPresent"}
       \/ /\ At(n, "apply")
          /\ IsMarker(sync[n].head.log, Incoming(n).entry)
          /\ ~CanApply(n, sync[n].head.log, Incoming(n).entry)
    /\ GiveUpPeer(n)
    /\ UNCHANGED <<log, tombs, created, up, faults>>

(* sync_once records the failure of the peer, and goes on *)
PeerFailed(n) ==
    /\ At(n, "failed")
    /\ states' = [states EXCEPT ![n][sync[n].peer][Whole] = Failure(@, 0, 0)]
    /\ sync' = [sync EXCEPT ![n] = AtPeer(NextPeer(n))]
    /\ UNCHANGED <<log, tombs, created, up, faults>>

(* The process dies; committed transactions survive *)
Crash(n) ==
    /\ up[n] /\ faults < MaxFaults
    /\ up' = [up EXCEPT ![n] = FALSE]
    /\ sync' = [sync EXCEPT ![n] = AtPeer(1)]
    /\ faults' = faults + 1
    /\ UNCHANGED <<log, tombs, created, states>>

(* Seeded fault: the daemon starts without replaying its markers. *)
RestartAtOnce(n) ==
    /\ ~up[n]
    /\ up' = [up EXCEPT ![n] = TRUE]
    /\ UNCHANGED <<log, tombs, created, sync, states, faults>>

(* serve: replay_control_messages applies every stored marker before anything
   else runs; if one is refused the daemon does not start, and what it has
   replayed so far nobody can see *)
Restart(n) ==
    /\ ~up[n]
    /\ \A d \in {DeleteTopic} \X Node : \A h \in 1 .. Len(log[n][d]) :
          IsMarker(d, log[n][d][h]) => CanApply(n, d, log[n][d][h])
    /\ ApplyMarkers(n, MarkersIn(n))
    /\ up' = [up EXCEPT ![n] = TRUE]
    /\ UNCHANGED <<created, sync, states, faults>>

----------------------------------------------------------------------------
SyncStep(n) == \/ ListHeads(n) \/ NextHead(n) \/ Fetch(n) \/ Put(n) \/ Apply(n)
               \/ EndBatch(n) \/ FinishPeer(n) \/ RpcFails(n) \/ IdentityRefused(n)
               \/ StoreRefuses(n) \/ PeerFailed(n)

Next == \E n \in Node :
           \/ \E t \in Topic \cup {DeleteTopic}, o \in Node \cup {Unset} :
                 Publish(n, t, o) \/ \E r \in Ranges : DeleteRange(n, t, o, r)
           \/ SyncStep(n)
           \/ Crash(n) \/ Restart(n)

(* The interval timer keeps starting passes, the task keeps running, and a
   daemon that died is started again. *)
Fairness == \A n \in Node : WF_vars(SyncStep(n)) /\ WF_vars(Restart(n))

Spec == Init /\ [][Next]_vars

FairSpec == Spec /\ Fairness

----------------------------------------------------------------------------
Range == [topic : Topic, origin : Node, from : Nat, to : Nat] \cup {NoRange}
Entry == [id : Node \X Nat, range : Range, deleted : BOOLEAN]
TopicHead == [log : Log, head_id : Nat]
Message == [head_id : Nat, entry : Entry]
SyncTask == [pc : {"idle", "next", "fetch", "put", "apply", "failed"}, peer : Nat,
             listed : SUBSET TopicHead, todo : SUBSET TopicHead,
             head : TopicHead \cup {NoHead}, local_head : Nat, before : Nat,
             batch : Seq(Message), outcome : {"none", "Inserted", "AlreadyPresent"}]
State == [local_head : Nat, remote_head : Nat, succeeded : BOOLEAN, failures : 0 .. U32Max]

TypeOK ==
    /\ log \in [Node -> [Log -> Seq(Entry)]]
    /\ \A n \in Node, l \in Log : tombs[n][l] \subseteq Nat \X Nat
    /\ created \in [Node -> Nat]
    /\ up \in [Node -> BOOLEAN]
    /\ sync \in [Node -> SyncTask]
    /\ \A n \in Node : states[n] \in [DOMAIN Peers[n] -> [Log \cup {Whole} -> State]]
    /\ faults \in 0 .. MaxFaults

(* A replica's log is a prefix of the log at its origin, message for message,
   while the origin goes on publishing and replicas pull from each other. *)
ReplicaPrefix ==
    \A n \in Node, l \in Log :
        /\ Len(log[n][l]) <= Len(log[l[2]][l])
        /\ \A h \in 1 .. Len(log[n][l]) : SameExceptDeleted(log[n][l][h], log[l[2]][l][h])

(* A replica never shows a message as deleted that its origin has not deleted. *)
DeletedOnlyByOrigin ==
    \A n \in Node, l \in Log : \A h \in 1 .. Len(log[n][l]) :
        log[n][l][h].deleted => h <= Len(log[l[2]][l]) /\ log[l[2]][l][h].deleted

(* The sync task of n has stored the marker with head id h of log d and is
   about to apply it *)
Applying(n, d, h) == /\ sync[n].pc = "apply" /\ sync[n].head.log = d
                     /\ Incoming(n).head_id = h

(* A running daemon has applied every marker it stores, but for the one its
   sync task is applying now: all messages it has of that range are deleted.
   Storing and applying are two transactions, with crashes in between, and the
   messages may come before or after their marker. *)
MarkersApplied ==
    \A n \in Node, d \in {DeleteTopic} \X Node : \A h \in 1 .. Len(log[n][d]) :
        up[n] /\ ~Applying(n, d, h) =>
            LET r == log[n][d][h].range
                target == log[n][<<r.topic, r.origin>>]
            IN  \A k \in 1 .. Len(target) : r.from <= k /\ k <= r.to => target[k].deleted

(* When a peer is about to be recorded as synced, everything it listed is
   stored. *)
SuccessMeansCaughtUp ==
    \A n \in Node : sync[n].pc = "next" /\ sync[n].todo = {} =>
        \A h \in sync[n].listed : Len(log[n][h.log]) >= h.head_id

(* What the sync task sends to live subscribers after storing a message is the
   message as stored. *)
LiveMatchesStored ==
    \A n \in Node : sync[n].pc = "apply" /\ sync[n].outcome = "Inserted" =>
        LET m == Incoming(n)
        IN  m.entry.deleted = log[n][sync[n].head.log][m.head_id].deleted

(* No step removes or changes a stored message or takes back a deletion, on
   any node, crashes and restarts included. *)
Kept == \A n \in Node, l \in Log :
           /\ Len(log'[n][l]) >= Len(log[n][l])
           /\ \A h \in 1 .. Len(log[n][l]) :
                 /\ SameExceptDeleted(log'[n][l][h], log[n][l][h])
                 /\ log[n][l][h].deleted => log'[n][l][h].deleted
           /\ tombs[n][l] \subseteq tombs'[n][l]

AppendOnly == [][Kept]_vars

Converged == \A n \in Node, l \in Log : log[n][l] = log[l[2]][l]

(* Once clients and failures stop, all daemons come to hold the same messages
   with the same deletions, and stay so. *)
Convergence == <>[]Converged

=============================================================================
