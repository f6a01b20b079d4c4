----------------------------- MODULE PowerLoss -----------------------------
(***************************************************************************)
(* Peer sync when the machine of a daemon loses power.  The SQLite backend *)
(* runs in WAL mode with synchronous=NORMAL: a transaction is committed    *)
(* before it is on the disk, and after a power failure the database is as  *)
(* some transaction left it, at or after the last one that was synced.     *)
(***************************************************************************)
EXTENDS PeerSync

CONSTANT Lossy   \* nodes whose machine may lose power

ASSUME LossyAssumption == Lossy \subseteq Node

VARIABLE durable   \* durable[n]: the database of n as it is on the disk

powerVars == <<log, tombs, created, up, sync, states, faults, durable>>

Database(n) == [log |-> log[n], tombs |-> tombs[n], states |-> states[n]]

PowerInit == Init /\ durable = [n \in Lossy |-> Database(n)]

(* The log is synced up to the last transaction *)
Checkpoint(n) ==
    /\ durable[n] # Database(n)
    /\ durable' = [durable EXCEPT ![n] = Database(n)]
    /\ UNCHANGED vars

PowerFails(n) ==
    /\ up[n] /\ faults < MaxFaults
    /\ log' = [log EXCEPT ![n] = durable[n].log]
    /\ tombs' = [tombs EXCEPT ![n] = durable[n].tombs]
    /\ states' = [states EXCEPT ![n] = durable[n].states]
    /\ up' = [up EXCEPT ![n] = FALSE]
    /\ sync' = [sync EXCEPT ![n] = AtPeer(1)]
    /\ faults' = faults + 1
    /\ UNCHANGED <<created, durable>>

PowerNext == \/ Next /\ UNCHANGED durable
             \/ \E n \in Lossy : Checkpoint(n) \/ PowerFails(n)

(* As in PeerSync; nothing obliges a checkpoint. *)
PowerSpec == /\ PowerInit /\ [][PowerNext]_powerVars
             /\ \A n \in Node : /\ WF_powerVars(SyncStep(n) /\ UNCHANGED durable)
                                /\ WF_powerVars(Restart(n) /\ UNCHANGED durable)

----------------------------------------------------------------------------
(* Once failures stop, peer_sync_states comes to show none: the row of a head
   and the row of its peer are written in different transactions, a crash or a
   power failure may come in between, and the head may need no further message
   when the next pass reaches it. *)
FailuresClear == <>[](\A n \in Node : \A i \in DOMAIN Peers[n], k \in Log \cup {Whole} :
                         states[n][i][k].failures = 0)
=============================================================================
