------------------------------- MODULE Daemon -------------------------------
(***************************************************************************)
(* The life of msgbusd (serve in crates/msgbus-server/src/main.rs, the     *)
(* select loop of crates/msgbus-server/src/sync.rs) around the publish     *)
(* handlers and the subscription of module Subscription.                   *)
(*                                                                         *)
(* A signal closes the listener and tells the sync loop to stop.  The      *)
(* server then waits for every open call, a Subscribe stream included;     *)
(* after that serve waits for the sync loop, five seconds at most, and the *)
(* process ends.  A pass of the sync loop is not interrupted by the signal *)
(* and may hang as long as its peer does.                                  *)
(***************************************************************************)
EXTENDS Subscription

CONSTANT MaxSignals   \* bound: signals received

ASSUME SignalAssumption == MaxSignals \in Nat

VARIABLES server,   \* where serve is
          loop,     \* the sync task: absent, at its select!, in a pass, or ended
          signals   \* how many signals have been received

daemonVars == <<server, loop, signals>>

allVars == <<heads, handler, channel, stream, wire, client, faults, server, loop, signals>>

(* The sync task is spawned only if there are peers *)
Spawned == {"absent", "select"}

DaemonInit == Init /\ server = "serving" /\ loop \in Spawned /\ signals = 0

(* SIGINT or SIGTERM: the listener closes and shutdown_tx.send(true) *)
Signal ==
    /\ server = "serving" /\ signals < MaxSignals
    /\ server' = "draining"
    /\ signals' = signals + 1
    /\ UNCHANGED <<vars, loop>>

Told == server # "serving"   \* the watch channel holds true

(* Seeded fault: the sender is gone at once, as spawn_peer_sync leaves it. *)
ChangedAlways == TRUE

(* shutdown.changed() is ready, with an error or true *)
Changed == Told

(* select! takes any branch that is ready: the timer's, which runs a pass ... *)
Tick ==
    /\ server # "exited" /\ loop = "select"
    /\ loop' = "pass"
    /\ UNCHANGED <<vars, server, signals>>

PassEnds ==
    /\ server # "exited" /\ loop = "pass"
    /\ loop' = "select"
    /\ UNCHANGED <<vars, server, signals>>

(* ... or the shutdown channel's, which ends the loop *)
LoopBreaks ==
    /\ server # "exited" /\ loop = "select" /\ Changed
    /\ loop' = "ended"
    /\ UNCHANGED <<vars, server, signals>>

OpenCalls == stream # Closed \/ \E p \in Handler : handler[p] # Idle

(* serve_with_shutdown returns *)
Drained ==
    /\ server = "draining" /\ ~OpenCalls
    /\ server' = "joining"
    /\ UNCHANGED <<vars, loop, signals>>

(* What the end of the process leaves: the store and the client *)
Gone == /\ handler' = [p \in Handler |-> Idle]
        /\ channel' = <<>> /\ stream' = Closed /\ wire' = <<>>
        /\ UNCHANGED <<heads, client>>

Ends == server = "joining" /\ server' = "exited" /\ Gone /\ UNCHANGED <<faults, loop, signals>>

(* The sync task has ended, or there is none ... *)
ExitJoined == loop \in {"absent", "ended"} /\ Ends

(* Seeded fault: serve waits for the sync task without a limit. *)
NoTimeout == FALSE

(* ... or five seconds have passed, and the task is dropped where it is *)
ExitTimedOut == loop \in {"select", "pass"} /\ Ends

(* The daemon is started again after it has stopped *)
Start ==
    /\ server = "exited"
    /\ server' = "serving" /\ loop' \in Spawned
    /\ UNCHANGED <<vars, signals>>

(* It dies, and its supervisor restarts it *)
Dies ==
    /\ server # "exited"
    /\ DaemonRestarts
    /\ server' = "serving" /\ loop' \in Spawned
    /\ UNCHANGED signals

(* New calls need the listener; open ones go on while the process lives *)
Accepted == /\ server = "serving"
            /\ Subscribe \/ \E p \in Handler, t \in Topic : AppendMessage(p, t)

Ongoing == /\ server # "exited"
           /\ Server \/ NextMessage \/ DropStream \/ StreamBreaks

Calls == (Accepted \/ Ongoing) /\ UNCHANGED daemonVars

DaemonNext == \/ Calls
              \/ Signal \/ Tick \/ PassEnds \/ LoopBreaks \/ Drained
              \/ ExitJoined \/ ExitTimedOut \/ Start \/ Dies

(* Every task of the daemon and the reading client keep running.  Nothing says
   that a pass ends, that a client hangs up, that a signal comes or that a
   stopped daemon is started again. *)
DaemonFairness ==
    /\ \A p \in Handler : WF_allVars(Calls /\ PublishedSend(p))
    /\ WF_allVars(Calls /\ (Replay \/ TxSend \/ LiveNext \/ LiveLagged))
    /\ WF_allVars(Calls /\ Reader)
    /\ WF_allVars(Tick) /\ WF_allVars(Drained) /\ WF_allVars(ExitJoined \/ ExitTimedOut)

DaemonSpec == DaemonInit /\ [][DaemonNext]_allVars /\ DaemonFairness

----------------------------------------------------------------------------
DaemonTypeOK ==
    /\ TypeOK
    /\ server \in {"serving", "draining", "joining", "exited"}
    /\ loop \in {"absent", "select", "pass", "ended"}
    /\ signals \in 0 .. MaxSignals

(* A daemon that is in service keeps its sync loop: only the shutdown channel
   ends it, and nothing is sent there before a signal. *)
SyncsWhileServing == loop = "ended" => Told

(* Once no call is open a signalled daemon stops, unless it dies first, however
   long the pass of its sync loop takes: serve waits for it five seconds and no
   more. *)
StopsWhenDrained == server = "draining" /\ ~OpenCalls ~> server \in {"exited", "serving"}

(* A message that was stored reaches the subscriber unless the daemon has
   been stopped: through overruns, broken streams, crashes, and a shutdown that
   begins between the commit of the message and its broadcast. *)
ReturnedUnlessStopped ==
    \A h \in 1 .. MaxHead : heads[Subscribed] >= h ~> Returned(h) \/ server = "exited"

(* A signal stops the daemon. *)
SignalStops == server = "draining" ~> server = "exited"
=============================================================================
