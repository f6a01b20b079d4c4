------------------------------ MODULE MCDaemon ------------------------------
(* One subscriber and one publisher at a time, with a replay that covers the
   backlog; a stop and start, and two broken streams or crashes. *)
EXTENDS Daemon
=============================================================================
