-------------------------- MODULE MCFifoConsumers --------------------------
(* Two consumers that may hold the same message, and one message more than a
   queue has sequence numbers.  No symmetry: the run checks liveness. *)
EXTENDS FifoConsumers
=============================================================================
