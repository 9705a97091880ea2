------------------------ MODULE EventQueueRefinement ------------------------
(***************************************************************************)
(* EventQueueSource implements Broadcast: a reader is a sink, an event is  *)
(* published when the incoming queue accepts it and given when it is put   *)
(* into the sink's queue, and a reader is attached while its sink is open. *)
(***************************************************************************)
EXTENDS EventQueueSource

Abstract == INSTANCE Broadcast WITH
    Readers   <- Sinks,
    Founders  <- InitialSinks,
    published <- sent,
    open      <- ~isClosed,
    attached  <- {s \in Sinks : sinkState[s] = "open"},
    left      <- quit,
    seen      <- delivered

\* Whatever happens around the dispatcher, the readers see what Broadcast
\* promises: consecutive events, none lost by a reader that stays, and no release
\* by a graceful close before the last event (event_queue_v2.py:70-112, 269-317).
ImplementsBroadcast == Abstract!BSpec
=============================================================================
