------------------------ MODULE MCEventQueueSource ------------------------
(***************************************************************************)
(* TLC instances of EventQueueSource: one default sink (the agent queue's  *)
(* reader, which exerts back-pressure) and one observer that is evicted    *)
(* when full (a subscriber).                                               *)
(***************************************************************************)
EXTENDS EventQueueRefinement

CONSTANTS def, obs, c1, c2

TwoSinks == {def, obs}
Default == {def}
Observer == {obs}
TwoClosers == {c1, c2}
===========================================================================
