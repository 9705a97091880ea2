---------------------------- MODULE MCTaskListing ----------------------------
(***************************************************************************)
(* An instance of TaskListing for TLC: three tasks of the caller.          *)
(***************************************************************************)
EXTENDS TaskListing

CONSTANTS alice, context

ThreeIds    == {11, 12, 13}
AllHers     == [i \in ThreeIds |-> alice]
SameContext == [i \in ThreeIds |-> context]
TwoStates   == {"working", "completed"}
HalfSeconds == {5, 7}

Asks(status, after, size) ==
    [owner |-> alice, context |-> {}, status |-> status, after |-> after, size |-> size]
FourRequests ==
    {Asks({}, 0, 1), [Asks({}, 0, 2) EXCEPT !.context = {context}],
     Asks({"working"}, 0, 1), Asks({}, 7, 1)}
BothStores  == {"memory", "database"}
=============================================================================
