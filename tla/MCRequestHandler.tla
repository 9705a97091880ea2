--------------------------- MODULE MCRequestHandler ---------------------------
(***************************************************************************)
(* TLC instances of RequestHandler: two messages, or one with a            *)
(* resubscriber or a cancel, and two endpoints that share an id.           *)
(***************************************************************************)
EXTENDS RequestHandler

CONSTANTS r1, r2, w1, k1, u1, u2

TwoRequests == {r1, r2}
OneWatcher == {w1}
OneCancel == {k1}
RequestAndOther == {{r1, r2}, {r1, w1}, {r1, k1}}

BothSend == [r \in TwoRequests |-> "send"]
PollAndStream == [r \in TwoRequests |-> IF r = r1 THEN "poll" ELSE "stream"]
EachMode == {BothSend, PollAndStream}
SomeKinds == {"task", "message", "input", "failed"}
NewOrStored == {"none", "submitted"}

Endpoints == {u1, u2}
SameId == [u \in Endpoints |-> "task"]
Brought == [r \in TwoRequests |-> IF r = r1 THEN u1 ELSE Nobody]
NoEndpoint == {}
=============================================================================
