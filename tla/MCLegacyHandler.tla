--------------------------- MODULE MCLegacyHandler ---------------------------
(***************************************************************************)
(* TLC instances of LegacyHandler: two requests, or one with a resubscriber*)
(* or a cancel.                                                            *)
(***************************************************************************)
EXTENDS LegacyHandler

CONSTANTS r1, r2, w1, k1

TwoRequests == {r1, r2}
OneWatcher == {w1}
OneCancel == {k1}
Nothing == {}

RequestAndOther == {{r1, r2}, {r1, w1}, {r1, k1}}
OneOfEach == {r1, w1}

SendOrStream == {"send", "stream"}
SomeEvents == {"working", "input", "completed"}
=============================================================================
