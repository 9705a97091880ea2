------------------------ MODULE MCActiveTaskRegistry ------------------------
(***************************************************************************)
(* TLC instances of ActiveTaskRegistry: callers of one task.               *)
(***************************************************************************)
EXTENDS ActiveTaskRegistry

CONSTANTS s1, s2, w1, k1, k2

OneSender == {s1}
TwoSenders == {s1, s2}
OneWatcher == {w1}
OneCancel == {k1}
TwoCancels == {k1, k2}

AnyState == {"none", "working", "completed"}
Working == {"working"}
=============================================================================
