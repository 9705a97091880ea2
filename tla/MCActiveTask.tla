---------------------------- MODULE MCActiveTask ----------------------------
(***************************************************************************)
(* TLC instances of ActiveTask: up to two senders, one resubscriber and    *)
(* two callers of cancel().                                                *)
(***************************************************************************)
EXTENDS ActiveTask

CONSTANTS s1, s2, watcher, k1, k2

Nobody == {}
OneSender == {s1}
TwoSenders == {s1, s2}
SenderAndWatcher == {s1, watcher}
OneCancel == {k1}
TwoCancels == {k1, k2}

NewTask == {"none"}
OldTask == {"working"}
AnyTask == {"none", "working", "completed"}

NoEvents == {}
Completed == {"completed"}
Working == {"working"}
StatusEvents == {"working", "completed"}
MixedEvents == {"task", "message", "completed"}
=============================================================================
