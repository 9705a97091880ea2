----------------------------- MODULE AsyncQueue -----------------------------
(***************************************************************************)
(* The asyncio.Queue primitive (culsans on Python < 3.13) that every queue *)
(* of the SDK is built on, see utils/_async_queue_compat.py.  The library  *)
(* is outside the repository, so these operators follow how the SDK uses   *)
(* it: bounded put, get, task_done, join and shutdown(immediate).          *)
(*                                                                         *)
(* A blocking call is a guard (QCanPut, QCanGet, QJoined) in the action of *)
(* the caller.  A call that raises QueueShutDown is the guard q.down (put) *)
(* or QDrained (get).                                                      *)
(***************************************************************************)
EXTENDS Naturals, Sequences

QType(E) == [items : Seq(E), unfinished : Nat, down : BOOLEAN]

QNew == [items |-> <<>>, unfinished |-> 0, down |-> FALSE]

QFull(q, cap) == Len(q.items) >= cap

QCanPut(q, cap) == ~q.down /\ ~QFull(q, cap)

QPut(q, e) ==
    [items |-> Append(q.items, e), unfinished |-> q.unfinished + 1, down |-> q.down]

QCanGet(q) == q.items # <<>>

QGet(q) == [q EXCEPT !.items = Tail(@)]

\* get() raises QueueShutDown instead of blocking.
QDrained(q) == q.down /\ q.items = <<>>

QDone(q) == [q EXCEPT !.unfinished = @ - 1]

\* shutdown(immediate=True) drains the queue and discounts what it drained, but
\* not the items that were taken out and never confirmed with task_done().
QShutdown(q, immediate) ==
    IF immediate
    THEN [items |-> <<>>, unfinished |-> q.unfinished - Len(q.items), down |-> TRUE]
    ELSE [q EXCEPT !.down = TRUE]

QJoined(q) == q.unfinished = 0
=============================================================================
