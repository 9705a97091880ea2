-------------------------- MODULE EventQueueSource --------------------------
(***************************************************************************)
(* EventQueueSource and EventQueueSink (server/events/event_queue_v2.py):  *)
(* producers enqueue into a bounded incoming queue, a dispatcher task      *)
(* copies every event to the sinks tapped from the source, each consumed   *)
(* by its own reader, and close() tears everything down, gracefully or at  *)
(* once.                                                                   *)
(*                                                                         *)
(* Atomicity.  Coroutines of one event loop interleave only where an await *)
(* really suspends.  The sections under _lock contain no await, so the     *)
(* lock is never contended and a section, with what follows it up to the   *)
(* next suspension point, is one action.                                   *)
(*                                                                         *)
(* Events are numbered in the order the incoming queue accepted them.      *)
(* sent, delivered, quit and forced are history variables: how many events *)
(* were accepted, what was put into each sink, which sinks were closed     *)
(* other than by an undisturbed graceful close of the source, and whether  *)
(* the source was closed with immediate=True or its dispatcher cancelled   *)
(* from outside.                                                           *)
(***************************************************************************)
EXTENDS AsyncQueue, SequencesExt

CONSTANTS
    Sinks,          \* the sinks that can ever exist
    InitialSinks,   \* the default sink (create_default_sink=True), or none
    EvictOnFull,    \* the sinks tapped with evict_on_full=True
    LiveReaders,    \* the sinks whose reader keeps consuming (fairness only)
    Closers,        \* the coroutines that may call close()
    Capacity,       \* max_queue_size of every queue
    MaxEvents,      \* bound on the number of events enqueued
    AllowForced     \* whether close(immediate=True) and outside cancellation occur

ASSUME SourceAssumption ==
    /\ InitialSinks \subseteq Sinks
    /\ EvictOnFull \subseteq Sinks \ InitialSinks
    /\ LiveReaders \subseteq Sinks
    /\ Capacity \in Nat \ {0}
    /\ MaxEvents \in Nat
    /\ AllowForced \in BOOLEAN

VARIABLES
    incoming,     \* _incoming_queue
    isClosed,     \* EventQueueSource._is_closed
    sinks,        \* EventQueueSource._sinks
    dispState,    \* where _dispatch_loop stands
    dispEvent,    \* the event being dispatched
    dispPending,  \* the sinks the current gather still has to serve
    sinkQ,        \* EventQueueSink._queue
    sinkState,    \* "unborn", "open", or "closed" once _is_closed is set
    held,         \* events dequeued and not yet confirmed with task_done()
    closing,      \* progress of each close() call
    sent, delivered, quit, forced

vars == <<incoming, isClosed, sinks, dispState, dispEvent, dispPending, sinkQ,
          sinkState, held, closing, sent, delivered, quit, forced>>

dispVars == <<dispState, dispEvent, dispPending>>
sinkVars == <<sinkQ, sinkState, held, delivered, quit>>

Phases == {"idle", "join", "sinks", "done"}

NoClose == [phase |-> "idle", immediate |-> FALSE, todo |-> {}, joining |-> {}]

TypeOK ==
    /\ incoming \in QType(Nat)
    /\ isClosed \in BOOLEAN
    /\ sinks \in SUBSET Sinks
    /\ dispState \in {"get", "deliver", "killed", "done"}
    /\ dispEvent \in Nat
    /\ dispPending \in SUBSET Sinks
    /\ sinkQ \in [Sinks -> QType(Nat)]
    /\ sinkState \in [Sinks -> {"unborn", "open", "closed"}]
    /\ held \in [Sinks -> Nat]
    /\ closing \in [Closers -> [phase : Phases, immediate : BOOLEAN,
                                todo : SUBSET Sinks, joining : SUBSET Sinks]]
    /\ sent \in Nat
    /\ delivered \in [Sinks -> Seq(Nat)]
    /\ quit \in SUBSET Sinks
    /\ forced \in BOOLEAN

Init ==
    /\ incoming = QNew
    /\ isClosed = FALSE
    /\ sinks = InitialSinks
    /\ dispState = "get"
    /\ dispEvent = 0
    /\ dispPending = {}
    /\ sinkQ = [s \in Sinks |-> QNew]
    /\ sinkState = [s \in Sinks |-> IF s \in InitialSinks THEN "open" ELSE "unborn"]
    /\ held = [s \in Sinks |-> 0]
    /\ closing = [c \in Closers |-> NoClose]
    /\ sent = 0
    /\ delivered = [s \in Sinks |-> <<>>]
    /\ quit = {}
    /\ forced = FALSE

-----------------------------------------------------------------------------
(* Producers and readers                                                   *)

\* enqueue_event(): blocks while the incoming queue is full.  On a queue that
\* is shut down the event is dropped and the call returns, which changes nothing.
EnqueueEvent ==
    /\ sent < MaxEvents
    /\ QCanPut(incoming, Capacity)
    /\ incoming' = QPut(incoming, sent + 1)
    /\ sent' = sent + 1
    /\ UNCHANGED <<isClosed, sinks, dispVars, sinkVars, closing, forced>>

\* Mutant: a source that is closed can be tapped.
TapsClosed(s) ==
    /\ sinkState[s] = "unborn"
    /\ sinkState' = [sinkState EXCEPT ![s] = "open"]
    /\ sinks' = sinks \cup {s}
    /\ UNCHANGED <<incoming, isClosed, dispVars, sinkQ, held, delivered, quit,
                   closing, sent, forced>>

\* tap(): refused once the source is closed.
Tap(s) ==
    /\ ~isClosed
    /\ sinkState[s] = "unborn"
    /\ sinkState' = [sinkState EXCEPT ![s] = "open"]
    /\ sinks' = sinks \cup {s}
    /\ UNCHANGED <<incoming, isClosed, dispVars, sinkQ, held, delivered, quit,
                   closing, sent, forced>>

\* dequeue_event(): a closed sink can still be drained.
DequeueEvent(s) ==
    /\ QCanGet(sinkQ[s])
    /\ sinkQ' = [sinkQ EXCEPT ![s] = QGet(@)]
    /\ held' = [held EXCEPT ![s] = @ + 1]
    /\ UNCHANGED <<incoming, isClosed, sinks, dispVars, sinkState, delivered, quit,
                   closing, sent, forced>>

\* Mutant: an event is confirmed that was not dequeued.
TaskDoneTwice(s) ==
    /\ held' = [held EXCEPT ![s] = @ - 1]
    /\ sinkQ' = [sinkQ EXCEPT ![s] = QDone(@)]
    /\ UNCHANGED <<incoming, isClosed, sinks, dispVars, sinkState, delivered, quit,
                   closing, sent, forced>>

\* Mutant: task_done() does not reach the queue.
TaskDoneForgotten(s) ==
    /\ held[s] > 0
    /\ held' = [held EXCEPT ![s] = @ - 1]
    /\ UNCHANGED <<incoming, isClosed, sinks, dispVars, sinkQ, sinkState, delivered, quit,
                   closing, sent, forced>>

TaskDone(s) ==
    /\ held[s] > 0
    /\ held' = [held EXCEPT ![s] = @ - 1]
    /\ sinkQ' = [sinkQ EXCEPT ![s] = QDone(@)]
    /\ UNCHANGED <<incoming, isClosed, sinks, dispVars, sinkState, delivered, quit,
                   closing, sent, forced>>

\* EventQueueSink.close() up to its join(): the queue is shut down and the
\* sink leaves the source's set.
ShutSink(s, immediate) ==
    /\ sinkState' = [sinkState EXCEPT ![s] = "closed"]
    /\ sinkQ' = [sinkQ EXCEPT ![s] = QShutdown(@, immediate)]
    /\ sinks' = sinks \ {s}

\* The reader of a sink closes it, as ActiveTask.subscribe() does on its way out.
ReaderCloses(s, immediate) ==
    /\ sinkState[s] # "unborn"
    /\ ShutSink(s, immediate)
    /\ quit' = quit \cup {s}
    /\ UNCHANGED <<incoming, isClosed, dispVars, held, delivered, closing, sent, forced>>

-----------------------------------------------------------------------------
(* The dispatcher task, _dispatch_loop()                                   *)

\* Takes one event and the snapshot of the sinks that will get it.
DispatchGet ==
    /\ dispState = "get"
    /\ QCanGet(incoming)
    /\ dispEvent' = Head(incoming.items)
    /\ incoming' = QGet(incoming)
    /\ dispPending' = sinks
    /\ dispState' = "deliver"
    /\ UNCHANGED <<isClosed, sinks, sinkVars, closing, sent, forced>>

\* _deliver_to_sink(): a sink closed since the snapshot is skipped.
DeliverSkip(s) ==
    /\ sinkState[s] = "closed"
    /\ UNCHANGED <<sinks, sinkVars>>

\* Mutant: a full observer misses the event and stays.
DropsEvent(s) ==
    /\ sinkState[s] = "open"
    /\ s \in EvictOnFull
    /\ QFull(sinkQ[s], Capacity)
    /\ UNCHANGED <<sinks, sinkVars>>

\* Mutant: off by one: the queue has to hold more than it can.
EvictsTooLate(s) ==
    /\ sinkState[s] = "open"
    /\ s \in EvictOnFull
    /\ QFull(sinkQ[s], Capacity + 1)
    /\ ShutSink(s, TRUE)
    /\ quit' = quit \cup {s}
    /\ UNCHANGED <<held, delivered>>

\* _deliver_to_sink(): an observer whose queue is full is closed and detached.
DeliverEvict(s) ==
    /\ sinkState[s] = "open"
    /\ s \in EvictOnFull
    /\ QFull(sinkQ[s], Capacity)
    /\ ShutSink(s, TRUE)
    /\ quit' = quit \cup {s}
    /\ UNCHANGED <<held, delivered>>

\* _deliver_to_sink(): blocks while the queue of a back-pressuring sink is full.
DeliverPut(s) ==
    /\ sinkState[s] = "open"
    /\ QCanPut(sinkQ[s], Capacity)
    /\ sinkQ' = [sinkQ EXCEPT ![s] = QPut(@, dispEvent)]
    /\ delivered' = [delivered EXCEPT ![s] = Append(@, dispEvent)]
    /\ UNCHANGED <<sinks, sinkState, held, quit>>

Deliver(s) ==
    /\ dispState = "deliver"
    /\ s \in dispPending
    /\ DeliverSkip(s) \/ DeliverEvict(s) \/ DeliverPut(s)
    /\ dispPending' = dispPending \ {s}
    /\ UNCHANGED <<incoming, isClosed, dispState, dispEvent, closing, sent, forced>>

DispatchDone ==
    /\ dispState = "deliver"
    /\ dispPending = {}
    /\ dispState' = "get"
    /\ incoming' = QDone(incoming)
    /\ UNCHANGED <<isClosed, sinks, dispEvent, dispPending, sinkVars, closing, sent, forced>>

\* get() raises QueueShutDown: the loop ends by itself.
DispatchStop ==
    /\ dispState = "get"
    /\ QDrained(incoming)
    /\ dispState' = "done"
    /\ UNCHANGED <<incoming, isClosed, sinks, dispEvent, dispPending, sinkVars,
                   closing, sent, forced>>

\* The task is cancelled by someone other than close(): the handler closes the
\* source, then the sinks one after the other.
DispatcherCancelled ==
    /\ AllowForced
    /\ dispState \in {"get", "deliver"}
    /\ dispState' = "killed"
    /\ dispPending' = sinks
    /\ isClosed' = TRUE
    /\ incoming' = QShutdown(incoming, TRUE)
    /\ forced' = TRUE
    /\ UNCHANGED <<sinks, dispEvent, sinkVars, closing, sent>>

CancelledClosesSink(s) ==
    /\ dispState = "killed"
    /\ s \in dispPending
    /\ ShutSink(s, TRUE)
    /\ dispPending' = dispPending \ {s}
    /\ quit' = quit \cup {s}
    /\ UNCHANGED <<incoming, isClosed, dispState, dispEvent, held, delivered,
                   closing, sent, forced>>

CancelledDone ==
    /\ dispState = "killed"
    /\ dispPending = {}
    /\ dispState' = "done"
    /\ UNCHANGED <<incoming, isClosed, sinks, dispEvent, dispPending, sinkVars,
                   closing, sent, forced>>

-----------------------------------------------------------------------------
(* EventQueueSource.close()                                                *)

\* _dispatcher_task.cancel(): whatever it was delivering is given up.
CancelDispatcher ==
    /\ dispState' = "done"
    /\ dispPending' = {}
    /\ UNCHANGED dispEvent

\* The section under _lock, and with immediate=True the cancellation after it.
Close(c, immediate) ==
    /\ closing[c].phase = "idle"
    /\ immediate => AllowForced
    /\ isClosed' = TRUE
    /\ incoming' = QShutdown(incoming, immediate)
    /\ closing' = [closing EXCEPT ![c] =
            [phase |-> IF immediate THEN "sinks" ELSE "join",
             immediate |-> immediate, todo |-> sinks, joining |-> {}]]
    /\ IF immediate THEN CancelDispatcher ELSE UNCHANGED dispVars
    /\ forced' = (forced \/ immediate)
    /\ UNCHANGED <<sinks, sinkVars, sent>>

\* Mutant: the incoming queue is not joined.
JoinsNothing(c) ==
    /\ closing[c].phase = "join"
    /\ CancelDispatcher
    /\ closing' = [closing EXCEPT ![c].phase = "sinks"]
    /\ UNCHANGED <<incoming, isClosed, sinks, sinkVars, sent, forced>>

\* _join_incoming_queue(), which also returns when the dispatcher has ended.
JoinIncoming(c) ==
    /\ closing[c].phase = "join"
    /\ QJoined(incoming) \/ dispState = "done"
    /\ CancelDispatcher
    /\ closing' = [closing EXCEPT ![c].phase = "sinks"]
    /\ UNCHANGED <<incoming, isClosed, sinks, sinkVars, sent, forced>>

\* One close() of the gather; a graceful one goes on to join the sink's queue.
CloseSink(c, s) ==
    /\ closing[c].phase = "sinks"
    /\ s \in closing[c].todo
    /\ ShutSink(s, closing[c].immediate)
    /\ closing' = [closing EXCEPT ![c] =
            [phase |-> "sinks", immediate |-> @.immediate, todo |-> @.todo \ {s},
             joining |-> IF @.immediate THEN @.joining ELSE @.joining \cup {s}]]
    /\ quit' = IF closing[c].immediate \/ forced THEN quit \cup {s} ELSE quit
    /\ UNCHANGED <<incoming, isClosed, dispVars, held, delivered, sent, forced>>

SinkJoined(c, s) ==
    /\ s \in closing[c].joining
    /\ QJoined(sinkQ[s])
    /\ closing' = [closing EXCEPT ![c].joining = @ \ {s}]
    /\ UNCHANGED <<incoming, isClosed, sinks, dispVars, sinkVars, sent, forced>>

\* The gather is over and the dispatcher has been awaited.
CloseReturns(c) ==
    /\ closing[c].phase = "sinks"
    /\ closing[c].todo = {} /\ closing[c].joining = {}
    /\ dispState = "done"
    /\ closing' = [closing EXCEPT ![c].phase = "done"]
    /\ UNCHANGED <<incoming, isClosed, sinks, dispVars, sinkVars, sent, forced>>

-----------------------------------------------------------------------------
DispatcherNext ==
    \/ DispatchGet
    \/ \E s \in Sinks : Deliver(s)
    \/ DispatchDone
    \/ DispatchStop
    \/ \E s \in Sinks : CancelledClosesSink(s)
    \/ CancelledDone

CloserNext(c) ==
    \/ JoinIncoming(c)
    \/ \E s \in Sinks : CloseSink(c, s) \/ SinkJoined(c, s)
    \/ CloseReturns(c)

Next ==
    \/ EnqueueEvent
    \/ \E s \in Sinks : \/ Tap(s)
                        \/ DequeueEvent(s)
                        \/ TaskDone(s)
                        \/ \E immediate \in BOOLEAN : ReaderCloses(s, immediate)
    \/ DispatcherNext
    \/ DispatcherCancelled
    \/ \E c \in Closers : \/ \E immediate \in BOOLEAN : Close(c, immediate)
                          \/ CloserNext(c)

Spec == Init /\ [][Next]_vars

\* The event loop runs every ready task: the dispatcher, each close() under way
\* and the readers that are still there.  Nobody has to enqueue, tap or close.
\* Inside the dispatcher's gather every delivery is a task of its own.
Fairness ==
    /\ WF_vars(DispatchGet) /\ WF_vars(DispatchDone) /\ WF_vars(DispatchStop)
    /\ \A s \in Sinks : WF_vars(Deliver(s)) /\ WF_vars(CancelledClosesSink(s))
    /\ WF_vars(CancelledDone)
    /\ \A c \in Closers :
        /\ WF_vars(JoinIncoming(c)) /\ WF_vars(CloseReturns(c))
        /\ \A s \in Sinks : WF_vars(CloseSink(c, s)) /\ WF_vars(SinkJoined(c, s))
    /\ \A s \in LiveReaders : WF_vars(DequeueEvent(s)) /\ WF_vars(TaskDone(s))

FairSpec == Spec /\ Fairness

-----------------------------------------------------------------------------
(* What must hold                                                          *)

\* The events put into a sink are consecutive: no sink ever misses, repeats or
\* reorders an event while it is attached, whatever taps, evictions and closes
\* happen around the dispatcher (event_queue_v2.py:114-137).
DeliveredInOrder ==
    \A s \in Sinks : \A i \in 1 .. Len(delivered[s]) - 1 :
        delivered[s][i + 1] = delivered[s][i] + 1

\* The sinks attached are exactly those that are open, and none got anything before.
AttachedAreOpen ==
    /\ sinks = {s \in Sinks : sinkState[s] = "open"}
    /\ \A s \in Sinks : sinkState[s] = "unborn" => delivered[s] = <<>>

\* The incoming queue holds exactly the last events accepted.
BacklogIsLatest ==
    /\ Len(incoming.items) <= sent
    /\ \A i \in 1 .. Len(incoming.items) :
            incoming.items[i] = sent - Len(incoming.items) + i

\* How many events the dispatcher has offered to a sink so far.
Offered(s) ==
    IF dispState = "deliver" /\ s \in dispPending
    THEN dispEvent - 1
    ELSE sent - Len(incoming.items)

\* An open sink that has any event has everything offered since.
OpenSinksHaveOffered ==
    /\ dispState = "deliver" => dispEvent = sent - Len(incoming.items)
    /\ dispState \in {"get", "deliver"} =>
            \A s \in Sinks : sinkState[s] = "open" /\ delivered[s] # <<>> =>
                delivered[s][Len(delivered[s])] = Offered(s)

\* Why deliveries are consecutive: the incoming queue and the dispatcher hold
\* exactly the events after the last one offered, and every open sink has kept up
\* with what it was offered, although sinks are tapped, evicted and closed between
\* the dispatcher's snapshot and its puts (event_queue_v2.py:114-137, 210-246).
DispatchPosition == AttachedAreOpen /\ BacklogIsLatest /\ OpenSinksHaveOffered

\* join() counts exactly the events that are queued or being handled, so a
\* graceful close neither returns early nor waits for an event nobody holds, as
\* long as the dispatcher has not been cancelled in the middle of a delivery.
JoinCountsExact ==
    /\ \A s \in Sinks : sinkQ[s].unfinished = Len(sinkQ[s].items) + held[s]
    /\ dispState = "get" => incoming.unfinished = Len(incoming.items)
    /\ dispState = "deliver" => incoming.unfinished = Len(incoming.items) + 1
    /\ incoming.unfinished >= Len(incoming.items)

\* When any close() has returned no sink is left attached or open: a tap cannot
\* slip between the snapshot of the sinks and their closing.
NoTapSurvivesClose ==
    \A c \in Closers : closing[c].phase = "done" =>
        /\ sinks = {}
        /\ \A s \in Sinks : sinkState[s] # "open"

\* Every event accepted so far was delivered to, read from and confirmed by each
\* sink that stayed to the end; the default sink got every event there was.
AllConfirmed ==
    /\ incoming.items = <<>>
    /\ \A s \in Sinks \ quit :
        /\ sinkQ[s].items = <<>> /\ held[s] = 0
        /\ delivered[s] # <<>> => Last(delivered[s]) = sent
        /\ s \in InitialSinks => Len(delivered[s]) = sent

\* Once every close() that was called has returned, a source that was only closed
\* gracefully has lost nothing (event_queue_v2.py:274 and 295-302).
GracefulCloseLosesNothing ==
    /\ ~forced
    /\ \E c \in Closers : closing[c].phase = "done"
    /\ \A c \in Closers : closing[c].phase \in {"idle", "done"}
    => AllConfirmed

\* A delivery never touches the queue of a sink that is closed: in particular an
\* eviction never discards what a gracefully closed reader is still draining
\* (event_queue_v2.py:93-99).
EvictionSparesDraining ==
    [][dispState = "deliver" /\ dispState' = "deliver" /\ dispPending' # dispPending
        => \A s \in Sinks : sinkState[s] = "closed" => sinkQ'[s] = sinkQ[s]]_vars

\* Whatever the dispatcher takes it hands over, and producers blocked on a full
\* incoming queue get room again, even when no evict_on_full reader ever consumes
\* (event_queue_v2.py:75-82).
ProducersRecover ==
    /\ dispState = "deliver" ~> dispState # "deliver"
    /\ QFull(incoming, Capacity) ~> ~QFull(incoming, Capacity)

\* A reader that stopped and still owes its sink a task_done().
OwesTaskDone(s) == s \notin LiveReaders /\ ~QJoined(sinkQ[s])

\* A graceful close returns, unless a reader that stopped without draining its
\* sink keeps it waiting for ever: the deadlock risk that is documented
\* (event_queue_v2.py:276-279) is the only one.
CloseCompletes ==
    \A c \in Closers : closing[c].phase = "join" ~>
        closing[c].phase = "done" \/ [](\E s \in Sinks : OwesTaskDone(s))
=============================================================================
