---------------------------- MODULE LegacyHandler ----------------------------
(***************************************************************************)
(* The legacy request handler and one of its tasks:                        *)
(* request_handlers/default_request_handler.py, events/event_queue.py,     *)
(* events/in_memory_queue_manager.py, events/event_consumer.py and         *)
(* tasks/result_aggregator.py, over a store that suspends.                 *)
(*                                                                         *)
(* Messages, resubscriptions and cancels have a queue each, their own      *)
(* TaskManager (`cache') and a consumer that saves what it reads.  The     *)
(* first queue is registered under the task; later ones are its children.  *)
(* An event is applied to a task by appending it to `log' and, for a       *)
(* status, setting the state; Task events (TaskManager has them), history  *)
(* messages and pushes are left out.  Queues hold 1024 events and are      *)
(* never full here; get() and task_done() are one step, as nothing waits   *)
(* between them, so join() waits for queues that are not empty.            *)
(***************************************************************************)
EXTENDS Integers, Sequences, SequencesExt

CONSTANTS
    Reqs, Watchers, Cancels,    \* those who call message/send or stream, resubscribe, cancel
    Modes,          \* what Reqs call: "send", "poll" (return_immediately), "stream"
    Kinds,          \* the kinds of events agents emit
    MaxEvents,      \* bound on the events of all agents
    AgentsRaise,    \* whether execute() may raise
    ClientsLeave,   \* the streams whose client may disconnect
    Parties,        \* the sets of calls that may come together
    Nobody

ASSUME LegacyAssumption ==
    /\ Modes \subseteq {"send", "poll", "stream"}
    /\ Kinds \subseteq {"working", "auth", "input", "completed", "message"}
    /\ MaxEvents \in Nat /\ AgentsRaise \in BOOLEAN
    /\ Parties \subseteq SUBSET (Reqs \cup Watchers \cup Cancels)
    /\ Nobody \notin Reqs \cup Watchers \cup Cancels
    /\ Reqs \cap Watchers = {} /\ Reqs \cap Cancels = {} /\ Watchers \cap Cancels = {}

VARIABLES
    mode,       \* of each request
    row,        \* the task in the store
    cache,      \* _current_task of each TaskManager
    queue, closed, kids,        \* each EventQueueLegacy: its events, _is_closed, _children
    entry,      \* whose queue the queue manager has for the task
    running,    \* whose producer _running_agents has for the task
    prod,       \* each producer: _run_event_stream
    failure,    \* whether the consumer has been told that its producer raised
    cons,       \* each consumer: where it waits
    hand, obj,  \* the event it took last, the task it is saving
    call,       \* each call, as its client sees it
    tidy,       \* each _cleanup_producer
    joins,      \* the queues a close() by producer or clean-up still has to see empty
    put,        \* history: the events each agent got into its queue
    seen,       \* history: the events each stream has yielded
    mixed,      \* history: the calls that were not alone with the task
    lost        \* history: the requests whose client left while an event was being saved

store   == <<row, cache>>
queues  == <<queue, closed, kids>>
handler == <<entry, running>>
agents  == <<prod, failure>>
reading == <<cons, hand, obj>>
history == <<put, seen, mixed, lost>>
vars == <<mode, store, queues, handler, agents, reading, call, tidy, joins, history>>

Owners   == Reqs \cup Watchers \cup Cancels
Terminal == {"completed", "canceled"}
Final    == Terminal \cup {"input", "message"}

Event  == [kind : Kinds \cup {"canceled"}, by : Owners, no : Nat \ {0}]
NoTask == [state |-> "none", log |-> <<>>]
New    == [state |-> "submitted", log |-> <<>>]
Task   == [state : {"none", "submitted", "working", "auth", "input"} \cup Terminal, log : Seq(Event)]

Apply(task, e) == [state |-> e.kind, log |-> Append(task.log, e)]

TypeOK ==
    /\ mode \in [Reqs -> Modes]
    /\ row \in Task /\ cache \in [Owners -> Task] /\ obj \in [Owners -> Task]
    /\ queue \in [Owners -> Seq(Event)]
    /\ closed \in [Owners -> BOOLEAN] /\ kids \in [Owners -> SUBSET Owners]
    /\ entry \in Reqs \cup {Nobody} /\ running \in Reqs \cup {Nobody}
    /\ prod \in [Reqs -> {"none", "runs", "closing", "over", "raised", "cancelled"}]
    /\ failure \in [Owners -> BOOLEAN]
    /\ cons \in [Owners -> {"none", "pull", "apply", "save", "over"}]
    /\ hand \in [Owners -> Event \cup {Nobody}]
    /\ call \in [Owners -> {"absent", "idle", "looked", "tapped", "waits", "cleans",
                            "answered", "failed", "refused", "left"}]
    /\ tidy \in [Reqs -> {"none", "await", "close", "done", "failed"}]
    /\ joins \in [{"run", "tidy"} \X Reqs -> SUBSET Owners]
    /\ put \in [Reqs -> Seq(Event)] /\ seen \in [Owners -> Seq(Event)]
    /\ mixed \subseteq Owners /\ lost \subseteq Owners

\* A handler without calls; the task is new or known from before.
Init ==
    /\ mode \in [Reqs -> Modes]
    /\ row \in {NoTask, New}
    /\ cache = [o \in Owners |-> NoTask] /\ obj = [o \in Owners |-> NoTask]
    /\ queue = [o \in Owners |-> <<>>]
    /\ closed = [o \in Owners |-> FALSE] /\ kids = [o \in Owners |-> {}]
    /\ entry = Nobody /\ running = Nobody
    /\ prod = [r \in Reqs |-> "none"] /\ failure = [o \in Owners |-> FALSE]
    /\ cons = [o \in Owners |-> "none"] /\ hand = [o \in Owners |-> Nobody]
    /\ \E party \in Parties : call = [o \in Owners |-> IF o \in party THEN "idle" ELSE "absent"]
    /\ tidy = [r \in Reqs |-> "none"]
    /\ joins = [j \in {"run", "tidy"} \X Reqs |-> {}]
    /\ put = [r \in Reqs |-> <<>>] /\ seen = [o \in Owners |-> <<>>]
    /\ mixed = {} /\ lost = {}

-----------------------------------------------------------------------------
(* EventQueueLegacy and InMemoryQueueManager                               *)

Tree(o) == {o} \cup kids[o]

\* enqueue_event(): a closed queue drops the event, for its children too.
Enqueue(o, e) ==
    queue' = [p \in Owners |-> IF ~closed[o] /\ p \in Tree(o) /\ ~closed[p]
                               THEN Append(queue[p], e) ELSE queue[p]]

\* close(): a queue that is closed already is left alone and not waited for.
Shuts(o) == IF closed[o] THEN {} ELSE {p \in Tree(o) : ~closed[p]}

Close(o, j) ==
    /\ closed' = [p \in Owners |-> closed[p] \/ p \in Shuts(o)]
    /\ joins' = [joins EXCEPT ![j] = Shuts(o)]
    /\ UNCHANGED <<queue, kids>>

Joined(j) == \A p \in joins[j] : queue[p] = <<>>

\* close(immediate=True) after e was taken; what is queued is dropped.
CloseNow(o) ==
    /\ closed' = [p \in Owners |-> closed[p] \/ p \in Tree(o)]
    /\ queue' = [p \in Owners |-> IF p \in Tree(o) THEN <<>> ELSE queue[p]]
    /\ UNCHANGED kids

\* tap() of the registered queue.
Tap(o) == kids' = [kids EXCEPT ![entry] = @ \cup {o}]

-----------------------------------------------------------------------------
(* The calls                                                               *)

Active(o) ==
    \/ call[o] \in {"looked", "tapped", "waits", "cleans"}
    \/ cons[o] \in {"pull", "apply", "save"}
    \/ o \in Reqs /\ (tidy[o] \in {"await", "close"} \/ prod[o] \in {"runs", "closing"})

Others(o) == {p \in Owners \ {o} : Active(p)}

\* Every call begins by reading the task.  A task that has ended refuses.  Only the first
\* request can be about a task that is not stored: its id is chosen on the way.
Look(o) ==
    /\ call[o] = "idle"
    /\ row = NoTask => o \in Reqs /\ \A p \in Owners : call[p] \in {"idle", "absent"}
    /\ call' = [call EXCEPT ![o] = IF row.state \in Terminal THEN "refused" ELSE "looked"]
    /\ cache' = [cache EXCEPT ![o] = IF o \in Reqs THEN row ELSE NoTask]
    /\ mixed' = IF Others(o) = {} /\ entry = Nobody THEN mixed ELSE mixed \cup Others(o) \cup {o}
    /\ UNCHANGED <<mode, row, queues, handler, agents, reading, tidy, joins, put, seen, lost>>

\* The rest of _setup_message_execution(): create_or_tap(), create_task(), _register_producer().
Enter(r) ==
    /\ call[r] = "looked"
    /\ IF entry = Nobody THEN entry' = r /\ UNCHANGED kids ELSE Tap(r) /\ UNCHANGED entry
    /\ running' = r
    /\ prod' = [prod EXCEPT ![r] = "runs"]
    /\ call' = [call EXCEPT ![r] = "waits"]
    /\ cons' = [cons EXCEPT ![r] = "pull"]
    /\ UNCHANGED <<mode, store, queue, closed, failure, hand, obj, tidy, joins, history>>

\* on_subscribe_to_task() after it has yielded the task.
Watch(w) ==
    /\ call[w] = "looked"
    /\ IF entry = Nobody
       THEN call' = [call EXCEPT ![w] = "refused"] /\ UNCHANGED <<kids, cons>>
       ELSE /\ Tap(w)
            /\ call' = [call EXCEPT ![w] = "waits"]
            /\ cons' = [cons EXCEPT ![w] = "pull"]
    /\ UNCHANGED <<mode, store, queue, closed, handler, agents, hand, obj, tidy, joins, history>>

\* Mutant: a cancel registers its queue, as a request does.
CancelCreatesOrTaps(c) ==
    /\ call[c] = "looked"
    /\ IF entry = Nobody THEN entry' = c /\ UNCHANGED kids ELSE Tap(c) /\ UNCHANGED entry
    /\ call' = [call EXCEPT ![c] = "tapped"]
    /\ UNCHANGED <<mode, store, queue, closed, running, agents, reading, tidy, joins, history>>

\* on_cancel_task() taps the queue or takes one of its own,
CancelTap(c) ==
    /\ call[c] = "looked"
    /\ IF entry = Nobody THEN UNCHANGED kids ELSE Tap(c)
    /\ call' = [call EXCEPT ![c] = "tapped"]
    /\ UNCHANGED <<mode, store, queue, closed, handler, agents, reading, tidy, joins, history>>

\* has executor.cancel() announce the end in it, cancels the producer and begins to read.
CancelAgent(c) ==
    /\ call[c] = "tapped"
    /\ Enqueue(c, [kind |-> "canceled", by |-> c, no |-> 1])
    /\ prod' = [r \in Reqs |-> IF r = running /\ prod[r] \in {"runs", "closing"}
                               THEN "cancelled" ELSE prod[r]]
    /\ call' = [call EXCEPT ![c] = "waits"]
    /\ cons' = [cons EXCEPT ![c] = "pull"]
    /\ UNCHANGED <<mode, store, closed, kids, handler, failure, hand, obj, tidy, joins, history>>

-----------------------------------------------------------------------------
(* The producer                                                            *)

Emit(r, kind) ==
    /\ prod[r] = "runs" /\ FoldFunction(LAMBDA s, n : Len(s) + n, 0, put) < MaxEvents
    /\ LET e == [kind |-> kind, by |-> r, no |-> Len(put[r]) + 1]
       IN /\ Enqueue(r, e)
          /\ put' = [put EXCEPT ![r] = IF closed[r] THEN @ ELSE Append(@, e)]
    /\ UNCHANGED <<mode, store, closed, kids, handler, agents, reading, call, tidy, joins,
                   seen, mixed, lost>>

\* execute() returns; the queue is closed and waited for.
Return(r) ==
    /\ prod[r] = "runs"
    /\ prod' = [prod EXCEPT ![r] = "closing"]
    /\ Close(r, <<"run", r>>)
    /\ UNCHANGED <<mode, store, handler, failure, reading, call, tidy, history>>

Returned(r) ==
    /\ prod[r] = "closing" /\ Joined(<<"run", r>>)
    /\ prod' = [prod EXCEPT ![r] = "over"]
    /\ UNCHANGED <<mode, store, queues, handler, failure, reading, call, tidy, joins, history>>

\* Mutant: the consumer is not told.
RaiseSilently(r) ==
    /\ AgentsRaise /\ prod[r] = "runs"
    /\ prod' = [prod EXCEPT ![r] = "raised"]
    /\ UNCHANGED <<mode, store, queues, handler, failure, reading, call, tidy, joins, history>>

\* execute() raises: the queue stays open, agent_task_callback() tells the consumer.
Raise(r) ==
    /\ AgentsRaise /\ prod[r] = "runs"
    /\ prod' = [prod EXCEPT ![r] = "raised"]
    /\ failure' = [failure EXCEPT ![r] = TRUE]
    /\ UNCHANGED <<mode, store, queues, handler, reading, call, tidy, joins, history>>

-----------------------------------------------------------------------------
(* EventConsumer.consume_all() inside a ResultAggregator                   *)

Streams(o) == o \in Watchers \/ (o \in Reqs /\ mode[o] = "stream")

\* The call behind a consumer that has read its last event goes on; task is its result.  A
\* stream cleans up in the background, message/send first.
Ends(o, task) ==
    /\ call' = [call EXCEPT ![o] =
         IF @ # "waits" THEN @
         ELSE IF o \in Cancels THEN IF task.state = "canceled" THEN "answered" ELSE "failed"
         ELSE IF Streams(o) THEN "answered" ELSE "cleans"]
    /\ tidy' = [r \in Reqs |-> IF r = o /\ call[o] = "waits" THEN "await" ELSE tidy[r]]

\* A final event closes the queue before anybody sees it.  A Message is nothing to save.
Take(o) ==
    /\ cons[o] = "pull" /\ ~failure[o] /\ queue[o] # <<>>
    /\ LET e == Head(queue[o])
       IN /\ hand' = [hand EXCEPT ![o] = e]
          /\ IF e.kind \in Final THEN CloseNow(o)
             ELSE queue' = [queue EXCEPT ![o] = Tail(@)] /\ UNCHANGED <<closed, kids>>
          /\ IF e.kind = "message"
             THEN /\ cons' = [cons EXCEPT ![o] = "over"]
                  /\ Ends(o, cache[o])
                  /\ seen' = [seen EXCEPT ![o] = IF Streams(o) /\ call[o] = "waits"
                                                 THEN Append(@, e) ELSE @]
             ELSE cons' = [cons EXCEPT ![o] = "apply"] /\ UNCHANGED <<call, tidy, seen>>
    /\ UNCHANGED <<mode, store, handler, agents, obj, joins, put, mixed, lost>>

\* Mutant: a closed queue ends the reading, whatever it holds.
TakeEndEarly(o) ==
    /\ cons[o] = "pull" /\ ~failure[o] /\ closed[o]
    /\ cons' = [cons EXCEPT ![o] = "over"]
    /\ Ends(o, cache[o])
    /\ UNCHANGED <<mode, store, queues, handler, agents, hand, obj, joins, history>>

\* A closed queue that is empty ends the reading.
TakeEnd(o) ==
    /\ cons[o] = "pull" /\ ~failure[o] /\ queue[o] = <<>> /\ closed[o]
    /\ cons' = [cons EXCEPT ![o] = "over"]
    /\ Ends(o, cache[o])
    /\ UNCHANGED <<mode, store, queues, handler, agents, hand, obj, joins, history>>

\* The producer has raised: what is still queued is not read.
TakeFailure(r) ==
    /\ cons[r] = "pull" /\ failure[r]
    /\ cons' = [cons EXCEPT ![r] = "over"]
    /\ call' = [call EXCEPT ![r] = IF @ # "waits" THEN @
                                   ELSE IF Streams(r) THEN "failed" ELSE "cleans"]
    /\ tidy' = [tidy EXCEPT ![r] = IF call[r] = "waits" THEN "await" ELSE @]
    /\ UNCHANGED <<mode, store, queues, handler, agents, hand, obj, joins, history>>

\* ensure_task(): a TaskManager without a task takes the stored one, or inserts a new one first.
Insert(o) ==
    /\ cons[o] = "apply" /\ cache[o] = NoTask /\ row = NoTask
    /\ row' = New
    /\ cache' = [cache EXCEPT ![o] = New]
    /\ UNCHANGED <<mode, queues, handler, agents, reading, call, tidy, joins, history>>

\* The task is changed in place, then save() is called.
Change(o) ==
    /\ cons[o] = "apply" /\ (cache[o] # NoTask \/ row # NoTask)
    /\ LET task == Apply(IF cache[o] = NoTask THEN row ELSE cache[o], hand[o])
       IN /\ obj' = [obj EXCEPT ![o] = task]
          /\ cache' = [cache EXCEPT ![o] = IF @ = NoTask THEN @ ELSE task]
    /\ cons' = [cons EXCEPT ![o] = "save"]
    /\ UNCHANGED <<mode, row, queues, handler, agents, hand, call, tidy, joins, history>>

\* auth_required, or the first event of a call that does not block: message/send answers, the
\* reading and the clean-up go on in the background.
Interrupts(o) ==
    /\ o \in Reqs /\ ~Streams(o) /\ call[o] = "waits"
    /\ hand[o].kind = "auth" \/ mode[o] = "poll"

Commit(o) ==
    /\ cons[o] = "save"
    /\ row' = obj[o]
    /\ cache' = [cache EXCEPT ![o] = obj[o]]
    /\ obj' = [obj EXCEPT ![o] = NoTask]
    /\ hand' = [hand EXCEPT ![o] = Nobody]
    /\ seen' = [seen EXCEPT ![o] = IF Streams(o) /\ call[o] = "waits" THEN Append(@, hand[o]) ELSE @]
    /\ cons' = [cons EXCEPT ![o] = IF hand[o].kind \in Final THEN "over" ELSE "pull"]
    /\ CASE Interrupts(o) -> /\ call' = [call EXCEPT ![o] = "answered"]
                             /\ tidy' = [tidy EXCEPT ![o] = "await"]
         [] ~Interrupts(o) /\ hand[o].kind \in Final -> Ends(o, obj[o])
         [] OTHER -> UNCHANGED <<call, tidy>>
    /\ UNCHANGED <<mode, queues, handler, agents, joins, put, mixed, lost>>

\* Mutant: nobody reads on when the client has left.
LeaveForGood(o) ==
    /\ o \in ClientsLeave /\ Streams(o) /\ call[o] = "waits"
    /\ cons[o] \in {"pull", "save"} \/ (cons[o] = "apply" /\ cache[o] = NoTask)
    /\ call' = [call EXCEPT ![o] = "left"]
    /\ cons' = [cons EXCEPT ![o] = "over"]
    /\ tidy' = [r \in Reqs |-> IF r = o THEN "await" ELSE tidy[r]]
    /\ lost' = IF cons[o] = "pull" THEN lost ELSE lost \cup {o}
    /\ UNCHANGED <<mode, store, queues, handler, agents, hand, obj, joins, put, seen, mixed>>

\* The client of a stream disconnects at an await: a save under way is rolled back.  Of a
\* message the rest is read in the background; a resubscriber's queue is left as it is.
Leave(o) ==
    /\ o \in ClientsLeave /\ Streams(o) /\ call[o] = "waits"
    /\ cons[o] \in {"pull", "save"} \/ (cons[o] = "apply" /\ cache[o] = NoTask)
    /\ call' = [call EXCEPT ![o] = "left"]
    /\ cons' = [cons EXCEPT ![o] = IF o \in Reqs THEN "pull" ELSE "over"]
    /\ tidy' = [r \in Reqs |-> IF r = o THEN "await" ELSE tidy[r]]
    /\ lost' = IF cons[o] = "pull" THEN lost ELSE lost \cup {o}
    /\ obj' = [obj EXCEPT ![o] = NoTask]
    /\ hand' = [hand EXCEPT ![o] = Nobody]
    /\ UNCHANGED <<mode, store, queues, handler, agents, joins, put, seen, mixed>>

-----------------------------------------------------------------------------
(* _cleanup_producer()                                                     *)

\* An agent's failure, or a queue somebody has removed already, ends it with an exception.
TidyFails(r) ==
    /\ tidy[r] = "await"
    /\ prod[r] = "raised" \/ (prod[r] \in {"over", "cancelled"} /\ entry = Nobody)
    /\ tidy' = [tidy EXCEPT ![r] = "failed"]
    /\ call' = [call EXCEPT ![r] = IF @ = "cleans" THEN "failed" ELSE @]
    /\ UNCHANGED <<mode, store, queues, handler, agents, reading, joins, history>>

Tidy(r) ==
    /\ tidy[r] = "await" /\ prod[r] \in {"over", "cancelled"} /\ entry # Nobody
    /\ entry' = Nobody
    /\ Close(entry, <<"tidy", r>>)
    /\ tidy' = [tidy EXCEPT ![r] = "close"]
    /\ UNCHANGED <<mode, store, running, agents, reading, call, history>>

\* message/send answers with the task or the message; there may be neither.
Tidied(r) ==
    /\ tidy[r] = "close" /\ Joined(<<"tidy", r>>)
    /\ running' = Nobody
    /\ tidy' = [tidy EXCEPT ![r] = "done"]
    /\ call' = [call EXCEPT ![r] =
         IF @ # "cleans" THEN @
         ELSE IF cache[r] = NoTask /\ (hand[r] = Nobody \/ hand[r].kind # "message")
              THEN "failed" ELSE "answered"]
    /\ UNCHANGED <<mode, store, queues, entry, agents, reading, joins, history>>

-----------------------------------------------------------------------------

Read(o) == Take(o) \/ TakeEnd(o) \/ Insert(o) \/ Change(o) \/ Commit(o)

\* What the event loop has to run; agents return or raise in the end.
Runs ==
    \/ \E o \in Owners : Read(o)
    \/ \E r \in Reqs : Enter(r) \/ Return(r) \/ Returned(r) \/ Raise(r) \/ TakeFailure(r)
                       \/ TidyFails(r) \/ Tidy(r) \/ Tidied(r)
    \/ \E w \in Watchers : Watch(w)
    \/ \E c \in Cancels : CancelTap(c) \/ CancelAgent(c)

Next ==
    \/ Runs
    \/ \E o \in Owners : Look(o) \/ Leave(o)
    \/ \E r \in Reqs, kind \in Kinds : Emit(r, kind)

Spec == Init /\ [][Next]_vars

\* No execution has infinitely many steps, so that this is fair to each coroutine.
FairSpec == Spec /\ WF_vars(Runs)

-----------------------------------------------------------------------------
(* Properties                                                              *)

Alone(r) == r \notin mixed

\* What the client is to learn of an agent: its events up to the first final one.
UpToFinal(s) == LET n == SelectInSeq(s, LAMBDA e : e.kind \in Final)
                IN IF n = 0 THEN s ELSE SubSeq(s, 1, n)

\* When a request that was alone has been read to its end and its agent returned, the row
\* has each of its events up to the final one, once and in order (their numbers say so),
\* also if message/send was interrupted or the client of a stream left, unless it left in
\* the middle of a save
\* (event_consumer.py:50-110, result_aggregator.py:54-196, default_request_handler.py:457-477).
EventsPersist ==
    \A r \in Reqs :
        Alone(r) /\ r \notin lost /\ cons[r] = "over" /\ prod[r] \in {"closing", "over"}
            => LET told == UpToFinal(put[r])
                   mine == {i \in 1..Len(row.log) : row.log[i].by = r}
               IN /\ {row.log[i] : i \in mine} =
                        {told[n] : n \in {m \in 1..Len(told) : told[m].kind # "message"}}
                  /\ \A i, j \in mine : i < j => row.log[i].no < row.log[j].no

\* A stream of a request that was alone and ended by itself yielded every event up to the
\* final one; before its end, the events in their order without a gap
\* (default_request_handler.py:457-463).
StreamsAreComplete ==
    \A r \in Reqs :
        Alone(r) /\ mode[r] = "stream" =>
            /\ IsPrefix(seen[r], UpToFinal(put[r]))
            /\ call[r] = "answered" /\ prod[r] # "raised" => seen[r] = UpToFinal(put[r])

\* What the handler does not get over: a cancel (the queue of the producer it stops is never
\* closed), a resubscriber that leaves (nobody reads its queue) and an agent that raises in a
\* queue others share.
Stranded ==
    \/ \E r \in Reqs : prod[r] = "cancelled" \/ (prod[r] = "raised" /\ mixed # {})
    \/ \E w \in Watchers : call[w] = "left"

\* A resubscriber that tapped a queue after its close() has an open one nobody will close.
Late(o) == o \in Watchers /\ ~closed[o] /\ \E p \in Owners : o \in kids[p] /\ closed[p]

\* Otherwise everything comes to rest: each call is answered one way or the other, also of
\* requests that share a queue, each producer and clean-up ends, and no queue stays registered
\* but that of an agent that raised.  Closing waits for readers, readers for the close,
\* clean-ups for producers (event_queue.py:188-210, default_request_handler.py:412-420, 509-525).
Settles ==
    <>[](Stranded \/ /\ \A o \in Owners : Active(o) => Late(o)
                     /\ entry = Nobody \/ \E r \in Reqs : prod[r] = "raised")

=============================================================================
