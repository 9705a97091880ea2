# Verification of the A2A Python SDK

TLA+ models of the SDK in `src/` (package `src/src/a2a`), the TLC configurations that check them
and the proofs TLAPS checks. Paths below are relative to `src/src/a2a` unless they begin with
`tests/`.

## 1. Inventory

The SDK lets an *agent* (an `AgentExecutor` written by the user) serve the A2A protocol, and
clients call it. A client picks a transport from the agent's card; the transport writes a call for
one of three bindings (JSON-RPC, REST, gRPC) in protocol 1.0 or 0.3; the server's routes read it
and call a request handler. The request handler asks the `ActiveTaskRegistry` for the `ActiveTask`
of the task id, and subscribes to it. The ActiveTask runs the agent in a *producer* and applies
what the agent enqueues in a *consumer*, which stores the task through a `TaskManager`, posts it to
the configured endpoints and publishes each event to the subscribers through an
`EventQueueSource`. A legacy request handler does the same without ActiveTasks: each request has a
queue and a consumer of its own. Everything runs on one asyncio event loop, so two coroutines
interleave only where an `await` really suspends.

| Component | State | Operations | Hard behaviour | What makes it correct |
|---|---|---|---|---|
| `utils/_async_queue_compat.py` (asyncio.Queue) | items, unfinished counter, shut down | put, get, task_done, shutdown, join | shutdown(immediate) takes the drained items off the counter | join() counts what is queued or in hand |
| `server/events/event_queue_v2.py` | incoming queue, sinks, dispatcher, `_is_closed` | enqueue, tap, dequeue, task_done, close (graceful, forced) of source and sink | dispatcher works on a snapshot of the sinks; eviction; close waits for readers; cancellation of the dispatcher | each sink gets a gapless run of the events; nothing lost by a graceful close; no sink left open |
| `server/agent_execution/active_task.py` | request queue, request lock, `_lock`, `_is_finished`, `_task_created`, reference count, two event queues, the TaskManager's current task | start, subscribe, cancel, aclose; the producer, the consumer | four kinds of coroutine, two nested tear-downs, cancellation at any await, misbehaving agents and clients | requests are serial; streams are complete and end; terminal states are final; clean-up happens once nobody needs the task; cancel and aclose return |
| `server/agent_execution/active_task_registry.py` | `_active_tasks`, `_cleanup_tasks`, `_closed` | get_or_create, on_cleanup, _remove_task, aclose | clean-up by id while a successor starts; callers that meet a task that is starting or finished | one running ActiveTask per id; finished ones are forgotten |
| `server/request_handlers/default_request_handler_v2.py` | none of its own | message/send, message/stream, tasks/get, list, cancel, resubscribe, push configurations | a result is chosen from a stream that others share; the agent's failure follows its FAILED status | every message gets its answer, failures are told, a resubscriber misses nothing |
| `server/tasks/task_manager.py`, `task_updater.py` | current task, call context | save_task_event, process, update_with_message; the agent's helper | producer and consumer share one TaskManager | a cached task equals the stored one; the history tells everything once |
| `server/tasks/*task_store.py` | tasks per owner | get, save, delete, list with filters and page tokens | ordering ties, page boundaries, changes between pages | pages partition the listing; no owner sees another's tasks |
| `server/tasks/*push_notification*.py` | configurations per owner and task | set, get, delete; dispatch | configurations change while events are sent | an endpoint gets every event while it is configured |
| `server/events/event_queue.py`, the legacy handler, manager, consumer, aggregator | queues with children, running agents | enqueue, tap, close; consume_all, consume_and_break | requests share a queue; closes join children; consumption goes on in the background | what the agent emits is stored and streamed; everything comes to rest |
| `client/`, `server/routes/`, `compat/v0_3/`, `utils/` | the transport's verb for subscriptions, its card | every call, in six transports and their endpoints | 0.3 beside 1.0, data that one form cannot say, errors in five encodings, lost connections | calls arrive as they were meant; errors keep their class; a break is not an end |

`PROJECT.json` lists every component, also the ones no module covers, with the reason, and every
hazard with the properties that watch it.

## 2. Modules

| Module | Models | State and actions |
|---|---|---|
| `AsyncQueue` | the queue of asyncio (external) | operators on a record `items, unfinished, open` |
| `EventQueueSource` | `event_queue_v2.py` | the incoming queue, the dispatcher (`DispatchGet`, `Deliver`, `DispatchDone`, ...), every sink's queue, each `close()` under way |
| `Broadcast` | what an event source promises | publish, attach, deliver, leave, each atomic |
| `EventQueueRefinement` | the mapping from the one to the other | `Broadcast` instantiated with what was published and where each sink stands |
| `ActiveTask` | `active_task.py` for one task | start, producer, consumer, subscribers, `cancel()`, `aclose()`; each action runs to the next point where a coroutine really waits |
| `ActiveTaskRegistry` | `active_task_registry.py` and the ActiveTasks that follow one another under one id | look-up, start, subscribe and leave, clean-up by id, cancel with its late write, `aclose()` |
| `RequestHandler` | `default_request_handler_v2.py`, the push notification stores and sender | the calls on one task, each a place in its handler (`Look`, `Configure`, `Enter`, `Subscribe`, `Judge`, `Ask`, ...); producer and consumer; `log`, what was published; a stored endpoint per configuration id |
| `TaskListing` | the two task stores and a client that pages through `tasks/list` | rows, `Save`, `Delete`; the walk: first page, next page in memory (one step), token look-up and page selection in the database (two steps), rejections |
| `TaskManager` | `task_manager.py` and those that write through it, over the database store | task objects in a heap, `_current_task`, the row, each writer's access to the store (`Read`, `Commit`); the consumer's and producer's handlers cut at every store access; `cancel()` |
| `LegacyHandler` | `default_request_handler.py`, `event_queue.py`, `in_memory_queue_manager.py`, `event_consumer.py`, `result_aggregator.py` | a queue, a TaskManager and a consumer for each call; children of a queue; the manager's entry; the saves, the producers, the clean-ups |
| `Interop` | a call from `BaseClient` to the request handler and back | the card, the preferred verb, the request and the frames of the response on their way, what the handler heard and yielded, what the caller got |
| `Wire` | `client/transports`, `server/routes`, `grpc_handler.py`, the transports, handlers and adapters of `compat/v0_3`, `utils/errors.py`, `utils/error_handlers.py` | tables and operators: the target of each operation, what is written and read of it, errors in each encoding |
| `Compat` | `compat/v0_3/conversions.py`, `proto_utils.py` | operators: what of a message, status, task, event or configuration survives each conversion |
| `AgentCards` | `card_resolver.py`, `client_factory.py`, the cards of 0.3 | operators: the card as published and as read, the interface and the transport chosen |
| `MC...` | instances for TLC | sets of model values |
| `EventQueueProofs` | proofs | types, join counters, order of delivery, evictions; what each `close()` still has to do, and what it has achieved when it returns; `EventQueueSource` implements `Broadcast` |
| `TaskListingProofs` | proofs | types; a walk through the pages misses no unchanged task and is exact while nothing changes; the stores agree |
| `ActiveTaskProofs` | proofs | types; clean-up comes last, requests are serial, streams are complete |
| `ActiveTaskRegistryProofs` | proofs | types with the reference counter; who runs is registered; what cancel() wrote stays |
| `LegacyHandlerProofs` | proofs | types; the row has every event of a request that was alone, its stream yields them all |
| `RequestHandlerProofs` | proofs | types; endpoints are sent every event; resubscribers miss nothing; a blocking call is answered with the end, a failure is told |
| `TaskManagerInvariants` | definitions | the inductive invariants of `TaskManager`, from which its proofs argue |
| `TaskManagerProofs` | proofs | types; the store follows the events, the history is in order, a cancellation is final unless the agent itself takes it back |
| `InteropProofs` | proofs | types; calls arrive, errors keep their class, streams are faithful, the preferred verb is kept |

How they fit: `EventQueueSource` is checked against `Broadcast`, and `ActiveTask` represents its
two event sources by what these two say of them: the agent's source has one reader and becomes
one queue; the subscribers' source is an incoming queue whose dispatcher serves every attached
subscriber in one step, since all are tapped with `evict_on_full` and no put blocks.
`RequestHandler` goes one step further: what has been published is a sequence, `log`, a tap is a
place in it, and the last entry may still be on its way; it keeps of the ActiveTask what decides
answers and pushes, and leaves clean-up, eviction and agents that break the protocol to
`ActiveTask`. `ActiveTaskRegistry` reduces an ActiveTask to its phase, producer, consumer, lock and
reference count, and assumes an agent that keeps to the protocol. `TaskManager` is `ActiveTask`
looked at from the store: where `ActiveTask` has one state per task that every write reaches at
once, it has the objects handlers share, and a row they reach later. `LegacyHandler` is the
other stack: it shares only the task's row with them, and counts the events applied to a task.
`Interop` extends `Wire`, which extends `Compat` and `AgentCards`; the request handler is its
environment, any events and then any error. `TaskListing` stands alone: what the other modules ask
of the store is `get` and `save` of one row.

Definitions headed *Mutant* are not part of the models: each is a plausible bug in the operation
below it, kept to show that the property named in `PROJECT.json` notices it.

### Atomicity

`asyncio.Lock`, `Queue.put`, `Queue.get` and `Event.wait` only suspend when they have to. A
section under an uncontended lock without an await is one action. `ActiveTask._lock` is a
variable because `start()` (store read) and `cancel()` (the executor) hold it while they wait.
Giving a reference back and looking at the counter are two sections. `ActiveTask` always allows
others between them; `ActiveTaskRegistry` has the exact rule of asyncio.Lock, that this needs
somebody else in line, because the clean-up reported twice depends on it.
`TaskManager` cuts a `save()` where the database store really waits: the object is converted
when `save()` is called, `session.merge()` reads the row, the commit writes the columns that differ
from what was read, and the writer continues later still. Two inserts of one row conflict; a
writer that is cancelled rolls back what it has not committed. The in-memory store is the case in
which nobody runs in between.
`LegacyHandler` cuts a consumer between taking an event, reading the task, and committing it;
taking an event and confirming it are one step, since nothing waits between them. Its queues hold
1024 events and are never full in the model.
`RequestHandler` cuts between applying an event, posting it to each endpoint and publishing it,
and in a call before each of its awaits that can wait for others.
`Interop` has a connection as a queue of frames: the server writes a frame when the handler yields,
the client takes one when it is asked for the next event, and the connection may be lost before any
of it.

## 3. Runs

| Run | Instance | Shows |
|---|---|---|
| `event_queue` | a default sink, which exerts back-pressure, and an evicting observer, two closers, capacity 1, two events, forced closes and outside cancellation, fair | types (the join counters among them), no sink survives close, a graceful close loses nothing; implements `Broadcast`; the dispatcher never stays stuck and producers get room again although the observer never reads; a graceful close returns unless a stopped reader owes a `task_done()` |
| `active_task_requests` | two senders, an arbitrary and failing agent, disconnects | serial requests, complete streams, no clean-up in use |
| `active_task_liveness` | a sender and a resubscriber, one cancel, `aclose()`, a failing agent, fair | accepted requests are answered, cancel and aclose return |
| `registry` | two senders, a resubscription, a cancel, the registry's aclose, three ActiveTasks | the entry is the running ActiveTask, cancel holds, finished ones are forgotten |
| `task_listing` | both stores, three tasks, every filter, page sizes 1 and 2, two changes during a walk | a quiet walk lists every match once; unchanged tasks are never missed, whatever changes between pages or between the database's statements; both stores give the same pages |
| `task_manager` | two requests; two events of any kind in any order, of `execute()` or of one `executor.cancel()`, also behind one that ends the task (a Task only begins a new task); both may raise | each message is told once and in order, in the row and in memory, those of requests among them; the row follows the task; a cancel is final unless the agent says otherwise behind the end it announced |
| `legacy_handler` | two requests (message/send or stream), or one with a resubscriber or a cancel; an agent that emits two events and may raise; the clients of a request and of the resubscriber may leave; fair | what a request that is alone with the task emits is stored and streamed in full; everything comes to rest, but for what `Stranded` and `Late` name |
| `request_handler` | two messages (both message/send, or one that returns at once and one stream), or one with a resubscriber or a cancel; two events; two endpoints under one id; a new or a stored task; fair | message/send answers when there is an answer; a failure is told; endpoints get every event while configured; a resubscriber misses nothing; every message is answered |
| `interop` | 34 servers and cards (each binding and version, several interfaces, polling clients, lost connections, 0.3 REST servers with one verb or none), one call of each operation with each kind of data and error, or two calls at once | calls arrive and say what was meant; errors keep their class; events come unchanged and a break is no end; the verb found for subscriptions is kept |
| `registry_parallel` | as `registry`, two cancels | finding: two producers of one task |
| `active_task_prune` | one sender | finding: a finished task is never cleaned up |
| `task_manager_cancel` | one request, a failing agent, one cancel | finding: `cancel()` returns an end the store does not have |

Bounds. Capacity 1 is the smallest at which a queue is full after one put, and every blocking
put, eviction and drain happens; two events are one that fills a sink and one the dispatcher is
left with (three were checked as well: 925 733 states, four minutes). Two closers cover every pair
of graceful and forced. In `ActiveTask` two subscribers are what serial requests, a late joiner and
an eviction need, and two agent events put one in front of, or one behind, a terminal status. A
third ActiveTask in `registry` is the first whose producer can run beside a successor's.
`MaxEvents` and `MaxInstances` only cut executions off. In `TaskListing` three tasks are one on the
page, one the token names and one behind it; every arrangement of rows is an initial state, so
`MaxSaves` bounds only what changes during the walk, and two changes are one for the task of the
token and one for a task around it. A status is set at one of two instants or has none, which
gives ties, both orders and the nulls at the end; instants are half seconds, so that a whole second
(written without fraction digits) differs from one that is not. In `TaskManager` the second request
is the first whose message is not the one that opened the task, and two events are what puts a
status behind a message that has to be moved to the history, an appended chunk behind its artifact,
or an event behind one that ends the task, be it of `execute()` while `executor.cancel()` has announced
CANCELED; three events were checked as well (18.6 million states). Nothing in the model silences an
agent: `execute()` goes on until it returns, raises, is cancelled or finds its queue shut down.
Its history variable `clean` says that the writers took turns at the store so far and none was
rolled back. The properties that the code does not keep otherwise are stated under it; section 5
has what happens without. In `LegacyHandler` and `RequestHandler` two calls are what shares a queue,
a log or a task, and `Parties` lists which two come together; two events are an interim one and
the one that ends or interrupts the task, in either order, and the emitter can be either agent. In
`RequestHandler` two endpoints share an id, so that one replaces the other; a rejected endpoint
ends a call before anything starts, and `Unsafe` is empty. In `Interop` each operator of `Wire`
treats calls one by one, so one call per operation, kind of data and transport covers the tables;
two calls at once are those that share something, the preferred verb and the extended card. A
message has one part and a stream two events, as conversions work part by part and event by event.

Deadlock checking is off: an idle server waits for its clients.

### Fairness

The event loop runs every task that is ready, so every step of the dispatcher, of a `close()`
under way, of the producer, consumer, `cancel()` and `aclose()` is weakly fair. Nobody has to
call anything. Agents return or raise (an agent that never does blocks its task by design);
readers are fair only where a run names them live (`LiveReaders`), and clients may leave.
`LegacyHandler` and `RequestHandler` have no execution of infinitely many steps, so one weak
fairness condition on all that coroutines do is fair to each of them; what clients do (calls,
disconnections, edits of configurations) and what agents emit is not part of it.
`Interop` states no liveness: a network owes nobody an answer.

## 4. Proofs

Each module of proofs rests on the named assumption of the module it is about and on nothing else:
the constants have their types, sets of different actors are disjoint, and where references are
counted the actors are finitely many; of the request handler, that no two calls bring the same
endpoint and that "nobody" is no entry of the log (`HandAssumption`); of the listing, that there is
something to store and something to ask for; of the task manager, that there is a request, without
which no ActiveTask is constructed. Every bound is any number.

The event queue (`SourceAssumption`):

* `TypeCorrect` and `JoinIsExact`. The counters of `task_done()` stay natural numbers only because
  they count what is queued or in hand, so the inductive invariant is
  `CountInv == TypeOK /\ JoinCountsExact`.
* `DeliveryOrder`. `DeliveredInOrder` is not inductive: that the next delivery continues where
  the last one stopped needs to know which event the dispatcher holds, what is left in the
  incoming queue and which sinks were in the snapshot. `OrderInv == CountInv /\
  DispatchPosition /\ DeliveredInOrder` is. `DispatcherKeepsPosition` follows from the same
  invariant.
* `EvictionsSpareDrainingReaders`, an action property, needs only the types.
* `CloseLeavesNoSink`. `CloserInv` says what a `close()` under way has still to do: the sinks
  attached are among its `todo`, and the source is closed, so that no tap adds one.
* `GracefulCloseIsLossless`. Two invariants more: `WindDownInv` (a dispatcher that ended leaves an
  empty incoming queue, closers wait for every sink they shut, a sink that stayed and that nobody
  waits for is joined) and `LedgerInv` (the default sink has all that was offered, a sink that
  stayed has the last event). Together with the ones above they are `CloseInv`.
* `Implements`. `CloseInv /\ MappingInv` is inductive, each action is mapped to the step of
  `Broadcast` it stands for or to a stutter; the release by a graceful close is the case that needs
  the whole of it.

The task listing:

* `TypeCorrect` needs no more than the types.
* `StoresCanBeExchanged`. The in-memory store sorts by the text of the timestamp, the database by its
  value: while all are written alike the two orders are one (`RanksAgree`), so both take the same tasks for
  those that match (`MatchingAgree`), and what comes after a task in the one is what the where
  clauses built from its row select in the other (`RestAgrees`).
* `QuietPagingIsExact`. `ExactInv`: before a page is asked for, the tasks that come before that of the
  token, and no others, have been returned, each once; between the two statements of the database
  store, what the where clauses select is the rest. A page adds the tasks up to that of the next token
  (`PageEnds`), which exists because what is left over has a first one (`TokenIsFirst`).
* `PagingMissesNothing`. Between two requests `WalkInv` says that a task which matched and did not
  change has been returned or stands, in today's order, no earlier than the task the token names;
  between the two statements of the database store, that the where clauses built from the row
  found select it. It needs that the first of what a page leaves over exists (`TokenIsFirst`, by
  well-foundedness of the positions) and excludes walks whose token moved back in the order.

ActiveTask (`ActiveTaskAssumption`), whatever the agent emits, whoever subscribes, leaves,
cancels or closes:

* `TypeCorrect`. `TypeInv` adds to `TypeOK` where the counters of `join()` are exact (`Held`): they stay
  natural numbers because every event taken is confirmed once.
* `StreamsAreComplete`. `CompleteStreams` speaks of the stream's end; before it one has to say where
  everything is that the stream has still to yield. `Way(s)` is what a subscriber has before it: its own
  queue, then what the dispatcher and the consumer still hold and what the agent has queued. `FlowInv`: as
  long as nothing was cut off, the events of its request on that way are as many as were enqueued and not yet
  yielded; they are in order, and while the request is still to be served its end mark is not among them. It needs that a request is
  made once (`TurnInv`) and that nothing is of a request not made yet (`FreshInv`).
* `CleanupIsLast`. `CleanupOnlyWhenUnused` says nothing about the counter by which the code
  decides. `RefInv` adds that it is at least the number of streams plus the consumer's share, and
  that `start()` comes before everything. It cannot be an equation: a subscription refused half way
  and a consumer that `aclose()` cuts short leave a reference behind.
* `RequestsAreSerial`. What is pending when the agent starts was put there by earlier requests, so
  `SerialInv` follows the end mark of a request through the agent's queue: while an agent runs, what
  is queued is of its request and the mark is not there yet (`RunsAlone`); afterwards nothing of a
  request stands behind its mark, and the lock is given back only when the mark is taken
  (`EndsLast`). It uses `RefInv`, which knows where the consumer stands. The queue is described
  without the counter of `join()` (`Loose`), which no step here depends on.

The registry (`RegistryAssumption`):

* `TypeCorrect`. The reference counters are natural numbers because each is at least the number of
  the callers that have still to give one back plus the consumer's share (`CountInv`).
* `WhoRunsIsRegistered`. `RegisteredInv`: at most one removal is scheduled, and then the
  registered ActiveTask has finished and has no reference; an ActiveTask that is not registered has
  never started or has finished without references; only `start()` holds a lock, for the one caller that
  waits for it. From the counter it follows that an ActiveTask without references has no
  consumer, hence no producer. All of it is said up to the first `cancel()`, beyond which it is
  false, as `registry_parallel` shows, and up to the end of `aclose()`.
* `CancelReturnsTheEnd`. The ActiveTasks of an id are constructed one after another, and whoever knows one
  knows it at a stage that fits where the caller stands (`BirthInv`). `HoldInv` is said while it is
  `Quiet`: no cancel() has reached an ActiveTask but the last one. Then only the last one is alive,
  what it remembers is what is stored, so that cancel() decides by the stored state, and a task that
  cancel() found finished has no writer left. That a new one is registered only when the others have finished comes
  from `RegisteredInv`. With cancels of different ActiveTasks it is false: two of them may run at once
  (`registry_parallel`), and the older one writes over what the cancel() of the younger one saved.

The request handler (`HandlerAssumption`):

* `TypeCorrect`, in one group per part of the state.
* `EndpointsAreServed`. `PushInv`: besides what each endpoint has been sent (`FollowInv`) one needs
  that an endpoint is stored under one id and is new when it is stored (`ConfigInv`), and that the
  event in the consumer's hand is the last one applied, with nobody left to notify unless it is
  notifying (`NotifyInv`).
* `ResubscribersMissNothing`. `GapInv` adds to `NoGap` that neither the log nor what the consumer
  holds is newer than the task (`Stamped`): the stored task a resubscriber is shown is never behind
  what its tap will miss.

* `AnswersBlock` and `FailuresAreTold`. `AnswerInv` looks at what is ahead of a caller: the log behind its
  tap, the consumer's hand and the agent's queue (`Ahead`). As long as no cancel() comes, a request is queued, served and
  marked returned once (`OnceInv`); a blocking call has either something to answer with, or its
  request is still to be served, or an entry that ends its wait is ahead (`AwaitInv`); the exception of an agent is ahead of its
  caller or about to be enqueued, and no mark of a return before it (`ToldInv`). Entries are not lost,
  because the queues are closed one after the other, each when the one before has run dry (`ClosingInv`).

The task manager (`ManagerAssumption`), over a store that suspends, whenever `cancel()` comes and
whatever the agent emits, before and behind the end of the task, but that it enqueues a Task only to
begin a new task. The invariants are in `TaskManagerInvariants`, the proofs in `TaskManagerProofs`:

* `TypeCorrect`. `TypeInv`: every writer holds an object of the heap that exists.
* `StoreIsFollowed`. Up to the races section 5 tells of (`clean`): at most one of consumer, producer and
  `cancel()` is at the store; who looks the task up has none in memory and sees the row; who saves has copied the
  object in its hands, which nobody changes meanwhile; with nobody there, row and object are equal (`StoreInv`).
* `HistoryIsTold`. `HistInv`: every version of the task, in the store, in memory or on its way between them, is tidy: its
  messages are in the order of the requests and before the events still ahead. `BeginInv`: an agent
  that begins with a Task finds none. `ToldInv`: the task the consumer is about has the messages of
  all requests that have been answered, and that of the one at hand unless it is still to be saved.
* `CancelEnds`. A closed task has ended or the agent has told, behind the first end announced (`ended`), another
  status (`TakenBack`). `EndInv`: while the agent does not fail, a task comes to its end only with the event
  that announced it; what the consumer applies to a finished task is its failure or was said behind that
  end, so that a closed task stays closed; `cancel()` returns on one that is finished and closed. It rests
  on `MemoryInv` (`cancel()` finds the task in memory; where there is none and the consumer is not making
  one, there is none in the store), `AnnInv` (no end comes before the first that was announced, and
  when that is taken all that is left in the queue was said later, `Late`) and `CloseInv` (the copy
  `cancel()` saves says what the task says). An agent that said something else before it was
  cancelled cannot undo the end, however late its event is applied; one that speaks behind the end can.

The legacy handler (`LegacyAssumption`), whoever calls together and whatever the agents emit:

* `TypeCorrect`. `TypeInv`: a consumer that applies or saves has an event in its hand, and no Message.
* `EventsAreKept`, `StreamsAreWhole`. Both are about requests that were alone. `AloneInv`: while such a
  request goes on nobody else does, its queue is no child and has none, and its events are in no other queue;
  a call that begins meanwhile ends that for both. `FlowInv` says how far its consumer is: its queue is the rest
  of what was put, the row and the object about to be saved have the events before, in order and
  once (`Waiting`, `Applying`). What is written must also outlive those who come later, each of whom saves a
  copy of its own: so when the request is over its events are in the row and in every copy that may
  still be saved (`Kept`). `SeenInv` follows what the stream has yielded along the same way.
  Events are numbered as an agent puts them (`NumberedInv`), which is how `EventsPersist` can say "once and
  in order" of the row.

The way of a call (`InteropAssumption`, and of `Compat` `AbsentAssumption`: nothing is no message), for
every card with any list of interfaces, any number of calls and streams of any length. `IsWorld` asks of a
server what makes its card true, and of a client that it is one: it runs the adapters of 0.3 if a version
on its card is 0.3's (an old server has nothing else), its extended card can be told in 0.3 if its card
can, and the client finds a transport in it.

* The conversions, case by case: what a message, status, event or request is after the way through the
  types of 0.3 and through their protobuf form (`MessageTrip`, `StatusTrip`, `EventTrip`, `RequestTrip`).
  The tables: every target of a transport leads to the one operation meant (`Routing`), whatever
  interfaces a card has, in whatever order, those the client takes are served (`ChosenServed`), and the
  tables of codes, statuses and reasons can be read back (`ErrorKept`).
* `InteropInvariant`. `IInv` has two halves for each call, and they are what the properties leave out: a
  call that is under way. The asking half (`AskOK`): the request is the one that the caller's wish and the
  configuration give, with one of two verbs; the handler has been asked that or nothing; a refused call had
  a verb the server does not know, and one that runs has one it knows. The answering half (`FlowOK`): the
  frames are the events not yet taken, in order, then the end or the error if there is one (`OnTheWay`),
  and the caller's events are those before them (`SaidOK`). A call that is over has everything, a
  Message as its last event, or an error that is not the handler's only when the connection was lost.
* `CallsArriveAlways`, `ErrorsKeepTheirClassAlways`, `StreamIsFaithfulAlways` then follow from the conversions.
  `PreferenceIsKept` is a property of steps: a fallback needs a refusal, a refusal a verb the server does not
  have, and while it is `Settled` there is none.

TLC found `IInv` to hold in the instance of the run `interop` (427 689 states) before it was proved. The
proof showed one thing the instance had hidden: a message without a role arrives as the agent's over 0.3
(`SameMessage` says so now, and the instance has such a message).

Only model-checked: all liveness (out of reach of the prover). Every invariant and action property that a
passing run checks is stated by a theorem, and so is the refinement of `Broadcast`.

## 5. Findings

Each has a run that shows it and an entry in `PROJECT.json` that quotes what the code says.

1. `_remove_task` removes by id: a clean-up reported twice drops a successor, two agents run.
2. A subscriber leaving at the wrong moment keeps a finished task in the registry for ever.
3. A `cancel()` that interrupts the save of a failure returns a FAILED task; the store keeps a live
   one, because the failing producer changes the shared object before it saves it.

Seen while modelling, without a run of their own.

ActiveTask, registry and event queue:

* `subscribe()` takes its reference, and taps, before the `try` that gives them back
  (`active_task.py:632-645`): a subscriber that comes between the producer's end and the consumer's
  gets QueueShutDown and keeps its reference.
* `cancel()` may interrupt the producer's `finally` (`active_task.py:579`) and leave the
  subscribers' queue open; the docstring (`:619`) says the stream ends.
* `cancel()` before the producer's first step: the producer's `finally` never runs, and if
  `executor.cancel()` writes no terminal state, `cancel()` waits for ever (`active_task.py:774`).
* Of two concurrent graceful `close()` calls the second does not wait: a sink leaves
  `_sinks` before its queue is joined.
* `cancel()` writes the copy of the task its own ActiveTask remembers; if a successor of the same id has
  been working meanwhile, the write is stale. And when cancels of two ActiveTasks of the id overlap, the
  older one may still run beside the younger and put a task back to working after `cancel()` returned
  (`CancelHolds` is stated up to the successor and the second ActiveTask that is cancelled).
* An evicted subscriber's stream ends like a complete one.
* A removal scheduled by a subscriber that leaves after the registry's `aclose()` is awaited by nobody.
* A dispatcher cancelled from outside before its first step never runs its handler.

Task manager and stores:

* A status without timestamp (the FAILED status of `active_task.py` is one) clears the timestamp of
  the row: the task moves to the end of the listing.
* A token whose task no longer passes the filters is refused by the in-memory store and
  taken by the database. A token whose task moved back in the order skips what lies between.
* The in-memory listing compares the text of timestamps (`inmemory_task_store.py:116`): within
  a second "05Z" counts as later than "05.500Z".
* `get_task()` of `cancel()` waits for the store and then replaces `_current_task` by what it read.
  If the consumer saved meanwhile, history and artifacts are lost with the next save, and a completed
  task can be written as canceled.
* When saves of consumer and producer overlap, the later commit wins whichever began first: the FAILED
  status the producer saves (`active_task.py:563-572`) can be overwritten by an earlier working status.
  When both insert the row, the second raises inside the handler and nobody reports the failure.
* With a `cancel()` that does not find the task finished and an agent that has failed, a status still
  queued is applied over the failure and can be the last word.
* An event after a terminal state is applied and streamed, although a comment
  (`default_request_handler_v2.py:355-360`) says the consumer rejects it. An agent that goes on emitting
  while `executor.cancel()` runs can so put the task back to working after `cancel()` returned, without
  any overlap at the store (`TakenBack`, the exception of `CancelIsFinal`).
* A Task enqueued for a task that exists is ignored, and with it the message of the request, which is
  then never saved (`active_task.py:239`).

Request handler and push notifications:

* A `cancel()` beside a message/send may answer it with the stored task in a state that is neither
  terminal nor interrupted (`BlockingAnswers` is stated without it).
* A message/send whose agent returns and never creates the task waits for ever in `get_task()`
  (`active_task.py:896`; the exception of `MessagesAreAnswered`).
* A message/send that taps while another request runs may answer with that request's task; the
  docstring speaks of "the final result" (`request_handler.py:102-103`). A second Message for an
  existing task in one ActiveTask is an InvalidAgentResponse.
* A configuration that comes with a message is stored before the message is refused
  (`default_request_handler_v2.py:253`, `:259`).
* The failure of an agent and the CANCELED of `cancel()` are saved and published, never pushed
  (`active_task.py:142-154`).
* The database store of configurations returns the caller's parameters without the id it chose,
  and its primary key has no owner; the in-memory store keeps the caller's object.
* Cancelling a finished task returns it while it is registered and is an error once it is forgotten.

Legacy handler:

* A resubscriber's consumer applies and saves every event a second time
  (`default_request_handler.py:636`; `task_manager.py:79-80`).
* A second message/send whose queue is a child of one being cleaned up fails with NoTaskQueue; a
  resubscriber that taps a queue after its close waits for ever (`Late`).
* A client that disconnects during a save loses that event: the rollback has no retry (`lost`).
* `cancel()` stops the producer whose clean-up would close the queue, and leaves a message/send
  polling for ever; after CANCELED an older working status can be saved over it. An agent that
  raises leaves its queue registered, and the next message hangs in join. A resubscriber that leaves
  makes a graceful close hang (`Stranded`).

Client, transports and protocol 0.3:

* Two subscriptions at once on a 0.3 REST server that has only GET: the one still on its way with
  POST is refused and takes the preference back, for good (`rest_transport.py:300-313`, docstring
  `:286-289`).
* A history length that is unset arrives as 0 over the protobuf form of 0.3, and the task that is
  answered loses its history (`conversions.py:320`, `utils/task.py:53`), although
  `a2a_v0_3.proto:121-122` says that 0 means unlimited; GetTask over gRPC 0.3 reads 0 as unset.
* That form also loses references and timestamps, and gives a status without message a blank one.
* A cancel over REST ignores the body, so its metadata are lost.
* The JSON-RPC adapter of 0.3 answers every error with InternalError. The REST client of 0.3 looks
  for a `type` the server never sends: errors become MethodNotFoundError (404) or A2AClientError, and
  an error in a stream cuts the connection.
* 0.3 REST lists and deletes no configurations, although the server routes the list; the 0.3 gRPC
  transport ignores the call's timeout; 1.0 transports never replace their card by the extended one.
* An interface without version is 0.3 in the server's view of it and 1.0 in the client's.
  `validate_version`'s docstring says major and minor have to match; the code compares major
  versions.

## 6. Plan

Done: the event queue, ActiveTask, the registry, the task stores, the TaskManager; the request
handler with its push configurations; the legacy stack; the way of a call through clients,
transports and both protocol versions. Of the proofs: the event queue with its refinement, paging,
ActiveTask, the registry, the request handler, the TaskManager, the legacy handler, the way of a call.

Left, in the order of their worth:

* the TaskUpdater and message mode of the TaskManager, with an agent that writes through it from
  several coroutines;
* a crash of the server: what the database has against what subscribers and endpoints were told;
* proofs about several `cancel()`s in the registry, and that an ActiveTask implements an abstract task
  service.

## 7. Not modelled

* Generated protobuf types, database migrations and the CLI, telemetry, signing and canonical
  JSON: translation, I/O or cryptography, without state of the protocol.
* Of transports and routes: the syntax of HTTP, JSON, SSE and protobuf, headers other than the
  version, connection pools. Interceptors may change any call and are the user's; the tenant
  decorator sets one field; security schemes and signatures of a card are copied and decide nothing
  in the SDK. The check of the protocol version against an agent card never fires for this client.
* Of the request context: the ids it generates and the tasks it looks up for reference.
* Push notifications and the history message of a request are left out of `ActiveTask`
  (`RequestHandler` and `TaskManager` have them). A post that fails is logged and dropped, so it
  is not told from one that arrives.
* The in-memory and database configuration stores differ in owners and encryption, which no
  property here is about.
* Threads: the registry's `threading.RLock` is never held over an await, and the SDK runs on one
  event loop.
