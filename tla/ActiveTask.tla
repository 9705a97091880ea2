------------------------------ MODULE ActiveTask ------------------------------
(***************************************************************************)
(* One ActiveTask (server/agent_execution/active_task.py): the producer    *)
(* task that runs the agent for one request after the other, the consumer  *)
(* task that applies the agent's events to the stored task and passes them *)
(* on, the subscribers that stream them, cancel() and aclose().            *)
(*                                                                         *)
(* The two EventQueueSources are represented by what EventQueueSource and  *)
(* Broadcast say of them.  The agent's has one reader, so its incoming     *)
(* queue, dispatcher and default sink are one queue, agentQ; what counts   *)
(* is whether the source accepts events (agentOpen) and whether its sink   *)
(* is still attached (agentAttached), because close() only reaches sinks   *)
(* that are.  The subscribers' has an incoming queue, subsIn, whose        *)
(* dispatcher serves every attached subscriber in one step, as all of them *)
(* are tapped with evict_on_full and no put ever blocks.                   *)
(*                                                                         *)
(* Each action is the code between two points where a coroutine really     *)
(* waits.  _lock is a variable because start() and cancel() hold it while  *)
(* they wait; all other sections under it only need it to be free.  That   *)
(* something may come between giving a reference back and looking at the   *)
(* counter is always allowed here: in the code others must be waiting for  *)
(* the lock (ActiveTaskRegistry has the exact rule).                       *)
(***************************************************************************)
EXTENDS AsyncQueue, FiniteSets

CONSTANTS
    Subs,               \* calls of subscribe()
    Senders,            \* those made with a request (message/send, message/stream)
    Cancelers,          \* calls of cancel()
    StoredStates,       \* what the task store may hold at first
    CreateIfMissing,    \* create_task_if_missing of start()
    AgentEvents,        \* what AgentExecutor.execute() may enqueue
    CancelEvents,       \* what AgentExecutor.cancel() may enqueue
    AgentRaises,        \* whether execute() and cancel() may raise
    Polite,             \* the agent enqueues nothing after a terminal status
    Disconnects,        \* whether clients may go away in the middle of a stream
    AllowAclose,        \* whether aclose() is called
    SubCapacity,        \* max_queue_size of a subscriber's queue
    MaxEvents           \* bound on the events enqueued by the agent

None == "none"
Terminal == {"completed", "failed", "canceled"}
States == {None, "submitted", "working"} \cup Terminal

\* Agent events: Task, Message and artifact events are told apart by their kind,
\* status events by the state they carry.  The SDK adds the markers around each
\* request and the exception of a failed execution.
Kinds == {"task", "message", "artifact"} \cup (States \ {None})
Markers == {"started", "completed!", "error"}

ASSUME ActiveTaskAssumption ==
    /\ Senders \subseteq Subs /\ IsFiniteSet(Subs)
    /\ None \notin Subs /\ {None, "start"} \cap Cancelers = {}
    /\ StoredStates \subseteq States
    /\ AgentEvents \subseteq Kinds /\ CancelEvents \subseteq Kinds
    /\ {CreateIfMissing, AgentRaises, Polite, Disconnects, AllowAclose} \subseteq BOOLEAN
    /\ SubCapacity \in Nat \ {0} /\ MaxEvents \in Nat

\* An event with the request during which it was produced.
Event == [kind : Kinds \cup Markers, req : Subs \cup {None}]
Ev(k, r) == [kind |-> k, req |-> r]

VARIABLES
    task,           \* state of the task, in the store and in TaskManager
    created,        \* _task_created
    finished,       \* _is_finished
    lock,           \* who holds _lock over a wait: None, "start" or a canceler
    reqLock,        \* _request_lock is held
    refs,           \* _reference_count
    cleaned,        \* how often on_cleanup was called
    reqQ,           \* _request_queue
    prod, prodReq,  \* where the producer stands, and its request
    cons, inHand,   \* where the consumer stands, and the event it dequeued
    mode,           \* EventConsumer.task_mode
    agentQ, agentOpen, agentAttached,   \* _event_queue_agent
    subsIn, subsOpen,                   \* _event_queue_subscribers
    attached, subQ,                     \* its sinks, and their queues
    closingSubs,    \* the sinks the producer's close() of them waits for
    sub,            \* where each subscribe() stands
    outcome,        \* how its stream ended
    canc,           \* where each cancel() stands
    aclosing,       \* where aclose() stands
    sent,           \* history: events the agent enqueued
    terminalSent,   \* history: the agent enqueued a terminal status
    made, got       \* history: events accepted for a request, and streamed to it

taskVars == <<task, created, mode>>
lifeVars == <<finished, refs, cleaned>>
prodVars == <<prod, prodReq, reqLock, closingSubs>>
consVars == <<cons, inHand>>
agentVars == <<agentQ, agentOpen, agentAttached>>
feedVars == <<subsIn, subsOpen>>
subVars == <<attached, subQ, sub, outcome, got>>
history == <<sent, terminalSent, made>>
vars == <<taskVars, lifeVars, lock, reqQ, prodVars, consVars, agentVars, feedVars,
          subVars, canc, aclosing, history>>

ProdStates == {"off", "new", "get", "lock", "exec", "failed", "shut", "joinAgent",
               "shutSubs", "drainSubs", "joinSubs", "done"}
ConsStates == {"off", "new", "get", "settle", "publish", "crash", "await",
               "unref", "cleanup", "done"}
SubStates == {"idle", "initial", "stream", "yield", "unref", "cleanup", "done"}
Outcomes == {None, "completed", "error", "ended", "left", "rejected", "refused"}

TypeOK ==
    /\ task \in States /\ created \in BOOLEAN /\ finished \in BOOLEAN
    /\ mode \in {"unset", "task", "message"}
    /\ lock \in {None, "start"} \cup Cancelers
    /\ refs \in Nat /\ cleaned \in Nat
    /\ reqQ \in QType(Senders)
    /\ prod \in ProdStates /\ prodReq \in Subs \cup {None} /\ reqLock \in BOOLEAN
    /\ closingSubs \in SUBSET Subs
    /\ cons \in ConsStates /\ inHand \in Event
    /\ agentQ \in QType(Event) /\ agentOpen \in BOOLEAN /\ agentAttached \in BOOLEAN
    /\ subsIn \in Seq(Event) /\ subsOpen \in BOOLEAN
    /\ attached \in SUBSET Subs /\ subQ \in [Subs -> QType(Event)]
    /\ sub \in [Subs -> SubStates] /\ outcome \in [Subs -> Outcomes]
    /\ canc \in [Cancelers -> {"idle", "agent", "wait", "returned", "raised"}]
    /\ aclosing \in {"idle", "tasks", "drain", "done"}
    /\ sent \in Nat /\ terminalSent \in BOOLEAN
    /\ made \in [Subs -> Nat] /\ got \in [Subs -> Nat]

\* The registry has just built the object and called start(), which holds _lock
\* while it reads the task from the store.
Init ==
    /\ task \in StoredStates /\ created = FALSE /\ finished = FALSE
    /\ mode = "unset"
    /\ lock = "start"
    /\ refs = 0 /\ cleaned = 0
    /\ reqQ = QNew
    /\ prod = "off" /\ prodReq = None /\ reqLock = FALSE /\ closingSubs = {}
    /\ cons = "off" /\ inHand = Ev("task", None)
    /\ agentQ = QNew /\ agentOpen = TRUE /\ agentAttached = TRUE
    /\ subsIn = <<>> /\ subsOpen = TRUE
    /\ attached = {} /\ subQ = [s \in Subs |-> QNew]
    /\ sub = [s \in Subs |-> "idle"] /\ outcome = [s \in Subs |-> None]
    /\ canc = [c \in Cancelers |-> "idle"]
    /\ aclosing = "idle"
    /\ sent = 0 /\ terminalSent = FALSE
    /\ made = [s \in Subs |-> 0] /\ got = [s \in Subs |-> 0]

LockFree == lock = None

-----------------------------------------------------------------------------
(* start()                                                                 *)

\* Mutant: start() takes no reference for the consumer.
StartTakesNoReference ==
    /\ lock = "start"
    /\ task \notin Terminal
    /\ task # None \/ CreateIfMissing
    /\ lock' = None
    /\ created' = (task # None)
    /\ prod' = "new" /\ cons' = "new"
    /\ UNCHANGED <<task, mode, refs, finished, cleaned, reqQ, prodReq, reqLock, closingSubs,
                   inHand, agentVars, feedVars, subVars, canc, aclosing, history>>

StartSucceeds ==
    /\ lock = "start"
    /\ task \notin Terminal
    /\ task # None \/ CreateIfMissing
    /\ lock' = None
    /\ created' = (task # None)
    /\ refs' = refs + 1
    /\ prod' = "new" /\ cons' = "new"
    /\ UNCHANGED <<task, mode, finished, cleaned, reqQ, prodReq, reqLock, closingSubs,
                   inHand, agentVars, feedVars, subVars, canc, aclosing, history>>

\* The event loop runs a new task for the first time.
ProducerBegins ==
    /\ prod = "new"
    /\ prod' = "get"
    /\ UNCHANGED <<taskVars, lifeVars, lock, reqQ, prodReq, reqLock, closingSubs, consVars,
                   agentVars, feedVars, subVars, canc, aclosing, history>>

ConsumerBegins ==
    /\ cons = "new"
    /\ cons' = "get"
    /\ UNCHANGED <<taskVars, lifeVars, lock, reqQ, prodVars, inHand, agentVars, feedVars,
                   subVars, canc, aclosing, history>>

\* The task is in a terminal state, or missing.
StartFails ==
    /\ lock = "start"
    /\ task \in Terminal \/ (task = None /\ ~CreateIfMissing)
    /\ lock' = None
    /\ created' = (task # None)
    /\ finished' = TRUE
    /\ cleaned' = IF refs = 0 THEN cleaned + 1 ELSE cleaned
    /\ UNCHANGED <<task, mode, refs, reqQ, prodVars, consVars, agentVars, feedVars,
                   subVars, canc, aclosing, history>>

-----------------------------------------------------------------------------
(* The agent's event queue                                                 *)

\* enqueue_event(): silently dropped once the source is closed.
AgentEnqueues(q, e) == IF agentOpen THEN QPut(q, e) ELSE q

\* close(immediate=True): drains the sink only if it is still attached.
CloseAgentNow ==
    /\ agentOpen' = FALSE
    /\ agentAttached' = FALSE
    /\ agentQ' = IF agentAttached THEN QShutdown(agentQ, TRUE) ELSE agentQ

\* Every event of the agent and of the SDK's markers is dequeued, the sink's
\* queue is shut down, and the consumer, woken by that, has left its loop.
AgentDrained == QJoined(agentQ) /\ ~(cons = "get" /\ QDrained(agentQ))

-----------------------------------------------------------------------------
(* The producer task, _run_producer()                                      *)

ProducerGetsRequest ==
    /\ prod = "get"
    /\ QCanGet(reqQ)
    /\ prodReq' = Head(reqQ.items)
    /\ reqQ' = QGet(reqQ)
    /\ prod' = "lock"
    /\ UNCHANGED <<taskVars, lifeVars, lock, reqLock, closingSubs, consVars, agentVars,
                   feedVars, subVars, canc, aclosing, history>>

\* Mutant: the request lock is not waited for.
StartsWithoutTurn ==
    /\ prod = "lock"
    /\ reqLock' = TRUE
    /\ agentQ' = AgentEnqueues(agentQ, Ev("started", prodReq))
    /\ prod' = "exec"
    /\ UNCHANGED <<taskVars, lifeVars, lock, reqQ, prodReq, closingSubs, consVars,
                   agentOpen, agentAttached, feedVars, subVars, canc, aclosing, history>>

\* Waits until the consumer has seen the end of the previous request.
ProducerStartsRequest ==
    /\ prod = "lock"
    /\ ~reqLock
    /\ reqLock' = TRUE
    /\ agentQ' = AgentEnqueues(agentQ, Ev("started", prodReq))
    /\ prod' = "exec"
    /\ UNCHANGED <<taskVars, lifeVars, lock, reqQ, prodReq, closingSubs, consVars,
                   agentOpen, agentAttached, feedVars, subVars, canc, aclosing, history>>

Emits(k, r) ==
    /\ sent < MaxEvents
    /\ Polite => ~terminalSent
    /\ sent' = sent + 1
    /\ terminalSent' = (terminalSent \/ k \in Terminal)
    /\ agentQ' = AgentEnqueues(agentQ, Ev(k, r))

AgentEmits(k) ==
    /\ prod = "exec"
    /\ Emits(k, prodReq)
    /\ made' = IF agentOpen THEN [made EXCEPT ![prodReq] = @ + 1] ELSE made
    /\ UNCHANGED <<taskVars, lifeVars, lock, reqQ, prodVars, consVars, agentOpen,
                   agentAttached, feedVars, subVars, canc, aclosing>>

\* Mutant: no end marker is enqueued after execute().
ReturnsUnmarked ==
    /\ prod = "exec"
    /\ UNCHANGED agentQ
    /\ reqQ' = QDone(reqQ)
    /\ prod' = "get"
    /\ UNCHANGED <<taskVars, lifeVars, lock, prodReq, reqLock, closingSubs, consVars,
                   agentOpen, agentAttached, feedVars, subVars, canc, aclosing, history>>

AgentReturns ==
    /\ prod = "exec"
    /\ agentQ' = AgentEnqueues(agentQ, Ev("completed!", prodReq))
    /\ reqQ' = QDone(reqQ)
    /\ prod' = "get"
    /\ UNCHANGED <<taskVars, lifeVars, lock, prodReq, reqLock, closingSubs, consVars,
                   agentOpen, agentAttached, feedVars, subVars, canc, aclosing, history>>

ExecuteRaises ==
    /\ prod = "exec"
    /\ AgentRaises
    /\ reqQ' = QDone(reqQ)
    /\ prod' = "failed"
    /\ UNCHANGED <<taskVars, lifeVars, lock, prodReq, reqLock, closingSubs, consVars,
                   agentVars, feedVars, subVars, canc, aclosing, history>>

\* The finally clause up to its first wait: no more requests, no more events.  The
\* close() of the agent's queue waits for the sink only if it is still attached.
ProducerWindsUp ==
    /\ reqQ' = QShutdown(reqQ, TRUE)
    /\ agentOpen' = FALSE
    /\ prod' = IF agentAttached THEN "shut" ELSE "shutSubs"

ProducerSeesShutdown ==
    /\ prod = "get"
    /\ QDrained(reqQ)
    /\ ProducerWindsUp
    /\ UNCHANGED <<taskVars, lifeVars, lock, prodReq, reqLock, closingSubs, consVars,
                   agentQ, agentAttached, feedVars, subVars, canc, aclosing, history>>

\* A failed execution marks the task, creating it if need be, and passes the
\* exception on.
ProducerFails ==
    /\ prod = "failed"
    /\ task' = IF task \in Terminal THEN task ELSE "failed"
    /\ created' = TRUE
    /\ agentQ' = AgentEnqueues(agentQ, Ev("error", prodReq))
    /\ ProducerWindsUp
    /\ UNCHANGED <<mode, lifeVars, lock, prodReq, reqLock, closingSubs, consVars,
                   agentAttached, feedVars, subVars, canc, aclosing, history>>

\* close(immediate=False) of the agent's queue: once everything is dispatched the
\* sink is shut down and detached, and only then joined.
ProducerShutsSink ==
    /\ prod = "shut"
    /\ agentQ' = QShutdown(agentQ, FALSE)
    /\ agentAttached' = FALSE
    /\ prod' = "joinAgent"
    /\ UNCHANGED <<taskVars, lifeVars, lock, reqQ, prodReq, reqLock, closingSubs,
                   consVars, agentOpen, feedVars, subVars, canc, aclosing, history>>

\* The lock section of close(immediate=False) of the subscribers' queue.
ProducerShutsSubs ==
    /\ prod = "shutSubs" \/ (prod = "joinAgent" /\ AgentDrained)
    /\ subsOpen' = FALSE
    /\ closingSubs' = attached
    /\ prod' = "drainSubs"
    /\ UNCHANGED <<taskVars, lifeVars, lock, reqQ, prodReq, reqLock, consVars, agentVars,
                   subsIn, subVars, canc, aclosing, history>>

\* Everything is dispatched: each sink is closed gracefully.
ProducerClosesSinks ==
    /\ prod = "drainSubs"
    /\ subsIn = <<>>
    /\ subQ' = [s \in Subs |-> IF s \in closingSubs THEN QShutdown(subQ[s], FALSE)
                                                    ELSE subQ[s]]
    /\ attached' = attached \ closingSubs
    /\ prod' = "joinSubs"
    /\ UNCHANGED <<taskVars, lifeVars, lock, reqQ, prodReq, reqLock, closingSubs,
                   consVars, agentVars, feedVars, sub, outcome, got, canc, aclosing,
                   history>>

ProducerEnds ==
    /\ prod = "joinSubs"
    /\ \A s \in closingSubs : QJoined(subQ[s])
    /\ prod' = "done"
    /\ UNCHANGED <<taskVars, lifeVars, lock, reqQ, prodReq, reqLock, closingSubs,
                   consVars, agentVars, feedVars, subVars, canc, aclosing, history>>

\* _producer_task.cancel(): CancelledError at the wait the producer is in.  While it
\* works that leads to the finally clause; inside that clause it cuts the clause
\* short, and a task that has not run yet never enters its body at all.  A cancelled
\* execute() gives its request back.
InterruptProducer ==
    \/ /\ prod \in {"get", "lock", "exec", "failed"}
       /\ reqQ' = QShutdown(IF prod = "exec" THEN QDone(reqQ) ELSE reqQ, TRUE)
       /\ agentOpen' = FALSE
       /\ prod' = IF agentAttached THEN "shut" ELSE "shutSubs"
    \/ /\ prod \in {"off", "new", "shut", "joinAgent", "shutSubs", "drainSubs", "joinSubs",
                   "done"}
       /\ prod' = IF prod = "off" THEN "off" ELSE "done"
       /\ UNCHANGED <<reqQ, agentOpen>>

-----------------------------------------------------------------------------
(* The consumer task, EventConsumer and _run_consumer()                    *)

\* The event at the head of the agent's queue.
Taken == Head(agentQ.items)
CanTake == cons = "get" /\ QCanGet(agentQ)

\* _enqueue_to_subscribers(): to the subscribers if they still have a queue; task_done()
\* confirms the agent's event.
Publish(e) ==
    /\ subsIn' = IF subsOpen THEN Append(subsIn, e) ELSE subsIn
    /\ UNCHANGED subsOpen

\* A marker passes through without a wait; the end of a request frees the next one.
ConsumesMarker ==
    /\ CanTake
    /\ Taken.kind \in {"started", "completed!"}
    /\ reqLock' = IF Taken.kind = "completed!" THEN FALSE ELSE reqLock
    /\ Publish(Taken)
    /\ agentQ' = QDone(QGet(agentQ))
    /\ UNCHANGED <<taskVars, lifeVars, lock, reqQ, prod, prodReq, closingSubs, consVars,
                   agentOpen, agentAttached, subVars, canc, aclosing, history>>

\* _handle_message_event(): only one Message, and only when no task event was seen.
ConsumesMessage ==
    /\ CanTake
    /\ Taken.kind = "message"
    /\ mode = "unset"
    /\ mode' = "message"
    /\ Publish(Taken)
    /\ agentQ' = QDone(QGet(agentQ))
    /\ UNCHANGED <<task, created, lifeVars, lock, reqQ, prodVars, consVars, agentOpen,
                   agentAttached, subVars, canc, aclosing, history>>

ConsumerTakes(pc) ==
    /\ inHand' = Taken
    /\ agentQ' = QGet(agentQ)
    /\ cons' = pc
    /\ UNCHANGED <<created, lifeVars, lock, reqQ, prodVars, agentOpen, agentAttached,
                   feedVars, subVars, canc, aclosing, history>>

IsTaskEvent(k) == k \in Kinds \ {"message"}
IsStatus(k) == k \in States

\* A status event needs a Task that exists or was there from the start.
Premature(k) == IsStatus(k) /\ ~created /\ task = None

\* _handle_task_event() up to the save: a Task is only taken when there is none, an
\* artifact creates the task if need be, a status event sets the state, whatever
\* the state was.
ConsumerApplies ==
    /\ CanTake
    /\ IsTaskEvent(Taken.kind)
    /\ mode # "message"
    /\ ~Premature(Taken.kind)
    /\ task' = IF IsStatus(Taken.kind) THEN Taken.kind
               ELSE IF task = None THEN "submitted" ELSE task
    /\ mode' = "task"
    /\ ConsumerTakes("settle")

\* An exception of the agent, or an event that breaks the protocol.
ConsumerRaises ==
    /\ CanTake
    /\ \/ Taken.kind = "error"
       \/ Taken.kind = "message" /\ mode # "unset"
       \/ IsTaskEvent(Taken.kind) /\ (mode = "message" \/ Premature(Taken.kind))
    /\ UNCHANGED <<task, mode>>
    /\ ConsumerTakes("crash")

\* _update_task_state(): a terminal state finishes the ActiveTask at once.
ConsumerSettles ==
    /\ cons = "settle"
    /\ cons' = "publish"
    /\ IF task \in Terminal
       THEN finished' = TRUE /\ reqQ' = QShutdown(reqQ, TRUE)
       ELSE UNCHANGED <<finished, reqQ>>
    /\ UNCHANGED <<taskVars, refs, cleaned, lock, prodVars, inHand, agentVars, feedVars,
                   subVars, canc, aclosing, history>>

ConsumerPublishes ==
    /\ cons = "publish"
    /\ created' = TRUE
    /\ Publish(inHand)
    /\ agentQ' = QDone(agentQ)
    /\ cons' = "get"
    /\ UNCHANGED <<task, mode, lifeVars, lock, reqQ, prodVars, inHand, agentOpen,
                   agentAttached, subVars, canc, aclosing, history>>

\* Mutant: the finally clause of the consumer does not set _is_finished.
WindsUpUnfinished ==
    /\ UNCHANGED finished
    /\ reqQ' = QShutdown(reqQ, TRUE)
    /\ cons' = "await"

\* The finally clause of _run_consumer() up to its first wait.
ConsumerWindsUp ==
    /\ finished' = TRUE
    /\ reqQ' = QShutdown(reqQ, TRUE)
    /\ cons' = "await"

ConsumerSeesShutdown ==
    /\ cons = "get"
    /\ QDrained(agentQ)
    /\ ConsumerWindsUp
    /\ CloseAgentNow
    /\ UNCHANGED <<taskVars, refs, cleaned, lock, prodVars, inHand, feedVars, subVars,
                   canc, aclosing, history>>

\* The handler of run() could itself be refused by _handle_task_event().
HandlerRaises == task \notin Terminal \cup {None} /\ mode = "message"

\* The task fails, the subscribers get the exception and the event is confirmed.
ConsumerReportsError ==
    /\ cons = "crash"
    /\ ~HandlerRaises
    /\ IF task \notin Terminal \cup {None}
       THEN task' = "failed" /\ mode' = "task"
       ELSE UNCHANGED <<task, mode>>
    /\ Publish(Ev("error", inHand.req))
    /\ ConsumerWindsUp
    /\ agentOpen' = FALSE /\ agentAttached' = FALSE
    /\ agentQ' = LET q == QDone(agentQ) IN IF agentAttached THEN QShutdown(q, TRUE) ELSE q
    /\ UNCHANGED <<created, refs, cleaned, lock, prodVars, inHand, subVars, canc,
                   aclosing, history>>

\* Nobody is told and the event stays unconfirmed.
ConsumerDies ==
    /\ cons = "crash"
    /\ HandlerRaises
    /\ ConsumerWindsUp
    /\ CloseAgentNow
    /\ UNCHANGED <<taskVars, refs, cleaned, lock, prodVars, inHand, feedVars, subVars,
                   canc, aclosing, history>>

ConsumerAwaitsProducer ==
    /\ cons = "await"
    /\ prod = "done"
    /\ cons' = "unref"
    /\ UNCHANGED <<taskVars, lifeVars, lock, reqQ, prodVars, inHand, agentVars, feedVars,
                   subVars, canc, aclosing, history>>

ConsumerUnrefs ==
    /\ cons = "unref"
    /\ LockFree
    /\ refs' = refs - 1
    /\ cons' = "cleanup"
    /\ UNCHANGED <<taskVars, finished, cleaned, lock, reqQ, prodVars, inHand, agentVars,
                   feedVars, subVars, canc, aclosing, history>>

\* Mutant: the reference count is not looked at.
CleanupWhenFinished ==
    /\ LockFree
    /\ cleaned' = IF finished THEN cleaned + 1 ELSE cleaned

\* _maybe_cleanup()
MaybeCleanup ==
    /\ LockFree
    /\ cleaned' = IF finished /\ refs = 0 THEN cleaned + 1 ELSE cleaned

ConsumerCleansUp ==
    /\ cons = "cleanup"
    /\ MaybeCleanup
    /\ cons' = "done"
    /\ UNCHANGED <<taskVars, finished, refs, lock, reqQ, prodVars, inHand, agentVars,
                   feedVars, subVars, canc, aclosing, history>>

-----------------------------------------------------------------------------
(* The subscribers' dispatcher and subscribe()                             *)

\* Mutant: an event a full sink has no room for is dropped.
DispatchDropping ==
    /\ subsIn # <<>>
    /\ LET full == {s \in attached : QFull(subQ[s], SubCapacity)} IN
        /\ subQ' = [s \in Subs |->
                        IF s \in full THEN subQ[s]
                        ELSE IF s \in attached THEN QPut(subQ[s], Head(subsIn))
                        ELSE subQ[s]]
        /\ UNCHANGED attached
    /\ subsIn' = Tail(subsIn)
    /\ UNCHANGED <<taskVars, lifeVars, lock, reqQ, prodVars, consVars, agentVars,
                   subsOpen, sub, outcome, got, canc, aclosing, history>>

\* One event to every attached sink; a full one is closed and detached.
Dispatch ==
    /\ subsIn # <<>>
    /\ LET full == {s \in attached : QFull(subQ[s], SubCapacity)} IN
        /\ subQ' = [s \in Subs |->
                        IF s \in full THEN QShutdown(subQ[s], TRUE)
                        ELSE IF s \in attached THEN QPut(subQ[s], Head(subsIn))
                        ELSE subQ[s]]
        /\ attached' = attached \ full
    /\ subsIn' = Tail(subsIn)
    /\ UNCHANGED <<taskVars, lifeVars, lock, reqQ, prodVars, consVars, agentVars,
                   subsOpen, sub, outcome, got, canc, aclosing, history>>

SubscribeRejected(s) ==
    /\ sub[s] = "idle"
    /\ LockFree
    /\ finished
    /\ sub' = [sub EXCEPT ![s] = "done"]
    /\ outcome' = [outcome EXCEPT ![s] = "rejected"]
    /\ UNCHANGED <<taskVars, lifeVars, lock, reqQ, prodVars, consVars, agentVars,
                   feedVars, attached, subQ, got, canc, aclosing, history>>

\* Takes a reference, taps, and puts the request into the queue.
Subscribes(s) ==
    /\ sub[s] = "idle"
    /\ LockFree
    /\ ~finished
    /\ subsOpen
    /\ s \in Senders => ~reqQ.down
    /\ refs' = refs + 1
    /\ attached' = attached \cup {s}
    /\ reqQ' = IF s \in Senders THEN QPut(reqQ, s) ELSE reqQ
    /\ sub' = [sub EXCEPT ![s] = IF s \in Senders THEN "stream" ELSE "initial"]
    /\ UNCHANGED <<taskVars, finished, cleaned, lock, prodVars, consVars, agentVars,
                   feedVars, subQ, outcome, got, canc, aclosing, history>>

\* tap() or enqueue_request() raises QueueShutDown after the reference was taken
\* and before the try block that gives it back; a sink tapped stays attached.
SubscribeRefused(s) ==
    /\ sub[s] = "idle"
    /\ LockFree
    /\ ~finished
    /\ ~subsOpen \/ (s \in Senders /\ reqQ.down)
    /\ refs' = refs + 1
    /\ attached' = IF subsOpen THEN attached \cup {s} ELSE attached
    /\ sub' = [sub EXCEPT ![s] = "done"]
    /\ outcome' = [outcome EXCEPT ![s] = "refused"]
    /\ UNCHANGED <<taskVars, finished, cleaned, lock, reqQ, prodVars, consVars,
                   agentVars, feedVars, subQ, got, canc, aclosing, history>>

\* A resubscriber first gets the task, once there is one.
YieldInitial(s) ==
    /\ sub[s] = "initial"
    /\ created
    /\ sub' = [sub EXCEPT ![s] = "stream"]
    /\ UNCHANGED <<taskVars, lifeVars, lock, reqQ, prodVars, consVars, agentVars,
                   feedVars, attached, subQ, outcome, got, canc, aclosing, history>>

Others(s) ==
    UNCHANGED <<taskVars, lifeVars, lock, reqQ, prodVars, consVars, agentVars, feedVars,
                canc, aclosing, history>>

\* An agent event goes to the client.
StreamsEvent(s) ==
    /\ sub[s] = "stream"
    /\ QCanGet(subQ[s])
    /\ Head(subQ[s].items).kind \in Kinds
    /\ subQ' = [subQ EXCEPT ![s] = QGet(@)]
    /\ sub' = [sub EXCEPT ![s] = "yield"]
    /\ got' = IF Head(subQ[s].items).req = s THEN [got EXCEPT ![s] = @ + 1] ELSE got
    /\ UNCHANGED <<attached, outcome>>
    /\ Others(s)

\* The client comes back for more: the event is confirmed.
ResumesStream(s) ==
    /\ sub[s] = "yield"
    /\ sub' = [sub EXCEPT ![s] = "stream"]
    /\ subQ' = [subQ EXCEPT ![s] = QDone(@)]
    /\ UNCHANGED <<attached, outcome, got>>
    /\ Others(s)

\* A marker that is not the end of this subscriber's request is passed over.
SkipsMarker(s) ==
    /\ sub[s] = "stream"
    /\ QCanGet(subQ[s])
    /\ LET e == Head(subQ[s].items) IN
        \/ e.kind = "started"
        \/ e.kind = "completed!" /\ (s \notin Senders \/ e.req # s)
    /\ subQ' = [subQ EXCEPT ![s] = QGet(@)]
    /\ UNCHANGED <<attached, sub, outcome, got>>
    /\ Others(s)

\* The finally clause of subscribe() up to the lock: the sink is closed at once.
Leaves(s, q, result) ==
    /\ subQ' = [subQ EXCEPT ![s] = QShutdown(q, TRUE)]
    /\ attached' = attached \ {s}
    /\ sub' = [sub EXCEPT ![s] = "unref"]
    /\ outcome' = [outcome EXCEPT ![s] = result]
    /\ UNCHANGED got
    /\ Others(s)

RequestDone(s) ==
    /\ sub[s] = "stream"
    /\ s \in Senders
    /\ QCanGet(subQ[s])
    /\ Head(subQ[s].items) = Ev("completed!", s)
    /\ Leaves(s, QGet(subQ[s]), "completed")

RaisesError(s) ==
    /\ sub[s] = "stream"
    /\ QCanGet(subQ[s])
    /\ Head(subQ[s].items).kind = "error"
    /\ Leaves(s, QGet(subQ[s]), "error")

StreamEnds(s) ==
    /\ sub[s] = "stream"
    /\ QDrained(subQ[s])
    /\ Leaves(s, subQ[s], "ended")

\* The client goes away, or the handler has the result it wanted.
Disconnect(s) ==
    /\ Disconnects
    /\ \/ sub[s] \in {"initial", "stream"} /\ Leaves(s, subQ[s], "left")
       \/ sub[s] = "yield" /\ Leaves(s, QDone(subQ[s]), "left")

Unsubscribes(s) ==
    /\ sub[s] = "unref"
    /\ LockFree
    /\ refs' = refs - 1
    /\ sub' = [sub EXCEPT ![s] = "cleanup"]
    /\ UNCHANGED <<taskVars, finished, cleaned, lock, reqQ, prodVars, consVars,
                   agentVars, feedVars, attached, subQ, outcome, got, canc, aclosing,
                   history>>

SubscriberCleansUp(s) ==
    /\ sub[s] = "cleanup"
    /\ MaybeCleanup
    /\ sub' = [sub EXCEPT ![s] = "done"]
    /\ UNCHANGED <<taskVars, finished, refs, lock, reqQ, prodVars, consVars, agentVars,
                   feedVars, attached, subQ, outcome, got, canc, aclosing, history>>

-----------------------------------------------------------------------------
(* cancel()                                                                *)

\* Takes _lock; with a running producer it keeps it during executor.cancel().
CancelBegins(c) ==
    /\ canc[c] = "idle"
    /\ LockFree
    /\ IF ~finished /\ prod # "off"
       THEN lock' = c /\ canc' = [canc EXCEPT ![c] = "agent"]
       ELSE canc' = [canc EXCEPT ![c] = "wait"] /\ UNCHANGED lock
    /\ UNCHANGED <<taskVars, lifeVars, reqQ, prodVars, consVars, agentVars, feedVars,
                   subVars, aclosing, history>>

CancelEmits(c, k) ==
    /\ canc[c] = "agent"
    /\ Emits(k, None)
    /\ UNCHANGED <<taskVars, lifeVars, lock, reqQ, prodVars, consVars, agentOpen,
                   agentAttached, feedVars, subVars, canc, aclosing, made>>

CancelsProducer(c, next) ==
    /\ canc[c] = "agent"
    /\ InterruptProducer
    /\ lock' = None
    /\ canc' = [canc EXCEPT ![c] = next]
    /\ UNCHANGED <<taskVars, lifeVars, prodReq, reqLock, closingSubs, consVars,
                   agentAttached, feedVars, subVars, aclosing, history>>

AgentCancelReturns(c) == CancelsProducer(c, "wait") /\ UNCHANGED agentQ

\* _mark_task_as_failed() enqueues a failed status before the producer is cancelled.
AgentCancelRaises(c) ==
    /\ AgentRaises
    /\ CancelsProducer(c, "raised")
    /\ agentQ' = IF created /\ task # None THEN AgentEnqueues(agentQ, Ev("failed", None))
                                           ELSE agentQ

\* Closes the task out as canceled if nobody else gave it a terminal state.
CancelReturns(c) ==
    /\ canc[c] = "wait"
    /\ finished
    /\ task' = IF task \in Terminal \cup {None} THEN task ELSE "canceled"
    /\ canc' = [canc EXCEPT ![c] = IF task = None THEN "raised" ELSE "returned"]
    /\ UNCHANGED <<created, mode, lifeVars, lock, reqQ, prodVars, consVars, agentVars,
                   feedVars, subVars, aclosing, history>>

-----------------------------------------------------------------------------
(* aclose()                                                                *)

AcloseQueues ==
    /\ AllowAclose
    /\ aclosing = "idle"
    /\ aclosing' = "tasks"
    /\ reqQ' = QShutdown(reqQ, TRUE)
    /\ CloseAgentNow
    /\ subsIn' = <<>> /\ subsOpen' = FALSE
    /\ subQ' = [s \in Subs |-> IF s \in attached THEN QShutdown(subQ[s], TRUE) ELSE subQ[s]]
    /\ attached' = {}
    /\ UNCHANGED <<taskVars, lifeVars, lock, prodVars, consVars, sub, outcome, got, canc,
                   history>>

\* Mutant: aclose() does not cancel the producer.
AcloseSparesProducer ==
    /\ aclosing = "tasks"
    /\ LockFree
    /\ finished' = TRUE
    /\ UNCHANGED <<prod, reqQ, agentOpen>>
    /\ cons' = CASE cons \in {"get", "settle", "publish", "crash"} -> "await"
                 [] cons = "await" -> "unref"
                 [] cons \in {"new", "unref", "cleanup", "done"} -> "done"
                 [] cons = "off" -> "off"
    /\ aclosing' = "drain"
    /\ UNCHANGED <<taskVars, refs, cleaned, lock, prodReq, reqLock, closingSubs, inHand,
                   agentQ, agentAttached, feedVars, subVars, canc, history>>

\* Both tasks are cancelled under _lock.  A consumer that waits for the producer goes
\* on with its clean-up; one that waits for _lock is cut short.
AcloseCancels ==
    /\ aclosing = "tasks"
    /\ LockFree
    /\ finished' = TRUE
    /\ InterruptProducer
    /\ cons' = CASE cons \in {"get", "settle", "publish", "crash"} -> "await"
                 [] cons = "await" -> "unref"
                 [] cons \in {"new", "unref", "cleanup", "done"} -> "done"
                 [] cons = "off" -> "off"
    /\ aclosing' = "drain"
    /\ UNCHANGED <<taskVars, refs, cleaned, lock, prodReq, reqLock, closingSubs, inHand,
                   agentQ, agentAttached, feedVars, subVars, canc, history>>

AcloseReturns ==
    /\ aclosing = "drain"
    /\ prod \in {"off", "done"} /\ cons \in {"off", "done"}
    /\ aclosing' = "done"
    /\ UNCHANGED <<taskVars, lifeVars, lock, reqQ, prodVars, consVars, agentVars,
                   feedVars, subVars, canc, history>>

-----------------------------------------------------------------------------
Start == StartSucceeds \/ StartFails

ProducerNext ==
    \/ ProducerBegins \/ ProducerGetsRequest \/ ProducerStartsRequest \/ ProducerSeesShutdown
    \/ ProducerFails \/ ProducerShutsSink \/ ProducerShutsSubs
    \/ ProducerClosesSinks \/ ProducerEnds

AgentNext == (\E k \in AgentEvents : AgentEmits(k)) \/ AgentReturns \/ ExecuteRaises

ConsumerNext ==
    \/ ConsumerBegins \/ ConsumesMarker \/ ConsumesMessage \/ ConsumerApplies \/ ConsumerRaises
    \/ ConsumerSettles \/ ConsumerPublishes \/ ConsumerSeesShutdown
    \/ ConsumerReportsError \/ ConsumerDies \/ ConsumerAwaitsProducer
    \/ ConsumerUnrefs \/ ConsumerCleansUp

\* What a subscriber does by itself, once it has subscribed.
SubscriberNext(s) ==
    \/ YieldInitial(s) \/ StreamsEvent(s) \/ ResumesStream(s) \/ SkipsMarker(s)
    \/ RequestDone(s) \/ RaisesError(s) \/ StreamEnds(s) \/ Unsubscribes(s)
    \/ SubscriberCleansUp(s)

SubscribeNext(s) == SubscribeRejected(s) \/ Subscribes(s) \/ SubscribeRefused(s)

CancelNext(c) ==
    \/ \E k \in CancelEvents : CancelEmits(c, k)
    \/ AgentCancelReturns(c) \/ AgentCancelRaises(c) \/ CancelReturns(c)

Next ==
    \/ Start \/ ProducerNext \/ AgentNext \/ ConsumerNext \/ Dispatch
    \/ \E s \in Subs : SubscribeNext(s) \/ SubscriberNext(s) \/ Disconnect(s)
    \/ \E c \in Cancelers : CancelBegins(c) \/ CancelNext(c)
    \/ AcloseQueues \/ AcloseCancels \/ AcloseReturns

Spec == Init /\ [][Next]_vars

\* The event loop runs every task that can go on, a client reads its stream, an
\* agent's execute() and cancel() come to an end.  Nobody has to subscribe, to
\* cancel, to disconnect or to close.
Fairness ==
    /\ WF_vars(Start) /\ WF_vars(ProducerNext) /\ WF_vars(ConsumerNext)
    /\ WF_vars(AgentReturns) /\ WF_vars(Dispatch)
    /\ \A s \in Subs : WF_vars(SubscriberNext(s))
    /\ \A c \in Cancelers : WF_vars(AgentCancelReturns(c)) /\ WF_vars(CancelReturns(c))
    /\ WF_vars(AcloseCancels) /\ WF_vars(AcloseReturns)

FairSpec == Spec /\ Fairness

-----------------------------------------------------------------------------
(* What must hold                                                          *)

InStream == {"initial", "stream", "yield", "unref"}

\* The registry is told to forget the ActiveTask only when it has finished, its
\* consumer is through and nobody streams from it, in whatever order the last
\* references are given back (active_task.py:851-872).
CleanupOnlyWhenUnused ==
    cleaned > 0 =>
        /\ finished
        /\ cons \in {"off", "cleanup", "done"}
        /\ \A s \in Subs : sub[s] \notin InStream

\* The agent's events that the consumer has not finished with.
Pending == {agentQ.items[i] : i \in 1 .. Len(agentQ.items)}
             \cup (IF cons \in {"settle", "publish", "crash"} THEN {inHand} ELSE {})

\* Requests are processed strictly one after the other: the agent runs for the next
\* one only when no event of an earlier one is left (active_task.py:519, 166-170).
SerialRequests ==
    prod = "exec" => reqLock /\ \A e \in Pending : e.req \in {prodReq, None}

\* A stream that ends because its request is completed carried every event the agent
\* enqueued for the request, none twice (active_task.py:636-641, 678-690).
CompleteStreams ==
    \A s \in Subs : outcome[s] = "completed" => got[s] = made[s]

Undisturbed == \A c \in Cancelers : canc[c] = "idle"

\* A request that was accepted is answered, or its stream ends: neither a request
\* before it nor a failure of the agent leaves it waiting (active_task.py:512-551,
\* 576-579, 652-702).
RequestsAnswered ==
    \A s \in Senders : sub[s] = "stream" ~> sub[s] = "done" \/ ~Undisturbed

\* A cancel() comes back when the producer has begun and nobody else cancels, however
\* the agent's last events, its exception and the cancellation interleave
\* (active_task.py:720-723, 739-784).
CancelsReturn ==
    \A c \in Cancelers :
        canc[c] = "agent" /\ prod # "new" ~> canc[c] \in {"returned", "raised"}

\* aclose() ends even when a subscriber never drained its queue
\* (active_task.py:809-821).
AcloseReturnsEventually == aclosing = "tasks" ~> aclosing = "done"

\* on_cleanup is "triggered when the task is fully finished and the last subscriber
\* has disconnected.  Used to prune the task from the ActiveTaskRegistry"
\* (active_task.py:372-374).
FinishedIsPruned ==
    finished /\ (\A s \in Subs : sub[s] \in {"idle", "done"})
        ~> cleaned > 0 \/ \E s \in Subs : sub[s] \notin {"idle", "done"}
=============================================================================
