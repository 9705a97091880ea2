---------------------------- MODULE RequestHandler ----------------------------
(***************************************************************************)
(* The request handler (request_handlers/default_request_handler_v2.py)    *)
(* and one task: message/send, message/stream, resubscription, cancel and  *)
(* the push notification configurations, with what they need of            *)
(* ActiveTask (agent_execution/active_task.py), of the push notification   *)
(* stores and of the sender (tasks/base_push_notification_sender.py).      *)
(*                                                                         *)
(* `log' is what the consumer has published to the subscribers: the events *)
(* and the markers _RequestStarted and _RequestCompleted ("started",       *)
(* "returned").  A tap is a place in it, the last entry may still be on    *)
(* its way.  The task is its state and the number of events applied to it. *)
(* The rest of an ActiveTask, its clean-up, subscribers that leave and     *)
(* agents that break the protocol are the subject of ActiveTask and        *)
(* ActiveTaskRegistry.                                                     *)
(***************************************************************************)
EXTENDS Integers, Sequences

CONSTANTS
    Reqs, Watchers, Cancels,    \* who calls message/send or stream, tasks/subscribe, cancel
    Parties,        \* the sets of calls that may come together
    Modes,          \* what Reqs may call: "send", "poll" (return_immediately) or "stream" each
    Kinds,          \* the kinds of events agents emit
    MaxEvents,      \* bound on the events of all agents
    Rows,           \* the states of the task in the store before
    Urls,           \* endpoints, each of one configuration
    IdOf,           \* the id of that configuration; none given means the task's id
    Brings,         \* the endpoint that comes with each request, or Nobody
    Unsafe,         \* the endpoints the URL policy rejects
    Nobody

Interrupted == {"input", "auth"}
Terminal    == {"completed", "failed", "canceled"}
States      == {"none", "submitted", "working"} \cup Interrupted \cup Terminal

ASSUME HandlerAssumption ==
    /\ Parties \subseteq SUBSET (Reqs \cup Watchers \cup Cancels)
    /\ Reqs \cap Watchers = {} /\ (Reqs \cup Watchers) \cap Cancels = {}
    /\ Modes \subseteq [Reqs -> {"send", "poll", "stream"}]
    /\ Kinds \subseteq {"task", "message", "working", "input", "auth", "completed", "failed"}
    /\ MaxEvents \in Nat /\ Rows \subseteq {"none", "submitted", "input"}
    /\ Brings \in [Reqs -> Urls \cup {Nobody}] /\ Unsafe \subseteq Urls
    /\ \A r, s \in Reqs : Brings[r] = Brings[s] => r = s \/ Brings[r] = Nobody
    /\ DOMAIN IdOf = Urls /\ Nobody \notin Reqs \cup Watchers \cup Cancels \cup Urls

VARIABLES
    mode,       \* of each request
    call,       \* each call, as its client sees it
    answer,     \* of each request: the result found so far, the answer in the end
    at, first,  \* of each subscriber: how far it has read, the task it was given at first
    row,        \* the stored task
    session,    \* the ActiveTask: absent, registered or removed
    created, finished,          \* _task_created, _is_finished
    requests, takesRequests,    \* _request_queue, and that it is not shut down
    prod, serving, locked,      \* the producer, its request, _request_lock
    agentQ, agentOpen,          \* _event_queue_agent
    cons, hand, targets,        \* the consumer, its event, the endpoints still to notify
    log, subsOpen,              \* _event_queue_subscribers
    configs,    \* the endpoint stored under each configuration id
    stage,      \* of the task: unknown, announced, ended by its agent
    emitted,    \* how many events the agents have emitted
    since, got, \* history: of a stored endpoint, the events dispatched before and those it was sent
    raised,     \* history: the request whose agent raised
    early       \* history: how far a subscriber's tap was when it began

calls    == <<mode, call, answer>>
readers  == <<at, first, early>>
tasks    == <<row, session, created, finished>>
feed     == <<requests, takesRequests>>
producer == <<prod, serving, locked>>
agentVars == <<agentQ, agentOpen>>
consumer == <<cons, hand, targets>>
stream   == <<log, subsOpen>>
push     == <<configs, since, got>>
agent    == <<stage, emitted, raised>>
vars == <<calls, readers, tasks, feed, producer, agentVars, consumer, stream, push, agent>>

Owners  == Reqs \cup Watchers \cup Cancels
Readers == Reqs \cup Watchers
Ids     == {IdOf[u] : u \in Urls}
Markers == {"started", "returned", "error"}
Entry   == [kind : Kinds \cup Markers \cup {"canceled"}, by : Owners, no : Nat]

ASSUME HandAssumption == Nobody \notin Entry

Result  == [state : States \cup {"message"}, by : Owners \cup {Nobody}]
None    == [state |-> "none", by |-> Nobody]

Places  == {"absent", "idle", "looked", "set", "entered", "greets", "reading", "asks", "waits",
            "answered", "failed", "refused", "broken"}

CallsOK     == mode \in Modes /\ call \in [Owners -> Places] /\ answer \in [Reqs -> Result]
ReadersOK   == at \in [Readers -> Nat] /\ early \in [Watchers -> Nat] /\ first \in [Watchers -> Nat]
TasksOK     == /\ row \in [state : States, no : Nat] /\ session \in {"absent", "live", "gone"}
               /\ created \in BOOLEAN /\ finished \in BOOLEAN
FeedOK      == requests \in Seq(Reqs) /\ takesRequests \in BOOLEAN
ProducerOK  == /\ prod \in {"idle", "holds", "runs", "fails", "closing", "torn", "over"}
               /\ serving \in Reqs \cup {Nobody} /\ locked \in BOOLEAN
               /\ prod \in {"holds", "runs", "fails"} => serving \in Reqs
AgentVarsOK == agentQ \in Seq(Entry) /\ agentOpen \in BOOLEAN
ConsumerOK  == /\ cons \in {"take", "push", "post", "publish", "over"} /\ targets \subseteq Urls
               /\ IF cons \in {"take", "over"} THEN hand = Nobody ELSE hand \in Entry
StreamOK    == log \in Seq(Entry) /\ subsOpen \in BOOLEAN
PushOK      == /\ configs \in [Ids -> Urls \cup {Nobody}]
               /\ since \in [Urls -> Int] /\ got \in [Urls -> Seq(Nat)]
AgentOK     == /\ stage \in {"unknown", "announced", "ended"} /\ raised \in Reqs \cup {Nobody}
               /\ emitted \in 0..IF stage = "ended" THEN MaxEvents + 1 ELSE MaxEvents

TypeOK ==
    /\ CallsOK /\ ReadersOK /\ TasksOK /\ FeedOK /\ ProducerOK
    /\ AgentVarsOK /\ ConsumerOK /\ StreamOK /\ PushOK /\ AgentOK

Init ==
    /\ mode \in Modes
    /\ \E party \in Parties : call = [o \in Owners |-> IF o \in party THEN "idle" ELSE "absent"]
    /\ answer = [r \in Reqs |-> None]
    /\ at = [o \in Readers |-> 0] /\ early = [w \in Watchers |-> 0]
    /\ first = [w \in Watchers |-> 0]
    /\ \E state \in Rows : row = [state |-> state, no |-> 0]
    /\ session = "absent" /\ created = FALSE /\ finished = FALSE
    /\ requests = <<>> /\ takesRequests = TRUE
    /\ prod = "idle" /\ serving = Nobody /\ locked = FALSE
    /\ agentQ = <<>> /\ agentOpen = TRUE
    /\ cons = "take" /\ hand = Nobody /\ targets = {}
    /\ log = <<>> /\ subsOpen = TRUE
    /\ configs = [i \in Ids |-> Nobody]
    /\ since = [u \in Urls |-> -1] /\ got = [u \in Urls |-> <<>>]
    /\ stage = IF row.state = "none" THEN "unknown" ELSE "announced"
    /\ emitted = 0 /\ raised = Nobody

Exists == row.state # "none"
\* A task that has ended stays as it is.
EndsAs(state, end) == IF state \in Terminal THEN state ELSE end
Becomes(o, s) == call' = [call EXCEPT ![o] = s]

-----------------------------------------------------------------------------
(* The push notification configurations                                    *)

\* The snapshot for the event the consumer is about to dispatch will have a new configuration.
Fresh(u) ==
    /\ since' = [v \in Urls |-> IF v = u THEN IF cons = "push" THEN row.no - 1 ELSE row.no
                              ELSE IF v = configs[IdOf[u]] THEN 0 ELSE since[v]]
    /\ got' = [v \in Urls |-> IF v \in {u, configs[IdOf[u]]} THEN <<>> ELSE got[v]]

\* set_info(): the configuration that has its id is replaced.
SetInfo(u) ==
    /\ configs' = [configs EXCEPT ![IdOf[u]] = u]
    /\ Fresh(u)

\* on_create_task_push_notification_config()
CreateConfig(u) ==
    /\ Exists /\ u \notin Unsafe \cup {Brings[r] : r \in Reqs} /\ since[u] = -1
    /\ SetInfo(u)
    /\ UNCHANGED <<calls, readers, tasks, feed, producer, agentVars, consumer, stream, agent>>

\* on_delete_task_push_notification_config()
DeleteConfig(i) ==
    /\ Exists /\ configs[i] # Nobody
    /\ configs' = [configs EXCEPT ![i] = Nobody]
    /\ since' = [since EXCEPT ![configs[i]] = 0] /\ got' = [got EXCEPT ![configs[i]] = <<>>]
    /\ UNCHANGED <<calls, readers, tasks, feed, producer, agentVars, consumer, stream, agent>>

-----------------------------------------------------------------------------
(* The calls                                                               *)

\* _setup_active_task(): a message for a task that is not stored is refused, unless it is the
\* first, whose task id is chosen here.
Look(r) ==
    /\ call[r] = "idle"
    /\ Becomes(r, IF Exists \/ \A o \in Owners : call[o] \in {"idle", "absent"}
                  THEN "looked" ELSE "refused")
    /\ UNCHANGED <<mode, answer, readers, tasks, feed, producer, agentVars, consumer, stream,
                   push, agent>>

\* The configuration that comes with the message is stored before the task is looked at again.
Configure(r) ==
    /\ call[r] = "looked"
    /\ Becomes(r, IF Brings[r] \in Unsafe THEN "refused" ELSE "set")
    /\ IF Brings[r] \in Unsafe \cup {Nobody} THEN UNCHANGED push ELSE SetInfo(Brings[r])
    /\ UNCHANGED <<mode, answer, readers, tasks, feed, producer, agentVars, consumer, stream, agent>>

\* get_or_create(): only a message may create the task; ActiveTask.start() refuses one that
\* has ended.
Enter(o) ==
    /\ call[o] = IF o \in Reqs THEN "set" ELSE "idle"
    /\ \/ /\ \/ session = "gone"
             \/ session = "absent" /\ row.state \in Terminal
             \/ ~Exists /\ o \notin Reqs
          /\ Becomes(o, "refused")
          /\ UNCHANGED <<session, created>>
       \/ /\ session = "live" \/ (session = "absent" /\ row.state \notin Terminal)
          /\ Exists \/ o \in Reqs
          /\ Becomes(o, "entered")
          /\ session' = "live"
          /\ created' = (created \/ Exists)
    /\ UNCHANGED <<mode, answer, readers, row, finished, feed, producer, agentVars, consumer,
                   stream, push, agent>>

\* Mutant: the place before the first one counts as well.
JoinsAnywhere(n) == n >= -1

\* A tap may still get the last entry, unless somebody has read it: then it is not on its way
\* any more.
JoinsAt(n) == n >= 0 /\ \A o \in Readers : at[o] <= n

\* subscribe() takes a reference, a tap and the place of the request in the queue.  Between
\* the end of the producer and that of the consumer the last two fail; the reference is kept.
Subscribe(o) ==
    /\ call[o] = "entered" /\ o \in Readers
    /\ IF finished
       THEN Becomes(o, "refused") /\ UNCHANGED <<at, early, requests>>
       ELSE IF ~subsOpen \/ (o \in Reqs /\ ~takesRequests)
       THEN Becomes(o, "broken") /\ UNCHANGED <<at, early, requests>>
       ELSE /\ \E place \in {n \in {Len(log) - 1, Len(log)} : JoinsAt(n)} :
                  /\ at' = [at EXCEPT ![o] = place]
                  /\ early' = [w \in Watchers |-> IF w = o THEN place ELSE early[w]]
            /\ requests' = IF o \in Reqs THEN Append(requests, o) ELSE requests
            /\ Becomes(o, IF o \in Reqs THEN "reading" ELSE "greets")
    /\ UNCHANGED <<mode, answer, first, tasks, takesRequests, producer, agentVars, consumer,
                   stream, push, agent>>

\* Mutant: it yields the task that start() has read.
GreetFromStart(w) ==
    /\ call[w] = "greets" /\ created
    /\ first' = [first EXCEPT ![w] = 0]
    /\ Becomes(w, "reading")
    /\ UNCHANGED <<mode, answer, at, early, tasks, feed, producer, agentVars, consumer, stream,
                   push, agent>>

\* on_subscribe_to_task() yields the task first.
Greet(w) ==
    /\ call[w] = "greets" /\ created
    /\ first' = [first EXCEPT ![w] = row.no]
    /\ Becomes(w, "reading")
    /\ UNCHANGED <<mode, answer, at, early, tasks, feed, producer, agentVars, consumer, stream,
                   push, agent>>

Answered(r, result) == Becomes(r, "answered") /\ answer' = [answer EXCEPT ![r] = result]

\* message/send after its subscription: without a result it asks for the task.
Ends(o) ==
    /\ UNCHANGED answer
    /\ Becomes(o, IF o \in Watchers THEN "answered"
                  ELSE IF mode[o] # "stream" /\ answer[o] = None THEN "asks" ELSE "answered")

\* Mutant: a FAILED task is an answer like any other.
JudgeFailed(r, e) ==
    LET result == [state |-> IF e.kind = "task" THEN "submitted" ELSE e.kind, by |-> e.by]
        final  == mode[r] = "poll" \/ e.kind \in Interrupted \cup Terminal
    IN \/ e.kind = "message" /\ answer' = [answer EXCEPT ![r] = result] /\ UNCHANGED call
       \/ e.kind # "message" /\ final /\ Answered(r, result)
       \/ e.kind # "message" /\ ~final /\ UNCHANGED <<call, answer>>

\* What on_message_send() does with an event.  A task that is FAILED is kept while the
\* exception that may follow is waited for, a Message until the request has ended.
Judge(r, e) ==
    LET result == [state |-> IF e.kind = "task" THEN "submitted" ELSE e.kind, by |-> e.by]
        kept   == e.kind = "message" \/ (e.kind = "failed" /\ mode[r] = "send")
        final  == mode[r] = "poll" \/ e.kind \in Interrupted \cup Terminal
    IN \/ kept /\ answer' = [answer EXCEPT ![r] = result] /\ UNCHANGED call
       \/ ~kept /\ final /\ Answered(r, result)
       \/ ~kept /\ ~final /\ UNCHANGED <<call, answer>>

\* Mutant: any _RequestCompleted ends the subscription.
ReadAnyCompleted(o) ==
    /\ call[o] = "reading" /\ at[o] < Len(log)
    /\ at' = [at EXCEPT ![o] = @ + 1]
    /\ LET e == log[at[o] + 1]
           judges == o \in Reqs /\ mode[o] # "stream"
       IN \/ e.kind = "error" /\ Becomes(o, "failed") /\ UNCHANGED answer
          \/ e.kind = "returned" /\ Ends(o)
          \/ e.kind \notin Markers /\ judges /\ Judge(o, e)
          \/ (e.kind = "started" \/ (e.kind \notin Markers /\ ~judges)) /\ UNCHANGED <<call, answer>>
    /\ UNCHANGED <<mode, early, first, tasks, feed, producer, agentVars, consumer, stream, push, agent>>

\* An exception ends every subscription, _RequestCompleted that of its request.
Read(o) ==
    /\ call[o] = "reading" /\ at[o] < Len(log)
    /\ at' = [at EXCEPT ![o] = @ + 1]
    /\ LET e == log[at[o] + 1]
           ends   == e.kind = "returned" /\ e.by = o
           judges == e.kind \notin Markers /\ o \in Reqs /\ mode[o] # "stream"
       IN \/ e.kind = "error" /\ Becomes(o, "failed") /\ UNCHANGED answer
          \/ ends /\ Ends(o)
          \/ judges /\ Judge(o, e)
          \/ e.kind # "error" /\ ~ends /\ ~judges /\ UNCHANGED <<call, answer>>
    /\ UNCHANGED <<mode, early, first, tasks, feed, producer, agentVars, consumer, stream, push, agent>>

ReadEnd(o) ==
    /\ call[o] = "reading" /\ at[o] = Len(log) /\ ~subsOpen
    /\ Ends(o)
    /\ UNCHANGED <<mode, readers, tasks, feed, producer, agentVars, consumer, stream, push, agent>>

\* Mutant: it waits for the end of the task.
AskWhenFinished(r) ==
    /\ call[r] = "asks" /\ finished
    /\ Answered(r, [state |-> row.state, by |-> Nobody])
    /\ UNCHANGED <<mode, readers, tasks, feed, producer, agentVars, consumer, stream, push, agent>>

\* ActiveTask.get_task()
Ask(r) ==
    /\ call[r] = "asks" /\ created
    /\ Answered(r, [state |-> row.state, by |-> Nobody])
    /\ UNCHANGED <<mode, readers, tasks, feed, producer, agentVars, consumer, stream, push, agent>>

\* cancel(): the agent may announce the end; then the producer is cancelled.  One that is
\* closing its queues already does not go on with it.
CancelAgent(c, announces) ==
    /\ call[c] = "entered"
    /\ IF finished
       THEN ~announces /\ UNCHANGED <<agentQ, stage, emitted, prod, takesRequests, requests>>
       ELSE /\ IF announces
               THEN /\ agentOpen /\ stage = "announced"
                    /\ agentQ' = Append(agentQ, [kind |-> "canceled", by |-> c, no |-> 0])
                    /\ stage' = "ended" /\ emitted' = emitted + 1
               ELSE UNCHANGED <<agentQ, stage, emitted>>
            /\ prod' = IF prod \in {"closing", "torn"} THEN "torn"
                       ELSE IF prod = "over" THEN prod ELSE "closing"
            /\ takesRequests' = FALSE /\ requests' = <<>>
    /\ agentOpen' = (agentOpen /\ (finished \/ prod' # "closing"))
    /\ Becomes(c, "waits")
    /\ UNCHANGED <<mode, answer, readers, tasks, serving, locked, consumer, stream, push, raised>>

CancelEnd(c) ==
    /\ call[c] = "waits" /\ finished
    /\ Becomes(c, IF Exists THEN "answered" ELSE "failed")
    /\ row' = IF Exists THEN [row EXCEPT !.state = EndsAs(@, "canceled")] ELSE row
    /\ UNCHANGED <<mode, answer, readers, session, created, finished, feed, producer, agentVars,
                   consumer, stream, push, agent>>

-----------------------------------------------------------------------------
(* The producer                                                            *)

TakeRequest ==
    /\ session = "live" /\ prod = "idle" /\ requests # <<>>
    /\ prod' = "holds" /\ serving' = Head(requests) /\ requests' = Tail(requests)
    /\ UNCHANGED <<calls, readers, tasks, takesRequests, locked, agentVars, consumer, stream, push, agent>>

\* The consumer gives _request_lock back when it has seen the request completed.
Begin ==
    /\ prod = "holds" /\ ~locked
    /\ prod' = "runs" /\ locked' = TRUE
    /\ agentQ' = Append(agentQ, [kind |-> "started", by |-> serving, no |-> 0])
    /\ UNCHANGED <<calls, readers, tasks, feed, serving, agentOpen, consumer, stream, push, agent>>

\* An agent announces a new task first or answers it with one Message; it ends a task once.
Emit(kind) ==
    /\ prod = "runs" /\ stage # "ended" /\ emitted < MaxEvents
    /\ (kind \in {"task", "message"}) = (stage = "unknown")
    /\ agentQ' = Append(agentQ, [kind |-> kind, by |-> serving, no |-> 0])
    /\ stage' = IF kind \in Terminal \cup {"message"} THEN "ended" ELSE "announced"
    /\ emitted' = emitted + 1
    /\ UNCHANGED <<calls, readers, tasks, feed, producer, agentOpen, consumer, stream, push, raised>>

Return ==
    /\ prod = "runs"
    /\ prod' = "idle"
    /\ agentQ' = Append(agentQ, [kind |-> "returned", by |-> serving, no |-> 0])
    /\ UNCHANGED <<calls, readers, tasks, feed, serving, locked, agentOpen, consumer, stream, push, agent>>

Raise ==
    /\ prod = "runs"
    /\ prod' = "fails" /\ raised' = serving
    /\ UNCHANGED <<calls, readers, tasks, feed, serving, locked, agentVars, consumer, stream, push, stage, emitted>>

\* The producer stores the failure, passes the exception on and begins to close the queues.
Fail ==
    /\ prod = "fails"
    /\ row' = [row EXCEPT !.state = EndsAs(@, "failed")]
    /\ created' = TRUE
    /\ agentQ' = Append(agentQ, [kind |-> "error", by |-> serving, no |-> 0])
    /\ prod' = "closing" /\ agentOpen' = FALSE
    /\ requests' = <<>> /\ takesRequests' = FALSE
    /\ UNCHANGED <<calls, readers, session, finished, serving, locked, consumer, stream, push, agent>>

\* A task that has ended takes no more requests.
Stop ==
    /\ prod = "idle" /\ ~takesRequests
    /\ prod' = "closing" /\ agentOpen' = FALSE
    /\ UNCHANGED <<calls, readers, tasks, feed, serving, locked, agentQ, consumer, stream, push, agent>>

\* The subscribers' queue is closed when the agent's has been read.
Closed ==
    /\ prod = "closing" /\ agentQ = <<>> /\ hand = Nobody
    /\ prod' = "over" /\ subsOpen' = FALSE
    /\ UNCHANGED <<calls, readers, tasks, feed, serving, locked, agentVars, consumer, log, push, agent>>

-----------------------------------------------------------------------------
(* The consumer, and BasePushNotificationSender                            *)

Finish ==
    /\ finished' = TRUE /\ requests' = <<>> /\ takesRequests' = FALSE

\* The task is saved first.
ConsumesUpdate(e) ==
    /\ e.kind \notin Markers \cup {"message"}
    /\ row' = [state |-> IF e.kind = "task" THEN "submitted" ELSE e.kind, no |-> row.no + 1]
    /\ created' = TRUE
    /\ hand' = [e EXCEPT !.no = row.no + 1]
    /\ cons' = "push"
    /\ IF e.kind \in Terminal THEN Finish ELSE UNCHANGED <<finished, feed>>
    /\ UNCHANGED locked

\* Messages and markers change no task; an exception fails it.
ConsumesOther(e) ==
    /\ e.kind \in Markers \cup {"message"}
    /\ row' = IF e.kind = "error" THEN [row EXCEPT !.state = EndsAs(@, "failed")] ELSE row
    /\ hand' = [e EXCEPT !.no = 0]
    /\ cons' = "publish"
    /\ locked' = (locked /\ e.kind # "returned")
    /\ UNCHANGED <<created, finished, feed>>

Consume ==
    /\ cons = "take" /\ agentQ # <<>>
    /\ agentQ' = Tail(agentQ)
    /\ ConsumesUpdate(Head(agentQ)) \/ ConsumesOther(Head(agentQ))
    /\ UNCHANGED <<calls, readers, session, prod, serving, agentOpen, targets, stream, push, agent>>

\* Mutant: nobody is told of the end.
SnapshotUnlessFinished ==
    /\ cons = "push"
    /\ targets' = IF finished THEN {} ELSE {configs[i] : i \in Ids} \ {Nobody}
    /\ cons' = "post"
    /\ UNCHANGED <<calls, readers, tasks, feed, producer, agentVars, hand, stream, push, agent>>

\* send_notification() takes a snapshot of the configurations,
Snapshot ==
    /\ cons = "push"
    /\ targets' = {configs[i] : i \in Ids} \ {Nobody}
    /\ cons' = "post"
    /\ UNCHANGED <<calls, readers, tasks, feed, producer, agentVars, hand, stream, push, agent>>

\* calls its endpoints side by side; whether they take it changes nothing,
Post(u) ==
    /\ cons = "post" /\ u \in targets
    /\ got' = [got EXCEPT ![u] = IF configs[IdOf[u]] = u THEN Append(@, hand.no) ELSE <<>>]
    /\ targets' = targets \ {u}
    /\ UNCHANGED <<calls, readers, tasks, feed, producer, agentVars, cons, hand, stream, configs, since, agent>>

\* and only then the event goes to the subscribers.
Publish ==
    /\ (cons = "post" /\ targets = {}) \/ cons = "publish"
    /\ log' = Append(log, hand)
    /\ hand' = Nobody
    /\ cons' = IF hand.kind = "error" THEN "over" ELSE "take"
    /\ finished' = (finished \/ hand.kind = "error")
    /\ UNCHANGED <<calls, readers, row, session, created, feed, producer, agentVars, targets, subsOpen,
                   push, agent>>

ConsumeEnd ==
    /\ cons = "take" /\ agentQ = <<>> /\ ~agentOpen
    /\ cons' = "over"
    /\ Finish
    /\ UNCHANGED <<calls, readers, row, session, created, producer, agentVars, hand, targets, stream, push, agent>>

\* The registry forgets an ActiveTask that is finished and that nobody refers to.
Forget ==
    /\ session = "live" /\ cons = "over" /\ prod \in {"over", "torn"}
    /\ \A o \in Owners : call[o] \notin {"greets", "reading", "broken", "waits"}
                        /\ (o \in Cancels => call[o] # "entered")
    /\ session' = "gone"
    /\ UNCHANGED <<calls, readers, row, created, finished, feed, producer, agentVars, consumer, stream, push, agent>>

-----------------------------------------------------------------------------

\* What the event loop has to run; agents return or raise in the end.
Runs ==
    \/ \E r \in Reqs : Configure(r) \/ Ask(r)
    \/ \E o \in Owners : (call[o] = "set" /\ Enter(o))
    \/ \E o \in Readers : Subscribe(o) \/ Read(o) \/ ReadEnd(o)
    \/ \E w \in Watchers : Greet(w)
    \/ \E c \in Cancels : CancelAgent(c, FALSE) \/ CancelEnd(c)
    \/ TakeRequest \/ Begin \/ Return \/ Raise \/ Fail \/ Stop \/ Closed
    \/ Consume \/ Snapshot \/ Publish \/ ConsumeEnd
    \/ \E u \in Urls : Post(u)

Next ==
    \/ Runs
    \/ \E r \in Reqs : Look(r)
    \/ \E o \in Watchers \cup Cancels : Enter(o)
    \/ \E c \in Cancels : CancelAgent(c, TRUE)
    \/ \E kind \in Kinds : Emit(kind)
    \/ \E u \in Urls : CreateConfig(u)
    \/ \E i \in Ids : DeleteConfig(i)
    \/ Forget

Spec == Init /\ [][Next]_vars

\* No execution has infinitely many steps, so that this is fair to each coroutine.
FairSpec == Spec /\ WF_vars(Runs)

-----------------------------------------------------------------------------
(* Properties                                                              *)

Cancelled == \E c \in Cancels : call[c] \in {"waits", "answered", "failed"}

Returned(r) == \E i \in 1..Len(log) : log[i].kind = "returned" /\ log[i].by = r

\* message/send does not answer before there is something to answer with: the task has ended
\* or waits for the user, there is a Message, or the agent has returned - unless the task
\* is cancelled (default_request_handler_v2.py:283-325).
BlockingAnswers ==
    \A r \in Reqs :
        call[r] = "answered" /\ mode[r] = "send" /\ ~Cancelled
            => answer[r].state \in Terminal \cup Interrupted \cup {"message"} \/ Returned(r)

\* A client whose agent raised is told so: message/send does not answer with the FAILED task
\* nor with the stored one, and no stream ends as if the agent had returned
\* (default_request_handler_v2.py:302-305, active_task.py:558-580).
FailureIsTold ==
    \A r \in Reqs :
        call[r] = "answered" /\ raised = r /\ ~Cancelled
            => mode[r] = "poll" \/ (mode[r] = "send" /\ answer[r].by \in Reqs
                                    /\ answer[r].state # "failed")

\* As long as a configuration is neither replaced nor deleted its endpoint is sent every event
\* since then, once and in order, whatever other endpoints, requests and edits do
\* (active_task.py:295-306, base_push_notification_sender.py:68-86).
EndpointsFollow ==
    \A i \in Ids :
        LET u == configs[i]
            done == IF cons = "push" \/ (cons = "post" /\ u \in targets) THEN row.no - 1 ELSE row.no
        IN u # Nobody => got[u] = [n \in 1..Len(got[u]) |-> since[u] + n] /\ Len(got[u]) = done - since[u]

\* What a resubscriber's stream does not have is in the task it is given first
\* (active_task.py:635-648, default_request_handler_v2.py:427-450).
NoGap ==
    \A w \in Watchers :
        call[w] \in {"reading", "answered", "failed"} =>
            \A i \in 1..early[w] : log[i].no <= first[w]

\* Every message is answered, with an error perhaps, unless its agent never creates the task
\* or cancel() has torn the producer from closing the queues
\* (default_request_handler_v2.py:283-325, active_task.py:894-900).
MessagesAreAnswered ==
    \A r \in Reqs :
        (call[r] = "looked") ~> (call[r] \in {"answered", "failed", "refused", "broken"}
                                \/ prod = "torn" \/ (call[r] = "asks" /\ ~created))

=============================================================================
