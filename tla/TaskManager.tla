----------------------------- MODULE TaskManager -----------------------------
(***************************************************************************)
(* The task as its TaskManager keeps it (server/tasks/task_manager.py),    *)
(* with those that write it: the consumer that applies the agent's events, *)
(* the producer when the agent fails, and cancel()                         *)
(* (server/agent_execution/active_task.py), over a store that suspends     *)
(* (server/tasks/database_task_store.py).                                  *)
(*                                                                         *)
(* Tasks are mutable objects: `heap' holds them and `current' is           *)
(* _current_task, shared by the writers.  A save copies the object, reads  *)
(* the row, and commits the columns that differ from what it read; each of *)
(* these, and the return to the writer, is a point where others run.  A    *)
(* store that never suspends is the case where they do not.                *)
(*                                                                         *)
(* The message of request r is -r, that of the n-th event n; 0 is none.    *)
(* One artifact stands for all; its parts are the numbers of the events.   *)
(***************************************************************************)
EXTENDS Integers, Sequences, SequencesExt

CONSTANTS
    Kinds,          \* the kinds of events the agent emits
    MayFail,        \* whether the agent, execute() or cancel(), may raise
    MayCancel,      \* whether somebody calls cancel()
    MaxRequests,    \* bound on the requests
    MaxEvents       \* bound on the events

ASSUME ManagerAssumption ==
    /\ Kinds \subseteq {"task", "working", "completed", "artifact", "append"}
    /\ MayFail \in BOOLEAN /\ MayCancel \in BOOLEAN
    /\ MaxRequests \in Nat \ {0} /\ MaxEvents \in Nat

VARIABLES
    row,        \* the task in the store
    access,     \* of each writer, its get() or save() under way
    heap,       \* the task objects
    current,    \* _current_task, as a place in the heap, 0 for None
    created,    \* _task_created
    finished,   \* _is_finished: the request queue is shut down as well
    queue,      \* the agent's event queue
    open,       \* whether it takes events
    locked,     \* _request_lock
    prod,       \* the producer: where it waits, its request, the object in its hands
    cons,       \* the consumer: where it waits, its request and event, its object
    unsaved,    \* message_to_save
    canc,       \* cancel(): where it waits, the object in its hands
    events,     \* how many events there were
    ended,      \* the event by which the agent first announced the end, 0 for none
    failed,     \* whether execute() has raised
    answered,   \* the requests of which an event was applied
    clean       \* whether the writers took turns at the store so far and no save of
                \* theirs was rolled back

accesses == <<access, clean>>
tasks  == <<heap, current>>
flags  == <<created, finished>>
agentQ == <<queue, open>>
agent  == <<locked, events, ended, failed>>
vars == <<row, accesses, tasks, flags, agentQ, agent, prod, cons, unsaved, canc, answered>>

Writers  == {"consumer", "producer", "cancel"}
Terminal == {"completed", "failed", "canceled"}
States   == {"submitted", "working"} \cup Terminal
Messages == (-MaxRequests) .. MaxEvents

NoTask == [state |-> "none", note |-> 0, history |-> <<>>, parts |-> <<>>]
Task   == [state : States, note : Messages, history : Seq(Messages \ {0}), parts : Seq(Nat)]

\* What the agent's queue holds; no numbers the request or the event.
Event == [kind : Kinds \cup {"start", "end", "error", "canceled", "unable", "failed"}, no : Nat]
Item(kind, no) == [kind |-> kind, no |-> no]

NoAccess == [at |-> "none", copy |-> NoTask, seen |-> NoTask]

Places == 0 .. Len(heap)

TypeOK ==
    /\ row \in Task \cup {NoTask}
    /\ heap \in Seq(Task)
    /\ current \in Places
    /\ created \in BOOLEAN /\ finished \in BOOLEAN
    /\ queue \in Seq(Event)
    /\ open \in BOOLEAN /\ locked \in BOOLEAN
    /\ prod \in [at : {"wait", "look", "execute", "failLook", "failInsert", "failSave", "over"},
                 no : 0..MaxRequests, hand : Places]
    /\ cons \in [at : {"take", "look", "insert", "keep", "apply", "over"},
                 for : {"get", "ensure", "apply", "fail"},
                 no : 0..MaxRequests, event : Event, hand : Places]
    /\ unsaved \in (-MaxRequests) .. 0
    /\ canc \in [at : {"idle", "look", "agent", "failLook", "wait", "lookAgain", "save",
                       "returned", "raised"},
                 hand : Places]
    /\ access \in [Writers ->
            [at : {"none", "select", "selected", "begun", "loaded", "committed", "conflict"},
             copy : Task \cup {NoTask}, seen : Task \cup {NoTask}]]
    /\ events \in 0..MaxEvents
    /\ ended \in 0..events /\ failed \in BOOLEAN
    /\ answered \in SUBSET (1..MaxRequests)
    /\ clean \in BOOLEAN

\* A new ActiveTask, of a task that start() found in the store or did not find.
Init ==
    /\ row \in {NoTask, [NoTask EXCEPT !.state = "submitted"]}
    /\ heap = IF row = NoTask THEN <<>> ELSE <<row>>
    /\ current = Len(heap)
    /\ created = (row # NoTask)
    /\ finished = FALSE
    /\ queue = <<>> /\ open = TRUE /\ locked = FALSE
    /\ prod = [at |-> "wait", no |-> 0, hand |-> 0]
    /\ cons = [at |-> "take", for |-> "get", no |-> 0, event |-> Item("end", 0), hand |-> 0]
    /\ unsaved = 0
    /\ canc = [at |-> "idle", hand |-> 0]
    /\ access = [w \in Writers |-> NoAccess]
    /\ events = 0 /\ ended = 0 /\ failed = FALSE
    /\ answered = {} /\ clean = TRUE

-----------------------------------------------------------------------------
(* The store                                                               *)

Begins(w, a) ==
    /\ access' = [access EXCEPT ![w] = a]
    /\ clean' = (clean /\ \A v \in Writers \ {w} : access[v].at = "none")

Get(w) == Begins(w, [NoAccess EXCEPT !.at = "select"])

\* The object is converted when save() is called.
Save(w, task) == Begins(w, [NoAccess EXCEPT !.at = "begun", !.copy = task])

Returned(w) == access[w].at \in {"selected", "committed"}
Raised(w)   == access[w].at = "conflict"
Found(w)    == access[w].seen

Done(w) == access' = [access EXCEPT ![w] = NoAccess] /\ UNCHANGED clean

\* The statement that reads the row, of get() or of session.merge().
Read(w) ==
    /\ access[w].at \in {"select", "begun"}
    /\ access' = [access EXCEPT ![w].seen = row,
            ![w].at = IF @ = "select" THEN "selected" ELSE "loaded"]
    /\ UNCHANGED <<row, clean, tasks, flags, agentQ, agent, prod, cons, unsaved, canc,
                   answered>>

\* Mutant: the history is taken for unchanged.
MergedWithoutHistory(copy, seen, old) ==
    LET status == IF <<copy.state, copy.note>> = <<seen.state, seen.note>> THEN old ELSE copy
    IN  [state |-> status.state, note |-> status.note, history |-> old.history,
         parts |-> IF copy.parts = seen.parts THEN old.parts ELSE copy.parts]

\* The columns that differ from those that were read are written.
Merged(copy, seen, old) ==
    LET status == IF <<copy.state, copy.note>> = <<seen.state, seen.note>> THEN old ELSE copy
    IN  [state |-> status.state, note |-> status.note,
         history |-> IF copy.history = seen.history THEN old.history ELSE copy.history,
         parts   |-> IF copy.parts = seen.parts THEN old.parts ELSE copy.parts]

\* The transaction commits; of two that insert the row, the second fails.
Commit(w) ==
    LET conflict == Found(w) = NoTask /\ row # NoTask
    IN  /\ access[w].at = "loaded"
        /\ access' = [access EXCEPT ![w].at = IF conflict THEN "conflict" ELSE "committed"]
        /\ row' = IF conflict THEN row
                  ELSE IF row = NoTask THEN access[w].copy
                  ELSE Merged(access[w].copy, Found(w), row)
        /\ UNCHANGED <<clean, tasks, flags, agentQ, agent, prod, cons, unsaved, canc, answered>>

-----------------------------------------------------------------------------
(* What is done to a task object                                           *)

\* _init_task_obj(): the message that opened the ActiveTask is its history.
NewTask == [NoTask EXCEPT !.state = "submitted", !.history = <<-1>>]

\* The Task an agent enqueues: its history has the request it answers.
AgentsTask(e, no) ==
    [NoTask EXCEPT !.state = "working", !.note = e.no, !.history = <<-no>>]

\* Mutant: a status without message is noted as well.
NotesNothing(task) == Append(task.history, task.note)

Noted(task) == IF task.note = 0 THEN task.history ELSE Append(task.history, task.note)

\* Mutant: the message of the status is copied to the history, not moved.
KeepsNote(task, message) == [task EXCEPT !.history = Append(Noted(task), message)]

\* update_with_message().
WithMessage(task, message) ==
    [task EXCEPT !.history = Append(Noted(task), message), !.note = 0]

\* append_artifact_to_task(): the first chunk replaces the artifact.
WithArtifact(task, e) ==
    [task EXCEPT !.parts = IF e.kind = "append" THEN Append(@, e.no) ELSE <<e.no>>]

\* save_task_event().
Applied(task, e) ==
    CASE e.kind \in {"artifact", "append"} -> WithArtifact(task, e)
      [] e.kind \in {"failed", "unable"} ->
            [task EXCEPT !.state = "failed", !.note = 0, !.history = Noted(task)]
      [] OTHER ->
            [task EXCEPT !.state = e.kind, !.note = e.no, !.history = Noted(task)]

-----------------------------------------------------------------------------
(* The consumer                                                            *)

\* What follows runs up to the next wait.  h and c are the heap and _current_task
\* as they are by then, u is message_to_save, o the object that was ensured.

Waits(at, for, e, o) ==
    /\ cons' = [cons EXCEPT !.at = at, !.for = for, !.event = e, !.hand = o]
    /\ UNCHANGED <<flags, open>>

\* The end of run() and what _run_consumer() does then.
Stops(h, c) ==
    /\ heap' = h /\ current' = c
    /\ cons' = [cons EXCEPT !.at = "over"]
    /\ finished' = TRUE /\ open' = FALSE
    /\ Done("consumer")
    /\ UNCHANGED <<created, unsaved>>

\* process(): the object is changed in place, then saved.
Applies(h, c, e, o) ==
    /\ heap' = [h EXCEPT ![o] = Applied(@, e)]
    /\ current' = c
    /\ unsaved' = 0
    /\ Save("consumer", heap'[o])
    /\ Waits("apply", "apply", e, o)

Failure == Item("failed", 0)

\* An artifact to append to has to be there: otherwise the task fails.
Processes(h, c, e, o) ==
    IF e.kind = "append" /\ h[o].parts = <<>>
    THEN IF h[o].state \in Terminal THEN Stops(h, c) ELSE Applies(h, c, Failure, o)
    ELSE Applies(h, c, e, o)

\* save_task_event() looks for the task again.
Looks(h, c, for, e) ==
    /\ heap' = h /\ current' = c
    /\ unsaved' = IF for = "apply" THEN 0 ELSE unsaved
    /\ Get("consumer")
    /\ Waits("look", for, e, cons.hand)

\* _handle_task_modification_event() once the task is there: the message of the
\* request is saved first, unless it was before.
Keeps(h, c, u, e, o) ==
    \/ /\ u # 0 /\ ~Contains(h[o].history, u)
       /\ heap' = [h EXCEPT ![o] = WithMessage(@, u)]
       /\ current' = o
       /\ Save("consumer", heap'[o])
       /\ Waits("keep", "ensure", e, o)
       /\ UNCHANGED unsaved
    \/ /\ u = 0 \/ Contains(h[o].history, u)
       /\ IF c # 0 THEN Processes(h, c, e, c) ELSE Looks(h, c, "apply", e)

\* An exception: the task is marked as failed unless it has come to an end.
Fails(h, c, u) ==
    \/ c = 0 /\ Looks(h, c, "fail", Failure)
    \/ c # 0 /\ h[c].state \in Terminal /\ Stops(h, c)
    \/ c # 0 /\ h[c].state \notin Terminal /\ Keeps(h, c, u, Failure, c)

\* An event taken from the queue that needs no task.
ConsumerTakesMarker ==
    /\ cons.at = "take" /\ queue # <<>>
    /\ \/ /\ Head(queue).kind = "start"
          /\ unsaved' = -Head(queue).no
          /\ cons' = [cons EXCEPT !.no = Head(queue).no]
          /\ UNCHANGED locked
       \/ /\ Head(queue).kind = "end"
          /\ locked' = FALSE
          /\ UNCHANGED <<unsaved, cons>>
    /\ queue' = Tail(queue)
    /\ UNCHANGED <<row, accesses, tasks, flags, open, events, ended, failed, prod, canc, answered>>

ConsumerTakes ==
    /\ cons.at = "take" /\ queue # <<>>
    /\ queue' = Tail(queue)
    /\ LET e == Head(queue) IN
        \/ e.kind = "error" /\ Fails(heap, current, unsaved)
        \* A Task that exists is not replaced.
        \/ /\ e.kind = "task" /\ current # 0
           /\ unsaved' = 0 /\ created' = TRUE
           /\ finished' = (finished \/ heap[current].state \in Terminal)
           /\ UNCHANGED <<accesses, tasks, open, cons>>
        \/ e.kind = "task" /\ current = 0 /\ Looks(heap, 0, "get", e)
        \/ /\ e.kind \notin {"start", "end", "error", "task"}
           /\ IF current # 0 THEN Keeps(heap, current, unsaved, e, current)
              ELSE IF ~created /\ e.kind \notin {"artifact", "append"}
              THEN Looks(heap, 0, "get", e)
              ELSE Looks(heap, 0, "ensure", e)
    /\ UNCHANGED <<row, agent, prod, canc, answered>>

\* get_task() keeps what it found, whatever was kept meanwhile.
ConsumerGot ==
    /\ cons.at = "look" /\ cons.for \in {"get", "fail"} /\ Returned("consumer")
    /\ LET e == cons.event
           h == Append(heap, Found("consumer"))
           c == Len(h)
       IN \/ /\ Found("consumer") # NoTask /\ e.kind = "task"
             /\ heap' = h /\ current' = c
             /\ unsaved' = 0 /\ created' = TRUE
             /\ finished' = (finished \/ h[c].state \in Terminal)
             /\ Done("consumer")
             /\ cons' = [cons EXCEPT !.at = "take"]
             /\ UNCHANGED open
          \/ Found("consumer") # NoTask /\ cons.for = "fail" /\ Fails(h, c, unsaved)
          \/ Found("consumer") # NoTask /\ cons.for = "get" /\ e.kind # "task"
             /\ Keeps(h, c, unsaved, e, c)
          \* The agent's Task becomes the task.
          \/ /\ Found("consumer") = NoTask /\ e.kind = "task"
             /\ heap' = Append(heap, AgentsTask(e, cons.no)) /\ current' = 0
             /\ Save("consumer", AgentsTask(e, cons.no))
             /\ Waits("apply", "apply", e, c)
             /\ UNCHANGED unsaved
          \* "Agent should enqueue Task before": InvalidAgentResponseError.
          \/ Found("consumer") = NoTask /\ cons.for = "get" /\ e.kind # "task"
             /\ Fails(heap, 0, unsaved)
          \/ Found("consumer") = NoTask /\ cons.for = "fail" /\ Stops(heap, 0)
    /\ UNCHANGED <<row, queue, agent, prod, canc, answered>>

\* ensure_task_id() does not keep what it found, and creates what it did not.
ConsumerEnsured ==
    /\ cons.at = "look" /\ cons.for \in {"ensure", "apply"} /\ Returned("consumer")
    /\ LET e == cons.event
           h == Append(heap, Found("consumer"))
       IN \/ Found("consumer") # NoTask /\ cons.for = "ensure"
             /\ Keeps(h, current, unsaved, e, Len(h))
          \/ Found("consumer") # NoTask /\ cons.for = "apply"
             /\ Processes(h, current, e, Len(h))
          \/ /\ Found("consumer") = NoTask
             /\ heap' = Append(heap, NewTask) /\ UNCHANGED <<current, unsaved>>
             /\ Save("consumer", NewTask)
             /\ Waits("insert", cons.for, e, Len(h))
    /\ UNCHANGED <<row, queue, agent, prod, canc, answered>>

\* _save_task(): what was saved is _current_task.
ConsumerInserted ==
    /\ cons.at = "insert" /\ Returned("consumer")
    /\ IF cons.for = "ensure"
       THEN Keeps(heap, cons.hand, unsaved, cons.event, cons.hand)
       ELSE Processes(heap, cons.hand, cons.event, cons.hand)
    /\ UNCHANGED <<row, queue, agent, prod, canc, answered>>

ConsumerKept ==
    /\ cons.at = "keep" /\ Returned("consumer")
    /\ Processes(heap, cons.hand, cons.event, cons.hand)
    /\ UNCHANGED <<row, queue, agent, prod, canc, answered>>

ConsumerApplied ==
    /\ cons.at = "apply" /\ Returned("consumer")
    /\ \/ cons.event.kind = "failed" /\ Stops(heap, cons.hand)
       \/ /\ cons.event.kind # "failed"
          /\ current' = cons.hand
          /\ created' = TRUE
          /\ finished' = (finished \/ heap[cons.hand].state \in Terminal)
          /\ unsaved' = IF cons.event.kind = "task" THEN 0 ELSE unsaved
          /\ cons' = [cons EXCEPT !.at = "take"]
          /\ Done("consumer")
          /\ UNCHANGED <<heap, open>>
    /\ answered' = answered \cup ({cons.no} \ {0})
    /\ UNCHANGED <<row, queue, agent, prod, canc>>

ConsumerSaveRaises ==
    /\ cons.at \in {"insert", "keep", "apply"} /\ Raised("consumer")
    /\ IF cons.event.kind = "failed" THEN Stops(heap, current)
       ELSE Fails(heap, current, unsaved)
    /\ UNCHANGED <<row, queue, agent, prod, canc, answered>>

ConsumerSeesShutdown ==
    /\ cons.at = "take" /\ queue = <<>> /\ ~open
    /\ Stops(heap, current)
    /\ UNCHANGED <<row, queue, agent, prod, canc, answered>>

-----------------------------------------------------------------------------
(* The producer and the agent                                              *)

\* The end of _run_producer().
ProducerStops == prod' = [prod EXCEPT !.at = "over"] /\ open' = FALSE

\* request_context.current_task is known: the request is announced and executed.
Starts(no, c) ==
    IF open
    THEN /\ prod' = [at |-> "execute", no |-> no, hand |-> c]
         /\ queue' = Append(queue, Item("start", no))
         /\ UNCHANGED open
    ELSE ProducerStops /\ UNCHANGED queue

ProducerTakes ==
    /\ prod.at = "wait" /\ prod.no < MaxRequests /\ ~finished /\ ~locked
    /\ locked' = TRUE
    /\ \/ current # 0 /\ Starts(prod.no + 1, current) /\ UNCHANGED accesses
       \/ /\ current = 0
          /\ prod' = [prod EXCEPT !.at = "look", !.no = @ + 1]
          /\ Get("producer")
          /\ UNCHANGED agentQ
    /\ UNCHANGED <<row, tasks, flags, events, ended, failed, cons, unsaved, canc, answered>>

ProducerGot ==
    /\ prod.at = "look" /\ Returned("producer")
    /\ heap' = IF Found("producer") = NoTask THEN heap ELSE Append(heap, Found("producer"))
    /\ current' = IF Found("producer") = NoTask THEN 0 ELSE Len(heap')
    /\ Starts(prod.no, current')
    /\ Done("producer")
    /\ UNCHANGED <<row, flags, agent, cons, unsaved, canc, answered>>

\* The next event; the first that ends the task is kept in mind.
NextEvent(ends) ==
    /\ events < MaxEvents
    /\ events' = events + 1
    /\ ended' = IF ended = 0 /\ ends THEN events' ELSE ended

\* An agent enqueues a Task only to begin a new task.  Nothing keeps it from going on
\* behind the end of the task, its own or that executor.cancel() announces meanwhile.
AgentEmits(kind) ==
    /\ prod.at = "execute" /\ open
    /\ kind = "task" => prod.hand = 0 /\ events = 0
    /\ NextEvent(kind = "completed")
    /\ queue' = Append(queue, Item(kind, events'))
    /\ UNCHANGED <<row, accesses, tasks, flags, open, locked, failed, prod, cons, unsaved,
                   canc, answered>>

AgentReturns ==
    /\ prod.at = "execute" /\ open
    /\ prod' = [prod EXCEPT !.at = "wait"]
    /\ queue' = Append(queue, Item("end", prod.no))
    /\ UNCHANGED <<row, accesses, tasks, flags, open, agent, cons, unsaved, canc, answered>>

\* The queue or, once the task is finished, the request queue is shut down.
ProducerSeesShutdown ==
    /\ (prod.at = "execute" /\ ~open) \/ (prod.at = "wait" /\ finished)
    /\ ProducerStops
    /\ UNCHANGED <<row, accesses, tasks, flags, queue, agent, cons, unsaved, canc, answered>>

\* The exception is handed to the consumer.
Reports ==
    /\ created' = TRUE
    /\ queue' = IF open THEN Append(queue, Item("error", 0)) ELSE queue
    /\ ProducerStops
    /\ UNCHANGED finished

\* A failure is saved at once.
MarksFailed(h, c, o) ==
    \/ /\ h[o].state \notin Terminal
       /\ heap' = [h EXCEPT ![o].state = "failed"] /\ current' = c
       /\ Save("producer", heap'[o])
       /\ prod' = [prod EXCEPT !.at = "failSave", !.hand = o]
       /\ UNCHANGED <<flags, agentQ>>
    \/ /\ h[o].state \in Terminal
       /\ heap' = h /\ current' = c
       /\ Done("producer")
       /\ Reports

AgentRaises ==
    /\ MayFail /\ prod.at = "execute"
    /\ failed' = TRUE
    /\ \/ current # 0 /\ MarksFailed(heap, current, current)
       \/ /\ current = 0
          /\ prod' = [prod EXCEPT !.at = "failLook"]
          /\ Get("producer")
          /\ UNCHANGED <<tasks, flags, agentQ>>
    /\ UNCHANGED <<row, locked, events, ended, cons, unsaved, canc, answered>>

ProducerEnsured ==
    /\ prod.at = "failLook" /\ Returned("producer")
    /\ \/ /\ Found("producer") # NoTask
          /\ LET h == Append(heap, Found("producer")) IN MarksFailed(h, current, Len(h))
       \/ /\ Found("producer") = NoTask
          /\ heap' = Append(heap, NewTask)
          /\ Save("producer", NewTask)
          /\ prod' = [prod EXCEPT !.at = "failInsert", !.hand = Len(heap')]
          /\ UNCHANGED <<current, flags, agentQ>>
    /\ UNCHANGED <<row, agent, cons, unsaved, canc, answered>>

ProducerInserted ==
    /\ prod.at = "failInsert" /\ Returned("producer")
    /\ MarksFailed(heap, prod.hand, prod.hand)
    /\ UNCHANGED <<row, agent, cons, unsaved, canc, answered>>

ProducerFailed ==
    /\ prod.at = "failSave" /\ Returned("producer")
    /\ current' = prod.hand
    /\ Done("producer")
    /\ Reports
    /\ UNCHANGED <<row, heap, agent, cons, unsaved, canc, answered>>

\* The handler itself raises: nothing is reported.
ProducerSaveRaises ==
    /\ prod.at \in {"failInsert", "failSave"} /\ Raised("producer")
    /\ Done("producer")
    /\ ProducerStops
    /\ UNCHANGED <<row, tasks, flags, queue, agent, cons, unsaved, canc, answered>>

-----------------------------------------------------------------------------
(* cancel()                                                                *)

\* Under the lock: the executor is asked, unless the task is finished.  The registry
\* only leads here when the task is in the store.
Asks == canc' = [canc EXCEPT !.at = IF finished THEN "wait" ELSE "agent"]

CancelBegins ==
    /\ MayCancel /\ canc.at = "idle" /\ row # NoTask
    /\ \/ current # 0 /\ Asks /\ UNCHANGED accesses
       \/ current = 0 /\ canc' = [canc EXCEPT !.at = "look"] /\ Get("cancel")
    /\ UNCHANGED <<row, tasks, flags, agentQ, agent, prod, cons, unsaved, answered>>

CancelGot ==
    /\ canc.at = "look" /\ Returned("cancel")
    /\ heap' = Append(heap, Found("cancel")) /\ current' = Len(heap')
    /\ Asks
    /\ Done("cancel")
    /\ UNCHANGED <<row, flags, agentQ, agent, prod, cons, unsaved, answered>>

\* The executor announces the end, or leaves that to cancel().
CancelEmits ==
    /\ canc.at = "agent" /\ open
    /\ NextEvent(TRUE)
    /\ queue' = Append(queue, Item("canceled", events'))
    /\ UNCHANGED <<row, accesses, tasks, flags, open, locked, failed, prod, cons, unsaved,
                   canc, answered>>

\* The producer is cancelled, wherever it waits; what it was saving is rolled back
\* unless it has been committed.  The other accesses become a.
Interrupts(a) ==
    \/ prod.at = "over" /\ access' = a /\ UNCHANGED <<clean, prod, open>>
    \/ /\ prod.at # "over"
       /\ access' = [a EXCEPT !["producer"] = NoAccess]
       /\ clean' = (clean /\ access["producer"].at \notin {"begun", "loaded"})
       /\ ProducerStops

\* The executor is done.
CancelStopsProducer ==
    /\ canc.at = "agent"
    /\ canc' = [canc EXCEPT !.at = "wait"]
    /\ Interrupts(access)
    /\ UNCHANGED <<row, tasks, flags, queue, agent, cons, unsaved, answered>>

\* executor.cancel() has raised: a task that is there is announced as failed before the
\* producer is cancelled, and cancel() raises as well.
Raises(there, a) ==
    /\ canc' = [canc EXCEPT !.at = "raised"]
    /\ queue' = IF there /\ open THEN Append(queue, Item("unable", 0)) ELSE queue
    /\ Interrupts(a)

CancelFails ==
    /\ MayFail /\ canc.at = "agent"
    /\ \/ (current # 0 \/ ~created) /\ Raises(created, access)
       \/ /\ current = 0 /\ created
          /\ canc' = [canc EXCEPT !.at = "failLook"]
          /\ Get("cancel")
          /\ UNCHANGED <<queue, open, prod>>
    /\ UNCHANGED <<row, tasks, flags, agent, cons, unsaved, answered>>

CancelGotFailing ==
    /\ canc.at = "failLook" /\ Returned("cancel")
    /\ heap' = Append(heap, Found("cancel")) /\ current' = Len(heap')
    /\ Raises(TRUE, [access EXCEPT !["cancel"] = NoAccess])
    /\ UNCHANGED <<row, flags, agent, cons, unsaved, answered>>

ClosesNever(h, c) ==
    /\ heap' = h /\ current' = c
    /\ canc' = [canc EXCEPT !.at = "returned"]
    /\ Done("cancel")

\* The task is finished: one that has not come to an end is closed, in a copy.
Closes(h, c) ==
    \/ /\ h[c].state \in Terminal
       /\ heap' = h /\ current' = c
       /\ canc' = [canc EXCEPT !.at = "returned"]
       /\ Done("cancel")
    \/ /\ h[c].state \notin Terminal
       /\ heap' = Append(h, [h[c] EXCEPT !.state = "canceled"]) /\ current' = c
       /\ canc' = [at |-> "save", hand |-> Len(heap')]
       /\ Save("cancel", heap'[Len(heap')])

CancelCloses ==
    /\ canc.at = "wait" /\ finished
    /\ \/ current # 0 /\ Closes(heap, current)
       \/ /\ current = 0
          /\ canc' = [canc EXCEPT !.at = "lookAgain"]
          /\ Get("cancel")
          /\ UNCHANGED tasks
    /\ UNCHANGED <<row, flags, agentQ, agent, prod, cons, unsaved, answered>>

CancelGotAgain ==
    /\ canc.at = "lookAgain" /\ Returned("cancel")
    /\ LET h == Append(heap, Found("cancel")) IN Closes(h, Len(h))
    /\ UNCHANGED <<row, flags, agentQ, agent, prod, cons, unsaved, answered>>

CancelSaved ==
    /\ canc.at = "save" /\ Returned("cancel")
    /\ current' = canc.hand
    /\ canc' = [canc EXCEPT !.at = "returned"]
    /\ Done("cancel")
    /\ UNCHANGED <<row, heap, flags, agentQ, agent, prod, cons, unsaved, answered>>

-----------------------------------------------------------------------------
Next ==
    \/ \E w \in Writers : Read(w) \/ Commit(w)
    \/ ConsumerTakesMarker \/ ConsumerTakes
    \/ ConsumerGot \/ ConsumerEnsured \/ ConsumerInserted \/ ConsumerKept \/ ConsumerApplied
    \/ ConsumerSaveRaises \/ ConsumerSeesShutdown
    \/ ProducerTakes \/ ProducerGot
    \/ \E kind \in Kinds : AgentEmits(kind)
    \/ AgentReturns \/ AgentRaises \/ ProducerSeesShutdown
    \/ ProducerEnsured \/ ProducerInserted \/ ProducerFailed \/ ProducerSaveRaises
    \/ CancelBegins \/ CancelGot \/ CancelEmits \/ CancelStopsProducer
    \/ CancelFails \/ CancelGotFailing
    \/ CancelCloses \/ CancelGotAgain \/ CancelSaved

Spec == Init /\ [][Next]_vars

-----------------------------------------------------------------------------
(* What must hold                                                          *)

\* Everything said so far, in order: the history, then the message of the status.
Said(task) == Noted(task)

\* No message twice, those of the client in order and those of the agent in order.
InOrder(task) ==
    \A i, j \in 1..Len(Said(task)) :
        LET a == Said(task)[i]
            b == Said(task)[j]
        IN  i < j => a # b /\ (a > 0 /\ b > 0 => a < b) /\ (a < 0 /\ b < 0 => a > b)

\* The history of the task, in the store and in memory, tells each message once and
\* in order, across requests, status messages and failures, and leaves out the message
\* of no request the agent has begun to answer
\* (task_manager.py:207-211, 318-336, active_task.py:262-277).
HistoryInOrder ==
    clean =>
        /\ InOrder(row)
        /\ current # 0 => InOrder(heap[current])
        /\ current # 0 /\ ~failed /\ cons.at = "take" =>
              \A no \in answered : Contains(Said(heap[current]), -no)

\* Between two accesses the store has what _current_task says, although tasks are
\* changed in place, found twice and created on the way (task_manager.py:130-156,
\* 196-217, 219-247, 304-316).
StoreFollows ==
    clean /\ current # 0 /\ (\A w \in Writers : access[w].at = "none") =>
        row = heap[current]

\* What the agent said behind the end it announced is part of the task.
TakenBack(task) == ended # 0 /\ \E i \in 1..Len(Said(task)) : Said(task)[i] > ended

\* When cancel() returns the task has ended, in the store and in memory, and stays so
\* whatever is still queued, unless the agent itself tells, behind the first end that
\* it announced, another status (active_task.py:241-280, 307-315, 763-806).
CancelIsFinal ==
    clean /\ ~failed /\ canc.at = "returned" =>
        \A task \in {row, heap[current]} : task.state \in Terminal \/ TakenBack(task)

\* "The returned task carries a terminal state, which is written to the task store"
\* (active_task.py:714-715).
CancelIsStored == canc.at = "returned" => row.state \in Terminal
=============================================================================
