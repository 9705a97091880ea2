----------------------- MODULE TaskManagerInvariants -----------------------
(***************************************************************************)
(* The inductive invariants of TaskManager, which its proofs are about:    *)
(* what the properties leave out, in terms of where the writers stand.     *)
(***************************************************************************)
EXTENDS TaskManager

-----------------------------------------------------------------------------
(* Tasks and accesses                                                      *)

Selecting == {"select", "selected"}
Saving    == {"begun", "loaded", "committed", "conflict"}

AtStore == [at : {"none"} \cup Selecting \cup Saving, copy : Task \cup {NoTask}, seen : Task \cup {NoTask}]

\* What the agent enqueues, and what save_task_event() can be asked to apply.
Work       == Kinds \cup {"canceled"}
Failing    == {"failed", "unable"}
Applicable == {"working", "completed", "artifact", "append", "canceled"} \cup Failing

Storing   == {"insert", "keep", "apply"}
Busy      == {"look"} \cup Storing
Purposes  == {"get", "ensure", "apply", "fail"}

\* An event that waits to be applied.
Pending(e) == e.kind \in Work \cup Failing /\ e.no \in 0..MaxEvents

-----------------------------------------------------------------------------
(* Types                                                                   *)

TasksOK ==
    /\ heap \in Seq(Task) /\ current \in 0..Len(heap)
    /\ created \in BOOLEAN /\ finished \in BOOLEAN /\ open \in BOOLEAN
    /\ unsaved \in (-MaxRequests)..0

ConsumerOK ==
    /\ cons \in [at : {"take", "over"} \cup Busy, for : Purposes, no : 0..MaxRequests, event : Event, hand : Nat]
    /\ cons.hand <= Len(heap) /\ (cons.at \in Storing => cons.hand >= 1)
    /\ cons.at = "look" <=> access["consumer"].at \in Selecting
    /\ cons.at \in Storing <=> access["consumer"].at \in Saving
    /\ access["consumer"].at \in Saving => access["consumer"].copy \in Task
    /\ cons.at \in Busy => Pending(cons.event)
    /\ cons.at \in Busy /\ cons.event.kind = "task" =>
          cons.no >= 1 /\ (cons.at = "apply" \/ (cons.at = "look" /\ cons.for = "get"))

StoreOK ==
    /\ row \in Task \cup {NoTask}
    /\ access \in [Writers -> AtStore]
    /\ clean \in BOOLEAN

AgentOK ==
    /\ locked \in BOOLEAN /\ events \in 0..MaxEvents
    /\ ended \in 0..events /\ failed \in BOOLEAN
    /\ answered \subseteq 1..MaxRequests

\* The agent does not begin before its request is announced.
Started == cons.no >= 1 \/ \E i \in 1..Len(queue) : queue[i].kind = "start"

QueueOK ==
    /\ queue \in Seq(Event)
    /\ \A i \in 1..Len(queue) :
        /\ queue[i].kind \in {"start", "end"} => queue[i].no \in 1..MaxRequests
        /\ queue[i].kind \notin {"start", "end"} => queue[i].no \in 0..MaxEvents
        /\ queue[i].kind # "failed"
        /\ queue[i].kind = "task" => cons.no >= 1 \/ \E j \in 1..Len(queue) : j < i /\ queue[j].kind = "start"

ProducerOK ==
    /\ prod \in [at : {"wait", "look", "execute", "failLook", "failInsert", "failSave", "over"},
                 no : 0..MaxRequests, hand : Nat]
    /\ prod.hand <= Len(heap)
    /\ prod.at \in {"failInsert", "failSave"} => prod.hand >= 1
    /\ prod.at \in {"look", "failLook"} <=> access["producer"].at \in Selecting
    /\ prod.at \in {"failInsert", "failSave"} <=> access["producer"].at \in Saving
    /\ access["producer"].at \in Saving => access["producer"].copy \in Task
    /\ prod.at \notin {"wait", "over"} => prod.no >= 1
    /\ prod.at = "execute" => Started

CancelOK ==
    /\ canc \in [at : {"idle", "look", "agent", "failLook", "wait", "lookAgain", "save", "returned", "raised"},
                 hand : Nat]
    /\ canc.hand <= Len(heap)
    /\ canc.at = "save" => canc.hand >= 1
    /\ canc.at \in {"look", "failLook", "lookAgain"} <=> access["cancel"].at \in Selecting
    /\ canc.at = "save" <=> access["cancel"].at \in Saving
    /\ access["cancel"].at \in Saving => access["cancel"].copy \in Task
    /\ access["cancel"].at = "selected" => access["cancel"].seen \in Task
    /\ canc.at # "idle" => row \in Task

\* Every writer holds an object that exists.
TypeInv == StoreOK /\ AgentOK /\ TasksOK /\ QueueOK /\ ConsumerOK /\ ProducerOK /\ CancelOK

-----------------------------------------------------------------------------
(* The store                                                               *)

\* The object in the hands of a writer.
Hand(w) == IF w = "consumer" THEN cons.hand ELSE IF w = "producer" THEN prod.hand ELSE canc.hand

\* Nobody else is at the store.
Alone(w) == \A v \in Writers \ {w} : access[v].at = "none"
Quiet    == \A w \in Writers : access[w].at = "none"

\* A writer that looks for the task has none, and sees the row; one that saves has
\* copied the object in its hands, which is _current_task unless there is none or
\* cancel() closes the task; its insert meets no other.
Own(w) ==
    /\ access[w].at \in Selecting => current = 0
    /\ access[w].at \in {"selected", "loaded"} => access[w].seen = row
    /\ access[w].at \in Saving => access[w].copy = heap[Hand(w)]
    /\ access[w].at \in Saving /\ w # "cancel" => current \in {0, Hand(w)}
    /\ access[w].at = "committed" => row = access[w].copy
    /\ access[w].at # "conflict"

\* The writers take turns, and the row follows the task.
StoreInv ==
    clean =>
        /\ \A w \in Writers : access[w].at = "none" \/ Alone(w)
        /\ Quiet /\ current # 0 => row = heap[current]
        /\ \A w \in Writers : Own(w)

-----------------------------------------------------------------------------
(* The task in memory                                                      *)

Marking == {"failLook", "failInsert", "failSave"}

NoError == \A i \in 1..Len(queue) : queue[i].kind # "error"

\* While the agent does not fail nobody reports a failure of its, cancel() finds the task
\* in memory, and where there is none the consumer is about to make it.
MemoryInv ==
    clean /\ ~failed =>
        /\ prod.at \notin Marking
        /\ NoError
        /\ canc.at # "idle" => current # 0
        /\ canc.at \notin {"look", "lookAgain", "failLook"}
        /\ current = 0 /\ cons.at \notin Storing => row = NoTask

-----------------------------------------------------------------------------
(* The history                                                             *)

\* A task whose messages are in order, of requests up to no, and before the events N.
Tidy(t, no, N) ==
    /\ InOrder(t) /\ t.note >= 0
    /\ \A i \in 1..Len(Said(t)) :
        /\ Said(t)[i] >= -no \/ Said(t)[i] = -1
        /\ \A n \in N : Said(t)[i] < n

\* A task that has the message of request no.
Tells(t, no) == no = 0 \/ Contains(Said(t), -no)

\* The numbers of the events ahead: of the next one, of those in the queue, of the one
\* the consumer has taken and not applied.
Due(e) == IF e.kind \in Failing THEN {} ELSE {e.no}
Rest   == {events + 1} \cup {queue[i].no : i \in {j \in 1..Len(queue) : queue[j].kind \in Work}}
Coming == cons.at \in {"look", "insert", "keep"}
Ahead  == Rest \cup (IF Coming THEN Due(cons.event) ELSE {})

\* Events are applied in the order of their numbers.
WorkOrder ==
    /\ \A i \in 1..Len(queue) : queue[i].kind \in Work => queue[i].no \in 1..events
    /\ \A i, j \in 1..Len(queue) : i < j /\ queue[i].kind \in Work /\ queue[j].kind \in Work =>
          queue[i].no < queue[j].no

\* Requests are announced in the order of theirs.
StartOrder ==
    /\ cons.no <= prod.no
    /\ \A i \in 1..Len(queue) : queue[i].kind = "start" => cons.no <= queue[i].no /\ queue[i].no <= prod.no
    /\ \A i, j \in 1..Len(queue) : i < j /\ queue[i].kind = "start" /\ queue[j].kind = "start" =>
          queue[i].no <= queue[j].no

\* Events are applied, and requests announced, in order.
OrderInv ==
    /\ WorkOrder /\ StartOrder
    /\ Coming => \A n \in Due(cons.event) : n >= 1 /\ \A m \in Rest : n < m
    /\ unsaved \in {0, -cons.no}

\* What is in the store, in memory or about to be saved is tidy.
HistInv ==
    clean =>
        /\ Tidy(row, cons.no, Ahead)
        /\ current # 0 => Tidy(heap[current], cons.no, Ahead)
        /\ \A w \in Writers : access[w].at \in Saving => Tidy(heap[Hand(w)], cons.no, Ahead)

-----------------------------------------------------------------------------
(* What was announced                                                      *)

Final == {"completed", "canceled"}

\* What is left in the queue is later than the first end that was announced.
Late == ended # 0 /\ \A m \in Rest : ended < m

\* No end comes before the first; cancel() raises when it says that it failed.
Announced(e) ==
    /\ e.kind \in Final => ended # 0 /\ ended <= e.no
    /\ e.kind = "unable" => canc.at = "raised"

\* An end that is taken leaves only what was said later.
AnnInv ==
    /\ \A i \in 1..Len(queue) : Announced(queue[i])
    /\ cons.at \in Busy => Announced(cons.event)
    /\ cons.at \in Busy /\ cons.event.kind \in Final => Late

-----------------------------------------------------------------------------
(* The task cancel() closes                                                *)

\* While cancel() saves the copy it has closed nobody else is at the store, and the copy
\* says what the task says.
CloseInv ==
    clean /\ ~failed /\ canc.at = "save" =>
        finished /\ heap[canc.hand].state \in Terminal /\ Said(heap[canc.hand]) = Said(heap[current])

-----------------------------------------------------------------------------
(* The messages of the requests                                            *)

\* An agent that begins with a Task finds none, in memory and on its way: before its
\* first event nothing is applied but that cancel() failed.
BeginInv ==
    clean /\ ~failed =>
        /\ events = 0 => cons.at \in {"take", "over"} \/ canc.at = "raised"
        /\ events = 0 /\ prod.at = "execute" /\ prod.hand = 0 => current = 0
        /\ \A i \in 1..Len(queue) : queue[i].kind = "task" =>
              queue[i].no = 1 /\ current = 0 /\ cons.at \in {"take", "over"}

\* The task the consumer is about.
Subject == IF cons.at \in Storing THEN cons.hand ELSE current

\* The task the consumer is about has the messages of the requests answered so far, and
\* that of the request at hand unless it is still to be saved.
ToldInv ==
    clean /\ ~failed =>
        /\ cons.at = "look" => cons.for # "apply"
        /\ cons.at = "insert" => cons.for = "ensure"
        /\ row = NoTask => answered = {}
        /\ Subject # 0 /\ cons.at # "over" => \A no \in answered : Tells(heap[Subject], no)
        /\ cons.at = "keep" \/ (cons.at = "apply" /\ cons.event.kind # "failed") => Tells(heap[cons.hand], cons.no)
        /\ (current = 0 /\ cons.at \in {"take", "look"}) \/ cons.at = "insert" => unsaved = -cons.no
        /\ cons.at = "take" /\ current # 0 /\ unsaved = 0 => Tells(heap[current], cons.no)

-----------------------------------------------------------------------------
(* The end of the task                                                     *)

\* A task that has ended, unless the agent said otherwise behind the end it announced.
Closed(t) == t.state \in Terminal \/ TakenBack(t)

\* While the agent does not fail, in execute() or in cancel(), a task comes to its end with
\* the event that announced it, and cancel() returns once the task is finished; what is
\* applied to a finished task is its failure or was said behind that end.
EndInv ==
    clean /\ ~failed /\ canc.at # "raised" =>
        /\ Subject # 0 /\ heap[Subject].state \in Terminal /\ cons.at # "over" /\ ~finished =>
              cons.at = "apply" /\ cons.event.kind \in Final \cup {"failed"}
        /\ finished /\ cons.at # "over" =>
              /\ current # 0 /\ Late /\ Closed(heap[current]) /\ Closed(row)
              /\ cons.at \in Busy => cons.event.kind = "failed" \/ cons.event.no > ended
        /\ canc.at = "returned" => finished /\ Closed(heap[current]) /\ Closed(row)
=============================================================================
