--------------------------- MODULE TaskManagerProofs ---------------------------
(***************************************************************************)
(* Proofs about TaskManager, for any kinds of events, requests and number  *)
(* of events: what the writers hold is typed; as long as they take turns   *)
(* at the store the row follows _current_task, the history tells each      *)
(* message once and in order, and cancel() leaves a task that has ended,   *)
(* unless the agent says otherwise behind the end it announced.            *)
(***************************************************************************)
EXTENDS TaskManagerInvariants, SequenceTheorems, TLAPS

-----------------------------------------------------------------------------
(* Tasks and accesses                                                      *)

\* What is done to a task gives a task.
LEMMA TaskOps ==
    ASSUME NEW t \in Task
    PROVE  /\ Noted(t) \in Seq(Messages \ {0})
           /\ \A u \in Messages \ {0} : WithMessage(t, u) \in Task
           /\ \A e \in [kind : Applicable, no : 0..MaxEvents] : Applied(t, e) \in Task
           /\ \A s \in States : [t EXCEPT !.state = s] \in Task
<1>1. /\ t.state \in States /\ t.note \in Messages /\ t.history \in Seq(Messages \ {0}) /\ t.parts \in Seq(Nat)
      /\ t = [state |-> t.state, note |-> t.note, history |-> t.history, parts |-> t.parts]
  BY DEF Task
<1>2. 0 \in Messages /\ \A n \in 0..MaxEvents : n \in Messages /\ n \in Nat
  BY ManagerAssumption DEF Messages
<1>3. Noted(t) \in Seq(Messages \ {0})
  BY <1>1, AppendProperties DEF Noted
<1>4. ASSUME NEW u \in Messages \ {0} PROVE WithMessage(t, u) \in Task
  <2>1. Append(Noted(t), u) \in Seq(Messages \ {0})
    BY <1>3, AppendProperties
  <2> QED BY <1>1, <1>2, <2>1 DEF WithMessage, Task
<1>5. ASSUME NEW e \in [kind : Applicable, no : 0..MaxEvents] PROVE Applied(t, e) \in Task
  <2>1. e.no \in Messages /\ e.no \in Nat /\ e.kind \in Applicable
    BY <1>2
  <2>2. CASE e.kind \in {"artifact", "append"}
    <3>1. Append(t.parts, e.no) \in Seq(Nat) /\ <<e.no>> \in Seq(Nat)
      BY <1>1, <2>1, AppendProperties
    <3>2. Applied(t, e) = [t EXCEPT !.parts = IF e.kind = "append" THEN Append(@, e.no) ELSE <<e.no>>]
      BY <2>2 DEF Applied, WithArtifact
    <3> QED BY <1>1, <3>1, <3>2 DEF Task
  <2>3. CASE e.kind \in Failing
    <3>1. Applied(t, e) = [t EXCEPT !.state = "failed", !.note = 0, !.history = Noted(t)]
      BY <2>3 DEF Applied, Failing
    <3> QED BY <1>1, <1>2, <1>3, <3>1 DEF Task, States, Terminal
  <2>4. CASE e.kind \notin {"artifact", "append"} \cup Failing
    <3>1. Applied(t, e) = [t EXCEPT !.state = e.kind, !.note = e.no, !.history = Noted(t)]
      BY <2>4 DEF Applied, Failing
    <3>2. e.kind \in States
      BY <2>1, <2>4 DEF Applicable, States, Terminal
    <3> QED BY <1>1, <1>3, <2>1, <3>1, <3>2 DEF Task
  <2> QED BY <2>2, <2>3, <2>4
<1>6. \A s \in States : [t EXCEPT !.state = s] \in Task
  BY <1>1 DEF Task
<1> QED BY <1>3, <1>4, <1>5, <1>6

\* The tasks that are made anew.
LEMMA NewTasks ==
    /\ NoTask \notin Task
    /\ MaxRequests >= 1 => NewTask \in Task
    /\ \A e \in [kind : Work, no : 0..MaxEvents], no \in 1..MaxRequests : AgentsTask(e, no) \in Task
<1>1. NoTask \notin Task
  BY DEF NoTask, Task, States, Terminal
<1>2. ASSUME NEW n \in 0..MaxEvents, NEW no \in 1..MaxRequests
      PROVE  n \in Messages /\ -no \in Messages \ {0} /\ <<-no>> \in Seq(Messages \ {0})
  BY ManagerAssumption DEF Messages
<1>3. <<>> \in Seq(Nat) /\ "submitted" \in States /\ "working" \in States
  BY DEF States
<1>4. ASSUME MaxRequests >= 1 PROVE NewTask \in Task
  <2>1. 1 \in 1..MaxRequests /\ 0 \in 0..MaxEvents
    BY <1>4, ManagerAssumption
  <2>2. 0 \in Messages /\ <<-1>> \in Seq(Messages \ {0})
    BY <1>2, <2>1
  <2> QED BY <1>3, <2>2 DEF NewTask, NoTask, Task
<1>5. ASSUME NEW e \in [kind : Work, no : 0..MaxEvents], NEW no \in 1..MaxRequests
      PROVE  AgentsTask(e, no) \in Task
  BY <1>2, <1>3 DEF AgentsTask, NoTask, Task
<1> QED BY <1>1, <1>4, <1>5

\* What the columns of two tasks make is a task.
LEMMA MergeOps ==
    ASSUME NEW t \in Task, NEW old \in Task, NEW seen
    PROVE  Merged(t, seen, old) \in Task /\ Merged(t, old, old) = t
<1>1. Merged(t, seen, old) \in Task
  <2>1. \A x \in Task : x.state \in States /\ x.note \in Messages /\ x.history \in Seq(Messages \ {0}) /\ x.parts \in Seq(Nat)
    BY DEF Task
  <2> QED BY <2>1 DEF Merged, Task
<1>2. Merged(t, old, old) = t
  <2>1. \A x \in Task : x = [state |-> x.state, note |-> x.note, history |-> x.history, parts |-> x.parts]
    BY DEF Task
  <2>2. Merged(t, old, old).state = t.state /\ Merged(t, old, old).note = t.note
    BY DEF Merged
  <2> QED BY <2>1, <2>2 DEF Merged
<1> QED BY <1>1, <1>2

\* What the statements of a writer do to the accesses.
LEMMA AccessOps ==
    ASSUME access \in [Writers -> AtStore], NEW w \in Writers
    PROVE  /\ Get(w) => /\ access' \in [Writers -> AtStore]
                        /\ access'[w] = [at |-> "select", copy |-> NoTask, seen |-> NoTask]
                        /\ \A v \in Writers \ {w} : access'[v] = access[v]
                        /\ clean' = (clean /\ \A v \in Writers \ {w} : access[v].at = "none")
           /\ \A t \in Task : Save(w, t) =>
                        /\ access' \in [Writers -> AtStore]
                        /\ access'[w].at = "begun" /\ access'[w].copy = t
                        /\ \A v \in Writers \ {w} : access'[v] = access[v]
                        /\ clean' = (clean /\ \A v \in Writers \ {w} : access[v].at = "none")
           /\ Done(w) => /\ access' \in [Writers -> AtStore] /\ access'[w] = NoAccess
                         /\ \A v \in Writers \ {w} : access'[v] = access[v]
                         /\ clean' = clean
           /\ NoAccess \in AtStore /\ NoAccess.at = "none"
<1>1. NoAccess \in AtStore /\ NoAccess.at = "none"
  BY DEF NoAccess, AtStore
<1>2. \A a \in AtStore : [access EXCEPT ![w] = a] \in [Writers -> AtStore]
  OBVIOUS
<1>3. ASSUME Get(w)
      PROVE  /\ access' \in [Writers -> AtStore]
             /\ access'[w] = [at |-> "select", copy |-> NoTask, seen |-> NoTask]
             /\ \A v \in Writers \ {w} : access'[v] = access[v]
             /\ clean' = (clean /\ \A v \in Writers \ {w} : access[v].at = "none")
  <2> DEFINE a == [NoAccess EXCEPT !.at = "select"]
  <2>1. a = [at |-> "select", copy |-> NoTask, seen |-> NoTask] /\ a \in AtStore
    BY DEF NoAccess, AtStore, Selecting
  <2>2. /\ access' = [access EXCEPT ![w] = a]
        /\ clean' = (clean /\ \A v \in Writers \ {w} : access[v].at = "none")
    BY <1>3 DEF Get, Begins
  <2> HIDE DEF a
  <2> QED BY <1>2, <2>1, <2>2
<1>4. ASSUME NEW t \in Task, Save(w, t)
      PROVE  /\ access' \in [Writers -> AtStore]
             /\ access'[w].at = "begun" /\ access'[w].copy = t
             /\ \A v \in Writers \ {w} : access'[v] = access[v]
             /\ clean' = (clean /\ \A v \in Writers \ {w} : access[v].at = "none")
  <2> DEFINE a == [NoAccess EXCEPT !.at = "begun", !.copy = t]
  <2>1. a.at = "begun" /\ a.copy = t /\ a \in AtStore
    BY DEF NoAccess, AtStore, Saving
  <2>2. /\ access' = [access EXCEPT ![w] = a]
        /\ clean' = (clean /\ \A v \in Writers \ {w} : access[v].at = "none")
    BY <1>4 DEF Save, Begins
  <2> HIDE DEF a
  <2> QED BY <1>2, <2>1, <2>2
<1>5. ASSUME Done(w)
      PROVE  /\ access' \in [Writers -> AtStore] /\ access'[w] = NoAccess
             /\ \A v \in Writers \ {w} : access'[v] = access[v]
             /\ clean' = clean
  BY <1>1, <1>2, <1>5 DEF Done
<1> QED BY <1>1, <1>3, <1>4, <1>5

\* The consumer saves the message of the request.
KeepsMessage(h, u, e, o) ==
    /\ heap' = [h EXCEPT ![o] = WithMessage(@, u)]
    /\ current' = o
    /\ Save("consumer", heap'[o])
    /\ Waits("keep", "ensure", e, o)
    /\ UNCHANGED unsaved

\* What the consumer can do with an event once there is a task, and with an exception.
LEMMA KeepsMeans ==
    ASSUME NEW h, NEW c, NEW u, NEW e, NEW o, Keeps(h, c, u, e, o)
    PROVE  \/ u # 0 /\ ~Contains(h[o].history, u) /\ KeepsMessage(h, u, e, o)
           \/ (u = 0 \/ Contains(h[o].history, u)) /\ c # 0 /\ Processes(h, c, e, c)
           \/ (u = 0 \/ Contains(h[o].history, u)) /\ c = 0 /\ Looks(h, c, "apply", e)
  BY DEF Keeps, KeepsMessage

\* An event is applied, turned into a failure, or the consumer stops.
LEMMA ProcessesMeans ==
    ASSUME NEW h, NEW c, NEW e, NEW o, Processes(h, c, e, o)
    PROVE  \/ Stops(h, c) /\ h[o].state \in Terminal /\ e.kind = "append"
           \/ Applies(h, c, Failure, o) /\ h[o].state \notin Terminal /\ e.kind = "append"
           \/ Applies(h, c, e, o) /\ (e.kind = "append" => h[o].parts # <<>>)
  BY DEF Processes

\* An exception leads to a look for the task, to a stop or to a failed task.
LEMMA FailsMeans ==
    ASSUME NEW h, NEW c, NEW u, Fails(h, c, u)
    PROVE  \/ c = 0 /\ Looks(h, c, "fail", Failure)
           \/ c # 0 /\ h[c].state \in Terminal /\ Stops(h, c)
           \/ c # 0 /\ h[c].state \notin Terminal /\ Keeps(h, c, u, Failure, c)
  BY DEF Fails

\* Where the consumer waits next.
LEMMA WaitsIs ==
    ASSUME ConsumerOK, NEW at \in Busy, NEW for \in Purposes, NEW e \in Event, NEW o \in Nat, Waits(at, for, e, o)
    PROVE  /\ cons' \in [at : {"take", "over"} \cup Busy, for : Purposes, no : 0..MaxRequests, event : Event, hand : Nat]
           /\ cons'.at = at /\ cons'.for = for /\ cons'.event = e /\ cons'.hand = o /\ cons'.no = cons.no
           /\ UNCHANGED <<created, finished, open>>
<1>1. cons' = [cons EXCEPT !.at = at, !.for = for, !.event = e, !.hand = o]
  BY DEF Waits
<1>2. cons \in [at : {"take", "over"} \cup Busy, for : Purposes, no : 0..MaxRequests, event : Event, hand : Nat]
  BY DEF ConsumerOK
<1>3. UNCHANGED <<created, finished, open>>
  BY DEF Waits, flags
<1> QED BY <1>1, <1>2, <1>3

\* A task that is replaced in the heap.
LEMMA Replaces ==
    ASSUME NEW h \in Seq(Task), NEW o \in 1..Len(h), NEW t \in Task
    PROVE  /\ [h EXCEPT ![o] = t] \in Seq(Task) /\ Len([h EXCEPT ![o] = t]) = Len(h)
           /\ [h EXCEPT ![o] = t][o] = t
           /\ \A i \in 1..Len(h) : i # o => [h EXCEPT ![o] = t][i] = h[i]
  BY ExceptSeq

\* A task that is found or made.
LEMMA Extends ==
    ASSUME NEW h \in Seq(Task), NEW t \in Task
    PROVE  /\ Append(h, t) \in Seq(Task) /\ Len(Append(h, t)) = Len(h) + 1 /\ Len(h) \in Nat
           /\ Append(h, t)[Len(h) + 1] = t
           /\ \A i \in 1..Len(h) : Append(h, t)[i] = h[i]
  BY AppendProperties

\* The steps of the consumer, in all that depends on where it goes on.
LEMMA StopsFacts ==
    ASSUME ConsumerOK, access \in [Writers -> AtStore], NEW h \in Seq(Task), NEW c \in 0..Len(h), Stops(h, c)
    PROVE  /\ heap' = h /\ current' = c /\ cons'.at = "over" /\ finished' /\ ~open'
           /\ cons'.event = cons.event /\ cons'.no = cons.no /\ cons'.hand = cons.hand /\ cons'.for = cons.for
           /\ cons' \in [at : {"take", "over"} \cup Busy, for : Purposes, no : 0..MaxRequests, event : Event, hand : Nat]
           /\ access' \in [Writers -> AtStore] /\ access'["consumer"] = NoAccess
           /\ \A v \in Writers \ {"consumer"} : access'[v] = access[v]
           /\ clean' = clean /\ finished' \in BOOLEAN /\ open' \in BOOLEAN /\ UNCHANGED <<created, unsaved>>
<1>1. "consumer" \in Writers
  BY DEF Writers
<1>2. /\ heap' = h /\ current' = c /\ cons' = [cons EXCEPT !.at = "over"]
      /\ finished' = TRUE /\ open' = FALSE /\ Done("consumer") /\ UNCHANGED <<created, unsaved>>
  BY DEF Stops
<1>3. cons \in [at : {"take", "over"} \cup Busy, for : Purposes, no : 0..MaxRequests, event : Event, hand : Nat]
  BY DEF ConsumerOK
<1>4. /\ access' \in [Writers -> AtStore] /\ access'["consumer"] = NoAccess
      /\ \A v \in Writers \ {"consumer"} : access'[v] = access[v]
      /\ clean' = clean
  BY <1>1, <1>2, AccessOps
<1> QED BY <1>2, <1>3, <1>4

\* The consumer changes an object and saves it.
LEMMA AppliesFacts ==
    ASSUME ConsumerOK, access \in [Writers -> AtStore], NEW h \in Seq(Task), NEW c \in 0..Len(h),
           NEW o \in 1..Len(h), NEW e \in [kind : Applicable, no : 0..MaxEvents], e \in Event, Applies(h, c, e, o)
    PROVE  /\ Applied(h[o], e) \in Task
           /\ heap' \in Seq(Task) /\ Len(heap') = Len(h) /\ heap'[o] = Applied(h[o], e)
           /\ \A i \in 1..Len(h) : i # o => heap'[i] = h[i]
           /\ current' = c /\ unsaved' = 0
           /\ cons'.at = "apply" /\ cons'.event = e /\ cons'.hand = o /\ cons'.no = cons.no /\ cons'.for = "apply"
           /\ cons' \in [at : {"take", "over"} \cup Busy, for : Purposes, no : 0..MaxRequests, event : Event, hand : Nat]
           /\ access' \in [Writers -> AtStore]
           /\ access'["consumer"].at = "begun" /\ access'["consumer"].copy = heap'[o]
           /\ \A v \in Writers \ {"consumer"} : access'[v] = access[v]
           /\ clean' = (clean /\ \A v \in Writers \ {"consumer"} : access[v].at = "none")
           /\ UNCHANGED <<created, finished, open>>
<1>1. "consumer" \in Writers /\ o \in Nat /\ "apply" \in Busy /\ "apply" \in Purposes
  BY DEF Writers, Busy, Storing, Purposes
<1>2. /\ heap' = [h EXCEPT ![o] = Applied(h[o], e)] /\ current' = c /\ unsaved' = 0
      /\ Save("consumer", heap'[o]) /\ Waits("apply", "apply", e, o)
  BY DEF Applies
<1>3. h[o] \in Task
  BY ElementOfSeq
<1>4. Applied(h[o], e) \in Task
  BY <1>3, TaskOps
<1>5. /\ heap' \in Seq(Task) /\ Len(heap') = Len(h) /\ heap'[o] = Applied(h[o], e)
      /\ \A i \in 1..Len(h) : i # o => heap'[i] = h[i]
  BY <1>2, <1>4, Replaces
<1>6. PICK t \in Task : t = heap'[o]
  BY <1>4, <1>5
<1>7. /\ access' \in [Writers -> AtStore]
      /\ access'["consumer"].at = "begun" /\ access'["consumer"].copy = t
      /\ \A v \in Writers \ {"consumer"} : access'[v] = access[v]
      /\ clean' = (clean /\ \A v \in Writers \ {"consumer"} : access[v].at = "none")
  <2>1. Save("consumer", t)
    BY <1>2, <1>6
  <2> QED BY <1>1, <2>1, AccessOps
<1>8. /\ cons' \in [at : {"take", "over"} \cup Busy, for : Purposes, no : 0..MaxRequests, event : Event, hand : Nat]
      /\ cons'.at = "apply" /\ cons'.event = e /\ cons'.hand = o /\ cons'.no = cons.no /\ cons'.for = "apply"
      /\ UNCHANGED <<created, finished, open>>
  BY <1>1, <1>2, WaitsIs
<1> QED BY <1>2, <1>4, <1>5, <1>6, <1>7, <1>8

\* The consumer moves a message to the history and saves the object.
LEMMA MessageFacts ==
    ASSUME ConsumerOK, access \in [Writers -> AtStore], NEW h \in Seq(Task), NEW u \in Messages \ {0},
           NEW o \in 1..Len(h), NEW e \in Event, KeepsMessage(h, u, e, o)
    PROVE  /\ WithMessage(h[o], u) \in Task
           /\ heap' \in Seq(Task) /\ Len(heap') = Len(h) /\ heap'[o] = WithMessage(h[o], u)
           /\ \A i \in 1..Len(h) : i # o => heap'[i] = h[i]
           /\ current' = o /\ UNCHANGED unsaved
           /\ cons'.at = "keep" /\ cons'.event = e /\ cons'.hand = o /\ cons'.no = cons.no /\ cons'.for = "ensure"
           /\ cons' \in [at : {"take", "over"} \cup Busy, for : Purposes, no : 0..MaxRequests, event : Event, hand : Nat]
           /\ access' \in [Writers -> AtStore]
           /\ access'["consumer"].at = "begun" /\ access'["consumer"].copy = heap'[o]
           /\ \A v \in Writers \ {"consumer"} : access'[v] = access[v]
           /\ clean' = (clean /\ \A v \in Writers \ {"consumer"} : access[v].at = "none")
           /\ UNCHANGED <<created, finished, open>>
<1>1. "consumer" \in Writers /\ o \in Nat /\ "keep" \in Busy /\ "ensure" \in Purposes
  BY DEF Writers, Busy, Storing, Purposes
<1>2. /\ heap' = [h EXCEPT ![o] = WithMessage(h[o], u)] /\ current' = o /\ UNCHANGED unsaved
      /\ Save("consumer", heap'[o]) /\ Waits("keep", "ensure", e, o)
  BY DEF KeepsMessage
<1>3. h[o] \in Task
  BY ElementOfSeq
<1>4. WithMessage(h[o], u) \in Task
  BY <1>3, TaskOps
<1>5. /\ heap' \in Seq(Task) /\ Len(heap') = Len(h) /\ heap'[o] = WithMessage(h[o], u)
      /\ \A i \in 1..Len(h) : i # o => heap'[i] = h[i]
  BY <1>2, <1>4, Replaces
<1>6. PICK t \in Task : t = heap'[o]
  BY <1>4, <1>5
<1>7. /\ access' \in [Writers -> AtStore]
      /\ access'["consumer"].at = "begun" /\ access'["consumer"].copy = t
      /\ \A v \in Writers \ {"consumer"} : access'[v] = access[v]
      /\ clean' = (clean /\ \A v \in Writers \ {"consumer"} : access[v].at = "none")
  <2>1. Save("consumer", t)
    BY <1>2, <1>6
  <2> QED BY <1>1, <2>1, AccessOps
<1>8. /\ cons' \in [at : {"take", "over"} \cup Busy, for : Purposes, no : 0..MaxRequests, event : Event, hand : Nat]
      /\ cons'.at = "keep" /\ cons'.event = e /\ cons'.hand = o /\ cons'.no = cons.no /\ cons'.for = "ensure"
      /\ UNCHANGED <<created, finished, open>>
  BY <1>1, <1>2, WaitsIs
<1> QED BY <1>2, <1>4, <1>5, <1>6, <1>7, <1>8

\* The consumer asks the store for the task.
LEMMA LooksFacts ==
    ASSUME ConsumerOK, access \in [Writers -> AtStore], NEW h, NEW c, NEW for \in Purposes, NEW e \in Event,
           Looks(h, c, for, e)
    PROVE  /\ heap' = h /\ current' = c /\ unsaved' = IF for = "apply" THEN 0 ELSE unsaved
           /\ cons'.at = "look" /\ cons'.event = e /\ cons'.hand = cons.hand /\ cons'.no = cons.no /\ cons'.for = for
           /\ cons' \in [at : {"take", "over"} \cup Busy, for : Purposes, no : 0..MaxRequests, event : Event, hand : Nat]
           /\ access' \in [Writers -> AtStore] /\ access'["consumer"].at = "select"
           /\ \A v \in Writers \ {"consumer"} : access'[v] = access[v]
           /\ clean' = (clean /\ \A v \in Writers \ {"consumer"} : access[v].at = "none")
           /\ UNCHANGED <<created, finished, open>>
<1>1. "consumer" \in Writers /\ "look" \in Busy /\ cons.hand \in Nat
  BY DEF Writers, Busy, ConsumerOK
<1>2. /\ heap' = h /\ current' = c /\ unsaved' = IF for = "apply" THEN 0 ELSE unsaved
      /\ Get("consumer") /\ Waits("look", for, e, cons.hand)
  BY DEF Looks
<1>3. /\ access' \in [Writers -> AtStore] /\ access'["consumer"].at = "select"
      /\ \A v \in Writers \ {"consumer"} : access'[v] = access[v]
      /\ clean' = (clean /\ \A v \in Writers \ {"consumer"} : access[v].at = "none")
  BY <1>1, <1>2, AccessOps
<1>4. PICK n \in Nat : n = cons.hand
  BY <1>1
<1>5. /\ cons' \in [at : {"take", "over"} \cup Busy, for : Purposes, no : 0..MaxRequests, event : Event, hand : Nat]
      /\ cons'.at = "look" /\ cons'.event = e /\ cons'.hand = n /\ cons'.no = cons.no /\ cons'.for = for
      /\ UNCHANGED <<created, finished, open>>
  <2>1. Waits("look", for, e, n)
    BY <1>2, <1>4
  <2> QED BY <1>1, <2>1, WaitsIs
<1> QED BY <1>2, <1>3, <1>4, <1>5

-----------------------------------------------------------------------------
(* Types                                                                   *)

\* The access of a writer is where it was, or a statement further.
Follows(w) ==
    /\ access'[w].at \in Selecting <=> access[w].at \in Selecting
    /\ access'[w].at \in Saving <=> access[w].at \in Saving
    /\ access'[w].at \in Saving => access'[w].copy = access[w].copy

\* What a writer keeps when others move.
LEMMA ConsumerFrame ==
    ASSUME TypeInv, UNCHANGED cons, Follows("consumer"), Len(heap') >= Len(heap), heap' \in Seq(Task)
    PROVE  ConsumerOK'
<1>1. ConsumerOK /\ Len(heap) \in Nat /\ Len(heap') \in Nat
  BY DEF TypeInv, TasksOK
<1>2. cons.hand \in Nat /\ cons.hand <= Len(heap)
  BY <1>1 DEF ConsumerOK
<1>3. cons.hand <= Len(heap')
  BY <1>1, <1>2
<1> QED BY <1>1, <1>3 DEF ConsumerOK, Follows

\* The producer keeps what it holds when others move.
LEMMA ProducerFrame ==
    ASSUME TypeInv, UNCHANGED prod, Follows("producer"), Len(heap') >= Len(heap), heap' \in Seq(Task),
           Started => Started'
    PROVE  ProducerOK'
<1>1. ProducerOK /\ Len(heap) \in Nat /\ Len(heap') \in Nat
  BY DEF TypeInv, TasksOK
<1>2. prod.hand \in Nat /\ prod.hand <= Len(heap)
  BY <1>1 DEF ProducerOK
<1>3. prod.hand <= Len(heap')
  BY <1>1, <1>2
<1> QED BY <1>1, <1>3 DEF ProducerOK, Follows

\* cancel() keeps what it holds when others move.
LEMMA CancelFrame ==
    ASSUME TypeInv, UNCHANGED canc, access'["cancel"] = access["cancel"], Len(heap') >= Len(heap), heap' \in Seq(Task),
           row \in Task => row' \in Task
    PROVE  CancelOK'
<1>1. CancelOK /\ Len(heap) \in Nat /\ Len(heap') \in Nat
  BY DEF TypeInv, TasksOK
<1>2. canc.hand \in Nat /\ canc.hand <= Len(heap)
  BY <1>1 DEF CancelOK
<1>3. canc.hand <= Len(heap')
  BY <1>1, <1>2
<1> QED BY <1>1, <1>3 DEF CancelOK

\* What the queue keeps.
LEMMA QueueSame ==
    ASSUME TypeInv, UNCHANGED queue, cons'.no = cons.no
    PROVE  QueueOK' /\ (Started => Started')
<1>1. QueueOK
  BY DEF TypeInv
<1> QED BY <1>1 DEF QueueOK, Started

\* An event leaves the queue; the consumer knows the request it begins.
LEMMA QueueTakes ==
    ASSUME TypeInv, queue # <<>>, queue' = Tail(queue),
           Head(queue).kind = "start" => cons'.no = Head(queue).no,
           Head(queue).kind # "start" => cons'.no = cons.no
    PROVE  QueueOK' /\ (Started => Started') /\ cons'.no \in 0..MaxRequests
<1>1. /\ QueueOK /\ queue \in Seq(Event) /\ cons.no \in 0..MaxRequests
      /\ MaxRequests \in Nat
  BY ManagerAssumption DEF TypeInv, QueueOK, ConsumerOK
<1>2. PICK q \in Seq(Event), t \in Seq(Event) : q = queue /\ t = queue'
  BY <1>1, HeadTailProperties
<1>3. /\ Len(t) = Len(q) - 1 /\ Len(q) \in Nat /\ Len(q) >= 1
      /\ \A i \in 1..Len(t) : t[i] = q[i+1]
      /\ Head(q) = q[1]
  <2>1. t = Tail(q) /\ q # <<>>
    BY <1>2
  <2> QED BY <2>1, HeadTailProperties, EmptySeq, LenProperties
<1>4. cons'.no = cons.no \/ (cons'.no = q[1].no /\ q[1].kind = "start")
  BY <1>2, <1>3
<1>5. /\ \A i \in 1..Len(q) :
            /\ q[i].kind \in {"start", "end"} => q[i].no \in 1..MaxRequests
            /\ q[i].kind \notin {"start", "end"} => q[i].no \in 0..MaxEvents
            /\ q[i].kind # "failed"
            /\ q[i].kind = "task" => cons.no >= 1 \/ \E j \in 1..Len(q) : j < i /\ q[j].kind = "start"
  BY <1>1, <1>2 DEF QueueOK
<1>6. cons'.no \in 0..MaxRequests /\ (q[1].kind = "start" => cons'.no >= 1) /\ (cons.no >= 1 => cons'.no >= 1)
  <2>1. 1 \in 1..Len(q)
    BY <1>3
  <2>2. q[1].kind = "start" => q[1].no \in 1..MaxRequests /\ cons'.no = q[1].no
    BY <1>2, <1>3, <1>5, <2>1
  <2> QED BY <1>1, <1>4, <2>2
<1>7. Started => Started'
  <2>1. CASE cons.no >= 1 \/ q[1].kind = "start"
    BY <1>6, <2>1 DEF Started
  <2>2. ASSUME NEW j \in 1..Len(q), q[j].kind = "start", q[1].kind # "start" PROVE Started'
    <3>1. j - 1 \in 1..Len(t) /\ t[j - 1] = q[j]
      BY <1>3, <2>2
    <3> QED BY <1>2, <2>2, <3>1 DEF Started
  <2> QED BY <1>2, <2>1, <2>2 DEF Started
<1>8. ASSUME NEW i \in 1..Len(t)
      PROVE  /\ t[i].kind \in {"start", "end"} => t[i].no \in 1..MaxRequests
             /\ t[i].kind \notin {"start", "end"} => t[i].no \in 0..MaxEvents
             /\ t[i].kind # "failed"
             /\ t[i].kind = "task" => cons'.no >= 1 \/ \E j \in 1..Len(t) : j < i /\ t[j].kind = "start"
  <2>1. i + 1 \in 1..Len(q) /\ t[i] = q[i + 1]
    BY <1>3
  <2>2. ASSUME NEW j \in 1..Len(q), j < i + 1, q[j].kind = "start", q[1].kind # "start"
        PROVE  \E k \in 1..Len(t) : k < i /\ t[k].kind = "start"
    <3>1. j - 1 \in 1..Len(t) /\ t[j - 1] = q[j] /\ j - 1 < i
      BY <1>3, <2>2
    <3> QED BY <2>2, <3>1
  <2>3. t[i].kind = "task" => cons'.no >= 1 \/ \E j \in 1..Len(t) : j < i /\ t[j].kind = "start"
    BY <1>5, <1>6, <2>1, <2>2
  <2> QED BY <1>5, <2>1, <2>3
<1> QED BY <1>2, <1>6, <1>7, <1>8 DEF QueueOK

\* An event enters the queue.
LEMMA QueuePuts ==
    ASSUME TypeInv, UNCHANGED cons, NEW e \in Event, queue' = Append(queue, e),
           e.kind \in {"start", "end"} => e.no \in 1..MaxRequests,
           e.kind \notin {"start", "end"} => e.no \in 0..MaxEvents,
           e.kind # "failed", e.kind = "task" => Started
    PROVE  QueueOK' /\ (Started => Started') /\ (e.kind = "start" => Started')
<1>1. PICK q \in Seq(Event), t \in Seq(Event) : q = queue /\ t = queue' /\ t = Append(q, e)
  BY AppendProperties DEF TypeInv, QueueOK
<1>2. Len(t) = Len(q) + 1 /\ Len(q) \in Nat /\ t[Len(q) + 1] = e /\ \A i \in 1..Len(q) : t[i] = q[i]
  BY <1>1, AppendProperties
<1>3. /\ \A i \in 1..Len(q) :
            /\ q[i].kind \in {"start", "end"} => q[i].no \in 1..MaxRequests
            /\ q[i].kind \notin {"start", "end"} => q[i].no \in 0..MaxEvents
            /\ q[i].kind # "failed"
            /\ q[i].kind = "task" => cons.no >= 1 \/ \E j \in 1..Len(q) : j < i /\ q[j].kind = "start"
  BY <1>1 DEF TypeInv, QueueOK
<1>4. Started <=> cons.no >= 1 \/ \E i \in 1..Len(q) : q[i].kind = "start"
  BY <1>1 DEF Started
<1>5. Started' <=> cons.no >= 1 \/ \E i \in 1..Len(t) : t[i].kind = "start"
  BY <1>1 DEF Started
<1>6. (Started => Started') /\ (e.kind = "start" => Started')
  <2>1. \A i \in 1..Len(q) : i \in 1..Len(t) /\ t[i] = q[i]
    BY <1>2
  <2>2. Len(q) + 1 \in 1..Len(t)
    BY <1>2
  <2> QED BY <1>2, <1>4, <1>5, <2>1, <2>2
<1>7. ASSUME NEW i \in 1..Len(t)
      PROVE  /\ t[i].kind \in {"start", "end"} => t[i].no \in 1..MaxRequests
             /\ t[i].kind \notin {"start", "end"} => t[i].no \in 0..MaxEvents
             /\ t[i].kind # "failed"
             /\ t[i].kind = "task" => cons.no >= 1 \/ \E j \in 1..Len(t) : j < i /\ t[j].kind = "start"
  <2>1. CASE i \in 1..Len(q)
    BY <1>2, <1>3, <2>1
  <2>2. CASE i = Len(q) + 1
    BY <1>2, <1>4, <2>2
  <2> QED BY <1>2, <2>1, <2>2
<1> QED BY <1>1, <1>6, <1>7 DEF QueueOK

\* What every move of the consumer leaves behind it.
Moved ==
    /\ StoreOK' /\ TasksOK' /\ ConsumerOK'
    /\ cons'.no = cons.no /\ Len(heap') >= Len(heap)
    /\ \A v \in Writers \ {"consumer"} : access'[v] = access[v]

\* An event that can be applied to a task.
Fit(e) == e \in Event /\ Pending(e) /\ e.kind # "task"

\* What is fit to be applied is an event.
LEMMA FitFacts ==
    /\ Fit(Failure) /\ Failure.kind = "failed"
    /\ \A e : Fit(e) => e \in [kind : Applicable, no : 0..MaxEvents]
<1>1. 0 \in 0..MaxEvents /\ 0 \in Nat
  BY ManagerAssumption
<1>2. Failure = [kind |-> "failed", no |-> 0]
  BY DEF Failure, Item
<1>3. Fit(Failure) /\ Failure.kind = "failed"
  BY <1>1, <1>2 DEF Fit, Event, Pending, Failing
<1>4. ASSUME NEW e, Fit(e) PROVE e \in [kind : Applicable, no : 0..MaxEvents]
  <2>1. e \in Event /\ e.kind \in Work \cup Failing /\ e.kind # "task" /\ e.no \in 0..MaxEvents
    BY <1>4 DEF Fit, Pending
  <2>2. e.kind \in Applicable
    BY <2>1, ManagerAssumption DEF Work, Applicable, Failing
  <2>3. e = [kind |-> e.kind, no |-> e.no]
    BY <2>1 DEF Event
  <2> QED BY <2>1, <2>2, <2>3
<1> QED BY <1>3, <1>4

\* The consumer stops.
LEMMA StopsTypes ==
    ASSUME TypeInv, NEW h \in Seq(Task), NEW c \in 0..Len(h), Len(h) >= Len(heap), UNCHANGED row, Stops(h, c)
    PROVE  Moved
<1>1. /\ ConsumerOK /\ access \in [Writers -> AtStore] /\ TasksOK /\ StoreOK
  BY DEF TypeInv, StoreOK
<1>2. /\ heap' = h /\ current' = c /\ cons'.at = "over" /\ finished' /\ ~open'
      /\ cons'.event = cons.event /\ cons'.no = cons.no /\ cons'.hand = cons.hand /\ cons'.for = cons.for
      /\ cons' \in [at : {"take", "over"} \cup Busy, for : Purposes, no : 0..MaxRequests, event : Event, hand : Nat]
      /\ access' \in [Writers -> AtStore] /\ access'["consumer"] = NoAccess
      /\ \A v \in Writers \ {"consumer"} : access'[v] = access[v]
      /\ clean' = clean /\ finished' \in BOOLEAN /\ open' \in BOOLEAN /\ UNCHANGED <<created, unsaved>>
  BY <1>1, StopsFacts
<1>3. NoAccess.at = "none"
  BY DEF NoAccess
<1>4. TasksOK'
  BY <1>1, <1>2 DEF TasksOK
<1>5. cons.hand <= Len(heap) /\ cons.hand \in Nat /\ Len(heap) \in Nat /\ Len(h) \in Nat
  BY <1>1 DEF ConsumerOK, TasksOK
<1>6. cons'.hand <= Len(heap')
  BY <1>2, <1>5
<1>7. ConsumerOK'
  BY <1>2, <1>3, <1>6 DEF ConsumerOK, Busy, Storing, Selecting, Saving
<1>8. StoreOK'
  BY <1>1, <1>2 DEF StoreOK
<1> QED BY <1>2, <1>4, <1>7, <1>8 DEF Moved

\* The consumer applies an event.
LEMMA AppliesTypes ==
    ASSUME TypeInv, NEW h \in Seq(Task), NEW c \in 0..Len(h), Len(h) >= Len(heap), UNCHANGED row,
           NEW o \in 1..Len(h), NEW e, Fit(e), Applies(h, c, e, o)
    PROVE  Moved
<1>1. /\ ConsumerOK /\ access \in [Writers -> AtStore] /\ TasksOK /\ StoreOK
  BY DEF TypeInv, StoreOK
<1>2. e \in [kind : Applicable, no : 0..MaxEvents] /\ e \in Event /\ Pending(e) /\ e.kind # "task"
  BY FitFacts DEF Fit
<1>3. /\ Applied(h[o], e) \in Task
      /\ heap' \in Seq(Task) /\ Len(heap') = Len(h) /\ heap'[o] = Applied(h[o], e)
      /\ current' = c /\ unsaved' = 0
      /\ cons'.at = "apply" /\ cons'.event = e /\ cons'.hand = o /\ cons'.no = cons.no /\ cons'.for = "apply"
      /\ cons' \in [at : {"take", "over"} \cup Busy, for : Purposes, no : 0..MaxRequests, event : Event, hand : Nat]
      /\ access' \in [Writers -> AtStore]
      /\ access'["consumer"].at = "begun" /\ access'["consumer"].copy = heap'[o]
      /\ \A v \in Writers \ {"consumer"} : access'[v] = access[v]
      /\ clean' = (clean /\ \A v \in Writers \ {"consumer"} : access[v].at = "none")
      /\ UNCHANGED <<created, finished, open>>
  BY <1>1, <1>2, AppliesFacts
<1>4. TasksOK'
  BY <1>1, <1>3, ManagerAssumption DEF TasksOK
<1>5. ConsumerOK'
  BY <1>2, <1>3 DEF ConsumerOK, Busy, Storing, Selecting, Saving, Pending
<1>6. StoreOK'
  BY <1>1, <1>3 DEF StoreOK
<1> QED BY <1>3, <1>4, <1>5, <1>6 DEF Moved

\* The consumer saves the message of the request.
LEMMA MessageTypes ==
    ASSUME TypeInv, NEW h \in Seq(Task), Len(h) >= Len(heap), UNCHANGED row,
           NEW u \in (-MaxRequests)..0, u # 0,
           NEW o \in 1..Len(h), NEW e, Fit(e), KeepsMessage(h, u, e, o)
    PROVE  Moved
<1>1. /\ ConsumerOK /\ access \in [Writers -> AtStore] /\ TasksOK /\ StoreOK
  BY DEF TypeInv, StoreOK
<1>2. e \in Event /\ Pending(e) /\ e.kind # "task"
  BY DEF Fit
<1>0. u \in Messages \ {0}
  BY ManagerAssumption DEF Messages
<1>3. /\ WithMessage(h[o], u) \in Task
      /\ heap' \in Seq(Task) /\ Len(heap') = Len(h) /\ heap'[o] = WithMessage(h[o], u)
      /\ current' = o /\ UNCHANGED unsaved
      /\ cons'.at = "keep" /\ cons'.event = e /\ cons'.hand = o /\ cons'.no = cons.no /\ cons'.for = "ensure"
      /\ cons' \in [at : {"take", "over"} \cup Busy, for : Purposes, no : 0..MaxRequests, event : Event, hand : Nat]
      /\ access' \in [Writers -> AtStore]
      /\ access'["consumer"].at = "begun" /\ access'["consumer"].copy = heap'[o]
      /\ \A v \in Writers \ {"consumer"} : access'[v] = access[v]
      /\ clean' = (clean /\ \A v \in Writers \ {"consumer"} : access[v].at = "none")
      /\ UNCHANGED <<created, finished, open>>
  BY <1>0, <1>1, <1>2, MessageFacts
<1>4. TasksOK'
  BY <1>1, <1>3, ManagerAssumption DEF TasksOK
<1>5. ConsumerOK'
  BY <1>2, <1>3 DEF ConsumerOK, Busy, Storing, Selecting, Saving, Pending
<1>6. StoreOK'
  BY <1>1, <1>3 DEF StoreOK
<1> QED BY <1>3, <1>4, <1>5, <1>6 DEF Moved

\* The consumer looks for the task.
LEMMA LooksTypes ==
    ASSUME TypeInv, NEW h \in Seq(Task), NEW c \in 0..Len(h), Len(h) >= Len(heap), UNCHANGED row,
           NEW for \in Purposes, NEW e \in Event, Pending(e), e.kind = "task" => cons.no >= 1 /\ for = "get",
           Looks(h, c, for, e)
    PROVE  Moved
<1>1. /\ ConsumerOK /\ access \in [Writers -> AtStore] /\ TasksOK /\ StoreOK
  BY DEF TypeInv, StoreOK
<1>3. /\ heap' = h /\ current' = c /\ unsaved' = IF for = "apply" THEN 0 ELSE unsaved
      /\ cons'.at = "look" /\ cons'.event = e /\ cons'.hand = cons.hand /\ cons'.no = cons.no /\ cons'.for = for
      /\ cons' \in [at : {"take", "over"} \cup Busy, for : Purposes, no : 0..MaxRequests, event : Event, hand : Nat]
      /\ access' \in [Writers -> AtStore] /\ access'["consumer"].at = "select"
      /\ \A v \in Writers \ {"consumer"} : access'[v] = access[v]
      /\ clean' = (clean /\ \A v \in Writers \ {"consumer"} : access[v].at = "none")
      /\ UNCHANGED <<created, finished, open>>
  BY <1>1, LooksFacts
<1>4. TasksOK'
  BY <1>1, <1>3, ManagerAssumption DEF TasksOK
<1>6. cons.hand <= Len(heap) /\ cons.hand \in Nat /\ Len(heap) \in Nat /\ Len(h) \in Nat
  BY <1>1 DEF ConsumerOK, TasksOK
<1>7. cons'.hand <= Len(heap')
  BY <1>3, <1>6
<1>5. ConsumerOK'
  BY <1>3, <1>7 DEF ConsumerOK, Busy, Storing, Selecting, Saving, Pending
<1>8. StoreOK'
  BY <1>1, <1>3 DEF StoreOK
<1> QED BY <1>3, <1>4, <1>5, <1>8 DEF Moved

\* process() with an object that is there.
LEMMA ProcessesTypes ==
    ASSUME TypeInv, NEW h \in Seq(Task), NEW c \in 0..Len(h), Len(h) >= Len(heap), UNCHANGED row,
           NEW o \in 1..Len(h), NEW e, Fit(e), Processes(h, c, e, o)
    PROVE  Moved
<1>1. \/ Stops(h, c)
      \/ Applies(h, c, Failure, o)
      \/ Applies(h, c, e, o)
  BY ProcessesMeans
<1> QED BY <1>1, StopsTypes, AppliesTypes, FitFacts

\* An event that modifies the task.
LEMMA KeepsTypes ==
    ASSUME TypeInv, NEW h \in Seq(Task), NEW c \in 0..Len(h), Len(h) >= Len(heap), UNCHANGED row,
           NEW u \in (-MaxRequests)..0,
           NEW o \in 1..Len(h), NEW e, Fit(e), Keeps(h, c, u, e, o)
    PROVE  Moved
<1>1. \/ u # 0 /\ KeepsMessage(h, u, e, o)
      \/ c # 0 /\ Processes(h, c, e, c)
      \/ Looks(h, c, "apply", e)
  BY KeepsMeans
<1>2. c # 0 => c \in 1..Len(h)
  OBVIOUS
<1>3. e \in Event /\ Pending(e) /\ e.kind # "task" /\ "apply" \in Purposes
  BY DEF Fit, Purposes
<1>4. CASE u # 0 /\ KeepsMessage(h, u, e, o)
  BY <1>4, MessageTypes
<1>5. CASE c # 0 /\ Processes(h, c, e, c)
  BY <1>2, <1>5, ProcessesTypes
<1>6. CASE Looks(h, c, "apply", e)
  BY <1>3, <1>6, LooksTypes
<1> QED BY <1>1, <1>4, <1>5, <1>6

\* An exception in the consumer.
LEMMA FailsTypes ==
    ASSUME TypeInv, NEW h \in Seq(Task), NEW c \in 0..Len(h), Len(h) >= Len(heap), UNCHANGED row,
           NEW u \in (-MaxRequests)..0, Fails(h, c, u)
    PROVE  Moved
<1>1. \/ Looks(h, c, "fail", Failure)
      \/ Stops(h, c)
      \/ c # 0 /\ Keeps(h, c, u, Failure, c)
  BY FailsMeans
<1>2. c # 0 => c \in 1..Len(h)
  OBVIOUS
<1>3. Fit(Failure) /\ Failure \in Event /\ Pending(Failure) /\ Failure.kind # "task" /\ "fail" \in Purposes
  BY FitFacts DEF Fit, Purposes
<1>4. CASE Looks(h, c, "fail", Failure)
  BY <1>3, <1>4, LooksTypes
<1>5. CASE Stops(h, c)
  BY <1>5, StopsTypes
<1>6. CASE c # 0 /\ Keeps(h, c, u, Failure, c)
  BY <1>2, <1>3, <1>6, KeepsTypes
<1> QED BY <1>1, <1>4, <1>5, <1>6

\* A move of the consumer keeps what the others have.
LEMMA MovedTypes ==
    ASSUME TypeInv, Moved, AgentOK', QueueOK', Started => Started', UNCHANGED <<row, prod, canc>>
    PROVE  TypeInv'
<1>1. /\ Len(heap') >= Len(heap) /\ heap' \in Seq(Task)
      /\ access'["producer"] = access["producer"] /\ access'["cancel"] = access["cancel"]
  BY DEF Moved, Writers, TasksOK
<1>2. Follows("producer")
  BY <1>1 DEF Follows
<1>3. ProducerOK'
  BY <1>1, <1>2, ProducerFrame
<1>4. CancelOK'
  BY <1>1, CancelFrame
<1> QED BY <1>3, <1>4 DEF TypeInv, Moved

\* What was found, and the event the consumer waits with.
LEMMA FoundFacts ==
    ASSUME TypeInv, NEW w \in Writers
    PROVE  /\ Found(w) \in Task \cup {NoTask}
           /\ heap \in Seq(Task) /\ Len(heap) \in Nat
           /\ Found(w) # NoTask =>
                /\ Append(heap, Found(w)) \in Seq(Task)
                /\ Len(Append(heap, Found(w))) = Len(heap) + 1
                /\ Append(heap, Found(w))[Len(heap) + 1] = Found(w)
           /\ current \in 0..Len(heap) /\ unsaved \in (-MaxRequests)..0
           /\ cons.event \in Event /\ cons.no \in 0..MaxRequests /\ cons.for \in Purposes
           /\ cons.at \in Busy => Pending(cons.event)
           /\ cons.at \in Busy /\ cons.event.kind # "task" => Fit(cons.event)
           /\ cons.at \in Storing => cons.hand \in 1..Len(heap)
<1>1. Found(w) \in Task \cup {NoTask}
  BY DEF TypeInv, StoreOK, AtStore, Found
<1>2. /\ heap \in Seq(Task) /\ Len(heap) \in Nat /\ current \in 0..Len(heap) /\ unsaved \in (-MaxRequests)..0
  BY DEF TypeInv, TasksOK
<1>3. /\ cons.event \in Event /\ cons.no \in 0..MaxRequests /\ cons.for \in Purposes
      /\ cons.at \in Busy => Pending(cons.event)
      /\ cons.hand \in Nat /\ cons.hand <= Len(heap)
      /\ cons.at \in Storing => cons.hand >= 1
  BY DEF TypeInv, ConsumerOK
<1>4. cons.at \in Busy /\ cons.event.kind # "task" => Fit(cons.event)
  BY <1>3 DEF Fit
<1>5. cons.at \in Storing => cons.hand \in 1..Len(heap)
  BY <1>2, <1>3
<1>6. Found(w) # NoTask =>
                /\ Append(heap, Found(w)) \in Seq(Task)
                /\ Len(Append(heap, Found(w))) = Len(heap) + 1
                /\ Append(heap, Found(w))[Len(heap) + 1] = Found(w)
  <2>1. PICK f : f = Found(w)
    OBVIOUS
  <2>2. f # NoTask => f \in Task
    BY <1>1, <2>1
  <2>3. f \in Task => Append(heap, f) \in Seq(Task) /\ Len(Append(heap, f)) = Len(heap) + 1 /\ Append(heap, f)[Len(heap) + 1] = f
    BY <1>2, Extends
  <2> QED BY <2>1, <2>2, <2>3
<1> QED BY <1>1, <1>2, <1>3, <1>4, <1>5, <1>6

\* The first event of the queue.
LEMMA HeadFacts ==
    ASSUME TypeInv, queue # <<>>
    PROVE  /\ Head(queue) \in Event /\ Head(queue) = queue[1] /\ 1 \in 1..Len(queue)
           /\ Head(queue).kind \in {"start", "end"} => Head(queue).no \in 1..MaxRequests
           /\ Head(queue).kind \notin {"start", "end", "error"} => Pending(Head(queue))
           /\ Head(queue).kind \notin {"start", "end", "error", "task"} => Fit(Head(queue))
           /\ Head(queue).kind = "task" => cons.no >= 1
<1>1. PICK q \in Seq(Event) : q = queue
  BY DEF TypeInv, QueueOK
<1>2. Head(q) \in Event /\ Head(q) = q[1] /\ 1 \in 1..Len(q)
  BY <1>1, HeadTailProperties, EmptySeq, LenProperties
<1>3. /\ q[1].kind \in {"start", "end"} => q[1].no \in 1..MaxRequests
      /\ q[1].kind \notin {"start", "end"} => q[1].no \in 0..MaxEvents
      /\ q[1].kind # "failed"
      /\ q[1].kind = "task" => cons.no >= 1 \/ \E j \in 1..Len(q) : j < 1 /\ q[j].kind = "start"
  BY <1>1, <1>2 DEF TypeInv, QueueOK
<1>4. q[1].kind = "task" => cons.no >= 1
  BY <1>3
<1>5. q[1].kind \notin {"start", "end", "error"} => Pending(q[1])
  BY <1>2, <1>3 DEF Pending, Work, Failing, Event
<1> QED BY <1>1, <1>2, <1>3, <1>4, <1>5 DEF Fit

\* The consumer takes an event.
LEMMA TakesTypes ==
    ASSUME TypeInv, ConsumerTakes
    PROVE  TypeInv'
<1>1. /\ cons.at = "take" /\ queue # <<>> /\ queue' = Tail(queue)
      /\ UNCHANGED <<row, prod, canc, answered>> /\ UNCHANGED <<locked, events, ended, failed>>
  BY DEF ConsumerTakes, agent
<1>2. PICK e : e = Head(queue)
  OBVIOUS
<1>3. \/ e.kind = "error" /\ Fails(heap, current, unsaved)
      \/ /\ e.kind = "task" /\ current # 0 /\ unsaved' = 0 /\ created' = TRUE
         /\ finished' = (finished \/ heap[current].state \in Terminal)
         /\ UNCHANGED <<access, clean, heap, current, open, cons>>
      \/ e.kind = "task" /\ current = 0 /\ Looks(heap, 0, "get", e)
      \/ /\ e.kind \notin {"start", "end", "error", "task"}
         /\ \/ current # 0 /\ Keeps(heap, current, unsaved, e, current)
            \/ Looks(heap, 0, "get", e)
            \/ Looks(heap, 0, "ensure", e)
  BY <1>2 DEF ConsumerTakes, accesses, tasks
<1>4. /\ e \in Event
      /\ e.kind \notin {"start", "end", "error"} => Pending(e)
      /\ e.kind \notin {"start", "end", "error", "task"} => Fit(e)
      /\ e.kind = "task" => cons.no >= 1
  BY <1>1, <1>2, HeadFacts
<1>5. /\ heap \in Seq(Task) /\ Len(heap) \in Nat /\ current \in 0..Len(heap) /\ unsaved \in (-MaxRequests)..0
      /\ 0 \in 0..Len(heap) /\ "get" \in Purposes /\ "ensure" \in Purposes /\ UNCHANGED row
      /\ Len(heap) >= Len(heap)
  BY <1>1 DEF TypeInv, TasksOK, Purposes
<1>6. Moved
  <2>1. CASE e.kind = "error" /\ Fails(heap, current, unsaved)
    BY <1>5, <2>1, FailsTypes
  <2>2. CASE /\ unsaved' = 0 /\ created' = TRUE
             /\ finished' = (finished \/ heap[current].state \in Terminal)
             /\ UNCHANGED <<access, clean, heap, current, open, cons>>
    <3>1. StoreOK /\ TasksOK /\ ConsumerOK /\ MaxRequests \in Nat
      BY ManagerAssumption DEF TypeInv
    <3>2. StoreOK' /\ ConsumerOK'
      BY <1>5, <2>2, <3>1 DEF StoreOK, ConsumerOK
    <3>3. TasksOK'
      BY <1>5, <2>2, <3>1 DEF TasksOK
    <3> QED BY <1>5, <2>2, <3>2, <3>3 DEF Moved
  <2>3. CASE e.kind = "task" /\ current = 0 /\ Looks(heap, 0, "get", e)
    BY <1>4, <1>5, <2>3, LooksTypes
  <2>4. CASE e.kind \notin {"start", "end", "error", "task"} /\ current # 0 /\ Keeps(heap, current, unsaved, e, current)
    <3>1. current \in 1..Len(heap) /\ Fit(e)
      BY <1>4, <1>5, <2>4
    <3> QED BY <1>5, <2>4, <3>1, KeepsTypes
  <2>5. CASE e.kind \notin {"start", "end", "error", "task"} /\ (Looks(heap, 0, "get", e) \/ Looks(heap, 0, "ensure", e))
    BY <1>4, <1>5, <2>5, LooksTypes
  <2> QED BY <1>3, <2>1, <2>2, <2>3, <2>4, <2>5
<1>7. cons'.no = cons.no
  BY <1>6 DEF Moved
<1>8. QueueOK' /\ (Started => Started')
  <2>1. Head(queue).kind # "start"
    BY <1>2, <1>3
  <2> QED BY <1>1, <1>7, <2>1, QueueTakes
<1>9. AgentOK'
  BY <1>1 DEF TypeInv, AgentOK
<1> QED BY <1>1, <1>6, <1>8, <1>9, MovedTypes

\* The consumer takes the marker of a request.
LEMMA MarkerTypes ==
    ASSUME TypeInv, ConsumerTakesMarker
    PROVE  TypeInv'
<1>1. /\ queue # <<>> /\ queue' = Tail(queue)
      /\ UNCHANGED <<row, access, clean, heap, current, created, finished, open, events, ended, failed, prod, canc, answered>>
      /\ \/ /\ Head(queue).kind = "start" /\ unsaved' = -Head(queue).no
            /\ cons' = [cons EXCEPT !.no = Head(queue).no] /\ UNCHANGED locked
         \/ Head(queue).kind = "end" /\ locked' = FALSE /\ UNCHANGED <<unsaved, cons>>
  BY DEF ConsumerTakesMarker, accesses, tasks, flags
<1>2. Head(queue).no \in 1..MaxRequests /\ MaxRequests \in Nat
  BY <1>1, HeadFacts, ManagerAssumption
<1>3. cons \in [at : {"take", "over"} \cup Busy, for : Purposes, no : 0..MaxRequests, event : Event, hand : Nat]
  BY DEF TypeInv, ConsumerOK
<1>4. /\ Head(queue).kind = "start" => cons'.no = Head(queue).no
      /\ Head(queue).kind # "start" => cons'.no = cons.no
      /\ cons' \in [at : {"take", "over"} \cup Busy, for : Purposes, no : 0..MaxRequests, event : Event, hand : Nat]
      /\ cons'.at = cons.at /\ cons'.hand = cons.hand /\ cons'.for = cons.for /\ cons'.event = cons.event
      /\ cons.no >= 1 => cons'.no >= 1
      /\ unsaved' \in (-MaxRequests)..0
  <2>1. CASE Head(queue).kind = "start"
    <3>1. cons' = [cons EXCEPT !.no = Head(queue).no] /\ unsaved' = -Head(queue).no
      BY <1>1, <2>1
    <3>2. PICK n \in 1..MaxRequests : n = Head(queue).no
      BY <1>2
    <3> QED BY <1>2, <1>3, <2>1, <3>1, <3>2
  <2>2. CASE Head(queue).kind # "start"
    BY <1>1, <1>3, <2>2 DEF TypeInv, TasksOK
  <2> QED BY <2>1, <2>2
<1>5. QueueOK' /\ (Started => Started')
  BY <1>1, <1>4, QueueTakes
<1>6. ConsumerOK /\ TasksOK /\ StoreOK /\ AgentOK /\ Len(heap) \in Nat
  BY DEF TypeInv, TasksOK
<1>7. ConsumerOK'
  BY <1>1, <1>4, <1>6 DEF ConsumerOK
<1>8. TasksOK' /\ StoreOK' /\ AgentOK'
  BY <1>1, <1>4, <1>6 DEF TasksOK, StoreOK, AgentOK
<1>9. Follows("producer") /\ Len(heap') >= Len(heap) /\ heap' \in Seq(Task)
  BY <1>1, <1>6 DEF Follows, TasksOK
<1>10. ProducerOK' /\ CancelOK'
  BY <1>1, <1>5, <1>9, ProducerFrame, CancelFrame
<1> QED BY <1>5, <1>7, <1>8, <1>10 DEF TypeInv

\* A step of the consumer that answers to the store leaves the queue as it is.
LEMMA MovedOn ==
    ASSUME TypeInv, Moved, UNCHANGED <<row, queue, agent, prod, canc>>, answered' \subseteq 1..MaxRequests
    PROVE  TypeInv'
<1>1. UNCHANGED <<locked, events, ended, failed>>
  BY DEF agent
<1>2. AgentOK'
  BY <1>1 DEF TypeInv, AgentOK
<1>3. QueueOK' /\ (Started => Started')
  BY QueueSame DEF Moved
<1> QED BY <1>2, <1>3, MovedTypes

\* An answer for the consumer comes from a look or a commit.
LEMMA AnsweredFact == TypeInv => answered \subseteq 1..MaxRequests
  BY DEF TypeInv, AgentOK

\* A task that is made and then saved.
LEMMA InsertsTypes ==
    ASSUME TypeInv, NEW t \in Task, NEW at \in {"insert", "apply"}, NEW for \in Purposes, NEW e \in Event, NEW o,
           Pending(e), e.kind = "task" => cons.no >= 1 /\ at = "apply",
           heap' = Append(heap, t), o = Len(heap) + 1, current' \in {current, 0}, Save("consumer", t), Waits(at, for, e, o),
           UNCHANGED <<row, unsaved>>
    PROVE  Moved
<1>1. /\ ConsumerOK /\ access \in [Writers -> AtStore] /\ TasksOK /\ StoreOK
      /\ heap \in Seq(Task) /\ Len(heap) \in Nat /\ current \in 0..Len(heap)
  BY DEF TypeInv, StoreOK, TasksOK
<1>2. heap' \in Seq(Task) /\ Len(heap') = Len(heap) + 1 /\ o \in Nat
  BY <1>1, Extends
<1>3. /\ cons' \in [at : {"take", "over"} \cup Busy, for : Purposes, no : 0..MaxRequests, event : Event, hand : Nat]
      /\ cons'.at = at /\ cons'.for = for /\ cons'.event = e /\ cons'.hand = o /\ cons'.no = cons.no
      /\ UNCHANGED <<created, finished, open>>
  BY <1>1, <1>2, WaitsIs DEF Busy, Storing
<1>4. /\ access' \in [Writers -> AtStore]
      /\ access'["consumer"].at = "begun" /\ access'["consumer"].copy = t
      /\ \A v \in Writers \ {"consumer"} : access'[v] = access[v]
      /\ clean' = (clean /\ \A v \in Writers \ {"consumer"} : access[v].at = "none")
  BY <1>1, AccessOps DEF Writers
<1>5. TasksOK'
  BY <1>1, <1>2, <1>3 DEF TasksOK
<1>6. ConsumerOK'
  BY <1>1, <1>2, <1>3, <1>4 DEF ConsumerOK, Busy, Storing, Selecting, Saving, Pending
<1>7. StoreOK'
  BY <1>1, <1>4 DEF StoreOK
<1> QED BY <1>1, <1>2, <1>3, <1>4, <1>5, <1>6, <1>7 DEF Moved

\* The event is dealt with: the consumer goes on to the next one.
LEMMA GoesOnTypes ==
    ASSUME TypeInv, NEW h \in Seq(Task), NEW c \in 0..Len(h), Len(h) >= Len(heap), heap' = h, current' = c,
           unsaved' \in {unsaved, 0}, created', finished' \in BOOLEAN, Done("consumer"),
           cons' = [cons EXCEPT !.at = "take"], UNCHANGED <<row, open>>
    PROVE  Moved
<1>1. /\ ConsumerOK /\ access \in [Writers -> AtStore] /\ TasksOK /\ StoreOK
      /\ cons \in [at : {"take", "over"} \cup Busy, for : Purposes, no : 0..MaxRequests, event : Event, hand : Nat]
      /\ cons.hand <= Len(heap)  /\ Len(heap) \in Nat /\ Len(h) \in Nat /\ cons.hand \in Nat
  BY DEF TypeInv, StoreOK, TasksOK, ConsumerOK
<1>2. /\ cons'.at = "take" /\ cons'.hand = cons.hand /\ cons'.no = cons.no
      /\ cons' \in [at : {"take", "over"} \cup Busy, for : Purposes, no : 0..MaxRequests, event : Event, hand : Nat]
  BY <1>1
<1>3. /\ access' \in [Writers -> AtStore] /\ access'["consumer"] = NoAccess
      /\ \A v \in Writers \ {"consumer"} : access'[v] = access[v]
      /\ clean' = clean
  BY <1>1, AccessOps DEF Writers
<1>4. cons'.hand <= Len(heap')
  BY <1>1, <1>2
<1>5. ConsumerOK'
  BY <1>2, <1>3, <1>4 DEF ConsumerOK, Busy, Storing, Selecting, Saving, NoAccess
<1>6. TasksOK'
  <2>1. created' \in BOOLEAN /\ open' \in BOOLEAN /\ unsaved' \in (-MaxRequests)..0
    BY <1>1, ManagerAssumption DEF TasksOK
  <2> QED BY <2>1 DEF TasksOK
<1>7. StoreOK'
  BY <1>1, <1>3 DEF StoreOK
<1> QED BY <1>2, <1>3, <1>5, <1>6, <1>7 DEF Moved

\* The consumer goes on with what get_task() found.
LEMMA GotTypes ==
    ASSUME TypeInv, ConsumerGot
    PROVE  TypeInv'
<1>1. /\ cons.at = "look" /\ cons.for \in {"get", "fail"} /\ UNCHANGED <<row, queue, agent, prod, canc, answered>>
      /\ "consumer" \in Writers /\ cons.at \in Busy
  BY DEF ConsumerGot, Writers, Busy
<1>2. PICK h : h = Append(heap, Found("consumer"))
  OBVIOUS
<1>3. PICK c : c = Len(h)
  OBVIOUS
<1>4. PICK f : f = Found("consumer")
  OBVIOUS
<1>5. PICK e : e = cons.event
  OBVIOUS
<1>6. \/ /\ f # NoTask /\ e.kind = "task"
         /\ heap' = h /\ current' = c
         /\ unsaved' = 0 /\ created' = TRUE
         /\ finished' = (finished \/ h[c].state \in Terminal)
         /\ Done("consumer")
         /\ cons' = [cons EXCEPT !.at = "take"]
         /\ UNCHANGED open
      \/ f # NoTask /\ cons.for = "fail" /\ Fails(h, c, unsaved)
      \/ f # NoTask /\ cons.for = "get" /\ e.kind # "task" /\ Keeps(h, c, unsaved, e, c)
      \/ /\ f = NoTask /\ e.kind = "task"
         /\ heap' = Append(heap, AgentsTask(e, cons.no)) /\ current' = 0
         /\ Save("consumer", AgentsTask(e, cons.no))
         /\ Waits("apply", "apply", e, c)
         /\ UNCHANGED unsaved
      \/ f = NoTask /\ cons.for = "get" /\ e.kind # "task" /\ Fails(heap, 0, unsaved)
      \/ f = NoTask /\ cons.for = "fail" /\ Stops(heap, 0)
  BY <1>2, <1>3, <1>4, <1>5 DEF ConsumerGot
<1>7. /\ heap \in Seq(Task) /\ Len(heap) \in Nat /\ current \in 0..Len(heap) /\ unsaved \in (-MaxRequests)..0
      /\ f \in Task \cup {NoTask} /\ e \in Event /\ Pending(e) /\ (e.kind # "task" => Fit(e))
      /\ (f # NoTask => h \in Seq(Task) /\ Len(h) = Len(heap) + 1) /\ cons.no \in 0..MaxRequests
      /\ (e.kind = "task" => cons.no >= 1)
  <2>1. e.kind = "task" => cons.no >= 1
    BY <1>1, <1>5 DEF TypeInv, ConsumerOK
  <2> QED BY <1>1, <1>2, <1>4, <1>5, <2>1, FoundFacts
<1>8. f # NoTask => h \in Seq(Task) /\ c \in 1..Len(h) /\ c \in 0..Len(h) /\ Len(h) >= Len(heap)
  BY <1>3, <1>7
<1>9. c = Len(heap) + 1
  <2>1. heap \in Seq(Task \cup {NoTask})
    BY <1>7, ElementOfSeq, SeqDef
  <2> QED BY <1>2, <1>3, <1>4, <1>7, <2>1, AppendProperties
<1>10. Len(heap) >= Len(heap) /\ 0 \in 0..Len(heap) /\ UNCHANGED row
  BY <1>1, <1>7
<1>11. Moved
  <2>1. CASE /\ f # NoTask /\ e.kind = "task"
         /\ heap' = h /\ current' = c
         /\ unsaved' = 0 /\ created' = TRUE
         /\ finished' = (finished \/ h[c].state \in Terminal)
         /\ Done("consumer")
         /\ cons' = [cons EXCEPT !.at = "take"]
         /\ UNCHANGED open
    <3>1. finished' \in BOOLEAN
      BY <2>1 DEF TypeInv, TasksOK
    <3> QED BY <1>8, <1>10, <2>1, <3>1, GoesOnTypes
  <2>2. CASE f # NoTask /\ Fails(h, c, unsaved)
    BY <1>7, <1>8, <1>10, <2>2, FailsTypes
  <2>3. CASE f # NoTask /\ e.kind # "task" /\ Keeps(h, c, unsaved, e, c)
    BY <1>7, <1>8, <1>10, <2>3, KeepsTypes
  <2>4. CASE /\ e.kind = "task"
             /\ heap' = Append(heap, AgentsTask(e, cons.no)) /\ current' = 0
             /\ Save("consumer", AgentsTask(e, cons.no))
             /\ Waits("apply", "apply", e, c)
             /\ UNCHANGED unsaved
    <3>1. e \in [kind : Work, no : 0..MaxEvents] /\ cons.no \in 1..MaxRequests
      BY <1>7, <2>4, ManagerAssumption DEF Event, Pending, Failing
    <3>2. PICK t \in Task : t = AgentsTask(e, cons.no)
      BY <3>1, NewTasks
    <3>3. heap' = Append(heap, t) /\ Save("consumer", t) /\ current' \in {current, 0} /\ UNCHANGED <<row, unsaved>> /\ "apply" \in Purposes
      BY <1>1, <2>4, <3>2 DEF Purposes
    <3> QED BY <1>7, <1>9, <2>4, <3>3, InsertsTypes
  <2>5. CASE Fails(heap, 0, unsaved)
    BY <1>7, <1>10, <2>5, FailsTypes
  <2>6. CASE Stops(heap, 0)
    BY <1>7, <1>10, <2>6, StopsTypes
  <2> QED BY <1>6, <2>1, <2>2, <2>3, <2>4, <2>5, <2>6
<1> QED BY <1>1, <1>11, MovedOn, AnsweredFact

\* The consumer goes on with what ensure_task_id() found.
LEMMA EnsuredTypes ==
    ASSUME TypeInv, ConsumerEnsured
    PROVE  TypeInv'
<1>1. /\ cons.at = "look" /\ cons.for \in {"ensure", "apply"} /\ UNCHANGED <<row, queue, agent, prod, canc, answered>>
      /\ "consumer" \in Writers /\ cons.at \in Busy
  BY DEF ConsumerEnsured, Writers, Busy
<1>2. PICK h : h = Append(heap, Found("consumer"))
  OBVIOUS
<1>3. PICK c : c = Len(h)
  OBVIOUS
<1>4. PICK f : f = Found("consumer")
  OBVIOUS
<1>5. PICK e : e = cons.event
  OBVIOUS
<1>6. \/ f # NoTask /\ Keeps(h, current, unsaved, e, c)
      \/ f # NoTask /\ Processes(h, current, e, c)
      \/ /\ heap' = Append(heap, NewTask) /\ UNCHANGED <<current, unsaved>>
         /\ Save("consumer", NewTask)
         /\ Waits("insert", cons.for, e, c)
  BY <1>2, <1>3, <1>4, <1>5 DEF ConsumerEnsured
<1>7. /\ heap \in Seq(Task) /\ Len(heap) \in Nat /\ current \in 0..Len(heap) /\ unsaved \in (-MaxRequests)..0
      /\ f \in Task \cup {NoTask} /\ e \in Event /\ Pending(e) /\ e.kind # "task" /\ Fit(e) /\ cons.for \in Purposes
      /\ (f # NoTask => h \in Seq(Task) /\ Len(h) = Len(heap) + 1)
  <2>1. e.kind # "task"
    BY <1>1, <1>5 DEF TypeInv, ConsumerOK
  <2> QED BY <1>1, <1>2, <1>4, <1>5, <2>1, FoundFacts
<1>8. f # NoTask => h \in Seq(Task) /\ c \in 1..Len(h) /\ current \in 0..Len(h) /\ Len(h) >= Len(heap)
  BY <1>3, <1>7
<1>9. c = Len(heap) + 1
  <2>1. heap \in Seq(Task \cup {NoTask})
    BY <1>7, ElementOfSeq, SeqDef
  <2> QED BY <1>2, <1>3, <1>4, <1>7, <2>1, AppendProperties
<1>11. Moved
  <2>1. CASE f # NoTask /\ Keeps(h, current, unsaved, e, c)
    BY <1>1, <1>7, <1>8, <2>1, KeepsTypes
  <2>2. CASE f # NoTask /\ Processes(h, current, e, c)
    BY <1>1, <1>7, <1>8, <2>2, ProcessesTypes
  <2>3. CASE /\ heap' = Append(heap, NewTask) /\ UNCHANGED <<current, unsaved>>
         /\ Save("consumer", NewTask)
         /\ Waits("insert", cons.for, e, c)
    <3>1. PICK t \in Task : t = NewTask
      BY NewTasks, ManagerAssumption
    <3>2. heap' = Append(heap, t) /\ Save("consumer", t) /\ current' \in {current, 0} /\ UNCHANGED <<row, unsaved>>
      BY <1>1, <2>3, <3>1
    <3>3. PICK for \in Purposes : for = cons.for
      BY <1>7
    <3>4. Waits("insert", for, e, c)
      BY <2>3, <3>3
    <3> QED BY <1>7, <1>9, <3>2, <3>4, InsertsTypes
  <2> QED BY <1>6, <2>1, <2>2, <2>3
<1> QED BY <1>1, <1>11, MovedOn, AnsweredFact

\* The consumer goes on after a save.
LEMMA StoredTypes ==
    ASSUME TypeInv, ConsumerInserted \/ ConsumerKept \/ ConsumerApplied \/ ConsumerSaveRaises \/ ConsumerSeesShutdown
    PROVE  TypeInv'
<1>1. /\ UNCHANGED <<row, queue, agent, prod, canc>> /\ "consumer" \in Writers
      /\ \/ answered' = answered
         \/ answered' = answered \cup ({cons.no} \ {0})
  BY DEF ConsumerInserted, ConsumerKept, ConsumerApplied, ConsumerSaveRaises, ConsumerSeesShutdown, Writers
<1>2. /\ heap \in Seq(Task) /\ Len(heap) \in Nat /\ current \in 0..Len(heap) /\ unsaved \in (-MaxRequests)..0
      /\ cons.no \in 0..MaxRequests /\ Len(heap) >= Len(heap) /\ UNCHANGED row
      /\ cons.at \in Storing => cons.hand \in 1..Len(heap) /\ cons.hand \in 0..Len(heap)
      /\ cons.at \in Storing /\ cons.event.kind # "task" => Fit(cons.event)
      /\ cons.at \in {"insert", "keep"} => cons.event.kind # "task"
  <2>1. cons.at \in {"insert", "keep"} => cons.event.kind # "task"
    BY DEF TypeInv, ConsumerOK, Busy, Storing
  <2>2. cons.at \in Storing => cons.at \in Busy
    BY DEF Busy
  <2> QED BY <1>1, <2>1, <2>2, FoundFacts
<1>3. answered' \subseteq 1..MaxRequests
  BY <1>1, <1>2, AnsweredFact
<1>4. PICK o, e : o = cons.hand /\ e = cons.event
  OBVIOUS
<1>5. CASE ConsumerInserted \/ ConsumerKept
  <2>1. /\ o \in 1..Len(heap) /\ o \in 0..Len(heap) /\ Fit(e)
        /\ Keeps(heap, o, unsaved, e, o) \/ Processes(heap, o, e, o)
    BY <1>2, <1>4, <1>5 DEF ConsumerInserted, ConsumerKept, Storing
  <2>2. Moved
    BY <1>2, <2>1, KeepsTypes, ProcessesTypes
  <2> QED BY <1>1, <1>3, <2>2, MovedOn
<1>6. CASE ConsumerApplied
  <2>1. o \in 0..Len(heap)
    BY <1>2, <1>4, <1>6 DEF ConsumerApplied, Storing
  <2>2. \/ Stops(heap, o)
        \/ /\ heap' = heap /\ current' = o /\ created' = TRUE
           /\ finished' = (finished \/ heap[cons.hand].state \in Terminal)
           /\ unsaved' \in {unsaved, 0}
           /\ cons' = [cons EXCEPT !.at = "take"]
           /\ Done("consumer") /\ UNCHANGED open
    BY <1>4, <1>6 DEF ConsumerApplied
  <2>3. Moved
    <3>1. CASE Stops(heap, o)
      BY <1>2, <2>1, <3>1, StopsTypes
    <3>2. CASE ~Stops(heap, o)
      <4>1. finished' \in BOOLEAN
        BY <2>2, <3>2 DEF TypeInv, TasksOK
      <4> QED BY <1>1, <1>2, <2>1, <2>2, <3>2, <4>1, GoesOnTypes
    <3> QED BY <3>1, <3>2
  <2> QED BY <1>1, <1>3, <2>3, MovedOn
<1>7. CASE ConsumerSaveRaises \/ ConsumerSeesShutdown
  <2>1. Stops(heap, current) \/ Fails(heap, current, unsaved)
    BY <1>7 DEF ConsumerSaveRaises, ConsumerSeesShutdown
  <2>2. Moved
    BY <1>2, <2>1, StopsTypes, FailsTypes
  <2> QED BY <1>1, <1>3, <2>2, MovedOn
<1> QED BY <1>5, <1>6, <1>7

ProducerAts == {"wait", "look", "execute", "failLook", "failInsert", "failSave", "over"}
CancelAts   == {"idle", "look", "agent", "failLook", "wait", "lookAgain", "save", "returned", "raised"}

\* What is put into the queue.
LEMMA ItemIs ==
    ASSUME NEW k \in {"start", "end", "error", "canceled", "unable", "failed"} \cup Kinds, NEW n \in Nat
    PROVE  Item(k, n) \in Event /\ Item(k, n).kind = k /\ Item(k, n).no = n
  BY DEF Item, Event

\* What a writer that is not the consumer leaves alone.
LEMMA OthersTypes ==
    ASSUME TypeInv, StoreOK', AgentOK', TasksOK', UNCHANGED <<row, cons>>, Len(heap') >= Len(heap),
           access'["consumer"] = access["consumer"]
    PROVE  /\ ConsumerOK'
           /\ UNCHANGED canc /\ access'["cancel"] = access["cancel"] => CancelOK'
           /\ UNCHANGED prod /\ access'["producer"] = access["producer"] /\ (Started => Started') => ProducerOK'
<1>1. heap' \in Seq(Task) /\ Follows("consumer")
  BY DEF TasksOK, Follows
<1>2. ConsumerOK'
  BY <1>1, ConsumerFrame
<1>3. ASSUME UNCHANGED canc, access'["cancel"] = access["cancel"] PROVE CancelOK'
  BY <1>1, <1>3, CancelFrame
<1>4. ASSUME UNCHANGED prod, access'["producer"] = access["producer"], Started => Started' PROVE ProducerOK'
  BY <1>1, <1>4, ProducerFrame DEF Follows
<1> QED BY <1>2, <1>3, <1>4

\* Where the producer goes.
LEMMA ProducerAt ==
    ASSUME TypeInv, StoreOK', AgentOK', TasksOK', QueueOK', UNCHANGED <<row, cons, canc>>, Len(heap') >= Len(heap),
           \A v \in Writers \ {"producer"} : access'[v] = access[v],
           prod' \in [at : ProducerAts, no : 0..MaxRequests, hand : Nat], prod'.hand <= Len(heap'),
           prod'.at \in {"failInsert", "failSave"} =>
                prod'.hand >= 1 /\ access'["producer"].at \in Saving /\ access'["producer"].copy \in Task,
           prod'.at \in {"look", "failLook"} => access'["producer"].at \in Selecting,
           prod'.at \in {"wait", "execute", "over"} => access'["producer"].at = "none",
           prod'.at \notin {"wait", "over"} => prod'.no >= 1,
           prod'.at = "execute" => Started'
    PROVE  TypeInv'
<1>1. access'["consumer"] = access["consumer"] /\ access'["cancel"] = access["cancel"]
  BY DEF Writers
<1>2. ConsumerOK' /\ CancelOK'
  BY <1>1, OthersTypes
<1>3. ProducerOK'
  BY DEF ProducerOK, ProducerAts, Selecting, Saving
<1> QED BY <1>2, <1>3 DEF TypeInv

\* What is known of the producer.
LEMMA ProducerFacts ==
    ASSUME TypeInv
    PROVE  /\ prod \in [at : ProducerAts, no : 0..MaxRequests, hand : Nat]
           /\ prod.hand <= Len(heap) /\ prod.hand \in Nat /\ prod.no \in 0..MaxRequests
           /\ prod.at \in {"failInsert", "failSave"} => prod.hand \in 1..Len(heap)
           /\ prod.at \notin {"wait", "over"} => prod.no >= 1
           /\ prod.at \in {"wait", "execute", "over"} => access["producer"].at = "none"
           /\ access["producer"] \in AtStore /\ "producer" \in Writers
           /\ heap \in Seq(Task) /\ Len(heap) \in Nat /\ current \in 0..Len(heap) /\ MaxRequests \in Nat
           /\ access \in [Writers -> AtStore] /\ StoreOK /\ AgentOK /\ TasksOK /\ QueueOK
<1>1. /\ heap \in Seq(Task) /\ Len(heap) \in Nat /\ current \in 0..Len(heap)
      /\ access["producer"] \in AtStore /\ "producer" \in Writers /\ MaxRequests \in Nat
      /\ access \in [Writers -> AtStore] /\ StoreOK /\ AgentOK /\ TasksOK /\ QueueOK
  BY ManagerAssumption DEF TypeInv, TasksOK, StoreOK, Writers
<1>2. access["producer"].at \in {"none"} \cup Selecting \cup Saving
  BY <1>1 DEF AtStore
<1>3. ProducerOK
  BY DEF TypeInv
<1>4. /\ prod \in [at : ProducerAts, no : 0..MaxRequests, hand : Nat]
      /\ prod.hand <= Len(heap) /\ prod.hand \in Nat /\ prod.no \in 0..MaxRequests
      /\ prod.at \in {"failInsert", "failSave"} => prod.hand >= 1
      /\ prod.at \notin {"wait", "over"} => prod.no >= 1
  BY <1>3 DEF ProducerOK, ProducerAts
<1>5. prod.at \in {"wait", "execute", "over"} => access["producer"].at = "none"
  BY <1>2, <1>3 DEF ProducerOK
<1>6. prod.at \in {"failInsert", "failSave"} => prod.hand \in 1..Len(heap)
  BY <1>1, <1>4
<1> QED BY <1>1, <1>4, <1>5, <1>6

\* The producer stops.
LEMMA StopsProducer ==
    ASSUME TypeInv, ProducerStops
    PROVE  /\ prod'.at = "over" /\ prod'.hand = prod.hand /\ prod'.no = prod.no
           /\ prod' \in [at : ProducerAts, no : 0..MaxRequests, hand : Nat] /\ open' = FALSE
<1>1. prod \in [at : ProducerAts, no : 0..MaxRequests, hand : Nat]
  BY ProducerFacts
<1>2. prod' = [prod EXCEPT !.at = "over"] /\ open' = FALSE
  BY DEF ProducerStops
<1> QED BY <1>1, <1>2 DEF ProducerAts

\* The producer announces a request.
LEMMA StartsTypes ==
    ASSUME TypeInv, StoreOK', AgentOK', UNCHANGED <<row, cons, canc, unsaved, created, finished>>,
           Len(heap') >= Len(heap), heap' \in Seq(Task), current' \in 0..Len(heap'),
           \A v \in Writers \ {"producer"} : access'[v] = access[v],
           access'["producer"].at = "none",
           NEW no \in 1..MaxRequests, NEW c \in 0..Len(heap'), Starts(no, c)
    PROVE  TypeInv'
<1>1. /\ prod.hand <= Len(heap) /\ prod.hand \in Nat /\ Len(heap) \in Nat /\ Len(heap') \in Nat
      /\ TasksOK /\ MaxRequests \in Nat /\ no \in Nat /\ c \in Nat /\ c <= Len(heap')
  BY ProducerFacts
<1>2. CASE open
  <2>1. /\ prod' = [at |-> "execute", no |-> no, hand |-> c]
        /\ queue' = Append(queue, Item("start", no)) /\ open' = open
    BY <1>2 DEF Starts
  <2>2. TasksOK'
    BY <1>1, <2>1 DEF TasksOK
  <2>3. PICK e \in Event : e = Item("start", no) /\ e.kind = "start" /\ e.no = no
    BY <1>1, ItemIs
  <2>4. QueueOK' /\ Started'
    BY <2>1, <2>3, QueuePuts
  <2>5. /\ prod' \in [at : ProducerAts, no : 0..MaxRequests, hand : Nat] /\ prod'.at = "execute"
        /\ prod'.no = no /\ prod'.hand = c
    BY <1>1, <2>1 DEF ProducerAts
  <2> QED BY <1>1, <2>2, <2>4, <2>5, ProducerAt
<1>3. CASE ~open
  <2>1. ProducerStops /\ UNCHANGED queue
    BY <1>3 DEF Starts
  <2>2. /\ prod'.at = "over" /\ prod'.hand = prod.hand /\ prod'.no = prod.no
        /\ prod' \in [at : ProducerAts, no : 0..MaxRequests, hand : Nat] /\ open' = FALSE
    BY <2>1, StopsProducer
  <2>3. TasksOK'
    BY <1>1, <2>2 DEF TasksOK
  <2>4. QueueOK'
    BY <2>1, QueueSame
  <2>5. prod'.hand <= Len(heap')
    BY <1>1, <2>2
  <2> QED BY <1>1, <2>2, <2>3, <2>4, <2>5, ProducerAt
<1> QED BY <1>2, <1>3

\* The producer hands an exception to the consumer.
LEMMA ReportsTypes ==
    ASSUME TypeInv, StoreOK', AgentOK', UNCHANGED <<row, cons, canc, unsaved>>,
           Len(heap') >= Len(heap), heap' \in Seq(Task), current' \in 0..Len(heap'),
           \A v \in Writers \ {"producer"} : access'[v] = access[v],
           access'["producer"].at = "none", Reports
    PROVE  TypeInv'
<1>1. /\ prod.hand <= Len(heap) /\ prod.hand \in Nat /\ Len(heap) \in Nat /\ Len(heap') \in Nat
      /\ TasksOK /\ MaxRequests \in Nat
  BY ProducerFacts
<1>2. /\ created' = TRUE /\ ProducerStops /\ UNCHANGED finished
      /\ queue' = IF open THEN Append(queue, Item("error", 0)) ELSE queue
  BY DEF Reports
<1>3. /\ prod'.at = "over" /\ prod'.hand = prod.hand /\ prod'.no = prod.no
      /\ prod' \in [at : ProducerAts, no : 0..MaxRequests, hand : Nat] /\ open' = FALSE
  BY <1>2, StopsProducer
<1>4. TasksOK'
  BY <1>1, <1>2, <1>3 DEF TasksOK
<1>5. QueueOK'
  <2>1. PICK e \in Event : e = Item("error", 0) /\ e.kind = "error" /\ e.no = 0
    <3>1. Item("error", 0) \in Event /\ Item("error", 0).kind = "error" /\ Item("error", 0).no = 0
      BY ItemIs
    <3> QED BY <3>1
  <2>2. 0 \in 0..MaxEvents
    BY ManagerAssumption
  <2>3. CASE queue' = Append(queue, e)
    BY <2>1, <2>2, <2>3, QueuePuts
  <2>4. CASE queue' = queue
    BY <2>4, QueueSame
  <2> QED BY <1>2, <2>1, <2>3, <2>4
<1>6. prod'.hand <= Len(heap')
  BY <1>1, <1>3
<1> QED BY <1>1, <1>3, <1>4, <1>5, <1>6, ProducerAt

\* The producer saves an object.
LEMMA HoldsTypes ==
    ASSUME TypeInv, AgentOK', UNCHANGED <<row, cons, canc, unsaved, flags, agentQ>>,
           Len(heap') >= Len(heap), heap' \in Seq(Task), current' \in 0..Len(heap'),
           prod.no >= 1, NEW o \in 1..Len(heap'), NEW at \in {"failInsert", "failSave"}, NEW t \in Task,
           Save("producer", t), prod' = [prod EXCEPT !.at = at, !.hand = o]
    PROVE  TypeInv'
<1>1. /\ prod \in [at : ProducerAts, no : 0..MaxRequests, hand : Nat]
      /\ Len(heap) \in Nat /\ Len(heap') \in Nat /\ access \in [Writers -> AtStore]
      /\ TasksOK /\ StoreOK /\ "producer" \in Writers /\ o \in Nat /\ o <= Len(heap') /\ o >= 1
  BY ProducerFacts
<1>2. /\ access' \in [Writers -> AtStore] /\ access'["producer"].at = "begun" /\ access'["producer"].copy = t
      /\ \A v \in Writers \ {"producer"} : access'[v] = access[v]
      /\ clean' = (clean /\ \A v \in Writers \ {"producer"} : access[v].at = "none")
  BY <1>1, AccessOps
<1>3. StoreOK'
  BY <1>1, <1>2 DEF StoreOK
<1>4. TasksOK'
  BY <1>1 DEF TasksOK, flags, agentQ
<1>5. QueueOK'
  <2>1. UNCHANGED queue
    BY DEF agentQ
  <2> QED BY <2>1, QueueSame
<1>6. /\ prod' \in [at : ProducerAts, no : 0..MaxRequests, hand : Nat] /\ prod'.at = at
      /\ prod'.no = prod.no /\ prod'.hand = o
  BY <1>1 DEF ProducerAts
<1> QED BY <1>1, <1>2, <1>3, <1>4, <1>5, <1>6, ProducerAt DEF Saving

\* The producer waits for the task.
LEMMA SeeksTypes ==
    ASSUME TypeInv, AgentOK', UNCHANGED <<row, cons, canc, unsaved, tasks, flags, agentQ>>,
           NEW at \in {"look", "failLook"}, NEW no \in 1..MaxRequests, Get("producer"),
           prod' = [prod EXCEPT !.at = at, !.no = no]
    PROVE  TypeInv'
<1>1. /\ prod \in [at : ProducerAts, no : 0..MaxRequests, hand : Nat] /\ prod.hand <= Len(heap)
      /\ Len(heap) \in Nat /\ access \in [Writers -> AtStore] /\ MaxRequests \in Nat /\ no \in Nat
      /\ TasksOK /\ StoreOK /\ "producer" \in Writers
  BY ProducerFacts
<1>2. /\ access' \in [Writers -> AtStore] /\ access'["producer"].at = "select"
      /\ \A v \in Writers \ {"producer"} : access'[v] = access[v]
      /\ clean' = (clean /\ \A v \in Writers \ {"producer"} : access[v].at = "none")
  BY <1>1, AccessOps
<1>3. StoreOK'
  BY <1>1, <1>2 DEF StoreOK
<1>4. UNCHANGED <<heap, current, queue, open, created, finished>>
  BY DEF flags, agentQ, tasks
<1>5. TasksOK'
  BY <1>1, <1>4 DEF TasksOK
<1>6. QueueOK'
  BY <1>4, QueueSame
<1>7. /\ prod' \in [at : ProducerAts, no : 0..MaxRequests, hand : Nat] /\ prod'.at = at
      /\ prod'.no = no /\ prod'.hand = prod.hand
  <2>1. at \in ProducerAts /\ no \in 0..MaxRequests
    BY <1>1 DEF ProducerAts
  <2> QED BY <1>1, <2>1
<1>8. prod'.hand <= Len(heap') /\ Len(heap') >= Len(heap)
  BY <1>1, <1>4, <1>7
<1> QED BY <1>1, <1>2, <1>3, <1>5, <1>6, <1>7, <1>8, ProducerAt DEF Selecting

\* The producer marks the task as failed.
LEMMA MarksFailedTypes ==
    ASSUME TypeInv, AgentOK', UNCHANGED <<row, cons, canc, unsaved>>, prod.no >= 1,
           NEW h \in Seq(Task), Len(h) >= Len(heap), NEW c \in 0..Len(h), NEW o \in 1..Len(h), MarksFailed(h, c, o)
    PROVE  TypeInv'
<1>1. /\ Len(heap) \in Nat /\ access \in [Writers -> AtStore] /\ StoreOK /\ "producer" \in Writers
      /\ prod \in [at : ProducerAts, no : 0..MaxRequests, hand : Nat]
  BY ProducerFacts
<1>2. CASE h[o].state \in Terminal
  <2>1. heap' = h /\ current' = c /\ Done("producer") /\ Reports
    BY <1>2 DEF MarksFailed
  <2>2. /\ access' \in [Writers -> AtStore] /\ access'["producer"] = NoAccess
        /\ \A v \in Writers \ {"producer"} : access'[v] = access[v]
        /\ clean' = clean
    BY <1>1, <2>1, AccessOps
  <2>3. StoreOK' /\ access'["producer"].at = "none"
    BY <1>1, <2>2 DEF StoreOK, NoAccess
  <2> QED BY <2>1, <2>2, <2>3, ReportsTypes
<1>3. CASE h[o].state \notin Terminal
  <2>1. /\ heap' = [h EXCEPT ![o].state = "failed"] /\ current' = c
        /\ Save("producer", heap'[o])
        /\ prod' = [prod EXCEPT !.at = "failSave", !.hand = o]
        /\ UNCHANGED <<flags, agentQ>>
    BY <1>3 DEF MarksFailed
  <2>2. h[o] \in Task /\ "failed" \in States
    BY ElementOfSeq DEF States, Terminal
  <2>3. PICK t \in Task : t = [h[o] EXCEPT !.state = "failed"]
    BY <2>2, TaskOps
  <2>4. heap' = [h EXCEPT ![o] = t]
    BY <2>1, <2>3
  <2>5. heap' \in Seq(Task) /\ Len(heap') = Len(h) /\ heap'[o] = t
    BY <2>4, Replaces
  <2>6. Save("producer", t) /\ o \in 1..Len(heap') /\ c \in 0..Len(heap')
    BY <2>1, <2>5
  <2> QED BY <2>1, <2>5, <2>6, HoldsTypes
<1> QED BY <1>2, <1>3

\* The producer takes a request.
LEMMA ProducerTakesTypes == TypeInv /\ ProducerTakes => TypeInv'
<1> SUFFICES ASSUME TypeInv, ProducerTakes PROVE TypeInv'
  OBVIOUS
<1>1. /\ prod.at = "wait" /\ prod.no < MaxRequests /\ locked' = TRUE
      /\ \/ current # 0 /\ Starts(prod.no + 1, current) /\ UNCHANGED accesses
         \/ /\ current = 0
            /\ prod' = [prod EXCEPT !.at = "look", !.no = prod.no + 1]
            /\ Get("producer")
            /\ UNCHANGED agentQ
      /\ UNCHANGED <<row, tasks, flags, events, ended, failed, cons, unsaved, canc, answered>>
  BY DEF ProducerTakes
<1>2. /\ StoreOK /\ AgentOK /\ TasksOK /\ Len(heap) \in Nat /\ heap \in Seq(Task) /\ current \in 0..Len(heap)
      /\ access["producer"].at = "none" /\ prod.no \in 0..MaxRequests /\ MaxRequests \in Nat
  BY <1>1, ProducerFacts
<1>3. prod.no + 1 \in 1..MaxRequests
  BY <1>1, <1>2
<1>4. AgentOK'
  BY <1>1, <1>2 DEF AgentOK
<1>5. UNCHANGED <<heap, current, created, finished>>
  BY <1>1 DEF tasks, flags
<1>6. PICK no \in 1..MaxRequests : no = prod.no + 1
  BY <1>3
<1>7. CASE Starts(prod.no + 1, current) /\ UNCHANGED accesses
  <2>1. UNCHANGED <<access, clean>> /\ StoreOK'
    BY <1>1, <1>2, <1>7 DEF accesses, StoreOK
  <2>2. PICK c \in 0..Len(heap') : c = current
    BY <1>2, <1>5
  <2>3. Starts(no, c)
    BY <1>6, <1>7, <2>2
  <2>4. /\ Len(heap') >= Len(heap) /\ heap' \in Seq(Task) /\ current' \in 0..Len(heap')
        /\ access'["producer"].at = "none" /\ \A v \in Writers \ {"producer"} : access'[v] = access[v]
        /\ UNCHANGED <<row, cons, canc, unsaved, created, finished>>
    BY <1>1, <1>2, <1>5, <2>1
  <2> QED BY <1>4, <2>1, <2>3, <2>4, StartsTypes
<1>8. CASE prod' = [prod EXCEPT !.at = "look", !.no = prod.no + 1] /\ Get("producer") /\ UNCHANGED agentQ
  <2>1. prod' = [prod EXCEPT !.at = "look", !.no = no]
    BY <1>6, <1>8
  <2> QED BY <1>1, <1>4, <1>8, <2>1, SeeksTypes
<1> QED BY <1>1, <1>7, <1>8

\* The producer goes on with what get_task() found.
LEMMA ProducerGotTypes == TypeInv /\ ProducerGot => TypeInv'
<1> SUFFICES ASSUME TypeInv, ProducerGot PROVE TypeInv'
  OBVIOUS
<1>1. /\ prod.at = "look"
      /\ heap' = IF Found("producer") = NoTask THEN heap ELSE Append(heap, Found("producer"))
      /\ current' = IF Found("producer") = NoTask THEN 0 ELSE Len(heap')
      /\ Starts(prod.no, current')
      /\ Done("producer")
      /\ UNCHANGED <<row, flags, agent, cons, unsaved, canc, answered>>
  BY DEF ProducerGot
<1>2. /\ StoreOK /\ AgentOK /\ Len(heap) \in Nat /\ heap \in Seq(Task) /\ "producer" \in Writers
      /\ prod.no \in 0..MaxRequests /\ prod.no >= 1 /\ MaxRequests \in Nat /\ access \in [Writers -> AtStore]
  BY <1>1, ProducerFacts
<1>3. PICK no, c : no \in 1..MaxRequests /\ no = prod.no /\ c = current'
  BY <1>2
<1>4. AgentOK' /\ UNCHANGED <<created, finished>>
  BY <1>1, <1>2 DEF AgentOK, agent, flags
<1>5. /\ access' \in [Writers -> AtStore] /\ access'["producer"] = NoAccess
      /\ \A v \in Writers \ {"producer"} : access'[v] = access[v]
      /\ clean' = clean
  BY <1>1, <1>2, AccessOps
<1>6. StoreOK' /\ access'["producer"].at = "none"
  BY <1>1, <1>2, <1>5 DEF StoreOK, NoAccess
<1>7. heap' \in Seq(Task) /\ Len(heap') >= Len(heap) /\ c \in 0..Len(heap')
  BY <1>1, <1>2, <1>3, FoundFacts
<1> QED BY <1>1, <1>3, <1>4, <1>5, <1>6, <1>7, StartsTypes

\* The agent adds an event of its own, or announces that it is done.
LEMMA PutsTypes ==
    ASSUME TypeInv, AgentOK', UNCHANGED <<row, access, clean, heap, current, created, finished, open, cons, unsaved, canc>>,
           NEW e \in Event, queue' = Append(queue, e),
           e.kind \in {"start", "end"} => e.no \in 1..MaxRequests,
           e.kind \notin {"start", "end"} => e.no \in 0..MaxEvents,
           e.kind # "failed", e.kind = "task" => Started,
           prod' = prod \/ (prod.at = "execute" /\ prod' = [prod EXCEPT !.at = "wait"])
    PROVE  TypeInv'
<1>1. StoreOK /\ TasksOK /\ Len(heap) \in Nat /\ "producer" \in Writers
  BY ProducerFacts
<1>2. StoreOK' /\ TasksOK' /\ Len(heap') >= Len(heap) /\ heap' \in Seq(Task)
  BY <1>1 DEF StoreOK, TasksOK
<1>3. QueueOK' /\ (Started => Started')
  BY QueuePuts
<1>4. CASE prod' = prod
  BY <1>2, <1>3, <1>4, OthersTypes DEF TypeInv
<1>5. CASE prod.at = "execute" /\ prod' = [prod EXCEPT !.at = "wait"]
  <2>1. /\ prod \in [at : ProducerAts, no : 0..MaxRequests, hand : Nat] /\ prod.hand <= Len(heap)
        /\ access["producer"].at = "none"
    BY <1>5, ProducerFacts
  <2>2. prod' \in [at : ProducerAts, no : 0..MaxRequests, hand : Nat] /\ prod'.at = "wait" /\ prod'.hand = prod.hand
    BY <1>5, <2>1 DEF ProducerAts
  <2> QED BY <1>2, <1>3, <2>1, <2>2, ProducerAt
<1> QED BY <1>4, <1>5

\* The number of an event, and of the event that ends the task.
LEMMA NextEventIs ==
    ASSUME TypeInv, NEW ends \in BOOLEAN, NextEvent(ends)
    PROVE  /\ events < MaxEvents /\ events' = events + 1 /\ ended' \in 0..events + 1
           /\ ended # 0 => ended' = ended
           /\ ended = 0 => ended' \in {0, events'}
           /\ ends => ended' # 0
<1>1. events \in Nat /\ ended \in 0..events
  BY ManagerAssumption DEF TypeInv, AgentOK
<1> QED BY <1>1 DEF NextEvent

\* The agent emits an event.
LEMMA EmitsTypes ==
    ASSUME TypeInv, NEW kind \in Kinds \cup {"canceled"}, events < MaxEvents, ended' \in 0..events + 1,
           kind = "task" => Started,
           events' = events + 1, queue' = Append(queue, Item(kind, events')),
           UNCHANGED <<row, accesses, tasks, flags, open, locked, failed, prod, cons, unsaved, canc, answered>>
    PROVE  TypeInv'
<1>1. AgentOK /\ events \in 0..MaxEvents /\ MaxEvents \in Nat
  BY ManagerAssumption DEF TypeInv, AgentOK
<1>2. PICK n \in 0..MaxEvents : n = events + 1 /\ n \in Nat
  BY <1>1
<1>3. /\ Item(kind, n) \in Event /\ Item(kind, n).kind = kind /\ Item(kind, n).no = n
  BY <1>2, ItemIs
<1>4. kind \notin {"start", "end", "failed"}
  BY ManagerAssumption
<1>5. AgentOK'
  BY <1>1, <1>2 DEF AgentOK
<1>6. PICK e \in Event : e = Item(kind, n) /\ e.kind = kind /\ e.no = n
  BY <1>3
<1>7. queue' = Append(queue, e) /\ UNCHANGED <<row, access, clean, heap, current, created, finished, open, cons, unsaved, canc>>
  BY <1>2, <1>6 DEF accesses, tasks, flags
<1> QED BY <1>4, <1>5, <1>6, <1>7, PutsTypes

\* The agent returns, cancel() speaks for it, or the producer sees the shutdown.
LEMMA AgentTypes ==
    ASSUME TypeInv, (\E kind \in Kinds : AgentEmits(kind)) \/ AgentReturns \/ AgentRaises \/ ProducerSeesShutdown
    PROVE  TypeInv'
<1>0. /\ StoreOK /\ AgentOK /\ TasksOK /\ Len(heap) \in Nat /\ heap \in Seq(Task) /\ current \in 0..Len(heap) /\ "producer" \in Writers
      /\ prod.no \in 0..MaxRequests /\ MaxRequests \in Nat /\ access \in [Writers -> AtStore]
      /\ prod.hand <= Len(heap) /\ prod.hand \in Nat
      /\ prod.at \notin {"wait", "over"} => prod.no >= 1
      /\ prod.at \in {"wait", "execute", "over"} => access["producer"].at = "none"
  BY ProducerFacts
<1>1. ASSUME NEW kind \in Kinds, AgentEmits(kind) PROVE TypeInv'
  <2>1. Started
    BY <1>1 DEF AgentEmits, TypeInv, ProducerOK
  <2>2. events < MaxEvents /\ events' = events + 1 /\ ended' \in 0..events + 1
    <3>1. NextEvent(kind = "completed")
      BY <1>1 DEF AgentEmits
    <3> QED BY <3>1, NextEventIs
  <2> QED BY <1>1, <2>1, <2>2, EmitsTypes DEF AgentEmits
<1>2. CASE AgentReturns
  <2>1. prod.no \in 1..MaxRequests /\ prod.at = "execute" /\ prod' = [prod EXCEPT !.at = "wait"]
    BY <1>0, <1>2 DEF AgentReturns
  <2>2. PICK e \in Event : e = Item("end", prod.no) /\ e.kind = "end" /\ e.no = prod.no
    <3>1. PICK n \in Nat : n = prod.no
      BY <1>0
    <3>2. Item("end", n) \in Event /\ Item("end", n).kind = "end" /\ Item("end", n).no = n
      BY ItemIs
    <3> QED BY <3>1, <3>2
  <2>3. queue' = Append(queue, e) /\ UNCHANGED <<row, access, clean, heap, current, created, finished, open, cons, unsaved, canc>>
    BY <1>2, <2>2 DEF AgentReturns, accesses, tasks, flags
  <2>4. AgentOK'
    BY <1>0, <1>2 DEF AgentReturns, AgentOK, agent
  <2> QED BY <2>1, <2>2, <2>3, <2>4, PutsTypes
<1>3. CASE AgentRaises
  <2>1. /\ prod.at = "execute" /\ failed' = TRUE
        /\ UNCHANGED <<row, locked, events, ended, cons, unsaved, canc, answered>>
        /\ \/ current # 0 /\ MarksFailed(heap, current, current)
           \/ /\ current = 0
              /\ prod' = [prod EXCEPT !.at = "failLook"]
              /\ Get("producer")
              /\ UNCHANGED <<tasks, flags, agentQ>>
    BY <1>3 DEF AgentRaises
  <2>2. AgentOK'
    BY <1>0, <2>1 DEF AgentOK
  <2>3. CASE current # 0 /\ MarksFailed(heap, current, current)
    <3>1. current \in 1..Len(heap) /\ Len(heap) >= Len(heap)
      BY <1>0, <2>3
    <3> QED BY <1>0, <2>1, <2>2, <2>3, <3>1, MarksFailedTypes
  <2>4. CASE prod' = [prod EXCEPT !.at = "failLook"] /\ Get("producer") /\ UNCHANGED <<tasks, flags, agentQ>>
    <3>1. PICK n \in 1..MaxRequests : n = prod.no
      BY <1>0, <2>1
    <3>2. prod' = [prod EXCEPT !.at = "failLook", !.no = n]
      <4>1. prod \in [at : ProducerAts, no : 0..MaxRequests, hand : Nat]
        BY ProducerFacts
      <4> QED BY <2>4, <3>1, <4>1
    <3> QED BY <2>1, <2>2, <2>4, <3>2, SeeksTypes
  <2> QED BY <2>1, <2>3, <2>4
<1>4. CASE ProducerSeesShutdown
  <2>1. /\ prod.at \in {"execute", "wait"} /\ ProducerStops
        /\ UNCHANGED <<row, access, clean, heap, current, created, finished, queue, locked, events, ended, failed, cons, unsaved, canc, answered>>
    BY <1>4 DEF ProducerSeesShutdown, accesses, tasks, flags, agent
  <2>2. /\ prod'.at = "over" /\ prod'.hand = prod.hand /\ prod'.no = prod.no
        /\ prod' \in [at : ProducerAts, no : 0..MaxRequests, hand : Nat] /\ open' = FALSE
    BY <2>1, StopsProducer
  <2>3. StoreOK' /\ AgentOK'
    BY <1>0, <2>1 DEF StoreOK, AgentOK
  <2>4. TasksOK'
    BY <1>0, <2>1, <2>2 DEF TasksOK
  <2>5. QueueOK'
    BY <2>1, QueueSame
  <2>6. prod'.hand <= Len(heap') /\ Len(heap') >= Len(heap)
    BY <1>0, <2>1, <2>2
  <2> QED BY <1>0, <2>1, <2>2, <2>3, <2>4, <2>5, <2>6, ProducerAt
<1> QED BY <1>1, <1>2, <1>3, <1>4

\* The agent raises, and what the producer does about it.
LEMMA ProducerFailsTypes ==
    ASSUME TypeInv, ProducerEnsured \/ ProducerInserted \/ ProducerFailed \/ ProducerSaveRaises
    PROVE  TypeInv'
<1>0. /\ StoreOK /\ AgentOK /\ TasksOK /\ Len(heap) \in Nat /\ heap \in Seq(Task) /\ current \in 0..Len(heap) /\ "producer" \in Writers
      /\ prod.no \in 0..MaxRequests /\ MaxRequests \in Nat /\ access \in [Writers -> AtStore]
      /\ prod.hand <= Len(heap) /\ prod.hand \in Nat
      /\ prod.at \in {"failInsert", "failSave"} => prod.hand \in 1..Len(heap)
      /\ prod.at \notin {"wait", "over"} => prod.no >= 1
  BY ProducerFacts
<1>1. CASE ProducerEnsured
  <2>1. /\ prod.at = "failLook" /\ UNCHANGED <<row, agent, cons, unsaved, canc, answered>>
        /\ \/ /\ Found("producer") # NoTask
              /\ MarksFailed(Append(heap, Found("producer")), current, Len(Append(heap, Found("producer"))))
           \/ /\ heap' = Append(heap, NewTask)
              /\ Save("producer", NewTask)
              /\ prod' = [prod EXCEPT !.at = "failInsert", !.hand = Len(heap')]
              /\ UNCHANGED <<current, flags, agentQ>>
    BY <1>1 DEF ProducerEnsured
  <2>2. AgentOK'
    BY <1>0, <2>1 DEF AgentOK, agent
  <2>3. CASE /\ Found("producer") # NoTask
              /\ MarksFailed(Append(heap, Found("producer")), current, Len(Append(heap, Found("producer"))))
    <3>1. PICK h : h = Append(heap, Found("producer"))
      OBVIOUS
    <3>2. h \in Seq(Task) /\ Len(h) = Len(heap) + 1
      BY <1>0, <2>3, <3>1, FoundFacts
    <3>3. PICK c \in 0..Len(h), o \in 1..Len(h) : c = current /\ o = Len(h)
      BY <1>0, <3>2
    <3>4. MarksFailed(h, c, o)
      BY <2>3, <3>1, <3>3
    <3> QED BY <1>0, <2>1, <2>2, <3>2, <3>4, MarksFailedTypes
  <2>4. CASE /\ heap' = Append(heap, NewTask)
              /\ Save("producer", NewTask)
              /\ prod' = [prod EXCEPT !.at = "failInsert", !.hand = Len(heap')]
              /\ UNCHANGED <<current, flags, agentQ>>
    <3>1. PICK t \in Task : t = NewTask
      BY NewTasks, ManagerAssumption
    <3>2. heap' \in Seq(Task) /\ Len(heap') = Len(heap) + 1
      BY <1>0, <2>4, <3>1, Extends
    <3>3. PICK o \in 1..Len(heap') : o = Len(heap')
      BY <1>0, <3>2
    <3>4. Save("producer", t) /\ prod' = [prod EXCEPT !.at = "failInsert", !.hand = o]
      BY <2>4, <3>1, <3>3
    <3>5. current' \in 0..Len(heap') /\ Len(heap') >= Len(heap)
      BY <1>0, <2>4, <3>2
    <3> QED BY <1>0, <2>1, <2>2, <2>4, <3>2, <3>4, <3>5, HoldsTypes
  <2> QED BY <2>1, <2>3, <2>4
<1>2. CASE ProducerInserted
  <2>1. /\ prod.at = "failInsert" /\ UNCHANGED <<row, agent, cons, unsaved, canc, answered>>
        /\ MarksFailed(heap, prod.hand, prod.hand)
    BY <1>2 DEF ProducerInserted
  <2>2. AgentOK'
    BY <1>0, <2>1 DEF AgentOK, agent
  <2>3. PICK o \in 1..Len(heap) : o = prod.hand
    BY <1>0, <2>1
  <2>4. MarksFailed(heap, o, o) /\ o \in 0..Len(heap) /\ Len(heap) >= Len(heap)
    BY <1>0, <2>1, <2>3
  <2> QED BY <1>0, <2>1, <2>2, <2>4, MarksFailedTypes
<1>3. CASE ProducerFailed
  <2>1. /\ prod.at = "failSave" /\ current' = prod.hand /\ Done("producer") /\ Reports
        /\ UNCHANGED <<row, heap, locked, events, ended, failed, cons, unsaved, canc, answered>>
    BY <1>3 DEF ProducerFailed, agent
  <2>2. /\ access' \in [Writers -> AtStore] /\ access'["producer"] = NoAccess
        /\ \A v \in Writers \ {"producer"} : access'[v] = access[v]
        /\ clean' = clean
    BY <1>0, <2>1, AccessOps
  <2>3. StoreOK' /\ access'["producer"].at = "none" /\ AgentOK'
    BY <1>0, <2>1, <2>2 DEF StoreOK, NoAccess, AgentOK
  <2>4. Len(heap') >= Len(heap) /\ heap' \in Seq(Task) /\ current' \in 0..Len(heap')
    BY <1>0, <2>1
  <2> QED BY <2>1, <2>2, <2>3, <2>4, ReportsTypes
<1>4. CASE ProducerSaveRaises
  <2>1. /\ ProducerStops /\ Done("producer")
        /\ UNCHANGED <<row, heap, current, created, finished, queue, locked, events, ended, failed, cons, unsaved, canc, answered>>
    BY <1>4 DEF ProducerSaveRaises, tasks, flags, agent
  <2>2. /\ prod'.at = "over" /\ prod'.hand = prod.hand /\ prod'.no = prod.no
        /\ prod' \in [at : ProducerAts, no : 0..MaxRequests, hand : Nat] /\ open' = FALSE
    BY <2>1, StopsProducer
  <2>3. /\ access' \in [Writers -> AtStore] /\ access'["producer"] = NoAccess
        /\ \A v \in Writers \ {"producer"} : access'[v] = access[v]
        /\ clean' = clean
    BY <1>0, <2>1, AccessOps
  <2>4. StoreOK' /\ access'["producer"].at = "none" /\ AgentOK'
    BY <1>0, <2>1, <2>3 DEF StoreOK, NoAccess, AgentOK
  <2>5. TasksOK'
    BY <1>0, <2>1, <2>2 DEF TasksOK
  <2>6. QueueOK'
    BY <2>1, QueueSame
  <2>7. prod'.hand <= Len(heap') /\ Len(heap') >= Len(heap)
    BY <1>0, <2>1, <2>2
  <2> QED BY <1>0, <2>1, <2>2, <2>3, <2>4, <2>5, <2>6, <2>7, ProducerAt
<1> QED BY <1>1, <1>2, <1>3, <1>4

CancelRecords == [at : CancelAts, hand : Nat]

\* What is known of cancel().
LEMMA CancelFacts ==
    ASSUME TypeInv
    PROVE  /\ canc \in CancelRecords /\ canc.hand <= Len(heap) /\ canc.hand \in Nat
           /\ canc.at = "save" => canc.hand \in 1..Len(heap)
           /\ canc.at \in {"idle", "agent", "wait", "returned", "raised"} => access["cancel"].at = "none"
           /\ access["cancel"] \in AtStore /\ "cancel" \in Writers
           /\ access["cancel"].at = "selected" => Found("cancel") \in Task
           /\ canc.at # "idle" => row \in Task
           /\ heap \in Seq(Task) /\ Len(heap) \in Nat /\ current \in 0..Len(heap)
           /\ access \in [Writers -> AtStore] /\ StoreOK /\ AgentOK /\ TasksOK /\ QueueOK
<1>1. /\ heap \in Seq(Task) /\ Len(heap) \in Nat /\ current \in 0..Len(heap)
      /\ access["cancel"] \in AtStore /\ "cancel" \in Writers
      /\ access \in [Writers -> AtStore] /\ StoreOK /\ AgentOK /\ TasksOK /\ QueueOK
  BY DEF TypeInv, TasksOK, StoreOK, Writers
<1>2. access["cancel"].at \in {"none"} \cup Selecting \cup Saving
  BY <1>1 DEF AtStore
<1>3. CancelOK
  BY DEF TypeInv
<1>4. /\ canc \in CancelRecords /\ canc.hand <= Len(heap) /\ canc.hand \in Nat
      /\ canc.at = "save" => canc.hand >= 1
      /\ canc.at # "idle" => row \in Task
      /\ access["cancel"].at = "selected" => Found("cancel") \in Task
  BY <1>3 DEF CancelOK, CancelAts, CancelRecords, Found
<1>5. canc.at \in {"idle", "agent", "wait", "returned", "raised"} => access["cancel"].at = "none"
  BY <1>2, <1>3 DEF CancelOK
<1>6. canc.at = "save" => canc.hand \in 1..Len(heap)
  BY <1>1, <1>4
<1> QED BY <1>1, <1>4, <1>5, <1>6

\* Where cancel() goes.
LEMMA CancelAt ==
    ASSUME TypeInv, StoreOK', TasksOK', UNCHANGED <<row, cons, prod, queue, agent, answered>>, Len(heap') >= Len(heap),
           \A v \in Writers \ {"cancel"} : access'[v] = access[v], row \in Task,
           canc' \in CancelRecords, canc'.hand <= Len(heap'),
           canc'.at = "save" =>
                canc'.hand >= 1 /\ access'["cancel"].at = "begun" /\ access'["cancel"].copy \in Task,
           canc'.at \in {"look", "failLook", "lookAgain"} => access'["cancel"].at = "select",
           canc'.at \in {"idle", "agent", "wait", "returned", "raised"} => access'["cancel"].at = "none"
    PROVE  TypeInv'
<1>1. access'["consumer"] = access["consumer"] /\ access'["producer"] = access["producer"]
  BY DEF Writers
<1>2. AgentOK'
  BY CancelFacts DEF AgentOK, agent
<1>3. QueueOK' /\ (Started => Started')
  BY QueueSame
<1>4. ConsumerOK' /\ ProducerOK'
  BY <1>1, <1>2, <1>3, OthersTypes
<1>5. CancelOK'
  BY DEF CancelOK, CancelRecords, CancelAts, Selecting, Saving
<1> QED BY <1>2, <1>3, <1>4, <1>5 DEF TypeInv

\* cancel() closes the task.
LEMMA ClosesTypes ==
    ASSUME TypeInv, UNCHANGED <<row, flags, agentQ, agent, prod, cons, unsaved, answered>>, row \in Task,
           NEW h \in Seq(Task), Len(h) >= Len(heap), NEW c \in 1..Len(h), Closes(h, c)
    PROVE  TypeInv'
<1>1. /\ Len(heap) \in Nat /\ access \in [Writers -> AtStore] /\ StoreOK /\ TasksOK /\ "cancel" \in Writers
      /\ canc \in CancelRecords /\ canc.hand \in Nat /\ canc.hand <= Len(heap) /\ Len(h) \in Nat
  BY CancelFacts
<1>2. UNCHANGED <<created, finished, open, queue, unsaved>>
  BY DEF flags, agentQ
<1>3. CASE h[c].state \in Terminal
  <2>1. heap' = h /\ current' = c /\ canc' = [canc EXCEPT !.at = "returned"] /\ Done("cancel")
    BY <1>3 DEF Closes
  <2>2. /\ access' \in [Writers -> AtStore] /\ access'["cancel"] = NoAccess
        /\ \A v \in Writers \ {"cancel"} : access'[v] = access[v]
        /\ clean' = clean
    BY <1>1, <2>1, AccessOps
  <2>3. StoreOK' /\ access'["cancel"].at = "none"
    BY <1>1, <2>2 DEF StoreOK, NoAccess
  <2>4. TasksOK' /\ Len(heap') >= Len(heap)
    BY <1>1, <1>2, <2>1 DEF TasksOK
  <2>5. canc' \in CancelRecords /\ canc'.at = "returned" /\ canc'.hand = canc.hand
    BY <1>1, <2>1 DEF CancelRecords, CancelAts
  <2>6. canc'.hand <= Len(heap')
    BY <1>1, <2>1, <2>5
  <2> QED BY <1>1, <1>2, <2>2, <2>3, <2>4, <2>5, <2>6, CancelAt
<1>4. CASE h[c].state \notin Terminal
  <2>1. PICK t : t = [h[c] EXCEPT !.state = "canceled"]
    OBVIOUS
  <2>2. t \in Task
    <3>1. h[c] \in Task /\ "canceled" \in States
      BY ElementOfSeq DEF States, Terminal
    <3> QED BY <2>1, <3>1, TaskOps
  <2>3. /\ heap' = Append(h, t) /\ current' = c
        /\ canc' = [at |-> "save", hand |-> Len(heap')]
        /\ Save("cancel", heap'[Len(heap')])
    BY <1>4, <2>1 DEF Closes
  <2>4. heap' \in Seq(Task) /\ Len(heap') = Len(h) + 1 /\ heap'[Len(heap')] = t
    BY <2>2, <2>3, Extends
  <2>5. Save("cancel", t)
    BY <2>3, <2>4
  <2>6. /\ access' \in [Writers -> AtStore] /\ access'["cancel"].at = "begun" /\ access'["cancel"].copy = t
        /\ \A v \in Writers \ {"cancel"} : access'[v] = access[v]
        /\ clean' = (clean /\ \A v \in Writers \ {"cancel"} : access[v].at = "none")
    BY <1>1, <2>2, <2>5, AccessOps
  <2>7. StoreOK'
    BY <1>1, <2>6 DEF StoreOK
  <2>8. TasksOK' /\ Len(heap') >= Len(heap)
    BY <1>1, <1>2, <2>3, <2>4 DEF TasksOK
  <2>9. canc' \in CancelRecords /\ canc'.at = "save" /\ canc'.hand = Len(heap') /\ canc'.hand >= 1 /\ canc'.hand <= Len(heap')
    BY <1>1, <2>3, <2>4 DEF CancelRecords, CancelAts
  <2> QED BY <1>1, <1>2, <2>2, <2>6, <2>7, <2>8, <2>9, CancelAt
<1> QED BY <1>3, <1>4

\* cancel() interrupts the producer.
LEMMA Interrupted ==
    ASSUME TypeInv, NEW a \in [Writers -> AtStore], a["producer"] = access["producer"], Interrupts(a)
    PROVE  /\ prod'.at = "over" /\ prod'.hand = prod.hand /\ prod'.no = prod.no
           /\ prod' \in [at : ProducerAts, no : 0..MaxRequests, hand : Nat]
           /\ access' \in [Writers -> AtStore] /\ access'["producer"].at = "none"
           /\ \A v \in Writers \ {"producer"} : access'[v] = a[v]
           /\ clean' \in BOOLEAN /\ open' \in BOOLEAN /\ (~open => ~open')
           /\ clean' => clean /\ access["producer"].at \notin {"begun", "loaded"}
<1>1. /\ prod \in [at : ProducerAts, no : 0..MaxRequests, hand : Nat] /\ "producer" \in Writers
      /\ prod.at = "over" => access["producer"].at = "none"
      /\ clean \in BOOLEAN /\ open \in BOOLEAN
  BY ProducerFacts DEF StoreOK, TasksOK
<1>2. NoAccess \in AtStore /\ NoAccess.at = "none"
  BY DEF NoAccess, AtStore
<1>3. CASE prod.at = "over" /\ access' = a /\ UNCHANGED <<clean, prod, open>>
  BY <1>1, <1>3
<1>4. CASE /\ access' = [a EXCEPT !["producer"] = NoAccess]
           /\ clean' = (clean /\ access["producer"].at \notin {"begun", "loaded"})
           /\ ProducerStops
  <2>1. access' \in [Writers -> AtStore] /\ access'["producer"] = NoAccess
        /\ \A v \in Writers \ {"producer"} : access'[v] = a[v]
    BY <1>1, <1>2, <1>4
  <2> QED BY <1>1, <1>2, <1>4, <2>1, StopsProducer
<1> QED BY <1>3, <1>4 DEF Interrupts

\* The producer is interrupted, and cancel() waits for the consumer or is over.
LEMMA InterruptTypes ==
    ASSUME TypeInv, NEW at \in {"wait", "raised"}, canc' = [canc EXCEPT !.at = at], row \in Task,
           NEW a \in [Writers -> AtStore], a["cancel"].at = "none",
           \A v \in Writers \ {"cancel"} : a[v] = access[v], Interrupts(a),
           heap' \in Seq(Task), Len(heap') >= Len(heap), current' \in 0..Len(heap'), QueueOK',
           UNCHANGED <<row, flags, agent, cons, unsaved, answered>>
    PROVE  TypeInv'
<1>1. /\ canc \in CancelRecords /\ canc.hand <= Len(heap) /\ canc.hand \in Nat /\ Len(heap) \in Nat
      /\ StoreOK /\ AgentOK /\ TasksOK /\ Len(heap') \in Nat /\ prod.hand \in Nat /\ prod.hand <= Len(heap)
  BY CancelFacts, ProducerFacts
<1>2. /\ prod'.at = "over" /\ prod'.hand = prod.hand /\ prod'.no = prod.no
      /\ prod' \in [at : ProducerAts, no : 0..MaxRequests, hand : Nat]
      /\ access' \in [Writers -> AtStore] /\ access'["producer"].at = "none"
      /\ \A v \in Writers \ {"producer"} : access'[v] = a[v]
      /\ clean' \in BOOLEAN /\ open' \in BOOLEAN
  <2>1. a["producer"] = access["producer"]
    BY DEF Writers
  <2> QED BY <2>1, Interrupted
<1>3. access'["consumer"] = access["consumer"] /\ access'["cancel"].at = "none"
  BY <1>2 DEF Writers
<1>4. StoreOK' /\ AgentOK' /\ TasksOK'
  BY <1>1, <1>2 DEF StoreOK, AgentOK, TasksOK, agent, flags
<1>5. ConsumerOK'
  BY <1>3, <1>4, OthersTypes
<1>6. ProducerOK'
  BY <1>1, <1>2 DEF ProducerOK, ProducerAts, Selecting, Saving
<1>7. canc'.at = at /\ canc'.hand = canc.hand /\ canc' \in CancelRecords
  BY <1>1 DEF CancelRecords, CancelAts
<1>8. CancelOK'
  BY <1>1, <1>3, <1>7 DEF CancelOK, CancelRecords, CancelAts, Selecting, Saving
<1> QED BY <1>4, <1>5, <1>6, <1>8 DEF TypeInv

\* cancel() announces the failure of executor.cancel().
LEMMA RaisesTypes ==
    ASSUME TypeInv, NEW there \in BOOLEAN, row \in Task,
           NEW a \in [Writers -> AtStore], a["cancel"].at = "none",
           \A v \in Writers \ {"cancel"} : a[v] = access[v], Raises(there, a),
           heap' \in Seq(Task), Len(heap') >= Len(heap), current' \in 0..Len(heap'),
           UNCHANGED <<row, flags, agent, cons, unsaved, answered>>
    PROVE  TypeInv'
<1>1. /\ canc' = [canc EXCEPT !.at = "raised"] /\ Interrupts(a)
      /\ queue' = IF there /\ open THEN Append(queue, Item("unable", 0)) ELSE queue
  BY DEF Raises
<1>2. PICK e \in Event : e = Item("unable", 0) /\ e.kind = "unable" /\ e.no = 0
  <2>1. Item("unable", 0) \in Event /\ Item("unable", 0).kind = "unable" /\ Item("unable", 0).no = 0
    BY ItemIs
  <2> QED BY <2>1
<1>3. 0 \in 0..MaxEvents
  BY ManagerAssumption
<1>4. QueueOK'
  <2>1. CASE queue' = Append(queue, e)
    BY <1>2, <1>3, <2>1, QueuePuts
  <2>2. CASE queue' = queue
    BY <2>2, QueueSame
  <2> QED BY <1>1, <1>2, <2>1, <2>2
<1> QED BY <1>1, <1>4, InterruptTypes

\* The steps of cancel().
LEMMA CancelTypes ==
    ASSUME TypeInv,
           \/ CancelBegins \/ CancelGot \/ CancelStopsProducer \/ CancelFails \/ CancelGotFailing
           \/ CancelCloses \/ CancelGotAgain \/ CancelSaved
    PROVE  TypeInv'
<1>0. /\ canc \in CancelRecords /\ canc.hand <= Len(heap) /\ canc.hand \in Nat
      /\ canc.at = "save" => canc.hand \in 1..Len(heap)
      /\ canc.at \in {"idle", "agent", "wait", "returned", "raised"} => access["cancel"].at = "none"
      /\ "cancel" \in Writers
      /\ access["cancel"].at = "selected" => Found("cancel") \in Task
      /\ canc.at # "idle" => row \in Task
      /\ heap \in Seq(Task) /\ Len(heap) \in Nat /\ current \in 0..Len(heap)
      /\ access \in [Writers -> AtStore] /\ StoreOK /\ AgentOK /\ TasksOK /\ QueueOK
  BY CancelFacts
<1>1. ASSUME NEW at \in {"look", "failLook", "lookAgain"}, canc' = [canc EXCEPT !.at = at], Get("cancel"), row \in Task,
             UNCHANGED <<row, tasks, flags, agentQ, agent, prod, cons, unsaved, answered>>
      PROVE  TypeInv'
  <2>1. /\ access' \in [Writers -> AtStore] /\ access'["cancel"].at = "select"
        /\ \A v \in Writers \ {"cancel"} : access'[v] = access[v]
        /\ clean' = (clean /\ \A v \in Writers \ {"cancel"} : access[v].at = "none")
    <3>1. access'["cancel"] = [at |-> "select", copy |-> NoTask, seen |-> NoTask]
      BY <1>0, <1>1, AccessOps
    <3> QED BY <1>0, <1>1, <3>1, AccessOps
  <2>2. StoreOK'
    BY <1>0, <1>1, <2>1 DEF StoreOK
  <2>3. TasksOK' /\ Len(heap') >= Len(heap) /\ UNCHANGED queue /\ heap' = heap
    BY <1>0, <1>1 DEF TasksOK, tasks, flags, agentQ
  <2>4. canc' \in CancelRecords /\ canc'.at = at /\ canc'.hand = canc.hand
    BY <1>0, <1>1 DEF CancelRecords, CancelAts
  <2> QED BY <1>0, <1>1, <2>1, <2>2, <2>3, <2>4, CancelAt
\* Steps after which the writer waits for something else than the store.
<1>2. ASSUME NEW at \in {"agent", "wait", "returned"}, canc' = [canc EXCEPT !.at = at], row \in Task,
             StoreOK', access'["cancel"].at = "none", \A v \in Writers \ {"cancel"} : access'[v] = access[v],
             heap' \in Seq(Task), Len(heap') >= Len(heap), current' \in 0..Len(heap'),
             UNCHANGED <<row, flags, agentQ, agent, prod, cons, unsaved, answered>>
      PROVE  TypeInv'
  <2>3. TasksOK' /\ UNCHANGED queue
    BY <1>0, <1>2 DEF TasksOK, flags, agentQ
  <2>4. canc' \in CancelRecords /\ canc'.at = at /\ canc'.hand = canc.hand
    BY <1>0, <1>2 DEF CancelRecords, CancelAts
  <2>5. canc'.hand <= Len(heap')
    <3>1. Len(heap') \in Nat
      BY <1>2
    <3> QED BY <1>0, <1>2, <2>4, <3>1
  <2> QED BY <1>0, <1>2, <2>3, <2>4, <2>5, CancelAt
<1>3. CASE CancelBegins
  <2>1. /\ canc.at = "idle" /\ row # NoTask
        /\ \/ Asks /\ UNCHANGED accesses
           \/ canc' = [canc EXCEPT !.at = "look"] /\ Get("cancel")
        /\ UNCHANGED <<row, tasks, flags, agentQ, agent, prod, cons, unsaved, answered>>
    BY <1>3 DEF CancelBegins
  <2>2. row \in Task
    BY <1>0, <2>1 DEF StoreOK
  <2>3. CASE Asks /\ UNCHANGED accesses
    <3>1. PICK at \in {"agent", "wait"} : canc' = [canc EXCEPT !.at = at]
      <4>1. (canc' = [canc EXCEPT !.at = "wait"]) \/ (canc' = [canc EXCEPT !.at = "agent"])
        BY <2>3 DEF Asks
      <4> QED BY <4>1
    <3>2. UNCHANGED <<access, clean, heap, current>>
      BY <2>1, <2>3 DEF accesses, tasks
    <3>3. StoreOK'
      BY <1>0, <2>1, <3>2 DEF StoreOK
    <3> QED BY <1>0, <1>2, <2>1, <2>2, <3>1, <3>2, <3>3
  <2>4. CASE canc' = [canc EXCEPT !.at = "look"] /\ Get("cancel")
    BY <1>1, <2>1, <2>2, <2>4
  <2> QED BY <2>1, <2>3, <2>4
<1>4. CASE CancelGot
  <2>1. /\ canc.at = "look" /\ Returned("cancel") /\ Asks /\ Done("cancel")
        /\ heap' = Append(heap, Found("cancel")) /\ current' = Len(heap')
        /\ UNCHANGED <<row, flags, agentQ, agent, prod, cons, unsaved, answered>>
    BY <1>4 DEF CancelGot
  <2>2. Found("cancel") \in Task
    <3>1. access["cancel"].at = "selected"
      BY <2>1 DEF TypeInv, CancelOK, Returned, Selecting
    <3> QED BY <1>0, <3>1
  <2>3. PICK at \in {"agent", "wait"} : canc' = [canc EXCEPT !.at = at]
    <3>1. (canc' = [canc EXCEPT !.at = "wait"]) \/ (canc' = [canc EXCEPT !.at = "agent"])
      BY <2>1 DEF Asks
    <3> QED BY <3>1
  <2>4. /\ access' \in [Writers -> AtStore] /\ access'["cancel"] = NoAccess
        /\ \A v \in Writers \ {"cancel"} : access'[v] = access[v]
        /\ clean' = clean
    BY <1>0, <2>1, AccessOps
  <2>5. StoreOK' /\ access'["cancel"].at = "none"
    BY <1>0, <2>1, <2>4 DEF StoreOK, NoAccess
  <2>6. PICK f \in Task : f = Found("cancel")
    BY <2>2
  <2>7. heap' \in Seq(Task) /\ Len(heap') = Len(heap) + 1
    BY <1>0, <2>1, <2>6, Extends
  <2>8. current' \in 0..Len(heap') /\ Len(heap') >= Len(heap) /\ row \in Task
    BY <1>0, <2>1, <2>7
  <2> QED BY <1>2, <2>1, <2>3, <2>4, <2>5, <2>7, <2>8
<1>5. CASE CancelStopsProducer
  <2>1. /\ canc.at = "agent" /\ canc' = [canc EXCEPT !.at = "wait"] /\ Interrupts(access)
        /\ UNCHANGED <<row, heap, current, flags, queue, agent, cons, unsaved, answered>>
    BY <1>5 DEF CancelStopsProducer, tasks
  <2>2. QueueOK'
    BY <2>1, QueueSame
  <2>3. current' \in 0..Len(heap') /\ heap' \in Seq(Task) /\ Len(heap') >= Len(heap)
    BY <1>0, <2>1
  <2> QED BY <1>0, <2>1, <2>2, <2>3, InterruptTypes
<1>9. CASE CancelFails
  <2>1. /\ canc.at = "agent"
        /\ \/ Raises(created, access)
           \/ canc' = [canc EXCEPT !.at = "failLook"] /\ Get("cancel") /\ UNCHANGED <<queue, open, prod>>
        /\ UNCHANGED <<row, heap, current, flags, agent, cons, unsaved, answered>>
    BY <1>9 DEF CancelFails, tasks
  <2>2. CASE Raises(created, access)
    <3>1. created \in BOOLEAN
      BY <1>0 DEF TasksOK
    <3>2. current' \in 0..Len(heap') /\ heap' \in Seq(Task) /\ Len(heap') >= Len(heap)
      BY <1>0, <2>1
    <3> QED BY <1>0, <2>1, <2>2, <3>1, <3>2, RaisesTypes
  <2>3. CASE canc' = [canc EXCEPT !.at = "failLook"] /\ Get("cancel") /\ UNCHANGED <<queue, open, prod>>
    <3>1. UNCHANGED tasks /\ UNCHANGED agentQ
      BY <2>1, <2>3 DEF tasks, agentQ
    <3> QED BY <1>0, <1>1, <2>1, <2>3, <3>1
  <2> QED BY <2>1, <2>2, <2>3
<1>10. CASE CancelGotFailing
  <2>1. /\ canc.at = "failLook" /\ Returned("cancel")
        /\ heap' = Append(heap, Found("cancel")) /\ current' = Len(heap')
        /\ Raises(TRUE, [access EXCEPT !["cancel"] = NoAccess])
        /\ UNCHANGED <<row, flags, agent, cons, unsaved, answered>>
    BY <1>10 DEF CancelGotFailing
  <2>2. PICK f \in Task : f = Found("cancel")
    <3>1. access["cancel"].at = "selected"
      BY <2>1 DEF TypeInv, CancelOK, Returned, Selecting
    <3> QED BY <1>0, <3>1
  <2>3. heap' \in Seq(Task) /\ Len(heap') = Len(heap) + 1
    BY <1>0, <2>1, <2>2, Extends
  <2>4. PICK a \in [Writers -> AtStore] :
          /\ a = [access EXCEPT !["cancel"] = NoAccess] /\ a["cancel"].at = "none"
          /\ \A v \in Writers \ {"cancel"} : a[v] = access[v]
    BY <1>0 DEF NoAccess, AtStore
  <2>5. current' \in 0..Len(heap') /\ Len(heap') >= Len(heap)
    BY <1>0, <2>1, <2>3
  <2> QED BY <1>0, <2>1, <2>3, <2>4, <2>5, RaisesTypes
<1>6. CASE CancelCloses
  <2>1. /\ canc.at = "wait" /\ UNCHANGED <<row, flags, agentQ, agent, prod, cons, unsaved, answered>>
        /\ \/ current # 0 /\ Closes(heap, current)
           \/ canc' = [canc EXCEPT !.at = "lookAgain"] /\ Get("cancel") /\ UNCHANGED tasks
    BY <1>6 DEF CancelCloses
  <2>2. row \in Task /\ (current # 0 => current \in 1..Len(heap)) /\ Len(heap) >= Len(heap)
    BY <1>0, <2>1
  <2> QED BY <1>0, <1>1, <2>1, <2>2, ClosesTypes
<1>7. CASE CancelGotAgain
  <2>1. /\ canc.at = "lookAgain" /\ Returned("cancel") /\ UNCHANGED <<row, flags, agentQ, agent, prod, cons, unsaved, answered>>
        /\ Closes(Append(heap, Found("cancel")), Len(Append(heap, Found("cancel"))))
    BY <1>7 DEF CancelGotAgain
  <2>2. Found("cancel") \in Task
    <3>1. access["cancel"].at = "selected"
      BY <2>1 DEF TypeInv, CancelOK, Returned, Selecting
    <3> QED BY <1>0, <3>1
  <2>3. PICK f, h : f \in Task /\ f = Found("cancel") /\ h = Append(heap, f)
    BY <2>2
  <2>4. h \in Seq(Task) /\ Len(h) = Len(heap) + 1
    BY <1>0, <2>3, Extends
  <2>5. PICK c \in 1..Len(h) : c = Len(h)
    BY <1>0, <2>4
  <2>6. Closes(h, c) /\ row \in Task /\ Len(h) >= Len(heap)
    BY <1>0, <2>1, <2>3, <2>4, <2>5
  <2> QED BY <2>1, <2>4, <2>6, ClosesTypes
<1>8. CASE CancelSaved
  <2>1. /\ canc.at = "save" /\ current' = canc.hand /\ canc' = [canc EXCEPT !.at = "returned"] /\ Done("cancel")
        /\ heap' = heap /\ UNCHANGED <<row, flags, agentQ, agent, prod, cons, unsaved, answered>>
    BY <1>8 DEF CancelSaved
  <2>2. /\ access' \in [Writers -> AtStore] /\ access'["cancel"] = NoAccess
        /\ \A v \in Writers \ {"cancel"} : access'[v] = access[v]
        /\ clean' = clean
    BY <1>0, <2>1, AccessOps
  <2>3. StoreOK' /\ access'["cancel"].at = "none"
    BY <1>0, <2>1, <2>2 DEF StoreOK, NoAccess
  <2>4. current' \in 0..Len(heap') /\ Len(heap') >= Len(heap) /\ row \in Task /\ heap' \in Seq(Task)
    BY <1>0, <2>1
  <2> QED BY <1>2, <2>1, <2>2, <2>3, <2>4
<1> QED BY <1>3, <1>4, <1>5, <1>6, <1>7, <1>8, <1>9, <1>10

\* The statements at the store.
LEMMA StatementTypes ==
    ASSUME TypeInv, NEW w \in Writers, Read(w) \/ Commit(w)
    PROVE  TypeInv'
<1>0. /\ StoreOK /\ access \in [Writers -> AtStore] /\ row \in Task \cup {NoTask} /\ clean \in BOOLEAN
      /\ Len(heap) \in Nat /\ heap \in Seq(Task) /\ Len(heap) >= Len(heap)
  BY CancelFacts DEF StoreOK
<1>1. /\ UNCHANGED <<clean, heap, current, created, finished, queue, open, locked, events, ended, failed, prod, cons, unsaved, canc, answered>>
  BY DEF Read, Commit, tasks, flags, agentQ, agent
<1>2. /\ row' \in Task \cup {NoTask} /\ (row \in Task => row' \in Task)
      /\ access' \in [Writers -> AtStore] /\ \A v \in Writers \ {w} : access'[v] = access[v]
      /\ access'[w].copy = access[w].copy
      /\ \/ access[w].at = "select" /\ access'[w].at = "selected" /\ access'[w].seen = row
         \/ access[w].at = "begun" /\ access'[w].at = "loaded"
         \/ access[w].at = "loaded" /\ access'[w].at \in {"committed", "conflict"}
  <2>0. PICK a \in AtStore : a = access[w]
    BY <1>0
  <2>1. CASE Read(w)
    <3>1. /\ access[w].at \in {"select", "begun"} /\ row' = row
          /\ access' = [access EXCEPT ![w].seen = row,
                  ![w].at = IF access[w].at = "select" THEN "selected" ELSE "loaded"]
      BY <2>1 DEF Read
    <3>2. PICK b : b = [a EXCEPT !.seen = row, !.at = IF a.at = "select" THEN "selected" ELSE "loaded"]
      OBVIOUS
    <3>3. b \in AtStore /\ b.copy = a.copy /\ b.seen = row
      BY <1>0, <3>2 DEF AtStore, Selecting, Saving
    <3>4. (a.at = "select" /\ b.at = "selected") \/ (a.at = "begun" /\ b.at = "loaded")
      BY <2>0, <3>1, <3>2 DEF AtStore
    <3>5. access' = [access EXCEPT ![w] = b]
      BY <1>0, <2>0, <3>1, <3>2
    <3> QED BY <1>0, <2>0, <3>1, <3>3, <3>4, <3>5
  <2>2. CASE Commit(w)
    <3>1. PICK at \in {"conflict", "committed"} :
             /\ access' = [access EXCEPT ![w].at = at] /\ access[w].at = "loaded"
             /\ row' \in {row, access[w].copy, Merged(access[w].copy, Found(w), row)}
             /\ row' = Merged(access[w].copy, Found(w), row) => row' = row \/ row # NoTask \/ row' = access[w].copy
             /\ row # NoTask => row' \in {row, Merged(access[w].copy, Found(w), row)}
      BY <2>2 DEF Commit
    <3>2. PICK b : b = [a EXCEPT !.at = at]
      OBVIOUS
    <3>3. b \in AtStore /\ b.copy = a.copy /\ b.at = at
      BY <3>2 DEF AtStore, Selecting, Saving
    <3>4. access' = [access EXCEPT ![w] = b]
      BY <1>0, <2>0, <3>1, <3>2
    <3>5. access[w].copy \in Task
      <4>1. access[w].at \in Saving
        BY <3>1 DEF Saving
      <4> QED BY <4>1 DEF TypeInv, ConsumerOK, ProducerOK, CancelOK, Writers
    <3>6. row \in Task => Merged(access[w].copy, Found(w), row) \in Task
      BY <3>5, MergeOps
    <3> QED BY <1>0, <2>0, <3>1, <3>3, <3>4, <3>5, <3>6
  <2> QED BY <2>1, <2>2
<1>3. StoreOK'
  BY <1>0, <1>1, <1>2 DEF StoreOK
<1>4. AgentOK' /\ TasksOK'
  BY <1>1 DEF TypeInv, AgentOK, TasksOK
<1>5. QueueOK' /\ (Started => Started')
  BY <1>1, QueueSame
<1>6. \A v \in Writers : Follows(v)
  BY <1>2 DEF Follows, Selecting, Saving
<1>7. ConsumerOK' /\ ProducerOK'
  BY <1>0, <1>1, <1>5, <1>6, ConsumerFrame, ProducerFrame DEF Writers
<1>8. CancelOK'
  <2>1. CASE w # "cancel"
    BY <1>0, <1>1, <1>2, <2>1, CancelFrame DEF Writers
  <2>2. CASE w = "cancel"
    <3>1. CancelOK /\ Follows("cancel")
      BY <1>6 DEF TypeInv, Writers
    <3>2. access'["cancel"].at = "selected" => access'["cancel"].seen \in Task
      <4>1. access["cancel"].at = "select" => row \in Task
        BY <3>1 DEF CancelOK, Selecting
      <4> QED BY <1>2, <2>2, <4>1
    <3> QED BY <1>1, <1>2, <3>1, <3>2 DEF CancelOK, Follows
  <2> QED BY <2>1, <2>2
<1> QED BY <1>3, <1>4, <1>5, <1>7, <1>8 DEF TypeInv

\* Every step keeps the types.
LEMMA NextTypeInv == TypeInv /\ [Next]_vars => TypeInv'
<1> SUFFICES ASSUME TypeInv, [Next]_vars PROVE TypeInv'
  OBVIOUS
<1>1. ASSUME NEW w \in Writers, Read(w) \/ Commit(w) PROVE TypeInv'
  BY <1>1, StatementTypes
<1>2. CASE ConsumerTakesMarker
  BY <1>2, MarkerTypes
<1>3. CASE ConsumerTakes
  BY <1>3, TakesTypes
<1>4. CASE ConsumerGot
  BY <1>4, GotTypes
<1>5. CASE ConsumerEnsured
  BY <1>5, EnsuredTypes
<1>6. CASE ConsumerInserted \/ ConsumerKept \/ ConsumerApplied \/ ConsumerSaveRaises \/ ConsumerSeesShutdown
  BY <1>6, StoredTypes
<1>7. CASE ProducerTakes
  BY <1>7, ProducerTakesTypes
<1>8. CASE ProducerGot
  BY <1>8, ProducerGotTypes
<1>9. CASE (\E kind \in Kinds : AgentEmits(kind)) \/ AgentReturns \/ AgentRaises \/ ProducerSeesShutdown
  BY <1>9, AgentTypes
<1>10. CASE ProducerEnsured \/ ProducerInserted \/ ProducerFailed \/ ProducerSaveRaises
  BY <1>10, ProducerFailsTypes
<1>11. CASE CancelEmits
  <2>1. /\ events < MaxEvents /\ events' = events + 1 /\ ended' \in 0..events + 1
        /\ "canceled" \in Kinds \cup {"canceled"} /\ "canceled" # "task"
    <3>1. NextEvent(TRUE)
      BY <1>11 DEF CancelEmits
    <3> QED BY <3>1, NextEventIs
  <2>2. /\ queue' = Append(queue, Item("canceled", events'))
        /\ UNCHANGED <<row, accesses, tasks, flags, open, locked, failed, prod, cons, unsaved, canc, answered>>
    BY <1>11 DEF CancelEmits
  <2> QED BY <2>1, <2>2, EmitsTypes
<1>12. CASE \/ CancelBegins \/ CancelGot \/ CancelStopsProducer \/ CancelFails \/ CancelGotFailing
            \/ CancelCloses \/ CancelGotAgain \/ CancelSaved
  BY <1>12, CancelTypes
<1>13. CASE UNCHANGED vars
  <2>1. UNCHANGED <<row, access, clean, heap, current, created, finished, queue, open, locked, events, ended, failed, prod, cons, unsaved, canc, answered>>
    BY <1>13 DEF vars, accesses, tasks, flags, agentQ, agent
  <2>2. StoreOK' /\ AgentOK' /\ TasksOK'
    BY <2>1 DEF TypeInv, StoreOK, AgentOK, TasksOK
  <2>3. QueueOK' /\ (Started => Started')
    BY <2>1, QueueSame
  <2>4. Len(heap') >= Len(heap) /\ \A v \in Writers : access'[v] = access[v]
    BY <2>1 DEF TypeInv, TasksOK
  <2> QED BY <2>1, <2>2, <2>3, <2>4, OthersTypes DEF TypeInv, Writers
<1> QED BY <1>1, <1>2, <1>3, <1>4, <1>5, <1>6, <1>7, <1>8, <1>9, <1>10, <1>11, <1>12, <1>13 DEF Next

\* What start() finds is typed.
LEMMA InitTypeInv == Init => TypeInv
<1> SUFFICES ASSUME Init PROVE TypeInv
  OBVIOUS
<1>1. /\ row \in {NoTask, [NoTask EXCEPT !.state = "submitted"]}
      /\ heap = IF row = NoTask THEN <<>> ELSE <<row>>
      /\ current = Len(heap) /\ created = (row # NoTask) /\ finished = FALSE
      /\ queue = <<>> /\ open = TRUE /\ locked = FALSE
      /\ prod = [at |-> "wait", no |-> 0, hand |-> 0]
      /\ cons = [at |-> "take", for |-> "get", no |-> 0, event |-> Item("end", 0), hand |-> 0]
      /\ unsaved = 0
      /\ canc = [at |-> "idle", hand |-> 0]
      /\ access = [w \in Writers |-> NoAccess]
      /\ events = 0 /\ ended = 0 /\ failed = FALSE
      /\ answered = {} /\ clean = TRUE
  BY DEF Init
<1>2. MaxRequests \in Nat /\ MaxEvents \in Nat /\ 0 \in Messages
  BY ManagerAssumption DEF Messages
<1>3. [NoTask EXCEPT !.state = "submitted"] \in Task
  <2>1. [NoTask EXCEPT !.state = "submitted"] = [state |-> "submitted", note |-> 0, history |-> <<>>, parts |-> <<>>]
    BY DEF NoTask
  <2>2. "submitted" \in States /\ <<>> \in Seq(Messages \ {0}) /\ <<>> \in Seq(Nat)
    BY DEF States
  <2> QED BY <1>2, <2>1, <2>2 DEF Task
<1>4. NoAccess \in AtStore /\ NoAccess.at = "none"
  BY DEF NoAccess, AtStore
<1>5. StoreOK
  BY <1>1, <1>3, <1>4 DEF StoreOK
<1>6. AgentOK
  <2>1. 0 \in 0..MaxEvents /\ ended \in 0..events /\ answered \subseteq 1..MaxRequests
    BY <1>1, <1>2
  <2> QED BY <1>1, <2>1 DEF AgentOK
<1>7. heap \in Seq(Task) /\ Len(heap) \in Nat
  <2>1. CASE row = NoTask
    BY <1>1, <2>1
  <2>2. CASE row # NoTask
    <3>1. PICK t \in Task : heap = <<t>>
      BY <1>1, <1>3, <2>2
    <3>2. <<t>> \in Seq(Task) /\ Len(<<t>>) = 1
      OBVIOUS
    <3> QED BY <3>1, <3>2
  <2> QED BY <2>1, <2>2
<1>8. TasksOK
  <2>1. current \in 0..Len(heap) /\ unsaved \in (-MaxRequests)..0
    BY <1>1, <1>2, <1>7
  <2> QED BY <1>1, <1>7, <2>1 DEF TasksOK
<1>9. QueueOK
  <2>1. queue \in Seq(Event) /\ Len(queue) = 0
    BY <1>1
  <2> QED BY <2>1 DEF QueueOK
<1>10. ConsumerOK
  <2>1. Item("end", 0) \in Event
    BY ItemIs
  <2> QED BY <1>1, <1>2, <1>4, <1>7, <2>1 DEF ConsumerOK, Busy, Storing, Selecting, Saving, Purposes, Writers
<1>11. ProducerOK
  BY <1>1, <1>2, <1>4, <1>7 DEF ProducerOK, Selecting, Saving, Writers
<1>12. CancelOK
  BY <1>1, <1>2, <1>4, <1>7 DEF CancelOK, Selecting, Saving, Writers
<1> QED BY <1>5, <1>6, <1>8, <1>9, <1>10, <1>11, <1>12 DEF TypeInv

\* The inductive invariant of the types.
LEMMA TypeInvHolds == Spec => []TypeInv
  BY InitTypeInv, NextTypeInv, PTL DEF Spec

\* It implies the types.
LEMMA TypeInvMeans == TypeInv => TypeOK
<1> SUFFICES ASSUME TypeInv PROVE TypeOK
  OBVIOUS
<1>1. Len(heap) \in Nat
  BY DEF TypeInv, TasksOK
<1>2. /\ row \in Task \cup {NoTask} /\ heap \in Seq(Task) /\ current \in Places
      /\ created \in BOOLEAN /\ finished \in BOOLEAN /\ queue \in Seq(Event)
      /\ open \in BOOLEAN /\ locked \in BOOLEAN /\ unsaved \in (-MaxRequests)..0
      /\ events \in 0..MaxEvents /\ ended \in 0..events /\ failed \in BOOLEAN
      /\ answered \in SUBSET (1..MaxRequests) /\ clean \in BOOLEAN
  BY DEF TypeInv, StoreOK, AgentOK, TasksOK, QueueOK, Places
<1>3. prod \in [at : {"wait", "look", "execute", "failLook", "failInsert", "failSave", "over"},
                 no : 0..MaxRequests, hand : Places]
  <2>1. prod.hand \in Places
    BY <1>1 DEF TypeInv, ProducerOK, Places
  <2> QED BY <2>1 DEF TypeInv, ProducerOK
<1>4. cons \in [at : {"take", "look", "insert", "keep", "apply", "over"},
                 for : {"get", "ensure", "apply", "fail"},
                 no : 0..MaxRequests, event : Event, hand : Places]
  <2>1. cons.hand \in Places
    BY <1>1 DEF TypeInv, ConsumerOK, Places
  <2> QED BY <2>1 DEF TypeInv, ConsumerOK, Busy, Storing, Purposes
<1>5. canc \in [at : {"idle", "look", "agent", "failLook", "wait", "lookAgain", "save",
                       "returned", "raised"},
                 hand : Places]
  <2>1. canc.hand \in Places
    BY <1>1 DEF TypeInv, CancelOK, Places
  <2> QED BY <2>1 DEF TypeInv, CancelOK
<1>6. access \in [Writers ->
            [at : {"none", "select", "selected", "begun", "loaded", "committed", "conflict"},
             copy : Task \cup {NoTask}, seen : Task \cup {NoTask}]]
  <2>1. {"none"} \cup Selecting \cup Saving = {"none", "select", "selected", "begun", "loaded", "committed", "conflict"}
    BY DEF Selecting, Saving
  <2> QED BY <2>1 DEF TypeInv, StoreOK, AtStore
<1> QED BY <1>2, <1>3, <1>4, <1>5, <1>6 DEF TypeOK

\* Tasks, accesses, the queue and the writers keep their types, for any kinds of events
\* and any number of events and requests; the objects the writers hold are in the heap.
THEOREM TypeCorrect == Spec => []TypeOK
  BY TypeInvHolds, TypeInvMeans, PTL

-----------------------------------------------------------------------------
(* The store                                                               *)

\* A step of the only writer at the store.
LEMMA AloneStore ==
    ASSUME NEW w \in Writers, Alone(w), \A v \in Writers \ {w} : access'[v] = access[v],
           clean' => Own(w)' /\ (access'[w].at = "none" /\ current' # 0 => row' = heap'[current'])
    PROVE  StoreInv'
<1>1. ASSUME clean' PROVE \A v \in Writers \ {w} : access'[v].at = "none"
  BY DEF Alone
<1>2. ASSUME clean', NEW v \in Writers PROVE access'[v].at = "none" \/ Alone(v)'
  BY <1>1, <1>2 DEF Alone
<1>3. ASSUME clean', NEW v \in Writers PROVE Own(v)'
  <2>1. CASE v = w
    BY <1>3, <2>1
  <2>2. CASE v # w
    BY <1>1, <1>3, <2>2 DEF Own, Selecting, Saving
  <2> QED BY <2>1, <2>2
<1>4. ASSUME clean', Quiet', current' # 0 PROVE row' = heap'[current']
  BY <1>4 DEF Quiet
<1> QED BY <1>2, <1>3, <1>4 DEF StoreInv

\* A step that leaves the store, the accesses and what is saved alone.
LEMMA StillStore ==
    ASSUME TypeInv, StoreInv, UNCHANGED <<row, current>>, clean' => clean,
           \A v \in Writers : access'[v] = access[v],
           \A i \in 1..Len(heap) : heap'[i] = heap[i],
           \A v \in Writers : access[v].at \in Saving => Hand(v)' = Hand(v) /\ Hand(v) \in 1..Len(heap)
    PROVE  StoreInv'
<1>1. SUFFICES ASSUME clean' PROVE StoreInv'
  BY DEF StoreInv
<1>2. /\ \A w \in Writers : access[w].at = "none" \/ Alone(w)
      /\ Quiet /\ current # 0 => row = heap[current]
      /\ \A w \in Writers : Own(w)
  BY <1>1 DEF StoreInv
<1>3. current # 0 => current \in 1..Len(heap)
  BY DEF TypeInv, TasksOK
<1>4. \A w \in Writers : access'[w].at = "none" \/ Alone(w)'
  BY <1>2 DEF Alone
<1>5. Quiet' /\ current' # 0 => row' = heap'[current']
  BY <1>2, <1>3 DEF Quiet
<1>6. ASSUME NEW w \in Writers PROVE Own(w)'
  <2>1. Own(w) /\ access'[w] = access[w]
    BY <1>2
  <2>2. access[w].at \in Saving => Hand(w)' = Hand(w) /\ heap'[Hand(w)] = heap[Hand(w)]
    OBVIOUS
  <2> QED BY <2>1, <2>2 DEF Own
<1> QED BY <1>4, <1>5, <1>6 DEF StoreInv

\* Where the writers save, there is something in their hands.
LEMMA HandsAreTasks ==
    ASSUME TypeInv
    PROVE  \A v \in Writers : access[v].at \in Saving => Hand(v) \in 1..Len(heap)
<1>1. access["consumer"].at \in Saving => cons.hand \in 1..Len(heap)
  <2>1. access["consumer"].at \in Saving => cons.at \in Storing
    BY DEF TypeInv, ConsumerOK
  <2> QED BY <2>1, FoundFacts DEF Writers
<1>2. access["producer"].at \in Saving => prod.hand \in 1..Len(heap)
  <2>1. access["producer"].at \in Saving => prod.at \in {"failInsert", "failSave"}
    BY DEF TypeInv, ProducerOK
  <2> QED BY <2>1, ProducerFacts
<1>3. access["cancel"].at \in Saving => canc.hand \in 1..Len(heap)
  <2>1. access["cancel"].at \in Saving => canc.at = "save"
    BY DEF TypeInv, CancelOK
  <2> QED BY <2>1, CancelFacts
<1> QED BY <1>1, <1>2, <1>3 DEF Hand, Writers

\* What the consumer goes on with is in the store, or it has not moved.
Settled(h, c) ==
    \/ Alone("consumer") /\ (c # 0 => row = h[c])
    \/ h = heap /\ c = current /\ access["consumer"].at = "none"

\* The consumer stops, with the row or without having moved.
LEMMA StopsStore ==
    ASSUME TypeInv, StoreInv, NEW h \in Seq(Task), NEW c \in 0..Len(h), clean => Settled(h, c),
           UNCHANGED <<row, prod, canc>>, Stops(h, c)
    PROVE  StoreInv'
<1>1. ConsumerOK /\ access \in [Writers -> AtStore]
  BY DEF TypeInv, StoreOK
<1>2. /\ heap' = h /\ current' = c /\ cons'.hand = cons.hand
      /\ access' \in [Writers -> AtStore] /\ access'["consumer"] = NoAccess
      /\ \A v \in Writers \ {"consumer"} : access'[v] = access[v]
      /\ clean' = clean
  BY <1>1, StopsFacts
<1>3. SUFFICES ASSUME clean' PROVE StoreInv'
  BY DEF StoreInv
<1>4. "consumer" \in Writers /\ NoAccess.at = "none" /\ Settled(h, c)
  BY <1>2, <1>3 DEF Writers, NoAccess
<1>5. CASE Alone("consumer") /\ (c # 0 => row = h[c])
  <2>1. Own("consumer")'
    BY <1>2, <1>4 DEF Own, Selecting, Saving
  <2> QED BY <1>2, <1>4, <1>5, <2>1, AloneStore
<1>6. CASE h = heap /\ c = current /\ access["consumer"].at = "none"
  <2>1. \A v \in Writers : access'[v].at = access[v].at /\ (v # "consumer" => access'[v] = access[v])
    BY <1>2, <1>4, <1>6
  <2>2. /\ \A w \in Writers : access[w].at = "none" \/ Alone(w)
        /\ Quiet /\ current # 0 => row = heap[current]
        /\ \A w \in Writers : Own(w)
    BY <1>2, <1>3 DEF StoreInv
  <2>3. /\ \A w \in Writers : access'[w].at = "none" \/ Alone(w)'
        /\ Quiet' /\ current' # 0 => row' = heap'[current']
    BY <1>2, <1>6, <2>1, <2>2 DEF Alone, Quiet
  <2>4. ASSUME NEW w \in Writers PROVE Own(w)'
    <3>1. CASE w = "consumer"
      BY <1>2, <1>4, <3>1 DEF Own, Selecting, Saving
    <3>2. CASE w # "consumer"
      <4>1. Hand(w)' = Hand(w) /\ access'[w] = access[w] /\ Own(w)
        BY <1>2, <2>2, <3>2 DEF Hand
      <4> QED BY <1>2, <1>6, <4>1 DEF Own
    <3> QED BY <3>1, <3>2
  <2> QED BY <2>3, <2>4 DEF StoreInv
<1> QED BY <1>4, <1>5, <1>6 DEF Settled

\* The consumer saves what it has changed.
LEMMA AppliesStore ==
    ASSUME TypeInv, NEW h \in Seq(Task), NEW c \in 0..Len(h), NEW o \in 1..Len(h), c \in {0, o},
           NEW e, Fit(e), Applies(h, c, e, o)
    PROVE  StoreInv'
<1>1. /\ ConsumerOK /\ access \in [Writers -> AtStore]
      /\ e \in [kind : Applicable, no : 0..MaxEvents] /\ e \in Event
  BY FitFacts DEF TypeInv, StoreOK, Fit
<1>2. /\ current' = c /\ cons'.hand = o
      /\ access'["consumer"].at = "begun" /\ access'["consumer"].copy = heap'[o]
      /\ \A v \in Writers \ {"consumer"} : access'[v] = access[v]
      /\ clean' = (clean /\ \A v \in Writers \ {"consumer"} : access[v].at = "none")
  BY <1>1, AppliesFacts
<1>3. SUFFICES ASSUME clean' PROVE StoreInv'
  BY DEF StoreInv
<1>4. "consumer" \in Writers /\ Alone("consumer")
  BY <1>2, <1>3 DEF Writers, Alone
<1>5. Own("consumer")'
  BY <1>2 DEF Own, Selecting, Saving, Hand
<1> QED BY <1>2, <1>4, <1>5, AloneStore

\* The consumer saves the message of the request.
LEMMA MessageStore ==
    ASSUME TypeInv, NEW h \in Seq(Task), NEW o \in 1..Len(h), NEW u \in (-MaxRequests)..0, u # 0,
           NEW e, Fit(e), KeepsMessage(h, u, e, o)
    PROVE  StoreInv'
<1>1. /\ ConsumerOK /\ access \in [Writers -> AtStore] /\ e \in Event /\ u \in Messages \ {0}
  BY ManagerAssumption DEF TypeInv, StoreOK, Fit, Messages
<1>2. /\ current' = o /\ cons'.hand = o
      /\ access'["consumer"].at = "begun" /\ access'["consumer"].copy = heap'[o]
      /\ \A v \in Writers \ {"consumer"} : access'[v] = access[v]
      /\ clean' = (clean /\ \A v \in Writers \ {"consumer"} : access[v].at = "none")
  BY <1>1, MessageFacts
<1>3. SUFFICES ASSUME clean' PROVE StoreInv'
  BY DEF StoreInv
<1>4. "consumer" \in Writers /\ Alone("consumer")
  BY <1>2, <1>3 DEF Writers, Alone
<1>5. Own("consumer")'
  BY <1>2 DEF Own, Selecting, Saving, Hand
<1> QED BY <1>2, <1>4, <1>5, AloneStore

\* The consumer looks for the task only where it has none.
LEMMA LooksStore ==
    ASSUME TypeInv, NEW h, NEW for \in Purposes, NEW e \in Event, NEW c, c = 0, Looks(h, c, for, e)
    PROVE  StoreInv'
<1>1. /\ ConsumerOK /\ access \in [Writers -> AtStore]
  BY DEF TypeInv, StoreOK
<1>2. /\ current' = 0
      /\ access'["consumer"].at = "select"
      /\ \A v \in Writers \ {"consumer"} : access'[v] = access[v]
      /\ clean' = (clean /\ \A v \in Writers \ {"consumer"} : access[v].at = "none")
  BY <1>1, LooksFacts
<1>3. SUFFICES ASSUME clean' PROVE StoreInv'
  BY DEF StoreInv
<1>4. "consumer" \in Writers /\ Alone("consumer")
  BY <1>2, <1>3 DEF Writers, Alone
<1>5. Own("consumer")'
  BY <1>2 DEF Own, Selecting, Saving, Hand
<1> QED BY <1>2, <1>4, <1>5, AloneStore

\* process() with what is in the store.
LEMMA ProcessesStore ==
    ASSUME TypeInv, StoreInv, NEW h \in Seq(Task), NEW c \in 0..Len(h), clean => Settled(h, c),
           UNCHANGED <<row, prod, canc>>, NEW o \in 1..Len(h), c \in {0, o}, NEW e, Fit(e), Processes(h, c, e, o)
    PROVE  StoreInv'
<1>1. \/ Stops(h, c)
      \/ Applies(h, c, Failure, o)
      \/ Applies(h, c, e, o)
  BY ProcessesMeans
<1> QED BY <1>1, StopsStore, AppliesStore, FitFacts

\* An event that modifies the task.
LEMMA KeepsStore ==
    ASSUME TypeInv, StoreInv, NEW h \in Seq(Task), NEW c \in 0..Len(h), clean => Settled(h, c),
           UNCHANGED <<row, prod, canc>>, NEW u \in (-MaxRequests)..0, NEW o \in 1..Len(h), NEW e, Fit(e),
           Keeps(h, c, u, e, o)
    PROVE  StoreInv'
<1>1. \/ u # 0 /\ KeepsMessage(h, u, e, o)
      \/ c # 0 /\ Processes(h, c, e, c)
      \/ c = 0 /\ Looks(h, c, "apply", e)
  BY KeepsMeans
<1>2. (c # 0 => c \in 1..Len(h)) /\ "apply" \in Purposes /\ e \in Event
  BY DEF Purposes, Fit
<1>3. CASE u # 0 /\ KeepsMessage(h, u, e, o)
  BY <1>3, MessageStore
<1>4. CASE c # 0 /\ Processes(h, c, e, c)
  BY <1>2, <1>4, ProcessesStore
<1>5. CASE c = 0 /\ Looks(h, c, "apply", e)
  BY <1>2, <1>5, LooksStore
<1> QED BY <1>1, <1>3, <1>4, <1>5

\* An exception in the consumer.
LEMMA FailsStore ==
    ASSUME TypeInv, StoreInv, NEW h \in Seq(Task), NEW c \in 0..Len(h), clean => Settled(h, c),
           UNCHANGED <<row, prod, canc>>, NEW u \in (-MaxRequests)..0, Fails(h, c, u)
    PROVE  StoreInv'
<1>1. \/ c = 0 /\ Looks(h, c, "fail", Failure)
      \/ Stops(h, c)
      \/ c # 0 /\ Keeps(h, c, u, Failure, c)
  BY FailsMeans
<1>2. (c # 0 => c \in 1..Len(h)) /\ "fail" \in Purposes /\ Fit(Failure) /\ Failure \in Event
  BY FitFacts DEF Purposes, Fit
<1>3. CASE c = 0 /\ Looks(h, c, "fail", Failure)
  BY <1>2, <1>3, LooksStore
<1>4. CASE Stops(h, c)
  BY <1>4, StopsStore
<1>5. CASE c # 0 /\ Keeps(h, c, u, Failure, c)
  BY <1>2, <1>5, KeepsStore
<1> QED BY <1>1, <1>3, <1>4, <1>5

\* The object that was found, at the end of the heap.
LEMMA FoundIs ==
    ASSUME TypeInv, NEW w \in Writers, NEW h, h = Append(heap, Found(w)), Found(w) # NoTask
    PROVE  /\ h \in Seq(Task) /\ Len(h) \in 1..Len(h) /\ Len(h) \in 0..Len(h) /\ Len(h) = Len(heap) + 1
           /\ h[Len(h)] = Found(w) /\ current \in 0..Len(h) /\ Len(heap) \in Nat
           /\ \A i \in 1..Len(heap) : h[i] = heap[i]
<1>1. Found(w) \in Task \cup {NoTask} /\ heap \in Seq(Task) /\ Len(heap) \in Nat /\ current \in 0..Len(heap)
  BY FoundFacts
<1>2. PICK f \in Task : f = Found(w)
  BY <1>1
<1> QED BY <1>1, <1>2, Extends

\* What is true of the only writer at the store.
LEMMA WhoIsThere ==
    ASSUME TypeInv, StoreInv, clean, NEW w \in Writers, access[w].at # "none"
    PROVE  Alone(w) /\ Own(w)
  BY DEF StoreInv

\* The consumer takes an event.
LEMMA TakesStore ==
    ASSUME TypeInv, StoreInv, ConsumerTakes
    PROVE  StoreInv'
<1>1. /\ cons.at = "take" /\ queue # <<>> /\ UNCHANGED <<row, prod, canc>>
  BY DEF ConsumerTakes
<1>2. PICK e : e = Head(queue)
  OBVIOUS
<1>3. \/ e.kind = "error" /\ Fails(heap, current, unsaved)
      \/ UNCHANGED <<access, clean, heap, current, cons>>
      \/ e.kind = "task" /\ current = 0 /\ Looks(heap, 0, "get", e)
      \/ /\ e.kind \notin {"start", "end", "error", "task"}
         /\ \/ current # 0 /\ Keeps(heap, current, unsaved, e, current)
            \/ current = 0 /\ Looks(heap, 0, "get", e)
            \/ current = 0 /\ Looks(heap, 0, "ensure", e)
  BY <1>2 DEF ConsumerTakes, accesses, tasks
<1>4. /\ e \in Event
      /\ e.kind \notin {"start", "end", "error", "task"} => Fit(e)
  BY <1>1, <1>2, HeadFacts
<1>5. /\ heap \in Seq(Task) /\ Len(heap) \in Nat /\ current \in 0..Len(heap) /\ unsaved \in (-MaxRequests)..0
      /\ "get" \in Purposes /\ "ensure" \in Purposes /\ (current # 0 => current \in 1..Len(heap))
  BY DEF TypeInv, TasksOK, Purposes
<1>6. Settled(heap, current)
  <2>1. access["consumer"].at \notin Selecting \cup Saving /\ access["consumer"] \in AtStore
    BY <1>1 DEF TypeInv, ConsumerOK, StoreOK, Storing, Writers
  <2> QED BY <2>1 DEF Settled, AtStore
<1>7. CASE e.kind = "error" /\ Fails(heap, current, unsaved)
  BY <1>1, <1>5, <1>6, <1>7, FailsStore
<1>8. CASE UNCHANGED <<access, clean, heap, current, cons>>
  <2>1. \A v \in Writers : access[v].at \in Saving => Hand(v)' = Hand(v) /\ Hand(v) \in 1..Len(heap)
    BY <1>1, <1>8, HandsAreTasks DEF Hand
  <2> QED BY <1>1, <1>8, <2>1, StillStore
<1>9. CASE current = 0 /\ (Looks(heap, 0, "get", e) \/ Looks(heap, 0, "ensure", e))
  BY <1>4, <1>5, <1>9, LooksStore
<1>10. CASE e.kind \notin {"start", "end", "error", "task"} /\ current # 0 /\ Keeps(heap, current, unsaved, e, current)
  BY <1>1, <1>4, <1>5, <1>6, <1>10, KeepsStore
<1> QED BY <1>3, <1>7, <1>8, <1>9, <1>10

\* The consumer keeps what get_task() found.
LEMMA GotStore ==
    ASSUME TypeInv, StoreInv, ConsumerGot
    PROVE  StoreInv'
<1>1. /\ cons.at = "look" /\ cons.for \in {"get", "fail"} /\ Returned("consumer") /\ UNCHANGED <<row, prod, canc>>
      /\ "consumer" \in Writers /\ cons.at \in Busy /\ access \in [Writers -> AtStore]
  BY DEF ConsumerGot, Writers, Busy, TypeInv, StoreOK
<1>0. access["consumer"].at = "selected"
  BY <1>1 DEF TypeInv, ConsumerOK, Returned, Selecting
<1>2. PICK h, c, f, e : h = Append(heap, Found("consumer")) /\ c = Len(h) /\ f = Found("consumer") /\ e = cons.event
  OBVIOUS
<1>6. \/ /\ f # NoTask
         /\ heap' = h /\ current' = c
         /\ Done("consumer")
         /\ cons' = [cons EXCEPT !.at = "take"]
      \/ f # NoTask /\ Fails(h, c, unsaved)
      \/ f # NoTask /\ e.kind # "task" /\ Keeps(h, c, unsaved, e, c)
      \/ /\ f = NoTask /\ e.kind = "task"
         /\ heap' = Append(heap, AgentsTask(e, cons.no)) /\ current' = 0
         /\ Save("consumer", AgentsTask(e, cons.no))
         /\ Waits("apply", "apply", e, c)
      \/ f = NoTask /\ Fails(heap, 0, unsaved)
      \/ f = NoTask /\ Stops(heap, 0)
  BY <1>2 DEF ConsumerGot
<1>7. /\ heap \in Seq(Task) /\ Len(heap) \in Nat /\ current \in 0..Len(heap) /\ unsaved \in (-MaxRequests)..0
      /\ f \in Task \cup {NoTask} /\ e \in Event /\ Pending(e) /\ (e.kind # "task" => Fit(e)) /\ cons.no \in 0..MaxRequests
      /\ 0 \in 0..Len(heap)
  BY <1>1, <1>2, FoundFacts
<1>8. f # NoTask => h \in Seq(Task) /\ c \in 1..Len(h) /\ c \in 0..Len(h) /\ h[c] = f
  BY <1>1, <1>2, FoundIs
<1>9. /\ clean => Alone("consumer") /\ current = 0 /\ f = row
  BY <1>0, <1>1, <1>2, WhoIsThere DEF Own, Selecting, Found
<1>10. /\ f # NoTask /\ clean => Settled(h, c)
       /\ clean => Settled(heap, 0)
  BY <1>8, <1>9 DEF Settled
<1>11. CASE f # NoTask /\ heap' = h /\ current' = c /\ Done("consumer") /\ cons' = [cons EXCEPT !.at = "take"]
  <2>1. /\ access'["consumer"] = NoAccess /\ \A v \in Writers \ {"consumer"} : access'[v] = access[v]
        /\ clean' = clean /\ NoAccess.at = "none"
    BY <1>1, <1>11, AccessOps
  <2>2. Own("consumer")'
    BY <2>1 DEF Own, Selecting, Saving
  <2>3. SUFFICES ASSUME clean' PROVE StoreInv'
    BY DEF StoreInv
  <2> QED BY <1>1, <1>8, <1>9, <1>11, <2>1, <2>2, <2>3, AloneStore
<1>12. CASE f # NoTask /\ Fails(h, c, unsaved)
  BY <1>1, <1>7, <1>8, <1>10, <1>12, FailsStore
<1>13. CASE f # NoTask /\ e.kind # "task" /\ Keeps(h, c, unsaved, e, c)
  BY <1>1, <1>7, <1>8, <1>10, <1>13, KeepsStore
<1>14. CASE /\ e.kind = "task"
         /\ heap' = Append(heap, AgentsTask(e, cons.no)) /\ current' = 0
         /\ Save("consumer", AgentsTask(e, cons.no))
         /\ Waits("apply", "apply", e, c)
  <2>1. e \in [kind : Work, no : 0..MaxEvents] /\ cons.no \in 1..MaxRequests
    <3>1. cons.no >= 1
      BY <1>1, <1>2, <1>14 DEF TypeInv, ConsumerOK
    <3> QED BY <1>7, <1>14, <3>1, ManagerAssumption DEF Event, Pending, Failing
  <2>2. PICK t \in Task : t = AgentsTask(e, cons.no)
    BY <2>1, NewTasks
  <2>3. heap' = Append(heap, t) /\ Save("consumer", t)
    BY <1>14, <2>2
  <2>4. heap'[Len(heap) + 1] = t
    BY <1>7, <2>3, Extends
  <2>5. /\ access'["consumer"].at = "begun" /\ access'["consumer"].copy = t
        /\ \A v \in Writers \ {"consumer"} : access'[v] = access[v]
        /\ clean' = (clean /\ \A v \in Writers \ {"consumer"} : access[v].at = "none")
    BY <1>1, <2>3, AccessOps
  <2>6. c = Len(heap) + 1
    <3>1. heap \in Seq(Task \cup {NoTask})
      BY <1>7, ElementOfSeq, SeqDef
    <3> QED BY <1>2, <1>7, <3>1, AppendProperties
  <2>7. cons'.hand = c
    <3>1. c \in Nat /\ "apply" \in Busy /\ "apply" \in Purposes /\ ConsumerOK
      BY <1>7, <2>6 DEF Busy, Storing, Purposes, TypeInv
    <3> QED BY <1>7, <1>14, <3>1, WaitsIs
  <2>8. Own("consumer")'
    BY <1>14, <2>4, <2>5, <2>6, <2>7 DEF Own, Selecting, Saving, Hand
  <2>9. SUFFICES ASSUME clean' PROVE StoreInv'
    BY DEF StoreInv
  <2> QED BY <1>1, <1>9, <2>5, <2>8, <2>9, AloneStore
<1>15. CASE Fails(heap, 0, unsaved)
  BY <1>1, <1>7, <1>10, <1>15, FailsStore
<1>16. CASE Stops(heap, 0)
  BY <1>1, <1>7, <1>10, <1>16, StopsStore
<1> QED BY <1>6, <1>11, <1>12, <1>13, <1>14, <1>15, <1>16

\* The consumer uses what ensure_task_id() found without keeping it.
LEMMA EnsuredStore ==
    ASSUME TypeInv, StoreInv, ConsumerEnsured
    PROVE  StoreInv'
<1>1. /\ cons.at = "look" /\ cons.for \in {"ensure", "apply"} /\ Returned("consumer") /\ UNCHANGED <<row, prod, canc>>
      /\ "consumer" \in Writers /\ cons.at \in Busy /\ access \in [Writers -> AtStore]
  BY DEF ConsumerEnsured, Writers, Busy, TypeInv, StoreOK
<1>0. access["consumer"].at = "selected"
  BY <1>1 DEF TypeInv, ConsumerOK, Returned, Selecting
<1>2. PICK h, c, f, e : h = Append(heap, Found("consumer")) /\ c = Len(h) /\ f = Found("consumer") /\ e = cons.event
  OBVIOUS
<1>6. \/ f # NoTask /\ Keeps(h, current, unsaved, e, c)
      \/ f # NoTask /\ Processes(h, current, e, c)
      \/ /\ heap' = Append(heap, NewTask) /\ UNCHANGED <<current, unsaved>>
         /\ Save("consumer", NewTask)
         /\ Waits("insert", cons.for, e, c)
  BY <1>2 DEF ConsumerEnsured
<1>7. /\ heap \in Seq(Task) /\ Len(heap) \in Nat /\ current \in 0..Len(heap) /\ unsaved \in (-MaxRequests)..0
      /\ f \in Task \cup {NoTask} /\ e \in Event /\ Fit(e) /\ cons.for \in Purposes
  <2>1. cons.event.kind # "task"
    BY <1>1 DEF TypeInv, ConsumerOK
  <2> QED BY <1>1, <1>2, <2>1, FoundFacts
<1>8. f # NoTask => h \in Seq(Task) /\ c \in 1..Len(h) /\ current \in 0..Len(h) /\ h[c] = f
  BY <1>1, <1>2, FoundIs
<1>9. /\ clean => Alone("consumer") /\ current = 0 /\ f = row
  BY <1>0, <1>1, <1>2, WhoIsThere DEF Own, Selecting, Found
<1>10. clean => Settled(h, current)
  BY <1>9 DEF Settled
<1>11. CASE f # NoTask /\ Keeps(h, current, unsaved, e, c)
  BY <1>1, <1>7, <1>8, <1>10, <1>11, KeepsStore
<1>12. CASE f # NoTask /\ Processes(h, current, e, c)
  <2>1. CASE clean
    <3>1. current \in {0, c}
      BY <1>9, <2>1
    <3> QED BY <1>1, <1>7, <1>8, <1>10, <1>12, <3>1, ProcessesStore
  <2>2. CASE ~clean
    <3>1. ~clean'
      <4>1. \/ Stops(h, current)
            \/ Applies(h, current, Failure, c)
            \/ Applies(h, current, e, c)
        BY <1>12, ProcessesMeans
      <4>2. Stops(h, current) => clean' = clean
        BY DEF Stops, Done
      <4>3. \A d : Applies(h, current, d, c) => (clean' => clean)
        BY DEF Applies, Save, Begins
      <4> QED BY <2>2, <4>1, <4>2, <4>3
    <3> QED BY <3>1 DEF StoreInv
  <2> QED BY <2>1, <2>2
<1>13. CASE /\ heap' = Append(heap, NewTask) /\ UNCHANGED <<current, unsaved>>
         /\ Save("consumer", NewTask)
         /\ Waits("insert", cons.for, e, c)
  <2>2. PICK t \in Task : t = NewTask
    BY NewTasks, ManagerAssumption
  <2>3. heap' = Append(heap, t) /\ Save("consumer", t)
    BY <1>13, <2>2
  <2>4. heap'[Len(heap) + 1] = t
    BY <1>7, <2>3, Extends
  <2>5. /\ access'["consumer"].at = "begun" /\ access'["consumer"].copy = t
        /\ \A v \in Writers \ {"consumer"} : access'[v] = access[v]
        /\ clean' = (clean /\ \A v \in Writers \ {"consumer"} : access[v].at = "none")
    BY <1>1, <2>3, AccessOps
  <2>6. c = Len(heap) + 1
    <3>1. heap \in Seq(Task \cup {NoTask})
      BY <1>7, ElementOfSeq, SeqDef
    <3> QED BY <1>2, <1>7, <3>1, AppendProperties
  <2>7. cons'.hand = c
    <3>1. c \in Nat /\ "insert" \in Busy /\ ConsumerOK
      BY <1>7, <2>6 DEF Busy, Storing, TypeInv
    <3>2. PICK for \in Purposes : for = cons.for
      BY <1>7
    <3>3. Waits("insert", for, e, c)
      BY <1>13, <3>2
    <3> QED BY <1>7, <3>1, <3>3, WaitsIs
  <2>9. SUFFICES ASSUME clean' PROVE StoreInv'
    BY DEF StoreInv
  <2>8. Own("consumer")'
    BY <1>9, <1>13, <2>4, <2>5, <2>6, <2>7, <2>9 DEF Own, Selecting, Saving, Hand
  <2> QED BY <1>1, <1>9, <2>5, <2>8, <2>9, AloneStore
<1> QED BY <1>6, <1>11, <1>12, <1>13

\* The consumer keeps what it has saved.
LEMMA StoredStore ==
    ASSUME TypeInv, StoreInv, ConsumerInserted \/ ConsumerKept \/ ConsumerApplied \/ ConsumerSaveRaises \/ ConsumerSeesShutdown
    PROVE  StoreInv'
<1>1. /\ UNCHANGED <<row, prod, canc>> /\ "consumer" \in Writers /\ access \in [Writers -> AtStore]
  BY DEF ConsumerInserted, ConsumerKept, ConsumerApplied, ConsumerSaveRaises, ConsumerSeesShutdown, Writers, TypeInv, StoreOK
<1>2. /\ heap \in Seq(Task) /\ Len(heap) \in Nat /\ current \in 0..Len(heap) /\ unsaved \in (-MaxRequests)..0
      /\ cons.at \in Storing => cons.hand \in 1..Len(heap) /\ cons.hand \in 0..Len(heap)
      /\ cons.at \in {"insert", "keep"} => Fit(cons.event)
  <2>1. cons.at \in {"insert", "keep"} => cons.event.kind # "task"
    BY DEF TypeInv, ConsumerOK, Busy, Storing
  <2>2. cons.at \in {"insert", "keep"} => cons.at \in Busy
    BY DEF Busy, Storing
  <2> QED BY <1>1, <2>1, <2>2, FoundFacts
<1>3. PICK o, e : o = cons.hand /\ e = cons.event
  OBVIOUS
<1>4. ASSUME cons.at \in Storing, Returned("consumer")
      PROVE  o \in 1..Len(heap) /\ o \in 0..Len(heap) /\ (clean => Alone("consumer") /\ row = heap[o]) /\ (clean => Settled(heap, o))
  <2>1. access["consumer"].at = "committed"
    BY <1>4 DEF TypeInv, ConsumerOK, Returned, Saving
  <2>2. clean => Alone("consumer") /\ Own("consumer")
    BY <1>1, <2>1, WhoIsThere
  <2>3. clean => Alone("consumer") /\ row = heap[o]
    BY <1>3, <2>1, <2>2 DEF Own, Saving, Hand
  <2> QED BY <1>2, <1>3, <1>4, <2>3 DEF Settled
<1>5. CASE ConsumerInserted \/ ConsumerKept
  <2>1. /\ cons.at \in Storing /\ Returned("consumer") /\ Fit(e) /\ o \in {0, o}
        /\ Keeps(heap, o, unsaved, e, o) \/ Processes(heap, o, e, o)
    BY <1>2, <1>3, <1>5 DEF ConsumerInserted, ConsumerKept, Storing
  <2> QED BY <1>1, <1>2, <1>4, <2>1, KeepsStore, ProcessesStore
<1>6. CASE ConsumerApplied
  <2>1. cons.at \in Storing /\ Returned("consumer")
    BY <1>6 DEF ConsumerApplied, Storing
  <2>2. \/ Stops(heap, o)
        \/ /\ heap' = heap /\ current' = o /\ Done("consumer")
    BY <1>3, <1>6 DEF ConsumerApplied
  <2>3. CASE Stops(heap, o)
    BY <1>1, <1>2, <1>4, <2>1, <2>3, StopsStore
  <2>4. CASE heap' = heap /\ current' = o /\ Done("consumer")
    <3>1. /\ access'["consumer"] = NoAccess /\ \A v \in Writers \ {"consumer"} : access'[v] = access[v]
          /\ clean' = clean /\ NoAccess.at = "none"
      BY <1>1, <2>4, AccessOps
    <3>2. Own("consumer")'
      BY <3>1 DEF Own, Selecting, Saving
    <3>3. SUFFICES ASSUME clean' PROVE StoreInv'
      BY DEF StoreInv
    <3> QED BY <1>1, <1>4, <2>1, <2>4, <3>1, <3>2, <3>3, AloneStore
  <2> QED BY <2>2, <2>3, <2>4
<1>7. CASE ConsumerSaveRaises
  <2>1. access["consumer"].at = "conflict"
    BY <1>7 DEF ConsumerSaveRaises, Raised
  <2>2. ~clean
    BY <1>1, <2>1, WhoIsThere DEF Own
  <2>3. Stops(heap, current) \/ Fails(heap, current, unsaved)
    BY <1>7 DEF ConsumerSaveRaises
  <2> QED BY <1>1, <1>2, <2>2, <2>3, StopsStore, FailsStore
<1>8. CASE ConsumerSeesShutdown
  <2>1. cons.at = "take" /\ Stops(heap, current)
    BY <1>8 DEF ConsumerSeesShutdown
  <2>2. access["consumer"].at \notin Selecting \cup Saving /\ access["consumer"] \in AtStore
    BY <1>1, <2>1 DEF TypeInv, ConsumerOK, Storing
  <2>3. Settled(heap, current)
    BY <2>2 DEF Settled, AtStore
  <2> QED BY <1>1, <1>2, <2>1, <2>3, StopsStore
<1> QED BY <1>5, <1>6, <1>7, <1>8

\* A writer begins to look for the task, or to save one.
LEMMA GetsStore ==
    ASSUME access \in [Writers -> AtStore], NEW w \in Writers, Get(w), current' = 0
    PROVE  StoreInv'
<1>1. /\ access'[w] = [at |-> "select", copy |-> NoTask, seen |-> NoTask]
      /\ \A v \in Writers \ {w} : access'[v] = access[v]
      /\ clean' = (clean /\ \A v \in Writers \ {w} : access[v].at = "none")
  BY AccessOps
<1>2. SUFFICES ASSUME clean' PROVE StoreInv'
  BY DEF StoreInv
<1>3. Alone(w)
  BY <1>1, <1>2 DEF Alone
<1>4. access'[w].at = "select"
  BY <1>1
<1>5. Own(w)'
  BY <1>4 DEF Own, Selecting, Saving
<1> QED BY <1>1, <1>3, <1>4, <1>5, AloneStore

\* A writer copies the object in its hands.
LEMMA SavesStore ==
    ASSUME access \in [Writers -> AtStore], NEW w \in Writers, NEW t \in Task, Save(w, t),
           heap'[Hand(w)'] = t, clean' => w = "cancel" \/ current' \in {0, Hand(w)'}
    PROVE  StoreInv'
<1>1. /\ access'[w].at = "begun" /\ access'[w].copy = t
      /\ \A v \in Writers \ {w} : access'[v] = access[v]
      /\ clean' = (clean /\ \A v \in Writers \ {w} : access[v].at = "none")
  BY AccessOps
<1>2. SUFFICES ASSUME clean' PROVE StoreInv'
  BY DEF StoreInv
<1>3. Alone(w)
  BY <1>1, <1>2 DEF Alone
<1>5. Own(w)'
  BY <1>1, <1>2 DEF Own, Selecting, Saving
<1> QED BY <1>1, <1>3, <1>5, AloneStore

\* A writer has done with the store.
LEMMA DoneStore ==
    ASSUME access \in [Writers -> AtStore], NEW w \in Writers, Done(w),
           clean => Alone(w) /\ (current' # 0 => row' = heap'[current'])
    PROVE  StoreInv'
<1>1. /\ access'[w] = NoAccess /\ NoAccess.at = "none"
      /\ \A v \in Writers \ {w} : access'[v] = access[v]
      /\ clean' = clean
  BY AccessOps
<1>2. SUFFICES ASSUME clean' PROVE StoreInv'
  BY DEF StoreInv
<1>5. Own(w)'
  BY <1>1 DEF Own, Selecting, Saving
<1> QED BY <1>1, <1>2, <1>5, AloneStore

\* A writer that has its answer.
LEMMA Answered ==
    ASSUME TypeInv, StoreInv, NEW w \in Writers, clean
    PROVE  /\ access[w].at = "selected" => Alone(w) /\ current = 0 /\ Found(w) = row
           /\ access[w].at = "committed" => Alone(w) /\ row = heap[Hand(w)]
           /\ access[w].at # "conflict"
  BY DEF StoreInv, Own, Selecting, Saving, Found

\* What the store answers the producer.
LEMMA ProducerReturns ==
    ASSUME TypeInv
    PROVE  /\ prod.at \in {"look", "failLook"} /\ Returned("producer") => access["producer"].at = "selected"
           /\ prod.at \in {"failInsert", "failSave"} /\ Returned("producer") => access["producer"].at = "committed"
  BY DEF TypeInv, ProducerOK, Returned, Selecting, Saving

\* What the store answers cancel().
LEMMA CancelReturns ==
    ASSUME TypeInv
    PROVE  /\ canc.at \in {"look", "failLook", "lookAgain"} /\ Returned("cancel") => access["cancel"].at = "selected"
           /\ canc.at = "save" /\ Returned("cancel") => access["cancel"].at = "committed"
  BY DEF TypeInv, CancelOK, Returned, Selecting, Saving

\* The producer saves a failure, or finds the task at its end.
LEMMA MarksFailedStore ==
    ASSUME TypeInv, StoreInv, UNCHANGED row,
           NEW h \in Seq(Task), NEW c \in 0..Len(h), NEW o \in 1..Len(h), c \in {0, o} \/ ~clean,
           clean => (Alone("producer") /\ (c # 0 => row = h[c]))
                        \/ (h = heap /\ c = current /\ access["producer"].at = "none"),
           UNCHANGED <<cons, canc>>,
           MarksFailed(h, c, o)
    PROVE  StoreInv'
<1>1. /\ access \in [Writers -> AtStore] /\ "producer" \in Writers
      /\ prod \in [at : ProducerAts, no : 0..MaxRequests, hand : Nat] /\ o \in Nat
  BY ProducerFacts
<1>2. CASE h[o].state \in Terminal
  <2>1. heap' = h /\ current' = c /\ Done("producer")
    BY <1>2 DEF MarksFailed
  <2>2. /\ access'["producer"] = NoAccess /\ NoAccess.at = "none" /\ clean' = clean
        /\ \A v \in Writers \ {"producer"} : access'[v] = access[v]
    BY <1>1, <2>1, AccessOps
  <2>3. CASE clean => Alone("producer") /\ (c # 0 => row = h[c])
    BY <1>1, <2>1, <2>3, DoneStore
  <2>4. CASE clean /\ h = heap /\ c = current /\ access["producer"].at = "none"
    <3>1. \A w \in Writers : access'[w].at = access[w].at /\ (w # "producer" => access'[w] = access[w])
      BY <2>2, <2>4
    <3>2. /\ \A w \in Writers : access[w].at = "none" \/ Alone(w)
          /\ Quiet /\ current # 0 => row = heap[current]
          /\ \A w \in Writers : Own(w)
      BY <2>4 DEF StoreInv
    <3>3. /\ \A w \in Writers : access'[w].at = "none" \/ Alone(w)'
          /\ Quiet' /\ current' # 0 => row' = heap'[current']
      BY <2>1, <2>4, <3>1, <3>2 DEF Alone, Quiet
    <3>4. ASSUME NEW w \in Writers PROVE Own(w)'
      <4>1. CASE w = "producer"
        BY <2>2, <4>1 DEF Own, Selecting, Saving
      <4>2. CASE w # "producer"
        <5>1. Hand(w)' = Hand(w) /\ access'[w] = access[w] /\ Own(w)
          BY <3>1, <3>2, <4>2 DEF Hand
        <5> QED BY <2>1, <2>4, <5>1 DEF Own
      <4> QED BY <4>1, <4>2
    <3> QED BY <3>3, <3>4 DEF StoreInv
  <2> QED BY <2>3, <2>4
<1>3. CASE h[o].state \notin Terminal
  <2>1. /\ heap' = [h EXCEPT ![o].state = "failed"] /\ current' = c
        /\ Save("producer", heap'[o])
        /\ prod' = [prod EXCEPT !.at = "failSave", !.hand = o]
    BY <1>3 DEF MarksFailed
  <2>2. h[o] \in Task /\ "failed" \in States
    BY ElementOfSeq DEF States, Terminal
  <2>3. PICK t \in Task : t = [h[o] EXCEPT !.state = "failed"]
    BY <2>2, TaskOps
  <2>4. heap' = [h EXCEPT ![o] = t]
    BY <2>1, <2>3
  <2>5. heap'[o] = t /\ Save("producer", t)
    BY <2>1, <2>4, Replaces
  <2>6. Hand("producer")' = o
    <3>1. prod'.hand = o
      BY <1>1, <2>1
    <3> QED BY <3>1 DEF Hand
  <2>7. clean' => clean
    BY <1>1, <2>5, AccessOps
  <2> QED BY <1>1, <2>1, <2>5, <2>6, <2>7, SavesStore
<1> QED BY <1>2, <1>3

\* Steps of the producer and the agent that leave the store alone.
LEMMA UntouchedStore ==
    ASSUME TypeInv, StoreInv, UNCHANGED <<row, accesses, tasks>>,
           \A v \in Writers : access[v].at \in Saving => Hand(v)' = Hand(v)
    PROVE  StoreInv'
<1>1. UNCHANGED <<access, clean, heap, current>>
  BY DEF accesses, tasks
<1> QED BY <1>1, HandsAreTasks, StillStore

\* The steps of the producer.
LEMMA ProducerStore ==
    ASSUME TypeInv, StoreInv, ProducerTakes \/ ProducerGot \/ AgentRaises \/ ProducerEnsured \/ ProducerInserted
                                \/ ProducerFailed \/ ProducerSaveRaises \/ ProducerSeesShutdown \/ AgentReturns
    PROVE  StoreInv'
<1>0. /\ access \in [Writers -> AtStore] /\ "producer" \in Writers /\ heap \in Seq(Task) /\ Len(heap) \in Nat
      /\ current \in 0..Len(heap) /\ (current # 0 => current \in 1..Len(heap))
      /\ prod \in [at : ProducerAts, no : 0..MaxRequests, hand : Nat]
      /\ prod.at \in {"wait", "execute", "over"} => access["producer"].at = "none"
      /\ prod.at \in {"failInsert", "failSave"} => prod.hand \in 1..Len(heap)
      /\ UNCHANGED <<cons, canc>>
      /\ "none" \notin Saving
  BY ProducerFacts DEF ProducerTakes, ProducerGot, AgentRaises, ProducerEnsured, ProducerInserted,
        ProducerFailed, ProducerSaveRaises, ProducerSeesShutdown, AgentReturns, Saving
<1>1. ASSUME access["producer"].at = "none" \/ prod'.hand = prod.hand
      PROVE  \A v \in Writers : access[v].at \in Saving => Hand(v)' = Hand(v)
  BY <1>0, <1>1 DEF Hand
<1>2. CASE ProducerTakes
  <2>1. /\ prod.at = "wait" /\ UNCHANGED row /\ UNCHANGED tasks
        /\ \/ UNCHANGED accesses
           \/ current = 0 /\ Get("producer")
    BY <1>2 DEF ProducerTakes
  <2>2. CASE UNCHANGED accesses
    BY <1>0, <1>1, <2>1, <2>2, UntouchedStore
  <2>3. CASE current = 0 /\ Get("producer")
    <3>1. current' = 0
      BY <2>1, <2>3 DEF tasks
    <3> QED BY <1>0, <2>3, <3>1, GetsStore
  <2> QED BY <2>1, <2>2, <2>3
<1>3. CASE ProducerGot
  <2>1. /\ prod.at = "look" /\ Returned("producer") /\ UNCHANGED row /\ Done("producer")
        /\ heap' = IF Found("producer") = NoTask THEN heap ELSE Append(heap, Found("producer"))
        /\ current' = IF Found("producer") = NoTask THEN 0 ELSE Len(heap')
    BY <1>3 DEF ProducerGot
  <2>2. access["producer"].at = "selected"
    BY <2>1, ProducerReturns
  <2>3. clean => Alone("producer") /\ Found("producer") = row
    BY <1>0, <2>2, Answered
  <2>4. Found("producer") # NoTask => heap'[Len(heap')] = Found("producer")
    BY <1>0, <2>1, FoundIs
  <2>5. clean => Alone("producer") /\ (current' # 0 => row' = heap'[current'])
    BY <2>1, <2>3, <2>4
  <2> QED BY <1>0, <2>1, <2>5, DoneStore
<1>4. CASE AgentRaises
  <2>1. /\ prod.at = "execute" /\ UNCHANGED row
        /\ \/ current # 0 /\ MarksFailed(heap, current, current)
           \/ current = 0 /\ Get("producer") /\ UNCHANGED tasks
    BY <1>4 DEF AgentRaises
  <2>2. CASE current # 0 /\ MarksFailed(heap, current, current)
    BY <1>0, <2>1, <2>2, MarksFailedStore
  <2>3. CASE current = 0 /\ Get("producer") /\ UNCHANGED tasks
    <3>1. current' = 0
      BY <2>3 DEF tasks
    <3> QED BY <1>0, <2>3, <3>1, GetsStore
  <2> QED BY <2>1, <2>2, <2>3
<1>5. CASE ProducerEnsured
  <2>1. /\ prod.at = "failLook" /\ Returned("producer") /\ UNCHANGED row
        /\ \/ /\ Found("producer") # NoTask
              /\ MarksFailed(Append(heap, Found("producer")), current, Len(Append(heap, Found("producer"))))
           \/ /\ heap' = Append(heap, NewTask)
              /\ Save("producer", NewTask)
              /\ prod' = [prod EXCEPT !.at = "failInsert", !.hand = Len(heap')]
              /\ UNCHANGED current
    BY <1>5 DEF ProducerEnsured
  <2>2. access["producer"].at = "selected"
    BY <2>1, ProducerReturns
  <2>3. clean => Alone("producer") /\ Found("producer") = row /\ current = 0
    BY <1>0, <2>2, Answered
  <2>4. CASE /\ Found("producer") # NoTask
              /\ MarksFailed(Append(heap, Found("producer")), current, Len(Append(heap, Found("producer"))))
    <3>1. PICK h : h = Append(heap, Found("producer"))
      OBVIOUS
    <3>2. /\ h \in Seq(Task) /\ Len(h) \in 1..Len(h) /\ current \in 0..Len(h)
      BY <1>0, <2>4, <3>1, FoundIs
    <3>3. PICK c \in 0..Len(h), o \in 1..Len(h) : c = current /\ o = Len(h)
      BY <3>2
    <3>4. MarksFailed(h, c, o)
      BY <2>4, <3>1, <3>3
    <3>5. (c \in {0, o} \/ ~clean) /\ (clean => Alone("producer") /\ (c # 0 => row = h[c]))
      BY <2>3, <3>3
    <3> QED BY <1>0, <2>1, <3>2, <3>4, <3>5, MarksFailedStore
  <2>5. CASE  /\ heap' = Append(heap, NewTask)
              /\ Save("producer", NewTask)
              /\ prod' = [prod EXCEPT !.at = "failInsert", !.hand = Len(heap')]
              /\ UNCHANGED current
    <3>1. PICK t \in Task : t = NewTask
      BY NewTasks, ManagerAssumption
    <3>2. heap' \in Seq(Task) /\ heap'[Len(heap')] = t /\ Len(heap') \in Nat
      BY <1>0, <2>5, <3>1, Extends
    <3>3. Hand("producer")' = Len(heap')
      <4>1. prod'.hand = Len(heap')
        BY <1>0, <2>5
      <4> QED BY <4>1 DEF Hand
    <3>4. clean' => clean
      BY <2>5 DEF Save, Begins
    <3>5. Save("producer", t) /\ heap'[Hand("producer")'] = t /\ (clean' => current' \in {0, Hand("producer")'})
      BY <2>3, <2>5, <3>1, <3>2, <3>3, <3>4
    <3> QED BY <1>0, <3>5, SavesStore
  <2> QED BY <2>1, <2>4, <2>5
<1>6. CASE ProducerInserted
  <2>1. /\ prod.at = "failInsert" /\ Returned("producer") /\ UNCHANGED row
        /\ MarksFailed(heap, prod.hand, prod.hand)
    BY <1>6 DEF ProducerInserted
  <2>2. access["producer"].at = "committed"
    BY <2>1, ProducerReturns
  <2>3. PICK o \in 1..Len(heap) : o = prod.hand
    BY <1>0, <2>1
  <2>4. clean => Alone("producer") /\ row = heap[o]
    BY <1>0, <2>2, <2>3, Answered DEF Hand
  <2>5. o \in 0..Len(heap) /\ MarksFailed(heap, o, o) /\ o \in {0, o}
    BY <1>0, <2>1, <2>3
  <2> QED BY <1>0, <2>1, <2>4, <2>5, MarksFailedStore
<1>7. CASE ProducerFailed
  <2>1. /\ prod.at = "failSave" /\ Returned("producer") /\ UNCHANGED <<row, heap>> /\ Done("producer") /\ current' = prod.hand
    BY <1>7 DEF ProducerFailed
  <2>2. access["producer"].at = "committed"
    BY <2>1, ProducerReturns
  <2>3. clean => Alone("producer") /\ row' = heap'[current']
    BY <1>0, <2>1, <2>2, Answered DEF Hand
  <2> QED BY <1>0, <2>1, <2>3, DoneStore
<1>8. CASE ProducerSaveRaises
  <2>1. access["producer"].at = "conflict" /\ Done("producer")
    BY <1>8 DEF ProducerSaveRaises, Raised
  <2>2. ~clean
    BY <1>0, <2>1, Answered
  <2> QED BY <1>0, <2>1, <2>2, DoneStore
<1>9. CASE ProducerSeesShutdown \/ AgentReturns
  <2>1. prod.at \in {"execute", "wait"} /\ UNCHANGED <<row, accesses, tasks>>
    BY <1>9 DEF ProducerSeesShutdown, AgentReturns
  <2> QED BY <1>0, <1>1, <2>1, UntouchedStore
<1> QED BY <1>2, <1>3, <1>4, <1>5, <1>6, <1>7, <1>8, <1>9

\* cancel() saves the copy it closes.
LEMMA ClosesStore ==
    ASSUME TypeInv, StoreInv, UNCHANGED row, NEW h \in Seq(Task), NEW c \in 1..Len(h),
           clean => (Alone("cancel") /\ row = h[c]) \/ (h = heap /\ c = current /\ access["cancel"].at = "none"),
           UNCHANGED <<cons, prod>>, Closes(h, c)
    PROVE  StoreInv'
<1>1. /\ access \in [Writers -> AtStore] /\ "cancel" \in Writers /\ canc \in CancelRecords /\ Len(h) \in Nat
  BY CancelFacts
<1>2. CASE h[c].state \in Terminal
  <2>1. heap' = h /\ current' = c /\ Done("cancel")
    BY <1>2 DEF Closes
  <2>2. /\ access'["cancel"] = NoAccess /\ NoAccess.at = "none" /\ clean' = clean
        /\ \A v \in Writers \ {"cancel"} : access'[v] = access[v]
    BY <1>1, <2>1, AccessOps
  <2>3. CASE clean => Alone("cancel") /\ row = h[c]
    BY <1>1, <2>1, <2>3, DoneStore
  <2>4. CASE clean /\ h = heap /\ c = current /\ access["cancel"].at = "none"
    <3>1. \A w \in Writers : access'[w].at = access[w].at /\ (w # "cancel" => access'[w] = access[w])
      BY <2>2, <2>4
    <3>2. /\ \A w \in Writers : access[w].at = "none" \/ Alone(w)
          /\ Quiet /\ current # 0 => row = heap[current]
          /\ \A w \in Writers : Own(w)
      BY <2>4 DEF StoreInv
    <3>3. /\ \A w \in Writers : access'[w].at = "none" \/ Alone(w)'
          /\ Quiet' /\ current' # 0 => row' = heap'[current']
      BY <2>1, <2>4, <3>1, <3>2 DEF Alone, Quiet
    <3>4. ASSUME NEW w \in Writers PROVE Own(w)'
      <4>1. CASE w = "cancel"
        BY <2>2, <4>1 DEF Own, Selecting, Saving
      <4>2. CASE w # "cancel"
        <5>1. Hand(w)' = Hand(w) /\ access'[w] = access[w] /\ Own(w)
          BY <3>1, <3>2, <4>2 DEF Hand, Writers
        <5> QED BY <2>1, <2>4, <5>1 DEF Own
      <4> QED BY <4>1, <4>2
    <3> QED BY <3>3, <3>4 DEF StoreInv
  <2> QED BY <2>3, <2>4
<1>3. CASE h[c].state \notin Terminal
  <2>1. PICK t : t = [h[c] EXCEPT !.state = "canceled"]
    OBVIOUS
  <2>2. t \in Task
    <3>1. h[c] \in Task /\ "canceled" \in States
      BY ElementOfSeq DEF States, Terminal
    <3> QED BY <2>1, <3>1, TaskOps
  <2>3. /\ heap' = Append(h, t) /\ current' = c
        /\ canc' = [at |-> "save", hand |-> Len(heap')]
        /\ Save("cancel", heap'[Len(heap')])
    BY <1>3, <2>1 DEF Closes
  <2>4. heap'[Len(heap')] = t
    BY <2>2, <2>3, Extends
  <2>5. Save("cancel", t) /\ Hand("cancel")' = Len(heap')
    <3>1. canc'.hand = Len(heap')
      BY <2>3
    <3> QED BY <2>3, <2>4, <3>1 DEF Hand
  <2> QED BY <1>1, <2>2, <2>4, <2>5, SavesStore
<1> QED BY <1>2, <1>3

\* The producer is interrupted: what it has committed is what it holds.
LEMMA InterruptStore ==
    ASSUME TypeInv, StoreInv, UNCHANGED <<row, heap, current, cons>>, canc'.hand = canc.hand, Interrupts(access)
    PROVE  StoreInv'
<1>1. /\ access \in [Writers -> AtStore] /\ "producer" \in Writers /\ "none" \notin Saving
      /\ access["producer"] \in AtStore
  BY ProducerFacts DEF Saving
<1>2. /\ access'["producer"].at = "none" /\ prod'.hand = prod.hand
      /\ \A v \in Writers \ {"producer"} : access'[v] = access[v]
      /\ clean' => clean /\ access["producer"].at \notin {"begun", "loaded"}
  BY <1>1, Interrupted
<1>3. SUFFICES ASSUME clean' PROVE StoreInv'
  BY DEF StoreInv
<1>4. CASE access["producer"].at = "none"
  <2>1. /\ \A w \in Writers : access[w].at = "none" \/ Alone(w)
        /\ Quiet /\ current # 0 => row = heap[current]
        /\ \A w \in Writers : Own(w)
    BY <1>2, <1>3 DEF StoreInv
  <2>2. \A w \in Writers : access'[w].at = access[w].at /\ (w # "producer" => access'[w] = access[w])
    BY <1>2, <1>4
  <2>3. /\ \A w \in Writers : access'[w].at = "none" \/ Alone(w)'
        /\ Quiet' /\ current' # 0 => row' = heap'[current']
    BY <2>1, <2>2 DEF Alone, Quiet
  <2>4. ASSUME NEW w \in Writers PROVE Own(w)'
    <3>1. CASE w = "producer"
      BY <1>2, <3>1 DEF Own, Selecting, Saving
    <3>2. CASE w # "producer"
      <4>1. Hand(w)' = Hand(w) /\ access'[w] = access[w] /\ Own(w)
        BY <1>2, <2>1, <2>2, <3>2 DEF Hand
      <4> QED BY <4>1 DEF Own
    <3> QED BY <3>1, <3>2
  <2> QED BY <2>3, <2>4 DEF StoreInv
<1>5. CASE access["producer"].at # "none"
  <2>1. Alone("producer") /\ Own("producer")
    BY <1>1, <1>2, <1>3, <1>5, WhoIsThere
  <2>2. access["producer"].at \in Selecting \/ access["producer"].at = "committed"
    BY <1>1, <1>2, <1>3, <1>5, <2>1 DEF AtStore, Saving, Own
  <2>3. current' # 0 => row' = heap'[current']
    BY <2>1, <2>2 DEF Own, Saving, Selecting
  <2>4. Own("producer")'
    BY <1>2 DEF Own, Selecting, Saving
  <2> QED BY <1>1, <1>2, <2>1, <2>3, <2>4, AloneStore
<1> QED BY <1>4, <1>5

\* The steps of cancel().
LEMMA CancelStore ==
    ASSUME TypeInv, StoreInv,
           \/ CancelBegins \/ CancelGot \/ CancelStopsProducer \/ CancelFails \/ CancelGotFailing
           \/ CancelCloses \/ CancelGotAgain \/ CancelSaved
    PROVE  StoreInv'
<1>0. /\ access \in [Writers -> AtStore] /\ "cancel" \in Writers /\ "producer" \in Writers /\ heap \in Seq(Task) /\ Len(heap) \in Nat
      /\ current \in 0..Len(heap) /\ (current # 0 => current \in 1..Len(heap))
      /\ canc.at \in {"idle", "agent", "wait", "returned", "raised"} => access["cancel"].at = "none"
      /\ canc.at = "save" => canc.hand \in 1..Len(heap)
      /\ UNCHANGED <<row, cons>> /\ canc \in CancelRecords
      /\ "none" \notin Saving
  <2>1. UNCHANGED <<row, cons>>
    BY DEF CancelBegins, CancelGot, CancelStopsProducer, CancelFails, CancelGotFailing, CancelCloses,
          CancelGotAgain, CancelSaved
  <2>2. current \in 0..Len(heap) => (current # 0 => current \in 1..Len(heap))
    BY CancelFacts
  <2>3. "producer" \in Writers /\ "none" \notin Saving
    BY DEF Saving, Writers
  <2> QED BY <2>1, <2>2, <2>3, CancelFacts
<1>1. ASSUME access["cancel"].at = "none", UNCHANGED prod
      PROVE  \A v \in Writers : access[v].at \in Saving => Hand(v)' = Hand(v)
  BY <1>0, <1>1 DEF Hand, Writers
<1>2. CASE CancelBegins
  <2>1. /\ canc.at = "idle" /\ UNCHANGED <<tasks, prod>>
        /\ \/ UNCHANGED accesses
           \/ current = 0 /\ Get("cancel")
    BY <1>2 DEF CancelBegins
  <2>2. CASE UNCHANGED accesses
    BY <1>0, <1>1, <2>1, <2>2, UntouchedStore
  <2>3. CASE current = 0 /\ Get("cancel")
    <3>1. current' = 0
      BY <2>1, <2>3 DEF tasks
    <3> QED BY <1>0, <2>3, <3>1, GetsStore
  <2> QED BY <2>1, <2>2, <2>3
<1>3. CASE CancelGot
  <2>1. /\ canc.at = "look" /\ Returned("cancel") /\ Done("cancel")
        /\ heap' = Append(heap, Found("cancel")) /\ current' = Len(heap')
    BY <1>3 DEF CancelGot
  <2>2. access["cancel"].at = "selected"
    BY <2>1, CancelReturns
  <2>3. Found("cancel") # NoTask
    BY <2>2, CancelFacts, NewTasks
  <2>4. clean => Alone("cancel") /\ Found("cancel") = row
    BY <1>0, <2>2, Answered
  <2>5. heap'[Len(heap')] = Found("cancel")
    BY <1>0, <2>1, <2>3, FoundIs
  <2> QED BY <1>0, <2>1, <2>4, <2>5, DoneStore
<1>4. CASE CancelStopsProducer
  <2>1. canc'.hand = canc.hand /\ UNCHANGED tasks /\ Interrupts(access)
    BY <1>0, <1>4 DEF CancelStopsProducer, CancelRecords
  <2> QED BY <1>0, <2>1, InterruptStore DEF tasks
<1>8. CASE CancelFails
  <2>1. /\ UNCHANGED tasks
        /\ \/ canc' = [canc EXCEPT !.at = "raised"] /\ Interrupts(access)
           \/ current = 0 /\ Get("cancel")
    BY <1>8 DEF CancelFails, Raises
  <2>2. CASE canc' = [canc EXCEPT !.at = "raised"] /\ Interrupts(access)
    <3>1. canc'.hand = canc.hand
      BY <1>0, <2>2 DEF CancelRecords
    <3> QED BY <1>0, <2>1, <2>2, <3>1, InterruptStore DEF tasks
  <2>3. CASE current = 0 /\ Get("cancel")
    <3>1. current' = 0
      BY <2>1, <2>3 DEF tasks
    <3> QED BY <1>0, <2>3, <3>1, GetsStore
  <2> QED BY <2>1, <2>2, <2>3
<1>9. CASE CancelGotFailing
  <2>1. /\ canc.at = "failLook" /\ Returned("cancel")
        /\ heap' = Append(heap, Found("cancel")) /\ current' = Len(heap')
        /\ Interrupts([access EXCEPT !["cancel"] = NoAccess])
    BY <1>9 DEF CancelGotFailing, Raises
  <2>2. access["cancel"].at = "selected"
    BY <2>1, CancelReturns
  <2>3. Found("cancel") # NoTask
    BY <2>2, CancelFacts, NewTasks
  <2>4. clean => Alone("cancel") /\ Found("cancel") = row
    BY <1>0, <2>2, Answered
  <2>5. heap'[Len(heap')] = Found("cancel")
    BY <1>0, <2>1, <2>3, FoundIs
  <2>6. PICK a \in [Writers -> AtStore] :
          /\ a = [access EXCEPT !["cancel"] = NoAccess] /\ a["cancel"].at = "none"
          /\ \A v \in Writers \ {"cancel"} : a[v] = access[v]
    BY <1>0 DEF NoAccess, AtStore
  <2>7. /\ access'["producer"].at = "none" /\ \A v \in Writers \ {"producer"} : access'[v] = a[v]
        /\ clean' => clean
    <3>1. a["producer"] = access["producer"]
      BY <1>0, <2>6
    <3> QED BY <2>1, <2>6, <3>1, Interrupted
  <2>8. SUFFICES ASSUME clean' PROVE StoreInv'
    BY DEF StoreInv
  <2>9. \A w \in Writers : access'[w].at = "none"
    BY <2>4, <2>6, <2>7, <2>8 DEF Alone
  <2>10. row' = heap'[current']
    BY <1>0, <2>1, <2>4, <2>5, <2>7, <2>8
  <2> QED BY <2>9, <2>10 DEF StoreInv, Own, Selecting, Saving
<1>5. CASE CancelCloses
  <2>1. /\ canc.at = "wait" /\ UNCHANGED prod
        /\ \/ current # 0 /\ Closes(heap, current)
           \/ current = 0 /\ Get("cancel") /\ UNCHANGED tasks
    BY <1>5 DEF CancelCloses
  <2>2. CASE current # 0 /\ Closes(heap, current)
    BY <1>0, <2>1, <2>2, ClosesStore
  <2>3. CASE current = 0 /\ Get("cancel") /\ UNCHANGED tasks
    <3>1. current' = 0
      BY <2>3 DEF tasks
    <3> QED BY <1>0, <2>3, <3>1, GetsStore
  <2> QED BY <2>1, <2>2, <2>3
<1>6. CASE CancelGotAgain
  <2>1. /\ canc.at = "lookAgain" /\ Returned("cancel") /\ UNCHANGED prod
        /\ Closes(Append(heap, Found("cancel")), Len(Append(heap, Found("cancel"))))
    BY <1>6 DEF CancelGotAgain
  <2>2. access["cancel"].at = "selected"
    BY <2>1, CancelReturns
  <2>3. Found("cancel") # NoTask
    BY <2>2, CancelFacts, NewTasks
  <2>4. clean => Alone("cancel") /\ Found("cancel") = row
    BY <1>0, <2>2, Answered
  <2>5. PICK h : h = Append(heap, Found("cancel"))
    OBVIOUS
  <2>6. h \in Seq(Task) /\ Len(h) \in 1..Len(h) /\ h[Len(h)] = Found("cancel")
    BY <1>0, <2>3, <2>5, FoundIs
  <2>7. PICK c \in 1..Len(h) : c = Len(h)
    BY <2>6
  <2>8. Closes(h, c) /\ (clean => Alone("cancel") /\ row = h[c])
    BY <2>1, <2>4, <2>5, <2>6, <2>7
  <2> QED BY <1>0, <2>1, <2>6, <2>8, ClosesStore
<1>7. CASE CancelSaved
  <2>1. /\ canc.at = "save" /\ Returned("cancel") /\ UNCHANGED heap /\ Done("cancel") /\ current' = canc.hand
    BY <1>7 DEF CancelSaved
  <2>2. access["cancel"].at = "committed"
    BY <2>1, CancelReturns
  <2>3. clean => Alone("cancel") /\ row' = heap'[current']
    BY <1>0, <2>1, <2>2, Answered DEF Hand
  <2> QED BY <1>0, <2>1, <2>3, DoneStore
<1> QED BY <1>2, <1>3, <1>4, <1>5, <1>6, <1>7, <1>8, <1>9

\* What a statement at the store does: a read sees the row, and a commit writes the
\* copy, because nobody wrote the row since it was read.
LEMMA StatementIs ==
    ASSUME TypeInv, NEW w \in Writers, Read(w) \/ Commit(w)
    PROVE  /\ access' \in [Writers -> AtStore] /\ \A v \in Writers \ {w} : access'[v] = access[v]
           /\ access'[w].copy = access[w].copy
           /\ UNCHANGED <<clean, heap, current, created, finished, queue, open, locked, events, ended, failed,
                          prod, cons, unsaved, canc, answered>>
           /\ \/ access[w].at = "select" /\ access'[w].at = "selected" /\ access'[w].seen = row /\ row' = row
              \/ access[w].at = "begun" /\ access'[w].at = "loaded" /\ access'[w].seen = row /\ row' = row
              \/ /\ access[w].at = "loaded" /\ access[w].copy \in Task
                 /\ access'[w].seen = access[w].seen
                 /\ access[w].seen = row => access'[w].at = "committed" /\ row' = access[w].copy
                 /\ access'[w].at \in {"committed", "conflict"}
                 /\ row' \in Task
<1>0. /\ access \in [Writers -> AtStore] /\ row \in Task \cup {NoTask}
  BY CancelFacts DEF StoreOK
<1>1. /\ UNCHANGED <<clean, heap, current, created, finished, queue, open, locked, events, ended, failed, prod, cons, unsaved, canc, answered>>
  BY DEF Read, Commit, tasks, flags, agentQ, agent
<1>2. PICK a \in AtStore : a = access[w]
  BY <1>0
<1>3. CASE Read(w)
  <2>1. /\ access[w].at \in {"select", "begun"} /\ row' = row
        /\ access' = [access EXCEPT ![w].seen = row,
                  ![w].at = IF access[w].at = "select" THEN "selected" ELSE "loaded"]
    BY <1>3 DEF Read
  <2>2. PICK b : b = [a EXCEPT !.seen = row, !.at = IF a.at = "select" THEN "selected" ELSE "loaded"]
    OBVIOUS
  <2>3. b \in AtStore /\ b.copy = a.copy /\ b.seen = row
    BY <1>0, <2>2 DEF AtStore, Selecting, Saving
  <2>4. (a.at = "select" /\ b.at = "selected") \/ (a.at = "begun" /\ b.at = "loaded")
    BY <1>2, <2>1, <2>2 DEF AtStore
  <2>5. access' = [access EXCEPT ![w] = b]
    BY <1>0, <1>2, <2>1, <2>2
  <2> QED BY <1>0, <1>1, <1>2, <2>1, <2>3, <2>4, <2>5
<1>4. CASE Commit(w)
  <2>1. /\ access[w].at = "loaded"
        /\ access' = [access EXCEPT ![w].at = IF Found(w) = NoTask /\ row # NoTask THEN "conflict" ELSE "committed"]
        /\ row' = IF Found(w) = NoTask /\ row # NoTask THEN row
                  ELSE IF row = NoTask THEN access[w].copy
                  ELSE Merged(access[w].copy, Found(w), row)
    BY <1>4 DEF Commit
  <2>2. access[w].copy \in Task
    <3>1. access[w].at \in Saving
      BY <2>1 DEF Saving
    <3> QED BY <3>1 DEF TypeInv, ConsumerOK, ProducerOK, CancelOK, Writers
  <2>3. PICK at \in {"committed", "conflict"} : at = IF Found(w) = NoTask /\ row # NoTask THEN "conflict" ELSE "committed"
    OBVIOUS
  <2>4. PICK b : b = [a EXCEPT !.at = at]
    OBVIOUS
  <2>5. b \in AtStore /\ b.copy = a.copy /\ b.at = at /\ b.seen = a.seen
    BY <2>3, <2>4 DEF AtStore, Selecting, Saving
  <2>6. access' = [access EXCEPT ![w] = b]
    BY <1>0, <1>2, <2>1, <2>3, <2>4
  <2>7. row \in Task => Merged(access[w].copy, Found(w), row) \in Task /\ Merged(access[w].copy, row, row) = access[w].copy
    BY <2>2, MergeOps
  <2>8. /\ row' \in Task
        /\ Found(w) = row => at = "committed" /\ row' = access[w].copy
    BY <1>0, <2>1, <2>2, <2>3, <2>7, NewTasks
  <2> QED BY <1>0, <1>1, <1>2, <2>1, <2>2, <2>3, <2>5, <2>6, <2>8 DEF Found
<1> QED BY <1>3, <1>4

\* A statement of the only writer at the store.
LEMMA StatementStore ==
    ASSUME TypeInv, StoreInv, NEW w \in Writers, Read(w) \/ Commit(w)
    PROVE  StoreInv'
<1>1. /\ \A v \in Writers \ {w} : access'[v] = access[v]
      /\ access'[w].copy = access[w].copy
      /\ UNCHANGED <<clean, heap, current, prod, cons, canc>>
      /\ \/ access[w].at = "select" /\ access'[w].at = "selected" /\ access'[w].seen = row /\ row' = row
         \/ access[w].at = "begun" /\ access'[w].at = "loaded" /\ access'[w].seen = row /\ row' = row
         \/ /\ access[w].at = "loaded" /\ access[w].copy \in Task
            /\ access[w].seen = row => access'[w].at = "committed" /\ row' = access[w].copy
  BY StatementIs
<1>2. SUFFICES ASSUME clean' PROVE StoreInv'
  BY DEF StoreInv
<1>3. Alone(w) /\ Own(w)
  BY <1>1, <1>2, WhoIsThere
<1>4. Hand(w)' = Hand(w)
  BY <1>1 DEF Hand
<1>5. Own(w)' /\ access'[w].at # "none"
  BY <1>1, <1>3, <1>4 DEF Own, Selecting, Saving
<1> QED BY <1>1, <1>3, <1>5, AloneStore

\* No step leaves the row behind.
LEMMA NextStoreInv == TypeInv /\ StoreInv /\ [Next]_vars => StoreInv'
<1> SUFFICES ASSUME TypeInv, StoreInv, [Next]_vars PROVE StoreInv'
  OBVIOUS
<1>1. ASSUME NEW w \in Writers, Read(w) \/ Commit(w) PROVE StoreInv'
  BY <1>1, StatementStore
<1>2. CASE ConsumerTakesMarker
  <2>1. cons'.hand = cons.hand
    <3>1. cons \in [at : {"take", "over"} \cup Busy, for : Purposes, no : 0..MaxRequests, event : Event, hand : Nat]
      BY DEF TypeInv, ConsumerOK
    <3> QED BY <1>2, <3>1 DEF ConsumerTakesMarker
  <2>2. UNCHANGED <<row, accesses, tasks, prod, canc>>
    BY <1>2 DEF ConsumerTakesMarker
  <2>3. \A v \in Writers : access[v].at \in Saving => Hand(v)' = Hand(v)
    BY <2>1, <2>2 DEF Hand
  <2> QED BY <2>2, <2>3, UntouchedStore
<1>3. CASE ConsumerTakes
  BY <1>3, TakesStore
<1>4. CASE ConsumerGot
  BY <1>4, GotStore
<1>5. CASE ConsumerEnsured
  BY <1>5, EnsuredStore
<1>6. CASE ConsumerInserted \/ ConsumerKept \/ ConsumerApplied \/ ConsumerSaveRaises \/ ConsumerSeesShutdown
  BY <1>6, StoredStore
<1>7. CASE ProducerTakes \/ ProducerGot \/ AgentRaises \/ ProducerEnsured \/ ProducerInserted
              \/ ProducerFailed \/ ProducerSaveRaises \/ ProducerSeesShutdown \/ AgentReturns
  BY <1>7, ProducerStore
<1>8. CASE CancelEmits \/ (\E kind \in Kinds : AgentEmits(kind)) \/ UNCHANGED vars
  <2>1. UNCHANGED <<row, accesses, tasks, prod, cons, canc>>
    BY <1>8 DEF CancelEmits, AgentEmits, vars
  <2>2. \A v \in Writers : access[v].at \in Saving => Hand(v)' = Hand(v)
    BY <2>1 DEF Hand
  <2> QED BY <2>1, <2>2, UntouchedStore
<1>9. CASE \/ CancelBegins \/ CancelGot \/ CancelStopsProducer \/ CancelFails \/ CancelGotFailing
           \/ CancelCloses \/ CancelGotAgain \/ CancelSaved
  BY <1>9, CancelStore
<1> QED BY <1>1, <1>2, <1>3, <1>4, <1>5, <1>6, <1>7, <1>8, <1>9 DEF Next

\* start() has read the row.
LEMMA InitStoreInv == Init => StoreInv
<1> SUFFICES ASSUME Init PROVE StoreInv
  OBVIOUS
<1>1. /\ heap = IF row = NoTask THEN <<>> ELSE <<row>>
      /\ current = Len(heap) /\ access = [w \in Writers |-> NoAccess] /\ NoAccess.at = "none"
  BY DEF Init, NoAccess
<1>2. current # 0 => row = heap[current]
  <2>1. CASE row = NoTask
    BY <1>1, <2>1
  <2>2. CASE row # NoTask
    <3>1. PICK t : t = row
      OBVIOUS
    <3>2. heap = <<t>>
      BY <1>1, <2>2, <3>1
    <3> QED BY <1>1, <3>1, <3>2
  <2> QED BY <2>1, <2>2
<1> QED BY <1>1, <1>2 DEF StoreInv, Alone, Own, Selecting, Saving

\* The row is followed throughout.
LEMMA StoreInvHolds == Spec => [](TypeInv /\ StoreInv)
  BY InitTypeInv, NextTypeInv, InitStoreInv, NextStoreInv, PTL DEF Spec

\* Between two accesses the store has what _current_task says, for any events, requests
\* and interleavings of the writers that take turns at the store.
THEOREM StoreIsFollowed == Spec => []StoreFollows
<1>1. StoreInv => StoreFollows
  BY DEF StoreInv, StoreFollows, Quiet
<1> QED BY <1>1, StoreInvHolds, PTL

-----------------------------------------------------------------------------
(* The task in memory                                                      *)

\* No report of a failure comes up when an event leaves the queue.
LEMMA NoErrorTakes ==
    ASSUME TypeInv, NoError, queue # <<>>, queue' = Tail(queue)
    PROVE  NoError' /\ Head(queue).kind # "error"
<1>1. PICK q \in Seq(Event), t \in Seq(Event) : q = queue /\ t = queue'
  BY HeadTailProperties DEF TypeInv, QueueOK
<1>2. t = Tail(q) /\ q # <<>>
  BY <1>1
<1>3. /\ Len(t) = Len(q) - 1 /\ Len(q) \in Nat /\ Len(q) >= 1
      /\ \A i \in 1..Len(t) : t[i] = q[i+1]
      /\ Head(q) = q[1]
  BY <1>2, HeadTailProperties, EmptySeq, LenProperties
<1>4. \A i \in 1..Len(q) : q[i].kind # "error"
  BY <1>1 DEF NoError
<1>5. \A i \in 1..Len(t) : t[i].kind # "error"
  <2>1. ASSUME NEW i \in 1..Len(t) PROVE t[i].kind # "error"
    <3>1. i + 1 \in 1..Len(q) /\ t[i] = q[i + 1]
      BY <1>3
    <3> QED BY <1>4, <3>1
  <2> QED BY <2>1
<1>6. q[1].kind # "error"
  BY <1>3, <1>4
<1> QED BY <1>1, <1>3, <1>5, <1>6 DEF NoError

\* Nor when another event enters it.
LEMMA NoErrorPuts ==
    ASSUME TypeInv, NoError, NEW e \in Event, e.kind # "error", queue' = Append(queue, e)
    PROVE  NoError'
<1>1. PICK q \in Seq(Event), t \in Seq(Event) : q = queue /\ t = queue' /\ t = Append(q, e)
  BY AppendProperties DEF TypeInv, QueueOK
<1>2. Len(t) = Len(q) + 1 /\ Len(q) \in Nat /\ t[Len(q) + 1] = e /\ \A i \in 1..Len(q) : t[i] = q[i]
  BY <1>1, AppendProperties
<1>3. \A i \in 1..Len(q) : q[i].kind # "error"
  BY <1>1 DEF NoError
<1>4. ASSUME NEW i \in 1..Len(t) PROVE t[i].kind # "error"
  <2>1. CASE i \in 1..Len(q)
    BY <1>2, <1>3, <2>1
  <2>2. CASE i = Len(q) + 1
    BY <1>2, <2>2
  <2> QED BY <1>2, <2>1, <2>2
<1> QED BY <1>1, <1>4 DEF NoError

\* A step of the consumer.
LEMMA ConsumerMemory ==
    ASSUME TypeInv, MemoryInv, clean' => clean, UNCHANGED <<row, prod, canc, failed>>,
           UNCHANGED queue \/ (queue # <<>> /\ queue' = Tail(queue)),
           clean /\ clean' /\ ~failed /\ MemoryInv =>
              (current # 0 => current' # 0) /\ (current' = 0 => row = NoTask)
    PROVE  MemoryInv'
<1>1. SUFFICES ASSUME clean, clean', ~failed PROVE MemoryInv'
  BY DEF MemoryInv
<1>2. NoError'
  BY <1>1, NoErrorTakes DEF MemoryInv, NoError
<1> QED BY <1>1, <1>2 DEF MemoryInv

\* Where an event is applied the task in memory is c, or the one it is applied to.
LEMMA WhichKeeps ==
    ASSUME NEW h, NEW c, NEW u, NEW e, NEW o, o # 0, Keeps(h, c, u, e, o) \/ Processes(h, c, e, o)
    PROVE  current' = c \/ current' # 0
  BY DEF Keeps, Processes, Applies, Stops, Looks

\* An exception in the consumer leaves the task in memory alone.
LEMMA WhichFails ==
    ASSUME NEW h, NEW c, NEW u, Fails(h, c, u)
    PROVE  current' = c \/ current' # 0
  BY WhichKeeps DEF Fails, Stops, Looks

\* The consumer takes an event.
LEMMA TakesMemory ==
    ASSUME TypeInv, MemoryInv, ConsumerTakes \/ ConsumerTakesMarker \/ ConsumerSeesShutdown
    PROVE  MemoryInv'
<1>1. /\ UNCHANGED <<row, prod, canc, failed>> /\ cons.at = "take"
      /\ UNCHANGED queue \/ (queue # <<>> /\ queue' = Tail(queue))
  BY DEF ConsumerTakes, ConsumerTakesMarker, ConsumerSeesShutdown, agent
<1>2. clean' => clean
  BY DEF ConsumerTakes, ConsumerTakesMarker, ConsumerSeesShutdown, accesses, Fails, Keeps, Looks, Stops, Processes,
        Applies, Save, Get, Begins, Done
<1>3. current' = current \/ current' # 0
  <2>1. CASE ConsumerTakesMarker \/ ConsumerSeesShutdown
    BY <2>1 DEF ConsumerTakesMarker, ConsumerSeesShutdown, tasks, Stops
  <2>2. CASE ConsumerTakes
    BY <2>2, WhichKeeps, WhichFails DEF ConsumerTakes, tasks, Looks
  <2> QED BY <2>1, <2>2
<1> QED BY <1>1, <1>2, <1>3, ConsumerMemory DEF MemoryInv, Storing

\* The consumer that looks finds no task.
LEMMA NothingThere ==
    ASSUME TypeInv, StoreInv, MemoryInv, clean, ~failed, cons.at = "look", Returned("consumer")
    PROVE  current = 0 /\ row = NoTask /\ Found("consumer") = NoTask /\ canc.at = "idle"
<1>1. access["consumer"].at = "selected" /\ "consumer" \in Writers
  BY DEF TypeInv, ConsumerOK, Returned, Selecting, Writers
<1>2. current = 0 /\ Found("consumer") = row
  BY <1>1, Answered
<1> QED BY <1>2 DEF MemoryInv, Storing

\* The consumer goes on with what it found.
LEMMA GotMemory ==
    ASSUME TypeInv, StoreInv, MemoryInv, ConsumerGot \/ ConsumerEnsured
    PROVE  MemoryInv'
<1>1. /\ UNCHANGED <<row, queue, prod, canc, failed>> /\ cons.at = "look" /\ Returned("consumer")
  BY DEF ConsumerGot, ConsumerEnsured, agent
<1>2. clean' => clean
  BY DEF ConsumerGot, ConsumerEnsured, Fails, Keeps, Looks, Stops, Processes, Applies, Save, Get, Begins, Done
<1>3. ASSUME clean, ~failed PROVE current = 0 /\ row = NoTask
  BY <1>1, <1>3, NothingThere
<1> QED BY <1>1, <1>2, <1>3, ConsumerMemory

\* The consumer goes on after a save.
LEMMA StoredMemory ==
    ASSUME TypeInv, StoreInv, MemoryInv, ConsumerInserted \/ ConsumerKept \/ ConsumerApplied \/ ConsumerSaveRaises
    PROVE  MemoryInv'
<1>1. /\ UNCHANGED <<row, queue, prod, canc, failed>> /\ "consumer" \in Writers /\ cons.at \in Storing
  BY DEF ConsumerInserted, ConsumerKept, ConsumerApplied, ConsumerSaveRaises, Writers, agent, Storing
<1>2. clean' => clean
  BY DEF ConsumerInserted, ConsumerKept, ConsumerApplied, ConsumerSaveRaises, Fails, Keeps, Looks, Stops, Processes,
        Applies, Save, Get, Begins, Done
<1>3. cons.hand # 0
  BY <1>1, FoundFacts
<1>4. ASSUME clean PROVE current' # 0
  <2>1. ~ConsumerSaveRaises
    BY <1>1, <1>4, Answered DEF ConsumerSaveRaises, Raised
  <2>2. CASE ConsumerInserted \/ ConsumerKept
    <3>1. Keeps(heap, cons.hand, unsaved, cons.event, cons.hand) \/ Processes(heap, cons.hand, cons.event, cons.hand)
      BY <2>2 DEF ConsumerInserted, ConsumerKept
    <3> QED BY <1>3, <3>1, WhichKeeps
  <2>3. CASE ConsumerApplied
    BY <1>3, <2>3 DEF ConsumerApplied, Stops
  <2> QED BY <2>1, <2>2, <2>3
<1> QED BY <1>1, <1>2, <1>4, ConsumerMemory

\* A step of another than the consumer.
LEMMA OthersMemory ==
    ASSUME TypeInv, MemoryInv, clean' => clean, ~failed' => ~failed, UNCHANGED cons,
           clean /\ clean' /\ ~failed' /\ prod.at \notin Marking /\ NoError
           /\ canc.at \notin {"look", "lookAgain", "failLook"} /\ (canc.at # "idle" => current # 0) =>
              /\ prod'.at \notin Marking /\ NoError'
              /\ UNCHANGED canc \/ (current # 0 /\ canc'.at \notin {"look", "lookAgain", "failLook"})
              /\ UNCHANGED <<row, current>> \/ current' # 0
    PROVE  MemoryInv'
  BY DEF MemoryInv

\* The producer announces a request, or stops.
LEMMA StartsMemory ==
    ASSUME TypeInv, NEW no \in 1..MaxRequests, NEW c, Starts(no, c)
    PROVE  (NoError => NoError') /\ prod'.at \notin Marking
<1>1. CASE open
  <2>1. /\ prod' = [at |-> "execute", no |-> no, hand |-> c]
        /\ queue' = Append(queue, Item("start", no))
    BY <1>1 DEF Starts
  <2>2. no \in Nat
    BY ManagerAssumption
  <2>3. PICK e \in Event : e = Item("start", no) /\ e.kind = "start"
    BY <2>2, ItemIs
  <2> QED BY <2>1, <2>3, NoErrorPuts DEF Marking
<1>2. CASE ~open
  <2>1. ProducerStops /\ UNCHANGED queue
    BY <1>2 DEF Starts
  <2>2. prod'.at = "over"
    BY <2>1, StopsProducer
  <2> QED BY <2>1, <2>2 DEF NoError, Marking
<1> QED BY <1>1, <1>2

\* The producer takes a request.
LEMMA ProducerTakesMemory ==
    ASSUME TypeInv, MemoryInv, ProducerTakes
    PROVE  MemoryInv'
<1>1. /\ prod.no < MaxRequests
      /\ \/ current # 0 /\ Starts(prod.no + 1, current) /\ UNCHANGED clean
         \/ /\ prod' = [prod EXCEPT !.at = "look", !.no = @ + 1]
            /\ Get("producer") /\ UNCHANGED <<queue, open>>
      /\ UNCHANGED <<row, current, failed, cons, canc>>
  BY DEF ProducerTakes, accesses, tasks, agentQ
<1>2. clean' => clean
  BY <1>1 DEF Get, Begins
<1>3. prod'.at \notin Marking /\ (NoError => NoError')
  <2>1. CASE Starts(prod.no + 1, current)
    <3>1. prod.no + 1 \in 1..MaxRequests
      BY <1>1, ProducerFacts
    <3>2. PICK no \in 1..MaxRequests : no = prod.no + 1
      BY <3>1
    <3> QED BY <2>1, <3>2, StartsMemory
  <2>2. CASE prod' = [prod EXCEPT !.at = "look", !.no = @ + 1] /\ UNCHANGED <<queue, open>>
    <3>1. prod'.at = "look"
      BY <2>2, ProducerFacts
    <3> QED BY <2>2, <3>1 DEF NoError, Marking
  <2> QED BY <1>1, <2>1, <2>2
<1> QED BY <1>1, <1>2, <1>3, OthersMemory

\* Where the producer finds nothing in memory there is nothing in the store either.
LEMMA ProducerGotMemory ==
    ASSUME TypeInv, StoreInv, MemoryInv, ProducerGot
    PROVE  MemoryInv' /\ (clean /\ ~failed => row = NoTask /\ heap' = heap /\ current' = current)
<1>1. /\ prod.at = "look" /\ Returned("producer") /\ Done("producer")
      /\ heap' = IF Found("producer") = NoTask THEN heap ELSE Append(heap, Found("producer"))
      /\ current' = IF Found("producer") = NoTask THEN 0 ELSE Len(heap')
      /\ Starts(prod.no, current')
      /\ UNCHANGED <<row, failed, cons, canc>>
  BY DEF ProducerGot, agent
<1>2. clean' = clean
  BY <1>1 DEF Done
<1>3. ASSUME clean, ~failed PROVE row = NoTask /\ heap' = heap /\ current' = current
  <2>1. access["producer"].at = "selected" /\ "producer" \in Writers
    BY <1>1, ProducerReturns, ProducerFacts
  <2>2. Alone("producer") /\ current = 0 /\ Found("producer") = row
    BY <1>3, <2>1, Answered
  <2>3. access["consumer"].at = "none"
    BY <2>2 DEF Alone, Writers
  <2>4. cons.at \notin Storing
    BY <2>3 DEF TypeInv, ConsumerOK, Saving
  <2> QED BY <1>1, <1>3, <2>2, <2>4 DEF MemoryInv
<1>4. prod'.at \notin Marking /\ (NoError => NoError')
  <2>1. PICK no, c : no \in 1..MaxRequests /\ no = prod.no /\ c = current'
    BY <1>1, ProducerFacts
  <2> QED BY <1>1, <2>1, StartsMemory
<1> QED BY <1>1, <1>2, <1>3, <1>4, OthersMemory

\* The agent emits or returns, or cancel() speaks for it.
LEMMA AgentMemory ==
    ASSUME TypeInv, MemoryInv, (\E kind \in Kinds : AgentEmits(kind)) \/ AgentReturns \/ CancelEmits
    PROVE  MemoryInv'
<1>1. UNCHANGED <<row, clean, current, failed, cons, canc>>
  BY DEF AgentEmits, AgentReturns, CancelEmits, accesses, tasks, agent
<1>2. events \in Nat /\ events + 1 \in Nat /\ prod.no \in Nat
  BY ProducerFacts, CancelFacts, ManagerAssumption DEF AgentOK
<1>3. ASSUME NEW kind \in Kinds, AgentEmits(kind) PROVE MemoryInv'
  <2>1. queue' = Append(queue, Item(kind, events + 1)) /\ UNCHANGED prod
    BY <1>3 DEF AgentEmits, NextEvent
  <2>2. PICK e \in Event : e = Item(kind, events + 1) /\ e.kind = kind
    BY <1>2, ItemIs
  <2>3. e.kind # "error"
    BY <2>2, ManagerAssumption
  <2> QED BY <1>1, <2>1, <2>2, <2>3, NoErrorPuts, OthersMemory
<1>4. CASE AgentReturns
  <2>1. /\ queue' = Append(queue, Item("end", prod.no))
        /\ prod' = [prod EXCEPT !.at = "wait"]
    BY <1>4 DEF AgentReturns
  <2>2. PICK e \in Event : e = Item("end", prod.no) /\ e.kind = "end"
    BY <1>2, ItemIs
  <2>3. prod'.at = "wait"
    BY <2>1, ProducerFacts
  <2> QED BY <1>1, <2>1, <2>2, <2>3, NoErrorPuts, OthersMemory DEF Marking
<1>5. CASE CancelEmits
  <2>1. queue' = Append(queue, Item("canceled", events + 1)) /\ UNCHANGED prod
    BY <1>5 DEF CancelEmits, NextEvent
  <2>2. PICK e \in Event : e = Item("canceled", events + 1) /\ e.kind = "canceled"
    BY <1>2, ItemIs
  <2> QED BY <1>1, <2>1, <2>2, NoErrorPuts, OthersMemory
<1> QED BY <1>3, <1>4, <1>5

\* The producer does not fail without an exception of the agent, and stops in order.
LEMMA ProducerFailsMemory ==
    ASSUME TypeInv, MemoryInv,
           \/ AgentRaises \/ ProducerEnsured \/ ProducerInserted \/ ProducerFailed \/ ProducerSaveRaises
           \/ ProducerSeesShutdown
    PROVE  MemoryInv'
<1>1. CASE AgentRaises
  <2>1. failed'
    BY <1>1 DEF AgentRaises
  <2> QED BY <2>1 DEF MemoryInv
<1>2. CASE ProducerEnsured \/ ProducerInserted \/ ProducerFailed \/ ProducerSaveRaises
  <2>1. prod.at \in Marking /\ UNCHANGED failed
    BY <1>2 DEF ProducerEnsured, ProducerInserted, ProducerFailed, ProducerSaveRaises, agent, Marking
  <2>2. clean' => clean
    BY <1>2 DEF ProducerEnsured, ProducerInserted, ProducerFailed, ProducerSaveRaises, MarksFailed, Save, Begins, Done
  <2> QED BY <2>1, <2>2 DEF MemoryInv
<1>3. CASE ProducerSeesShutdown
  <2>1. ProducerStops /\ UNCHANGED <<row, clean, current, queue, failed, cons, canc>>
    BY <1>3 DEF ProducerSeesShutdown, accesses, tasks, agent
  <2>2. prod'.at \notin Marking
    BY <2>1, StopsProducer DEF Marking
  <2> QED BY <2>1, <2>2, OthersMemory DEF NoError
<1> QED BY <1>1, <1>2, <1>3

\* cancel() that finds a task in the store but not in memory finds the consumer saving.
LEMMA CancelBeginsMemory ==
    ASSUME TypeInv, MemoryInv, CancelBegins
    PROVE  MemoryInv'
<1>1. /\ row # NoTask
      /\ \/ current # 0 /\ Asks /\ UNCHANGED clean
         \/ current = 0 /\ Get("cancel")
      /\ UNCHANGED <<row, current, queue, failed, cons, prod>>
  BY DEF CancelBegins, accesses, tasks, agentQ, agent
<1>2. clean' => clean
  BY <1>1 DEF Get, Begins
<1>3. CASE current = 0 /\ Get("cancel")
  <2>1. ASSUME clean', ~failed' PROVE FALSE
    <3>1. cons.at \in Storing
      BY <1>1, <1>2, <1>3, <2>1 DEF MemoryInv
    <3>2. access["consumer"].at # "none"
      BY <3>1 DEF TypeInv, ConsumerOK, Saving
    <3> QED BY <1>3, <2>1, <3>2 DEF Get, Begins, Writers
  <2> QED BY <2>1 DEF MemoryInv
<1>4. CASE current # 0 /\ Asks
  <2>1. canc'.at \in {"wait", "agent"}
    BY <1>4, CancelFacts DEF Asks, CancelRecords
  <2> QED BY <1>1, <1>2, <1>4, <2>1, OthersMemory DEF NoError
<1> QED BY <1>1, <1>3, <1>4

\* cancel() stops the producer, after an exception as well.
LEMMA CancelStopsMemory ==
    ASSUME TypeInv, MemoryInv, CancelStopsProducer \/ CancelFails
    PROVE  MemoryInv'
<1>1. /\ canc.at = "agent" /\ canc \in CancelRecords /\ access \in [Writers -> AtStore]
      /\ UNCHANGED <<row, current, failed, cons>>
  BY CancelFacts DEF CancelStopsProducer, CancelFails, tasks, agent
<1>2. ASSUME Interrupts(access) PROVE (clean' => clean) /\ prod'.at \notin Marking
  BY <1>1, <1>2, Interrupted DEF Marking
<1>3. CASE CancelStopsProducer
  <2>1. canc' = [canc EXCEPT !.at = "wait"] /\ Interrupts(access) /\ UNCHANGED queue
    BY <1>3 DEF CancelStopsProducer
  <2>2. canc'.at = "wait"
    BY <1>1, <2>1 DEF CancelRecords
  <2> QED BY <1>1, <1>2, <2>1, <2>2, OthersMemory DEF NoError
<1>4. CASE (current # 0 \/ ~created) /\ Raises(created, access)
  <2>1. canc' = [canc EXCEPT !.at = "raised"] /\ Interrupts(access)
    BY <1>4 DEF Raises
  <2>2. canc'.at = "raised"
    BY <1>1, <2>1 DEF CancelRecords
  <2>3. PICK e \in Event : e = Item("unable", 0) /\ e.kind = "unable"
    BY ItemIs
  <2>4. UNCHANGED queue \/ queue' = Append(queue, e)
    BY <1>4, <2>3 DEF Raises
  <2>5. NoError => NoError'
    BY <2>3, <2>4, NoErrorPuts DEF NoError
  <2> QED BY <1>1, <1>2, <2>1, <2>2, <2>5, OthersMemory
<1>5. CASE current = 0 /\ Get("cancel") /\ UNCHANGED prod
  <2>1. clean' => clean
    BY <1>5 DEF Get, Begins
  <2> QED BY <1>1, <1>5, <2>1 DEF MemoryInv
<1> QED BY <1>3, <1>4, <1>5 DEF CancelFails

\* cancel() closes the task in memory.
LEMMA CancelClosesMemory ==
    ASSUME TypeInv, MemoryInv, CancelCloses \/ CancelSaved
    PROVE  MemoryInv'
<1>1. /\ canc.at \in {"wait", "save"} /\ canc \in CancelRecords
      /\ UNCHANGED <<row, queue, failed, cons, prod>>
  BY CancelFacts DEF CancelCloses, CancelSaved, agentQ, agent
<1>2. clean' => clean
  BY DEF CancelCloses, CancelSaved, Closes, Done, Save, Get, Begins
<1>3. CASE current # 0 /\ Closes(heap, current)
  <2>1. current' = current
    BY <1>3 DEF Closes
  <2>2. canc'.at \in {"returned", "save"}
    BY <1>1, <1>3 DEF Closes, CancelRecords
  <2> QED BY <1>1, <1>2, <1>3, <2>1, <2>2, OthersMemory DEF NoError
<1>4. CASE CancelSaved
  <2>1. current' # 0 /\ canc' = [canc EXCEPT !.at = "returned"]
    BY <1>4, CancelFacts DEF CancelSaved
  <2>2. canc'.at = "returned"
    BY <1>1, <2>1 DEF CancelRecords
  <2> QED BY <1>1, <1>2, <2>1, <2>2 DEF MemoryInv, NoError
<1>5. CASE current = 0 /\ canc.at = "wait"
  BY <1>1, <1>2, <1>5 DEF MemoryInv
<1> QED BY <1>3, <1>4, <1>5 DEF CancelCloses

\* cancel() has no need to look for the task.
LEMMA CancelLooksMemory ==
    ASSUME TypeInv, MemoryInv, CancelGot \/ CancelGotAgain \/ CancelGotFailing
    PROVE  MemoryInv' /\ (clean => failed)
<1>1. canc.at \in {"look", "lookAgain", "failLook"} /\ UNCHANGED failed /\ access \in [Writers -> AtStore]
  BY CancelFacts DEF CancelGot, CancelGotAgain, CancelGotFailing, agent
<1>2. clean' => clean
  <2>1. CASE CancelGot \/ CancelGotAgain
    BY <2>1 DEF CancelGot, CancelGotAgain, Closes, Done, Save, Begins
  <2>2. CASE CancelGotFailing
    BY <2>2 DEF CancelGotFailing, Raises, Interrupts
  <2> QED BY <2>1, <2>2
<1> QED BY <1>1, <1>2 DEF MemoryInv

\* Where there is no task in memory, only the consumer inserts the row.
LEMMA StatementMemory ==
    ASSUME TypeInv, MemoryInv, NEW w \in Writers, Read(w) \/ Commit(w)
    PROVE  MemoryInv'
<1>1. /\ UNCHANGED <<clean, current, queue, failed, prod, cons, canc>>
      /\ row' = row \/ access[w].at = "loaded"
  BY StatementIs
<1>2. SUFFICES ASSUME clean, ~failed PROVE MemoryInv'
  BY <1>1 DEF MemoryInv
<1>3. ASSUME current = 0, cons.at \notin Storing, access[w].at = "loaded" PROVE FALSE
  <2>1. access[w].at \in Saving
    BY <1>3 DEF Saving
  <2>2. w # "consumer"
    BY <1>3, <2>1 DEF TypeInv, ConsumerOK
  <2>3. w # "producer"
    BY <1>2, <2>1 DEF TypeInv, ProducerOK, MemoryInv, Marking
  <2>4. w # "cancel"
    BY <1>2, <1>3, <2>1 DEF TypeInv, CancelOK, MemoryInv
  <2> QED BY <2>2, <2>3, <2>4 DEF Writers
<1>4. NoError' <=> NoError
  BY <1>1 DEF NoError
<1> QED BY <1>1, <1>2, <1>3, <1>4 DEF MemoryInv

\* A step keeps what is known of the task in memory.
LEMMA NextMemoryInv == TypeInv /\ StoreInv /\ MemoryInv /\ [Next]_vars => MemoryInv'
<1> SUFFICES ASSUME TypeInv, StoreInv, MemoryInv, [Next]_vars PROVE MemoryInv'
  OBVIOUS
<1>1. ASSUME NEW w \in Writers, Read(w) \/ Commit(w) PROVE MemoryInv'
  BY <1>1, StatementMemory
<1>2. CASE ConsumerTakesMarker \/ ConsumerTakes \/ ConsumerSeesShutdown
  BY <1>2, TakesMemory
<1>3. CASE ConsumerGot \/ ConsumerEnsured
  BY <1>3, GotMemory
<1>4. CASE ConsumerInserted \/ ConsumerKept \/ ConsumerApplied \/ ConsumerSaveRaises
  BY <1>4, StoredMemory
<1>5. CASE ProducerTakes \/ ProducerGot
  BY <1>5, ProducerTakesMemory, ProducerGotMemory
<1>6. CASE AgentRaises \/ ProducerEnsured \/ ProducerInserted \/ ProducerFailed \/ ProducerSaveRaises \/ ProducerSeesShutdown
  BY <1>6, ProducerFailsMemory
<1>7. CASE (\E kind \in Kinds : AgentEmits(kind)) \/ AgentReturns \/ CancelEmits
  BY <1>7, AgentMemory
<1>8. CASE CancelBegins \/ CancelStopsProducer \/ CancelFails \/ CancelCloses \/ CancelSaved
  BY <1>8, CancelBeginsMemory, CancelStopsMemory, CancelClosesMemory
<1>9. CASE CancelGot \/ CancelGotAgain \/ CancelGotFailing
  BY <1>9, CancelLooksMemory
<1>10. CASE UNCHANGED vars
  BY <1>10 DEF vars, accesses, tasks, flags, agentQ, agent, MemoryInv, NoError
<1> QED BY <1>1, <1>2, <1>3, <1>4, <1>5, <1>6, <1>7, <1>8, <1>9, <1>10 DEF Next

\* start() has the task it found in memory.
LEMMA InitMemoryInv == Init => MemoryInv
  BY DEF Init, MemoryInv, Marking, NoError

-----------------------------------------------------------------------------
(* The history                                                             *)

\* What a task says, with and without a message in its status.
LEMMA SaidIs ==
    ASSUME NEW t \in Task
    PROVE  /\ Said(t) \in Seq(Messages \ {0}) /\ Len(Said(t)) \in Nat
           /\ \A i \in 1..Len(Said(t)) : Said(t)[i] \in Int /\ Said(t)[i] # 0
<1>1. Said(t) \in Seq(Messages \ {0})
  BY TaskOps DEF Said
<1>2. Messages \subseteq Int
  BY ManagerAssumption DEF Messages
<1>3. \A i \in 1..Len(Said(t)) : Said(t)[i] \in Messages \ {0}
  BY <1>1, ElementOfSeq
<1>4. Len(Said(t)) \in Nat
  BY <1>1, LenProperties
<1> QED BY <1>1, <1>2, <1>3, <1>4

\* What a task says is all that counts.
LEMMA SaysTheSame ==
    ASSUME NEW s, NEW t, Said(s) = Said(t), s.note >= 0, NEW no, NEW N, NEW M, M \subseteq N, Tidy(t, no, N)
    PROVE  Tidy(s, no, M)
<1>1. \A i \in 1..Len(Said(s)) :
        /\ Said(s)[i] >= -no \/ Said(s)[i] = -1
        /\ \A n \in M : Said(s)[i] < n
  BY DEF Tidy
<1>2. InOrder(s)
  BY DEF Tidy, InOrder
<1> QED BY <1>1, <1>2 DEF Tidy

\* One message more, of the request at hand or of an event that was ahead.
LEMMA SaysOneMore ==
    ASSUME NEW t \in Task, NEW s, NEW m \in Messages \ {0}, Said(s) = Append(Said(t), m), s.note >= 0,
           NEW no \in Nat, NEW N \in SUBSET Nat, NEW M \in SUBSET N, Tidy(t, no, N),
           \A n \in M : m < n,
           m > 0 => m \in N,
           m < 0 => m = -no /\ \A i \in 1..Len(Said(t)) : Said(t)[i] # m
    PROVE  Tidy(s, no, M)
<1>1. PICK a : a = Said(t)
  OBVIOUS
<1>2. PICK b : b = Said(s)
  OBVIOUS
<1>3. a \in Seq(Messages \ {0}) /\ Len(a) \in Nat /\ \A i \in 1..Len(a) : a[i] \in Int /\ a[i] # 0
  BY <1>1, SaidIs
<1>4. b = Append(a, m)
  BY <1>1, <1>2
<1>5. Len(b) = Len(a) + 1 /\ b[Len(a) + 1] = m /\ \A i \in 1..Len(a) : b[i] = a[i]
  BY <1>3, <1>4, AppendProperties
<1>6. m \in Int /\ m # 0
  BY ManagerAssumption DEF Messages
<1>7. /\ \A i \in 1..Len(a) : (a[i] >= -no \/ a[i] = -1) /\ (\A n \in N : a[i] < n)
      /\ \A i, j \in 1..Len(a) : i < j =>
            a[i] # a[j] /\ (a[i] > 0 /\ a[j] > 0 => a[i] < a[j]) /\ (a[i] < 0 /\ a[j] < 0 => a[i] > a[j])
  BY <1>1 DEF Tidy, InOrder
<1>8. ASSUME NEW i \in 1..Len(a)
      PROVE  a[i] # m /\ (a[i] > 0 /\ m > 0 => a[i] < m) /\ (a[i] < 0 /\ m < 0 => a[i] > m)
  <2>1. CASE m > 0
    <3>1. a[i] < m
      BY <1>7, <2>1
    <3> QED BY <1>3, <1>6, <2>1, <3>1
  <2>2. CASE m < 0
    <3>1. m = -no /\ a[i] # m /\ (a[i] >= -no \/ a[i] = -1)
      BY <1>1, <1>7, <2>2
    <3> QED BY <1>3, <1>6, <2>2, <3>1
  <2> QED BY <1>6, <2>1, <2>2
<1>9. ASSUME NEW i \in 1..Len(b), NEW j \in 1..Len(b), i < j
      PROVE  b[i] # b[j] /\ (b[i] > 0 /\ b[j] > 0 => b[i] < b[j]) /\ (b[i] < 0 /\ b[j] < 0 => b[i] > b[j])
  <2>1. i \in 1..Len(a) /\ b[i] = a[i]
    BY <1>3, <1>5, <1>9
  <2>2. CASE j = Len(a) + 1
    BY <1>5, <1>8, <2>1, <2>2
  <2>3. CASE j \in 1..Len(a)
    BY <1>5, <1>7, <1>9, <2>1, <2>3
  <2> QED BY <1>3, <1>5, <2>2, <2>3
<1>10. ASSUME NEW i \in 1..Len(b)
       PROVE  (b[i] >= -no \/ b[i] = -1) /\ (\A n \in M : b[i] < n)
  <2>1. CASE i \in 1..Len(a)
    BY <1>5, <1>7, <2>1
  <2>2. CASE i = Len(a) + 1
    <3>1. b[i] = m
      BY <1>5, <2>2
    <3>2. m >= -no
      BY <1>6
    <3> QED BY <3>1, <3>2
  <2> QED BY <1>3, <1>5, <2>1, <2>2
<1>11. InOrder(s)
  BY <1>2, <1>9 DEF InOrder
<1> QED BY <1>2, <1>10, <1>11 DEF Tidy

\* A message that was said is said when one more is.
LEMMA TellsStill ==
    ASSUME NEW t \in Task, NEW s, NEW m, Said(s) = Said(t) \/ Said(s) = Append(Said(t), m), NEW no, Tells(t, no)
    PROVE  Tells(s, no)
<1>1. CASE no = 0 \/ Said(s) = Said(t)
  BY <1>1 DEF Tells
<1>2. CASE no # 0 /\ Said(s) = Append(Said(t), m)
  <2>1. PICK a, b : a = Said(t) /\ b = Said(s)
    OBVIOUS
  <2>2. PICK i \in 1..Len(a) : a[i] = -no
    BY <1>2, <2>1 DEF Tells, Contains
  <2>3. b = Append(a, m) /\ Len(a) \in Nat
    BY <1>2, <2>1, SaidIs
  <2>4. Len(b) = Len(a) + 1 /\ b[i] = a[i]
    BY <2>1, <2>3, SaidIs
  <2> QED BY <2>1, <2>2, <2>3, <2>4 DEF Tells, Contains
<1> QED BY <1>1, <1>2

\* A message that is added is said.
LEMMA TellsIt ==
    ASSUME NEW t \in Task, NEW s, NEW no, Said(s) = Append(Said(t), -no)
    PROVE  Tells(s, no)
<1>1. PICK a, b : a = Said(t) /\ b = Said(s)
  OBVIOUS
<1>2. b = Append(a, -no) /\ Len(a) \in Nat
  BY <1>1, SaidIs
<1>3. Len(b) = Len(a) + 1 /\ b[Len(a) + 1] = -no
  BY <1>1, <1>2, SaidIs
<1> QED BY <1>1, <1>2, <1>3 DEF Tells, Contains

\* What is done to a task adds a message or none.
LEMMA WithMessageSays ==
    ASSUME NEW t \in Task, NEW u \in Messages \ {0}
    PROVE  /\ WithMessage(t, u).note = 0
           /\ Said(WithMessage(t, u)) = Append(Said(t), u)
<1>1. /\ WithMessage(t, u).note = 0 /\ WithMessage(t, u).history = Append(Said(t), u)
  BY DEF WithMessage, Said, Task
<1> QED BY <1>1 DEF Said, Noted

\* An event adds its message, or leaves what is said.
LEMMA AppliedSays ==
    ASSUME NEW t \in Task, NEW e \in [kind : Applicable, no : 0..MaxEvents]
    PROVE  /\ \/ Said(Applied(t, e)) = Said(t) /\ Applied(t, e).note \in {t.note, 0}
              \/ /\ e.kind \notin Failing /\ e.no # 0
                 /\ Said(Applied(t, e)) = Append(Said(t), e.no) /\ Applied(t, e).note = e.no
<1>1. CASE e.kind \in {"artifact", "append"}
  <2>1. Applied(t, e) = [t EXCEPT !.parts = IF e.kind = "append" THEN Append(@, e.no) ELSE <<e.no>>]
    BY <1>1 DEF Applied, WithArtifact
  <2>2. Applied(t, e).note = t.note /\ Applied(t, e).history = t.history
    BY <2>1 DEF Task
  <2> QED BY <2>2 DEF Said, Noted
<1>2. CASE e.kind \in Failing
  <2>1. Applied(t, e) = [t EXCEPT !.state = "failed", !.note = 0, !.history = Noted(t)]
    BY <1>2 DEF Applied, Failing
  <2>2. Applied(t, e).note = 0 /\ Applied(t, e).history = Said(t)
    BY <2>1 DEF Task, Said
  <2> QED BY <2>2 DEF Said, Noted
<1>3. CASE e.kind \notin {"artifact", "append"} \cup Failing
  <2>1. Applied(t, e) = [t EXCEPT !.state = e.kind, !.note = e.no, !.history = Noted(t)]
    BY <1>3 DEF Applied, Failing
  <2>2. Applied(t, e).note = e.no /\ Applied(t, e).history = Said(t)
    BY <2>1 DEF Task, Said
  <2> QED BY <1>3, <2>2 DEF Said, Noted
<1> QED BY <1>1, <1>2, <1>3

\* A state alone is no message; neither is what is made anew.
LEMMA StateSays ==
    ASSUME NEW t \in Task, NEW s
    PROVE  Said([t EXCEPT !.state = s]) = Said(t) /\ [t EXCEPT !.state = s].note = t.note
<1>1. [t EXCEPT !.state = s].note = t.note /\ [t EXCEPT !.state = s].history = t.history
  BY DEF Task
<1> QED BY <1>1 DEF Said, Noted

\* What new tasks say.
LEMMA NewSays ==
    /\ Said(NoTask) = <<>> /\ NoTask.note = 0
    /\ Said(NewTask) = <<-1>> /\ NewTask.note = 0
    /\ \A e : \A no \in Int : e.no \in Int \ {0} =>
        /\ Len(Said(AgentsTask(e, no))) = 2 /\ AgentsTask(e, no).note = e.no
        /\ Said(AgentsTask(e, no))[1] = -no /\ Said(AgentsTask(e, no))[2] = e.no
<1>1. NoTask.note = 0 /\ NoTask.history = <<>> /\ NewTask.note = 0 /\ NewTask.history = <<-1>>
  BY DEF NoTask, NewTask
<1>2. ASSUME NEW e, NEW no \in Int, e.no \in Int \ {0}
      PROVE  /\ Len(Said(AgentsTask(e, no))) = 2 /\ AgentsTask(e, no).note = e.no
             /\ Said(AgentsTask(e, no))[1] = -no /\ Said(AgentsTask(e, no))[2] = e.no
  <2>1. PICK a, b : a = <<-no>> /\ b = e.no
    OBVIOUS
  <2>2. AgentsTask(e, no).note = b /\ AgentsTask(e, no).history = a
    BY <2>1 DEF AgentsTask, NoTask
  <2>3. Said(AgentsTask(e, no)) = Append(a, b)
    BY <1>2, <2>1, <2>2 DEF Said, Noted
  <2>4. a \in Seq(Int) /\ b \in Int /\ Len(a) = 1 /\ a[1] = -no
    BY <1>2, <2>1
  <2>5. Len(Append(a, b)) = 2 /\ Append(a, b)[1] = a[1] /\ Append(a, b)[2] = b
    <3>1. /\ Len(Append(a, b)) = Len(a) + 1 /\ Append(a, b)[Len(a) + 1] = b
          /\ \A i \in 1..Len(a) : Append(a, b)[i] = a[i]
      <4>1. PICK S : a \in Seq(S) /\ b \in S
        BY <2>4
      <4>2. PICK p \in Seq(S), q \in S : p = a /\ q = b
        BY <4>1
      <4>3. /\ Len(Append(p, q)) = Len(p) + 1 /\ Append(p, q)[Len(p) + 1] = q
            /\ \A i \in 1..Len(p) : Append(p, q)[i] = p[i]
        BY AppendProperties
      <4> QED BY <4>2, <4>3
    <3>2. 1 \in 1..Len(a) /\ Len(a) + 1 = 2
      BY <2>4
    <3> QED BY <3>1, <3>2
  <2> QED BY <2>1, <2>2, <2>3, <2>4, <2>5
<1> QED BY <1>1, <1>2 DEF Said, Noted

\* New tasks are tidy.
LEMMA NewIsTidy ==
    ASSUME NEW no \in Nat, NEW N \in SUBSET Nat
    PROVE  /\ Tidy(NoTask, no, N)
           /\ Tidy(NewTask, no, N)
           /\ \A e : e.no \in Nat \ {0} /\ no # 0 /\ (\A n \in N : e.no < n) => Tidy(AgentsTask(e, no), no, N)
<1>1. Tidy(NoTask, no, N)
  <2>1. Len(Said(NoTask)) = 0
    BY NewSays
  <2> QED BY <2>1, NewSays DEF Tidy, InOrder
<1>2. Tidy(NewTask, no, N)
  <2>1. Len(Said(NewTask)) = 1 /\ Said(NewTask)[1] = -1 /\ NewTask.note = 0
    BY NewSays
  <2> QED BY <2>1 DEF Tidy, InOrder
<1>3. ASSUME NEW e, e.no \in Nat \ {0}, no # 0, \A n \in N : e.no < n PROVE Tidy(AgentsTask(e, no), no, N)
  <2>1. PICK t : t = AgentsTask(e, no)
    OBVIOUS
  <2>2. Len(Said(t)) = 2 /\ Said(t)[1] = -no /\ Said(t)[2] = e.no /\ t.note = e.no
    BY <1>3, <2>1, NewSays
  <2>3. InOrder(t)
    BY <1>3, <2>2 DEF InOrder
  <2>4. Tidy(t, no, N)
    BY <1>3, <2>2, <2>3 DEF Tidy
  <2> QED BY <2>1, <2>4
<1> QED BY <1>1, <1>2, <1>3

\* A task stays tidy with further requests and events.
LEMMA TidyGrows ==
    ASSUME NEW t \in Task \cup {NoTask}, NEW no \in Nat, NEW now \in Nat, no <= now,
           NEW N \in SUBSET Nat, NEW M \in SUBSET Nat, \A m \in M : \E n \in N : n <= m, Tidy(t, no, N)
    PROVE  Tidy(t, now, M)
<1>1. \A i \in 1..Len(Said(t)) : Said(t)[i] \in Int
  BY SaidIs, NewSays
<1>2. ASSUME NEW i \in 1..Len(Said(t)), NEW m \in M PROVE Said(t)[i] < m
  <2>1. PICK n \in N : n <= m
    OBVIOUS
  <2>2. Said(t)[i] < n
    BY DEF Tidy
  <2> QED BY <1>1, <2>1, <2>2
<1>3. ASSUME NEW i \in 1..Len(Said(t)) PROVE Said(t)[i] >= -now \/ Said(t)[i] = -1
  <2>1. Said(t)[i] >= -no \/ Said(t)[i] = -1
    BY DEF Tidy
  <2> QED BY <1>1, <2>1
<1> QED BY <1>2, <1>3 DEF Tidy

\* The numbers ahead are numbers.
LEMMA AheadIs ==
    ASSUME TypeInv
    PROVE  /\ Rest \in SUBSET Nat /\ Ahead \in SUBSET Nat /\ cons.no \in Nat /\ prod.no \in Nat /\ events \in Nat
           /\ Rest \subseteq Ahead
           /\ \A i \in 1..Len(queue) : queue[i] \in Event /\ queue[i].no \in Nat
<1>1. events \in Nat /\ prod.no \in Nat /\ cons.no \in Nat
  BY ManagerAssumption DEF TypeInv, AgentOK, ProducerOK, ConsumerOK
<1>2. \A i \in 1..Len(queue) : queue[i] \in Event
  BY ElementOfSeq DEF TypeInv, QueueOK
<1>3. \A e \in Event : e.no \in Nat /\ Due(e) \in SUBSET Nat
  BY DEF Event, Due
<1>4. cons.event \in Event
  BY DEF TypeInv, ConsumerOK
<1>5. Rest \in SUBSET Nat
  BY <1>1, <1>2, <1>3 DEF Rest
<1> QED BY <1>1, <1>2, <1>3, <1>4, <1>5 DEF Ahead

\* An event leaves the queue: it was the first of those ahead.
LEMMA OrderTakes ==
    ASSUME TypeInv, WorkOrder, queue # <<>>, queue' = Tail(queue), UNCHANGED events
    PROVE  /\ WorkOrder' /\ Rest' \subseteq Rest
           /\ Head(queue).kind \in Work =>
                Head(queue).no \in Rest /\ Head(queue).no >= 1 /\ \A m \in Rest' : Head(queue).no < m
           /\ StartOrder /\ UNCHANGED prod
                /\ (cons'.no = cons.no \/ (Head(queue).kind = "start" /\ cons'.no = Head(queue).no)) =>
                StartOrder' /\ cons'.no >= cons.no
<1>1. PICK q \in Seq(Event), t \in Seq(Event) : q = queue /\ t = queue'
  BY HeadTailProperties DEF TypeInv, QueueOK
<1>2. /\ Len(t) = Len(q) - 1 /\ Len(q) \in Nat /\ Len(q) >= 1
      /\ \A i \in 1..Len(t) : t[i] = q[i+1]
      /\ Head(q) = q[1]
  <2>1. t = Tail(q) /\ q # <<>>
    BY <1>1
  <2> QED BY <2>1, HeadTailProperties, EmptySeq, LenProperties
<1>3. \A i \in 1..Len(t) : i + 1 \in 1..Len(q) /\ t[i] = q[i + 1] /\ 1 < i + 1
  BY <1>2
<1>4. 1 \in 1..Len(q) /\ \A i \in 1..Len(q) : q[i].no \in Nat
  BY <1>1, <1>2, AheadIs
<1>5. /\ \A i \in 1..Len(q) : q[i].kind \in Work => q[i].no \in 1..events
      /\ \A i, j \in 1..Len(q) : i < j /\ q[i].kind \in Work /\ q[j].kind \in Work => q[i].no < q[j].no
  BY <1>1 DEF WorkOrder
<1>6. events \in Nat /\ cons.no \in Nat /\ prod.no \in Nat
  BY AheadIs
<1>7. WorkOrder'
  <2>1. \A i \in 1..Len(t) : t[i].kind \in Work => t[i].no \in 1..events
    BY <1>3, <1>5
  <2>2. ASSUME NEW i \in 1..Len(t), NEW j \in 1..Len(t), i < j, t[i].kind \in Work, t[j].kind \in Work
        PROVE  t[i].no < t[j].no
    <3>1. i + 1 < j + 1
      BY <2>2
    <3> QED BY <1>3, <1>5, <2>2, <3>1
  <2> QED BY <1>1, <2>1, <2>2 DEF WorkOrder
<1>8. ASSUME NEW m \in Rest' PROVE m \in Rest /\ (q[1].kind \in Work => q[1].no < m)
  <2>1. m = events + 1 \/ \E i \in 1..Len(t) : t[i].kind \in Work /\ m = t[i].no
    BY <1>1 DEF Rest
  <2>2. CASE m = events + 1
    <3>1. q[1].kind \in Work => q[1].no \in 1..events
      BY <1>4, <1>5
    <3> QED BY <1>4, <1>6, <2>2, <3>1 DEF Rest
  <2>3. CASE \E i \in 1..Len(t) : t[i].kind \in Work /\ m = t[i].no
    <3>1. PICK i \in 1..Len(t) : t[i].kind \in Work /\ m = t[i].no
      BY <2>3
    <3>2. i + 1 \in 1..Len(q) /\ q[i + 1].kind \in Work /\ m = q[i + 1].no /\ 1 < i + 1
      BY <1>3, <3>1
    <3> QED BY <1>1, <1>4, <1>5, <3>2 DEF Rest
  <2> QED BY <2>1, <2>2, <2>3
<1>9. q[1].kind \in Work => q[1].no \in Rest /\ q[1].no >= 1
  <2>1. q[1].kind \in Work => q[1].no \in 1..events
    BY <1>4, <1>5
  <2> QED BY <1>1, <1>4, <1>6, <2>1 DEF Rest
<1>10. ASSUME StartOrder, UNCHANGED prod, cons'.no = cons.no \/ (Head(queue).kind = "start" /\ cons'.no = Head(queue).no)
       PROVE  StartOrder' /\ cons'.no >= cons.no
  <2>1. /\ cons.no <= prod.no
        /\ \A i \in 1..Len(q) : q[i].kind = "start" => cons.no <= q[i].no /\ q[i].no <= prod.no
        /\ \A i, j \in 1..Len(q) : i < j /\ q[i].kind = "start" /\ q[j].kind = "start" => q[i].no <= q[j].no
    BY <1>1, <1>10 DEF StartOrder
  <2>2. cons'.no = cons.no \/ (q[1].kind = "start" /\ cons'.no = q[1].no)
    BY <1>1, <1>2, <1>10
  <2>3. ASSUME NEW i \in 1..Len(t), t[i].kind = "start" PROVE cons'.no <= t[i].no /\ t[i].no <= prod.no
    BY <1>3, <1>4, <2>1, <2>2, <2>3
  <2>4. ASSUME NEW i \in 1..Len(t), NEW j \in 1..Len(t), i < j, t[i].kind = "start", t[j].kind = "start"
        PROVE  t[i].no <= t[j].no
    <3>1. i + 1 < j + 1
      BY <2>4
    <3> QED BY <1>3, <2>1, <2>4, <3>1
  <2>5. cons'.no <= prod.no /\ cons'.no >= cons.no
    BY <1>4, <1>6, <2>1, <2>2
  <2> QED BY <1>1, <1>10, <2>3, <2>4, <2>5 DEF StartOrder
<1> QED BY <1>1, <1>2, <1>7, <1>8, <1>9, <1>10

\* An event enters the queue: it is the last of those ahead.
LEMMA OrderPuts ==
    ASSUME TypeInv, WorkOrder, StartOrder, NEW e \in Event, queue' = Append(queue, e), UNCHANGED cons,
           (e.kind \notin Work /\ UNCHANGED events) \/ (e.kind \in Work /\ events' = events + 1 /\ e.no = events + 1),
           prod'.no \in Nat, prod.no <= prod'.no, e.kind = "start" => e.no = prod'.no
    PROVE  /\ WorkOrder' /\ StartOrder'
           /\ \A m \in Rest' : \E n \in Rest : n <= m
<1>1. PICK q \in Seq(Event), t \in Seq(Event) : q = queue /\ t = queue' /\ t = Append(q, e)
  BY AppendProperties DEF TypeInv, QueueOK
<1>2. Len(t) = Len(q) + 1 /\ Len(q) \in Nat /\ t[Len(q) + 1] = e /\ \A i \in 1..Len(q) : t[i] = q[i]
  BY <1>1, AppendProperties
<1>3. \A i \in 1..Len(t) : i \in 1..Len(q) \/ i = Len(q) + 1
  BY <1>2
<1>4. /\ events \in Nat /\ cons.no \in Nat /\ prod.no \in Nat
      /\ \A i \in 1..Len(q) : q[i].no \in Nat
  BY <1>1, AheadIs
<1>5. /\ \A i \in 1..Len(q) : q[i].kind \in Work => q[i].no \in 1..events
      /\ \A i, j \in 1..Len(q) : i < j /\ q[i].kind \in Work /\ q[j].kind \in Work => q[i].no < q[j].no
  BY <1>1 DEF WorkOrder
<1>6. /\ cons.no <= prod.no
      /\ \A i \in 1..Len(q) : q[i].kind = "start" => cons.no <= q[i].no /\ q[i].no <= prod.no
      /\ \A i, j \in 1..Len(q) : i < j /\ q[i].kind = "start" /\ q[j].kind = "start" => q[i].no <= q[j].no
  BY <1>1 DEF StartOrder
<1>7. WorkOrder'
  <2>1. ASSUME NEW i \in 1..Len(t), t[i].kind \in Work PROVE t[i].no \in 1..events'
    <3>1. CASE i \in 1..Len(q)
      BY <1>2, <1>4, <1>5, <2>1, <3>1
    <3>2. CASE i = Len(q) + 1
      BY <1>2, <1>4, <2>1, <3>2
    <3> QED BY <1>3, <3>1, <3>2
  <2>2. ASSUME NEW i \in 1..Len(t), NEW j \in 1..Len(t), i < j, t[i].kind \in Work, t[j].kind \in Work
        PROVE  t[i].no < t[j].no
    <3>1. i \in 1..Len(q) /\ t[i] = q[i]
      BY <1>2, <2>2
    <3>2. CASE j \in 1..Len(q)
      BY <1>2, <1>5, <2>2, <3>1, <3>2
    <3>3. CASE j = Len(q) + 1
      <4>1. t[j] = e /\ e.no = events + 1
        BY <1>2, <2>2, <3>3
      <4>2. q[i].no \in 1..events
        BY <1>5, <2>2, <3>1
      <4> QED BY <1>4, <3>1, <4>1, <4>2
    <3> QED BY <1>3, <3>2, <3>3
  <2> QED BY <1>1, <2>1, <2>2 DEF WorkOrder
<1>8. StartOrder'
  <2>1. ASSUME NEW i \in 1..Len(t), t[i].kind = "start" PROVE cons.no <= t[i].no /\ t[i].no <= prod'.no
    <3>1. CASE i \in 1..Len(q)
      BY <1>2, <1>4, <1>6, <2>1, <3>1
    <3>2. CASE i = Len(q) + 1
      BY <1>2, <1>4, <1>6, <2>1, <3>2
    <3> QED BY <1>3, <3>1, <3>2
  <2>2. ASSUME NEW i \in 1..Len(t), NEW j \in 1..Len(t), i < j, t[i].kind = "start", t[j].kind = "start"
        PROVE  t[i].no <= t[j].no
    <3>1. i \in 1..Len(q) /\ t[i] = q[i]
      BY <1>2, <2>2
    <3>2. CASE j \in 1..Len(q)
      BY <1>2, <1>6, <2>2, <3>1, <3>2
    <3>3. CASE j = Len(q) + 1
      <4>1. t[j].no = prod'.no
        BY <1>2, <2>2, <3>3
      <4> QED BY <1>4, <1>6, <2>2, <3>1, <4>1
    <3> QED BY <1>3, <3>2, <3>3
  <2>3. cons.no <= prod'.no
    BY <1>4, <1>6
  <2> QED BY <1>1, <2>1, <2>2, <2>3 DEF StartOrder
<1>9. ASSUME NEW m \in Rest' PROVE \E n \in Rest : n <= m
  <2>1. m = events' + 1 \/ \E i \in 1..Len(t) : t[i].kind \in Work /\ m = t[i].no
    BY <1>1 DEF Rest
  <2>2. events + 1 \in Rest
    BY DEF Rest
  <2>3. CASE m = events' + 1
    BY <1>4, <2>2, <2>3
  <2>4. CASE \E i \in 1..Len(t) : t[i].kind \in Work /\ m = t[i].no
    <3>1. PICK i \in 1..Len(t) : t[i].kind \in Work /\ m = t[i].no
      BY <2>4
    <3>2. CASE i \in 1..Len(q)
      <4>1. m \in Rest /\ m \in Nat
        BY <1>1, <1>2, <1>4, <3>1, <3>2 DEF Rest
      <4> QED BY <4>1
    <3>3. CASE i = Len(q) + 1
      <4>1. m = events + 1
        BY <1>2, <3>1, <3>3
      <4> QED BY <1>4, <2>2, <4>1
    <3> QED BY <1>3, <3>2, <3>3
  <2> QED BY <2>1, <2>3, <2>4
<1> QED BY <1>7, <1>8, <1>9

\* A step that saves nothing new and finds nothing.
LEMMA HistFrame ==
    ASSUME TypeInv, HistInv, clean' => clean, UNCHANGED <<row, current>>,
           \A i \in 1..Len(heap) : heap'[i] = heap[i],
           cons'.no \in Nat, cons.no <= cons'.no, Ahead' \in SUBSET Nat, \A m \in Ahead' : \E n \in Ahead : n <= m,
           \A w \in Writers : access'[w].at \in Saving => access[w].at \in Saving /\ Hand(w)' = Hand(w)
    PROVE  HistInv'
<1>1. SUFFICES ASSUME clean' PROVE HistInv'
  BY DEF HistInv
<1>2. /\ Tidy(row, cons.no, Ahead)
      /\ current # 0 => Tidy(heap[current], cons.no, Ahead)
      /\ \A w \in Writers : access[w].at \in Saving => Tidy(heap[Hand(w)], cons.no, Ahead)
  BY <1>1 DEF HistInv
<1>3. /\ cons.no \in Nat /\ Ahead \in SUBSET Nat /\ row \in Task \cup {NoTask} /\ heap \in Seq(Task)
      /\ current # 0 => current \in 1..Len(heap)
  BY AheadIs, CancelFacts DEF StoreOK
<1>4. ASSUME NEW t \in Task \cup {NoTask}, Tidy(t, cons.no, Ahead) PROVE Tidy(t, cons'.no, Ahead')
  BY <1>3, <1>4, TidyGrows
<1>5. Tidy(row', cons'.no, Ahead')
  BY <1>2, <1>3, <1>4
<1>6. current' # 0 => Tidy(heap'[current'], cons'.no, Ahead')
  <2>1. current # 0 => heap[current] \in Task /\ heap'[current] = heap[current]
    BY <1>3, ElementOfSeq
  <2> QED BY <1>2, <1>4, <2>1
<1>7. ASSUME NEW w \in Writers, access'[w].at \in Saving PROVE Tidy(heap'[Hand(w)'], cons'.no, Ahead')
  <2>1. Hand(w)' = Hand(w) /\ Hand(w) \in 1..Len(heap) /\ Tidy(heap[Hand(w)], cons.no, Ahead)
    BY <1>2, <1>7, HandsAreTasks
  <2>2. heap[Hand(w)] \in Task /\ heap'[Hand(w)] = heap[Hand(w)]
    BY <1>3, <2>1, ElementOfSeq
  <2> QED BY <1>4, <2>1, <2>2
<1> QED BY <1>5, <1>6, <1>7 DEF HistInv

\* A writer that saves or looks is alone at the store.
LEMMA SavesTell ==
    ASSUME StoreInv', NEW w \in Writers, access'[w].at \in Saving,
           clean' => /\ Tidy(row', cons'.no, Ahead')
                     /\ Tidy(heap'[Hand(w)'], cons'.no, Ahead')
                     /\ w = "cancel" /\ current' # 0 => Tidy(heap'[current'], cons'.no, Ahead')
    PROVE  HistInv'
<1>1. SUFFICES ASSUME clean' PROVE HistInv'
  BY DEF HistInv
<1>2. "none" \notin Saving
  BY DEF Saving
<1>3. Own(w)' /\ \A v \in Writers \ {w} : access'[v].at = "none"
  BY <1>1, <1>2 DEF StoreInv, Alone
<1>4. \A v \in Writers : access'[v].at \in Saving => v = w
  BY <1>2, <1>3
<1>5. w # "cancel" => current' \in {0, Hand(w)'}
  BY <1>3 DEF Own
<1> QED BY <1>1, <1>4, <1>5 DEF HistInv

\* The consumer looks for the task.
LEMMA LooksTell ==
    ASSUME StoreInv', NEW w \in Writers, access'[w].at \in Selecting, clean' => Tidy(row', cons'.no, Ahead')
    PROVE  HistInv'
<1>1. SUFFICES ASSUME clean' PROVE HistInv'
  BY DEF HistInv
<1>2. "none" \notin Saving /\ "none" \notin Selecting /\ access'[w].at \notin Saving
  BY DEF Saving, Selecting
<1>3. Own(w)' /\ \A v \in Writers \ {w} : access'[v].at = "none"
  BY <1>1, <1>2 DEF StoreInv, Alone
<1>4. \A v \in Writers : access'[v].at \notin Saving
  BY <1>2, <1>3
<1>5. current' = 0
  BY <1>3 DEF Own
<1> QED BY <1>1, <1>4, <1>5 DEF HistInv

\* What the consumer can rely on when it goes on with the heap h and the event e.
Telling(h, e) ==
    /\ UNCHANGED <<row, prod, canc, events>>
    /\ WorkOrder' /\ (cons'.no = cons.no => StartOrder')
    /\ Rest' \in SUBSET Nat /\ cons.no \in Nat
    /\ \A n \in Due(e) : n \in Nat /\ n >= 1 /\ \A m \in Rest' : n < m
    /\ unsaved \in {0, -cons.no}
    /\ \A i \in 1..Len(heap) : h[i] = heap[i]
    /\ clean => /\ Tidy(row, cons.no, Rest' \cup Due(e))
                /\ \A w \in Writers \ {"consumer"} :
                      access[w].at \in Saving => Tidy(heap[Hand(w)], cons.no, Rest')

Says(t, e) == clean => Tidy(t, cons.no, Rest' \cup Due(e))

\* A tidy task stays so when fewer events are ahead.
LEMMA TidyLess ==
    ASSUME NEW t, NEW no, NEW N, NEW M, M \subseteq N, Tidy(t, no, N)
    PROVE  Tidy(t, no, M)
  BY DEF Tidy

\* A failure has no number.
LEMMA TellsFailure ==
    ASSUME NEW h, NEW e, Telling(h, e)
    PROVE  /\ Telling(h, Failure) /\ Due(Failure) = {}
           /\ \A t : Says(t, e) => Says(t, Failure)
<1>1. Due(Failure) = {}
  BY FitFacts DEF Due, Failing
<1>2. Rest' \cup Due(Failure) \subseteq Rest' \cup Due(e)
  BY <1>1
<1>3. clean => Tidy(row, cons.no, Rest' \cup Due(Failure))
  BY <1>2, TidyLess DEF Telling
<1>4. \A t : Says(t, e) => Says(t, Failure)
  BY <1>2, TidyLess DEF Says
<1>5. Telling(h, Failure)
  BY <1>1, <1>3 DEF Telling
<1> QED BY <1>1, <1>4, <1>5

\* The numbers ahead, by where the consumer waits.
LEMMA AheadNext ==
    /\ ~Coming' => Ahead' = Rest'
    /\ Coming' => Ahead' = Rest' \cup Due(cons'.event)
<1>1. Due(cons.event)' = Due(cons'.event)
  BY DEF Due
<1> QED BY <1>1 DEF Ahead

\* The consumer stops.
LEMMA StopsTell ==
    ASSUME TypeInv, NEW h \in Seq(Task), NEW c \in 0..Len(h), NEW e, Telling(h, e), c # 0 => Says(h[c], e), Stops(h, c)
    PROVE  OrderInv' /\ HistInv'
<1>1. /\ heap' = h /\ current' = c /\ cons'.at = "over" /\ cons'.no = cons.no /\ unsaved' = unsaved
      /\ access'["consumer"] = NoAccess /\ \A v \in Writers \ {"consumer"} : access'[v] = access[v]
      /\ clean' = clean
  BY StopsFacts DEF TypeInv, StoreOK
<1>2. ~Coming' /\ Ahead' = Rest'
  BY <1>1, AheadNext DEF Coming
<1>3. OrderInv'
  BY <1>1, <1>2 DEF OrderInv, Telling
<1>4. SUFFICES ASSUME clean PROVE HistInv'
  BY <1>1, <1>3 DEF HistInv
<1>5. Tidy(row', cons'.no, Ahead')
  BY <1>1, <1>2, <1>4, TidyLess DEF Telling
<1>6. current' # 0 => Tidy(heap'[current'], cons'.no, Ahead')
  BY <1>1, <1>2, <1>4, TidyLess DEF Says
<1>7. ASSUME NEW w \in Writers, access'[w].at \in Saving PROVE Tidy(heap'[Hand(w)'], cons'.no, Ahead')
  <2>1. w # "consumer" /\ access[w].at \in Saving
    BY <1>1, <1>7 DEF NoAccess, Saving
  <2>2. Hand(w)' = Hand(w) /\ Hand(w) \in 1..Len(heap)
    BY <2>1, HandsAreTasks DEF Telling, Hand
  <2> QED BY <1>1, <1>2, <1>4, <2>1, <2>2 DEF Telling
<1> QED BY <1>3, <1>5, <1>6, <1>7 DEF HistInv

\* The consumer applies an event to a tidy task.
LEMMA AppliesTell ==
    ASSUME TypeInv, StoreInv', NEW h \in Seq(Task), NEW c \in 0..Len(h), NEW o \in 1..Len(h), NEW e, Fit(e),
           Telling(h, e), Says(h[o], e), Applies(h, c, e, o)
    PROVE  OrderInv' /\ HistInv'
<1>1. /\ ConsumerOK /\ access \in [Writers -> AtStore] /\ "consumer" \in Writers
      /\ e \in [kind : Applicable, no : 0..MaxEvents] /\ e \in Event /\ h[o] \in Task
  BY FitFacts, ElementOfSeq DEF TypeInv, StoreOK, Fit, Writers
<1>2. /\ heap'[o] = Applied(h[o], e) /\ unsaved' = 0
      /\ cons'.at = "apply" /\ cons'.hand = o /\ cons'.no = cons.no
      /\ access'["consumer"].at = "begun" /\ (clean' => clean)
  BY <1>1, AppliesFacts
<1>3. ~Coming' /\ Ahead' = Rest'
  BY <1>2, AheadNext DEF Coming
<1>4. OrderInv'
  BY <1>2, <1>3 DEF OrderInv, Telling
<1>5. SUFFICES ASSUME clean PROVE Tidy(row', cons'.no, Ahead') /\ Tidy(heap'[o], cons'.no, Ahead')
  <2>1. access'["consumer"].at \in Saving /\ Hand("consumer")' = o
    BY <1>2 DEF Saving, Hand
  <2> QED BY <1>1, <1>2, <1>4, <2>1, SavesTell
<1>6. Tidy(row', cons'.no, Ahead')
  BY <1>2, <1>3, <1>5, TidyLess DEF Telling
<1>7. PICK t \in Task, s \in Task : t = h[o] /\ s = Applied(h[o], e)
  BY <1>1, TaskOps
<1>8. Tidy(t, cons.no, Rest' \cup Due(e)) /\ t.note >= 0
  BY <1>5, <1>7 DEF Says, Tidy
<1>9. CASE Said(s) = Said(t) /\ s.note \in {t.note, 0}
  <2>1. s.note >= 0
    BY <1>8, <1>9
  <2>2. Tidy(s, cons.no, Rest')
    BY <1>8, <1>9, <2>1, SaysTheSame
  <2> QED BY <1>2, <1>3, <1>6, <1>7, <2>2
<1>10. CASE e.kind \notin Failing /\ e.no # 0 /\ Said(s) = Append(Said(t), e.no) /\ s.note = e.no
  <2>1. Due(e) = {e.no}
    BY <1>10 DEF Due
  <2>2. e.no \in Messages \ {0} /\ e.no \in Nat
    BY <1>1, <1>10, ManagerAssumption DEF Messages
  <2>3. \A n \in Rest' : e.no < n
    BY <2>1 DEF Telling
  <2>4. PICK N \in SUBSET Nat, M \in SUBSET Nat, no \in Nat : N = Rest' \cup Due(e) /\ M = Rest' /\ no = cons.no
    BY <2>1, <2>2 DEF Telling
  <2>5. Tidy(s, no, M)
    <3>1. PICK m \in Messages \ {0} : m = e.no
      BY <2>2
    <3>2. m \in N /\ M \subseteq N /\ Tidy(t, no, N) /\ \A n \in M : m < n
      BY <1>8, <2>1, <2>3, <2>4, <3>1
    <3>3. Said(s) = Append(Said(t), m) /\ s.note >= 0 /\ ~(m < 0)
      BY <1>10, <2>2, <3>1
    <3> QED BY <3>2, <3>3, SaysOneMore
  <2> QED BY <1>2, <1>3, <1>6, <1>7, <2>4, <2>5
<1>11. \/ Said(s) = Said(t) /\ s.note \in {t.note, 0}
       \/ e.kind \notin Failing /\ e.no # 0 /\ Said(s) = Append(Said(t), e.no) /\ s.note = e.no
  BY <1>1, <1>7, AppliedSays
<1> QED BY <1>9, <1>10, <1>11

\* What is neither in the history nor in the status was not said.
LEMMA NotSaid ==
    ASSUME NEW t \in Task, t.note >= 0, NEW u \in Messages, u < 0, ~Contains(t.history, u)
    PROVE  \A i \in 1..Len(Said(t)) : Said(t)[i] # u
<1>1. PICK a \in Seq(Messages \ {0}) : a = t.history
  BY DEF Task
<1>2. \A i \in 1..Len(a) : a[i] # u
  BY <1>1 DEF Contains
<1>3. CASE t.note = 0
  BY <1>1, <1>2, <1>3 DEF Said, Noted
<1>4. CASE t.note # 0
  <2>1. PICK n \in Messages \ {0} : n = t.note
    BY <1>4 DEF Task
  <2>2. PICK b : b = Append(a, n)
    OBVIOUS
  <2>3. Said(t) = b
    BY <1>1, <1>4, <2>1, <2>2 DEF Said, Noted
  <2>4. Len(b) = Len(a) + 1 /\ Len(a) \in Nat /\ b[Len(a) + 1] = n /\ \A i \in 1..Len(a) : b[i] = a[i]
    BY <2>2, AppendProperties
  <2>5. n # u
    BY <2>1, ManagerAssumption DEF Messages
  <2>6. ASSUME NEW i \in 1..Len(b) PROVE b[i] # u
    <3>1. CASE i \in 1..Len(a)
      BY <1>2, <2>4, <3>1
    <3>2. CASE i = Len(a) + 1
      BY <2>4, <2>5, <3>2
    <3> QED BY <2>4, <3>1, <3>2
  <2> QED BY <2>3, <2>6
<1> QED BY <1>3, <1>4

\* The consumer saves the message of the request.
LEMMA MessageTell ==
    ASSUME TypeInv, StoreInv', NEW h \in Seq(Task), NEW o \in 1..Len(h), NEW u \in (-MaxRequests)..0, u # 0, u = unsaved,
           NEW e, Fit(e), Telling(h, e), Says(h[o], e), ~Contains(h[o].history, u), KeepsMessage(h, u, e, o)
    PROVE  OrderInv' /\ HistInv'
<1>0. /\ ConsumerOK /\ access \in [Writers -> AtStore] /\ e \in Event /\ u \in Messages \ {0}
  BY ManagerAssumption DEF TypeInv, StoreOK, Fit, Messages
<1>1. /\ "consumer" \in Writers /\ h[o] \in Task /\ u \in Messages \ {0} /\ u < 0 /\ u = -cons.no
  BY <1>0, ElementOfSeq DEF Writers, Telling
<1>2. /\ heap'[o] = WithMessage(h[o], u) /\ UNCHANGED unsaved
      /\ cons'.at = "keep" /\ cons'.hand = o /\ cons'.no = cons.no /\ cons'.event = e
      /\ access'["consumer"].at = "begun"
      /\ clean' = (clean /\ \A v \in Writers \ {"consumer"} : access[v].at = "none")
  BY <1>0, MessageFacts
<1>3. Coming' /\ Ahead' = Rest' \cup Due(e)
  BY <1>2, AheadNext DEF Coming
<1>4. OrderInv'
  <2>1. Due(cons.event)' = Due(e)
    BY <1>2 DEF Due
  <2> QED BY <1>2, <1>3, <2>1 DEF OrderInv, Telling
<1>5. SUFFICES ASSUME clean PROVE Tidy(row', cons'.no, Ahead') /\ Tidy(heap'[o], cons'.no, Ahead')
  <2>1. access'["consumer"].at \in Saving /\ Hand("consumer")' = o
    BY <1>2 DEF Saving, Hand
  <2> QED BY <1>1, <1>2, <1>4, <2>1, SavesTell
<1>6. Tidy(row', cons'.no, Ahead')
  BY <1>2, <1>3, <1>5 DEF Telling
<1>7. PICK t \in Task, s \in Task : t = h[o] /\ s = WithMessage(h[o], u)
  BY <1>1, TaskOps
<1>8. Tidy(t, cons.no, Rest' \cup Due(e)) /\ t.note >= 0
  BY <1>5, <1>7 DEF Says, Tidy
<1>9. s.note = 0 /\ Said(s) = Append(Said(t), u)
  BY <1>1, <1>7, WithMessageSays
<1>10. \A i \in 1..Len(Said(t)) : Said(t)[i] # u
  <2>1. ~Contains(t.history, u)
    BY <1>7
  <2> QED BY <1>1, <1>8, <2>1, NotSaid
<1>11. PICK N \in SUBSET Nat, no \in Nat : N = Rest' \cup Due(e) /\ no = cons.no
  BY DEF Telling
<1>12. Tidy(s, no, N)
  <2>1. PICK m \in Messages \ {0} : m = u
    BY <1>1
  <2>2. \A n \in N : m < n
    <3>1. m \in Int /\ m < 0
      BY <1>1, <2>1, ManagerAssumption DEF Messages
    <3> QED BY <3>1
  <2>3. Tidy(t, no, N) /\ Said(s) = Append(Said(t), m) /\ s.note >= 0 /\ ~(m > 0) /\ m = -no
    BY <1>1, <1>8, <1>9, <1>11, <2>1, ManagerAssumption DEF Messages
  <2> QED BY <1>10, <2>1, <2>2, <2>3, SaysOneMore
<1> QED BY <1>2, <1>3, <1>6, <1>7, <1>11, <1>12

\* The consumer looks for the task and keeps what is in memory.
LEMMA SeeksTell ==
    ASSUME TypeInv, StoreInv', NEW h, NEW for \in Purposes, NEW e \in Event, NEW c, Telling(h, e), Looks(h, c, for, e)
    PROVE  OrderInv' /\ HistInv'
<1>1. /\ unsaved' \in {0, unsaved} /\ cons'.at = "look" /\ cons'.event = e /\ cons'.no = cons.no
      /\ access'["consumer"].at = "select" /\ (clean' => clean) /\ "consumer" \in Writers
  BY LooksFacts DEF TypeInv, StoreOK, Writers
<1>2. Coming' /\ Ahead' = Rest' \cup Due(e)
  BY <1>1, AheadNext DEF Coming
<1>3. OrderInv'
  <2>1. Due(cons.event)' = Due(e)
    BY <1>1 DEF Due
  <2> QED BY <1>1, <1>2, <2>1 DEF OrderInv, Telling
<1>4. clean' => Tidy(row', cons'.no, Ahead')
  BY <1>1, <1>2 DEF Telling
<1>5. access'["consumer"].at \in Selecting
  BY <1>1 DEF Selecting
<1> QED BY <1>1, <1>3, <1>4, <1>5, LooksTell

\* process() of a tidy task.
LEMMA ProcessesTell ==
    ASSUME TypeInv, StoreInv', NEW h \in Seq(Task), NEW c \in 0..Len(h), NEW o \in 1..Len(h), NEW e, Fit(e),
           Telling(h, e), Says(h[o], e), c # 0 => Says(h[c], e), Processes(h, c, e, o)
    PROVE  OrderInv' /\ HistInv'
<1>1. \/ Stops(h, c)
      \/ Applies(h, c, Failure, o)
      \/ Applies(h, c, e, o)
  BY ProcessesMeans
<1>2. CASE Stops(h, c)
  BY <1>2, StopsTell
<1>3. CASE Applies(h, c, Failure, o)
  BY <1>3, TellsFailure, FitFacts, AppliesTell
<1>4. CASE Applies(h, c, e, o)
  BY <1>4, AppliesTell
<1> QED BY <1>1, <1>2, <1>3, <1>4

\* An event that modifies a tidy task.
LEMMA KeepsTell ==
    ASSUME TypeInv, StoreInv', NEW h \in Seq(Task), NEW c \in 0..Len(h), NEW u \in (-MaxRequests)..0, u = unsaved,
           NEW o \in 1..Len(h), NEW e, Fit(e),
           Telling(h, e), Says(h[o], e), c # 0 => Says(h[c], e), Keeps(h, c, u, e, o)
    PROVE  OrderInv' /\ HistInv'
<1>1. \/ u # 0 /\ ~Contains(h[o].history, u) /\ KeepsMessage(h, u, e, o)
      \/ c # 0 /\ Processes(h, c, e, c)
      \/ c = 0 /\ Looks(h, c, "apply", e)
  BY KeepsMeans
<1>2. (c # 0 => c \in 1..Len(h)) /\ "apply" \in Purposes /\ e \in Event
  BY DEF Purposes, Fit
<1>3. CASE u # 0 /\ ~Contains(h[o].history, u) /\ KeepsMessage(h, u, e, o)
  BY <1>3, MessageTell
<1>4. CASE c # 0 /\ Processes(h, c, e, c)
  BY <1>2, <1>4, ProcessesTell
<1>5. CASE c = 0 /\ Looks(h, c, "apply", e)
  BY <1>2, <1>5, SeeksTell
<1> QED BY <1>1, <1>3, <1>4, <1>5

\* An exception in the consumer.
LEMMA FailsTell ==
    ASSUME TypeInv, StoreInv', NEW h \in Seq(Task), NEW c \in 0..Len(h), NEW u \in (-MaxRequests)..0, u = unsaved,
           NEW e, Telling(h, e), c # 0 => Says(h[c], e), Fails(h, c, u)
    PROVE  OrderInv' /\ HistInv'
<1>1. \/ c = 0 /\ Looks(h, c, "fail", Failure)
      \/ Stops(h, c)
      \/ c # 0 /\ Keeps(h, c, u, Failure, c)
  BY FailsMeans
<1>2. /\ (c # 0 => c \in 1..Len(h)) /\ "fail" \in Purposes /\ Fit(Failure) /\ Failure \in Event
      /\ Telling(h, Failure) /\ (c # 0 => Says(h[c], Failure))
  BY FitFacts, TellsFailure DEF Purposes, Fit
<1>3. CASE c = 0 /\ Looks(h, c, "fail", Failure)
  BY <1>2, <1>3, SeeksTell
<1>4. CASE Stops(h, c)
  BY <1>4, StopsTell
<1>5. CASE c # 0 /\ Keeps(h, c, u, Failure, c)
  BY <1>2, <1>5, KeepsTell
<1> QED BY <1>1, <1>3, <1>4, <1>5

\* What the consumer goes on with was tidy.
LEMMA TellingHolds ==
    ASSUME TypeInv, OrderInv, HistInv, UNCHANGED <<row, prod, canc, events>>,
           WorkOrder', cons'.no = cons.no => StartOrder', Rest' \subseteq Rest,
           NEW h, \A i \in 1..Len(heap) : h[i] = heap[i],
           NEW e, Due(e) \subseteq Ahead, \A n \in Due(e) : n >= 1 /\ \A m \in Rest' : n < m
    PROVE  /\ Telling(h, e)
           /\ \A t : (clean => Tidy(t, cons.no, Ahead)) => Says(t, e)
<1>1. /\ Rest \in SUBSET Nat /\ Ahead \in SUBSET Nat /\ cons.no \in Nat /\ Rest \subseteq Ahead
  BY AheadIs
<1>2. Rest' \subseteq Ahead /\ Rest' \cup Due(e) \subseteq Ahead /\ Rest' \in SUBSET Nat
  BY <1>1
<1>3. \A n \in Due(e) : n \in Nat
  BY <1>1
<1>4. ASSUME clean
      PROVE  /\ Tidy(row, cons.no, Rest' \cup Due(e))
             /\ \A w \in Writers \ {"consumer"} : access[w].at \in Saving => Tidy(heap[Hand(w)], cons.no, Rest')
  BY <1>2, <1>4, TidyLess DEF HistInv
<1>5. Telling(h, e)
  BY <1>1, <1>2, <1>3, <1>4 DEF Telling, OrderInv
<1>6. \A t : (clean => Tidy(t, cons.no, Ahead)) => Says(t, e)
  BY <1>2, TidyLess DEF Says
<1> QED BY <1>5, <1>6

\* What is ahead while the queue stays.
LEMMA SameQueue ==
    ASSUME OrderInv, UNCHANGED <<queue, events, prod>>
    PROVE  WorkOrder' /\ (cons'.no = cons.no => StartOrder') /\ Rest' = Rest
<1>1. WorkOrder'
  BY DEF OrderInv, WorkOrder
<1>2. cons'.no = cons.no => StartOrder'
  BY DEF OrderInv, StartOrder
<1>3. Rest' = Rest
  BY DEF Rest
<1> QED BY <1>1, <1>2, <1>3

\* The consumer takes the marker of a request.
LEMMA MarkerTells ==
    ASSUME TypeInv, OrderInv, HistInv, ConsumerTakesMarker
    PROVE  OrderInv' /\ HistInv'
<1>1. /\ cons.at = "take" /\ queue # <<>> /\ queue' = Tail(queue)
      /\ \/ /\ Head(queue).kind = "start" /\ unsaved' = -Head(queue).no
            /\ cons' = [cons EXCEPT !.no = Head(queue).no]
         \/ UNCHANGED <<unsaved, cons>>
      /\ UNCHANGED <<row, access, clean, heap, current, events, prod, canc>>
  BY DEF ConsumerTakesMarker, accesses, tasks
<1>2. /\ cons'.at = "take" /\ cons'.hand = cons.hand
      /\ cons'.no = cons.no \/ (Head(queue).kind = "start" /\ cons'.no = Head(queue).no)
      /\ unsaved' = -cons'.no \/ (unsaved' = unsaved /\ cons'.no = cons.no)
  <2>1. cons \in [at : {"take", "over"} \cup Busy, for : Purposes, no : 0..MaxRequests, event : Event, hand : Nat]
    BY DEF TypeInv, ConsumerOK
  <2> QED BY <1>1, <2>1
<1>3. WorkOrder' /\ Rest' \subseteq Rest /\ StartOrder' /\ cons'.no >= cons.no
  BY <1>1, <1>2, OrderTakes DEF OrderInv
<1>4. ~Coming /\ ~Coming' /\ Ahead = Rest /\ Ahead' = Rest'
  BY <1>1, <1>2, AheadNext DEF Coming, Ahead
<1>5. OrderInv'
  BY <1>2, <1>3, <1>4 DEF OrderInv
<1>6. Rest \in SUBSET Nat /\ cons.no \in Nat /\ cons'.no \in Nat
  <2>1. \A i \in 1..Len(queue) : queue[i].no \in Nat
    BY AheadIs
  <2>2. Head(queue) = queue[1] /\ 1 \in 1..Len(queue)
    BY <1>1, HeadFacts
  <2> QED BY <1>2, <2>1, <2>2, AheadIs
<1>7. Ahead' \in SUBSET Nat /\ \A m \in Ahead' : \E n \in Ahead : n <= m
  BY <1>3, <1>4, <1>6
<1>8. \A w \in Writers : access'[w].at \in Saving => access[w].at \in Saving /\ Hand(w)' = Hand(w)
  BY <1>1, <1>2 DEF Hand
<1>9. cons.no <= cons'.no
  BY <1>3, <1>6
<1>10. HistInv'
  BY <1>1, <1>6, <1>7, <1>8, <1>9, HistFrame
<1> QED BY <1>5, <1>10

\* The consumer takes an event.
LEMMA TakesTells ==
    ASSUME TypeInv, StoreInv', OrderInv, HistInv, ConsumerTakes
    PROVE  OrderInv' /\ HistInv'
<1>1. /\ cons.at = "take" /\ queue # <<>> /\ queue' = Tail(queue) /\ UNCHANGED <<row, prod, canc, events>>
  BY DEF ConsumerTakes, agent
<1>2. PICK e, u : e = Head(queue) /\ u = unsaved
  OBVIOUS
<1>3. \/ e.kind = "error" /\ Fails(heap, current, u)
      \/ UNCHANGED <<access, clean, heap, current, cons>> /\ unsaved' = 0
      \/ e.kind = "task" /\ current = 0 /\ Looks(heap, 0, "get", e)
      \/ /\ e.kind \notin {"start", "end", "error", "task"}
         /\ \/ current # 0 /\ Keeps(heap, current, u, e, current)
            \/ current = 0 /\ Looks(heap, 0, "get", e)
            \/ current = 0 /\ Looks(heap, 0, "ensure", e)
  BY <1>2 DEF ConsumerTakes, accesses, tasks
<1>4. /\ e \in Event /\ e = queue[1] /\ 1 \in 1..Len(queue)
      /\ e.kind \notin {"start", "end", "error", "task"} => Fit(e)
  BY <1>1, <1>2, HeadFacts
<1>5. /\ heap \in Seq(Task) /\ Len(heap) \in Nat /\ current \in 0..Len(heap) /\ u \in (-MaxRequests)..0
      /\ "get" \in Purposes /\ "ensure" \in Purposes /\ (current # 0 => current \in 1..Len(heap))
  BY <1>2 DEF TypeInv, TasksOK, Purposes
<1>6. /\ WorkOrder' /\ Rest' \subseteq Rest /\ (cons'.no = cons.no => StartOrder')
      /\ e.kind \in Work => e.no \in Rest /\ e.no >= 1 /\ \A m \in Rest' : e.no < m
  BY <1>1, <1>2, OrderTakes DEF OrderInv
<1>7. ~Coming /\ Ahead = Rest /\ Rest \in SUBSET Nat /\ cons.no \in Nat
  BY <1>1, AheadIs DEF Coming, Ahead
<1>8. clean /\ current # 0 => Tidy(heap[current], cons.no, Ahead)
  BY DEF HistInv
<1>9. Telling(heap, Failure) /\ (current # 0 => Says(heap[current], Failure))
  <2>1. Due(Failure) = {}
    BY FitFacts DEF Due, Failing
  <2>2. Due(Failure) \subseteq Ahead /\ \A n \in Due(Failure) : n >= 1 /\ \A m \in Rest' : n < m
    BY <2>1
  <2> QED BY <1>1, <1>6, <1>8, <2>2, TellingHolds
<1>10. ASSUME e.kind \notin {"start", "end", "error"} PROVE Telling(heap, e) /\ (current # 0 => Says(heap[current], e))
  <2>1. e.kind \in Work \/ e.kind \in Failing
    BY <1>4, <1>10 DEF Event, Work, Failing
  <2>2. Due(e) \subseteq Ahead /\ \A n \in Due(e) : n >= 1 /\ \A m \in Rest' : n < m
    BY <1>6, <1>7, <2>1 DEF Due
  <2> QED BY <1>1, <1>6, <1>8, <2>2, TellingHolds
<1>11. CASE e.kind = "error" /\ Fails(heap, current, u)
  BY <1>2, <1>5, <1>9, <1>11, FailsTell
<1>12. CASE UNCHANGED <<access, clean, heap, current, cons>> /\ unsaved' = 0
  <2>1. ~Coming' /\ Ahead' = Rest' /\ cons'.no = cons.no
    BY <1>1, <1>12, AheadNext DEF Coming
  <2>2. OrderInv'
    BY <1>6, <1>12, <2>1 DEF OrderInv
  <2>3. Ahead' \in SUBSET Nat /\ \A m \in Ahead' : \E n \in Ahead : n <= m
    BY <1>6, <1>7, <2>1
  <2>4. \A w \in Writers : access'[w].at \in Saving => access[w].at \in Saving /\ Hand(w)' = Hand(w)
    BY <1>1, <1>12 DEF Hand
  <2>5. cons'.no \in Nat /\ cons.no <= cons'.no
    BY <1>7, <2>1
  <2>6. HistInv'
    BY <1>1, <1>12, <2>3, <2>4, <2>5, HistFrame
  <2> QED BY <2>2, <2>6
<1>13. CASE e.kind \notin {"start", "end", "error"} /\ (Looks(heap, 0, "get", e) \/ Looks(heap, 0, "ensure", e))
  BY <1>4, <1>5, <1>10, <1>13, SeeksTell
<1>14. CASE e.kind \notin {"start", "end", "error", "task"} /\ current # 0 /\ Keeps(heap, current, u, e, current)
  BY <1>2, <1>4, <1>5, <1>10, <1>14, KeepsTell
<1> QED BY <1>3, <1>11, <1>12, <1>13, <1>14

\* While the consumer waits with its event.
LEMMA WaitingTells ==
    ASSUME TypeInv, OrderInv, HistInv, UNCHANGED <<row, prod, canc, events, queue>>,
           NEW h, \A i \in 1..Len(heap) : h[i] = heap[i],
           NEW e, (Coming /\ e = cons.event) \/ e = Failure
    PROVE  /\ Telling(h, e) /\ Rest' = Rest
           /\ \A t : (clean => Tidy(t, cons.no, Ahead)) => Says(t, e)
<1>1. WorkOrder' /\ (cons'.no = cons.no => StartOrder') /\ Rest' = Rest
  BY SameQueue
<1>2. Due(Failure) = {}
  BY FitFacts DEF Due, Failing
<1>3. Coming => Ahead = Rest \cup Due(cons.event)
  BY DEF Ahead
<1>4. Due(e) \subseteq Ahead /\ \A n \in Due(e) : n >= 1 /\ \A m \in Rest' : n < m
  BY <1>1, <1>2, <1>3 DEF OrderInv
<1>5. Rest' \subseteq Rest
  BY <1>1
<1> QED BY <1>1, <1>4, <1>5, TellingHolds

\* The consumer goes on with what get_task() found.
LEMMA GotTells ==
    ASSUME TypeInv, StoreInv, StoreInv', OrderInv, HistInv, ConsumerGot
    PROVE  OrderInv' /\ HistInv'
<1>1. /\ cons.at = "look" /\ cons.for \in {"get", "fail"} /\ Returned("consumer") /\ UNCHANGED <<row, prod, canc, events, queue>>
      /\ "consumer" \in Writers /\ cons.at \in Busy /\ access \in [Writers -> AtStore]
  BY DEF ConsumerGot, Writers, Busy, TypeInv, StoreOK, agent
<1>0. access["consumer"].at = "selected"
  BY <1>1 DEF TypeInv, ConsumerOK, Returned, Selecting
<1>2. PICK h, c, f, e, u : h = Append(heap, Found("consumer")) /\ c = Len(h) /\ f = Found("consumer") /\ e = cons.event /\ u = unsaved
  OBVIOUS
<1>3. \/ /\ f # NoTask
         /\ heap' = h /\ current' = c
         /\ Done("consumer") /\ unsaved' = 0
         /\ cons' = [cons EXCEPT !.at = "take"]
      \/ f # NoTask /\ Fails(h, c, u)
      \/ f # NoTask /\ e.kind # "task" /\ Keeps(h, c, u, e, c)
      \/ /\ f = NoTask /\ e.kind = "task"
         /\ heap' = Append(heap, AgentsTask(e, cons.no)) /\ current' = 0
         /\ Save("consumer", AgentsTask(e, cons.no)) /\ UNCHANGED unsaved
         /\ Waits("apply", "apply", e, c)
      \/ f = NoTask /\ Fails(heap, 0, u)
      \/ f = NoTask /\ Stops(heap, 0)
  BY <1>2 DEF ConsumerGot
<1>4. /\ heap \in Seq(Task) /\ Len(heap) \in Nat /\ current \in 0..Len(heap) /\ u \in (-MaxRequests)..0
      /\ f \in Task \cup {NoTask} /\ e \in Event /\ Pending(e) /\ (e.kind # "task" => Fit(e)) /\ cons.no \in 0..MaxRequests
      /\ 0 \in 0..Len(heap)
  BY <1>1, <1>2, FoundFacts
<1>5. f # NoTask => /\ h \in Seq(Task) /\ c \in 1..Len(h) /\ c \in 0..Len(h) /\ h[c] = f
                    /\ \A i \in 1..Len(heap) : h[i] = heap[i]
  BY <1>1, <1>2, FoundIs
<1>6. clean => Alone("consumer") /\ f = row
  BY <1>0, <1>1, <1>2, WhoIsThere DEF Own, Found
<1>7. clean => Tidy(f, cons.no, Ahead)
  BY <1>6 DEF HistInv
<1>8. Coming
  BY <1>1 DEF Coming
<1>9. /\ Telling(heap, e) /\ Telling(heap, Failure) /\ Rest' = Rest
      /\ Says(f, e) /\ Says(f, Failure)
  BY <1>1, <1>2, <1>7, <1>8, WaitingTells
<1>10. f # NoTask => Telling(h, e) /\ Telling(h, Failure)
  BY <1>1, <1>2, <1>5, <1>8, WaitingTells
<1>11. CASE f # NoTask /\ heap' = h /\ current' = c /\ Done("consumer") /\ unsaved' = 0 /\ cons' = [cons EXCEPT !.at = "take"]
  <2>1. /\ access'["consumer"] = NoAccess /\ \A v \in Writers \ {"consumer"} : access'[v] = access[v]
        /\ clean' = clean /\ NoAccess.at = "none"
    BY <1>1, <1>11, AccessOps
  <2>2. cons'.at = "take" /\ cons'.no = cons.no
    <3>1. cons \in [at : {"take", "over"} \cup Busy, for : Purposes, no : 0..MaxRequests, event : Event, hand : Nat]
      BY DEF TypeInv, ConsumerOK
    <3> QED BY <1>11, <3>1
  <2>3. ~Coming' /\ Ahead' = Rest'
    BY <2>2, AheadNext DEF Coming
  <2>4. OrderInv'
    BY <1>9, <1>11, <2>2, <2>3 DEF OrderInv, Telling
  <2>5. SUFFICES ASSUME clean PROVE HistInv'
    BY <2>1, <2>4 DEF HistInv
  <2>6. \A w \in Writers : access'[w].at \notin Saving
    BY <1>6, <2>1, <2>5 DEF Alone, Saving
  <2>7. Tidy(row, cons.no, Rest') /\ Tidy(f, cons.no, Rest')
    BY <1>9, <2>5, TidyLess DEF Telling, Says
  <2> QED BY <1>1, <1>5, <1>11, <2>2, <2>3, <2>4, <2>6, <2>7 DEF HistInv
<1>12. CASE f # NoTask /\ Fails(h, c, u)
  BY <1>2, <1>4, <1>5, <1>9, <1>10, <1>12, FailsTell
<1>13. CASE f # NoTask /\ e.kind # "task" /\ Keeps(h, c, u, e, c)
  BY <1>2, <1>4, <1>5, <1>9, <1>10, <1>13, KeepsTell
<1>14. CASE /\ e.kind = "task"
         /\ heap' = Append(heap, AgentsTask(e, cons.no)) /\ current' = 0
         /\ Save("consumer", AgentsTask(e, cons.no)) /\ UNCHANGED unsaved
         /\ Waits("apply", "apply", e, c)
  <2>1. e \in [kind : Work, no : 0..MaxEvents] /\ cons.no \in 1..MaxRequests
    <3>1. cons.no >= 1
      BY <1>1, <1>2, <1>14 DEF TypeInv, ConsumerOK
    <3> QED BY <1>4, <1>14, <3>1, ManagerAssumption DEF Event, Pending, Failing
  <2>2. PICK t \in Task : t = AgentsTask(e, cons.no)
    BY <2>1, NewTasks
  <2>3. heap' = Append(heap, t) /\ Save("consumer", t)
    BY <1>14, <2>2
  <2>4. heap'[Len(heap) + 1] = t
    BY <1>4, <2>3, Extends
  <2>5. access'["consumer"].at = "begun" /\ (clean' => clean)
    BY <1>1, <2>3, AccessOps
  <2>6. c = Len(heap) + 1
    <3>1. heap \in Seq(Task \cup {NoTask})
      BY <1>4, ElementOfSeq, SeqDef
    <3> QED BY <1>2, <1>4, <3>1, AppendProperties
  <2>7. cons'.hand = c /\ cons'.at = "apply" /\ cons'.no = cons.no
    <3>1. c \in Nat /\ "apply" \in Busy /\ "apply" \in Purposes /\ ConsumerOK
      BY <1>4, <2>6 DEF Busy, Storing, Purposes, TypeInv
    <3> QED BY <1>4, <1>14, <3>1, WaitsIs
  <2>8. ~Coming' /\ Ahead' = Rest'
    BY <2>7, AheadNext DEF Coming
  <2>9. OrderInv'
    BY <1>9, <1>14, <2>7, <2>8 DEF OrderInv, Telling
  <2>10. Due(e) = {e.no}
    BY <1>14 DEF Due, Failing
  <2>11. PICK N \in SUBSET Nat, no \in Nat : N = Rest' /\ no = cons.no /\ no # 0 /\ e.no \in Nat \ {0} /\ \A n \in N : e.no < n
    <3>1. Rest' \in SUBSET Nat /\ cons.no \in Nat /\ e.no \in Nat
      BY <1>9, <2>10 DEF Telling
    <3>2. e.no >= 1 /\ \A n \in Rest' : e.no < n
      BY <1>9, <2>10 DEF Telling
    <3> QED BY <2>1, <3>1, <3>2
  <2>12. Tidy(t, cons.no, Rest')
    <3>1. Tidy(AgentsTask(e, no), no, N)
      BY <2>11, NewIsTidy
    <3> QED BY <2>2, <2>11, <3>1
  <2>13. clean => Tidy(row, cons.no, Rest')
    BY <1>9, TidyLess DEF Telling
  <2>14. access'["consumer"].at \in Saving /\ Hand("consumer")' = c
    BY <2>5, <2>7 DEF Saving, Hand
  <2>15. HistInv'
    BY <1>1, <2>4, <2>5, <2>6, <2>7, <2>8, <2>12, <2>13, <2>14, SavesTell
  <2> QED BY <2>9, <2>15
<1>15. CASE Fails(heap, 0, u)
  BY <1>2, <1>4, <1>9, <1>15, FailsTell
<1>16. CASE Stops(heap, 0)
  BY <1>4, <1>9, <1>16, StopsTell
<1> QED BY <1>3, <1>11, <1>12, <1>13, <1>14, <1>15, <1>16

\* The consumer goes on with what ensure_task_id() found.
LEMMA EnsuredTells ==
    ASSUME TypeInv, StoreInv, StoreInv', OrderInv, HistInv, ConsumerEnsured
    PROVE  OrderInv' /\ HistInv'
<1>1. /\ cons.at = "look" /\ cons.for \in {"ensure", "apply"} /\ Returned("consumer")
      /\ UNCHANGED <<row, prod, canc, events, queue>>
      /\ "consumer" \in Writers /\ cons.at \in Busy /\ access \in [Writers -> AtStore]
  BY DEF ConsumerEnsured, Writers, Busy, TypeInv, StoreOK, agent
<1>0. access["consumer"].at = "selected"
  BY <1>1 DEF TypeInv, ConsumerOK, Returned, Selecting
<1>2. PICK h, c, f, e, u, d : /\ h = Append(heap, Found("consumer")) /\ c = Len(h) /\ f = Found("consumer") /\ e = cons.event
                              /\ u = unsaved /\ d = current
  OBVIOUS
<1>3. \/ f # NoTask /\ Keeps(h, d, u, e, c)
      \/ f # NoTask /\ Processes(h, d, e, c)
      \/ /\ heap' = Append(heap, NewTask) /\ UNCHANGED <<current, unsaved>>
         /\ Save("consumer", NewTask)
         /\ Waits("insert", cons.for, e, c)
  BY <1>2 DEF ConsumerEnsured
<1>4. /\ heap \in Seq(Task) /\ Len(heap) \in Nat /\ current \in 0..Len(heap) /\ u \in (-MaxRequests)..0
      /\ f \in Task \cup {NoTask} /\ e \in Event /\ Fit(e) /\ cons.for \in Purposes
  <2>1. cons.event.kind # "task"
    BY <1>1 DEF TypeInv, ConsumerOK
  <2> QED BY <1>1, <1>2, <2>1, FoundFacts
<1>5. f # NoTask => /\ h \in Seq(Task) /\ c \in 1..Len(h) /\ d \in 0..Len(h) /\ h[c] = f
                    /\ \A i \in 1..Len(heap) : h[i] = heap[i]
  BY <1>1, <1>2, FoundIs
<1>6. clean => Alone("consumer") /\ d = 0 /\ f = row
  BY <1>0, <1>1, <1>2, WhoIsThere DEF Own, Selecting, Found
<1>7. clean => Tidy(f, cons.no, Ahead)
  BY <1>6 DEF HistInv
<1>8. Coming
  BY <1>1 DEF Coming
<1>9. Telling(heap, e) /\ Rest' = Rest /\ Says(f, e) /\ (f # NoTask => Telling(h, e))
  BY <1>1, <1>2, <1>5, <1>7, <1>8, WaitingTells
<1>10. d # 0 => Says(h[d], e)
  BY <1>6 DEF Says
<1>11. CASE f # NoTask /\ Keeps(h, d, u, e, c)
  BY <1>2, <1>4, <1>5, <1>9, <1>10, <1>11, KeepsTell
<1>12. CASE f # NoTask /\ Processes(h, d, e, c)
  BY <1>4, <1>5, <1>9, <1>10, <1>12, ProcessesTell
<1>13. CASE /\ heap' = Append(heap, NewTask) /\ UNCHANGED <<current, unsaved>>
         /\ Save("consumer", NewTask)
         /\ Waits("insert", cons.for, e, c)
  <2>2. PICK t \in Task : t = NewTask
    BY NewTasks, ManagerAssumption
  <2>3. heap' = Append(heap, t) /\ Save("consumer", t)
    BY <1>13, <2>2
  <2>4. heap'[Len(heap) + 1] = t
    BY <1>4, <2>3, Extends
  <2>5. access'["consumer"].at = "begun" /\ (clean' => clean)
    BY <1>1, <2>3, AccessOps
  <2>6. c = Len(heap) + 1
    <3>1. heap \in Seq(Task \cup {NoTask})
      BY <1>4, ElementOfSeq, SeqDef
    <3> QED BY <1>2, <1>4, <3>1, AppendProperties
  <2>7. cons'.hand = c /\ cons'.at = "insert" /\ cons'.no = cons.no /\ cons'.event = e
    <3>1. c \in Nat /\ "insert" \in Busy /\ ConsumerOK
      BY <1>4, <2>6 DEF Busy, Storing, TypeInv
    <3>2. PICK for \in Purposes : for = cons.for
      BY <1>4
    <3>3. Waits("insert", for, e, c)
      BY <1>13, <3>2
    <3> QED BY <1>4, <3>1, <3>3, WaitsIs
  <2>8. Coming' /\ Ahead' = Rest' \cup Due(e)
    BY <2>7, AheadNext DEF Coming
  <2>9. OrderInv'
    <3>1. Due(cons.event)' = Due(e)
      BY <2>7 DEF Due
    <3> QED BY <1>9, <1>13, <2>7, <2>8, <3>1 DEF OrderInv, Telling
  <2>10. PICK N \in SUBSET Nat, no \in Nat : N = Rest' \cup Due(e) /\ no = cons.no
    BY <1>9 DEF Telling
  <2>11. Tidy(t, cons.no, Rest' \cup Due(e))
    <3>1. Tidy(NewTask, no, N)
      BY <2>10, NewIsTidy
    <3> QED BY <2>2, <2>10, <3>1
  <2>12. clean => Tidy(row, cons.no, Rest' \cup Due(e))
    BY <1>9 DEF Telling
  <2>13. access'["consumer"].at \in Saving /\ Hand("consumer")' = c
    BY <2>5, <2>7 DEF Saving, Hand
  <2>14. HistInv'
    BY <1>1, <2>4, <2>5, <2>6, <2>7, <2>8, <2>11, <2>12, <2>13, SavesTell
  <2> QED BY <2>9, <2>14
<1> QED BY <1>3, <1>11, <1>12, <1>13

\* The consumer goes on after a save, or stops.
LEMMA StoredTells ==
    ASSUME TypeInv, StoreInv, StoreInv', OrderInv, HistInv,
           ConsumerInserted \/ ConsumerKept \/ ConsumerApplied \/ ConsumerSaveRaises \/ ConsumerSeesShutdown
    PROVE  OrderInv' /\ HistInv'
<1>1. /\ UNCHANGED <<row, prod, canc, events, queue>> /\ "consumer" \in Writers /\ access \in [Writers -> AtStore]
  BY DEF ConsumerInserted, ConsumerKept, ConsumerApplied, ConsumerSaveRaises, ConsumerSeesShutdown, Writers, TypeInv, StoreOK, agent
<1>2. /\ heap \in Seq(Task) /\ Len(heap) \in Nat /\ current \in 0..Len(heap) /\ unsaved \in (-MaxRequests)..0
      /\ cons.at \in Storing => cons.hand \in 1..Len(heap) /\ cons.hand \in 0..Len(heap)
      /\ cons.at \in {"insert", "keep"} => Fit(cons.event)
  <2>1. cons.at \in {"insert", "keep"} => cons.event.kind # "task"
    BY DEF TypeInv, ConsumerOK, Busy, Storing
  <2>2. cons.at \in {"insert", "keep"} => cons.at \in Busy
    BY DEF Busy, Storing
  <2> QED BY <1>1, <2>1, <2>2, FoundFacts
<1>3. PICK o, e, u, c : o = cons.hand /\ e = cons.event /\ u = unsaved /\ c = current
  OBVIOUS
<1>4. clean /\ cons.at \in Storing => Tidy(heap[o], cons.no, Ahead)
  <2>1. cons.at \in Storing => access["consumer"].at \in Saving
    BY DEF TypeInv, ConsumerOK
  <2>2. Hand("consumer") = o
    BY <1>3 DEF Hand
  <2> QED BY <1>1, <2>1, <2>2 DEF HistInv
<1>5. clean /\ c # 0 => Tidy(heap[c], cons.no, Ahead)
  BY <1>3 DEF HistInv
<1>6. /\ Telling(heap, Failure) /\ Rest' = Rest
      /\ cons.at \in Storing => Says(heap[o], Failure)
      /\ c # 0 => Says(heap[c], Failure)
  BY <1>1, <1>4, <1>5, WaitingTells
<1>7. ASSUME cons.at \in {"insert", "keep"} PROVE Telling(heap, e) /\ Says(heap[o], e) /\ o \in 1..Len(heap) /\ o \in 0..Len(heap) /\ Fit(e)
  <2>1. Coming /\ cons.at \in Storing
    BY <1>7 DEF Coming, Storing
  <2> QED BY <1>1, <1>2, <1>3, <1>4, <1>7, <2>1, WaitingTells
<1>8. CASE ConsumerInserted \/ ConsumerKept
  <2>1. /\ cons.at \in {"insert", "keep"}
        /\ Keeps(heap, o, u, e, o) \/ Processes(heap, o, e, o)
    BY <1>3, <1>8 DEF ConsumerInserted, ConsumerKept
  <2> QED BY <1>2, <1>3, <1>7, <2>1, KeepsTell, ProcessesTell
<1>9. CASE ConsumerApplied
  <2>1. cons.at = "apply" /\ cons.at \in Storing /\ Returned("consumer")
    BY <1>9 DEF ConsumerApplied, Storing
  <2>2. \/ Stops(heap, o)
        \/ /\ heap' = heap /\ current' = o /\ Done("consumer") /\ unsaved' \in {0, unsaved}
           /\ cons' = [cons EXCEPT !.at = "take"]
    BY <1>3, <1>9 DEF ConsumerApplied
  <2>3. CASE Stops(heap, o)
    BY <1>2, <1>3, <1>6, <2>1, <2>3, StopsTell
  <2>4. CASE /\ heap' = heap /\ current' = o /\ Done("consumer") /\ unsaved' \in {0, unsaved}
             /\ cons' = [cons EXCEPT !.at = "take"]
    <3>1. /\ access'["consumer"] = NoAccess /\ \A v \in Writers \ {"consumer"} : access'[v] = access[v]
          /\ clean' = clean /\ NoAccess.at = "none"
      BY <1>1, <2>4, AccessOps
    <3>2. cons'.at = "take" /\ cons'.no = cons.no
      <4>1. cons \in [at : {"take", "over"} \cup Busy, for : Purposes, no : 0..MaxRequests, event : Event, hand : Nat]
        BY DEF TypeInv, ConsumerOK
      <4> QED BY <2>4, <4>1
    <3>3. ~Coming' /\ Ahead' = Rest' /\ ~Coming /\ Ahead = Rest
      BY <2>1, <3>2, AheadNext DEF Coming, Ahead
    <3>4. OrderInv'
      BY <1>6, <2>4, <3>2, <3>3 DEF OrderInv, Telling
    <3>5. SUFFICES ASSUME clean PROVE HistInv'
      BY <3>1, <3>4 DEF HistInv
    <3>6. ASSUME NEW w \in Writers, access'[w].at \in Saving PROVE FALSE
      <4>1. access["consumer"].at # "none"
        BY <2>1 DEF Returned
      <4>2. Alone("consumer")
        BY <1>1, <3>5, <4>1, WhoIsThere
      <4> QED BY <3>1, <3>6, <4>2 DEF Alone, Saving
    <3> QED BY <1>1, <1>4, <1>6, <2>1, <2>4, <3>2, <3>3, <3>4, <3>5, <3>6 DEF HistInv
  <2> QED BY <2>2, <2>3, <2>4
<1>10. CASE ConsumerSaveRaises \/ ConsumerSeesShutdown
  <2>1. Stops(heap, c) \/ Fails(heap, c, u)
    BY <1>3, <1>10 DEF ConsumerSaveRaises, ConsumerSeesShutdown
  <2> QED BY <1>2, <1>3, <1>6, <2>1, StopsTell, FailsTell
<1> QED BY <1>8, <1>9, <1>10

\* A step of another than the consumer keeps the order of requests and events.
Behind(e) ==
    \/ e.kind \notin Work /\ UNCHANGED events
    \/ e.kind \in Work /\ events' = events + 1 /\ e.no = events + 1

\* The order of what is ahead survives a step that takes nothing.
LEMMA OrderStays ==
    ASSUME TypeInv, OrderInv, UNCHANGED <<cons, unsaved>>, prod'.no \in Nat, prod.no <= prod'.no,
           \/ UNCHANGED <<queue, events>>
           \/ \E e \in Event : queue' = Append(queue, e) /\ Behind(e) /\ (e.kind = "start" => e.no = prod'.no)
    PROVE  /\ OrderInv' /\ Ahead' \in SUBSET Nat /\ \A m \in Ahead' : \E n \in Ahead : n <= m
           /\ Rest' \in SUBSET Nat /\ \A m \in Rest' : \E n \in Rest : n <= m
           /\ cons'.no = cons.no /\ cons.no \in Nat
<1>1. /\ Rest \in SUBSET Nat /\ Ahead \in SUBSET Nat /\ cons.no \in Nat /\ prod.no \in Nat /\ events \in Nat
      /\ \A i \in 1..Len(queue) : queue[i].no \in Nat
  BY AheadIs
<1>2. WorkOrder' /\ StartOrder' /\ Rest' \in SUBSET Nat /\ \A m \in Rest' : \E n \in Rest : n <= m
  <2>1. CASE UNCHANGED <<queue, events>>
    <3>1. Rest' = Rest /\ WorkOrder'
      BY <2>1 DEF Rest, WorkOrder, OrderInv
    <3>2. StartOrder'
      BY <1>1, <2>1 DEF StartOrder, OrderInv
    <3>3. \A m \in Rest : m <= m
      BY <1>1
    <3> QED BY <1>1, <3>1, <3>2, <3>3
  <2>2. CASE \E e \in Event : queue' = Append(queue, e) /\ Behind(e) /\ (e.kind = "start" => e.no = prod'.no)
    <3>1. PICK e \in Event : queue' = Append(queue, e) /\ Behind(e) /\ (e.kind = "start" => e.no = prod'.no)
      BY <2>2
    <3>2. WorkOrder' /\ StartOrder' /\ \A m \in Rest' : \E n \in Rest : n <= m
      BY <3>1, OrderPuts DEF OrderInv, Behind
    <3>3. PICK q \in Seq(Event), t \in Seq(Event) : q = queue /\ t = queue' /\ t = Append(q, e)
      BY <3>1, AppendProperties DEF TypeInv, QueueOK
    <3>4. \A i \in 1..Len(t) : t[i].no \in Nat
      <4>1. \A i \in 1..Len(t) : t[i] \in Event
        BY <3>3, ElementOfSeq
      <4> QED BY <4>1 DEF Event
    <3>5. events' \in Nat
      BY <1>1, <3>1 DEF Behind
    <3>6. Rest' \in SUBSET Nat
      BY <3>3, <3>4, <3>5 DEF Rest
    <3> QED BY <3>2, <3>6
  <2> QED BY <2>1, <2>2
<1>3. Coming' = Coming /\ Due(cons.event)' = Due(cons.event)
  BY DEF Coming, Due
<1>4. Ahead' = Rest' \cup (IF Coming THEN Due(cons.event) ELSE {}) /\ Ahead = Rest \cup (IF Coming THEN Due(cons.event) ELSE {})
  BY <1>3 DEF Ahead
<1>5. \A n \in Ahead : n <= n
  BY <1>1
<1>6. Ahead' \in SUBSET Nat /\ \A m \in Ahead' : \E n \in Ahead : n <= m
  BY <1>1, <1>2, <1>4, <1>5
<1>7. Coming => \A n \in Due(cons.event) : n >= 1 /\ \A m \in Rest' : n < m
  <2>1. ASSUME Coming, NEW n \in Due(cons.event), NEW m \in Rest' PROVE n < m
    <3>1. PICK k \in Rest : k <= m
      BY <1>2
    <3>2. n < k /\ n \in Nat /\ k \in Nat /\ m \in Nat
      BY <1>1, <1>2, <1>4, <2>1, <3>1 DEF OrderInv
    <3> QED BY <3>1, <3>2
  <2> QED BY <2>1 DEF OrderInv
<1>8. OrderInv'
  BY <1>2, <1>3, <1>7 DEF OrderInv
<1> QED BY <1>1, <1>2, <1>6, <1>8

\* What the order gives for what is tidy.
Stays == /\ Ahead' \in SUBSET Nat /\ \A m \in Ahead' : \E n \in Ahead : n <= m
         /\ Rest' \in SUBSET Nat /\ \A m \in Rest' : \E n \in Rest : n <= m
         /\ cons'.no = cons.no /\ cons.no \in Nat

\* A tidy task stays so when what comes ahead is later still.
LEMMA TidyStays ==
    ASSUME TypeInv, Stays, NEW t \in Task \cup {NoTask}, Tidy(t, cons.no, Ahead)
    PROVE  Tidy(t, cons'.no, Ahead')
<1>1. Ahead \in SUBSET Nat /\ cons.no <= cons.no
  BY AheadIs
<1> QED BY <1>1, TidyGrows DEF Stays

\* A step that finds and saves nothing.
LEMMA StepStays ==
    ASSUME TypeInv, HistInv, Stays, clean' => clean, UNCHANGED <<row, current>>,
           \A i \in 1..Len(heap) : heap'[i] = heap[i],
           \A w \in Writers : access'[w].at \in Saving => access[w].at \in Saving /\ Hand(w)' = Hand(w)
    PROVE  HistInv'
<1>1. cons'.no \in Nat /\ cons.no <= cons'.no
  BY DEF Stays
<1> QED BY <1>1, HistFrame DEF Stays

\* Nobody is at the store any more, and the task in memory is tidy.
LEMMA QuietTells ==
    ASSUME TypeInv, HistInv, Stays, UNCHANGED row, clean' => clean, clean' => Quiet',
           clean' /\ current' # 0 => heap'[current'] \in Task /\ Tidy(heap'[current'], cons.no, Ahead)
    PROVE  HistInv'
<1>2. SUFFICES ASSUME clean, clean' PROVE HistInv'
  BY DEF HistInv
<1>3. \A v \in Writers : access'[v].at \notin Saving
  BY <1>2 DEF Quiet, Saving
<1>4. row \in Task \cup {NoTask} /\ Tidy(row, cons.no, Ahead)
  BY <1>2, CancelFacts DEF HistInv, StoreOK
<1>5. Tidy(row', cons'.no, Ahead')
  BY <1>4, TidyStays
<1>6. current' # 0 => Tidy(heap'[current'], cons'.no, Ahead')
  <2>1. SUFFICES ASSUME current' # 0 PROVE Tidy(heap'[current'], cons'.no, Ahead')
    OBVIOUS
  <2>2. PICK t \in Task : t = heap'[current'] /\ Tidy(t, cons.no, Ahead)
    BY <1>2, <2>1
  <2> QED BY <2>2, TidyStays
<1> QED BY <1>2, <1>3, <1>5, <1>6 DEF HistInv

\* A writer that was alone at the store has done with it.
LEMMA DoneTells ==
    ASSUME TypeInv, HistInv, Stays, access \in [Writers -> AtStore], NEW w \in Writers, Done(w), UNCHANGED row,
           clean => Alone(w) /\ (current' # 0 => heap'[current'] \in Task /\ Tidy(heap'[current'], cons.no, Ahead))
    PROVE  HistInv'
<1>1. /\ access'[w] = NoAccess /\ NoAccess.at = "none"
      /\ \A v \in Writers \ {w} : access'[v] = access[v]
      /\ clean' = clean
  BY AccessOps
<1>2. clean' => Quiet'
  BY <1>1 DEF Alone, Quiet
<1> QED BY <1>1, <1>2, QuietTells

\* A writer begins to save a task that is tidy.
LEMMA SavesStay ==
    ASSUME TypeInv, StoreInv', HistInv, Stays, access \in [Writers -> AtStore], UNCHANGED row,
           NEW w \in Writers, NEW t \in Task, Save(w, t), heap'[Hand(w)'] = t,
           clean => Tidy(t, cons.no, Ahead),
           clean /\ w = "cancel" /\ current' # 0 => heap'[current'] \in Task /\ Tidy(heap'[current'], cons.no, Ahead)
    PROVE  HistInv'
<1>1. access'[w].at = "begun" /\ (clean' => clean)
  BY AccessOps
<1>2. access'[w].at \in Saving
  BY <1>1 DEF Saving
<1>3. ASSUME clean
      PROVE  /\ Tidy(row', cons'.no, Ahead') /\ Tidy(heap'[Hand(w)'], cons'.no, Ahead')
             /\ w = "cancel" /\ current' # 0 => Tidy(heap'[current'], cons'.no, Ahead')
  <2>1. row \in Task \cup {NoTask} /\ Tidy(row, cons.no, Ahead)
    BY <1>3, CancelFacts DEF HistInv, StoreOK
  <2>2. Tidy(row', cons'.no, Ahead') /\ Tidy(t, cons'.no, Ahead')
    BY <1>3, <2>1, TidyStays
  <2>3. ASSUME w = "cancel", current' # 0 PROVE Tidy(heap'[current'], cons'.no, Ahead')
    <3>1. PICK s \in Task : s = heap'[current'] /\ Tidy(s, cons.no, Ahead)
      BY <1>3, <2>3
    <3> QED BY <3>1, TidyStays
  <2> QED BY <2>2, <2>3
<1> QED BY <1>1, <1>2, <1>3, SavesTell

\* Steps that put nothing into the queue, a marker or an error, the next event.
LEMMA NothingStays ==
    ASSUME TypeInv, OrderInv, UNCHANGED <<cons, unsaved, queue, events>>, prod'.no \in Nat, prod.no <= prod'.no
    PROVE  OrderInv' /\ Stays
  BY OrderStays DEF Stays

\* A marker enters the queue.
LEMMA MarkStays ==
    ASSUME TypeInv, OrderInv, UNCHANGED <<cons, unsaved, events>>, prod'.no \in Nat, prod.no <= prod'.no,
           NEW kind \in {"start", "end", "error", "unable"}, NEW no \in Nat, queue' = Append(queue, Item(kind, no)),
           kind = "start" => no = prod'.no
    PROVE  OrderInv' /\ Stays
<1>1. kind \in {"start", "end", "error", "canceled", "unable", "failed"} \cup Kinds
  OBVIOUS
<1>2. PICK e \in Event : e = Item(kind, no) /\ e.kind = kind /\ e.no = no
  BY <1>1, ItemIs
<1>3. kind \notin Work
  BY ManagerAssumption DEF Work
<1>4. queue' = Append(queue, e) /\ Behind(e) /\ (e.kind = "start" => e.no = prod'.no)
  BY <1>2, <1>3 DEF Behind
<1> QED BY <1>4, OrderStays DEF Stays

\* An event enters the queue, later than those before it.
LEMMA EventStays ==
    ASSUME TypeInv, OrderInv, UNCHANGED <<cons, unsaved, prod>>, NEW kind \in Work,
           events' = events + 1, queue' = Append(queue, Item(kind, events'))
    PROVE  OrderInv' /\ Stays
<1>1. kind \in {"start", "end", "error", "canceled", "unable", "failed"} \cup Kinds /\ kind # "start"
  BY ManagerAssumption DEF Work
<1>2. PICK n \in Nat : n = events + 1 /\ n = events'
  BY AheadIs
<1>3. PICK e \in Event : e = Item(kind, n) /\ e.kind = kind /\ e.no = n
  BY <1>1, ItemIs
<1>4. queue' = Append(queue, e) /\ Behind(e) /\ (e.kind = "start" => e.no = prod'.no)
  BY <1>1, <1>2, <1>3 DEF Behind
<1>5. prod'.no \in Nat /\ prod.no <= prod'.no
  BY AheadIs
<1> QED BY <1>4, <1>5, OrderStays DEF Stays

\* The producer announces a request, after those before it.
LEMMA StartsStay ==
    ASSUME TypeInv, OrderInv, UNCHANGED <<cons, unsaved, events>>, NEW no \in Nat, prod.no <= no, NEW c, Starts(no, c)
    PROVE  OrderInv' /\ Stays
<1>1. CASE open
  <2>1. prod'.no = no /\ queue' = Append(queue, Item("start", no))
    BY <1>1 DEF Starts
  <2>2. prod'.no \in Nat /\ prod.no <= prod'.no
    BY <2>1
  <2> QED BY <2>1, <2>2, MarkStays
<1>2. CASE ~open
  <2>1. ProducerStops /\ UNCHANGED queue
    BY <1>2 DEF Starts
  <2>2. prod'.no \in Nat /\ prod.no <= prod'.no
    BY <2>1, StopsProducer, ProducerFacts
  <2> QED BY <2>1, <2>2, NothingStays
<1> QED BY <1>1, <1>2

\* Where the numbers of requests and events stay, and at most a failure is reported.
LEMMA StillStays ==
    ASSUME TypeInv, OrderInv, UNCHANGED <<cons, unsaved, events>>, prod'.no = prod.no,
           UNCHANGED queue \/ queue' = Append(queue, Item("error", 0)) \/ queue' = Append(queue, Item("unable", 0))
    PROVE  OrderInv' /\ Stays
<1>1. prod'.no \in Nat /\ prod.no <= prod'.no
  BY ProducerFacts
<1> QED BY <1>1, NothingStays, MarkStays

\* The producer marks the task as failed: the queue gets an error at most.
LEMMA MarksFailedStays ==
    ASSUME TypeInv, OrderInv, UNCHANGED <<cons, unsaved, events>>, NEW h, NEW c, NEW o, MarksFailed(h, c, o)
    PROVE  OrderInv' /\ Stays
<1>1. prod \in [at : ProducerAts, no : 0..MaxRequests, hand : Nat]
  BY ProducerFacts
<1>2. CASE Reports
  <2>1. ProducerStops /\ (UNCHANGED queue \/ queue' = Append(queue, Item("error", 0)))
    BY <1>2 DEF Reports
  <2> QED BY <2>1, StopsProducer, StillStays
<1>3. CASE prod' = [prod EXCEPT !.at = "failSave", !.hand = o] /\ UNCHANGED agentQ
  <2>1. prod'.no = prod.no /\ UNCHANGED queue
    BY <1>1, <1>3 DEF agentQ
  <2> QED BY <2>1, StillStays
<1> QED BY <1>2, <1>3 DEF MarksFailed

\* The steps of the producer, the agent and cancel() keep the order of what is ahead.
LEMMA OthersOrder ==
    ASSUME TypeInv, OrderInv,
           \/ ProducerTakes \/ ProducerGot \/ AgentRaises \/ ProducerEnsured \/ ProducerInserted \/ ProducerFailed
           \/ ProducerSaveRaises \/ ProducerSeesShutdown \/ AgentReturns \/ (\E kind \in Kinds : AgentEmits(kind))
           \/ CancelEmits \/ CancelBegins \/ CancelGot \/ CancelStopsProducer \/ CancelFails \/ CancelGotFailing
           \/ CancelCloses \/ CancelGotAgain \/ CancelSaved
    PROVE  OrderInv' /\ Stays
<1>1. /\ prod \in [at : ProducerAts, no : 0..MaxRequests, hand : Nat] /\ prod.no \in Nat /\ events \in Nat
      /\ events + 1 \in Nat
  BY ProducerFacts, AheadIs
<1>2. CASE ProducerTakes
  <2>1. /\ UNCHANGED <<cons, unsaved, events>>
        /\ \/ Starts(prod.no + 1, current)
           \/ prod' = [prod EXCEPT !.at = "look", !.no = @ + 1] /\ UNCHANGED queue
    BY <1>2 DEF ProducerTakes, agentQ
  <2>2. prod.no + 1 \in Nat /\ prod.no <= prod.no + 1
    BY <1>1
  <2>3. CASE Starts(prod.no + 1, current)
    <3>1. PICK no \in Nat : no = prod.no + 1 /\ prod.no <= no
      BY <2>2
    <3>2. Starts(no, current)
      BY <2>3, <3>1 DEF Starts
    <3> QED BY <2>1, <3>1, <3>2, StartsStay
  <2>4. CASE prod' = [prod EXCEPT !.at = "look", !.no = @ + 1] /\ UNCHANGED queue
    <3>1. prod'.no = prod.no + 1
      BY <1>1, <2>4
    <3>2. prod'.no \in Nat /\ prod.no <= prod'.no
      BY <2>2, <3>1
    <3> QED BY <2>1, <2>4, <3>2, NothingStays
  <2> QED BY <2>1, <2>3, <2>4
<1>3. CASE ProducerGot
  <2>1. /\ UNCHANGED <<cons, unsaved, events>> /\ Starts(prod.no, current')
    BY <1>3 DEF ProducerGot, agent
  <2>2. PICK no \in Nat : no = prod.no /\ prod.no <= no
    BY <1>1
  <2>3. PICK c : c = current'
    OBVIOUS
  <2>4. Starts(no, c)
    BY <2>1, <2>2, <2>3 DEF Starts
  <2> QED BY <2>1, <2>2, <2>4, StartsStay
<1>4. CASE AgentRaises
  <2>1. /\ UNCHANGED <<cons, unsaved, events>>
        /\ \/ MarksFailed(heap, current, current)
           \/ prod' = [prod EXCEPT !.at = "failLook"] /\ UNCHANGED queue
    BY <1>4 DEF AgentRaises, agentQ
  <2>2. CASE prod' = [prod EXCEPT !.at = "failLook"] /\ UNCHANGED queue
    BY <1>1, <2>1, <2>2, StillStays
  <2> QED BY <2>1, <2>2, MarksFailedStays
<1>5. CASE ProducerEnsured
  <2>1. /\ UNCHANGED <<cons, unsaved, events>>
        /\ \/ MarksFailed(Append(heap, Found("producer")), current, Len(Append(heap, Found("producer"))))
           \/ prod' = [prod EXCEPT !.at = "failInsert", !.hand = Len(heap')] /\ UNCHANGED queue
    BY <1>5 DEF ProducerEnsured, agent, agentQ
  <2>2. CASE prod' = [prod EXCEPT !.at = "failInsert", !.hand = Len(heap')] /\ UNCHANGED queue
    BY <1>1, <2>1, <2>2, StillStays
  <2> QED BY <2>1, <2>2, MarksFailedStays
<1>6. CASE ProducerInserted
  <2>1. UNCHANGED <<cons, unsaved, events>> /\ MarksFailed(heap, prod.hand, prod.hand)
    BY <1>6 DEF ProducerInserted, agent
  <2> QED BY <2>1, MarksFailedStays
<1>7. CASE ProducerFailed \/ ProducerSaveRaises \/ ProducerSeesShutdown
  <2>1. /\ UNCHANGED <<cons, unsaved, events>> /\ ProducerStops
        /\ UNCHANGED queue \/ queue' = Append(queue, Item("error", 0))
    BY <1>7 DEF ProducerFailed, ProducerSaveRaises, ProducerSeesShutdown, Reports, agent
  <2> QED BY <2>1, StopsProducer, StillStays
<1>8. CASE AgentReturns
  <2>1. /\ UNCHANGED <<cons, unsaved, events>> /\ prod' = [prod EXCEPT !.at = "wait"]
        /\ queue' = Append(queue, Item("end", prod.no))
    BY <1>8 DEF AgentReturns, agent
  <2>2. prod'.no \in Nat /\ prod.no <= prod'.no
    BY <1>1, <2>1
  <2> QED BY <1>1, <2>1, <2>2, MarkStays
<1>9. ASSUME NEW kind \in Kinds, AgentEmits(kind) PROVE OrderInv' /\ Stays
  <2>1. /\ UNCHANGED <<cons, unsaved, prod>> /\ events' = events + 1 /\ queue' = Append(queue, Item(kind, events'))
    BY <1>9 DEF AgentEmits, NextEvent
  <2>2. kind \in Work
    BY DEF Work
  <2> QED BY <2>1, <2>2, EventStays
<1>10. CASE CancelEmits
  <2>1. /\ UNCHANGED <<cons, unsaved, prod>> /\ events' = events + 1 /\ queue' = Append(queue, Item("canceled", events'))
    BY <1>10 DEF CancelEmits, NextEvent
  <2>2. "canceled" \in Work
    BY DEF Work
  <2> QED BY <2>1, <2>2, EventStays
<1>11. CASE CancelBegins \/ CancelGot \/ CancelCloses \/ CancelGotAgain \/ CancelSaved
  <2>1. UNCHANGED <<cons, unsaved, events, queue, prod>>
    BY <1>11 DEF CancelBegins, CancelGot, CancelCloses, CancelGotAgain, CancelSaved, agentQ, agent
  <2> QED BY <2>1, StillStays
<1>12. CASE CancelStopsProducer \/ CancelFails \/ CancelGotFailing
  <2>1. /\ UNCHANGED <<cons, unsaved, events>> /\ (UNCHANGED prod \/ ProducerStops)
        /\ UNCHANGED queue \/ queue' = Append(queue, Item("unable", 0))
    BY <1>12 DEF CancelStopsProducer, CancelFails, CancelGotFailing, Raises, Interrupts, agent
  <2>2. prod'.no = prod.no
    BY <2>1, StopsProducer
  <2> QED BY <2>1, <2>2, StillStays
<1> QED BY <1>2, <1>3, <1>4, <1>5, <1>6, <1>7, <1>8, <1>9, <1>10, <1>11, <1>12

\* Marking or closing a task adds no message.
LEMMA StateTidy ==
    ASSUME NEW t \in Task, NEW s, NEW no, NEW N, Tidy(t, no, N)
    PROVE  Tidy([t EXCEPT !.state = s], no, N)
<1>1. PICK x : x = [t EXCEPT !.state = s]
  OBVIOUS
<1>2. Said(x) = Said(t) /\ x.note = t.note
  BY <1>1, StateSays
<1>3. x.note >= 0
  BY <1>2 DEF Tidy
<1> QED BY <1>1, <1>2, <1>3, SaysTheSame

\* The producer marks a tidy task as failed.
LEMMA MarksFailedTells ==
    ASSUME TypeInv, StoreInv', HistInv, Stays, UNCHANGED <<row, cons, canc>>,
           NEW h \in Seq(Task), NEW c \in 0..Len(h), NEW o \in 1..Len(h),
           clean => Tidy(h[o], cons.no, Ahead),
           (clean => Alone("producer") /\ (c # 0 => Tidy(h[c], cons.no, Ahead)))
             \/ (h = heap /\ c = current /\ access["producer"].at = "none"),
           MarksFailed(h, c, o)
    PROVE  HistInv'
<1>1. /\ access \in [Writers -> AtStore] /\ "producer" \in Writers
      /\ prod \in [at : ProducerAts, no : 0..MaxRequests, hand : Nat] /\ o \in Nat
  BY ProducerFacts
<1>2. CASE h[o].state \in Terminal
  <2>1. heap' = h /\ current' = c /\ Done("producer")
    BY <1>2 DEF MarksFailed
  <2>2. CASE clean => Alone("producer") /\ (c # 0 => Tidy(h[c], cons.no, Ahead))
    <3>1. c # 0 => h[c] \in Task
      BY ElementOfSeq
    <3> QED BY <1>1, <2>1, <2>2, <3>1, DoneTells
  <2>3. CASE h = heap /\ c = current /\ access["producer"].at = "none"
    <3>1. /\ access'["producer"] = NoAccess /\ NoAccess.at = "none" /\ clean' = clean
          /\ \A v \in Writers \ {"producer"} : access'[v] = access[v]
      BY <1>1, <2>1, AccessOps
    <3>2. \A w \in Writers : access'[w].at \in Saving => access[w].at \in Saving /\ Hand(w)' = Hand(w)
      BY <3>1 DEF Hand, Saving
    <3> QED BY <2>1, <2>3, <3>1, <3>2, StepStays
  <2> QED BY <2>2, <2>3
<1>3. CASE h[o].state \notin Terminal
  <2>1. /\ heap' = [h EXCEPT ![o].state = "failed"] /\ current' = c
        /\ Save("producer", heap'[o])
        /\ prod' = [prod EXCEPT !.at = "failSave", !.hand = o]
    BY <1>3 DEF MarksFailed
  <2>2. h[o] \in Task /\ "failed" \in States
    BY ElementOfSeq DEF States, Terminal
  <2>3. PICK t \in Task : t = [h[o] EXCEPT !.state = "failed"]
    BY <2>2, TaskOps
  <2>4. heap' = [h EXCEPT ![o] = t]
    BY <2>1, <2>3
  <2>5. heap'[o] = t /\ Save("producer", t)
    BY <2>1, <2>4, Replaces
  <2>6. Hand("producer")' = o
    <3>1. prod'.hand = o
      BY <1>1, <2>1
    <3> QED BY <3>1 DEF Hand
  <2>7. clean => Tidy(t, cons.no, Ahead)
    BY <2>2, <2>3, StateTidy
  <2> QED BY <1>1, <2>5, <2>6, <2>7, SavesStay
<1> QED BY <1>2, <1>3

\* A step of one writer that changes no task and leaves it saving nothing.
LEMMA WriterStays ==
    ASSUME TypeInv, HistInv, Stays, clean' => clean, UNCHANGED <<row, heap, current>>,
           NEW w \in Writers, access'[w].at \notin Saving,
           \A v \in Writers \ {w} : access'[v] = access[v] /\ Hand(v)' = Hand(v)
    PROVE  HistInv'
<1>1. \A v \in Writers : access'[v].at \in Saving => access[v].at \in Saving /\ Hand(v)' = Hand(v)
  OBVIOUS
<1>2. \A i \in 1..Len(heap) : heap'[i] = heap[i]
  OBVIOUS
<1> QED BY <1>1, <1>2, StepStays

\* One that begins to look for the task, has done, or was not at the store.
LEMMA WriterLooks ==
    ASSUME TypeInv, HistInv, Stays, UNCHANGED <<row, heap, current>>, NEW w \in Writers,
           access["consumer"] \in AtStore,
           \A v \in Writers \ {w} : Hand(v)' = Hand(v),
           (UNCHANGED <<access, clean>> /\ access[w].at = "none") \/ Get(w) \/ Done(w)
    PROVE  HistInv'
<1>1. access \in [Writers -> AtStore]
  BY ProducerFacts
<1>2. /\ \A v \in Writers \ {w} : access'[v] = access[v]
      /\ clean' => clean
      /\ access'[w].at \notin Saving
  <2>1. CASE UNCHANGED <<access, clean>> /\ access[w].at = "none"
    BY <2>1 DEF Saving
  <2>2. CASE Get(w)
    <3>1. /\ access'[w] = [at |-> "select", copy |-> NoTask, seen |-> NoTask] /\ (clean' => clean)
          /\ \A v \in Writers \ {w} : access'[v] = access[v]
      BY <1>1, <2>2, AccessOps
    <3>2. access'[w].at = "select"
      BY <3>1
    <3> QED BY <3>1, <3>2 DEF Saving
  <2>3. CASE Done(w)
    <3>1. access'[w] = NoAccess /\ clean' = clean /\ \A v \in Writers \ {w} : access'[v] = access[v]
      BY <1>1, <2>3, AccessOps
    <3> QED BY <3>1 DEF Saving, NoAccess
  <2> QED BY <2>1, <2>2, <2>3
<1> QED BY <1>2, WriterStays

\* The steps of the producer.
LEMMA ProducerTells ==
    ASSUME TypeInv, StoreInv, StoreInv', HistInv, Stays,
           ProducerTakes \/ ProducerGot \/ AgentRaises \/ ProducerEnsured \/ ProducerInserted
             \/ ProducerFailed \/ ProducerSaveRaises \/ ProducerSeesShutdown \/ AgentReturns
    PROVE  HistInv'
<1>0. /\ access \in [Writers -> AtStore] /\ "producer" \in Writers /\ heap \in Seq(Task) /\ Len(heap) \in Nat
      /\ current \in 0..Len(heap) /\ (current # 0 => current \in 1..Len(heap))
      /\ prod \in [at : ProducerAts, no : 0..MaxRequests, hand : Nat]
      /\ prod.at \in {"wait", "execute", "over"} => access["producer"].at = "none"
      /\ prod.at \in {"failInsert", "failSave"} => prod.hand \in 1..Len(heap)
      /\ UNCHANGED <<row, cons, canc>> /\ Hand("producer") = prod.hand
      /\ cons.no \in Nat /\ Ahead \in SUBSET Nat
  BY ProducerFacts, AheadIs DEF ProducerTakes, ProducerGot, AgentRaises, ProducerEnsured, ProducerInserted,
        ProducerFailed, ProducerSaveRaises, ProducerSeesShutdown, AgentReturns, Hand
<1>1. /\ access["consumer"] \in AtStore
      /\ \A v \in Writers \ {"producer"} : Hand(v)' = Hand(v)
  BY <1>0 DEF Hand, Writers
<1>2. ASSUME clean
      PROVE  /\ Tidy(row, cons.no, Ahead) /\ (current # 0 => Tidy(heap[current], cons.no, Ahead))
             /\ access["producer"].at \in Saving => Tidy(heap[prod.hand], cons.no, Ahead)
  BY <1>0, <1>2 DEF HistInv
<1>3. CASE ProducerTakes
  <2>1. UNCHANGED <<heap, current>> /\ (UNCHANGED <<access, clean>> \/ Get("producer")) /\ access["producer"].at = "none"
    BY <1>0, <1>3 DEF ProducerTakes, tasks, accesses
  <2> QED BY <1>0, <1>1, <2>1, WriterLooks
<1>4. CASE ProducerSeesShutdown \/ AgentReturns
  <2>1. UNCHANGED <<heap, current>> /\ UNCHANGED <<access, clean>> /\ access["producer"].at = "none"
    BY <1>0, <1>4 DEF ProducerSeesShutdown, AgentReturns, tasks, accesses
  <2> QED BY <1>0, <1>1, <2>1, WriterLooks
<1>5. CASE ProducerSaveRaises
  <2>1. UNCHANGED <<heap, current>> /\ Done("producer")
    BY <1>5 DEF ProducerSaveRaises, tasks
  <2> QED BY <1>0, <1>1, <2>1, WriterLooks
<1>6. CASE AgentRaises
  <2>1. /\ prod.at = "execute"
        /\ \/ current # 0 /\ MarksFailed(heap, current, current)
           \/ current = 0 /\ Get("producer") /\ UNCHANGED tasks
    BY <1>6 DEF AgentRaises
  <2>2. CASE current # 0 /\ MarksFailed(heap, current, current)
    <3>1. PICK h \in Seq(Task) : h = heap
      BY <1>0
    <3>2. PICK c \in 0..Len(h), o \in 1..Len(h) : c = current /\ o = current
      BY <1>0, <2>2, <3>1
    <3>3. MarksFailed(h, c, o) /\ (clean => Tidy(h[o], cons.no, Ahead))
      BY <1>2, <2>2, <3>1, <3>2
    <3>4. h = heap /\ c = current /\ access["producer"].at = "none"
      BY <1>0, <2>1, <3>1, <3>2
    <3> QED BY <1>0, <3>3, <3>4, MarksFailedTells
  <2>3. CASE current = 0 /\ Get("producer") /\ UNCHANGED tasks
    BY <1>0, <1>1, <2>3, WriterLooks DEF tasks
  <2> QED BY <2>1, <2>2, <2>3
<1>7. CASE ProducerGot
  <2>1. /\ prod.at = "look" /\ Returned("producer") /\ Done("producer")
        /\ heap' = IF Found("producer") = NoTask THEN heap ELSE Append(heap, Found("producer"))
        /\ current' = IF Found("producer") = NoTask THEN 0 ELSE Len(heap')
    BY <1>7 DEF ProducerGot
  <2>2. access["producer"].at = "selected"
    BY <2>1, ProducerReturns
  <2>3. clean => Alone("producer") /\ Found("producer") = row
    BY <1>0, <2>2, Answered
  <2>4. current' # 0 => heap'[current'] = Found("producer") /\ Found("producer") \in Task
    <3>1. Found("producer") \in Task \cup {NoTask}
      BY <1>0 DEF Found, AtStore
    <3> QED BY <1>0, <2>1, <3>1, FoundIs
  <2>5. clean => Alone("producer") /\ (current' # 0 => heap'[current'] \in Task /\ Tidy(heap'[current'], cons.no, Ahead))
    BY <1>2, <2>3, <2>4
  <2> QED BY <1>0, <2>1, <2>5, DoneTells
<1>8. CASE ProducerFailed
  <2>1. /\ prod.at = "failSave" /\ Returned("producer") /\ UNCHANGED <<row, heap>> /\ Done("producer") /\ current' = prod.hand
    BY <1>8 DEF ProducerFailed
  <2>2. access["producer"].at = "committed"
    BY <2>1, ProducerReturns
  <2>3. clean => Alone("producer") /\ heap'[current'] = heap[prod.hand]
    BY <1>0, <2>1, <2>2, Answered
  <2>4. heap[prod.hand] \in Task
    BY <1>0, <2>1, ElementOfSeq
  <2>5. clean => Tidy(heap[prod.hand], cons.no, Ahead)
    BY <1>2, <2>2 DEF Saving
  <2> QED BY <1>0, <2>1, <2>3, <2>4, <2>5, DoneTells
<1>9. CASE ProducerInserted
  <2>1. /\ prod.at = "failInsert" /\ Returned("producer") /\ UNCHANGED row
        /\ MarksFailed(heap, prod.hand, prod.hand)
    BY <1>9 DEF ProducerInserted
  <2>2. access["producer"].at = "committed"
    BY <2>1, ProducerReturns
  <2>3. PICK h \in Seq(Task) : h = heap
    BY <1>0
  <2>4. PICK c \in 0..Len(h), o \in 1..Len(h) : c = prod.hand /\ o = prod.hand
    BY <1>0, <2>1, <2>3
  <2>5. clean => Tidy(h[o], cons.no, Ahead) /\ Tidy(h[c], cons.no, Ahead) /\ Alone("producer")
    BY <1>0, <1>2, <2>2, <2>3, <2>4, Answered DEF Saving
  <2>6. MarksFailed(h, c, o)
    BY <2>1, <2>3, <2>4
  <2> QED BY <1>0, <2>5, <2>6, MarksFailedTells
<1>10. CASE ProducerEnsured
  <2>1. /\ prod.at = "failLook" /\ Returned("producer")
        /\ \/ /\ Found("producer") # NoTask
              /\ MarksFailed(Append(heap, Found("producer")), current, Len(Append(heap, Found("producer"))))
           \/ /\ heap' = Append(heap, NewTask)
              /\ Save("producer", NewTask)
              /\ prod' = [prod EXCEPT !.at = "failInsert", !.hand = Len(heap')]
    BY <1>10 DEF ProducerEnsured
  <2>2. access["producer"].at = "selected"
    BY <2>1, ProducerReturns
  <2>3. clean => Alone("producer") /\ Found("producer") = row /\ current = 0
    BY <1>0, <2>2, Answered
  <2>4. CASE /\ Found("producer") # NoTask
              /\ MarksFailed(Append(heap, Found("producer")), current, Len(Append(heap, Found("producer"))))
    <3>1. PICK h : h = Append(heap, Found("producer"))
      OBVIOUS
    <3>2. /\ h \in Seq(Task) /\ Len(h) \in 1..Len(h) /\ current \in 0..Len(h) /\ h[Len(h)] = Found("producer")
      BY <1>0, <2>4, <3>1, FoundIs
    <3>3. PICK c \in 0..Len(h), o \in 1..Len(h) : c = current /\ o = Len(h)
      BY <3>2
    <3>4. MarksFailed(h, c, o)
      BY <2>4, <3>1, <3>3
    <3>5. clean => Tidy(h[o], cons.no, Ahead) /\ c = 0 /\ Alone("producer")
      BY <1>2, <2>3, <3>2, <3>3
    <3> QED BY <1>0, <3>2, <3>4, <3>5, MarksFailedTells
  <2>5. CASE  /\ heap' = Append(heap, NewTask)
              /\ Save("producer", NewTask)
              /\ prod' = [prod EXCEPT !.at = "failInsert", !.hand = Len(heap')]
    <3>1. PICK t \in Task : t = NewTask
      BY NewTasks, ManagerAssumption
    <3>2. heap' \in Seq(Task) /\ heap'[Len(heap')] = t /\ Len(heap') \in Nat
      BY <1>0, <2>5, <3>1, Extends
    <3>3. Hand("producer")' = Len(heap')
      <4>1. prod'.hand = Len(heap')
        BY <1>0, <2>5
      <4> QED BY <4>1 DEF Hand
    <3>4. Save("producer", t) /\ heap'[Hand("producer")'] = t /\ Tidy(t, cons.no, Ahead)
      BY <1>0, <2>5, <3>1, <3>2, <3>3, NewIsTidy
    <3> QED BY <1>0, <3>4, SavesStay
  <2> QED BY <2>1, <2>4, <2>5
<1> QED BY <1>3, <1>4, <1>5, <1>6, <1>7, <1>8, <1>9, <1>10

\* cancel() closes a task.
LEMMA ClosesTells ==
    ASSUME TypeInv, StoreInv', HistInv, Stays, UNCHANGED <<row, cons, prod>>,
           NEW h \in Seq(Task), NEW c \in 1..Len(h),
           clean => Tidy(h[c], cons.no, Ahead),
           (clean => Alone("cancel")) \/ (h = heap /\ c = current /\ access["cancel"].at = "none"),
           Closes(h, c)
    PROVE  HistInv'
<1>1. /\ access \in [Writers -> AtStore] /\ "cancel" \in Writers /\ canc \in CancelRecords /\ Len(h) \in Nat
  BY CancelFacts
<1>2. h[c] \in Task
  BY ElementOfSeq
<1>3. CASE h[c].state \in Terminal
  <2>1. heap' = h /\ current' = c /\ Done("cancel")
    BY <1>3 DEF Closes
  <2>2. CASE clean => Alone("cancel")
    BY <1>1, <1>2, <2>1, <2>2, DoneTells
  <2>3. CASE h = heap /\ c = current /\ access["cancel"].at = "none"
    <3>1. \A v \in Writers \ {"cancel"} : Hand(v)' = Hand(v)
      BY DEF Hand, Writers
    <3>2. UNCHANGED <<heap, current>> /\ access["consumer"] \in AtStore
      BY <1>1, <2>1, <2>3 DEF Writers
    <3> QED BY <1>1, <2>1, <3>1, <3>2, WriterLooks
  <2> QED BY <2>2, <2>3
<1>4. CASE h[c].state \notin Terminal
  <2>1. PICK t : t = [h[c] EXCEPT !.state = "canceled"]
    OBVIOUS
  <2>2. t \in Task
    <3>1. "canceled" \in States
      BY DEF States, Terminal
    <3> QED BY <1>2, <2>1, <3>1, TaskOps
  <2>3. /\ heap' = Append(h, t) /\ current' = c
        /\ canc' = [at |-> "save", hand |-> Len(heap')]
        /\ Save("cancel", heap'[Len(heap')])
    BY <1>4, <2>1 DEF Closes
  <2>4. heap'[Len(heap')] = t /\ heap'[c] = h[c]
    BY <2>2, <2>3, Extends
  <2>5. Save("cancel", t) /\ heap'[Hand("cancel")'] = t
    <3>1. canc'.hand = Len(heap')
      BY <2>3
    <3>2. Hand("cancel")' = Len(heap')
      BY <3>1 DEF Hand
    <3> QED BY <2>3, <2>4, <3>2
  <2>6. clean => Tidy(t, cons.no, Ahead)
    BY <1>2, <2>1, StateTidy
  <2>7. clean => heap'[current'] \in Task /\ Tidy(heap'[current'], cons.no, Ahead)
    BY <1>2, <2>3, <2>4
  <2> QED BY <1>1, <2>2, <2>5, <2>6, <2>7, SavesStay
<1> QED BY <1>3, <1>4

\* The steps of cancel().
LEMMA CancelTells ==
    ASSUME TypeInv, StoreInv, StoreInv', HistInv, Stays,
           \/ CancelBegins \/ CancelGot \/ CancelStopsProducer \/ CancelFails \/ CancelGotFailing
           \/ CancelCloses \/ CancelGotAgain \/ CancelSaved
    PROVE  HistInv'
<1>0. /\ access \in [Writers -> AtStore] /\ "cancel" \in Writers /\ "producer" \in Writers /\ heap \in Seq(Task) /\ Len(heap) \in Nat
      /\ current \in 0..Len(heap) /\ (current # 0 => current \in 1..Len(heap))
      /\ canc.at \in {"idle", "agent", "wait", "returned", "raised"} => access["cancel"].at = "none"
      /\ canc.at = "save" => canc.hand \in 1..Len(heap)
      /\ UNCHANGED <<row, cons>> /\ canc \in CancelRecords /\ Hand("cancel") = canc.hand
      /\ cons.no \in Nat /\ Ahead \in SUBSET Nat /\ access["consumer"] \in AtStore
  <2>1. UNCHANGED <<row, cons>>
    BY DEF CancelBegins, CancelGot, CancelStopsProducer, CancelFails, CancelGotFailing, CancelCloses,
          CancelGotAgain, CancelSaved
  <2>2. "producer" \in Writers /\ "consumer" \in Writers /\ Hand("cancel") = canc.hand
    BY DEF Writers, Hand
  <2>3. current \in 0..Len(heap) => (current # 0 => current \in 1..Len(heap))
    BY CancelFacts
  <2>4. access["consumer"] \in AtStore
    BY <2>2, CancelFacts
  <2> QED BY <2>1, <2>2, <2>3, <2>4, CancelFacts, AheadIs
<1>1. UNCHANGED prod => \A v \in Writers \ {"cancel"} : Hand(v)' = Hand(v)
  BY <1>0 DEF Hand, Writers
<1>2. ASSUME clean
      PROVE  /\ Tidy(row, cons.no, Ahead) /\ (current # 0 => Tidy(heap[current], cons.no, Ahead))
             /\ access["cancel"].at \in Saving => Tidy(heap[canc.hand], cons.no, Ahead)
  BY <1>0, <1>2 DEF HistInv
<1>3. CASE CancelBegins
  <2>1. /\ canc.at = "idle" /\ UNCHANGED prod /\ UNCHANGED <<heap, current>>
        /\ UNCHANGED <<access, clean>> \/ Get("cancel")
    BY <1>3 DEF CancelBegins, tasks, accesses
  <2> QED BY <1>0, <1>1, <2>1, WriterLooks
<1>4. ASSUME Interrupts(access), canc'.hand = canc.hand, UNCHANGED <<heap, current>> PROVE HistInv'
  <2>1. /\ access'["producer"].at = "none" /\ \A v \in Writers \ {"producer"} : access'[v] = access[v]
        /\ clean' => clean
    BY <1>0, <1>4, Interrupted
  <2>2. \A v \in Writers \ {"producer"} : access'[v] = access[v] /\ Hand(v)' = Hand(v)
    BY <1>0, <1>4, <2>1 DEF Hand, Writers
  <2>3. access'["producer"].at \notin Saving
    BY <2>1 DEF Saving
  <2> QED BY <1>0, <1>4, <2>1, <2>2, <2>3, WriterStays
<1>9. CASE CancelStopsProducer
  <2>1. Interrupts(access) /\ canc'.hand = canc.hand /\ UNCHANGED <<heap, current>>
    BY <1>0, <1>9 DEF CancelStopsProducer, CancelRecords, tasks
  <2> QED BY <1>4, <2>1
<1>10. CASE CancelFails
  <2>1. /\ canc.at = "agent" /\ UNCHANGED <<heap, current>>
        /\ \/ Raises(created, access)
           \/ Get("cancel") /\ UNCHANGED prod
    BY <1>10 DEF CancelFails, tasks
  <2>2. CASE Raises(created, access)
    <3>1. Interrupts(access) /\ canc'.hand = canc.hand
      BY <1>0, <2>2 DEF Raises, CancelRecords
    <3> QED BY <1>4, <2>1, <3>1
  <2>3. CASE Get("cancel") /\ UNCHANGED prod
    BY <1>0, <1>1, <2>1, <2>3, WriterLooks
  <2> QED BY <2>1, <2>2, <2>3
<1>11. CASE CancelGotFailing
  <2>1. /\ canc.at = "failLook" /\ Returned("cancel")
        /\ heap' = Append(heap, Found("cancel")) /\ current' = Len(heap')
        /\ Interrupts([access EXCEPT !["cancel"] = NoAccess])
    BY <1>11 DEF CancelGotFailing, Raises
  <2>2. access["cancel"].at = "selected"
    BY <2>1, CancelReturns
  <2>3. Found("cancel") \in Task /\ Found("cancel") # NoTask
    BY <2>2, CancelFacts, NewTasks
  <2>4. clean => Alone("cancel") /\ Found("cancel") = row
    BY <1>0, <2>2, Answered
  <2>5. heap'[current'] = Found("cancel")
    BY <1>0, <2>1, <2>3, FoundIs
  <2>6. PICK a : a = [access EXCEPT !["cancel"] = NoAccess]
    OBVIOUS
  <2>7. /\ a \in [Writers -> AtStore] /\ a["cancel"].at = "none"
        /\ \A v \in Writers \ {"cancel"} : a[v] = access[v]
    <3>1. NoAccess \in AtStore /\ NoAccess.at = "none"
      BY DEF NoAccess, AtStore
    <3> QED BY <1>0, <2>6, <3>1
  <2>8. a["producer"] = access["producer"]
    BY <1>0, <2>7
  <2>9. /\ access'["producer"].at = "none" /\ \A v \in Writers \ {"producer"} : access'[v] = a[v]
        /\ clean' => clean
    BY <2>1, <2>6, <2>7, <2>8, Interrupted
  <2>10. clean' => Quiet'
    BY <2>4, <2>7, <2>9 DEF Quiet, Alone
  <2>11. clean' /\ current' # 0 => heap'[current'] \in Task /\ Tidy(heap'[current'], cons.no, Ahead)
    BY <1>2, <2>3, <2>4, <2>5, <2>9
  <2> QED BY <1>0, <2>9, <2>10, <2>11, QuietTells
<1>5. CASE CancelGot
  <2>1. /\ canc.at = "look" /\ Returned("cancel") /\ Done("cancel")
        /\ heap' = Append(heap, Found("cancel")) /\ current' = Len(heap')
    BY <1>5 DEF CancelGot
  <2>2. access["cancel"].at = "selected"
    BY <2>1, CancelReturns
  <2>3. Found("cancel") \in Task /\ Found("cancel") # NoTask
    BY <2>2, CancelFacts, NewTasks
  <2>4. clean => Alone("cancel") /\ Found("cancel") = row
    BY <1>0, <2>2, Answered
  <2>5. heap'[current'] = Found("cancel")
    BY <1>0, <2>1, <2>3, FoundIs
  <2>6. clean => Alone("cancel") /\ (current' # 0 => heap'[current'] \in Task /\ Tidy(heap'[current'], cons.no, Ahead))
    BY <1>2, <2>3, <2>4, <2>5
  <2> QED BY <1>0, <2>1, <2>6, DoneTells
<1>6. CASE CancelCloses
  <2>1. /\ canc.at = "wait" /\ UNCHANGED prod
        /\ \/ current # 0 /\ Closes(heap, current)
           \/ current = 0 /\ Get("cancel") /\ UNCHANGED <<heap, current>>
    BY <1>6 DEF CancelCloses, tasks
  <2>2. CASE current # 0 /\ Closes(heap, current)
    <3>1. PICK h \in Seq(Task) : h = heap
      BY <1>0
    <3>2. PICK c \in 1..Len(h) : c = current
      BY <1>0, <2>2, <3>1
    <3>3. Closes(h, c) /\ (clean => Tidy(h[c], cons.no, Ahead))
      BY <1>2, <2>2, <3>1, <3>2
    <3>4. h = heap /\ c = current /\ access["cancel"].at = "none"
      BY <1>0, <2>1, <3>1, <3>2
    <3> QED BY <1>0, <2>1, <3>3, <3>4, ClosesTells
  <2>3. CASE current = 0 /\ Get("cancel") /\ UNCHANGED <<heap, current>>
    BY <1>0, <1>1, <2>1, <2>3, WriterLooks
  <2> QED BY <2>1, <2>2, <2>3
<1>7. CASE CancelGotAgain
  <2>1. /\ canc.at = "lookAgain" /\ Returned("cancel") /\ UNCHANGED prod
        /\ Closes(Append(heap, Found("cancel")), Len(Append(heap, Found("cancel"))))
    BY <1>7 DEF CancelGotAgain
  <2>2. access["cancel"].at = "selected"
    BY <2>1, CancelReturns
  <2>3. Found("cancel") # NoTask
    BY <2>2, CancelFacts, NewTasks
  <2>4. clean => Alone("cancel") /\ Found("cancel") = row
    BY <1>0, <2>2, Answered
  <2>5. PICK h : h = Append(heap, Found("cancel"))
    OBVIOUS
  <2>6. h \in Seq(Task) /\ Len(h) \in 1..Len(h) /\ h[Len(h)] = Found("cancel")
    BY <1>0, <2>3, <2>5, FoundIs
  <2>7. PICK c \in 1..Len(h) : c = Len(h)
    BY <2>6
  <2>8. Closes(h, c)
    BY <2>1, <2>5, <2>7
  <2>9. (clean => Alone("cancel")) /\ (clean => Tidy(h[c], cons.no, Ahead))
    BY <1>2, <2>4, <2>6, <2>7
  <2> QED BY <1>0, <2>1, <2>6, <2>8, <2>9, ClosesTells
<1>8. CASE CancelSaved
  <2>1. /\ canc.at = "save" /\ Returned("cancel") /\ UNCHANGED heap /\ Done("cancel") /\ current' = canc.hand
    BY <1>8 DEF CancelSaved
  <2>2. access["cancel"].at = "committed"
    BY <2>1, CancelReturns
  <2>3. clean => Alone("cancel") /\ heap'[current'] = heap[canc.hand]
    BY <1>0, <2>1, <2>2, Answered
  <2>4. heap[canc.hand] \in Task
    BY <1>0, <2>1, ElementOfSeq
  <2>5. clean => Tidy(heap[canc.hand], cons.no, Ahead)
    BY <1>2, <2>2 DEF Saving
  <2> QED BY <1>0, <2>1, <2>3, <2>4, <2>5, DoneTells
<1> QED BY <1>3, <1>5, <1>6, <1>7, <1>8, <1>9, <1>10, <1>11

\* The agent, or cancel(), enqueues an event.
LEMMA EmitsTell ==
    ASSUME TypeInv, HistInv, Stays, (\E kind \in Kinds : AgentEmits(kind)) \/ CancelEmits
    PROVE  HistInv'
<1>1. /\ UNCHANGED <<row, heap, current, access, clean>>
      /\ UNCHANGED <<cons, prod, canc>>
  BY DEF AgentEmits, CancelEmits, tasks, accesses
<1>2. \A w \in Writers : access'[w].at \in Saving => access[w].at \in Saving /\ Hand(w)' = Hand(w)
  BY <1>1 DEF Hand
<1> QED BY <1>1, <1>2, StepStays

\* What is committed is the object in the writer's hands.
LEMMA StatementTells ==
    ASSUME TypeInv, StoreInv, OrderInv, HistInv, NEW w \in Writers, Read(w) \/ Commit(w)
    PROVE  OrderInv' /\ HistInv'
<1>1. /\ access' \in [Writers -> AtStore] /\ \A v \in Writers \ {w} : access'[v] = access[v]
      /\ UNCHANGED <<clean, heap, current, queue, events, prod, cons, unsaved, canc>>
      /\ access'[w].at \in Saving => access[w].at \in Saving
      /\ \/ row' = row
         \/ access[w].at = "loaded" /\ (access[w].seen = row => row' = access[w].copy)
  BY StatementIs DEF Saving
<1>2. OrderInv' = OrderInv /\ Ahead' = Ahead
  BY <1>1 DEF OrderInv, WorkOrder, StartOrder, Ahead, Rest, Coming, Due
<1>3. SUFFICES ASSUME clean PROVE HistInv'
  BY <1>1, <1>2 DEF HistInv
<1>4. \A v \in Writers : Hand(v)' = Hand(v)
  BY <1>1 DEF Hand
<1>5. /\ Tidy(row, cons.no, Ahead)
      /\ current # 0 => Tidy(heap[current], cons.no, Ahead)
      /\ \A v \in Writers : access[v].at \in Saving => Tidy(heap[Hand(v)], cons.no, Ahead)
  BY <1>3 DEF HistInv
<1>6. Tidy(row', cons.no, Ahead)
  <2>1. CASE row' = row
    BY <1>5, <2>1
  <2>2. CASE access[w].at = "loaded" /\ (access[w].seen = row => row' = access[w].copy)
    <3>1. access[w].seen = row /\ access[w].copy = heap[Hand(w)]
      BY <1>3, <2>2 DEF StoreInv, Own, Saving
    <3> QED BY <1>5, <2>2, <3>1 DEF Saving
  <2> QED BY <1>1, <2>1, <2>2
<1>7. \A v \in Writers : access'[v].at \in Saving => Tidy(heap[Hand(v)], cons.no, Ahead)
  BY <1>1, <1>5
<1>8. UNCHANGED <<clean, heap, current>> /\ cons'.no = cons.no
  BY <1>1
<1> QED BY <1>2, <1>4, <1>5, <1>6, <1>7, <1>8 DEF HistInv

\* No step makes a history untidy.
LEMMA NextHistInv == TypeInv /\ StoreInv /\ OrderInv /\ HistInv /\ [Next]_vars => OrderInv' /\ HistInv'
<1> SUFFICES ASSUME TypeInv, StoreInv, OrderInv, HistInv, [Next]_vars PROVE OrderInv' /\ HistInv'
  OBVIOUS
<1>0. StoreInv'
  BY NextStoreInv
<1>1. ASSUME NEW w \in Writers, Read(w) \/ Commit(w) PROVE OrderInv' /\ HistInv'
  BY <1>1, StatementTells
<1>2. CASE ConsumerTakesMarker \/ ConsumerTakes
  BY <1>0, <1>2, MarkerTells, TakesTells
<1>3. CASE ConsumerGot \/ ConsumerEnsured \/ ConsumerInserted \/ ConsumerKept \/ ConsumerApplied
             \/ ConsumerSaveRaises \/ ConsumerSeesShutdown
  BY <1>0, <1>3, GotTells, EnsuredTells, StoredTells
<1>4. CASE ProducerTakes \/ ProducerGot \/ AgentRaises \/ ProducerEnsured \/ ProducerInserted
             \/ ProducerFailed \/ ProducerSaveRaises \/ ProducerSeesShutdown \/ AgentReturns
  BY <1>0, <1>4, OthersOrder, ProducerTells
<1>5. CASE \/ CancelBegins \/ CancelGot \/ CancelStopsProducer \/ CancelFails \/ CancelGotFailing
             \/ CancelCloses \/ CancelGotAgain \/ CancelSaved
  BY <1>0, <1>5, OthersOrder, CancelTells
<1>6. CASE (\E kind \in Kinds : AgentEmits(kind)) \/ CancelEmits
  BY <1>6, OthersOrder, EmitsTell
<1>7. CASE UNCHANGED vars
  <2>1. UNCHANGED <<row, access, clean, heap, current, queue, events, prod, cons, unsaved, canc>>
    BY <1>7 DEF vars, accesses, tasks, agentQ, agent
  <2>2. OrderInv' = OrderInv /\ Ahead' = Ahead
    BY <2>1 DEF OrderInv, WorkOrder, StartOrder, Ahead, Rest, Coming, Due
  <2>3. \A v \in Writers : Hand(v)' = Hand(v)
    BY <2>1 DEF Hand
  <2> QED BY <2>1, <2>2, <2>3 DEF HistInv
<1> QED BY <1>1, <1>2, <1>3, <1>4, <1>5, <1>6, <1>7 DEF Next

\* start() finds a task that has said nothing.
LEMMA InitHistInv == Init => OrderInv /\ HistInv
<1> SUFFICES ASSUME Init PROVE OrderInv /\ HistInv
  OBVIOUS
<1>1. /\ row \in {NoTask, [NoTask EXCEPT !.state = "submitted"]}
      /\ heap = IF row = NoTask THEN <<>> ELSE <<row>>
      /\ current = Len(heap) /\ queue = <<>>
      /\ prod.no = 0 /\ cons.no = 0 /\ cons.at = "take" /\ unsaved = 0 /\ events = 0
      /\ access = [w \in Writers |-> NoAccess]
  BY DEF Init
<1>2. OrderInv
  BY <1>1 DEF OrderInv, WorkOrder, StartOrder, Coming
<1>3. Ahead \in SUBSET Nat
  BY <1>1 DEF Ahead, Rest, Coming
<1>4. row.history = <<>> /\ row.note = 0
  BY <1>1 DEF NoTask
<1>5. Tidy(row, cons.no, Ahead)
  BY <1>4 DEF Tidy, InOrder, Said, Noted
<1>6. current # 0 => heap[current] = row
  BY <1>1
<1>7. \A w \in Writers : access[w].at \notin Saving
  BY <1>1 DEF NoAccess, Saving
<1> QED BY <1>2, <1>5, <1>6, <1>7 DEF HistInv

-----------------------------------------------------------------------------
(* What was announced                                                      *)

\* The consumer goes on with the event it has, with its failure, or with none.
GoesOn(e) == cons'.at \in Busy => cons'.event \in {e, Failure}

\* The consumer stops.
LEMMA StopsGoesOn ==
    ASSUME TypeInv, NEW h \in Seq(Task), NEW c \in 0..Len(h), Stops(h, c), NEW e
    PROVE  GoesOn(e)
  BY StopsFacts DEF GoesOn, TypeInv, StoreOK, Busy, Storing

\* The consumer looks for the task.
LEMMA LooksGoesOn ==
    ASSUME TypeInv, NEW h, NEW c, NEW for \in Purposes, NEW e \in Event, Looks(h, c, for, e)
    PROVE  GoesOn(e)
  BY LooksFacts DEF GoesOn, TypeInv, StoreOK

\* process() applies the event or fails.
LEMMA ProcessesGoesOn ==
    ASSUME TypeInv, NEW h \in Seq(Task), NEW c \in 0..Len(h), NEW o \in 1..Len(h), NEW e, Fit(e), Processes(h, c, e, o)
    PROVE  GoesOn(e)
<1>1. ConsumerOK /\ access \in [Writers -> AtStore] /\ Fit(Failure)
  BY FitFacts DEF TypeInv, StoreOK
<1>2. ASSUME NEW d, Fit(d), Applies(h, c, d, o) PROVE cons'.event = d
  <2>1. d \in [kind : Applicable, no : 0..MaxEvents] /\ d \in Event
    BY <1>2, FitFacts DEF Fit
  <2> QED BY <1>1, <1>2, <2>1, AppliesFacts
<1> QED BY <1>1, <1>2, ProcessesMeans, StopsGoesOn DEF GoesOn

\* The message of the request comes first.
LEMMA KeepsGoesOn ==
    ASSUME TypeInv, NEW h \in Seq(Task), NEW c \in 0..Len(h), NEW u \in (-MaxRequests)..0, NEW o \in 1..Len(h),
           NEW e, Fit(e), Keeps(h, c, u, e, o)
    PROVE  GoesOn(e)
<1>1. /\ ConsumerOK /\ access \in [Writers -> AtStore] /\ e \in Event /\ "apply" \in Purposes
      /\ u # 0 => u \in Messages \ {0}
  BY ManagerAssumption DEF TypeInv, StoreOK, Fit, Purposes, Messages
<1>2. ASSUME u # 0, KeepsMessage(h, u, e, o) PROVE GoesOn(e)
  BY <1>1, <1>2, MessageFacts DEF GoesOn
<1>3. ASSUME c # 0, Processes(h, c, e, c) PROVE GoesOn(e)
  BY <1>3, ProcessesGoesOn
<1>4. ASSUME Looks(h, c, "apply", e) PROVE GoesOn(e)
  BY <1>1, <1>4, LooksGoesOn
<1> QED BY <1>2, <1>3, <1>4, KeepsMeans

\* An exception becomes a failure.
LEMMA FailsGoesOn ==
    ASSUME TypeInv, NEW h \in Seq(Task), NEW c \in 0..Len(h), NEW u \in (-MaxRequests)..0, Fails(h, c, u), NEW e
    PROVE  GoesOn(e)
<1>1. Fit(Failure) /\ Failure \in Event /\ "fail" \in Purposes
  BY FitFacts DEF Fit, Purposes
<1>2. ASSUME c # 0, Keeps(h, c, u, Failure, c) PROVE GoesOn(Failure)
  BY <1>1, <1>2, KeepsGoesOn
<1>3. ASSUME Looks(h, c, "fail", Failure) PROVE GoesOn(Failure)
  BY <1>1, <1>3, LooksGoesOn
<1>4. GoesOn(Failure) => GoesOn(e)
  BY DEF GoesOn
<1> QED BY <1>2, <1>3, <1>4, FailsMeans, StopsGoesOn

\* A step that announces nothing.
LEMMA AnnFrame ==
    ASSUME TypeInv, AnnInv, UNCHANGED <<events, queue, ended, canc>>, GoesOn(cons.event), cons.at \in Busy \/ cons'.at \notin Busy
    PROVE  AnnInv'
<1>1. Rest' = Rest /\ Late' = Late
  BY DEF Late, Rest
<1>2. \A e : Announced(e)' <=> Announced(e)
  BY DEF Announced
<1>3. Failure.kind = "failed"
  BY FitFacts
<1>4. \A i \in 1..Len(queue) : Announced(queue[i])
  BY DEF AnnInv
<1>5. ASSUME cons'.at \in Busy PROVE Announced(cons'.event) /\ (cons'.event.kind \in Final => Late)
  <2>1. cons'.event = cons.event \/ cons'.event = Failure
    BY <1>5 DEF GoesOn
  <2> QED BY <1>3, <1>5, <2>1 DEF AnnInv, Announced, Final
<1>6. \A i \in 1..Len(queue') : Announced(queue'[i])
  BY <1>4
<1> QED BY <1>1, <1>2, <1>5, <1>6 DEF AnnInv, Announced

\* The consumer takes an event.
LEMMA TakesAnn ==
    ASSUME TypeInv, OrderInv, AnnInv, ConsumerTakes \/ ConsumerTakesMarker
    PROVE  AnnInv'
<1>1. /\ queue # <<>> /\ queue' = Tail(queue) /\ UNCHANGED <<events, ended, canc>> /\ cons.at = "take"
  BY DEF ConsumerTakes, ConsumerTakesMarker, agent
<1>2. PICK q \in Seq(Event), t \in Seq(Event) : q = queue /\ t = queue' /\ Len(t) = Len(q) - 1 /\ Len(q) \in Nat
                                                /\ \A i \in 1..Len(t) : t[i] = q[i + 1]
  <2>1. PICK q \in Seq(Event), t \in Seq(Event) : q = queue /\ t = queue'
    BY <1>1, HeadTailProperties DEF TypeInv, QueueOK
  <2>2. q # <<>> /\ t = Tail(q)
    BY <1>1, <2>1
  <2> QED BY <2>1, <2>2, HeadTailProperties
<1>3. \A e : Announced(e)' <=> Announced(e)
  BY <1>1 DEF Announced
<1>4. \A i \in 1..Len(q) : Announced(q[i])
  BY <1>2 DEF AnnInv
<1>5. \A i \in 1..Len(t) : Announced(t[i])
  <2>1. \A i \in 1..Len(t) : i + 1 \in 1..Len(q)
    BY <1>2
  <2> QED BY <1>2, <1>4, <2>1
<1>6. PICK e : e = Head(queue)
  OBVIOUS
<1>7. e \in Event /\ e = q[1] /\ 1 \in 1..Len(q) /\ (e.kind \notin {"start", "end", "error", "task"} => Fit(e))
  BY <1>1, <1>2, <1>6, HeadFacts
<1>8. Announced(e)
  BY <1>4, <1>7
<1>9. e.kind \in Final => Late'
  <2>1. SUFFICES ASSUME e.kind \in Final PROVE Late'
    OBVIOUS
  <2>2. e.kind \in Work
    BY <1>7, <2>1 DEF Event, Final, Work
  <2>3. PICK n \in Nat : n = e.no
    BY <1>7 DEF Event
  <2>4. Rest' \subseteq Rest /\ \A m \in Rest' : n < m
    BY <1>1, <1>6, <2>2, <2>3, OrderTakes DEF OrderInv
  <2>5. Rest' \in SUBSET Nat
    BY <2>4, AheadIs
  <2>6. ended # 0 /\ ended <= n /\ ended \in Nat
    BY <1>8, <2>1, <2>3, AheadIs DEF Announced, TypeInv, AgentOK
  <2>7. \A m \in Rest' : ended < m
    BY <2>3, <2>4, <2>5, <2>6
  <2> QED BY <1>1, <2>6, <2>7 DEF Late
<1>10. cons'.at \in Busy => cons'.event \in {e, Failure}
  <2>1. CASE ConsumerTakesMarker
    <3>1. cons' = cons \/ cons' = [cons EXCEPT !.no = Head(queue).no]
      BY <2>1 DEF ConsumerTakesMarker
    <3>2. cons'.at = "take"
      BY <1>1, <3>1 DEF TypeInv, ConsumerOK
    <3> QED BY <3>2 DEF Busy, Storing
  <2>2. CASE ConsumerTakes
    <3>1. /\ heap \in Seq(Task) /\ current \in 0..Len(heap) /\ unsaved \in (-MaxRequests)..0
          /\ "get" \in Purposes /\ "ensure" \in Purposes /\ (current # 0 => current \in 1..Len(heap))
      BY DEF TypeInv, TasksOK, Purposes
    <3>2. \/ Fails(heap, current, unsaved)
          \/ UNCHANGED cons
          \/ Looks(heap, 0, "get", e)
          \/ Looks(heap, 0, "ensure", e)
          \/ Fit(e) /\ current # 0 /\ Keeps(heap, current, unsaved, e, current)
      BY <1>6, <1>7, <2>2 DEF ConsumerTakes
    <3>3. CASE UNCHANGED cons
      BY <1>1, <3>3 DEF Busy, Storing
    <3>4. CASE Fails(heap, current, unsaved)
      BY <3>1, <3>4, FailsGoesOn DEF GoesOn
    <3>5. CASE Looks(heap, 0, "get", e) \/ Looks(heap, 0, "ensure", e)
      BY <1>7, <3>1, <3>5, LooksGoesOn DEF GoesOn
    <3>6. CASE Fit(e) /\ current # 0 /\ Keeps(heap, current, unsaved, e, current)
      BY <3>1, <3>6, KeepsGoesOn DEF GoesOn
    <3> QED BY <3>2, <3>3, <3>4, <3>5, <3>6
  <2> QED BY <2>1, <2>2
<1>11. ASSUME cons'.at \in Busy PROVE Announced(cons'.event) /\ (cons'.event.kind \in Final => Late')
  <2>1. CASE cons'.event = e
    BY <1>8, <1>9, <2>1
  <2>2. CASE cons'.event = Failure
    BY <2>2, FitFacts DEF Announced, Final
  <2> QED BY <1>10, <1>11, <2>1, <2>2
<1> QED BY <1>2, <1>3, <1>5, <1>11 DEF AnnInv, Announced

\* The consumer goes on after an access to the store, or stops.
LEMMA ConsumerAnn ==
    ASSUME TypeInv, AnnInv,
           ConsumerGot \/ ConsumerEnsured \/ ConsumerInserted \/ ConsumerKept \/ ConsumerApplied
             \/ ConsumerSaveRaises \/ ConsumerSeesShutdown
    PROVE  AnnInv'
<1>1. /\ UNCHANGED <<events, queue, ended, canc>>
      /\ ConsumerSeesShutdown \/ cons.at \in Busy
  BY DEF ConsumerGot, ConsumerEnsured, ConsumerInserted, ConsumerKept, ConsumerApplied, ConsumerSaveRaises,
         ConsumerSeesShutdown, agent, Busy, Storing
<1>2. PICK e, u, h, c, f : e = cons.event /\ u = unsaved /\ h = Append(heap, f) /\ c = Len(h) /\ f = Found("consumer")
  OBVIOUS
<1>3. /\ heap \in Seq(Task) /\ Len(heap) \in Nat /\ current \in 0..Len(heap) /\ u \in (-MaxRequests)..0
      /\ cons \in [at : {"take", "over"} \cup Busy, for : Purposes, no : 0..MaxRequests, event : Event, hand : Nat]
      /\ ConsumerOK /\ e \in Event /\ "apply" \in Busy /\ "insert" \in Busy /\ "apply" \in Purposes
      /\ 0 \in 0..Len(heap) /\ cons.for \in Purposes
      /\ cons.at \in Busy /\ e.kind # "task" => Fit(e)
      /\ cons.at \in {"look", "insert", "keep"} /\ (cons.at = "look" => cons.for # "get") => e.kind # "task"
      /\ cons.at \in Storing => cons.hand \in 1..Len(heap)
      /\ "consumer" \in Writers
  BY <1>2, FoundFacts DEF TypeInv, ConsumerOK, TasksOK, Busy, Storing, Purposes, Writers
<1>4. f # NoTask => h \in Seq(Task) /\ c \in 1..Len(h) /\ c \in 0..Len(h) /\ current \in 0..Len(h)
  BY <1>2, <1>3, FoundIs
<1>5. (c = Len(heap) + 1 /\ c \in Nat) \/ f = NoTask
  BY <1>2, <1>3, FoundIs
<1>6. CASE ConsumerGot
  <2>1. \/ cons'.at = "take"
        \/ f # NoTask /\ Fails(h, c, u)
        \/ f # NoTask /\ e.kind # "task" /\ Keeps(h, c, u, e, c)
        \/ Waits("apply", "apply", e, c)
        \/ Fails(heap, 0, u)
        \/ Stops(heap, 0)
    BY <1>2, <1>3, <1>6 DEF ConsumerGot
  <2>2. CASE Waits("apply", "apply", e, c)
    <3>1. cons' = [cons EXCEPT !.at = "apply", !.for = "apply", !.event = e, !.hand = c]
      BY <2>2 DEF Waits
    <3> QED BY <1>1, <1>2, <1>3, <1>6, <3>1, AnnFrame DEF GoesOn, ConsumerGot
  <2>3. cons.at \in Busy
    BY <1>6 DEF ConsumerGot, Busy
  <2>4. ASSUME GoesOn(e) PROVE AnnInv'
    BY <1>1, <1>2, <2>3, <2>4, AnnFrame
  <2>5. CASE cons'.at = "take"
    BY <2>4, <2>5 DEF GoesOn, Busy, Storing
  <2>6. CASE f # NoTask /\ Fails(h, c, u)
    BY <1>3, <1>4, <2>4, <2>6, FailsGoesOn
  <2>7. CASE f # NoTask /\ e.kind # "task" /\ Keeps(h, c, u, e, c)
    BY <1>3, <1>4, <2>3, <2>4, <2>7, KeepsGoesOn
  <2>8. CASE Fails(heap, 0, u) \/ Stops(heap, 0)
    BY <1>3, <2>4, <2>8, FailsGoesOn, StopsGoesOn
  <2> QED BY <2>1, <2>2, <2>5, <2>6, <2>7, <2>8
<1>7. CASE ConsumerEnsured
  <2>1. /\ cons.at = "look" /\ cons.for \in {"ensure", "apply"}
        /\ \/ f # NoTask /\ Keeps(h, current, u, e, c)
           \/ f # NoTask /\ Processes(h, current, e, c)
           \/ Waits("insert", cons.for, e, c)
    BY <1>2, <1>7 DEF ConsumerEnsured
  <2>2. Fit(e)
    BY <1>3, <2>1 DEF Busy
  <2>3. GoesOn(e)
    <3>1. CASE Waits("insert", cons.for, e, c)
      <4>1. cons' = [cons EXCEPT !.at = "insert", !.for = cons.for, !.event = e, !.hand = c]
        BY <3>1 DEF Waits
      <4> QED BY <1>3, <4>1 DEF GoesOn
    <3> QED BY <1>3, <1>4, <2>1, <2>2, <3>1, KeepsGoesOn, ProcessesGoesOn
  <2> QED BY <1>1, <1>2, <2>1, <2>3, AnnFrame DEF Busy
<1>8. CASE ConsumerInserted \/ ConsumerKept \/ ConsumerApplied \/ ConsumerSaveRaises
  <2>1. /\ cons.at \in Storing
        /\ \/ cons.at # "apply" /\ Keeps(heap, cons.hand, u, e, cons.hand)
           \/ cons.at # "apply" /\ Processes(heap, cons.hand, e, cons.hand)
           \/ Stops(heap, cons.hand) \/ Stops(heap, current)
           \/ Fails(heap, current, u)
           \/ cons' = [cons EXCEPT !.at = "take"]
    BY <1>2, <1>8 DEF ConsumerInserted, ConsumerKept, ConsumerApplied, ConsumerSaveRaises, Storing
  <2>2. cons.hand \in 1..Len(heap) /\ cons.hand \in 0..Len(heap) /\ cons.at \in Busy
    BY <1>3, <2>1 DEF Busy
  <2>3. cons.at # "apply" => Fit(e)
    BY <1>3, <2>1, <2>2 DEF Storing
  <2>4. GoesOn(e)
    <3>1. CASE cons' = [cons EXCEPT !.at = "take"]
      <4>1. cons'.at = "take"
        BY <1>3, <3>1
      <4> QED BY <4>1 DEF GoesOn, Busy, Storing
    <3> QED BY <1>3, <2>1, <2>2, <2>3, <3>1, KeepsGoesOn, ProcessesGoesOn, StopsGoesOn, FailsGoesOn
  <2> QED BY <1>1, <1>2, <2>2, <2>4, AnnFrame
<1>9. CASE ConsumerSeesShutdown
  <2>1. Stops(heap, current)
    BY <1>9 DEF ConsumerSeesShutdown
  <2>2. cons'.at \notin Busy
    BY <1>3, <2>1, StopsFacts DEF TypeInv, StoreOK, Busy, Storing
  <2> QED BY <1>1, <2>2, AnnFrame DEF GoesOn
<1> QED BY <1>6, <1>7, <1>8, <1>9

\* What comes up is later still.
LEMMA LateStays ==
    ASSUME TypeInv, Stays, ended # 0 => ended' = ended
    PROVE  Late => Late'
<1>1. Rest \in SUBSET Nat /\ ended \in Nat
  BY AheadIs DEF TypeInv, AgentOK
<1>2. SUFFICES ASSUME Late PROVE Late'
  OBVIOUS
<1>3. ended' = ended /\ ended # 0 /\ \A n \in Rest : ended < n
  BY <1>2 DEF Late
<1>4. ASSUME NEW m \in Rest' PROVE ended < m
  <2>1. PICK n \in Rest : n <= m /\ m \in Nat
    BY DEF Stays
  <2>2. ended < n /\ n \in Nat
    BY <1>1, <1>3
  <2> QED BY <1>1, <2>1, <2>2
<1> QED BY <1>3, <1>4 DEF Late

\* A step of another than the consumer.
LEMMA OthersAnn ==
    ASSUME TypeInv, AnnInv, Stays, UNCHANGED cons, ended # 0 => ended' = ended, canc.at = "raised" => canc'.at = "raised",
           UNCHANGED queue \/ \E e \in Event : queue' = Append(queue, e) /\ Announced(e)'
    PROVE  AnnInv'
<1>1. \A e : Announced(e) => Announced(e)'
  BY DEF Announced
<1>3. Late => Late'
  BY LateStays
<1>4. ASSUME NEW i \in 1..Len(queue'), NEW d, d = queue'[i] PROVE Announced(d)'
  <2>1. CASE UNCHANGED queue
    <3>1. Announced(d)
      BY <1>4, <2>1 DEF AnnInv
    <3> QED BY <1>1, <3>1
  <2>2. ASSUME NEW e \in Event, queue' = Append(queue, e), Announced(e)'
        PROVE  Announced(d)'
    <3>1. PICK q \in Seq(Event), t \in Seq(Event) : q = queue /\ t = queue' /\ t = Append(q, e)
      BY <2>2, AppendProperties DEF TypeInv, QueueOK
    <3>2. Len(t) = Len(q) + 1 /\ Len(q) \in Nat /\ t[Len(q) + 1] = e /\ \A j \in 1..Len(q) : t[j] = q[j]
      BY <3>1, AppendProperties
    <3>3. \A j \in 1..Len(q) : Announced(q[j])
      BY <3>1 DEF AnnInv
    <3>4. i \in 1..Len(t) /\ d = t[i]
      BY <1>4, <3>1
    <3>5. CASE i \in 1..Len(q)
      <4>1. Announced(d)
        BY <3>2, <3>3, <3>4, <3>5
      <4> QED BY <1>1, <4>1
    <3>6. CASE i = Len(q) + 1
      BY <2>2, <3>2, <3>4, <3>6
    <3> QED BY <3>2, <3>4, <3>5, <3>6
  <2> QED BY <2>1, <2>2
<1>5. ASSUME cons.at \in Busy, NEW d, d = cons.event PROVE Announced(d)' /\ (d.kind \in Final => Late')
  <2>1. Announced(d) /\ (d.kind \in Final => Late)
    BY <1>5 DEF AnnInv
  <2> QED BY <1>1, <1>3, <2>1
<1>6. (\A i \in 1..Len(queue) : Announced(queue[i]))'
  BY <1>4 DEF Announced
<1>7. (cons.at \in Busy => Announced(cons.event) /\ (cons.event.kind \in Final => Late))'
  BY <1>5 DEF Announced
<1> QED BY <1>6, <1>7 DEF AnnInv

\* The producer, the agent and cancel() announce what they enqueue.
LEMMA OthersSpeak ==
    ASSUME TypeInv, OrderInv, AnnInv,
           \/ ProducerTakes \/ ProducerGot \/ AgentRaises \/ ProducerEnsured \/ ProducerInserted \/ ProducerFailed
           \/ ProducerSaveRaises \/ ProducerSeesShutdown \/ AgentReturns \/ (\E kind \in Kinds : AgentEmits(kind))
           \/ CancelEmits \/ CancelBegins \/ CancelGot \/ CancelStopsProducer \/ CancelFails \/ CancelGotFailing
           \/ CancelCloses \/ CancelGotAgain \/ CancelSaved
    PROVE  AnnInv'
<1>1. Stays
  BY OthersOrder
<1>2. /\ prod.no \in Nat /\ prod.no + 1 \in Nat /\ events \in Nat /\ events + 1 \in Nat /\ canc \in CancelRecords
      /\ ended \in 0..events
  BY AheadIs, CancelFacts DEF AgentOK
<1>3. ASSUME NEW kind \in {"start", "end", "error"}, NEW no \in Nat, queue' = Append(queue, Item(kind, no))
      PROVE  \E e \in Event : queue' = Append(queue, e) /\ Announced(e)'
  <2>1. PICK e \in Event : e = Item(kind, no) /\ e.kind = kind
    BY ItemIs
  <2>2. Announced(e)'
    BY <2>1 DEF Announced, Final
  <2> QED BY <1>3, <2>1, <2>2
<1>4. CASE ProducerTakes \/ ProducerGot
  <2>1. /\ UNCHANGED <<cons, ended, canc>>
        /\ UNCHANGED queue \/ queue' = Append(queue, Item("start", prod.no + 1)) \/ queue' = Append(queue, Item("start", prod.no))
    BY <1>4 DEF ProducerTakes, ProducerGot, Starts, agent, agentQ
  <2> QED BY <1>1, <1>2, <1>3, <2>1, OthersAnn
<1>5. CASE AgentRaises \/ ProducerEnsured \/ ProducerInserted \/ ProducerFailed \/ ProducerSaveRaises \/ ProducerSeesShutdown
  <2>1. /\ UNCHANGED <<cons, ended, canc>>
        /\ UNCHANGED queue \/ queue' = Append(queue, Item("error", 0))
    BY <1>5 DEF AgentRaises, ProducerEnsured, ProducerInserted, ProducerFailed, ProducerSaveRaises, ProducerSeesShutdown,
                MarksFailed, Reports, agent, agentQ
  <2> QED BY <1>1, <1>3, <2>1, OthersAnn
<1>6. CASE AgentReturns
  <2>1. UNCHANGED <<cons, ended, canc>> /\ queue' = Append(queue, Item("end", prod.no))
    BY <1>6 DEF AgentReturns, agent
  <2> QED BY <1>1, <1>2, <1>3, <2>1, OthersAnn
<1>7. ASSUME NEW kind \in Kinds, AgentEmits(kind) PROVE AnnInv'
  <2>1. /\ UNCHANGED <<cons, canc>> /\ events' = events + 1 /\ ended' \in 0..events + 1 /\ (ended # 0 => ended' = ended)
        /\ kind = "completed" => ended' # 0
        /\ queue' = Append(queue, Item(kind, events + 1))
    <3>1. PICK ends \in BOOLEAN : ends = (kind = "completed") /\ NextEvent(ends)
      BY <1>7 DEF AgentEmits
    <3> QED BY <1>7, <3>1, NextEventIs DEF AgentEmits
  <2>2. PICK e \in Event : e = Item(kind, events + 1) /\ e.kind = kind /\ e.no = events + 1
    BY <1>2, ItemIs
  <2>3. kind # "canceled" /\ kind # "unable"
    BY ManagerAssumption
  <2>4. Announced(e)'
    BY <1>2, <2>1, <2>2, <2>3 DEF Announced, Final
  <2> QED BY <1>1, <2>1, <2>2, <2>4, OthersAnn
<1>8. CASE CancelEmits
  <2>1. /\ UNCHANGED <<cons, canc>> /\ events' = events + 1 /\ ended' \in 0..events + 1 /\ (ended # 0 => ended' = ended)
        /\ ended' # 0 /\ queue' = Append(queue, Item("canceled", events + 1))
    BY <1>8, NextEventIs DEF CancelEmits
  <2>2. PICK e \in Event : e = Item("canceled", events + 1) /\ e.kind = "canceled" /\ e.no = events + 1
    BY <1>2, ItemIs
  <2>3. Announced(e)'
    BY <1>2, <2>1, <2>2 DEF Announced
  <2> QED BY <1>1, <2>1, <2>2, <2>3, OthersAnn
<1>9. CASE CancelBegins \/ CancelGot \/ CancelStopsProducer \/ CancelCloses \/ CancelGotAgain \/ CancelSaved
  <2>1. UNCHANGED <<cons, ended, queue>> /\ canc.at # "raised"
    BY <1>9 DEF CancelBegins, CancelGot, CancelStopsProducer, CancelCloses, CancelGotAgain, CancelSaved, agentQ, agent
  <2> QED BY <1>1, <2>1, OthersAnn
<1>10. CASE CancelFails \/ CancelGotFailing
  <2>1. /\ UNCHANGED <<cons, ended>> /\ canc.at # "raised"
        /\ UNCHANGED queue \/ (canc' = [canc EXCEPT !.at = "raised"] /\ queue' = Append(queue, Item("unable", 0)))
    BY <1>10 DEF CancelFails, CancelGotFailing, Raises, agent
  <2>2. ASSUME canc' = [canc EXCEPT !.at = "raised"], queue' = Append(queue, Item("unable", 0))
        PROVE  \E e \in Event : queue' = Append(queue, e) /\ Announced(e)'
    <3>1. PICK e \in Event : e = Item("unable", 0) /\ e.kind = "unable"
      BY ItemIs
    <3>2. canc'.at = "raised"
      BY <1>2, <2>2 DEF CancelRecords
    <3>3. Announced(e)'
      BY <3>1, <3>2 DEF Announced, Final
    <3> QED BY <2>2, <3>1, <3>3
  <2> QED BY <1>1, <2>1, <2>2, OthersAnn
<1> QED BY <1>4, <1>5, <1>6, <1>7, <1>8, <1>9, <1>10

\* A step announces what it enqueues.
LEMMA NextAnnInv == TypeInv /\ OrderInv /\ AnnInv /\ [Next]_vars => AnnInv'
<1> SUFFICES ASSUME TypeInv, OrderInv, AnnInv, [Next]_vars PROVE AnnInv'
  OBVIOUS
<1>1. CASE (\E w \in Writers : Read(w) \/ Commit(w)) \/ UNCHANGED vars
  <2>1. UNCHANGED <<events, queue, ended, canc, cons>>
    BY <1>1 DEF vars, Read, Commit, agentQ, agent
  <2> QED BY <2>1, AnnFrame DEF GoesOn
<1>2. CASE ConsumerTakesMarker \/ ConsumerTakes
  BY <1>2, TakesAnn
<1>3. CASE ConsumerGot \/ ConsumerEnsured \/ ConsumerInserted \/ ConsumerKept \/ ConsumerApplied
             \/ ConsumerSaveRaises \/ ConsumerSeesShutdown
  BY <1>3, ConsumerAnn
<1>4. CASE \/ ProducerTakes \/ ProducerGot \/ AgentRaises \/ ProducerEnsured \/ ProducerInserted \/ ProducerFailed
           \/ ProducerSaveRaises \/ ProducerSeesShutdown \/ AgentReturns \/ (\E kind \in Kinds : AgentEmits(kind))
           \/ CancelEmits \/ CancelBegins \/ CancelGot \/ CancelStopsProducer \/ CancelFails \/ CancelGotFailing
           \/ CancelCloses \/ CancelGotAgain \/ CancelSaved
  BY <1>4, OthersSpeak
<1> QED BY <1>1, <1>2, <1>3, <1>4 DEF Next

\* Nothing has been announced.
LEMMA InitAnnInv == Init => AnnInv
  BY DEF Init, AnnInv, Busy, Storing

-----------------------------------------------------------------------------
(* The task cancel() closes                                                *)

\* A step that leaves the copy and the task alone.
LEMMA CloseFrame ==
    ASSUME CloseInv, canc'.at = "save" => UNCHANGED canc, clean' => clean, ~failed' => ~failed,
           clean' /\ ~failed' /\ canc.at = "save" =>
              (finished => finished') /\ heap' = heap /\ current' = current
    PROVE  CloseInv'
<1>1. SUFFICES ASSUME clean', ~failed', canc'.at = "save" PROVE CloseInv'
  BY DEF CloseInv
<1>2. clean /\ ~failed /\ canc.at = "save" /\ (finished => finished') /\ heap' = heap /\ current' = current
  BY <1>1
<1> QED BY <1>1, <1>2 DEF CloseInv

\* A consumer that is not alone at the store stops, unless the access fails the turns.
LEMMA OnlyStops ==
    ASSUME ~Alone("consumer"), clean', NEW h, NEW c, NEW u, NEW e, NEW o, NEW for,
           Fails(h, c, u) \/ Keeps(h, c, u, e, o) \/ Processes(h, c, e, o) \/ Looks(h, c, for, e)
    PROVE  Stops(h, c)
<1>1. \A t : ~Save("consumer", t)
  BY DEF Alone, Save, Begins
<1>2. ~Get("consumer")
  BY DEF Alone, Get, Begins
<1>3. ASSUME NEW d, NEW p, Processes(h, c, d, p) PROVE Stops(h, c)
  BY <1>1, <1>3 DEF Processes, Applies
<1>4. ASSUME NEW d, NEW p, Keeps(h, c, u, d, p) PROVE Stops(h, c)
  BY <1>1, <1>2, <1>3, <1>4, KeepsMeans DEF KeepsMessage, Looks
<1> QED BY <1>2, <1>3, <1>4, FailsMeans DEF Looks

\* The consumer takes an event, or sees the shutdown.
LEMMA TakesClose ==
    ASSUME TypeInv, CloseInv, ConsumerTakes \/ ConsumerTakesMarker \/ ConsumerSeesShutdown
    PROVE  CloseInv'
<1>1. UNCHANGED <<canc, failed>>
  BY DEF ConsumerTakes, ConsumerTakesMarker, ConsumerSeesShutdown, agent
<1>2. clean' => clean
  BY DEF ConsumerTakes, ConsumerTakesMarker, ConsumerSeesShutdown, accesses, Fails, Keeps, Looks, Stops, Processes,
         Applies, Save, Get, Begins, Done
<1>3. ASSUME clean', canc.at = "save"
      PROVE  (finished => finished') /\ heap' = heap /\ current' = current
  <2>1. ~Alone("consumer")
    BY <1>3 DEF TypeInv, CancelOK, Alone, Writers, Saving
  <2>2. PICK e, u, c : e = Head(queue) /\ u = unsaved /\ c = current
    OBVIOUS
  <2>3. \/ Stops(heap, c)
        \/ Fails(heap, c, u) \/ Keeps(heap, c, u, e, c) \/ Looks(heap, c, "get", e) \/ Looks(heap, c, "ensure", e)
        \/ heap' = heap /\ current' = current /\ finished' = (finished \/ heap[current].state \in Terminal)
        \/ UNCHANGED <<tasks, flags>>
    BY <2>2 DEF ConsumerTakes, ConsumerTakesMarker, ConsumerSeesShutdown, tasks
  <2>4. \/ Stops(heap, c)
        \/ heap' = heap /\ current' = current /\ (finished => finished')
    BY <1>3, <2>1, <2>3, OnlyStops DEF tasks, flags
  <2> QED BY <2>2, <2>4 DEF Stops
<1> QED BY <1>1, <1>2, <1>3, CloseFrame

\* Nobody else is at the store.
LEMMA OthersClose ==
    ASSUME TypeInv, StoreInv, CloseInv, clean' => clean, ~failed' => ~failed, UNCHANGED canc,
           cons.at \in Busy \/ prod.at = "look"
    PROVE  CloseInv'
<1>1. ASSUME clean, canc.at = "save" PROVE FALSE
  <2>1. access["cancel"].at # "none" /\ "cancel" \in Writers
    BY <1>1 DEF TypeInv, CancelOK, Saving, Writers
  <2>2. access["consumer"].at = "none" /\ access["producer"].at = "none"
    BY <1>1, <2>1, WhoIsThere DEF Alone, Writers
  <2> QED BY <2>2 DEF TypeInv, ConsumerOK, ProducerOK, Busy, Selecting, Saving
<1> QED BY <1>1, CloseFrame

\* cancel() closes a copy of the task in memory.
LEMMA ClosesClose ==
    ASSUME TypeInv, MemoryInv, CancelCloses
    PROVE  CloseInv'
<1>1. /\ canc.at = "wait" /\ finished /\ canc \in CancelRecords /\ heap \in Seq(Task) /\ current \in 0..Len(heap)
      /\ UNCHANGED <<failed, finished>>
  BY CancelFacts DEF CancelCloses, agent, flags
<1>2. clean' => clean
  BY DEF CancelCloses, Closes, Done, Save, Get, Begins
<1>3. SUFFICES ASSUME clean', ~failed', canc'.at = "save" PROVE CloseInv'
  BY DEF CloseInv
<1>4. current \in 1..Len(heap) /\ Closes(heap, current)
  <2>1. current # 0
    BY <1>1, <1>2, <1>3 DEF MemoryInv
  <2> QED BY <1>1, <2>1 DEF CancelCloses
<1>5. PICK t \in Task : t = heap[current]
  BY <1>1, <1>4, ElementOfSeq
<1>6. PICK s : s = [t EXCEPT !.state = "canceled"]
  OBVIOUS
<1>7. s \in Task /\ s.state = "canceled" /\ Said(s) = Said(t)
  <2>1. "canceled" \in States
    BY DEF States, Terminal
  <2>2. s \in Task /\ Said(s) = Said(t)
    BY <1>6, <2>1, TaskOps, StateSays
  <2> QED BY <1>6, <2>2 DEF Task
<1>8. /\ heap' = Append(heap, s) /\ current' = current
      /\ canc' = [at |-> "save", hand |-> Len(heap')]
  <2>1. heap[current].state \notin Terminal
    <3>1. ASSUME canc' = [canc EXCEPT !.at = "returned"] PROVE FALSE
      BY <1>1, <1>3, <3>1 DEF CancelRecords
    <3> QED BY <1>4, <3>1 DEF Closes
  <2> QED BY <1>4, <1>5, <1>6, <2>1 DEF Closes
<1>9. Len(heap') = Len(heap) + 1 /\ heap'[Len(heap) + 1] = s /\ heap'[current] = heap[current]
  BY <1>1, <1>4, <1>7, <1>8, Extends
<1>10. canc'.hand = Len(heap) + 1
  BY <1>8, <1>9
<1> QED BY <1>1, <1>5, <1>7, <1>8, <1>9, <1>10 DEF CloseInv, Terminal

\* No step disturbs what cancel() closes.
LEMMA NextCloseInv == TypeInv /\ StoreInv /\ MemoryInv /\ CloseInv /\ [Next]_vars => CloseInv'
<1> SUFFICES ASSUME TypeInv, StoreInv, MemoryInv, CloseInv, [Next]_vars PROVE CloseInv'
  OBVIOUS
<1>1. ASSUME UNCHANGED <<canc, failed, clean, finished, heap, current>> PROVE CloseInv'
  BY <1>1, CloseFrame
<1>2. ASSUME NEW w \in Writers, Read(w) \/ Commit(w) PROVE CloseInv'
  BY <1>1, <1>2 DEF Read, Commit, tasks, flags, agent
<1>3. CASE ConsumerTakes \/ ConsumerTakesMarker \/ ConsumerSeesShutdown
  BY <1>3, TakesClose
<1>4. CASE ConsumerGot \/ ConsumerEnsured \/ ConsumerInserted \/ ConsumerKept \/ ConsumerApplied \/ ConsumerSaveRaises
  <2>1. cons.at \in Busy /\ UNCHANGED <<canc, failed>>
    BY <1>4 DEF ConsumerGot, ConsumerEnsured, ConsumerInserted, ConsumerKept, ConsumerApplied, ConsumerSaveRaises,
                agent, Busy, Storing
  <2>2. clean' => clean
    BY <1>4 DEF ConsumerGot, ConsumerEnsured, ConsumerInserted, ConsumerKept, ConsumerApplied, ConsumerSaveRaises,
                Fails, Keeps, Looks, Stops, Processes, Applies, Save, Get, Begins, Done
  <2> QED BY <2>1, <2>2, OthersClose
<1>5. CASE ProducerTakes \/ ProducerGot
  <2>1. UNCHANGED <<canc, failed>>
    BY <1>5 DEF ProducerTakes, ProducerGot, agent
  <2>2. ProducerTakes => UNCHANGED <<finished, heap, current>>
    BY DEF ProducerTakes, tasks, flags
  <2>3. ProducerTakes => UNCHANGED clean \/ Get("producer")
    BY DEF ProducerTakes, accesses
  <2>4. Get("producer") => (clean' => clean)
    BY DEF Get, Begins
  <2>5. ProducerGot => prod.at = "look" /\ clean' = clean
    BY DEF ProducerGot, Done
  <2> QED BY <1>5, <2>1, <2>2, <2>3, <2>4, <2>5, CloseFrame, OthersClose
<1>6. CASE (\E kind \in Kinds : AgentEmits(kind)) \/ AgentReturns \/ ProducerSeesShutdown \/ CancelEmits
  BY <1>1, <1>6 DEF AgentEmits, AgentReturns, ProducerSeesShutdown, CancelEmits, agent, tasks, flags, accesses
<1>7. CASE AgentRaises
  <2>1. failed'
    BY <1>7 DEF AgentRaises
  <2> QED BY <2>1 DEF CloseInv
<1>8. CASE ProducerEnsured \/ ProducerInserted \/ ProducerFailed \/ ProducerSaveRaises
  <2>1. prod.at \in Marking /\ UNCHANGED failed
    BY <1>8 DEF ProducerEnsured, ProducerInserted, ProducerFailed, ProducerSaveRaises, agent, Marking
  <2>2. clean' => clean
    BY <1>8 DEF ProducerEnsured, ProducerInserted, ProducerFailed, ProducerSaveRaises, MarksFailed, Save, Begins, Done
  <2> QED BY <2>1, <2>2 DEF MemoryInv, CloseInv
<1>9. CASE CancelBegins \/ CancelStopsProducer \/ CancelFails \/ CancelSaved
  <2>1. canc \in CancelRecords
    BY CancelFacts
  <2>2. canc'.at # "save"
    BY <1>9, <2>1 DEF CancelBegins, Asks, CancelStopsProducer, CancelFails, Raises, CancelSaved, CancelRecords
  <2> QED BY <2>2 DEF CloseInv
<1>10. CASE CancelGot \/ CancelGotAgain \/ CancelGotFailing
  <2>1. UNCHANGED failed
    BY <1>10 DEF CancelGot, CancelGotAgain, CancelGotFailing, agent
  <2>2. clean' => clean
    BY <1>10 DEF CancelGot, CancelGotAgain, CancelGotFailing, Closes, Raises, Interrupts, Done, Save, Begins
  <2> QED BY <1>10, <2>1, <2>2, CancelLooksMemory DEF CloseInv
<1>11. CASE CancelCloses
  BY <1>11, ClosesClose
<1>12. CASE UNCHANGED vars
  BY <1>1, <1>12 DEF vars, accesses, tasks, flags, agent
<1> QED BY <1>2, <1>3, <1>4, <1>5, <1>6, <1>7, <1>8, <1>9, <1>10, <1>11, <1>12 DEF Next

\* cancel() has not begun.
LEMMA InitCloseInv == Init => CloseInv
  BY DEF Init, CloseInv

-----------------------------------------------------------------------------
(* The messages of the requests                                            *)

\* A step that puts nothing into the queue.
LEMMA BeginStays ==
    ASSUME BeginInv, clean' => clean, ~failed' => ~failed, UNCHANGED <<events, queue>>,
           canc.at = "raised" => canc'.at = "raised",
           UNCHANGED prod \/ (prod'.at = "execute" => prod'.hand = current'),
           clean' /\ ~failed' /\ current = 0 => current' = 0,
           cons.at \in {"take", "over"} => cons'.at \in {"take", "over"}
    PROVE  BeginInv'
<1>1. SUFFICES ASSUME clean', ~failed' PROVE BeginInv'
  BY DEF BeginInv
<1>2. clean /\ ~failed /\ (current = 0 => current' = 0)
  BY <1>1
<1>3. /\ events = 0 => cons.at \in {"take", "over"} \/ canc.at = "raised"
      /\ events = 0 /\ prod.at = "execute" /\ prod.hand = 0 => current = 0
      /\ \A i \in 1..Len(queue) : queue[i].kind = "task" =>
              queue[i].no = 1 /\ current = 0 /\ cons.at \in {"take", "over"}
  BY <1>2 DEF BeginInv
<1>4. prod'.at = "execute" /\ prod'.hand = 0 => current' = 0 \/ UNCHANGED prod
  OBVIOUS
<1> QED BY <1>2, <1>3, <1>4 DEF BeginInv

\* A step that puts something into the queue.
LEMMA BeginPuts ==
    ASSUME TypeInv, BeginInv, clean' => clean, ~failed' => ~failed, NEW e \in Event, queue' = Append(queue, e),
           UNCHANGED cons, events' = events \/ events' # 0, canc.at = "raised" => canc'.at = "raised",
           clean' /\ ~failed' /\ e.kind = "task" => e.no = 1 /\ current = 0 /\ cons.at \in {"take", "over"},
           UNCHANGED prod \/ (prod'.at = "execute" => prod'.hand = current'),
           clean' /\ ~failed' /\ current = 0 => current' = 0
    PROVE  BeginInv'
<1>1. SUFFICES ASSUME clean', ~failed' PROVE BeginInv'
  BY DEF BeginInv
<1>2. clean /\ ~failed /\ (current = 0 => current' = 0)
  BY <1>1
<1>3. /\ events = 0 => cons.at \in {"take", "over"} \/ canc.at = "raised"
      /\ events = 0 /\ prod.at = "execute" /\ prod.hand = 0 => current = 0
      /\ \A i \in 1..Len(queue) : queue[i].kind = "task" =>
              queue[i].no = 1 /\ current = 0 /\ cons.at \in {"take", "over"}
  BY <1>2 DEF BeginInv
<1>4. PICK q \in Seq(Event), t \in Seq(Event) : q = queue /\ t = queue' /\ t = Append(q, e)
  BY AppendProperties DEF TypeInv, QueueOK
<1>5. Len(t) = Len(q) + 1 /\ Len(q) \in Nat /\ t[Len(q) + 1] = e /\ \A i \in 1..Len(q) : t[i] = q[i]
  BY <1>4, AppendProperties
<1>6. ASSUME NEW i \in 1..Len(t), t[i].kind = "task"
      PROVE  t[i].no = 1 /\ current' = 0 /\ cons'.at \in {"take", "over"}
  <2>1. CASE i \in 1..Len(q)
    BY <1>2, <1>3, <1>4, <1>5, <1>6, <2>1
  <2>2. CASE i = Len(q) + 1
    BY <1>1, <1>2, <1>5, <1>6, <2>2
  <2> QED BY <1>5, <2>1, <2>2
<1>7. prod'.at = "execute" /\ prod'.hand = 0 => current' = 0 \/ UNCHANGED prod
  OBVIOUS
<1>8. events' = 0 => events = 0
  OBVIOUS
<1> QED BY <1>2, <1>3, <1>4, <1>6, <1>7, <1>8 DEF BeginInv

\* The consumer takes the first event that is left.
LEMMA TakesBegin ==
    ASSUME TypeInv, MemoryInv, OrderInv, AnnInv, BeginInv, ConsumerTakes
    PROVE  /\ BeginInv'
           /\ clean /\ ~failed => Head(queue).kind # "error" /\ (Head(queue).kind = "task" => current = 0)
<1>1. /\ queue # <<>> /\ queue' = Tail(queue) /\ UNCHANGED <<events, failed, ended, prod, canc>>
      /\ Head(queue).kind \notin {"start", "end"}
  BY DEF ConsumerTakes, agent
<1>2. clean' => clean
  BY DEF ConsumerTakes, accesses, Fails, Keeps, Looks, Stops, Processes, Applies, Save, Get, Begins, Done
<1>3. SUFFICES ASSUME clean, ~failed
               PROVE  /\ BeginInv'
                      /\ Head(queue).kind # "error" /\ (Head(queue).kind = "task" => current = 0)
  BY <1>1, <1>2 DEF BeginInv
<1>4. NoError
  BY <1>3 DEF MemoryInv
<1>5. Head(queue).kind # "error"
  BY <1>1, <1>4, NoErrorTakes
<1>6. Head(queue) \in Event /\ Head(queue) = queue[1] /\ 1 \in 1..Len(queue)
  BY <1>1, HeadFacts
<1>7. Head(queue).kind \in Work \/ Head(queue).kind = "unable"
  <2>1. Head(queue).kind # "failed"
    BY <1>6 DEF TypeInv, QueueOK
  <2> QED BY <1>1, <1>5, <1>6, <2>1 DEF Event, Work
<1>8. PICK a : a = Head(queue).no
  OBVIOUS
<1>9. WorkOrder
  BY DEF OrderInv
<1>10. Head(queue).kind \in Work => events >= 1 /\ a >= 1 /\ \A m \in Rest' : a < m
  <2>1. Head(queue).kind \in Work => queue[1].no \in 1..events
    BY <1>6, <1>9 DEF WorkOrder
  <2> QED BY <1>1, <1>6, <1>8, <1>9, <2>1, AheadIs, OrderTakes
<1>11. Head(queue).kind = "unable" => canc.at = "raised" /\ current # 0
  BY <1>3, <1>6 DEF AnnInv, Announced, MemoryInv
<1>12. PICK q \in Seq(Event), t \in Seq(Event) : q = queue /\ t = queue' /\ Len(t) = Len(q) - 1 /\ Len(q) \in Nat
                                                 /\ \A i \in 1..Len(t) : t[i] = q[i + 1]
  <2>1. PICK q \in Seq(Event), t \in Seq(Event) : q = queue /\ t = queue'
    BY <1>1, HeadTailProperties DEF TypeInv, QueueOK
  <2>2. q # <<>> /\ t = Tail(q)
    BY <1>1, <2>1
  <2> QED BY <2>1, <2>2, HeadTailProperties
<1>13. ASSUME NEW i \in 1..Len(t), t[i].kind = "task" PROVE FALSE
  <2>1. i + 1 \in 1..Len(q) /\ t[i] = q[i + 1] /\ t[i] \in Event
    BY <1>12, ElementOfSeq
  <2>2. t[i].no = 1 /\ current = 0
    BY <1>3, <1>12, <1>13, <2>1 DEF BeginInv
  <2>3. t[i].kind \in Work
    BY <1>13, <2>1 DEF Event, Work
  <2>4. t[i].no \in Rest'
    BY <1>12, <2>3 DEF Rest
  <2>5. a \in Nat
    BY <1>6, <1>8 DEF Event
  <2> QED BY <1>7, <1>10, <1>11, <2>2, <2>4, <2>5
<1>14. Head(queue).kind = "task" => current = 0
  BY <1>3, <1>6 DEF BeginInv
<1>15. events' # 0 \/ (canc'.at = "raised" /\ current # 0)
  BY <1>1, <1>7, <1>10, <1>11, AheadIs
<1>16. ~(events' = 0 /\ prod'.at = "execute" /\ prod'.hand = 0)
  BY <1>1, <1>3, <1>15 DEF BeginInv
<1>17. BeginInv'
  BY <1>12, <1>13, <1>15, <1>16 DEF BeginInv
<1> QED BY <1>5, <1>14, <1>17

\* The consumer takes the marker of a request.
LEMMA MarkerBegin ==
    ASSUME TypeInv, BeginInv, ConsumerTakesMarker
    PROVE  BeginInv'
<1>1. /\ queue # <<>> /\ queue' = Tail(queue) /\ UNCHANGED <<clean, failed, events, prod, current, canc>>
      /\ cons' = cons \/ cons' = [cons EXCEPT !.no = Head(queue).no]
  BY DEF ConsumerTakesMarker, accesses, tasks
<1>2. cons'.at = cons.at
  <2>1. cons \in [at : {"take", "over"} \cup Busy, for : Purposes, no : 0..MaxRequests, event : Event, hand : Nat]
    BY DEF TypeInv, ConsumerOK
  <2> QED BY <1>1, <2>1
<1>3. PICK q \in Seq(Event), t \in Seq(Event) : q = queue /\ t = queue' /\ Len(t) = Len(q) - 1 /\ Len(q) \in Nat
                                                 /\ \A i \in 1..Len(t) : t[i] = q[i + 1]
  <2>1. PICK q \in Seq(Event), t \in Seq(Event) : q = queue /\ t = queue'
    BY <1>1, HeadTailProperties DEF TypeInv, QueueOK
  <2>2. q # <<>> /\ t = Tail(q)
    BY <1>1, <2>1
  <2> QED BY <2>1, <2>2, HeadTailProperties
<1>4. SUFFICES ASSUME clean, ~failed PROVE BeginInv'
  BY <1>1 DEF BeginInv
<1>5. /\ events = 0 => cons.at \in {"take", "over"} \/ canc.at = "raised"
      /\ events = 0 /\ prod.at = "execute" /\ prod.hand = 0 => current = 0
      /\ \A i \in 1..Len(q) : q[i].kind = "task" =>
              q[i].no = 1 /\ current = 0 /\ cons.at \in {"take", "over"}
  BY <1>3, <1>4 DEF BeginInv
<1>6. \A i \in 1..Len(t) : i + 1 \in 1..Len(q) /\ t[i] = q[i + 1]
  BY <1>3
<1> QED BY <1>1, <1>2, <1>3, <1>5, <1>6 DEF BeginInv

\* The consumer goes on after an access to the store, or stops.
LEMMA ConsumerBegin ==
    ASSUME TypeInv, MemoryInv, BeginInv,
           ConsumerGot \/ ConsumerEnsured \/ ConsumerInserted \/ ConsumerKept \/ ConsumerApplied
             \/ ConsumerSaveRaises \/ ConsumerSeesShutdown
    PROVE  BeginInv'
<1>1. /\ UNCHANGED <<queue, events, failed, prod, canc>>
      /\ clean' => clean
  <2>1. UNCHANGED <<queue, events, failed, prod, canc>>
    BY DEF ConsumerGot, ConsumerEnsured, ConsumerInserted, ConsumerKept, ConsumerApplied, ConsumerSaveRaises, ConsumerSeesShutdown, agent
  <2>2. clean' => clean
    BY DEF ConsumerGot, ConsumerEnsured, ConsumerInserted, ConsumerKept, ConsumerApplied, ConsumerSaveRaises, ConsumerSeesShutdown,
           Fails, Keeps, Looks, Stops, Processes, Applies, Save, Get, Begins, Done
  <2> QED BY <2>1, <2>2
<1>2. CASE ConsumerSeesShutdown
  <2>1. current' = current /\ cons' = [cons EXCEPT !.at = "over"]
    BY <1>2 DEF ConsumerSeesShutdown, Stops
  <2>2. cons'.at = "over"
    <3>1. cons \in [at : {"take", "over"} \cup Busy, for : Purposes, no : 0..MaxRequests, event : Event, hand : Nat]
      BY DEF TypeInv, ConsumerOK
    <3> QED BY <2>1, <3>1
  <2> QED BY <1>1, <2>1, <2>2, BeginStays
<1>3. CASE cons.at \notin {"take", "over"}
  BY <1>1, <1>3 DEF BeginInv, MemoryInv
<1>4. ConsumerSeesShutdown \/ cons.at \notin {"take", "over"}
  BY DEF ConsumerGot, ConsumerEnsured, ConsumerInserted, ConsumerKept, ConsumerApplied, ConsumerSaveRaises
<1> QED BY <1>2, <1>3, <1>4

\* The producer announces its request with the task it knows.
LEMMA StartsBegin ==
    ASSUME TypeInv, BeginInv, clean' => clean, UNCHANGED <<failed, events, cons, canc>>, NEW no \in Nat, Starts(no, current'),
           clean' /\ ~failed' /\ current = 0 => current' = 0
    PROVE  BeginInv'
<1>1. CASE open
  <2>1. prod' = [at |-> "execute", no |-> no, hand |-> current'] /\ queue' = Append(queue, Item("start", no))
    BY <1>1 DEF Starts
  <2>2. PICK e \in Event : e = Item("start", no) /\ e.kind = "start"
    BY ItemIs
  <2>3. prod'.hand = current'
    BY <2>1
  <2> QED BY <2>1, <2>2, <2>3, BeginPuts
<1>2. CASE ~open
  <2>1. ProducerStops /\ UNCHANGED queue
    BY <1>2 DEF Starts
  <2>2. prod'.at = "over"
    BY <2>1, StopsProducer
  <2> QED BY <2>1, <2>2, BeginStays
<1> QED BY <1>1, <1>2

\* The producer takes a request, and the agent returns.
LEMMA ProducerBegin ==
    ASSUME TypeInv, StoreInv, MemoryInv, BeginInv, ProducerTakes \/ ProducerGot \/ AgentReturns \/ ProducerSeesShutdown
    PROVE  BeginInv'
<1>1. /\ prod \in [at : ProducerAts, no : 0..MaxRequests, hand : Nat] /\ prod.no \in Nat /\ prod.no + 1 \in Nat
  BY ProducerFacts
<1>2. CASE ProducerTakes
  <2>1. /\ UNCHANGED <<failed, events, cons, current, canc>> /\ (clean' => clean)
        /\ \/ Starts(prod.no + 1, current)
           \/ prod' = [prod EXCEPT !.at = "look", !.no = @ + 1] /\ UNCHANGED queue
    <3>1. clean' => clean
      BY <1>2 DEF ProducerTakes, accesses, Get, Begins
    <3> QED BY <1>2, <3>1 DEF ProducerTakes, tasks, agentQ
  <2>2. CASE Starts(prod.no + 1, current)
    <3>1. PICK no \in Nat : no = prod.no + 1
      BY <1>1
    <3>2. Starts(no, current')
      BY <2>1, <2>2, <3>1
    <3> QED BY <2>1, <3>2, StartsBegin
  <2>3. CASE prod' = [prod EXCEPT !.at = "look", !.no = @ + 1] /\ UNCHANGED queue
    <3>1. prod'.at = "look"
      BY <1>1, <2>3
    <3> QED BY <2>1, <2>3, <3>1, BeginStays
  <2> QED BY <2>1, <2>2, <2>3
<1>3. CASE ProducerGot
  <2>1. /\ clean' = clean /\ Starts(prod.no, current') /\ UNCHANGED <<failed, events, cons, canc>>
    BY <1>3 DEF ProducerGot, Done, agent
  <2>2. clean' /\ ~failed' => current' = current
    BY <1>3, <2>1, ProducerGotMemory
  <2>3. PICK no \in Nat : no = prod.no
    BY <1>1
  <2>4. Starts(no, current')
    BY <2>1, <2>3
  <2> QED BY <2>1, <2>2, <2>4, StartsBegin
<1>4. CASE AgentReturns
  <2>1. /\ prod' = [prod EXCEPT !.at = "wait"] /\ queue' = Append(queue, Item("end", prod.no))
        /\ UNCHANGED <<failed, events, cons, current, clean, canc>>
    BY <1>4 DEF AgentReturns, agent, tasks, accesses
  <2>2. PICK e \in Event : e = Item("end", prod.no) /\ e.kind = "end"
    BY <1>1, ItemIs
  <2>3. prod'.at = "wait"
    BY <1>1, <2>1
  <2> QED BY <2>1, <2>2, <2>3, BeginPuts
<1>5. CASE ProducerSeesShutdown
  <2>1. ProducerStops /\ UNCHANGED <<failed, events, cons, current, clean, queue, canc>>
    BY <1>5 DEF ProducerSeesShutdown, agent, tasks, accesses
  <2>2. prod'.at = "over"
    BY <2>1, StopsProducer
  <2> QED BY <2>1, <2>2, BeginStays
<1> QED BY <1>2, <1>3, <1>4, <1>5

\* An agent that begins with a Task enqueues the first event of all.
LEMMA EmitsBegin ==
    ASSUME TypeInv, MemoryInv, BeginInv, (\E kind \in Kinds : AgentEmits(kind)) \/ CancelEmits
    PROVE  BeginInv'
<1>1. events \in Nat /\ events + 1 \in Nat /\ events + 1 # 0
  BY AheadIs
<1>2. ASSUME NEW kind \in Kinds, AgentEmits(kind) PROVE BeginInv'
  <2>1. /\ UNCHANGED <<clean, failed, cons, prod, current, canc>> /\ prod.at = "execute"
        /\ kind = "task" => prod.hand = 0 /\ events = 0
        /\ events' = events + 1 /\ queue' = Append(queue, Item(kind, events + 1))
    BY <1>2 DEF AgentEmits, NextEvent, tasks, accesses
  <2>2. PICK e \in Event : e = Item(kind, events + 1) /\ e.kind = kind /\ e.no = events + 1
    BY <1>1, ItemIs
  <2>3. clean' /\ ~failed' /\ e.kind = "task" => e.no = 1 /\ current = 0 /\ cons.at \in {"take", "over"}
    BY <2>1, <2>2 DEF BeginInv, MemoryInv
  <2> QED BY <1>1, <2>1, <2>2, <2>3, BeginPuts
<1>3. CASE CancelEmits
  <2>1. /\ UNCHANGED <<clean, failed, cons, prod, current, canc>>
        /\ events' = events + 1 /\ queue' = Append(queue, Item("canceled", events + 1))
    BY <1>3 DEF CancelEmits, NextEvent, tasks, accesses
  <2>2. PICK e \in Event : e = Item("canceled", events + 1) /\ e.kind = "canceled"
    BY <1>1, ItemIs
  <2> QED BY <1>1, <2>1, <2>2, BeginPuts
<1> QED BY <1>2, <1>3

\* cancel() never makes a task that was not there.
LEMMA CancelBegin ==
    ASSUME TypeInv, MemoryInv, BeginInv,
           \/ CancelBegins \/ CancelGot \/ CancelStopsProducer \/ CancelFails \/ CancelGotFailing
           \/ CancelCloses \/ CancelGotAgain \/ CancelSaved
    PROVE  BeginInv'
<1>1. /\ UNCHANGED <<events, failed, cons>> /\ (UNCHANGED prod \/ ProducerStops)
      /\ UNCHANGED queue \/ queue' = Append(queue, Item("unable", 0))
      /\ canc.at # "raised" /\ (clean' => clean)
  <2>1. UNCHANGED <<events, failed, cons>> /\ (UNCHANGED prod \/ ProducerStops) /\ canc.at # "raised"
    BY DEF CancelBegins, CancelGot, CancelStopsProducer, CancelFails, CancelGotFailing, CancelCloses, CancelGotAgain,
           CancelSaved, Raises, Interrupts, agentQ, agent
  <2>2. UNCHANGED queue \/ queue' = Append(queue, Item("unable", 0))
    BY DEF CancelBegins, CancelGot, CancelStopsProducer, CancelFails, CancelGotFailing, CancelCloses, CancelGotAgain,
           CancelSaved, Raises, agentQ
  <2>3. clean' => clean
    BY DEF CancelBegins, CancelGot, CancelStopsProducer, CancelFails, CancelGotFailing, CancelCloses, CancelGotAgain,
           CancelSaved, Raises, Interrupts, accesses, Closes, Done, Save, Get, Begins
  <2> QED BY <2>1, <2>2, <2>3
<1>2. ASSUME clean', ~failed', current = 0 PROVE current' = 0
  <2>1. canc.at = "idle"
    BY <1>1, <1>2 DEF MemoryInv
  <2>2. UNCHANGED current
    BY <2>1 DEF CancelBegins, CancelGot, CancelStopsProducer, CancelFails, CancelGotFailing, CancelCloses, CancelGotAgain,
                CancelSaved, tasks
  <2> QED BY <1>2, <2>2
<1>3. UNCHANGED prod \/ prod'.at = "over"
  BY <1>1, StopsProducer
<1>4. CASE UNCHANGED queue
  BY <1>1, <1>2, <1>3, <1>4, BeginStays
<1>5. CASE queue' = Append(queue, Item("unable", 0))
  <2>1. PICK e \in Event : e = Item("unable", 0) /\ e.kind = "unable"
    BY ItemIs
  <2> QED BY <1>1, <1>2, <1>3, <1>5, <2>1, BeginPuts
<1> QED BY <1>1, <1>4, <1>5

\* The agent fails.
LEMMA FailsBegin ==
    ASSUME TypeInv, MemoryInv, BeginInv,
           AgentRaises \/ ProducerEnsured \/ ProducerInserted \/ ProducerFailed \/ ProducerSaveRaises
    PROVE  BeginInv'
<1>1. CASE AgentRaises
  <2>1. failed'
    BY <1>1 DEF AgentRaises
  <2> QED BY <2>1 DEF BeginInv
<1>2. CASE ProducerEnsured \/ ProducerInserted \/ ProducerFailed \/ ProducerSaveRaises
  <2>1. prod.at \in Marking /\ UNCHANGED failed
    BY <1>2 DEF ProducerEnsured, ProducerInserted, ProducerFailed, ProducerSaveRaises, agent, Marking
  <2>2. clean' => clean
    BY <1>2 DEF ProducerEnsured, ProducerInserted, ProducerFailed, ProducerSaveRaises, MarksFailed, Save, Begins, Done
  <2> QED BY <2>1, <2>2 DEF MemoryInv, BeginInv
<1> QED BY <1>1, <1>2

\* No step puts a task before an agent that begins with a Task.
LEMMA NextBeginInv ==
    TypeInv /\ StoreInv /\ MemoryInv /\ OrderInv /\ AnnInv /\ BeginInv /\ [Next]_vars => BeginInv'
<1> SUFFICES ASSUME TypeInv, StoreInv, MemoryInv, OrderInv, AnnInv, BeginInv, [Next]_vars PROVE BeginInv'
  OBVIOUS
<1>1. ASSUME NEW w \in Writers, Read(w) \/ Commit(w) PROVE BeginInv'
  BY <1>1, StatementIs, BeginStays
<1>2. CASE ConsumerTakesMarker \/ ConsumerTakes
  BY <1>2, MarkerBegin, TakesBegin
<1>3. CASE ConsumerGot \/ ConsumerEnsured \/ ConsumerInserted \/ ConsumerKept \/ ConsumerApplied
             \/ ConsumerSaveRaises \/ ConsumerSeesShutdown
  BY <1>3, ConsumerBegin
<1>4. CASE ProducerTakes \/ ProducerGot \/ ProducerSeesShutdown \/ AgentReturns
  BY <1>4, ProducerBegin
<1>5. CASE AgentRaises \/ ProducerEnsured \/ ProducerInserted \/ ProducerFailed \/ ProducerSaveRaises
  BY <1>5, FailsBegin
<1>6. CASE \/ CancelBegins \/ CancelGot \/ CancelStopsProducer \/ CancelFails \/ CancelGotFailing
           \/ CancelCloses \/ CancelGotAgain \/ CancelSaved
  BY <1>6, CancelBegin
<1>7. CASE (\E kind \in Kinds : AgentEmits(kind)) \/ CancelEmits
  BY <1>7, EmitsBegin
<1>8. CASE UNCHANGED vars
  <2>1. UNCHANGED <<clean, current, queue, events, prod, cons, failed, canc>>
    BY <1>8 DEF vars, accesses, tasks, agentQ, agent
  <2> QED BY <2>1, BeginStays
<1> QED BY <1>1, <1>2, <1>3, <1>4, <1>5, <1>6, <1>7, <1>8 DEF Next

\* What the consumer can rely on when it applies e to t.
Answers(t, e) ==
    clean /\ ~failed =>
        /\ row = NoTask => answered = {}
        /\ \A no \in answered : Tells(t, no)
        /\ e.kind # "failed" => Tells(t, cons.no)

\* The consumer stops.
LEMMA StopsTold ==
    ASSUME TypeInv, NEW h \in Seq(Task), NEW c \in 0..Len(h), Stops(h, c), UNCHANGED failed,
           clean /\ ~failed /\ row' = NoTask => answered' = {}
    PROVE  ToldInv'
<1>1. cons'.at = "over" /\ clean' = clean
  BY StopsFacts DEF TypeInv, StoreOK
<1> QED BY <1>1 DEF ToldInv

\* The consumer applies an event to a task that has the message of its request.
LEMMA AppliesTold ==
    ASSUME TypeInv, NEW h \in Seq(Task), NEW c \in 0..Len(h), NEW o \in 1..Len(h), NEW e, Fit(e),
           UNCHANGED <<row, failed, answered>>, Answers(h[o], e), Applies(h, c, e, o)
    PROVE  ToldInv'
<1>1. /\ ConsumerOK /\ access \in [Writers -> AtStore]
      /\ e \in [kind : Applicable, no : 0..MaxEvents] /\ e \in Event /\ h[o] \in Task
  BY FitFacts, ElementOfSeq DEF TypeInv, StoreOK, Fit
<1>2. /\ heap'[o] = Applied(h[o], e)
      /\ cons'.at = "apply" /\ cons'.hand = o /\ cons'.no = cons.no /\ cons'.event = e
      /\ clean' = (clean /\ \A v \in Writers \ {"consumer"} : access[v].at = "none")
  BY <1>1, AppliesFacts
<1>3. SUFFICES ASSUME clean', ~failed' PROVE ToldInv'
  BY DEF ToldInv
<1>4. /\ row = NoTask => answered = {}
      /\ \A no \in answered : Tells(h[o], no)
      /\ e.kind # "failed" => Tells(h[o], cons.no)
  BY <1>2, <1>3 DEF Answers
<1>5. PICK t \in Task : t = h[o]
  BY <1>1
<1>9. PICK s, m : s = Applied(h[o], e) /\ m = e.no
  OBVIOUS
<1>6. Said(s) = Said(t) \/ Said(s) = Append(Said(t), m)
  BY <1>1, <1>5, <1>9, AppliedSays
<1>7. \A no : Tells(t, no) => Tells(s, no)
  BY <1>6, TellsStill
<1>8. Subject' = o
  BY <1>2 DEF Subject, Storing
<1> QED BY <1>2, <1>4, <1>5, <1>7, <1>8, <1>9 DEF ToldInv

\* process() of such a task.
LEMMA ProcessesTold ==
    ASSUME TypeInv, NEW h \in Seq(Task), NEW c \in 0..Len(h), NEW o \in 1..Len(h), NEW e, Fit(e),
           UNCHANGED <<row, failed, answered>>, Answers(h[o], e), Processes(h, c, e, o)
    PROVE  ToldInv'
<1>1. \/ Stops(h, c)
      \/ Applies(h, c, Failure, o)
      \/ Applies(h, c, e, o)
  BY ProcessesMeans
<1>2. Fit(Failure) /\ Answers(h[o], Failure)
  BY FitFacts DEF Answers
<1>3. clean /\ ~failed /\ row' = NoTask => answered' = {}
  BY DEF Answers
<1> QED BY <1>1, <1>2, <1>3, StopsTold, AppliesTold

\* The consumer saves the message of the request.
LEMMA MessageTold ==
    ASSUME TypeInv, NEW h \in Seq(Task), NEW u \in (-MaxRequests)..0, u # 0, u \in {0, -cons.no},
           NEW o \in 1..Len(h), NEW e, Fit(e), UNCHANGED <<row, failed, answered>>,
           clean /\ ~failed => (row = NoTask => answered = {}) /\ \A no \in answered : Tells(h[o], no),
           KeepsMessage(h, u, e, o)
    PROVE  ToldInv'
<1>1. /\ ConsumerOK /\ access \in [Writers -> AtStore] /\ e \in Event /\ u \in Messages \ {0} /\ h[o] \in Task
  BY ManagerAssumption, ElementOfSeq DEF TypeInv, StoreOK, Fit, Messages
<1>2. /\ heap'[o] = WithMessage(h[o], u)
      /\ cons'.at = "keep" /\ cons'.hand = o /\ cons'.no = cons.no
      /\ clean' = (clean /\ \A v \in Writers \ {"consumer"} : access[v].at = "none")
  BY <1>1, MessageFacts
<1>3. SUFFICES ASSUME clean', ~failed' PROVE ToldInv'
  BY DEF ToldInv
<1>4. /\ row = NoTask => answered = {}
      /\ \A no \in answered : Tells(h[o], no)
  BY <1>2, <1>3
<1>5. PICK t \in Task : t = h[o]
  BY <1>1
<1>6. PICK s, no : s = WithMessage(h[o], u) /\ no = cons.no
  OBVIOUS
<1>7. Said(s) = Append(Said(t), u) /\ u = -no
  BY <1>1, <1>5, <1>6, WithMessageSays
<1>8. Tells(s, no)
  BY <1>7, TellsIt
<1>9. \A n : Tells(t, n) => Tells(s, n)
  BY <1>7, TellsStill
<1>10. Subject' = o
  BY <1>2 DEF Subject, Storing
<1> QED BY <1>2, <1>4, <1>5, <1>6, <1>8, <1>9, <1>10 DEF ToldInv

\* A message that is in the history already.
LEMMA SaidAlready ==
    ASSUME NEW t \in Task, NEW no, Contains(t.history, -no)
    PROVE  Tells(t, no)
<1>1. PICK a : a = t.history
  OBVIOUS
<1>2. a \in Seq(Messages \ {0})
  BY <1>1 DEF Task
<1>3. PICK i \in 1..Len(a) : a[i] = -no
  BY <1>1 DEF Contains
<1>4. CASE t.note = 0
  BY <1>1, <1>3, <1>4 DEF Tells, Said, Noted, Contains
<1>5. CASE t.note # 0
  <2>1. PICK m \in Messages \ {0} : m = t.note
    BY <1>5 DEF Task
  <2>2. PICK b : b = Append(a, m)
    OBVIOUS
  <2>3. Len(b) = Len(a) + 1 /\ Len(a) \in Nat /\ b[i] = a[i]
    BY <1>2, <2>1, <2>2, AppendProperties
  <2>4. Said(t) = b
    BY <1>1, <1>5, <2>1, <2>2 DEF Said, Noted
  <2> QED BY <1>3, <2>3, <2>4 DEF Tells, Contains
<1> QED BY <1>4, <1>5

\* An event that modifies a task, once the message is saved.
LEMMA KeepsTold ==
    ASSUME TypeInv, NEW h \in Seq(Task), NEW u \in (-MaxRequests)..0, u \in {0, -cons.no},
           NEW o \in 1..Len(h), NEW e, Fit(e), UNCHANGED <<row, failed, answered>>,
           clean /\ ~failed => (row = NoTask => answered = {}) /\ \A no \in answered : Tells(h[o], no),
           clean /\ ~failed /\ u = 0 => Tells(h[o], cons.no),
           Keeps(h, o, u, e, o)
    PROVE  ToldInv'
<1>1. o \in 0..Len(h) /\ o # 0 /\ h[o] \in Task
  BY ElementOfSeq
<1>2. \/ u # 0 /\ KeepsMessage(h, u, e, o)
      \/ (u = 0 \/ Contains(h[o].history, u)) /\ Processes(h, o, e, o)
  BY <1>1, KeepsMeans
<1>3. CASE u # 0 /\ KeepsMessage(h, u, e, o)
  BY <1>3, MessageTold
<1>4. CASE (u = 0 \/ Contains(h[o].history, u)) /\ Processes(h, o, e, o)
  <2>1. clean /\ ~failed => Tells(h[o], cons.no)
    <3>1. SUFFICES ASSUME clean, ~failed, u # 0 PROVE Tells(h[o], cons.no)
      OBVIOUS
    <3>2. PICK no : no = cons.no
      OBVIOUS
    <3>3. Contains(h[o].history, -no)
      BY <1>4, <3>1, <3>2
    <3> QED BY <1>1, <3>2, <3>3, SaidAlready
  <2>2. Answers(h[o], e)
    BY <2>1 DEF Answers
  <2> QED BY <1>1, <1>4, <2>2, ProcessesTold
<1> QED BY <1>2, <1>3, <1>4

\* The consumer looks for a task that is not there: the message waits.
LEMMA LooksTold ==
    ASSUME TypeInv, NEW h, NEW for \in Purposes \ {"apply"}, NEW e \in Event, UNCHANGED <<row, failed, answered>>,
           clean /\ ~failed => (row = NoTask => answered = {}) /\ unsaved = -cons.no,
           Looks(h, 0, for, e)
    PROVE  ToldInv'
<1>1. /\ current' = 0 /\ cons'.at = "look" /\ cons'.for = for /\ unsaved' = unsaved /\ cons'.no = cons.no
      /\ clean' = (clean /\ \A v \in Writers \ {"consumer"} : access[v].at = "none")
  BY LooksFacts DEF TypeInv, StoreOK
<1>2. Subject' = 0
  BY <1>1 DEF Subject, Storing
<1> QED BY <1>1, <1>2 DEF ToldInv

\* The consumer takes an event.
LEMMA TakesTold ==
    ASSUME TypeInv, MemoryInv, OrderInv, AnnInv, BeginInv, ToldInv, ConsumerTakes
    PROVE  ToldInv'
<1>1. /\ cons.at = "take" /\ queue # <<>>
      /\ UNCHANGED <<row, failed, answered>>
  BY DEF ConsumerTakes, agent
<1>2. PICK e : e = Head(queue)
  OBVIOUS
<1>3. clean' => clean
  BY DEF ConsumerTakes, accesses, Fails, Keeps, Looks, Stops, Processes, Applies, Save, Get, Begins, Done
<1>4. SUFFICES ASSUME clean, ~failed PROVE ToldInv'
  BY <1>1, <1>3 DEF ToldInv
<1>5. e.kind # "error" /\ (e.kind = "task" => current = 0)
  BY <1>2, <1>4, TakesBegin
<1>6. PICK u \in (-MaxRequests)..0, o \in 0..Len(heap) : u = unsaved /\ o = current
  BY DEF TypeInv, TasksOK
<1>7. \/ /\ current = 0
         /\ Looks(heap, 0, "get", e) \/ Looks(heap, 0, "ensure", e)
      \/ e.kind \notin {"start", "end", "error", "task"} /\ current # 0 /\ Keeps(heap, o, u, e, o)
  <2>1. \/ e.kind = "error" \/ (e.kind = "task" /\ current # 0)
        \/ e.kind = "task" /\ current = 0 /\ Looks(heap, 0, "get", e)
        \/ /\ e.kind \notin {"start", "end", "error", "task"}
           /\ \/ current # 0 /\ Keeps(heap, current, unsaved, e, current)
              \/ current = 0 /\ Looks(heap, 0, "get", e)
              \/ current = 0 /\ Looks(heap, 0, "ensure", e)
    BY <1>2 DEF ConsumerTakes
  <2> QED BY <1>5, <1>6, <2>1
<1>8. /\ e \in Event
      /\ e.kind \notin {"start", "end", "error", "task"} => Fit(e)
  BY <1>1, <1>2, HeadFacts
<1>9. /\ row = NoTask => answered = {}
      /\ current # 0 => \A no \in answered : Tells(heap[current], no)
      /\ current = 0 => unsaved = -cons.no
      /\ current # 0 /\ unsaved = 0 => Tells(heap[current], cons.no)
  BY <1>1, <1>4 DEF ToldInv, Subject, Storing
<1>10. CASE current = 0 /\ (Looks(heap, 0, "get", e) \/ Looks(heap, 0, "ensure", e))
  <2>1. "get" \in Purposes \ {"apply"} /\ "ensure" \in Purposes \ {"apply"}
    BY DEF Purposes
  <2> QED BY <1>1, <1>8, <1>9, <1>10, <2>1, LooksTold
<1>11. CASE e.kind \notin {"start", "end", "error", "task"} /\ current # 0 /\ Keeps(heap, o, u, e, o)
  <2>1. heap \in Seq(Task) /\ o \in 1..Len(heap) /\ u \in {0, -cons.no}
    BY <1>6, <1>11 DEF TypeInv, TasksOK, OrderInv
  <2>2. (\A no \in answered : Tells(heap[o], no)) /\ (u = 0 => Tells(heap[o], cons.no))
    BY <1>6, <1>9, <1>11
  <2> QED BY <1>1, <1>8, <1>9, <1>11, <2>1, <2>2, KeepsTold
<1> QED BY <1>7, <1>10, <1>11

\* The consumer takes the marker of a request, whose message is to be saved.
LEMMA MarkerTold ==
    ASSUME TypeInv, ToldInv, ConsumerTakesMarker
    PROVE  ToldInv'
<1>1. /\ cons.at = "take" /\ queue # <<>>
      /\ UNCHANGED <<row, clean, failed, heap, current, answered>>
      /\ \/ UNCHANGED <<unsaved, cons>>
         \/ /\ Head(queue).kind = "start"
            /\ unsaved' = -Head(queue).no
            /\ cons' = [cons EXCEPT !.no = Head(queue).no]
  BY DEF ConsumerTakesMarker, tasks, accesses
<1>2. CASE UNCHANGED <<unsaved, cons>>
  BY <1>1, <1>2 DEF ToldInv, Subject
<1>3. CASE /\ Head(queue).kind = "start"
           /\ unsaved' = -Head(queue).no
           /\ cons' = [cons EXCEPT !.no = Head(queue).no]
  <2>1. Head(queue).no \in 1..MaxRequests
    BY <1>1, <1>3, HeadFacts
  <2>2. cons \in [at : {"take", "over"} \cup Busy, for : Purposes, no : 0..MaxRequests, event : Event, hand : Nat]
    BY DEF TypeInv, ConsumerOK
  <2>3. cons'.at = "take" /\ cons'.no = Head(queue).no /\ unsaved' = -cons'.no /\ Subject' = current /\ Subject = current
    BY <1>1, <1>3, <2>2 DEF Subject, Storing
  <2>4. unsaved' # 0
    BY <2>1, <2>3, ManagerAssumption
  <2> QED BY <1>1, <2>3, <2>4 DEF ToldInv
<1> QED BY <1>1, <1>2, <1>3

\* get_task() finds nothing: the agent's Task becomes the task, or the task fails.
LEMMA GotTold ==
    ASSUME TypeInv, StoreInv, MemoryInv, OrderInv, ToldInv, ConsumerGot
    PROVE  ToldInv'
<1>1. /\ cons.at = "look" /\ cons.for \in {"get", "fail"} /\ Returned("consumer")
      /\ UNCHANGED <<row, failed, answered>>
      /\ "consumer" \in Writers /\ cons.at \in Busy /\ access \in [Writers -> AtStore]
  BY DEF ConsumerGot, Writers, Busy, TypeInv, StoreOK, agent
<1>0. access["consumer"].at = "selected"
  BY <1>1 DEF TypeInv, ConsumerOK, Returned, Selecting
<1>2. PICK c, f, e : c = Len(Append(heap, Found("consumer"))) /\ f = Found("consumer") /\ e = cons.event
  OBVIOUS
<1>3. clean' => clean
  BY DEF ConsumerGot, Fails, Keeps, Looks, Stops, Processes, Applies, Save, Get, Begins, Done
<1>4. SUFFICES ASSUME clean', ~failed' PROVE ToldInv'
  BY DEF ToldInv
<1>5. clean /\ ~failed
  BY <1>1, <1>3, <1>4
<1>6. current = 0 /\ f = NoTask /\ row = NoTask
  <2>1. current = 0 /\ f = row
    BY <1>0, <1>1, <1>2, <1>5, WhoIsThere DEF Own, Selecting, Found
  <2> QED BY <1>1, <1>5, <2>1 DEF MemoryInv, Storing
<1>7. answered = {} /\ unsaved = -cons.no
  BY <1>1, <1>5, <1>6 DEF ToldInv
<1>8. /\ heap \in Seq(Task) /\ Len(heap) \in Nat
      /\ e \in Event /\ Pending(e) /\ cons.no \in 0..MaxRequests
      /\ 0 \in 0..Len(heap)
  BY <1>1, <1>2, FoundFacts
<1>9. \/ /\ e.kind = "task"
         /\ heap' = Append(heap, AgentsTask(e, cons.no)) /\ current' = 0
         /\ Waits("apply", "apply", e, c)
      \/ Fails(heap, 0, unsaved)
      \/ Stops(heap, 0)
  BY <1>2, <1>6 DEF ConsumerGot
<1>10. CASE Fails(heap, 0, unsaved)
  <2>1. PICK u : u = unsaved
    OBVIOUS
  <2>2. Looks(heap, 0, "fail", Failure)
    BY <1>10, <2>1, FailsMeans
  <2>3. "fail" \in Purposes \ {"apply"} /\ Failure \in Event
    BY FitFacts DEF Purposes, Fit
  <2> QED BY <1>1, <1>7, <2>2, <2>3, LooksTold
<1>11. CASE Stops(heap, 0)
  BY <1>1, <1>7, <1>8, <1>11, StopsTold
<1>12. CASE /\ e.kind = "task"
         /\ heap' = Append(heap, AgentsTask(e, cons.no)) /\ current' = 0
         /\ Waits("apply", "apply", e, c)
  <2>1. e \in [kind : Work, no : 0..MaxEvents] /\ cons.no \in 1..MaxRequests /\ e.no >= 1
    <3>1. cons.no >= 1
      BY <1>1, <1>2, <1>12 DEF TypeInv, ConsumerOK
    <3>2. e.no >= 1
      BY <1>1, <1>2, <1>12 DEF OrderInv, Coming, Due, Failing
    <3>3. e \in [kind : Work, no : 0..MaxEvents]
      BY <1>8, <1>12, ManagerAssumption DEF Event, Pending, Failing
    <3> QED BY <1>8, <3>1, <3>2, <3>3
  <2>2. PICK t \in Task : t = AgentsTask(e, cons.no)
    BY <2>1, NewTasks
  <2>3. heap' = Append(heap, t)
    BY <1>12, <2>2
  <2>4. heap'[Len(heap) + 1] = t
    BY <1>8, <2>3, Extends
  <2>5. c = Len(heap) + 1
    <3>1. heap \in Seq(Task \cup {NoTask}) /\ f \in Task \cup {NoTask}
      BY <1>6, <1>8, ElementOfSeq, SeqDef
    <3> QED BY <1>2, <1>8, <3>1, AppendProperties
  <2>6. cons'.hand = c /\ cons'.at = "apply" /\ cons'.no = cons.no
    <3>1. c \in Nat /\ "apply" \in Busy /\ "apply" \in Purposes /\ ConsumerOK
      BY <1>8, <2>5 DEF Busy, Storing, Purposes, TypeInv
    <3> QED BY <1>8, <1>12, <3>1, WaitsIs
  <2>7. Tells(t, cons.no)
    <3>1. PICK no \in Int : no = cons.no
      BY <1>8
    <3>2. e.no \in Int \ {0}
      BY <2>1
    <3>3. Len(Said(t)) = 2 /\ Said(t)[1] = -no
      BY <2>2, <3>1, <3>2, NewSays
    <3>4. 1 \in 1..Len(Said(t))
      BY <3>3
    <3> QED BY <3>1, <3>3, <3>4 DEF Tells, Contains
  <2> QED BY <1>1, <1>7, <2>4, <2>5, <2>6, <2>7 DEF ToldInv
<1> QED BY <1>9, <1>10, <1>11, <1>12

\* ensure_task_id() finds nothing and creates the task.
LEMMA EnsuredTold ==
    ASSUME TypeInv, StoreInv, MemoryInv, ToldInv, ConsumerEnsured
    PROVE  ToldInv'
<1>1. /\ cons.at = "look" /\ cons.for \in {"ensure", "apply"} /\ Returned("consumer")
      /\ UNCHANGED <<row, failed, answered>>
      /\ "consumer" \in Writers /\ cons.at \in Busy /\ access \in [Writers -> AtStore]
  BY DEF ConsumerEnsured, Writers, Busy, TypeInv, StoreOK, agent
<1>0. access["consumer"].at = "selected"
  BY <1>1 DEF TypeInv, ConsumerOK, Returned, Selecting
<1>2. PICK c, f, e : c = Len(Append(heap, Found("consumer"))) /\ f = Found("consumer") /\ e = cons.event
  OBVIOUS
<1>3. clean' => clean
  BY DEF ConsumerEnsured, Fails, Keeps, Looks, Stops, Processes, Applies, Save, Get, Begins, Done
<1>4. SUFFICES ASSUME clean', ~failed' PROVE ToldInv'
  BY DEF ToldInv
<1>5. clean /\ ~failed
  BY <1>1, <1>3, <1>4
<1>6. current = 0 /\ f = NoTask /\ row = NoTask
  <2>1. current = 0 /\ f = row
    BY <1>0, <1>1, <1>2, <1>5, WhoIsThere DEF Own, Selecting, Found
  <2> QED BY <1>1, <1>5, <2>1 DEF MemoryInv, Storing
<1>7. answered = {} /\ unsaved = -cons.no /\ cons.for = "ensure"
  BY <1>1, <1>5, <1>6 DEF ToldInv
<1>8. /\ heap \in Seq(Task) /\ Len(heap) \in Nat /\ e \in Event
  BY <1>1, <1>2, FoundFacts
<1>9. Waits("insert", cons.for, e, c) /\ unsaved' = unsaved
  BY <1>2, <1>6 DEF ConsumerEnsured
<1>10. c = Len(heap) + 1
  <2>1. heap \in Seq(Task \cup {NoTask}) /\ f \in Task \cup {NoTask}
    BY <1>6, <1>8, ElementOfSeq, SeqDef
  <2> QED BY <1>2, <1>8, <2>1, AppendProperties
<1>11. cons'.at = "insert" /\ cons'.for = "ensure" /\ cons'.no = cons.no
  <2>1. c \in Nat /\ "insert" \in Busy /\ ConsumerOK /\ "ensure" \in Purposes
    BY <1>8, <1>10 DEF Busy, Storing, TypeInv, Purposes
  <2>2. Waits("insert", "ensure", e, c)
    BY <1>7, <1>9
  <2> QED BY <1>8, <2>1, <2>2, WaitsIs
<1> QED BY <1>1, <1>7, <1>9, <1>11 DEF ToldInv

\* A save has been answered.
LEMMA StoredTold ==
    ASSUME TypeInv, StoreInv, OrderInv, ToldInv,
           ConsumerInserted \/ ConsumerKept \/ ConsumerApplied \/ ConsumerSaveRaises
    PROVE  ToldInv'
<1>1. /\ UNCHANGED <<row, failed>> /\ "consumer" \in Writers /\ access \in [Writers -> AtStore]
      /\ cons.at \in Storing /\ cons.at \in Busy
  BY DEF ConsumerInserted, ConsumerKept, ConsumerApplied, ConsumerSaveRaises, Writers, TypeInv, StoreOK, agent, Storing, Busy
<1>2. /\ heap \in Seq(Task) /\ Len(heap) \in Nat
      /\ cons.hand \in 1..Len(heap) /\ cons.hand \in 0..Len(heap)
      /\ cons.at \in {"insert", "keep"} => Fit(cons.event)
  <2>1. cons.at \in {"insert", "keep"} => cons.event.kind # "task"
    BY DEF TypeInv, ConsumerOK, Busy, Storing
  <2> QED BY <1>1, <2>1, FoundFacts
<1>3. PICK o, e : o = cons.hand /\ e = cons.event
  OBVIOUS
<1>4. clean' => clean
  BY DEF ConsumerInserted, ConsumerKept, ConsumerApplied, ConsumerSaveRaises, Fails, Keeps, Looks, Stops, Processes,
        Applies, Save, Get, Begins, Done
<1>5. SUFFICES ASSUME clean', ~failed' PROVE ToldInv'
  BY DEF ToldInv
<1>6. clean /\ ~failed
  BY <1>1, <1>4, <1>5
<1>7. /\ row = NoTask => answered = {}
      /\ \A no \in answered : Tells(heap[o], no)
      /\ cons.at = "insert" => cons.for = "ensure" /\ unsaved = -cons.no
      /\ cons.at = "keep" \/ (cons.at = "apply" /\ e.kind # "failed") => Tells(heap[o], cons.no)
  <2>1. Subject = o /\ Subject # 0 /\ cons.at # "over"
    BY <1>1, <1>2, <1>3 DEF Subject, Storing
  <2> QED BY <1>3, <1>6, <2>1 DEF ToldInv
<1>8. CASE ConsumerInserted
  <2>1. cons.at = "insert" /\ UNCHANGED answered /\ Keeps(heap, o, unsaved, e, o)
    BY <1>3, <1>7, <1>8 DEF ConsumerInserted
  <2>2. PICK u \in (-MaxRequests)..0 : u = unsaved
    BY DEF TypeInv, TasksOK
  <2>3. u \in {0, -cons.no} /\ Keeps(heap, o, u, e, o)
    BY <2>1, <2>2 DEF OrderInv
  <2>4. u = 0 => Tells(heap[o], cons.no)
    <3>1. cons.no \in 0..MaxRequests
      BY <1>1, FoundFacts
    <3>2. u = 0 => cons.no = 0
      BY <1>7, <2>1, <2>2, <3>1, ManagerAssumption
    <3> QED BY <3>2 DEF Tells
  <2> QED BY <1>1, <1>2, <1>3, <1>7, <2>1, <2>3, <2>4, KeepsTold
<1>9. CASE ConsumerKept
  <2>1. cons.at = "keep" /\ UNCHANGED answered /\ Processes(heap, o, e, o)
    BY <1>3, <1>9 DEF ConsumerKept
  <2>2. Answers(heap[o], e)
    BY <1>7, <2>1 DEF Answers
  <2> QED BY <1>1, <1>2, <1>3, <2>1, <2>2, ProcessesTold
<1>10. CASE ConsumerApplied
  <2>1. /\ cons.at = "apply" /\ Returned("consumer") /\ answered' = answered \cup ({cons.no} \ {0})
        /\ \/ e.kind = "failed" /\ Stops(heap, o)
           \/ /\ e.kind # "failed" /\ heap' = heap /\ current' = o
              /\ unsaved' \in {0, unsaved}
              /\ cons' = [cons EXCEPT !.at = "take"]
    BY <1>3, <1>10 DEF ConsumerApplied
  <2>2. row # NoTask
    <3>1. access["consumer"].at = "committed"
      BY <2>1 DEF TypeInv, ConsumerOK, Returned, Saving, Storing
    <3>2. row = heap[o]
      BY <1>1, <1>3, <1>6, <3>1, Answered DEF Hand
    <3>3. heap[o] \in Task
      BY <1>2, <1>3, ElementOfSeq
    <3>4. NoTask \notin Task
      BY DEF NoTask, Task, States, Terminal
    <3> QED BY <3>2, <3>3, <3>4
  <2>3. CASE Stops(heap, o)
    BY <1>1, <1>2, <1>3, <2>2, <2>3, StopsTold
  <2>4. CASE /\ e.kind # "failed" /\ heap' = heap /\ current' = o
             /\ cons' = [cons EXCEPT !.at = "take"]
    <3>1. cons'.at = "take" /\ cons'.no = cons.no
      <4>1. cons \in [at : {"take", "over"} \cup Busy, for : Purposes, no : 0..MaxRequests, event : Event, hand : Nat]
        BY DEF TypeInv, ConsumerOK
      <4> QED BY <2>4, <4>1
    <3>2. Tells(heap[o], cons.no) /\ \A no \in answered' : Tells(heap[o], no)
      BY <1>7, <2>1, <2>4
    <3>3. Subject' = o /\ o # 0
      BY <1>2, <1>3, <2>4, <3>1 DEF Subject, Storing
    <3> QED BY <1>1, <2>2, <2>4, <3>1, <3>2, <3>3 DEF ToldInv
  <2> QED BY <2>1, <2>3, <2>4
<1>11. ~ConsumerSaveRaises
  <2>1. access["consumer"].at # "conflict"
    BY <1>1, <1>6, Answered
  <2> QED BY <2>1 DEF ConsumerSaveRaises, Raised
<1> QED BY <1>8, <1>9, <1>10, <1>11

\* The consumer sees the shutdown of its queue.
LEMMA ShutdownTold ==
    ASSUME TypeInv, ToldInv, ConsumerSeesShutdown
    PROVE  ToldInv'
<1>1. Stops(heap, current) /\ UNCHANGED <<row, failed, answered>>
  BY DEF ConsumerSeesShutdown, agent
<1>2. heap \in Seq(Task) /\ current \in 0..Len(heap)
  BY DEF TypeInv, TasksOK
<1>3. clean /\ ~failed /\ row' = NoTask => answered' = {}
  BY <1>1 DEF ToldInv
<1>4. PICK c \in 0..Len(heap) : c = current /\ Stops(heap, c)
  BY <1>1, <1>2
<1> QED BY <1>1, <1>2, <1>3, <1>4, StopsTold

\* A step of another than the consumer.
LEMMA OthersTold ==
    ASSUME TypeInv, ToldInv, clean' => clean, ~failed' => ~failed, UNCHANGED <<cons, unsaved, answered>>,
           clean' /\ ~failed' /\ row' = NoTask => row = NoTask,
           clean' /\ ~failed' => \A i \in 1..Len(heap) : heap'[i] = heap[i],
           clean' /\ ~failed' =>
              \/ cons.at = "over" \/ current' = current
              \/ cons.at = "take" /\ current # 0 /\ current' # 0 /\ Said(heap'[current']) = Said(heap[current])
    PROVE  ToldInv'
<1>1. SUFFICES ASSUME clean', ~failed' PROVE ToldInv'
  BY DEF ToldInv
<1>2. clean /\ ~failed /\ (row' = NoTask => row = NoTask) /\ \A i \in 1..Len(heap) : heap'[i] = heap[i]
  BY <1>1
<1>3. CASE cons.at = "over"
  BY <1>2, <1>3 DEF ToldInv
<1>4. CASE current' = current /\ cons.at # "over"
  <2>1. Subject' = Subject /\ (Subject # 0 => heap'[Subject] = heap[Subject])
    <3>1. cons.at \in Storing => cons.hand \in 1..Len(heap)
      BY FoundFacts DEF Writers
    <3>2. current # 0 => current \in 1..Len(heap)
      BY DEF TypeInv, TasksOK
    <3> QED BY <1>2, <1>4, <3>1, <3>2 DEF Subject
  <2>2. cons.at \in {"keep", "apply"} => Subject = cons.hand /\ Subject # 0
    <3>1. cons.at \in Storing => cons.hand \in 1..Len(heap)
      BY FoundFacts DEF Writers
    <3> QED BY <3>1 DEF Subject, Storing
  <2>3. cons.at = "take" => Subject = current
    BY DEF Subject, Storing
  <2> QED BY <1>2, <1>4, <2>1, <2>2, <2>3 DEF ToldInv
<1>5. CASE cons.at = "take" /\ current # 0 /\ current' # 0 /\ Said(heap'[current']) = Said(heap[current])
  <2>1. Subject = current /\ Subject' = current'
    BY <1>5 DEF Subject, Storing
  <2>2. \A no : Tells(heap[current], no) => Tells(heap'[current'], no)
    BY <1>5 DEF Tells
  <2>3. /\ row = NoTask => answered = {}
        /\ \A no \in answered : Tells(heap[current], no)
        /\ unsaved = 0 => Tells(heap[current], cons.no)
    BY <1>2, <1>5, <2>1 DEF ToldInv
  <2> QED BY <1>2, <1>5, <2>1, <2>2, <2>3 DEF ToldInv
<1> QED BY <1>1, <1>3, <1>4, <1>5

\* A statement at the store.
LEMMA StatementTold ==
    ASSUME TypeInv, ToldInv, NEW w \in Writers, Read(w) \/ Commit(w)
    PROVE  ToldInv'
<1>1. /\ UNCHANGED <<clean, heap, current, failed, cons, unsaved, answered>>
      /\ row' = row \/ row' \in Task
  BY StatementIs
<1>2. NoTask \notin Task
  BY DEF NoTask, Task, States, Terminal
<1> QED BY <1>1, <1>2, OthersTold

\* The producer takes a request, and the agent returns.
LEMMA ProducerTold ==
    ASSUME TypeInv, StoreInv, MemoryInv, ToldInv, ProducerTakes \/ ProducerGot \/ AgentReturns \/ ProducerSeesShutdown
    PROVE  ToldInv'
<1>1. CASE ProducerTakes \/ AgentReturns \/ ProducerSeesShutdown
  <2>1. UNCHANGED <<row, heap, current, failed, cons, unsaved, answered>>
    BY <1>1 DEF ProducerTakes, AgentReturns, ProducerSeesShutdown, tasks, agent
  <2>2. clean' => clean
    BY <1>1 DEF ProducerTakes, AgentReturns, ProducerSeesShutdown, accesses, Get, Begins
  <2> QED BY <2>1, <2>2, OthersTold
<1>2. CASE ProducerGot
  <2>1. clean' = clean /\ UNCHANGED <<row, failed, cons, unsaved, answered>>
    BY <1>2 DEF ProducerGot, Done, agent
  <2>2. clean /\ ~failed => heap' = heap /\ current' = current
    BY <1>2, ProducerGotMemory
  <2> QED BY <2>1, <2>2, OthersTold
<1> QED BY <1>1, <1>2

\* The agent emits, or cancel() speaks for it.
LEMMA EmitsTold ==
    ASSUME TypeInv, ToldInv, (\E kind \in Kinds : AgentEmits(kind)) \/ CancelEmits
    PROVE  ToldInv'
<1>1. UNCHANGED <<row, clean, heap, current, failed, cons, unsaved, answered>>
  BY DEF AgentEmits, CancelEmits, tasks, accesses
<1> QED BY <1>1, OthersTold

\* The agent fails.
LEMMA FailsTold ==
    ASSUME TypeInv, MemoryInv, ToldInv,
           AgentRaises \/ ProducerEnsured \/ ProducerInserted \/ ProducerFailed \/ ProducerSaveRaises
    PROVE  ToldInv'
<1>1. CASE AgentRaises
  <2>1. failed'
    BY <1>1 DEF AgentRaises
  <2> QED BY <2>1 DEF ToldInv
<1>2. CASE ProducerEnsured \/ ProducerInserted \/ ProducerFailed \/ ProducerSaveRaises
  <2>1. prod.at \in Marking /\ UNCHANGED failed
    BY <1>2 DEF ProducerEnsured, ProducerInserted, ProducerFailed, ProducerSaveRaises, agent, Marking
  <2>2. clean' => clean
    BY <1>2 DEF ProducerEnsured, ProducerInserted, ProducerFailed, ProducerSaveRaises, MarksFailed, Save, Begins, Done
  <2> QED BY <2>1, <2>2 DEF MemoryInv, ToldInv
<1> QED BY <1>1, <1>2

\* The steps of cancel().
LEMMA CancelTold ==
    ASSUME TypeInv, StoreInv, MemoryInv, CloseInv, ToldInv,
           \/ CancelBegins \/ CancelGot \/ CancelStopsProducer \/ CancelFails \/ CancelGotFailing
           \/ CancelCloses \/ CancelGotAgain \/ CancelSaved
    PROVE  ToldInv'
<1>1. UNCHANGED <<row, failed, cons, unsaved, answered>>
  BY DEF CancelBegins, CancelGot, CancelStopsProducer, CancelFails, CancelGotFailing, CancelCloses, CancelGotAgain,
         CancelSaved, agent
<1>2. clean' => clean
  <2>1. CASE CancelBegins \/ CancelCloses \/ CancelSaved
    BY <2>1 DEF CancelBegins, CancelCloses, CancelSaved, accesses, Closes, Done, Save, Get, Begins
  <2>2. CASE CancelStopsProducer \/ CancelFails
    BY <2>2 DEF CancelStopsProducer, CancelFails, Raises, Interrupts, Get, Begins
  <2>3. CASE CancelGot \/ CancelGotAgain \/ CancelGotFailing
    BY <2>3 DEF CancelGot, CancelGotAgain, CancelGotFailing, Closes, Raises, Interrupts, Done, Save, Begins
  <2> QED BY <2>1, <2>2, <2>3
<1>3. SUFFICES ASSUME clean', ~failed' PROVE ToldInv'
  BY DEF ToldInv
<1>4. CASE CancelBegins \/ CancelStopsProducer \/ CancelFails
  <2>1. UNCHANGED <<heap, current>>
    BY <1>4 DEF CancelBegins, CancelStopsProducer, CancelFails, tasks
  <2> QED BY <1>1, <1>2, <2>1, OthersTold
<1>5. CASE CancelCloses
  <2>1. current # 0 /\ Closes(heap, current)
    BY <1>1, <1>2, <1>3, <1>5 DEF CancelCloses, MemoryInv
  <2>2. \/ heap' = heap /\ current' = current
        \/ heap' = Append(heap, [heap[current] EXCEPT !.state = "canceled"]) /\ current' = current
    BY <2>1 DEF Closes
  <2>3. heap \in Seq(Task) /\ heap[current] \in Task
    BY <2>1, ElementOfSeq DEF TypeInv, TasksOK
  <2>4. [heap[current] EXCEPT !.state = "canceled"] \in Task
    <3>1. PICK t \in Task : t = heap[current]
      BY <2>3
    <3>2. [t EXCEPT !.state = "canceled"] \in Task
      BY DEF Task, States, Terminal
    <3> QED BY <3>1, <3>2
  <2>5. \A i \in 1..Len(heap) : heap'[i] = heap[i]
    BY <2>2, <2>3, <2>4, Extends
  <2> QED BY <1>1, <1>2, <2>2, <2>5, OthersTold
<1>6. CASE CancelSaved
  <2>1. /\ canc.at = "save" /\ UNCHANGED heap /\ current' = canc.hand
        /\ access["cancel"].at = "committed" /\ "cancel" \in Writers
    BY <1>6, CancelReturns, CancelFacts DEF CancelSaved
  <2>2. Said(heap[canc.hand]) = Said(heap[current]) /\ current # 0 /\ canc.hand # 0
    BY <1>1, <1>2, <1>3, <2>1, CancelFacts DEF CloseInv, MemoryInv
  <2>3. cons.at \in {"take", "over"}
    <3>1. access["consumer"].at = "none"
      BY <1>1, <1>2, <1>3, <2>1, Answered DEF Alone, Writers
    <3> QED BY <3>1 DEF TypeInv, ConsumerOK, Busy, Selecting, Saving
  <2> QED BY <1>1, <1>2, <2>1, <2>2, <2>3, OthersTold
<1>7. ~CancelGot /\ ~CancelGotAgain /\ ~CancelGotFailing
  BY <1>1, <1>2, <1>3, CancelLooksMemory
<1> QED BY <1>4, <1>5, <1>6, <1>7

\* No step loses the message of a request.
LEMMA NextToldInv ==
    TypeInv /\ StoreInv /\ MemoryInv /\ OrderInv /\ AnnInv /\ CloseInv /\ BeginInv /\ ToldInv /\ [Next]_vars
      => ToldInv'
<1> SUFFICES ASSUME TypeInv, StoreInv, MemoryInv, OrderInv, AnnInv, CloseInv, BeginInv, ToldInv, [Next]_vars
             PROVE  ToldInv'
  OBVIOUS
<1>1. ASSUME NEW w \in Writers, Read(w) \/ Commit(w) PROVE ToldInv'
  BY <1>1, StatementTold
<1>2. CASE ConsumerTakesMarker \/ ConsumerTakes
  BY <1>2, MarkerTold, TakesTold
<1>3. CASE ConsumerGot \/ ConsumerEnsured \/ ConsumerSeesShutdown
  BY <1>3, GotTold, EnsuredTold, ShutdownTold
<1>4. CASE ConsumerInserted \/ ConsumerKept \/ ConsumerApplied \/ ConsumerSaveRaises
  BY <1>4, StoredTold
<1>5. CASE ProducerTakes \/ ProducerGot \/ ProducerSeesShutdown \/ AgentReturns
  BY <1>5, ProducerTold
<1>6. CASE AgentRaises \/ ProducerEnsured \/ ProducerInserted \/ ProducerFailed \/ ProducerSaveRaises
  BY <1>6, FailsTold
<1>7. CASE \/ CancelBegins \/ CancelGot \/ CancelStopsProducer \/ CancelFails \/ CancelGotFailing
           \/ CancelCloses \/ CancelGotAgain \/ CancelSaved
  BY <1>7, CancelTold
<1>8. CASE (\E kind \in Kinds : AgentEmits(kind)) \/ CancelEmits
  BY <1>8, EmitsTold
<1>9. CASE UNCHANGED vars
  <2>1. UNCHANGED <<row, clean, heap, current, failed, cons, unsaved, answered>>
    BY <1>9 DEF vars, accesses, tasks, agent
  <2> QED BY <2>1, OthersTold
<1> QED BY <1>1, <1>2, <1>3, <1>4, <1>5, <1>6, <1>7, <1>8, <1>9 DEF Next

\* start() has no request to answer yet.
LEMMA InitToldInv == Init => BeginInv /\ ToldInv
<1> SUFFICES ASSUME Init PROVE BeginInv /\ ToldInv
  OBVIOUS
<1>1. /\ row \in {NoTask, [NoTask EXCEPT !.state = "submitted"]}
      /\ heap = IF row = NoTask THEN <<>> ELSE <<row>>
      /\ current = Len(heap) /\ queue = <<>> /\ prod.at = "wait"
      /\ cons.no = 0 /\ cons.at = "take" /\ unsaved = 0 /\ answered = {}
  BY DEF Init
<1>2. BeginInv
  BY <1>1 DEF BeginInv
<1>3. unsaved = -cons.no
  <2>1. \A n \in Int : n <= 0 /\ n >= 0 => -n = n
    OBVIOUS
  <2>2. cons.no \in Int /\ cons.no <= 0 /\ cons.no >= 0 /\ unsaved = cons.no
    BY <1>1
  <2> QED BY <2>1, <2>2
<1>4. Tells(heap[current], cons.no)
  BY <1>1, Zenon DEF Tells
<1> QED BY <1>1, <1>2, <1>3, <1>4 DEF ToldInv

\* The history of the task tells each message once and in order, in the store and in
\* memory, and has the message of every request of which an event was applied, for any
\* events, requests and interleavings of the writers that take turns at the store.
THEOREM HistoryIsTold == Spec => []HistoryInOrder
<1>1. TypeInv /\ HistInv /\ ToldInv => HistoryInOrder
  <2>1. SUFFICES ASSUME TypeInv, HistInv, ToldInv, clean
                 PROVE  /\ InOrder(row)
                        /\ current # 0 => InOrder(heap[current])
                        /\ current # 0 /\ ~failed /\ cons.at = "take" =>
                              \A no \in answered : Contains(Said(heap[current]), -no)
    BY DEF HistoryInOrder
  <2>2. InOrder(row) /\ (current # 0 => InOrder(heap[current]))
    BY <2>1 DEF HistInv, Tidy
  <2>3. ASSUME current # 0, ~failed, cons.at = "take", NEW no \in answered
        PROVE  Contains(Said(heap[current]), -no)
    <3>1. Subject = current
      BY <2>3 DEF Subject, Storing
    <3>2. Tells(heap[current], no)
      BY <2>1, <2>3, <3>1 DEF ToldInv
    <3>3. no # 0
      BY <2>1, AnsweredFact, ManagerAssumption
    <3> QED BY <3>2, <3>3 DEF Tells
  <2> QED BY <2>2, <2>3
<1> DEFINE I == /\ TypeInv /\ StoreInv /\ MemoryInv /\ OrderInv /\ HistInv
                /\ AnnInv /\ CloseInv /\ BeginInv /\ ToldInv
<1>2. Init => I
  BY InitTypeInv, InitStoreInv, InitMemoryInv, InitHistInv, InitAnnInv, InitCloseInv, InitToldInv
<1>3. I /\ [Next]_vars => I'
  BY NextTypeInv, NextStoreInv, NextMemoryInv, NextHistInv, NextAnnInv, NextCloseInv, NextBeginInv, NextToldInv
<1>4. I => HistoryInOrder
  BY <1>1
<1> HIDE DEF I
<1> QED BY <1>2, <1>3, <1>4, PTL DEF Spec

-----------------------------------------------------------------------------
(* The end of the task                                                     *)

\* A closed task stays closed.
LEMMA ClosedStays ==
    ASSUME ended # 0 => ended' = ended
    PROVE  \A t : Closed(t) => Closed(t)'
  BY DEF Closed, TakenBack

\* What is said behind the end takes it back, and stays said.
LEMMA TakesBack ==
    ASSUME NEW s, NEW t \in Task, NEW m \in Int, ended # 0, Said(s) = Append(Said(t), m)
    PROVE  TakenBack(t) \/ m > ended => TakenBack(s)
<1>1. PICK a \in Seq(Int) : a = Said(t)
  <2>1. Messages \ {0} \subseteq Int
    BY DEF Messages
  <2> QED BY <2>1, TaskOps, SeqDef DEF Said
<1>2. /\ Len(Append(a, m)) = Len(a) + 1 /\ Len(a) \in Nat /\ Append(a, m)[Len(a) + 1] = m
      /\ \A i \in 1..Len(a) : Append(a, m)[i] = a[i] /\ i \in 1..Len(a) + 1
  BY AppendProperties, LenProperties
<1>3. Said(s) = Append(a, m)
  BY <1>1
<1>4. Len(a) + 1 \in 1..Len(a) + 1
  BY <1>2
<1> QED BY <1>1, <1>2, <1>3, <1>4 DEF TakenBack

\* A message of a request leaves a task as closed as it was.
LEMMA ClosedMessage ==
    ASSUME NEW t \in Task, NEW u \in Messages \ {0}
    PROVE  /\ WithMessage(t, u).state = t.state
           /\ Closed(t) => Closed(WithMessage(t, u))
<1>1. WithMessage(t, u).state = t.state
  BY DEF WithMessage, Task
<1>2. PICK s : s = WithMessage(t, u)
  OBVIOUS
<1>3. Said(s) = Append(Said(t), u) /\ u \in Int
  BY <1>2, WithMessageSays DEF Messages
<1>4. ended # 0 /\ TakenBack(t) => TakenBack(s)
  BY <1>3, TakesBack
<1> QED BY <1>1, <1>2, <1>4 DEF Closed, TakenBack

\* So does a failure, and what was said behind the end.
LEMMA ClosedApplied ==
    ASSUME NEW t \in Task, NEW e \in [kind : Applicable, no : 0..MaxEvents], ended \in Nat
    PROVE  /\ Applied(t, e).state \in Terminal /\ t.state \notin Terminal => e.kind \in Final \cup Failing
           /\ ended # 0 /\ Closed(t) /\ (e.kind \in Failing \/ e.no > ended) => Closed(Applied(t, e))
<1>1. PICK s : s = Applied(t, e)
  OBVIOUS
<1>2. CASE e.kind \in {"artifact", "append"}
  <2>1. s = [t EXCEPT !.parts = IF e.kind = "append" THEN Append(@, e.no) ELSE <<e.no>>]
    BY <1>1, <1>2 DEF Applied, WithArtifact
  <2>2. s.state = t.state /\ s.note = t.note /\ s.history = t.history
    BY <2>1 DEF Task
  <2>3. Said(s) = Said(t)
    BY <2>2 DEF Said, Noted
  <2> QED BY <1>1, <2>2, <2>3 DEF Closed, TakenBack
<1>3. CASE e.kind \in Failing
  <2>1. s = [t EXCEPT !.state = "failed", !.note = 0, !.history = Noted(t)]
    BY <1>1, <1>3 DEF Applied, Failing
  <2>2. s.state = "failed"
    BY <2>1 DEF Task
  <2> QED BY <1>1, <1>3, <2>2 DEF Closed, Terminal
<1>4. CASE e.kind \notin {"artifact", "append"} \cup Failing
  <2>1. s = [t EXCEPT !.state = e.kind, !.note = e.no, !.history = Noted(t)]
    BY <1>1, <1>4 DEF Applied, Failing
  <2>2. s.state = e.kind /\ s.note = e.no /\ s.history = Said(t)
    BY <2>1 DEF Task, Said
  <2>3. s.state \in Terminal => e.kind \in Final
    BY <1>4, <2>2 DEF Terminal, Final, Failing
  <2>4. ASSUME ended # 0, e.no > ended PROVE TakenBack(s)
    <3>1. e.no # 0 /\ e.no \in Int
      BY <2>4
    <3>2. Said(s) = Append(Said(t), e.no)
      BY <2>2, <3>1 DEF Said, Noted
    <3> QED BY <2>4, <3>1, <3>2, TakesBack
  <2> QED BY <1>1, <1>4, <2>3, <2>4 DEF Closed
<1> QED BY <1>2, <1>3, <1>4

\* What the consumer can rely on when it goes on with e and the task at o.
Ready(o, e) ==
    clean /\ ~failed /\ canc.at # "raised" =>
        /\ e.kind # "unable"
        /\ ~finished => heap[o].state \notin Terminal
        /\ finished =>
              /\ current = o /\ Late' /\ Closed(heap[o]) /\ Closed(row)
              /\ e.kind = "failed" \/ e.no > ended
        /\ canc.at = "returned" => finished

\* The consumer stops.
LEMMA StopsEnd ==
    ASSUME TypeInv, NEW c \in 0..Len(heap), Stops(heap, c), UNCHANGED <<row, failed, ended, canc>>,
           clean /\ ~failed /\ canc.at = "returned" => Closed(heap[c]) /\ Closed(row)
    PROVE  EndInv'
<1>1. cons'.at = "over" /\ clean' = clean /\ heap' = heap /\ current' = c /\ finished'
  BY StopsFacts DEF TypeInv, StoreOK, TasksOK
<1>2. SUFFICES ASSUME clean, ~failed PROVE EndInv'
  BY <1>1 DEF EndInv
<1>3. PICK t, r : t = heap[c] /\ r = row
  OBVIOUS
<1>4. canc.at = "returned" => Closed(t)' /\ Closed(r)'
  BY <1>2, <1>3, ClosedStays
<1> QED BY <1>1, <1>3, <1>4 DEF EndInv, Closed, TakenBack

\* The consumer applies an event.
LEMMA AppliesEnd ==
    ASSUME TypeInv, NEW o \in 1..Len(heap), NEW e, Fit(e), Ready(o, e), UNCHANGED <<row, failed, ended, canc>>,
           Applies(heap, o, e, o)
    PROVE  EndInv'
<1>1. /\ ConsumerOK /\ access \in [Writers -> AtStore] /\ heap \in Seq(Task) /\ o \in 0..Len(heap)
      /\ e \in [kind : Applicable, no : 0..MaxEvents] /\ e \in Event /\ ended \in Nat
  BY FitFacts DEF TypeInv, StoreOK, AgentOK, TasksOK, Fit
<1>2. PICK t, s, r : t \in Task /\ t = heap[o] /\ s = Applied(t, e) /\ r = row
  BY <1>1, ElementOfSeq
<1>3. /\ heap'[o] = s /\ current' = o
      /\ cons'.at = "apply" /\ cons'.event = e /\ cons'.hand = o
      /\ clean' = (clean /\ \A v \in Writers \ {"consumer"} : access[v].at = "none")
      /\ finished' = finished
  BY <1>1, <1>2, AppliesFacts
<1>4. SUFFICES ASSUME clean, ~failed, canc.at # "raised" PROVE EndInv'
  BY <1>3 DEF EndInv
<1>5. /\ e.kind # "unable"
      /\ ~finished => t.state \notin Terminal
      /\ finished => Late' /\ Closed(t) /\ Closed(r) /\ (e.kind = "failed" \/ e.no > ended)
      /\ canc.at = "returned" => finished
  BY <1>2, <1>4 DEF Ready
<1>6. Subject' = o
  BY <1>3 DEF Subject, Storing
<1>7. s.state \in Terminal /\ ~finished => e.kind \in Final \cup {"failed"}
  BY <1>1, <1>2, <1>5, ClosedApplied DEF Failing
<1>8. finished => Closed(s)' /\ Closed(r)'
  <2>1. finished => ended # 0
    BY <1>5 DEF Late
  <2>2. finished => Closed(s)
    BY <1>1, <1>2, <1>5, <2>1, ClosedApplied DEF Failing
  <2> QED BY <1>5, <2>2, ClosedStays
<1> QED BY <1>2, <1>3, <1>5, <1>6, <1>7, <1>8 DEF EndInv, Closed, TakenBack

\* The consumer saves the message of the request.
LEMMA MessageEnds ==
    ASSUME TypeInv, NEW o \in 1..Len(heap), NEW e, Fit(e), Ready(o, e), UNCHANGED <<row, failed, ended, canc>>,
           NEW u \in Messages \ {0}, KeepsMessage(heap, u, e, o)
    PROVE  EndInv'
<1>1. ConsumerOK /\ access \in [Writers -> AtStore] /\ heap \in Seq(Task) /\ e \in Event
  BY DEF TypeInv, StoreOK, TasksOK, Fit
<1>2. PICK t, s, r : t \in Task /\ t = heap[o] /\ s = WithMessage(t, u) /\ r = row
  BY <1>1, ElementOfSeq
<1>3. /\ heap'[o] = s /\ current' = o
      /\ cons'.at = "keep" /\ cons'.event = e /\ cons'.hand = o
      /\ clean' = (clean /\ \A v \in Writers \ {"consumer"} : access[v].at = "none")
      /\ finished' = finished
  BY <1>1, <1>2, MessageFacts
<1>4. SUFFICES ASSUME clean, ~failed, canc.at # "raised" PROVE EndInv'
  BY <1>3 DEF EndInv
<1>5. /\ ~finished => t.state \notin Terminal
      /\ finished => Late' /\ Closed(t) /\ Closed(r) /\ (e.kind = "failed" \/ e.no > ended)
      /\ canc.at = "returned" => finished
  BY <1>2, <1>4 DEF Ready
<1>6. Subject' = o
  BY <1>3 DEF Subject, Storing
<1>7. s.state = t.state /\ (finished => Closed(s)' /\ Closed(r)')
  BY <1>2, <1>5, ClosedMessage, ClosedStays
<1> QED BY <1>2, <1>3, <1>5, <1>6, <1>7 DEF EndInv, Closed, TakenBack

\* process() of an event.
LEMMA ProcessesEnd ==
    ASSUME TypeInv, NEW o \in 1..Len(heap), NEW e, Fit(e), Ready(o, e), UNCHANGED <<row, failed, ended, canc>>,
           Processes(heap, o, e, o)
    PROVE  EndInv'
<1>1. \/ Stops(heap, o)
      \/ Applies(heap, o, Failure, o)
      \/ Applies(heap, o, e, o)
  BY ProcessesMeans
<1>2. Fit(Failure) /\ Ready(o, Failure)
  BY FitFacts DEF Ready
<1>3. CASE Stops(heap, o)
  <2>1. clean /\ ~failed /\ canc.at = "returned" => Closed(heap[o]) /\ Closed(row)
    BY DEF Ready
  <2>2. o \in 0..Len(heap)
    BY DEF TypeInv, TasksOK
  <2> QED BY <1>3, <2>1, <2>2, StopsEnd
<1> QED BY <1>1, <1>2, <1>3, AppliesEnd

\* An event that modifies a task.
LEMMA KeepsEnd ==
    ASSUME TypeInv, NEW o \in 1..Len(heap), NEW e, Fit(e), Ready(o, e), UNCHANGED <<row, failed, ended, canc>>,
           NEW u \in (-MaxRequests)..0, Keeps(heap, o, u, e, o)
    PROVE  EndInv'
<1>1. o # 0 /\ (u # 0 => u \in Messages \ {0})
  BY ManagerAssumption DEF Messages
<1>2. \/ u # 0 /\ KeepsMessage(heap, u, e, o)
      \/ Processes(heap, o, e, o)
  BY <1>1, KeepsMeans
<1> QED BY <1>1, <1>2, MessageEnds, ProcessesEnd

\* Nothing is there that could have ended.
LEMMA NothingEnds ==
    ASSUME canc'.at = "idle",
           cons'.at = "over" \/ (~finished' /\ (Subject' = 0 \/ heap'[Subject'].state \notin Terminal))
    PROVE  EndInv'
  BY DEF EndInv

\* The consumer takes an event.
LEMMA TakesEnd ==
    ASSUME TypeInv, MemoryInv, OrderInv, AnnInv, BeginInv, EndInv, ConsumerTakes
    PROVE  EndInv'
<1>1. /\ cons.at = "take" /\ queue # <<>> /\ queue' = Tail(queue)
      /\ UNCHANGED <<row, failed, events, ended, canc>>
  BY DEF ConsumerTakes, agent
<1>2. clean' => clean
  BY DEF ConsumerTakes, accesses, Fails, Keeps, Looks, Stops, Processes, Applies, Save, Get, Begins, Done
<1>3. SUFFICES ASSUME clean, ~failed, canc.at # "raised" PROVE EndInv'
  BY <1>1, <1>2 DEF EndInv
<1>0. PICK e : e = Head(queue)
  OBVIOUS
<1>4. PICK u \in (-MaxRequests)..0, o \in 0..Len(heap) : u = unsaved /\ o = current
  BY DEF TypeInv, TasksOK
<1>5. e.kind # "error" /\ (e.kind = "task" => current = 0)
  BY <1>0, <1>3, TakesBegin
<1>6. /\ e \in Event /\ e.kind # "failed" /\ e.kind # "unable"
      /\ e.kind \notin {"start", "end", "error", "task"} => Fit(e)
  <2>1. e \in Event /\ e = queue[1] /\ 1 \in 1..Len(queue) /\ (e.kind \notin {"start", "end", "error", "task"} => Fit(e))
    BY <1>0, <1>1, HeadFacts
  <2> QED BY <1>3, <2>1 DEF AnnInv, Announced, TypeInv, QueueOK
<1>7. \/ /\ current = 0
         /\ Looks(heap, 0, "get", e) \/ Looks(heap, 0, "ensure", e)
      \/ e.kind \notin {"start", "end", "error", "task"} /\ current # 0 /\ Keeps(heap, o, u, e, o)
  <2>1. \/ e.kind = "error" \/ (e.kind = "task" /\ current # 0)
        \/ e.kind = "task" /\ current = 0 /\ Looks(heap, 0, "get", e)
        \/ /\ e.kind \notin {"start", "end", "error", "task"}
           /\ \/ current # 0 /\ Keeps(heap, current, unsaved, e, current)
              \/ current = 0 /\ Looks(heap, 0, "get", e)
              \/ current = 0 /\ Looks(heap, 0, "ensure", e)
    BY <1>0, <1>4 DEF ConsumerTakes
  <2> QED BY <1>4, <1>5, <2>1
<1>8. /\ Subject = current
      /\ current # 0 /\ heap[current].state \in Terminal => finished
      /\ finished => current # 0 /\ Late /\ Closed(heap[current]) /\ Closed(row)
      /\ canc.at = "returned" => finished
  <2>1. Subject = current
    BY <1>1 DEF Subject, Storing
  <2> QED BY <1>1, <1>3, <2>1 DEF EndInv
<1>9. CASE current = 0 /\ (Looks(heap, 0, "get", e) \/ Looks(heap, 0, "ensure", e))
  <2>1. canc.at = "idle" /\ ~finished
    BY <1>3, <1>8, <1>9 DEF MemoryInv
  <2>2. "get" \in Purposes /\ "ensure" \in Purposes /\ ConsumerOK /\ access \in [Writers -> AtStore]
    BY DEF Purposes, TypeInv, StoreOK
  <2>3. cons'.at = "look" /\ current' = 0 /\ finished' = finished
    BY <1>6, <1>9, <2>2, LooksFacts
  <2>4. Subject' = 0
    BY <2>3 DEF Subject, Storing
  <2> QED BY <1>1, <2>1, <2>3, <2>4, NothingEnds
<1>10. CASE e.kind \notin {"start", "end", "error", "task"} /\ current # 0 /\ Keeps(heap, o, u, e, o)
  <2>1. o \in 1..Len(heap)
    BY <1>4, <1>10
  <2>2. WorkOrder
    BY DEF OrderInv
  <2>3. e.kind \in Work /\ Rest' \subseteq Rest /\ e.no \in Rest
    <3>1. e.kind \in Work
      BY <1>5, <1>6, <1>10 DEF Event, Work
    <3> QED BY <1>0, <1>1, <2>2, <3>1, OrderTakes
  <2>4. finished => Late' /\ e.no > ended
    <3>1. finished => ended # 0 /\ \A m \in Rest : ended < m
      BY <1>8 DEF Late
    <3>2. e.no \in Nat /\ ended \in Nat
      BY <1>6 DEF Event, TypeInv, AgentOK
    <3> QED BY <1>1, <2>3, <3>1, <3>2 DEF Late
  <2>5. Ready(o, e)
    BY <1>4, <1>6, <1>8, <1>10, <2>4 DEF Ready
  <2> QED BY <1>1, <1>6, <1>10, <2>1, <2>5, KeepsEnd
<1> QED BY <1>7, <1>9, <1>10

\* The consumer takes the marker of a request.
LEMMA MarkerEnd ==
    ASSUME TypeInv, OrderInv, EndInv, ConsumerTakesMarker
    PROVE  EndInv'
<1>1. /\ cons.at = "take" /\ queue # <<>> /\ queue' = Tail(queue)
      /\ UNCHANGED <<row, clean, heap, current, finished, failed, events, ended, canc>>
      /\ cons' = cons \/ cons' = [cons EXCEPT !.no = Head(queue).no]
  BY DEF ConsumerTakesMarker, tasks, accesses, flags
<1>2. cons'.at = "take"
  <2>1. cons \in [at : {"take", "over"} \cup Busy, for : Purposes, no : 0..MaxRequests, event : Event, hand : Nat]
    BY DEF TypeInv, ConsumerOK
  <2> QED BY <1>1, <2>1
<1>3. Subject' = current /\ Subject = current
  BY <1>1, <1>2 DEF Subject, Storing
<1>4. Late => Late'
  <2>1. WorkOrder
    BY DEF OrderInv
  <2>2. Rest' \subseteq Rest
    BY <1>1, <2>1, OrderTakes
  <2> QED BY <1>1, <2>2 DEF Late
<1>5. PICK t, r : t = heap[current] /\ r = row
  OBVIOUS
<1>6. (Closed(t) => Closed(t)') /\ (Closed(r) => Closed(r)')
  BY <1>1, ClosedStays
<1>7. cons'.at \notin Busy /\ cons'.at # "over" /\ cons.at # "over" /\ cons.at # "apply"
  BY <1>1, <1>2 DEF Busy, Storing
<1>8. SUFFICES ASSUME clean, ~failed, canc.at # "raised" PROVE EndInv'
  BY <1>1 DEF EndInv
<1>9. /\ current # 0 /\ t.state \in Terminal => finished
      /\ finished => current # 0 /\ Late /\ Closed(t) /\ Closed(r)
      /\ canc.at = "returned" => finished
  BY <1>3, <1>5, <1>7, <1>8 DEF EndInv
<1> QED BY <1>1, <1>3, <1>4, <1>5, <1>6, <1>7, <1>9 DEF EndInv, Closed, TakenBack

\* The store has no task: the agent's Task, a new one, or a look for it comes next.
LEMMA FoundEnd ==
    ASSUME TypeInv, StoreInv, MemoryInv, EndInv, ConsumerGot \/ ConsumerEnsured
    PROVE  EndInv'
<1>1. /\ cons.at = "look" /\ Returned("consumer") /\ UNCHANGED <<row, failed, canc>>
      /\ "consumer" \in Writers /\ cons.at \in Busy /\ access \in [Writers -> AtStore] /\ ConsumerOK
  BY DEF ConsumerGot, ConsumerEnsured, Writers, Busy, TypeInv, StoreOK, agent
<1>2. PICK c, f, e : c = Len(Append(heap, Found("consumer"))) /\ f = Found("consumer") /\ e = cons.event
  OBVIOUS
<1>3. clean' => clean
  BY DEF ConsumerGot, ConsumerEnsured, Fails, Keeps, Looks, Stops, Processes, Applies, Save, Get, Begins, Done
<1>4. SUFFICES ASSUME clean, ~failed, canc.at # "raised" PROVE EndInv'
  BY <1>1, <1>3 DEF EndInv
<1>5. current = 0 /\ f = NoTask /\ canc.at = "idle"
  BY <1>1, <1>2, <1>4, NothingThere
<1>6. ~finished
  BY <1>1, <1>4, <1>5 DEF EndInv
<1>7. /\ heap \in Seq(Task) /\ Len(heap) \in Nat /\ e \in Event /\ Pending(e) /\ cons.no \in 0..MaxRequests
      /\ 0 \in 0..Len(heap) /\ cons.for \in Purposes
  BY <1>1, <1>2, FoundFacts
<1>8. c = Len(heap) + 1 /\ c \in Nat
  <2>1. heap \in Seq(Task \cup {NoTask}) /\ f \in Task \cup {NoTask}
    BY <1>5, <1>7, ElementOfSeq, SeqDef
  <2> QED BY <1>2, <1>7, <2>1, AppendProperties
<1>9. \/ e.kind = "task" /\ heap' = Append(heap, AgentsTask(e, cons.no)) /\ Waits("apply", "apply", e, c)
      \/ heap' = Append(heap, NewTask) /\ Waits("insert", cons.for, e, c)
      \/ Fails(heap, 0, unsaved)
      \/ Stops(heap, 0)
  BY <1>2, <1>5 DEF ConsumerGot, ConsumerEnsured
<1>10. ASSUME NEW at \in {"insert", "apply"}, NEW for \in Purposes, NEW t \in Task,
              t.state \notin Terminal, heap' = Append(heap, t), Waits(at, for, e, c)
       PROVE  EndInv'
  <2>1. at \in Busy /\ at \in Storing
    BY DEF Busy, Storing
  <2>2. cons'.at = at /\ cons'.hand = c /\ finished' = finished
    BY <1>1, <1>7, <1>8, <1>10, <2>1, WaitsIs
  <2>3. Subject' = c /\ heap'[c] = t
    BY <1>7, <1>8, <1>10, <2>1, <2>2, Extends DEF Subject
  <2> QED BY <1>1, <1>5, <1>6, <1>10, <2>2, <2>3, NothingEnds
<1>11. CASE e.kind = "task" /\ heap' = Append(heap, AgentsTask(e, cons.no)) /\ Waits("apply", "apply", e, c)
  <2>1. e \in [kind : Work, no : 0..MaxEvents] /\ cons.no \in 1..MaxRequests
    <3>1. cons.no >= 1
      BY <1>1, <1>2, <1>11 DEF TypeInv, ConsumerOK
    <3>2. e \in [kind : Work, no : 0..MaxEvents]
      BY <1>7, <1>11, ManagerAssumption DEF Event, Pending, Failing
    <3> QED BY <1>7, <3>1, <3>2
  <2>2. PICK t \in Task : t = AgentsTask(e, cons.no)
    BY <2>1, NewTasks
  <2>3. t.state \notin Terminal
    BY <2>2 DEF AgentsTask, NoTask, Terminal
  <2>4. "apply" \in Purposes
    BY DEF Purposes
  <2> QED BY <1>10, <1>11, <2>2, <2>3, <2>4
<1>12. CASE heap' = Append(heap, NewTask) /\ Waits("insert", cons.for, e, c)
  <2>1. NewTask \in Task
    BY NewTasks, ManagerAssumption
  <2>2. NewTask.state \notin Terminal
    BY DEF NewTask, NoTask, Terminal
  <2> QED BY <1>7, <1>10, <1>12, <2>1, <2>2
<1>13. CASE Fails(heap, 0, unsaved)
  <2>1. PICK u : u = unsaved
    OBVIOUS
  <2>2. Looks(heap, 0, "fail", Failure)
    BY <1>13, <2>1, FailsMeans
  <2>3. "fail" \in Purposes /\ Failure \in Event
    BY FitFacts DEF Purposes, Fit
  <2>4. cons'.at = "look" /\ current' = 0 /\ finished' = finished
    BY <1>1, <2>2, <2>3, LooksFacts
  <2>5. Subject' = 0
    BY <2>4 DEF Subject, Storing
  <2> QED BY <1>1, <1>5, <1>6, <2>4, <2>5, NothingEnds
<1>14. CASE Stops(heap, 0)
  <2>1. cons'.at = "over"
    BY <1>1, <1>7, <1>14, StopsFacts
  <2> QED BY <1>1, <1>5, <2>1, NothingEnds
<1> QED BY <1>9, <1>11, <1>12, <1>13, <1>14

\* A save has been answered.
LEMMA StoredEnd ==
    ASSUME TypeInv, StoreInv, AnnInv, ToldInv, EndInv,
           ConsumerInserted \/ ConsumerKept \/ ConsumerApplied \/ ConsumerSaveRaises
    PROVE  EndInv'
<1>1. /\ UNCHANGED <<row, queue, failed, events, ended, canc>> /\ "consumer" \in Writers /\ access \in [Writers -> AtStore]
      /\ cons.at \in Storing /\ cons.at \in Busy
  BY DEF ConsumerInserted, ConsumerKept, ConsumerApplied, ConsumerSaveRaises, Writers, TypeInv, StoreOK, agent, Storing, Busy
<1>2. /\ heap \in Seq(Task) /\ Len(heap) \in Nat
      /\ cons.hand \in 1..Len(heap) /\ cons.hand \in 0..Len(heap)
      /\ cons.at \in {"insert", "keep"} => Fit(cons.event)
  <2>1. cons.at \in {"insert", "keep"} => cons.event.kind # "task"
    BY DEF TypeInv, ConsumerOK, Busy, Storing
  <2> QED BY <1>1, <2>1, FoundFacts
<1>3. PICK o, e : o = cons.hand /\ e = cons.event
  OBVIOUS
<1>4. clean' => clean
  BY DEF ConsumerInserted, ConsumerKept, ConsumerApplied, ConsumerSaveRaises, Fails, Keeps, Looks, Stops, Processes,
        Applies, Save, Get, Begins, Done
<1>5. SUFFICES ASSUME clean, ~failed, canc.at # "raised" PROVE EndInv'
  BY <1>1, <1>4 DEF EndInv
<1>6. Rest' = Rest /\ (Late => Late')
  BY <1>1 DEF Rest, Late
<1>7. Subject = o /\ o # 0 /\ current \in {0, o}
  <2>1. access["consumer"].at \in Saving
    BY <1>1 DEF TypeInv, ConsumerOK
  <2>2. Own("consumer")
    BY <1>1, <1>5 DEF StoreInv
  <2>3. current \in {0, Hand("consumer")}
    BY <2>1, <2>2 DEF Own
  <2> QED BY <1>1, <1>2, <1>3, <2>3 DEF Hand, Subject
<1>8. /\ ~finished /\ heap[o].state \in Terminal => cons.at = "apply" /\ e.kind \in Final \cup {"failed"}
      /\ finished => /\ current = o /\ Late /\ Closed(heap[o]) /\ Closed(row)
                     /\ e.kind = "failed" \/ e.no > ended
      /\ canc.at = "returned" => finished
  <2>1. cons.at # "over"
    BY <1>1 DEF Storing
  <2> QED BY <1>1, <1>3, <1>5, <1>7, <2>1 DEF EndInv
<1>9. e.kind # "unable" /\ (e.kind \in Final => Late)
  BY <1>1, <1>3, <1>5 DEF AnnInv, Announced
<1>10. cons.at # "apply" => Ready(o, e)
  BY <1>6, <1>8, <1>9 DEF Ready
<1>11. CASE ConsumerInserted
  <2>1. cons.at = "insert" /\ Keeps(heap, o, unsaved, e, o)
    BY <1>3, <1>5, <1>11 DEF ConsumerInserted, ToldInv
  <2>2. PICK u \in (-MaxRequests)..0 : u = unsaved
    BY DEF TypeInv, TasksOK
  <2> QED BY <1>1, <1>2, <1>3, <1>10, <2>1, <2>2, KeepsEnd
<1>12. CASE ConsumerKept
  <2>1. cons.at = "keep" /\ Processes(heap, o, e, o)
    BY <1>3, <1>12 DEF ConsumerKept
  <2> QED BY <1>1, <1>2, <1>3, <1>10, <2>1, ProcessesEnd
<1>13. CASE ConsumerApplied
  <2>1. /\ cons.at = "apply" /\ Returned("consumer")
        /\ \/ e.kind = "failed" /\ Stops(heap, o)
           \/ /\ e.kind # "failed" /\ heap' = heap /\ current' = o
              /\ finished' = (finished \/ heap[o].state \in Terminal)
              /\ cons' = [cons EXCEPT !.at = "take"] /\ clean' = clean
    BY <1>3, <1>13 DEF ConsumerApplied, Done
  <2>2. CASE Stops(heap, o)
    BY <1>1, <1>2, <1>3, <1>8, <2>2, StopsEnd
  <2>3. CASE /\ e.kind # "failed" /\ heap' = heap /\ current' = o
             /\ finished' = (finished \/ heap[o].state \in Terminal)
             /\ cons' = [cons EXCEPT !.at = "take"]
    <3>1. cons'.at = "take"
      <4>1. cons \in [at : {"take", "over"} \cup Busy, for : Purposes, no : 0..MaxRequests, event : Event, hand : Nat]
        BY DEF TypeInv, ConsumerOK
      <4> QED BY <2>3, <4>1
    <3>2. Subject' = o /\ cons'.at \notin Busy
      BY <2>3, <3>1 DEF Subject, Busy, Storing
    <3>3. row = heap[o]
      <4>1. access["consumer"].at = "committed"
        BY <2>1 DEF TypeInv, ConsumerOK, Returned, Saving, Storing
      <4> QED BY <1>1, <1>3, <1>5, <4>1, Answered DEF Hand
    <3>4. PICK t : t = heap[o]
      OBVIOUS
    <3>5. finished' => Late' /\ Closed(t)'
      <4>1. finished' => Late /\ Closed(t)
        BY <1>8, <1>9, <2>3, <3>4 DEF Closed
      <4> QED BY <1>1, <1>6, <4>1, ClosedStays
    <3>6. /\ Subject' # 0 /\ heap'[Subject'].state \in Terminal => finished'
          /\ canc'.at = "returned" => finished'
          /\ current' = o /\ heap'[current'] = t /\ row' = t
      BY <1>1, <1>8, <2>3, <3>2, <3>3, <3>4
    <3> QED BY <1>7, <3>1, <3>2, <3>5, <3>6 DEF EndInv, Closed, TakenBack
  <2> QED BY <2>1, <2>2, <2>3
<1>14. ~ConsumerSaveRaises
  <2>1. access["consumer"].at # "conflict"
    BY <1>1, <1>5, Answered
  <2> QED BY <2>1 DEF ConsumerSaveRaises, Raised
<1> QED BY <1>11, <1>12, <1>13, <1>14

\* The consumer sees the shutdown of its queue.
LEMMA ShutdownEnd ==
    ASSUME TypeInv, EndInv, ConsumerSeesShutdown
    PROVE  EndInv'
<1>1. Stops(heap, current) /\ UNCHANGED <<row, failed, ended, canc>>
  BY DEF ConsumerSeesShutdown, agent
<1>2. PICK c \in 0..Len(heap) : c = current
  BY DEF TypeInv, TasksOK
<1>3. clean /\ ~failed /\ canc.at = "returned" => Closed(heap[c]) /\ Closed(row)
  BY <1>2 DEF EndInv
<1> QED BY <1>1, <1>2, <1>3, StopsEnd

\* A step of another than the consumer.
LEMMA EndFrame ==
    ASSUME TypeInv, MemoryInv, EndInv, Stays, UNCHANGED <<row, cons>>, clean' => clean, ~failed' => ~failed,
           canc.at = "raised" => canc'.at = "raised",
           ended # 0 => ended' = ended,
           clean' /\ ~failed' /\ canc'.at # "raised" =>
              /\ current' = current /\ finished' = finished
              /\ \A i \in 1..Len(heap) : heap'[i] = heap[i]
              /\ canc'.at = "returned" =>
                    canc.at = "returned" \/ (finished /\ current # 0 /\ Closed(heap[current]) /\ Closed(row))
    PROVE  EndInv'
<1>1. SUFFICES ASSUME clean', ~failed', canc'.at # "raised" PROVE EndInv'
  BY DEF EndInv
<1>2. /\ clean /\ ~failed /\ canc.at # "raised" /\ current' = current /\ finished' = finished
      /\ \A i \in 1..Len(heap) : heap'[i] = heap[i]
  BY <1>1
<1>3. cons.at \in Storing => cons.hand \in 1..Len(heap)
  BY FoundFacts DEF Writers
<1>4. current # 0 => current \in 1..Len(heap)
  BY DEF TypeInv, TasksOK
<1>5. Subject' = Subject /\ (Subject # 0 => heap'[Subject] = heap[Subject])
  BY <1>2, <1>3, <1>4 DEF Subject
<1>6. Late => Late'
  BY LateStays
<1>7. PICK t, r : t = heap[current] /\ r = row
  OBVIOUS
<1>8. (Closed(t) => Closed(t)') /\ (Closed(r) => Closed(r)')
  BY ClosedStays
<1>9. /\ Subject # 0 /\ heap[Subject].state \in Terminal /\ cons.at # "over" /\ ~finished =>
            cons.at = "apply" /\ cons.event.kind \in Final \cup {"failed"}
      /\ finished /\ cons.at # "over" =>
            /\ current # 0 /\ Late /\ Closed(t) /\ Closed(r)
            /\ cons.at \in Busy => cons.event.kind = "failed" \/ cons.event.no > ended
      /\ canc.at = "returned" => finished /\ Closed(t) /\ Closed(r) /\ current # 0
  BY <1>2, <1>7 DEF EndInv, MemoryInv
<1>10. canc'.at = "returned" => finished /\ Closed(t) /\ Closed(r) /\ current # 0
  BY <1>1, <1>7, <1>9
<1>11. current # 0 => heap'[current'] = t
  BY <1>2, <1>4, <1>7
<1>12. finished /\ cons.at # "over" => ended' = ended
  BY <1>9 DEF Late
<1>13. row' = r /\ cons' = cons
  BY <1>7
<1>14. /\ Subject' # 0 /\ heap'[Subject'].state \in Terminal /\ cons'.at # "over" /\ ~finished' =>
             cons'.at = "apply" /\ cons'.event.kind \in Final \cup {"failed"}
       /\ finished' /\ cons'.at # "over" =>
             /\ current' # 0 /\ Late' /\ Closed(t)' /\ Closed(r)' /\ heap'[current'] = t
             /\ cons'.at \in Busy => cons'.event.kind = "failed" \/ cons'.event.no > ended'
       /\ canc'.at = "returned" => finished' /\ Closed(t)' /\ Closed(r)' /\ heap'[current'] = t
  BY <1>2, <1>5, <1>6, <1>8, <1>9, <1>10, <1>11, <1>12, <1>13
<1> QED BY <1>13, <1>14 DEF EndInv, Closed, TakenBack

\* A statement at the store: what is saved of a finished task is closed.
LEMMA StatementEnd ==
    ASSUME TypeInv, StoreInv, MemoryInv, CloseInv, EndInv, NEW w \in Writers, Read(w) \/ Commit(w)
    PROVE  EndInv'
<1>1. UNCHANGED <<clean, heap, current, finished, queue, events, ended, failed, cons, canc>>
  BY StatementIs
<1>2. SUFFICES ASSUME clean, ~failed, canc.at # "raised" PROVE EndInv'
  BY <1>1 DEF EndInv
<1>3. row' = row \/ (access[w].at \in Saving /\ row' = heap[Hand(w)])
  <2>1. Own(w)
    BY <1>2 DEF StoreInv
  <2>2. row' = row \/ (access[w].at = "loaded" /\ (access[w].seen = row => row' = access[w].copy))
    BY StatementIs
  <2> QED BY <2>1, <2>2 DEF Own, Saving
<1>4. /\ finished /\ cons.at # "over" => Closed(heap[current]) /\ Closed(row) /\ current # 0
      /\ canc.at = "returned" => finished /\ Closed(heap[current]) /\ Closed(row) /\ current # 0
  BY <1>2 DEF EndInv, MemoryInv
<1>5. ASSUME access[w].at \in Saving, finished, cons.at # "over" \/ canc.at = "returned"
      PROVE  Closed(heap[Hand(w)])
  <2>1. CASE w = "consumer"
    <3>1. current \in {0, Hand(w)}
      BY <1>2, <1>5, <2>1 DEF StoreInv, Own
    <3> QED BY <1>4, <1>5, <3>1
  <2>2. CASE w = "producer"
    <3>1. prod.at \in Marking
      BY <1>5, <2>2 DEF TypeInv, ProducerOK, Marking
    <3> QED BY <1>2, <3>1 DEF MemoryInv
  <2>3. CASE w = "cancel"
    <3>1. canc.at = "save" /\ Hand(w) = canc.hand
      BY <1>5, <2>3 DEF TypeInv, CancelOK, Hand
    <3> QED BY <1>2, <3>1 DEF CloseInv, Closed
  <2> QED BY <2>1, <2>2, <2>3 DEF Writers
<1>6. PICK r : r = row'
  OBVIOUS
<1>7. finished /\ (cons.at # "over" \/ canc.at = "returned") => Closed(r)
  BY <1>3, <1>4, <1>5, <1>6
<1>8. PICK t : t = heap[current]
  OBVIOUS
<1>9. (Closed(t) => Closed(t)') /\ (Closed(r) => Closed(r)')
  BY <1>1, ClosedStays
<1>10. Subject' = Subject /\ (Late' <=> Late)
  BY <1>1 DEF Subject, Late, Rest
<1>11. /\ Subject # 0 /\ heap[Subject].state \in Terminal /\ cons.at # "over" /\ ~finished =>
             cons.at = "apply" /\ cons.event.kind \in Final \cup {"failed"}
       /\ finished /\ cons.at # "over" =>
             /\ current # 0 /\ Late /\ Closed(t)
             /\ cons.at \in Busy => cons.event.kind = "failed" \/ cons.event.no > ended
       /\ canc.at = "returned" => finished /\ Closed(t)
  BY <1>2, <1>8 DEF EndInv
<1> QED BY <1>1, <1>6, <1>7, <1>8, <1>9, <1>10, <1>11 DEF EndInv, Closed, TakenBack

\* The producer takes a request, and the agent emits or returns.
LEMMA AgentEnd ==
    ASSUME TypeInv, StoreInv, MemoryInv, OrderInv, EndInv,
           \/ ProducerTakes \/ ProducerGot \/ ProducerSeesShutdown \/ AgentReturns
           \/ (\E kind \in Kinds : AgentEmits(kind)) \/ CancelEmits
    PROVE  EndInv'
<1>1. Stays
  BY OthersOrder
<1>2. UNCHANGED <<row, cons, canc, finished, failed>>
  BY DEF ProducerTakes, ProducerGot, ProducerSeesShutdown, AgentReturns, AgentEmits, CancelEmits, flags, agent
<1>3. clean' => clean
  <2>1. ProducerTakes => clean' = clean \/ Get("producer")
    BY DEF ProducerTakes, accesses
  <2>2. Get("producer") => (clean' => clean)
    BY DEF Get, Begins
  <2>3. ProducerGot => clean' = clean
    BY DEF ProducerGot, Done
  <2>4. ProducerSeesShutdown \/ AgentReturns \/ (\E kind \in Kinds : AgentEmits(kind)) \/ CancelEmits => clean' = clean
    BY DEF ProducerSeesShutdown, AgentReturns, AgentEmits, CancelEmits, accesses
  <2> QED BY <2>1, <2>2, <2>3, <2>4
<1>4. ended # 0 => ended' = ended
  <2>1. ASSUME NEW kind \in Kinds, AgentEmits(kind) PROVE ended # 0 => ended' = ended
    <3>1. PICK ends \in BOOLEAN : ends = (kind = "completed") /\ NextEvent(ends)
      BY <2>1 DEF AgentEmits
    <3> QED BY <3>1, NextEventIs
  <2>2. CancelEmits => (ended # 0 => ended' = ended)
    BY NextEventIs DEF CancelEmits
  <2>3. ProducerTakes \/ ProducerGot \/ ProducerSeesShutdown \/ AgentReturns => ended' = ended
    BY DEF ProducerTakes, ProducerGot, ProducerSeesShutdown, AgentReturns, agent
  <2> QED BY <2>1, <2>2, <2>3
<1>5. clean' /\ ~failed' => heap' = heap /\ current' = current
  <2>1. ProducerGot => (clean /\ ~failed => heap' = heap /\ current' = current)
    BY ProducerGotMemory
  <2>2. ~ProducerGot => heap' = heap /\ current' = current
    BY DEF ProducerTakes, ProducerSeesShutdown, AgentReturns, AgentEmits, CancelEmits, tasks
  <2> QED BY <1>2, <1>3, <2>1, <2>2
<1> QED BY <1>1, <1>2, <1>3, <1>4, <1>5, EndFrame

\* The agent fails.
LEMMA FailsEnd ==
    ASSUME TypeInv, MemoryInv, EndInv,
           AgentRaises \/ ProducerEnsured \/ ProducerInserted \/ ProducerFailed \/ ProducerSaveRaises
    PROVE  EndInv'
<1>1. CASE AgentRaises
  <2>1. failed'
    BY <1>1 DEF AgentRaises
  <2> QED BY <2>1 DEF EndInv
<1>2. CASE ProducerEnsured \/ ProducerInserted \/ ProducerFailed \/ ProducerSaveRaises
  <2>1. prod.at \in Marking /\ UNCHANGED failed
    BY <1>2 DEF ProducerEnsured, ProducerInserted, ProducerFailed, ProducerSaveRaises, agent, Marking
  <2>2. clean' => clean
    BY <1>2 DEF ProducerEnsured, ProducerInserted, ProducerFailed, ProducerSaveRaises, MarksFailed, Save, Begins, Done
  <2> QED BY <2>1, <2>2 DEF MemoryInv, EndInv
<1> QED BY <1>1, <1>2

\* cancel() finds the task finished: where the consumer is over nobody is at the store.
LEMMA ClosesEnd ==
    ASSUME TypeInv, StoreInv, MemoryInv, OrderInv, EndInv, CancelCloses
    PROVE  EndInv'
<1>1. /\ canc.at = "wait" /\ finished /\ UNCHANGED <<row, cons, failed, finished, ended>>
      /\ canc \in CancelRecords /\ heap \in Seq(Task) /\ current \in 0..Len(heap)
  BY CancelFacts DEF CancelCloses, flags, agent
<1>2. clean' => clean
  BY DEF CancelCloses, Closes, Done, Save, Get, Begins
<1>3. SUFFICES ASSUME clean, ~failed PROVE EndInv'
  BY <1>1, <1>2 DEF EndInv
<1>4. current # 0 /\ Closes(heap, current)
  BY <1>1, <1>3 DEF CancelCloses, MemoryInv
<1>5. PICK t \in Task : t = heap[current]
  BY <1>1, <1>4, ElementOfSeq
<1>6. [t EXCEPT !.state = "canceled"] \in Task
  BY DEF Task, States, Terminal
<1>7. /\ current' = current
      /\ \/ t.state \in Terminal /\ heap' = heap /\ canc' = [canc EXCEPT !.at = "returned"]
         \/ heap' = Append(heap, [t EXCEPT !.state = "canceled"]) /\ canc' = [at |-> "save", hand |-> Len(heap')]
  BY <1>4, <1>5 DEF Closes
<1>8. \A i \in 1..Len(heap) : heap'[i] = heap[i]
  BY <1>1, <1>6, <1>7, Extends
<1>9. t.state \in Terminal => Closed(t) /\ Closed(row)
  <2>1. cons.at # "over" => Closed(row)
    BY <1>1, <1>3 DEF EndInv
  <2>2. cons.at = "over" => row = t
    <3>1. cons.at = "over" => access["consumer"].at = "none"
      BY DEF TypeInv, ConsumerOK, StoreOK, AtStore, Busy, Storing, Writers
    <3>2. access["cancel"].at = "none"
      BY <1>1, CancelFacts
    <3>3. access["producer"].at = "none"
      <4>1. access["producer"].at \notin Saving
        BY <1>3 DEF MemoryInv, Marking, TypeInv, ProducerOK
      <4>2. access["producer"].at \notin Selecting
        BY <1>3, <1>4 DEF StoreInv, Own, Writers
      <4> QED BY <4>1, <4>2, ProducerFacts DEF AtStore
    <3>4. cons.at = "over" => Quiet
      BY <3>1, <3>2, <3>3 DEF Quiet, Writers
    <3> QED BY <1>3, <1>4, <1>5, <3>4 DEF StoreInv
  <2> QED BY <2>1, <2>2 DEF Closed
<1>10. canc'.at = "returned" => Closed(heap[current]) /\ Closed(row)
  BY <1>5, <1>7, <1>9
<1>11. Stays
  BY OthersOrder
<1> QED BY <1>1, <1>2, <1>4, <1>7, <1>8, <1>10, <1>11, EndFrame

\* What cancel() has closed is in the store and becomes the task.
LEMMA SavedEnd ==
    ASSUME TypeInv, StoreInv, MemoryInv, CloseInv, EndInv, CancelSaved
    PROVE  EndInv'
<1>1. /\ canc.at = "save" /\ access["cancel"].at = "committed" /\ "cancel" \in Writers /\ canc \in CancelRecords
      /\ current' = canc.hand /\ clean' = clean /\ canc.hand \in 1..Len(heap)
      /\ UNCHANGED <<row, heap, finished, queue, events, ended, failed, cons>>
  BY CancelReturns, CancelFacts DEF CancelSaved, Done, flags, agentQ, agent
<1>2. SUFFICES ASSUME clean, ~failed PROVE EndInv'
  BY <1>1 DEF EndInv
<1>3. PICK t, o : o = canc.hand /\ t = heap[o]
  OBVIOUS
<1>4. row = t /\ Alone("cancel")
  BY <1>1, <1>2, <1>3, Answered DEF Hand
<1>5. finished /\ t.state \in Terminal
  BY <1>1, <1>2, <1>3 DEF CloseInv
<1>6. cons.at \notin Busy
  <2>1. access["consumer"].at = "none"
    BY <1>4 DEF Alone, Writers
  <2> QED BY <2>1 DEF TypeInv, ConsumerOK, Busy, Selecting, Saving
<1>7. finished /\ cons.at # "over" => Late'
  <2>1. finished /\ cons.at # "over" => Late
    BY <1>1, <1>2 DEF EndInv
  <2> QED BY <1>1, <2>1 DEF Late, Rest
<1>8. current' # 0 /\ heap'[current'] = t /\ row' = t
  BY <1>1, <1>3, <1>4
<1> QED BY <1>1, <1>5, <1>6, <1>7, <1>8 DEF EndInv, Closed

\* The steps of cancel().
LEMMA CancelEnd ==
    ASSUME TypeInv, StoreInv, MemoryInv, OrderInv, CloseInv, EndInv,
           \/ CancelBegins \/ CancelGot \/ CancelStopsProducer \/ CancelFails \/ CancelGotFailing
           \/ CancelCloses \/ CancelGotAgain \/ CancelSaved
    PROVE  EndInv'
<1>1. canc \in CancelRecords
  BY CancelFacts
<1>2. CASE CancelCloses \/ CancelSaved
  BY <1>2, ClosesEnd, SavedEnd
<1>3. CASE CancelBegins \/ CancelStopsProducer \/ CancelFails
  <2>1. UNCHANGED <<row, heap, current, finished, failed, ended, cons>>
    BY <1>3 DEF CancelBegins, CancelStopsProducer, CancelFails, tasks, flags, agent
  <2>2. clean' => clean
    BY <1>3 DEF CancelBegins, CancelStopsProducer, CancelFails, accesses, Raises, Interrupts, Get, Begins
  <2>3. canc.at # "raised" /\ canc'.at # "returned"
    BY <1>1, <1>3 DEF CancelBegins, Asks, CancelStopsProducer, CancelFails, Raises, CancelRecords
  <2>4. Stays
    BY <1>3, OthersOrder
  <2> QED BY <2>1, <2>2, <2>3, <2>4, EndFrame
<1>4. CASE CancelGot \/ CancelGotAgain \/ CancelGotFailing
  <2>1. UNCHANGED failed
    BY <1>4 DEF CancelGot, CancelGotAgain, CancelGotFailing, agent
  <2>2. clean' => clean
    BY <1>4 DEF CancelGot, CancelGotAgain, CancelGotFailing, Closes, Raises, Interrupts, Done, Save, Begins
  <2> QED BY <1>4, <2>1, <2>2, CancelLooksMemory DEF EndInv
<1> QED BY <1>2, <1>3, <1>4

\* No step reopens what has ended but what the agent said behind the end.
LEMMA NextEndInv ==
    TypeInv /\ StoreInv /\ MemoryInv /\ OrderInv /\ AnnInv /\ CloseInv /\ BeginInv /\ ToldInv /\ EndInv /\ [Next]_vars
      => EndInv'
<1> SUFFICES ASSUME TypeInv, StoreInv, MemoryInv, OrderInv, AnnInv, CloseInv, BeginInv, ToldInv, EndInv, [Next]_vars
             PROVE  EndInv'
  OBVIOUS
<1>1. ASSUME NEW w \in Writers, Read(w) \/ Commit(w) PROVE EndInv'
  BY <1>1, StatementEnd
<1>2. CASE ConsumerTakesMarker \/ ConsumerTakes
  BY <1>2, MarkerEnd, TakesEnd
<1>3. CASE ConsumerGot \/ ConsumerEnsured \/ ConsumerSeesShutdown
  BY <1>3, FoundEnd, ShutdownEnd
<1>4. CASE ConsumerInserted \/ ConsumerKept \/ ConsumerApplied \/ ConsumerSaveRaises
  BY <1>4, StoredEnd
<1>5. CASE \/ ProducerTakes \/ ProducerGot \/ ProducerSeesShutdown \/ AgentReturns
           \/ (\E kind \in Kinds : AgentEmits(kind)) \/ CancelEmits
  BY <1>5, AgentEnd
<1>6. CASE AgentRaises \/ ProducerEnsured \/ ProducerInserted \/ ProducerFailed \/ ProducerSaveRaises
  BY <1>6, FailsEnd
<1>7. CASE \/ CancelBegins \/ CancelGot \/ CancelStopsProducer \/ CancelFails \/ CancelGotFailing
           \/ CancelCloses \/ CancelGotAgain \/ CancelSaved
  BY <1>7, CancelEnd
<1>8. CASE UNCHANGED vars
  <2>1. UNCHANGED <<row, clean, heap, current, finished, queue, events, ended, failed, cons, canc>>
    BY <1>8 DEF vars, accesses, tasks, flags, agentQ, agent
  <2>2. Subject' = Subject /\ (Late' <=> Late)
    BY <2>1 DEF Subject, Late, Rest
  <2> QED BY <2>1, <2>2 DEF EndInv, Closed, TakenBack
<1> QED BY <1>1, <1>2, <1>3, <1>4, <1>5, <1>6, <1>7, <1>8 DEF Next

\* No task has ended yet.
LEMMA InitEndInv == Init => EndInv
<1> SUFFICES ASSUME Init PROVE EndInv
  OBVIOUS
<1>1. /\ row \in {NoTask, [NoTask EXCEPT !.state = "submitted"]}
      /\ heap = IF row = NoTask THEN <<>> ELSE <<row>>
      /\ current = Len(heap) /\ ~finished /\ canc.at = "idle" /\ cons.at = "take"
  BY DEF Init
<1>2. Subject = current
  BY <1>1 DEF Subject, Storing
<1>3. current # 0 => heap[current].state = "submitted"
  <2>1. [NoTask EXCEPT !.state = "submitted"].state = "submitted"
    BY DEF NoTask
  <2> QED BY <1>1, <2>1
<1> QED BY <1>1, <1>2, <1>3 DEF EndInv, Terminal

\* When cancel() has returned the task has ended, in the store and in memory, and stays so
\* whatever else is queued and applied, unless the agent itself says otherwise behind the
\* first end it announced: for any events in any order, in execute() and in cancel(), any
\* requests, and any interleaving of the writers that take turns at the store.
THEOREM CancelEnds == Spec => []CancelIsFinal
<1>1. EndInv => CancelIsFinal
  BY DEF EndInv, CancelIsFinal, Closed
<1> DEFINE I == /\ TypeInv /\ StoreInv /\ MemoryInv /\ OrderInv /\ HistInv
                /\ AnnInv /\ CloseInv /\ BeginInv /\ ToldInv /\ EndInv
<1>2. Init => I
  BY InitTypeInv, InitStoreInv, InitMemoryInv, InitHistInv, InitAnnInv, InitCloseInv, InitToldInv, InitEndInv
<1>3. I /\ [Next]_vars => I'
  BY NextTypeInv, NextStoreInv, NextMemoryInv, NextHistInv, NextAnnInv, NextCloseInv, NextBeginInv, NextToldInv,
     NextEndInv
<1>4. I => CancelIsFinal
  BY <1>1
<1> HIDE DEF I
<1> QED BY <1>2, <1>3, <1>4, PTL DEF Spec

================================================================================
