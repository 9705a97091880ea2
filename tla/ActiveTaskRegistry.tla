------------------------- MODULE ActiveTaskRegistry -------------------------
(***************************************************************************)
(* ActiveTaskRegistry (server/agent_execution/active_task_registry.py) and *)
(* the ActiveTasks that follow one another under one task id: get_or_      *)
(* create(), the clean-up that removes an entry by its id, cancel() with   *)
(* the write it does after the ActiveTask has finished, and aclose().      *)
(*                                                                         *)
(* An ActiveTask is reduced to what the registry and its callers see of    *)
(* it: whether start() is reading the store, whether it has finished, its  *)
(* producer and consumer, its lock and its reference count.  Its agent     *)
(* keeps to the protocol and its producer and consumer wind down; when     *)
(* they do not is the subject of ActiveTask.  The registry's own lock is   *)
(* never held over a wait.                                                 *)
(*                                                                         *)
(* Giving a reference back and looking at the counter are two sections     *)
(* under the ActiveTask's lock.  Nothing comes between them unless somebody*)
(* else waits for the lock, which asyncio.Lock then hands over.            *)
(***************************************************************************)
EXTENDS Naturals, FiniteSets

CONSTANTS
    Senders,        \* message/send and message/stream: create_task_if_missing
    Watchers,       \* tasks/resubscribe
    Cancelers,      \* tasks/cancel
    MaxInstances,   \* bound on the ActiveTasks constructed
    StoredStates,   \* what the task store may hold at first
    CancelWrites,   \* whether executor.cancel() enqueues a terminal status
    AllowAclose     \* whether the registry is closed

Callers == Senders \cup Watchers \cup Cancelers
Instances == 1 .. MaxInstances
Nobody == 0
Terminal == {"completed", "canceled"}
States == {"none", "working"} \cup Terminal

ASSUME RegistryAssumption ==
    /\ MaxInstances \in Nat /\ IsFiniteSet(Callers)
    /\ Senders \cap Watchers = {} /\ (Senders \cup Watchers) \cap Cancelers = {}
    /\ StoredStates \subseteq States
    /\ {CancelWrites, AllowAclose} \subseteq BOOLEAN

VARIABLES
    store,          \* state of the task in the task store
    active,         \* _active_tasks[task_id], or Nobody
    pops,           \* _remove_task() calls scheduled (_cleanup_tasks)
    phase,          \* of each ActiveTask: "unborn", "starting", "running", "finished"
    prod, cons,     \* its producer and consumer
    lock,           \* its _lock is held over a wait, by start() or cancel()
    refs,           \* its _reference_count
    cached,         \* its TaskManager's _current_task
    pc, inst,       \* where each caller stands, and with which ActiveTask
    closing,        \* where aclose() stands
    snapshot,       \* the ActiveTask it found registered, or Nobody
    awaited         \* the _remove_task() calls it still waits for

taskVars == <<phase, prod, cons, lock, refs, cached>>
callVars == <<pc, inst>>
closeVars == <<closing, snapshot, awaited>>
vars == <<store, active, pops, taskVars, callVars, closeVars>>

PCs == {"idle", "check", "starting", "have", "stream", "queued", "recheck",
        "agent", "await", "save", "refused", "returned", "missing", "done"}

TypeOK ==
    /\ store \in States
    /\ active \in Instances \cup {Nobody} /\ pops \in Nat
    /\ phase \in [Instances -> {"unborn", "starting", "running", "finished"}]
    /\ prod \in [Instances -> BOOLEAN]
    /\ cons \in [Instances -> {"off", "run", "await", "queued", "recheck", "done"}]
    /\ lock \in [Instances -> BOOLEAN] /\ refs \in [Instances -> Nat]
    /\ cached \in [Instances -> States]
    /\ pc \in [Callers -> PCs] /\ inst \in [Callers -> Instances \cup {Nobody}]
    /\ closing \in {"idle", "cancel", "tasks", "cleanups", "done"}
    /\ snapshot \in Instances \cup {Nobody} /\ awaited \in Nat

Init ==
    /\ store \in StoredStates
    /\ active = Nobody /\ pops = 0
    /\ phase = [i \in Instances |-> "unborn"]
    /\ prod = [i \in Instances |-> FALSE] /\ cons = [i \in Instances |-> "off"]
    /\ lock = [i \in Instances |-> FALSE] /\ refs = [i \in Instances |-> 0]
    /\ cached = [i \in Instances |-> "none"]
    /\ pc = [c \in Callers |-> "idle"] /\ inst = [c \in Callers |-> Nobody]
    /\ closing = "idle" /\ snapshot = Nobody /\ awaited = 0

Goes(c, to) == pc' = [pc EXCEPT ![c] = to]
Closed == closing # "idle"

-----------------------------------------------------------------------------
(* get_or_create()                                                         *)

LookUpRefused(c) ==
    /\ pc[c] = "idle"
    /\ Closed
    /\ Goes(c, "refused")
    /\ UNCHANGED <<store, active, pops, taskVars, inst, closeVars>>

\* Registers a new ActiveTask; start() takes its lock at once and reads the store.
LookUpMisses(c) ==
    /\ pc[c] = "idle"
    /\ ~Closed
    /\ active = Nobody
    /\ \E i \in Instances :
        /\ phase[i] = "unborn" /\ \A j \in 1 .. i - 1 : phase[j] # "unborn"
        /\ active' = i
        /\ phase' = [phase EXCEPT ![i] = "starting"]
        /\ lock' = [lock EXCEPT ![i] = TRUE]
        /\ inst' = [inst EXCEPT ![c] = i]
    /\ Goes(c, "starting")
    /\ UNCHANGED <<store, pops, prod, cons, refs, cached, closeVars>>

\* Only a caller that may not create the task has its ownership checked.
LookUpHits(c) ==
    /\ pc[c] = "idle"
    /\ ~Closed
    /\ active # Nobody
    /\ inst' = [inst EXCEPT ![c] = active]
    /\ Goes(c, IF c \in Senders THEN "have" ELSE "check")
    /\ UNCHANGED <<store, active, pops, taskVars, closeVars>>

ChecksOwner(c) ==
    /\ pc[c] = "check"
    /\ Goes(c, IF store = "none" THEN "refused" ELSE "have")
    /\ UNCHANGED <<store, active, pops, taskVars, inst, closeVars>>

MayStart(c) == store = "working" \/ (store = "none" /\ c \in Senders)

\* Mutant: start() takes no reference for the consumer.
StartTakesNoReference(c) ==
    LET i == inst[c] IN
    /\ pc[c] = "starting"
    /\ MayStart(c)
    /\ phase' = [phase EXCEPT ![i] = "running"]
    /\ prod' = [prod EXCEPT ![i] = TRUE] /\ cons' = [cons EXCEPT ![i] = "run"]
    /\ lock' = [lock EXCEPT ![i] = FALSE]
    /\ cached' = [cached EXCEPT ![i] = store]
    /\ Goes(c, "have")
    /\ UNCHANGED <<store, active, pops, refs, inst, closeVars>>

StartSucceeds(c) ==
    LET i == inst[c] IN
    /\ pc[c] = "starting"
    /\ MayStart(c)
    /\ phase' = [phase EXCEPT ![i] = "running"]
    /\ prod' = [prod EXCEPT ![i] = TRUE] /\ cons' = [cons EXCEPT ![i] = "run"]
    /\ lock' = [lock EXCEPT ![i] = FALSE]
    /\ refs' = [refs EXCEPT ![i] = @ + 1]
    /\ cached' = [cached EXCEPT ![i] = store]
    /\ Goes(c, "have")
    /\ UNCHANGED <<store, active, pops, inst, closeVars>>

\* Mutant: a start() that fails does not call on_cleanup.
StartFailsQuietly(c) ==
    LET i == inst[c] IN
    /\ pc[c] = "starting"
    /\ ~MayStart(c)
    /\ phase' = [phase EXCEPT ![i] = "finished"]
    /\ lock' = [lock EXCEPT ![i] = FALSE]
    /\ cached' = [cached EXCEPT ![i] = store]
    /\ Goes(c, "refused")
    /\ UNCHANGED <<store, active, pops, prod, cons, refs, inst, closeVars>>

\* on_cleanup is called under the lock: nobody has a reference yet.
StartFails(c) ==
    LET i == inst[c] IN
    /\ pc[c] = "starting"
    /\ ~MayStart(c)
    /\ phase' = [phase EXCEPT ![i] = "finished"]
    /\ lock' = [lock EXCEPT ![i] = FALSE]
    /\ cached' = [cached EXCEPT ![i] = store]
    /\ pops' = pops + 1
    /\ Goes(c, "refused")
    /\ UNCHANGED <<store, active, prod, cons, refs, inst, closeVars>>

-----------------------------------------------------------------------------
(* _on_active_task_cleanup() and _remove_task()                            *)

\* One _remove_task(): whatever is registered under the id is removed.
RemoveTask ==
    /\ pops > 0
    /\ pops' = pops - 1
    /\ awaited' = IF awaited > 0 THEN awaited - 1 ELSE 0
    /\ active' = Nobody
    /\ UNCHANGED <<store, taskVars, callVars, closing, snapshot>>

\* Mutant: the reference count is not looked at.
PopsWhenFinished(i, n) == IF phase[i] = "finished" THEN pops + 1 ELSE pops

\* _maybe_cleanup() of i with n references left.
PopsAfter(i, n) == IF phase[i] = "finished" /\ n = 0 THEN pops + 1 ELSE pops

\* The consumer of an ActiveTask, beside its callers, gives a reference back.
Consumer == "consumer"
Lining(i) == {c \in Callers : inst[c] = i /\ pc[c] \in {"queued", "recheck"}}
             \cup {c \in {Consumer} : cons[i] \in {"queued", "recheck"}}

\* Callers on their way to subscribe() or cancel(), and aclose(), may be in line as well.
Arriving(i) ==
    \/ \E c \in Callers : inst[c] = i /\ pc[c] = "have"
    \/ closing = "cancel" /\ snapshot = i

\* x gives its reference of i back: it stands in line when it finds others before it, and
\* then again to look at the counter; else it does both at once.
JoinsLine(i, x) == (lock[i] \/ Lining(i) \ {x} # {}) /\ UNCHANGED <<refs, pops>>
FirstTurn(i, x) ==
    /\ ~lock[i]
    /\ Lining(i) \ {x} # {} \/ Arriving(i)
    /\ refs' = [refs EXCEPT ![i] = @ - 1] /\ UNCHANGED pops
SecondTurn(i) == ~lock[i] /\ pops' = PopsAfter(i, refs[i]) /\ UNCHANGED refs
BothTurns(i, x) ==
    /\ ~lock[i]
    /\ Lining(i) \ {x} = {}
    /\ refs' = [refs EXCEPT ![i] = @ - 1]
    /\ pops' = PopsAfter(i, refs[i] - 1)

-----------------------------------------------------------------------------
(* subscribe()                                                             *)

Subscribes(c) ==
    LET i == inst[c] IN
    /\ pc[c] = "have" /\ c \notin Cancelers
    /\ ~lock[i]
    /\ IF phase[i] = "finished"
       THEN Goes(c, "refused") /\ UNCHANGED refs
       ELSE Goes(c, "stream") /\ refs' = [refs EXCEPT ![i] = @ + 1]
    /\ UNCHANGED <<store, active, pops, phase, prod, cons, lock, cached, inst, closeVars>>

\* The stream is over or the client has gone.
Leaves(c) ==
    LET i == inst[c] IN
    /\ pc[c] = "stream"
    /\ \/ JoinsLine(i, c) /\ Goes(c, "queued")
       \/ BothTurns(i, c) /\ Goes(c, "done")
    /\ UNCHANGED <<store, active, phase, prod, cons, lock, cached, inst, closeVars>>

LeavesLine(c) ==
    LET i == inst[c] IN
    /\ \/ pc[c] = "queued" /\ FirstTurn(i, c) /\ Goes(c, "recheck")
       \/ pc[c] = "queued" /\ BothTurns(i, c) /\ Goes(c, "done")
       \/ pc[c] = "recheck" /\ SecondTurn(i) /\ Goes(c, "done")
    /\ UNCHANGED <<store, active, phase, prod, cons, lock, cached, inst, closeVars>>

-----------------------------------------------------------------------------
(* The producer and the consumer of an ActiveTask                          *)

\* aclose() has closed the agent's queue, which drops what was enqueued.
QueueClosed(i) == closing # "idle" /\ snapshot = i

\* A status the agent enqueued, perhaps before its producer was cancelled, is applied
\* by the consumer through the TaskManager.  A failure counts as completion here.
Applies(i, s) ==
    /\ cons[i] = "run"
    /\ ~QueueClosed(i)
    /\ store' = s
    /\ cached' = [cached EXCEPT ![i] = s]
    /\ phase' = IF s \in Terminal THEN [phase EXCEPT ![i] = "finished"] ELSE phase
    /\ UNCHANGED <<active, pops, prod, cons, lock, refs, callVars, closeVars>>

AgentWorks(i) == phase[i] = "running" /\ Applies(i, "working")
AgentCompletes(i) == phase[i] = "running" /\ Applies(i, "completed")

\* Once the task has finished or is closed the producer sees its request queue shut down.
ProducerEnds(i) ==
    /\ prod[i]
    /\ phase[i] = "finished" \/ QueueClosed(i)
    /\ prod' = [prod EXCEPT ![i] = FALSE]
    /\ UNCHANGED <<store, active, pops, phase, cons, lock, refs, cached, callVars, closeVars>>

\* The agent's queue is closed: the loop is left, the producer is awaited.
ConsumerStops(i) ==
    /\ cons[i] = "run"
    /\ ~prod[i] \/ QueueClosed(i)
    /\ phase' = [phase EXCEPT ![i] = "finished"]
    /\ cons' = [cons EXCEPT ![i] = "await"]
    /\ UNCHANGED <<store, active, pops, prod, lock, refs, cached, callVars, closeVars>>

ConsumerLeaves(i) ==
    /\ cons[i] = "await" /\ ~prod[i]
    /\ \/ JoinsLine(i, Consumer) /\ cons' = [cons EXCEPT ![i] = "queued"]
       \/ BothTurns(i, Consumer) /\ cons' = [cons EXCEPT ![i] = "done"]
    /\ UNCHANGED <<store, active, phase, prod, lock, cached, callVars, closeVars>>

ConsumerLeavesLine(i) ==
    /\ \/ cons[i] = "queued" /\ FirstTurn(i, Consumer) /\ cons' = [cons EXCEPT ![i] = "recheck"]
       \/ cons[i] = "queued" /\ BothTurns(i, Consumer) /\ cons' = [cons EXCEPT ![i] = "done"]
       \/ cons[i] = "recheck" /\ SecondTurn(i) /\ cons' = [cons EXCEPT ![i] = "done"]
    /\ UNCHANGED <<store, active, phase, prod, lock, cached, callVars, closeVars>>

-----------------------------------------------------------------------------
(* cancel()                                                                *)

CancelBegins(c) ==
    LET i == inst[c] IN
    /\ pc[c] = "have" /\ c \in Cancelers
    /\ ~lock[i]
    /\ IF phase[i] # "finished"
       THEN Goes(c, "agent") /\ lock' = [lock EXCEPT ![i] = TRUE]
       ELSE Goes(c, "await") /\ UNCHANGED lock
    /\ UNCHANGED <<store, active, pops, phase, prod, cons, refs, cached, inst, closeVars>>

\* What executor.cancel() enqueues is applied while the lock is held.
ExecutorCancels(c) ==
    /\ CancelWrites
    /\ pc[c] = "agent"
    /\ phase[inst[c]] = "running"
    /\ Applies(inst[c], "canceled")

CancelsProducer(c) ==
    LET i == inst[c] IN
    /\ pc[c] = "agent"
    /\ prod' = [prod EXCEPT ![i] = FALSE]
    /\ lock' = [lock EXCEPT ![i] = FALSE]
    /\ Goes(c, "await")
    /\ UNCHANGED <<store, active, pops, phase, cons, refs, cached, inst, closeVars>>

\* Mutant: the task is not closed out.
CancelTrusts(c) ==
    LET i == inst[c]
        seen == IF cached[i] = "none" THEN store ELSE cached[i] IN
    /\ pc[c] = "await"
    /\ phase[i] = "finished"
    /\ Goes(c, CASE seen = "none" -> "missing"
                 [] OTHER -> "returned")
    /\ UNCHANGED <<store, active, pops, taskVars, inst, closeVars>>

\* Decides by the state its own TaskManager remembers, or reads for the first time.
CancelDecides(c) ==
    LET i == inst[c]
        seen == IF cached[i] = "none" THEN store ELSE cached[i] IN
    /\ pc[c] = "await"
    /\ phase[i] = "finished"
    /\ Goes(c, CASE seen = "none" -> "missing"
                 [] seen \in Terminal -> "returned"
                 [] OTHER -> "save")
    /\ UNCHANGED <<store, active, pops, taskVars, inst, closeVars>>

CancelSaves(c) ==
    /\ pc[c] = "save"
    /\ store' = "canceled"
    /\ cached' = [cached EXCEPT ![inst[c]] = "canceled"]
    /\ Goes(c, "returned")
    /\ UNCHANGED <<active, pops, phase, prod, cons, lock, refs, inst, closeVars>>

-----------------------------------------------------------------------------
(* ActiveTaskRegistry.aclose()                                             *)

\* No new work; what is registered is the snapshot to close.
AcloseBegins ==
    /\ AllowAclose
    /\ closing = "idle"
    /\ snapshot' = active
    /\ closing' = IF active = Nobody THEN "tasks" ELSE "cancel"
    /\ UNCHANGED <<store, active, pops, taskVars, callVars, awaited>>

\* ActiveTask.aclose(): finished and both tasks cancelled under the lock, which cuts
\* short a consumer that queues for it.
AcloseTask ==
    LET i == snapshot IN
    /\ closing = "cancel"
    /\ ~lock[i]
    /\ phase' = [phase EXCEPT ![i] = "finished"]
    /\ prod' = [prod EXCEPT ![i] = FALSE]
    /\ cons' = [cons EXCEPT ![i] = IF @ \in {"queued", "recheck"} THEN "done" ELSE @]
    /\ closing' = "tasks"
    /\ UNCHANGED <<store, active, pops, lock, refs, cached, callVars, snapshot, awaited>>

\* Producer and consumer are through: wait for the removals scheduled so far.
AcloseAwaits ==
    /\ closing = "tasks"
    /\ snapshot # Nobody => ~prod[snapshot] /\ cons[snapshot] \in {"off", "done"}
    /\ closing' = "cleanups"
    /\ awaited' = pops
    /\ UNCHANGED <<store, active, pops, taskVars, callVars, snapshot>>

AcloseReturns ==
    /\ closing = "cleanups"
    /\ awaited = 0
    /\ closing' = "done"
    /\ active' = Nobody
    /\ UNCHANGED <<store, pops, taskVars, callVars, snapshot, awaited>>

-----------------------------------------------------------------------------
CallerNext(c) ==
    \/ LookUpRefused(c) \/ LookUpMisses(c) \/ LookUpHits(c) \/ ChecksOwner(c)
    \/ StartSucceeds(c) \/ StartFails(c) \/ Subscribes(c) \/ Leaves(c)
    \/ LeavesLine(c)
    \/ CancelBegins(c) \/ ExecutorCancels(c) \/ CancelsProducer(c)
    \/ CancelDecides(c) \/ CancelSaves(c)

TaskNext(i) ==
    \/ AgentWorks(i) \/ AgentCompletes(i) \/ ProducerEnds(i) \/ ConsumerStops(i)
    \/ ConsumerLeaves(i) \/ ConsumerLeavesLine(i)

Next ==
    \/ \E c \in Callers : CallerNext(c)
    \/ \E i \in Instances : TaskNext(i)
    \/ RemoveTask \/ AcloseBegins \/ AcloseTask \/ AcloseAwaits \/ AcloseReturns

Spec == Init /\ [][Next]_vars

\* The event loop runs whoever can run; agents work as long as they like, clients call
\* when they like, and executor.cancel() returns.
Fairness ==
    /\ \A c \in Callers :
        /\ WF_vars(StartSucceeds(c)) /\ WF_vars(StartFails(c)) /\ WF_vars(Leaves(c))
        /\ WF_vars(LeavesLine(c)) /\ WF_vars(CancelsProducer(c))
    /\ \A i \in Instances :
        /\ WF_vars(ProducerEnds(i)) /\ WF_vars(ConsumerStops(i))
        /\ WF_vars(ConsumerLeaves(i)) /\ WF_vars(ConsumerLeavesLine(i))
    /\ WF_vars(RemoveTask)
    /\ WF_vars(AcloseTask) /\ WF_vars(AcloseAwaits) /\ WF_vars(AcloseReturns)

FairSpec == Spec /\ Fairness

-----------------------------------------------------------------------------
(* What must hold                                                          *)

\* "Parallel executions for the same task should not happen simultaneously"
\* (tests/integration/test_scenarios.py:912): at no time do two ActiveTasks of the id
\* run a producer (get_or_create, _remove_task; start).
OneProducer == Cardinality({i \in Instances : prod[i]}) <= 1

\* A cancel() has reached its ActiveTask.
Reached(c) == pc[c] \notin {"idle", "check", "starting", "have", "refused"}

Undisturbed == \A c \in Cancelers : ~Reached(c)

\* As long as no cancel() makes the others stand in line for the ActiveTask's lock,
\* clean-up by id (_remove_task) removes the ActiveTask it was meant for: whoever still
\* runs, or is about to, is registered, so that the next request finds it.
RunningIsRegistered ==
    Undisturbed /\ closing # "done" =>
        \A i \in Instances : prod[i] \/ phase[i] = "starting" => active = i

\* No ActiveTask was registered after i.
Last(i) == \A j \in Instances : j > i => phase[j] = "unborn"

\* No cancel() has reached an ActiveTask other than that of c.
Alone(c) == \A d \in Cancelers : Reached(d) => inst[d] = inst[c]

\* A cancel() that returned leaves the stored task terminal (active_task.py:787-804) as
\* long as no successor of its ActiveTask has been registered and no cancel() has reached
\* another ActiveTask: the lock it makes others stand in line for may end in a clean-up
\* that removes a successor by the id, and then two ActiveTasks write.
CancelHolds ==
    \A c \in Cancelers :
        (pc[c] = "returned" /\ Last(inst[c]) /\ Alone(c)) => store \in Terminal

\* An ActiveTask that has finished and is not referenced any more leaves the registry
\* (on_cleanup, active_task.py:372-374), whoever gave the last reference back and whoever
\* held the lock meanwhile.
FinishedIsForgotten ==
    \A i \in Instances : phase[i] = "finished" /\ refs[i] = 0 ~> active # i
=============================================================================
