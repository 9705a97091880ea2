------------------------ MODULE RequestHandlerProofs ------------------------
(***************************************************************************)
(* Proofs about RequestHandler, for any number of calls, events, endpoints *)
(* and configuration ids.                                                  *)
(***************************************************************************)
EXTENDS RequestHandler, TLAPS

\* The names of places and states, so that no leaf below has to list them.
LEMMA Names ==
    /\ {"idle", "absent", "looked", "set", "entered", "greets", "reading", "asks", "waits",
        "answered", "failed", "refused", "broken"} \subseteq Places
    /\ {"none", "submitted", "working", "input", "auth", "completed", "failed", "canceled"}
          \subseteq States
    /\ \A k \in Kinds \cup {"canceled"} : k \notin {"task", "message"} => k \in States
    /\ \A state, end \in States : EndsAs(state, end) \in States
  BY HandlerAssumption DEF Places, States, Terminal, Interrupted, EndsAs

\* A group of variables that a step leaves alone keeps its types.
LEMMA Frame ==
    /\ CallsOK /\ UNCHANGED calls => CallsOK'
    /\ ReadersOK /\ UNCHANGED readers => ReadersOK'
    /\ TasksOK /\ UNCHANGED tasks => TasksOK'
    /\ FeedOK /\ UNCHANGED feed => FeedOK'
    /\ ProducerOK /\ UNCHANGED producer => ProducerOK'
    /\ AgentVarsOK /\ UNCHANGED agentVars => AgentVarsOK'
    /\ ConsumerOK /\ UNCHANGED consumer => ConsumerOK'
    /\ StreamOK /\ UNCHANGED stream => StreamOK'
    /\ PushOK /\ UNCHANGED push => PushOK'
    /\ AgentOK /\ UNCHANGED agent => AgentOK'
<1>1. CallsOK /\ UNCHANGED calls => CallsOK'
  BY DEF CallsOK, calls
<1>2. ReadersOK /\ UNCHANGED readers => ReadersOK'
  BY DEF ReadersOK, readers
<1>3. TasksOK /\ UNCHANGED tasks => TasksOK'
  BY DEF TasksOK, tasks
<1>4. FeedOK /\ UNCHANGED feed => FeedOK'
  BY DEF FeedOK, feed
<1>5. ProducerOK /\ UNCHANGED producer => ProducerOK'
  BY DEF ProducerOK, producer
<1>6. AgentVarsOK /\ UNCHANGED agentVars => AgentVarsOK'
  BY DEF AgentVarsOK, agentVars
<1>7. ConsumerOK /\ UNCHANGED consumer => ConsumerOK'
  BY DEF ConsumerOK, consumer
<1>8. StreamOK /\ UNCHANGED stream => StreamOK'
  BY DEF StreamOK, stream
<1>9. PushOK /\ UNCHANGED push => PushOK'
  BY DEF PushOK, push
<1>10. AgentOK /\ UNCHANGED agent => AgentOK'
  BY DEF AgentOK, agent
<1> QED BY <1>1, <1>2, <1>3, <1>4, <1>5, <1>6, <1>7, <1>8, <1>9, <1>10

\* A queue or a stream may be empty.
LEMMA Empty == <<>> \in Seq(Reqs) /\ <<>> \in Seq(Entry)
  OBVIOUS

\* What is put into the agent's queue is an entry, whoever it is from.
LEMMA EntryFacts ==
    ASSUME NEW b \in Owners, NEW k \in Kinds \cup Markers \cup {"canceled"}, agentQ \in Seq(Entry)
    PROVE  Append(agentQ, [kind |-> k, by |-> b, no |-> 0]) \in Seq(Entry)
<1>1. [kind |-> k, by |-> b, no |-> 0] \in Entry
  BY DEF Entry
<1> QED BY <1>1

\* The initial states are well formed.
LEMMA InitTypes == Init => TypeOK
<1> SUFFICES ASSUME Init PROVE TypeOK
  OBVIOUS
<1>1. CallsOK
  <2>1. None \in Result
    BY Names DEF None, Result
  <2> QED BY <2>1, Names DEF Init, CallsOK
<1>2. ReadersOK
  BY DEF Init, ReadersOK
<1>3. TasksOK
  <2>1. PICK state \in Rows : row = [state |-> state, no |-> 0]
    BY DEF Init
  <2>2. state \in States
    BY Names, HandlerAssumption
  <2>3. row \in [state : States, no : Nat]
    BY <2>1, <2>2
  <2> QED BY <2>3 DEF Init, TasksOK
<1>4. FeedOK /\ AgentVarsOK /\ StreamOK
  BY Empty DEF Init, FeedOK, AgentVarsOK, StreamOK
<1>7. ProducerOK
  BY DEF Init, ProducerOK
<1>8. ConsumerOK
  BY DEF Init, ConsumerOK
<1>5. PushOK
  BY DEF Init, PushOK
<1>6. AgentOK
  BY HandlerAssumption DEF Init, AgentOK
<1> QED BY <1>1, <1>2, <1>3, <1>4, <1>5, <1>6, <1>7, <1>8 DEF TypeOK

\* Replacing or adding a configuration keeps the bookkeeping of endpoints well formed.
LEMMA SetInfoType ==
    ASSUME PushOK, TasksOK, NEW u \in Urls, SetInfo(u)
    PROVE  PushOK'
<1> DEFINE after == IF cons = "push" THEN row.no - 1 ELSE row.no
<1>1. after \in Int
  BY DEF TasksOK
<1>2. IdOf[u] \in Ids
  BY DEF Ids
<1>3. since' \in [Urls -> Int]
  <2>1. since' = [v \in Urls |-> IF v = u THEN after
                                ELSE IF v = configs[IdOf[u]] THEN 0 ELSE since[v]]
    BY DEF SetInfo, Fresh
  <2> HIDE DEF after
  <2> QED BY <1>1, <2>1 DEF PushOK
<1>4. got' \in [Urls -> Seq(Nat)]
  BY DEF SetInfo, Fresh, PushOK
<1>5. configs' \in [Ids -> Urls \cup {Nobody}]
  BY <1>2 DEF SetInfo, PushOK
<1> QED BY <1>3, <1>4, <1>5 DEF PushOK

\* What message/send makes of an event of its stream is an answer.
LEMMA JudgeType ==
    ASSUME CallsOK, NEW r \in Reqs, NEW e \in Entry, e.kind \notin Markers, Judge(r, e),
           UNCHANGED mode
    PROVE  CallsOK'
<1>1. e.kind \in Kinds \cup {"canceled"} /\ e.by \in Owners
  BY DEF Entry
<1>2. PICK result \in Result :
          \/ answer' = [answer EXCEPT ![r] = result] /\ UNCHANGED call
          \/ Answered(r, result)
          \/ UNCHANGED <<call, answer>>
  <2>1. [state |-> IF e.kind = "task" THEN "submitted" ELSE e.kind, by |-> e.by] \in Result
    BY <1>1, Names DEF Result
  <2> QED BY <2>1 DEF Judge
<1> QED BY <1>2, Names DEF CallsOK, Answered, Becomes, Owners

\* No step leaves the types.
LEMMA NextTypes == TypeOK /\ [Next]_vars => TypeOK'
<1> SUFFICES ASSUME TypeOK, [Next]_vars PROVE TypeOK'
  OBVIOUS
<1> USE DEF TypeOK
<1>1. ASSUME NEW r \in Reqs, Configure(r) PROVE TypeOK'
  <2>1. CallsOK'
    BY <1>1, Names DEF Configure, CallsOK, Becomes, Owners
  <2>2. PushOK'
    <3>1. CASE Brings[r] \in Unsafe \cup {Nobody}
      BY <1>1, <3>1, Frame DEF Configure
    <3>2. CASE Brings[r] \notin Unsafe \cup {Nobody}
      <4>1. Brings[r] \in Urls /\ SetInfo(Brings[r])
        BY <1>1, <3>2, HandlerAssumption DEF Configure
      <4> QED BY <4>1, SetInfoType
    <3> QED BY <3>1, <3>2
  <2> QED BY <1>1, <2>1, <2>2, Frame DEF Configure
<1>2. ASSUME NEW r \in Reqs, Ask(r) PROVE TypeOK'
  <2>1. [state |-> row.state, by |-> Nobody] \in Result
    BY DEF TasksOK, Result
  <2>2. CallsOK'
    BY <1>2, <2>1, Names DEF Ask, CallsOK, Answered, Becomes, Owners
  <2> QED BY <1>2, <2>2, Frame DEF Ask
<1>3. ASSUME NEW o \in Owners, Enter(o) PROVE TypeOK'
  <2>1. CallsOK'
    BY <1>3, Names DEF Enter, CallsOK, Becomes
  <2>2. TasksOK'
    BY <1>3 DEF Enter, TasksOK
  <2> QED BY <1>3, <2>1, <2>2, Frame DEF Enter
<1>4. ASSUME NEW o \in Readers, Subscribe(o) PROVE TypeOK'
  <2>1. CallsOK'
    BY <1>4, Names DEF Subscribe, CallsOK, Becomes, Owners
  <2>2. FeedOK'
    BY <1>4 DEF Subscribe, FeedOK
  <2>3. ReadersOK'
    <3>1. Len(log) \in Nat
      BY DEF StreamOK
    <3>2. CASE UNCHANGED <<at, early>>
      BY <1>4, <3>2 DEF Subscribe, ReadersOK
    <3>3. ASSUME NEW place \in {n \in {Len(log) - 1, Len(log)} : JoinsAt(n)},
                 at' = [at EXCEPT ![o] = place],
                 early' = [w \in Watchers |-> IF w = o THEN place ELSE early[w]]
          PROVE  ReadersOK'
      <4>1. place \in Nat
        BY <3>1, <3>3 DEF JoinsAt
      <4> QED BY <1>4, <3>3, <4>1 DEF Subscribe, ReadersOK
    <3> QED BY <1>4, <3>2, <3>3 DEF Subscribe
  <2> QED BY <1>4, <2>1, <2>2, <2>3, Frame DEF Subscribe
<1>5. ASSUME NEW o \in Readers, Read(o) PROVE TypeOK'
  <2>1. log[at[o] + 1] \in Entry
    BY <1>5 DEF Read, StreamOK, ReadersOK
  <2>8. UNCHANGED mode
    BY <1>5 DEF Read
  <2>2. ASSUME Judge(o, log[at[o] + 1]), log[at[o] + 1].kind \notin Markers, o \in Reqs
        PROVE  CallsOK'
    BY <2>1, <2>2, <2>8, JudgeType
  <2>3. ASSUME Becomes(o, "failed") /\ UNCHANGED answer PROVE CallsOK'
    BY <2>3, <2>8, Names DEF CallsOK, Becomes, Owners, Readers
  <2>4. ASSUME Ends(o) PROVE CallsOK'
    BY <2>4, <2>8, Names DEF Ends, CallsOK, Becomes, Owners, Readers
  <2>5. ASSUME UNCHANGED <<call, answer>> PROVE CallsOK'
    BY <2>5, <2>8 DEF CallsOK
  <2>6. CallsOK'
    <3>1. \/ Judge(o, log[at[o] + 1]) /\ log[at[o] + 1].kind \notin Markers /\ o \in Reqs
          \/ Becomes(o, "failed") /\ UNCHANGED answer
          \/ Ends(o)
          \/ UNCHANGED <<call, answer>>
      BY <1>5 DEF Read
    <3> QED BY <2>2, <2>3, <2>4, <2>5, <3>1
  <2>7. ReadersOK'
    BY <1>5 DEF Read, ReadersOK
  <2> QED BY <1>5, <2>6, <2>7, Frame DEF Read
<1>6. ASSUME NEW o \in Readers, ReadEnd(o) PROVE TypeOK'
  <2>1. CallsOK'
    BY <1>6, Names DEF ReadEnd, Ends, CallsOK, Becomes, Owners, Readers
  <2> QED BY <1>6, <2>1, Frame DEF ReadEnd
<1>7. ASSUME NEW w \in Watchers, Greet(w) PROVE TypeOK'
  <2>1. CallsOK'
    BY <1>7, Names DEF Greet, CallsOK, Becomes, Owners
  <2>2. ReadersOK'
    BY <1>7 DEF Greet, ReadersOK, TasksOK
  <2> QED BY <1>7, <2>1, <2>2, Frame DEF Greet
<1>8. ASSUME NEW c \in Cancels, NEW announces \in BOOLEAN, CancelAgent(c, announces)
      PROVE TypeOK'
  <2>1. CallsOK'
    BY <1>8, Names DEF CancelAgent, CallsOK, Becomes, Owners
  <2>2. AgentVarsOK'
    <3>1. Append(agentQ, [kind |-> "canceled", by |-> c, no |-> 0]) \in Seq(Entry)
      BY EntryFacts DEF AgentVarsOK, Owners
    <3> QED BY <1>8, <3>1 DEF CancelAgent, AgentVarsOK
  <2>3. AgentOK'
    BY <1>8, HandlerAssumption DEF CancelAgent, AgentOK
  <2>4. ProducerOK'
    BY <1>8 DEF CancelAgent, ProducerOK
  <2>5. FeedOK'
    BY <1>8, Empty DEF CancelAgent, FeedOK
  <2> QED BY <1>8, <2>1, <2>2, <2>3, <2>4, <2>5, Frame DEF CancelAgent
<1>9. ASSUME NEW c \in Cancels, CancelEnd(c) PROVE TypeOK'
  <2>1. CallsOK'
    BY <1>9, Names DEF CancelEnd, CallsOK, Becomes, Owners
  <2>2. EndsAs(row.state, "canceled") \in States
    BY Names DEF TasksOK
  <2>3. TasksOK'
    BY <1>9, <2>2 DEF CancelEnd, TasksOK
  <2> QED BY <1>9, <2>1, <2>3, Frame DEF CancelEnd
<1>10. CASE TakeRequest
  <2>1. ProducerOK' /\ FeedOK'
    BY <1>10 DEF TakeRequest, ProducerOK, FeedOK
  <2> QED BY <1>10, <2>1, Frame DEF TakeRequest
<1>11. CASE Begin
  <2>1. Append(agentQ, [kind |-> "started", by |-> serving, no |-> 0]) \in Seq(Entry)
    BY <1>11, EntryFacts DEF Begin, ProducerOK, AgentVarsOK, Owners, Markers
  <2>2. ProducerOK' /\ AgentVarsOK'
    BY <1>11, <2>1 DEF Begin, ProducerOK, AgentVarsOK
  <2> QED BY <1>11, <2>2, Frame DEF Begin
<1>12. CASE Return
  <2>1. Append(agentQ, [kind |-> "returned", by |-> serving, no |-> 0]) \in Seq(Entry)
    BY <1>12, EntryFacts DEF Return, ProducerOK, AgentVarsOK, Owners, Markers
  <2>2. ProducerOK' /\ AgentVarsOK'
    BY <1>12, <2>1 DEF Return, ProducerOK, AgentVarsOK
  <2> QED BY <1>12, <2>2, Frame DEF Return
<1>13. CASE Raise
  <2>1. ProducerOK' /\ AgentOK'
    BY <1>13 DEF Raise, ProducerOK, AgentOK
  <2> QED BY <1>13, <2>1, Frame DEF Raise
<1>14. CASE Fail
  <2>1. Append(agentQ, [kind |-> "error", by |-> serving, no |-> 0]) \in Seq(Entry)
    BY <1>14, EntryFacts DEF Fail, ProducerOK, AgentVarsOK, Owners, Markers
  <2>2. EndsAs(row.state, "failed") \in States
    BY Names DEF TasksOK
  <2>3. TasksOK'
    BY <1>14, <2>2 DEF Fail, TasksOK
  <2>4. ProducerOK' /\ AgentVarsOK'
    BY <1>14, <2>1 DEF Fail, ProducerOK, AgentVarsOK
  <2>5. FeedOK'
    BY <1>14, Empty DEF Fail, FeedOK
  <2> QED BY <1>14, <2>3, <2>4, <2>5, Frame DEF Fail
<1>15. CASE Stop
  <2>1. ProducerOK' /\ AgentVarsOK'
    BY <1>15 DEF Stop, ProducerOK, AgentVarsOK
  <2> QED BY <1>15, <2>1, Frame DEF Stop
<1>16. CASE Closed
  <2>1. ProducerOK' /\ StreamOK'
    BY <1>16 DEF Closed, ProducerOK, StreamOK
  <2> QED BY <1>16, <2>1, Frame DEF Closed
<1>17. CASE Consume
  <2> DEFINE e == Head(agentQ)
  <2>1. e \in Entry /\ Tail(agentQ) \in Seq(Entry)
    BY <1>17 DEF Consume, AgentVarsOK
  <2>2. AgentVarsOK'
    BY <1>17, <2>1 DEF Consume, AgentVarsOK
  <2>3. CASE ConsumesUpdate(e)
    <3>1. e.kind \in Kinds \cup {"canceled"} /\ e.kind # "message"
      BY <2>1, <2>3 DEF ConsumesUpdate, Entry
    <3>2. (IF e.kind = "task" THEN "submitted" ELSE e.kind) \in States
      BY <3>1, Names
    <3>3. TasksOK'
      <4>1. row.no + 1 \in Nat
        BY DEF TasksOK
      <4>2. row' \in [state : States, no : Nat]
        BY <2>3, <3>2, <4>1 DEF ConsumesUpdate
      <4>3. created' = TRUE /\ finished' \in BOOLEAN /\ UNCHANGED session
        BY <1>17, <2>3 DEF Consume, ConsumesUpdate, Finish, TasksOK
      <4> QED BY <4>2, <4>3 DEF TasksOK
    <3>4. ConsumerOK'
      <4>1. row.no + 1 \in Nat
        BY DEF TasksOK
      <4>2. [e EXCEPT !.no = row.no + 1] \in Entry
        BY <2>1, <4>1 DEF Entry
      <4>3. cons' = "push" /\ hand' \in Entry /\ UNCHANGED targets
        BY <1>17, <2>3, <4>2 DEF Consume, ConsumesUpdate
      <4> QED BY <4>3 DEF ConsumerOK
    <3>5. FeedOK'
      <4>1. CASE Finish
        BY <4>1, Empty DEF Finish, FeedOK
      <4>2. CASE UNCHANGED feed
        BY <4>2, Frame
      <4> QED BY <2>3, <4>1, <4>2 DEF ConsumesUpdate
    <3>6. UNCHANGED producer
      BY <1>17, <2>3 DEF Consume, ConsumesUpdate, producer
    <3> QED BY <1>17, <2>2, <3>3, <3>4, <3>5, <3>6, Frame DEF Consume
  <2>4. CASE ConsumesOther(e)
    <3>1. EndsAs(row.state, "failed") \in States
      BY Names DEF TasksOK
    <3>2. TasksOK'
      BY <1>17, <2>4, <3>1 DEF Consume, ConsumesOther, TasksOK
    <3>3. ConsumerOK'
      <4>1. [e EXCEPT !.no = 0] \in Entry
        BY <2>1 DEF Entry
      <4>2. cons' = "publish" /\ hand' \in Entry /\ UNCHANGED targets
        BY <1>17, <2>4, <4>1 DEF Consume, ConsumesOther
      <4> QED BY <4>2 DEF ConsumerOK
    <3>4. ProducerOK'
      BY <1>17, <2>4 DEF Consume, ConsumesOther, ProducerOK
    <3> QED BY <1>17, <2>2, <2>4, <3>2, <3>3, <3>4, Frame DEF Consume, ConsumesOther
  <2> QED BY <1>17, <2>3, <2>4 DEF Consume
<1>18. CASE Snapshot
  <2>1. ConsumerOK'
    BY <1>18 DEF Snapshot, ConsumerOK, PushOK
  <2> QED BY <1>18, <2>1, Frame DEF Snapshot
<1>19. CASE Publish
  <2>1. hand \in Entry
    BY <1>19 DEF Publish, ConsumerOK
  <2>2. TasksOK' /\ ConsumerOK' /\ StreamOK'
    BY <1>19, <2>1 DEF Publish, TasksOK, ConsumerOK, StreamOK
  <2> QED BY <1>19, <2>2, Frame DEF Publish
<1>20. CASE ConsumeEnd
  <2>1. TasksOK'
    BY <1>20 DEF ConsumeEnd, Finish, TasksOK
  <2>2. FeedOK'
    BY <1>20, Empty DEF ConsumeEnd, Finish, FeedOK
  <2>3. ConsumerOK'
    BY <1>20 DEF ConsumeEnd, ConsumerOK
  <2> QED BY <1>20, <2>1, <2>2, <2>3, Frame DEF ConsumeEnd
<1>21. ASSUME NEW u \in Urls, Post(u) PROVE TypeOK'
  <2>1. hand.no \in Nat
    BY <1>21 DEF Post, ConsumerOK, Entry
  <2>2. ConsumerOK' /\ PushOK'
    BY <1>21, <2>1 DEF Post, ConsumerOK, PushOK
  <2> QED BY <1>21, <2>2, Frame DEF Post
<1>22. ASSUME NEW r \in Reqs, Look(r) PROVE TypeOK'
  <2>1. CallsOK'
    BY <1>22, Names DEF Look, CallsOK, Becomes, Owners
  <2> QED BY <1>22, <2>1, Frame DEF Look
<1>23. ASSUME NEW kind \in Kinds, Emit(kind) PROVE TypeOK'
  <2>1. AgentVarsOK'
    BY <1>23, EntryFacts DEF Emit, ProducerOK, AgentVarsOK, Owners
  <2>2. AgentOK'
    BY <1>23, HandlerAssumption DEF Emit, AgentOK
  <2> QED BY <1>23, <2>1, <2>2, Frame DEF Emit
<1>24. ASSUME NEW u \in Urls, CreateConfig(u) PROVE TypeOK'
  BY <1>24, SetInfoType, Frame DEF CreateConfig
<1>25. ASSUME NEW i \in Ids, DeleteConfig(i) PROVE TypeOK'
  <2>1. PushOK'
    BY <1>25 DEF DeleteConfig, PushOK
  <2> QED BY <1>25, <2>1, Frame DEF DeleteConfig
<1>26. CASE Forget
  <2>1. TasksOK'
    BY <1>26 DEF Forget, TasksOK
  <2> QED BY <1>26, <2>1, Frame DEF Forget
<1>27. CASE UNCHANGED vars
  BY <1>27, Frame DEF vars
<1> QED BY <1>1, <1>2, <1>3, <1>4, <1>5, <1>6, <1>7, <1>8, <1>9, <1>10, <1>11, <1>12,
           <1>13, <1>14, <1>15, <1>16, <1>17, <1>18, <1>19, <1>20, <1>21, <1>22, <1>23,
           <1>24, <1>25, <1>26, <1>27
        DEF Next, Runs, Owners

\* Every variable keeps its type, whoever calls, cancels and configures
\* (default_request_handler_v2.py, active_task.py, base_push_notification_sender.py).
THEOREM TypeCorrect == Spec => []TypeOK
<1> QED BY InitTypes, NextTypes, PTL DEF Spec

-----------------------------------------------------------------------------
(* Endpoints follow the task                                               *)

\* How many of the task's events an endpoint should have been sent or have missed by now.
Done(u) ==
    IF cons = "push" \/ (cons = "post" /\ u \in targets) THEN row.no - 1 ELSE row.no

\* The numbers from a + 1 on.
Counts(s, a) == s = [n \in 1..Len(s) |-> a + n]

\* The endpoint was sent all events since it was configured.
Follows(u) ==
    /\ Counts(got[u], since[u])
    /\ Len(got[u]) = Done(u) - since[u]

\* A configured endpoint is new when it is stored and stays under its id; whoever is still to
\* be notified was configured; an endpoint that comes with a message waits for that message.
ConfigInv ==
    /\ \A i \in Ids : configs[i] # Nobody => IdOf[configs[i]] = i /\ since[configs[i]] >= 0
    /\ \A u \in targets : since[u] # -1
    /\ \A r \in Reqs :
          call[r] \in {"absent", "idle", "looked"} /\ Brings[r] # Nobody => since[Brings[r]] = -1

\* What the consumer holds while it notifies is the last event applied to the task.
NotifyInv ==
    /\ cons = "push" => row.no > 0
    /\ cons \in {"push", "post"} => hand.no = row.no
    /\ cons # "post" => targets = {}

FollowInv ==
    \A i \in Ids : configs[i] # Nobody => Follows(configs[i])

PushInv == TypeOK /\ ConfigInv /\ NotifyInv /\ FollowInv

\* A sequence that counts on from a goes on counting.
LEMMA CountsOn ==
    ASSUME NEW a \in Int, NEW s \in Seq(Nat), NEW k \in Nat, k = a + Len(s) + 1,
           Counts(s, a)
    PROVE  /\ Counts(Append(s, k), a)
           /\ Len(Append(s, k)) = Len(s) + 1
<1> DEFINE t == Append(s, k)
<1>1. t \in Seq(Nat) /\ Len(t) = Len(s) + 1
  OBVIOUS
<1>2. \A n \in 1..Len(t) : t[n] = a + n
  <2> SUFFICES ASSUME NEW n \in 1..Len(t) PROVE t[n] = a + n
    OBVIOUS
  <2>1. CASE n = Len(s) + 1
    BY <2>1
  <2>2. CASE n # Len(s) + 1
    <3>1. n \in 1..Len(s) /\ t[n] = s[n]
      BY <1>1, <2>2
    <3> QED BY <3>1 DEF Counts
  <2> QED BY <2>1, <2>2
<1>3. t = [n \in 1..Len(t) |-> t[n]]
  BY <1>1
<1> HIDE DEF t
<1>4. t = [n \in 1..Len(t) |-> a + n]
  BY <1>2, <1>3
<1> QED BY <1>1, <1>4 DEF t, Counts

\* A step that leaves the configurations, the consumer and the task's events alone, and calls
\* at the place they had or further on, keeps the invariant.
LEMMA PushFrame ==
    ASSUME ConfigInv, NotifyInv, FollowInv, TypeOK',
           UNCHANGED <<configs, since, got, cons, hand, targets>>, row'.no = row.no,
           \A r \in Reqs : call'[r] \in {"absent", "idle", "looked"}
                          => call[r] \in {"absent", "idle", "looked"}
    PROVE  PushInv'
<1>1. ConfigInv'
  BY DEF ConfigInv
<1>2. NotifyInv'
  BY DEF NotifyInv
<1>3. \A u : Follows(u) => Follows(u)'
  BY DEF Follows, Done
<1>4. FollowInv'
  BY <1>3 DEF FollowInv
<1> QED BY <1>1, <1>2, <1>4 DEF PushInv

\* A new endpoint starts with the events of the task so far; the one it replaces is left alone.
LEMMA SetInfoPush ==
    ASSUME PushInv, TypeOK', NEW u \in Urls, since[u] = -1, SetInfo(u),
           UNCHANGED <<cons, hand, targets, row>>,
           \A r \in Reqs : call'[r] \in {"absent", "idle", "looked"}
                          => call[r] \in {"absent", "idle", "looked"} /\ Brings[r] # u
    PROVE  PushInv'
<1> DEFINE old == configs[IdOf[u]]
           after == IF cons = "push" THEN row.no - 1 ELSE row.no
<1>1. /\ configs \in [Ids -> Urls \cup {Nobody}] /\ since \in [Urls -> Int]
      /\ got \in [Urls -> Seq(Nat)] /\ row.no \in Nat /\ targets \subseteq Urls
      /\ Nobody \notin Urls /\ IdOf[u] \in Ids /\ Brings \in [Reqs -> Urls \cup {Nobody}]
  BY HandlerAssumption DEF PushInv, TypeOK, PushOK, TasksOK, ConsumerOK, Ids
<1>2. after \in Nat
  BY <1>1 DEF PushInv, NotifyInv
<1>3. /\ \A v \in Urls \ {u, old} : since'[v] = since[v] /\ got'[v] = got[v]
      /\ since'[u] = after /\ got'[u] = <<>>
      /\ old # u /\ old \in Urls => since'[old] = 0
  BY <1>1 DEF SetInfo, Fresh
<1>4. configs'[IdOf[u]] = u /\ \A i \in Ids \ {IdOf[u]} : configs'[i] = configs[i]
  BY <1>1 DEF SetInfo
<1>5. u \notin targets /\ \A i \in Ids : configs[i] # u
  BY <1>1 DEF PushInv, ConfigInv
<1>6. \A i \in Ids \ {IdOf[u]} : configs[i] # Nobody => configs[i] \in Urls \ {u, old}
  <2> SUFFICES ASSUME NEW i \in Ids, i # IdOf[u], configs[i] # Nobody
               PROVE  configs[i] \in Urls \ {u, old}
    OBVIOUS
  <2>1. configs[i] \in Urls /\ configs[i] # u
    BY <1>1, <1>5
  <2>2. \A j \in Ids : configs[j] # Nobody => IdOf[configs[j]] = j
    BY DEF PushInv, ConfigInv
  <2>3. configs[i] # old
    BY <1>1, <2>2
  <2> QED BY <2>1, <2>3
<1> HIDE DEF old, after
<1>7. ConfigInv'
  <2>1. \A i \in Ids : configs'[i] # Nobody => IdOf[configs'[i]] = i /\ since'[configs'[i]] >= 0
    <3> SUFFICES ASSUME NEW i \in Ids, configs'[i] # Nobody
                 PROVE  IdOf[configs'[i]] = i /\ since'[configs'[i]] >= 0
      OBVIOUS
    <3>1. CASE i = IdOf[u]
      BY <3>1, <1>2, <1>3, <1>4
    <3>2. CASE i # IdOf[u]
      BY <3>2, <1>3, <1>4, <1>6 DEF PushInv, ConfigInv
    <3> QED BY <3>1, <3>2
  <2>2. \A v \in targets' : since'[v] # -1
    <3> SUFFICES ASSUME NEW v \in targets PROVE since'[v] # -1
      OBVIOUS
    <3>1. v \in Urls /\ v # u /\ since[v] # -1
      BY <1>1, <1>5 DEF PushInv, ConfigInv
    <3> QED BY <3>1, <1>3
  <2>3. \A r \in Reqs :
          call'[r] \in {"absent", "idle", "looked"} /\ Brings[r] # Nobody => since'[Brings[r]] = -1
    <3> SUFFICES ASSUME NEW r \in Reqs, call'[r] \in {"absent", "idle", "looked"},
                        Brings[r] # Nobody
                 PROVE  since'[Brings[r]] = -1
      OBVIOUS
    <3>1. Brings[r] \in Urls /\ Brings[r] # u /\ since[Brings[r]] = -1
      BY <1>1 DEF PushInv, ConfigInv
    <3>2. Brings[r] # old
      BY <3>1, <1>1 DEF PushInv, ConfigInv, old
    <3> QED BY <3>1, <3>2, <1>3
  <2> QED BY <2>1, <2>2, <2>3 DEF ConfigInv
<1>8. NotifyInv'
  BY DEF PushInv, NotifyInv
<1>9. FollowInv'
  <2> SUFFICES ASSUME NEW i \in Ids, configs'[i] # Nobody
               PROVE  Follows(configs[i])'
    BY DEF FollowInv
  <2>1. CASE i = IdOf[u]
    <3>1. configs'[i] = u /\ Done(u)' = after
      BY <2>1, <1>4, <1>5 DEF Done, after
    <3>2. Counts(<<>>, after) /\ Len(<<>>) = 0
      BY DEF Counts
    <3> QED BY <3>1, <3>2, <1>2, <1>3 DEF Follows
  <2>2. CASE i # IdOf[u]
    <3>1. configs'[i] = configs[i] /\ configs[i] \in Urls \ {u, old}
      BY <2>2, <1>4, <1>6
    <3>2. Follows(configs[i])
      BY <3>1 DEF PushInv, FollowInv
    <3> QED BY <3>1, <3>2, <1>3 DEF Follows, Done
  <2> QED BY <2>1, <2>2
<1> QED BY <1>7, <1>8, <1>9 DEF PushInv

\* At first nothing is configured.
LEMMA InitPush == Init => PushInv
<1> SUFFICES ASSUME Init PROVE PushInv
  OBVIOUS
<1>1. ConfigInv
  BY HandlerAssumption DEF Init, ConfigInv
<1>2. NotifyInv
  BY DEF Init, NotifyInv
<1>3. FollowInv
  BY DEF Init, FollowInv
<1> QED BY <1>1, <1>2, <1>3, InitTypes DEF PushInv

\* Every step keeps the invariant.
LEMMA NextPush == PushInv /\ [Next]_vars => PushInv'
<1> SUFFICES ASSUME PushInv, [Next]_vars PROVE PushInv'
  OBVIOUS
<1>0. /\ TypeOK /\ ConfigInv /\ NotifyInv /\ FollowInv
      /\ TypeOK'
  BY NextTypes DEF PushInv
<1>t. /\ configs \in [Ids -> Urls \cup {Nobody}] /\ since \in [Urls -> Int]
      /\ got \in [Urls -> Seq(Nat)] /\ row.no \in Nat /\ targets \subseteq Urls
      /\ Nobody \notin Urls /\ Brings \in [Reqs -> Urls \cup {Nobody}]
      /\ call \in [Owners -> Places] /\ row \in [state : States, no : Nat]
  BY <1>0, HandlerAssumption DEF TypeOK, PushOK, TasksOK, ConsumerOK, CallsOK
<1>c. /\ \A i \in Ids : configs[i] # Nobody => IdOf[configs[i]] = i /\ since[configs[i]] >= 0
      /\ \A u \in targets : since[u] # -1
      /\ \A r \in Reqs :
            call[r] \in {"absent", "idle", "looked"} /\ Brings[r] # Nobody => since[Brings[r]] = -1
  BY <1>0 DEF ConfigInv
<1>n. row.no \in Nat
  BY <1>t
<1>f. Reqs \cap Watchers = {} /\ (Reqs \cup Watchers) \cap Cancels = {}
  BY HandlerAssumption
<1>1. ASSUME NEW u \in Urls, CreateConfig(u) PROVE PushInv'
  <2>1. SetInfo(u) /\ since[u] = -1 /\ UNCHANGED <<cons, hand, targets, row, call>>
        /\ \A r \in Reqs : Brings[r] # u
    BY <1>1 DEF CreateConfig, consumer, tasks, calls
  <2> QED BY <2>1, <1>0, SetInfoPush
<1>2. ASSUME NEW i \in Ids, DeleteConfig(i) PROVE PushInv'
  <2> DEFINE u == configs[i]
  <2>1. u \in Urls /\ UNCHANGED <<cons, hand, targets, row, call>>
    BY <1>2, <1>t DEF DeleteConfig, consumer, tasks, calls
  <2>2. /\ configs'[i] = Nobody /\ \A j \in Ids \ {i} : configs'[j] = configs[j]
        /\ since'[u] = 0 /\ \A v \in Urls \ {u} : since'[v] = since[v] /\ got'[v] = got[v]
    BY <1>2, <1>t, <2>1 DEF DeleteConfig
  <2>3. \A j \in Ids \ {i} : configs[j] # Nobody => configs[j] \in Urls \ {u}
    BY <1>c, <1>t, <2>1
  <2>4. since[u] >= 0
    BY <1>c, <1>t, <2>1
  <2> HIDE DEF u
  <2>5. ConfigInv'
    <3>1. \A j \in Ids : configs'[j] # Nobody => IdOf[configs'[j]] = j /\ since'[configs'[j]] >= 0
      BY <1>c, <2>2, <2>3
    <3>2. \A v \in targets' : since'[v] # -1
      BY <1>c, <1>t, <2>1, <2>2
    <3>3. \A r \in Reqs :
            call'[r] \in {"absent", "idle", "looked"} /\ Brings[r] # Nobody
                => since'[Brings[r]] = -1
      BY <1>c, <1>t, <2>1, <2>2, <2>4
    <3> QED BY <3>1, <3>2, <3>3 DEF ConfigInv
  <2>6. NotifyInv'
    BY <1>0, <2>1 DEF NotifyInv
  <2>7. FollowInv'
    <3> SUFFICES ASSUME NEW j \in Ids, configs'[j] # Nobody
                 PROVE  Follows(configs[j])'
      BY DEF FollowInv
    <3>1. j # i /\ configs'[j] = configs[j] /\ configs[j] \in Urls \ {u} /\ Follows(configs[j])
      BY <1>0, <2>2, <2>3 DEF FollowInv
    <3> QED BY <3>1, <2>1, <2>2 DEF Follows, Done
  <2> QED BY <1>0, <2>5, <2>6, <2>7 DEF PushInv
<1>3. ASSUME NEW r \in Reqs, Configure(r) PROVE PushInv'
  <2>1. /\ UNCHANGED <<cons, hand, targets, row>>
        /\ call[r] = "looked" /\ call'[r] \notin {"absent", "idle", "looked"}
        /\ \A s \in Reqs \ {r} : call'[s] = call[s]
    BY <1>3, <1>t DEF Configure, Becomes, consumer, tasks, Owners
  <2>2. CASE Brings[r] \in Unsafe \cup {Nobody}
    <3>1. UNCHANGED <<configs, since, got>>
      BY <1>3, <2>2 DEF Configure, push
    <3> QED BY <3>1, <2>1, <1>0, PushFrame
  <2>3. CASE Brings[r] \notin Unsafe \cup {Nobody}
    <3>1. Brings[r] \in Urls /\ SetInfo(Brings[r]) /\ since[Brings[r]] = -1
      BY <1>3, <1>0, <1>t, <2>1, <2>3 DEF Configure, ConfigInv
    <3>2. \A s \in Reqs : Brings[s] = Brings[r] => s = r
      BY <2>3, HandlerAssumption
    <3> QED BY <3>1, <3>2, <2>1, <1>0, SetInfoPush
  <2> QED BY <2>2, <2>3
<1>4. CASE Consume
  <2>1. UNCHANGED <<configs, since, got, targets, call>> /\ targets = {} /\ cons = "take"
    BY <1>4, <1>0 DEF Consume, push, calls, NotifyInv
  <2>2. \/ /\ row'.no = row.no + 1 /\ hand'.no = row.no + 1 /\ cons' = "push"
        \/ row'.no = row.no /\ cons' = "publish"
    <3>1. CASE ConsumesUpdate(Head(agentQ))
      <4>1. Head(agentQ) \in Entry
        BY <1>4, <1>0 DEF Consume, TypeOK, AgentVarsOK
      <4>2. hand'.no = row.no + 1
        BY <3>1, <4>1, <1>t DEF ConsumesUpdate, Entry
      <4> QED BY <3>1, <4>2 DEF ConsumesUpdate
    <3>2. CASE ConsumesOther(Head(agentQ))
      BY <3>2, <1>t DEF ConsumesOther
    <3> QED BY <1>4, <3>1, <3>2 DEF Consume
  <2>3. \A u \in Urls : Done(u)' = Done(u)
    <3>2. \A u : Done(u) = row.no
      BY <2>1 DEF Done
    <3>3. \A u : Done(u)' = row.no
      <4>1. CASE row'.no = row.no + 1 /\ cons' = "push"
        <5>1. row'.no - 1 = row.no
          BY <4>1, <1>n
        <5> QED BY <4>1, <5>1 DEF Done
      <4>2. CASE row'.no = row.no /\ cons' = "publish"
        BY <4>2 DEF Done
      <4> QED BY <2>2, <4>1, <4>2
    <3> QED BY <3>2, <3>3
  <2>4. ConfigInv'
    BY <1>0, <2>1 DEF ConfigInv
  <2>5. NotifyInv'
    BY <2>1, <2>2, <1>t DEF NotifyInv
  <2>6. FollowInv'
    BY <1>0, <1>t, <2>1, <2>3 DEF FollowInv, Follows
  <2> QED BY <1>0, <2>4, <2>5, <2>6 DEF PushInv
<1>5. CASE Snapshot
  <2>1. /\ UNCHANGED <<configs, since, got, row, call, hand>>
        /\ targets' = {configs[i] : i \in Ids} \ {Nobody} /\ cons = "push" /\ cons' = "post"
    BY <1>5 DEF Snapshot, push, tasks, calls
  <2>2. ConfigInv'
    <3>1. \A u \in targets' : since'[u] # -1
      BY <1>c, <1>t, <2>1
    <3> QED BY <1>c, <2>1, <3>1 DEF ConfigInv
  <2>3. hand.no = row.no
    BY <1>0, <2>1 DEF NotifyInv
  <2>4. NotifyInv'
    BY <2>1, <2>3 DEF NotifyInv
  <2>5. FollowInv'
    BY <1>0, <2>1 DEF FollowInv, Follows, Done
  <2> QED BY <1>0, <2>2, <2>4, <2>5 DEF PushInv
<1>6. ASSUME NEW u \in Urls, Post(u) PROVE PushInv'
  <2>1. /\ UNCHANGED <<configs, since, row, call, hand, cons>>
        /\ targets' = targets \ {u} /\ u \in targets /\ cons = "post"
    BY <1>6 DEF Post, tasks, calls
  <2>2. ConfigInv' /\ NotifyInv'
    BY <1>0, <2>1 DEF ConfigInv, NotifyInv
  <2>3. FollowInv'
    <3> SUFFICES ASSUME NEW i \in Ids, configs[i] # Nobody
                 PROVE  Follows(configs[i])'
      BY <2>1 DEF FollowInv
    <3>0. configs[i] \in Urls /\ Follows(configs[i]) /\ IdOf[configs[i]] = i
      BY <1>0, <1>c, <1>t DEF FollowInv
    <3>1. CASE configs[i] = u
      <4>1. got' = [got EXCEPT ![u] = Append(got[u], hand.no)]
        BY <1>6, <3>0, <3>1 DEF Post
      <4>2. hand.no = row.no /\ got[u] \in Seq(Nat) /\ since[u] \in Int
        BY <1>0, <1>t, <2>1 DEF NotifyInv
      <4>3. Counts(got[u], since[u]) /\ Len(got[u]) = row.no - 1 - since[u]
        BY <3>0, <3>1, <2>1 DEF Follows, Done
      <4>4. hand.no = since[u] + Len(got[u]) + 1
        BY <4>2, <4>3, <1>t
      <4>5. /\ Counts(Append(got[u], hand.no), since[u])
            /\ Len(Append(got[u], hand.no)) = Len(got[u]) + 1
        BY <4>2, <4>3, <4>4, <1>t, CountsOn
      <4>6. got'[u] = Append(got[u], hand.no)
        BY <4>1, <1>t
      <4>7. Done(u)' = row.no
        BY <2>1 DEF Done
      <4>8. row.no = Len(got[u]) + 1 + since[u] /\ Len(got[u]) \in Nat
        BY <4>2, <4>3, <1>t
      <4>9. configs'[i] = u /\ since'[u] = since[u]
        BY <2>1, <3>1
      <4>10. Len(got'[u]) = Done(u)' - since[u]
        BY <4>2, <4>5, <4>6, <4>7, <4>8
      <4> QED BY <4>5, <4>6, <4>9, <4>10 DEF Follows
    <3>2. CASE configs[i] # u
      <4>1. got'[configs[i]] = got[configs[i]]
        BY <1>6, <1>t, <3>0, <3>2 DEF Post
      <4>2. Done(configs[i])' = Done(configs[i])
        BY <2>1, <3>2 DEF Done
      <4> QED BY <2>1, <3>0, <4>1, <4>2 DEF Follows
    <3> QED BY <3>1, <3>2
  <2> QED BY <1>0, <2>2, <2>3 DEF PushInv
<1>7. CASE Publish
  <2>1. /\ UNCHANGED <<configs, since, got, row, call, targets>> /\ targets = {}
        /\ cons \in {"post", "publish"} /\ cons' \in {"take", "over"}
    BY <1>7, <1>0 DEF Publish, push, calls, NotifyInv
  <2>2. ConfigInv' /\ NotifyInv'
    BY <1>0, <2>1 DEF ConfigInv, NotifyInv
  <2>3. FollowInv'
    BY <1>0, <2>1 DEF FollowInv, Follows, Done
  <2> QED BY <1>0, <2>2, <2>3 DEF PushInv
<1>8. CASE ConsumeEnd
  <2>1. /\ UNCHANGED <<configs, since, got, row, call, targets, hand>>
        /\ cons = "take" /\ cons' = "over"
    BY <1>8 DEF ConsumeEnd, push, calls
  <2>2. ConfigInv' /\ NotifyInv'
    BY <1>0, <2>1 DEF ConfigInv, NotifyInv
  <2>3. FollowInv'
    BY <1>0, <2>1 DEF FollowInv, Follows, Done
  <2> QED BY <1>0, <2>2, <2>3 DEF PushInv
<1>9. CASE Fail
  <2>1. UNCHANGED <<configs, since, got, cons, hand, targets, call>> /\ row'.no = row.no
    BY <1>9, <1>t DEF Fail, push, consumer, calls
  <2> QED BY <2>1, <1>0, PushFrame
<1>10. ASSUME NEW c \in Cancels, CancelEnd(c) PROVE PushInv'
  <2>1. UNCHANGED <<configs, since, got, cons, hand, targets>> /\ row'.no = row.no
    BY <1>10, <1>t DEF CancelEnd, push, consumer
  <2>2. \A r \in Reqs : call'[r] = call[r]
    BY <1>10, <1>t, <1>f DEF CancelEnd, Becomes
  <2> QED BY <2>1, <2>2, <1>0, PushFrame
<1>11. ASSUME NEW r \in Reqs, Look(r) PROVE PushInv'
  <2>1. UNCHANGED <<configs, since, got, cons, hand, targets, row>>
    BY <1>11 DEF Look, push, consumer, tasks
  <2>2. call[r] = "idle" /\ \A s \in Reqs \ {r} : call'[s] = call[s]
    BY <1>11, <1>t DEF Look, Becomes, Owners
  <2> QED BY <2>1, <2>2, <1>0, PushFrame
<1>12. ASSUME NEW r \in Reqs, Ask(r) PROVE PushInv'
  <2>1. UNCHANGED <<configs, since, got, cons, hand, targets, row>>
    BY <1>12 DEF Ask, push, consumer, tasks
  <2>2. \A s \in Reqs : call'[s] = call[s] \/ call'[s] = "answered"
    BY <1>12, <1>t DEF Ask, Answered, Becomes, Owners
  <2> QED BY <2>1, <2>2, <1>0, PushFrame
<1>13. ASSUME NEW o \in Owners, Enter(o) PROVE PushInv'
  <2>1. UNCHANGED <<configs, since, got, cons, hand, targets, row>>
    BY <1>13 DEF Enter, push, consumer
  <2>2. \A s \in Reqs : call'[s] = call[s] \/ call'[s] \in {"refused", "entered"}
    BY <1>13, <1>t DEF Enter, Becomes, Owners
  <2> QED BY <2>1, <2>2, <1>0, PushFrame
<1>14. ASSUME NEW o \in Readers, Subscribe(o) PROVE PushInv'
  <2>1. UNCHANGED <<configs, since, got, cons, hand, targets, row>>
    BY <1>14 DEF Subscribe, push, consumer, tasks
  <2>2. \A s \in Reqs : call'[s] = call[s] \/ call'[s] \in {"refused", "broken", "reading", "greets"}
    BY <1>14, <1>t DEF Subscribe, Becomes, Owners
  <2> QED BY <2>1, <2>2, <1>0, PushFrame
<1>15. ASSUME NEW o \in Readers, Read(o) PROVE PushInv'
  <2>1. UNCHANGED <<configs, since, got, cons, hand, targets, row>>
    BY <1>15 DEF Read, push, consumer, tasks
  <2>2. \A s \in Reqs : call'[s] = call[s] \/ call'[s] \in {"failed", "answered", "asks"}
    BY <1>15, <1>t DEF Read, Ends, Judge, Answered, Becomes, Owners
  <2> QED BY <2>1, <2>2, <1>0, PushFrame
<1>16. ASSUME NEW o \in Readers, ReadEnd(o) PROVE PushInv'
  <2>1. UNCHANGED <<configs, since, got, cons, hand, targets, row>>
    BY <1>16 DEF ReadEnd, push, consumer, tasks
  <2>2. \A s \in Reqs : call'[s] = call[s] \/ call'[s] \in {"answered", "asks"}
    BY <1>16, <1>t DEF ReadEnd, Ends, Becomes, Owners
  <2> QED BY <2>1, <2>2, <1>0, PushFrame
<1>17. ASSUME NEW w \in Watchers, Greet(w) PROVE PushInv'
  <2>1. UNCHANGED <<configs, since, got, cons, hand, targets, row>>
    BY <1>17 DEF Greet, push, consumer, tasks
  <2>2. \A s \in Reqs : call'[s] = call[s] \/ call'[s] = "reading"
    BY <1>17, <1>t DEF Greet, Becomes, Owners
  <2> QED BY <2>1, <2>2, <1>0, PushFrame
<1>18. ASSUME NEW c \in Cancels, NEW announces \in BOOLEAN, CancelAgent(c, announces)
       PROVE PushInv'
  <2>1. UNCHANGED <<configs, since, got, cons, hand, targets, row>>
    BY <1>18 DEF CancelAgent, push, consumer, tasks
  <2>2. \A s \in Reqs : call'[s] = call[s] \/ call'[s] = "waits"
    BY <1>18, <1>t DEF CancelAgent, Becomes, Owners
  <2> QED BY <2>1, <2>2, <1>0, PushFrame
<1>19. ASSUME NEW kind \in Kinds, Emit(kind) PROVE PushInv'
  <2>1. UNCHANGED <<configs, since, got, cons, hand, targets, row, call>>
    BY <1>19 DEF Emit, push, consumer, tasks, calls
  <2> QED BY <2>1, <1>0, PushFrame
<1>20. CASE TakeRequest \/ Begin \/ Return \/ Raise \/ Stop \/ Closed
  <2>1. UNCHANGED <<configs, since, got, cons, hand, targets, row, call>>
    BY <1>20 DEF TakeRequest, Begin, Return, Raise, Stop, Closed, push, consumer, tasks, calls
  <2> QED BY <2>1, <1>0, PushFrame
<1>21. CASE Forget
  <2>1. UNCHANGED <<configs, since, got, cons, hand, targets, row, call>>
    BY <1>21 DEF Forget, push, consumer, calls
  <2> QED BY <2>1, <1>0, PushFrame
<1>22. CASE UNCHANGED vars
  <2>1. UNCHANGED <<configs, since, got, cons, hand, targets, row, call>>
    BY <1>22 DEF vars, push, consumer, tasks, calls
  <2> QED BY <2>1, <1>0, PushFrame
<1> QED BY <1>1, <1>2, <1>3, <1>4, <1>5, <1>6, <1>7, <1>8, <1>9, <1>10, <1>11, <1>12,
           <1>13, <1>14, <1>15, <1>16, <1>17, <1>18, <1>19, <1>20, <1>21, <1>22
        DEF Next, Runs, Owners

\* As long as a configuration is neither replaced nor deleted its endpoint is sent every event
\* of the task since then, once and in order (active_task.py:295-306,
\* base_push_notification_sender.py:68-86): EndpointsFollow for any number of endpoints, ids
\* and events.
THEOREM EndpointsAreServed == Spec => []EndpointsFollow
<1>1. PushInv => EndpointsFollow
  BY DEF PushInv, FollowInv, Follows, Counts, Done, EndpointsFollow
<1> QED BY <1>1, InitPush, NextPush, PTL DEF Spec

-----------------------------------------------------------------------------
(* Resubscribers miss nothing                                              *)

\* Nothing that is published or about to be is newer than the task, and no tap is ahead.
Stamped ==
    /\ \A i \in 1..Len(log) : log[i].no <= row.no
    /\ cons \notin {"take", "over"} => hand.no <= row.no
    /\ \A w \in Watchers : early[w] <= Len(log)

GapInv == TypeOK /\ Stamped /\ NoGap

\* A step that publishes nothing and lets no resubscriber begin.
LEMMA GapFrame ==
    ASSUME GapInv, TypeOK', UNCHANGED <<log, hand, early, first>>, row'.no = row.no,
           cons' \in {cons, "over"},
           \A w \in Watchers : call'[w] \in {"reading", "answered", "failed"}
                             => call[w] \in {"reading", "answered", "failed"}
    PROVE  GapInv'
<1>1. Stamped'
  BY DEF GapInv, Stamped
<1>2. NoGap'
  BY DEF GapInv, NoGap
<1> QED BY <1>1, <1>2 DEF GapInv

\* Every step keeps the invariant.
LEMMA NextGap == GapInv /\ [Next]_vars => GapInv'
<1> SUFFICES ASSUME GapInv, [Next]_vars PROVE GapInv'
  OBVIOUS
<1>0. TypeOK /\ TypeOK' /\ Stamped /\ NoGap
  BY NextTypes DEF GapInv
<1>t. /\ log \in Seq(Entry) /\ row.no \in Nat /\ row \in [state : States, no : Nat]
      /\ first \in [Watchers -> Nat] /\ early \in [Watchers -> Nat]
      /\ call \in [Owners -> Places]
  BY <1>0 DEF TypeOK, StreamOK, TasksOK, ReadersOK, CallsOK
<1>f. Reqs \cap Watchers = {} /\ (Reqs \cup Watchers) \cap Cancels = {}
  BY HandlerAssumption
<1>1. CASE Publish
  <2>1. /\ UNCHANGED <<row, call, early, first>> /\ log' = Append(log, hand)
        /\ cons \in {"post", "publish"} /\ cons' \in {"take", "over"}
    BY <1>1 DEF Publish, calls, readers
  <2>2. hand \in Entry
    BY <1>0, <2>1 DEF TypeOK, ConsumerOK
  <2>3. /\ Len(log') = Len(log) + 1 /\ log'[Len(log) + 1] = hand
        /\ \A i \in 1..Len(log) : log'[i] = log[i]
    BY <1>t, <2>1, <2>2
  <2>4. Stamped'
    BY <1>0, <1>t, <2>1, <2>2, <2>3 DEF Stamped
  <2>5. NoGap'
    <3> SUFFICES ASSUME NEW w \in Watchers, call[w] \in {"reading", "answered", "failed"},
                        NEW i \in 1..early[w]
                 PROVE  log'[i].no <= first[w]
      BY <2>1 DEF NoGap
    <3>1. i \in 1..Len(log)
      BY <1>0, <1>t DEF Stamped
    <3> QED BY <3>1, <2>3, <1>0 DEF NoGap
  <2> QED BY <1>0, <2>4, <2>5 DEF GapInv
<1>2. CASE Consume
  <2>1. UNCHANGED <<log, call, early, first>>
    BY <1>2 DEF Consume, calls, readers, stream
  <2>2. row'.no >= row.no /\ hand'.no <= row'.no
    <3>1. Head(agentQ) \in Entry
      BY <1>2, <1>0 DEF Consume, TypeOK, AgentVarsOK
    <3>2. CASE ConsumesUpdate(Head(agentQ))
      <4>1. row'.no = row.no + 1 /\ hand'.no = row.no + 1
        BY <3>1, <3>2, <1>t DEF ConsumesUpdate, Entry
      <4> QED BY <4>1, <1>t
    <3>3. CASE ConsumesOther(Head(agentQ))
      <4>1. row'.no = row.no /\ hand'.no = 0
        BY <3>1, <3>3, <1>t DEF ConsumesOther, Entry
      <4> QED BY <4>1, <1>t
    <3> QED BY <1>2, <3>2, <3>3 DEF Consume
  <2>3. row'.no \in Nat
    BY <1>0 DEF TypeOK, TasksOK
  <2>4. \A i \in 1..Len(log) : log[i].no \in Nat
    <3>1. \A i \in 1..Len(log) : log[i] \in Entry
      BY <1>t
    <3> QED BY <3>1 DEF Entry
  <2>5. Stamped'
    BY <1>0, <1>t, <2>1, <2>2, <2>3, <2>4 DEF Stamped
  <2>6. NoGap'
    BY <1>0, <2>1 DEF NoGap
  <2> QED BY <1>0, <2>5, <2>6 DEF GapInv
<1>3. ASSUME NEW w \in Watchers, Greet(w) PROVE GapInv'
  <2>1. /\ UNCHANGED <<log, cons, hand, early, row>> /\ first' = [first EXCEPT ![w] = row.no]
        /\ call' = [call EXCEPT ![w] = "reading"]
    BY <1>3 DEF Greet, Becomes, consumer, tasks, stream
  <2>2. Stamped'
    BY <1>0, <2>1 DEF Stamped
  <2>3. NoGap'
    <3> SUFFICES ASSUME NEW v \in Watchers, call'[v] \in {"reading", "answered", "failed"},
                        NEW i \in 1..early[v]
                 PROVE  log[i].no <= first'[v]
      BY <2>1 DEF NoGap
    <3>1. CASE v = w
      <4>1. i \in 1..Len(log) /\ first'[v] = row.no
        BY <1>0, <1>t, <2>1, <3>1 DEF Stamped
      <4> QED BY <4>1, <1>0 DEF Stamped
    <3>2. CASE v # w
      <4>1. call[v] = call'[v] /\ first'[v] = first[v]
        BY <1>t, <2>1, <3>2 DEF Owners
      <4> QED BY <4>1, <1>0 DEF NoGap
    <3> QED BY <3>1, <3>2
  <2> QED BY <1>0, <2>2, <2>3 DEF GapInv
<1>4. ASSUME NEW o \in Readers, Subscribe(o) PROVE GapInv'
  <2>1. UNCHANGED <<log, cons, hand, first, row>>
    BY <1>4 DEF Subscribe, consumer, tasks, stream
  <2>2. \A w \in Watchers \ {o} : call'[w] = call[w]
    BY <1>4, <1>t DEF Subscribe, Becomes, Owners
  <2>3. o \in Watchers => call'[o] \in {"greets", "refused", "broken"}
    BY <1>4, <1>t, <1>f DEF Subscribe, Becomes, Owners
  <2>4. /\ \A w \in Watchers \ {o} : early'[w] = early[w]
        /\ \A w \in Watchers : early'[w] <= Len(log)
    <3>1. CASE UNCHANGED <<at, early>>
      BY <3>1, <1>0 DEF Stamped
    <3>2. ASSUME NEW place \in {n \in {Len(log) - 1, Len(log)} : JoinsAt(n)},
                 early' = [w \in Watchers |-> IF w = o THEN place ELSE early[w]]
          PROVE  /\ \A w \in Watchers \ {o} : early'[w] = early[w]
                 /\ \A w \in Watchers : early'[w] <= Len(log)
      <4>1. place <= Len(log)
        BY <1>t
      <4> QED BY <3>2, <4>1, <1>0 DEF Stamped
    <3> QED BY <1>4, <3>1, <3>2 DEF Subscribe
  <2>5. Stamped'
    BY <1>0, <2>1, <2>4 DEF Stamped
  <2>6. NoGap'
    <3> SUFFICES ASSUME NEW w \in Watchers, call'[w] \in {"reading", "answered", "failed"},
                        NEW i \in 1..early'[w]
                 PROVE  log[i].no <= first[w]
      BY <2>1 DEF NoGap
    <3>1. w # o
      BY <2>3
    <3> QED BY <3>1, <2>2, <2>4, <1>0 DEF NoGap
  <2> QED BY <1>0, <2>5, <2>6 DEF GapInv
<1>5. ASSUME NEW r \in Reqs, Look(r) PROVE GapInv'
  <2>1. UNCHANGED <<log, cons, hand, early, first, row>>
    BY <1>5 DEF Look, readers, consumer, tasks, stream
  <2>2. \A w \in Watchers : call'[w] = call[w]
    BY <1>5, <1>t, <1>f DEF Look, Becomes, Owners
  <2> QED BY <2>1, <2>2, GapFrame, <1>0
<1>6. ASSUME NEW r \in Reqs, Configure(r) PROVE GapInv'
  <2>1. UNCHANGED <<log, cons, hand, early, first, row>>
    BY <1>6 DEF Configure, readers, consumer, tasks, stream
  <2>2. \A w \in Watchers : call'[w] = call[w]
    BY <1>6, <1>t, <1>f DEF Configure, Becomes, Owners
  <2> QED BY <2>1, <2>2, GapFrame, <1>0
<1>7. ASSUME NEW r \in Reqs, Ask(r) PROVE GapInv'
  <2>1. UNCHANGED <<log, cons, hand, early, first, row>>
    BY <1>7 DEF Ask, readers, consumer, tasks, stream
  <2>2. \A w \in Watchers : call'[w] = call[w]
    BY <1>7, <1>t, <1>f DEF Ask, Answered, Becomes, Owners
  <2> QED BY <2>1, <2>2, GapFrame, <1>0
<1>8. ASSUME NEW o \in Owners, Enter(o) PROVE GapInv'
  <2>1. UNCHANGED <<log, cons, hand, early, first, row>>
    BY <1>8 DEF Enter, readers, consumer, stream
  <2>2. \A w \in Watchers : call'[w] = call[w] \/ call'[w] \in {"refused", "entered"}
    BY <1>8, <1>t, <1>f DEF Enter, Becomes, Owners
  <2> QED BY <2>1, <2>2, GapFrame, <1>0
<1>9. ASSUME NEW o \in Readers, Read(o) PROVE GapInv'
  <2>1. UNCHANGED <<log, cons, hand, early, first, row>>
    BY <1>9 DEF Read, consumer, tasks, stream
  <2>2. \A w \in Watchers : call'[w] = call[w] \/ (w = o /\ call[w] = "reading")
    BY <1>9, <1>t, <1>f DEF Read, Ends, Judge, Answered, Becomes, Owners
  <2> QED BY <2>1, <2>2, GapFrame, <1>0
<1>10. ASSUME NEW o \in Readers, ReadEnd(o) PROVE GapInv'
  <2>1. UNCHANGED <<log, cons, hand, early, first, row>>
    BY <1>10 DEF ReadEnd, readers, consumer, tasks, stream
  <2>2. \A w \in Watchers : call'[w] = call[w] \/ (w = o /\ call[w] = "reading")
    BY <1>10, <1>t, <1>f DEF ReadEnd, Ends, Becomes, Owners
  <2> QED BY <2>1, <2>2, GapFrame, <1>0
<1>11. ASSUME NEW c \in Cancels, NEW announces \in BOOLEAN, CancelAgent(c, announces)
       PROVE GapInv'
  <2>1. UNCHANGED <<log, cons, hand, early, first, row>>
    BY <1>11 DEF CancelAgent, readers, consumer, tasks, stream
  <2>2. \A w \in Watchers : call'[w] = call[w]
    BY <1>11, <1>t, <1>f DEF CancelAgent, Becomes, Owners
  <2> QED BY <2>1, <2>2, GapFrame, <1>0
<1>12. ASSUME NEW c \in Cancels, CancelEnd(c) PROVE GapInv'
  <2>1. UNCHANGED <<log, cons, hand, early, first>> /\ row'.no = row.no
    BY <1>12, <1>t DEF CancelEnd, readers, consumer, stream
  <2>2. \A w \in Watchers : call'[w] = call[w]
    BY <1>12, <1>t, <1>f DEF CancelEnd, Becomes, Owners
  <2> QED BY <2>1, <2>2, GapFrame, <1>0
<1>13. CASE Fail
  <2>1. UNCHANGED <<log, cons, hand, early, first, call>> /\ row'.no = row.no
    BY <1>13, <1>t DEF Fail, readers, consumer, stream, calls
  <2> QED BY <2>1, GapFrame, <1>0
<1>14. ASSUME NEW kind \in Kinds, Emit(kind) PROVE GapInv'
  <2>1. UNCHANGED <<log, cons, hand, early, first, call, row>>
    BY <1>14 DEF Emit, readers, consumer, tasks, stream, calls
  <2> QED BY <2>1, GapFrame, <1>0
<1>15. CASE TakeRequest \/ Begin \/ Return \/ Raise \/ Stop \/ Closed
  <2>1. UNCHANGED <<log, cons, hand, early, first, call, row>>
    BY <1>15 DEF TakeRequest, Begin, Return, Raise, Stop, Closed, readers, consumer, tasks,
                 stream, calls
  <2> QED BY <2>1, GapFrame, <1>0
<1>16. CASE ConsumeEnd \/ Forget
  <2>1. UNCHANGED <<log, hand, early, first, call, row>> /\ cons' \in {cons, "over"}
    BY <1>16 DEF ConsumeEnd, Forget, readers, consumer, tasks, stream, calls
  <2> QED BY <2>1, GapFrame, <1>0
<1>17. ASSUME NEW u \in Urls, (CreateConfig(u) \/ Post(u)) PROVE GapInv'
  <2>1. UNCHANGED <<log, cons, hand, early, first, call, row>>
    BY <1>17 DEF CreateConfig, Post, readers, consumer, tasks, stream, calls
  <2> QED BY <2>1, GapFrame, <1>0
<1>18. ASSUME NEW i \in Ids, DeleteConfig(i) PROVE GapInv'
  <2>1. UNCHANGED <<log, cons, hand, early, first, call, row>>
    BY <1>18 DEF DeleteConfig, readers, consumer, tasks, stream, calls
  <2> QED BY <2>1, GapFrame, <1>0
<1>19. CASE UNCHANGED vars
  <2>1. UNCHANGED <<log, cons, hand, early, first, call, row>>
    BY <1>19 DEF vars, readers, consumer, tasks, stream, calls
  <2> QED BY <2>1, GapFrame, <1>0
<1>20. CASE Snapshot
  <2>1. UNCHANGED <<log, hand, early, first, call, row>> /\ cons = "push" /\ cons' = "post"
    BY <1>20 DEF Snapshot, readers, tasks, stream, calls
  <2>2. Stamped'
    BY <1>0, <2>1 DEF Stamped
  <2>3. NoGap'
    BY <1>0, <2>1 DEF NoGap
  <2> QED BY <1>0, <2>2, <2>3 DEF GapInv
<1> QED BY <1>1, <1>2, <1>3, <1>4, <1>5, <1>6, <1>7, <1>8, <1>9, <1>10, <1>11, <1>12,
           <1>13, <1>14, <1>15, <1>16, <1>17, <1>18, <1>19, <1>20
        DEF Next, Runs, Owners

\* What a resubscriber's stream does not have is in the task it is given first
\* (active_task.py:635-648, default_request_handler_v2.py:427-450): NoGap for any number of
\* subscribers and events.
THEOREM ResubscribersMissNothing == Spec => []NoGap
<1>1. Init => GapInv
  <2> SUFFICES ASSUME Init PROVE GapInv
    OBVIOUS
  <2>1. Stamped
    BY DEF Init, Stamped
  <2>2. NoGap
    BY DEF Init, NoGap
  <2> QED BY <2>1, <2>2, InitTypes DEF GapInv
<1>2. GapInv => NoGap
  BY DEF GapInv
<1> QED BY <1>1, <1>2, NextGap, PTL DEF Spec

-----------------------------------------------------------------------------
(* Answers                                                                 *)

\* The producer has a request; it is closing its queues or has closed them.
Engaged == prod \in {"holds", "runs", "fails"}
Closing == prod \in {"closing", "torn", "over"}

\* What a tap at place n will still get or may: published, in the consumer's hand, on the way.
Mark(e)  == <<e.kind, e.by>>
Ahead(n) == {Mark(log[i]) : i \in (n + 1)..Len(log)}
            \cup (IF hand = Nobody THEN {} ELSE {Mark(hand)})
            \cup {Mark(agentQ[i]) : i \in 1..Len(agentQ)}

Waiting == {requests[i] : i \in 1..Len(requests)}
Late    == {"reading", "asks", "answered", "failed"}

\* No tap is ahead of the stream.
TapInv == \A o \in Readers : at[o] <= Len(log)

\* The queues are closed in the order requests, agent's, subscribers', the last when empty.
ClosingInv ==
    /\ ~takesRequests => requests = <<>>
    /\ ~agentOpen => ~takesRequests
    /\ Closing => ~agentOpen
    /\ ~subsOpen => prod = "over" /\ agentQ = <<>> /\ hand = Nobody

\* Nobody but a cancelling call speaks for something else than a request.
OriginInv == \A m \in Ahead(0) : m[2] \in Reqs \/ Cancelled

\* A request is queued once, served once and returns once, or its agent raises.
Begun(r) == r \in Waiting \/ (Engaged /\ serving = r) \/ <<"returned", r>> \in Ahead(0)
OnceInv ==
    /\ \A i, j \in 1..Len(requests) : requests[i] = requests[j] => i = j
    /\ \A r \in Waiting : <<"returned", r>> \notin Ahead(0)
    /\ Engaged => serving \notin Waiting /\ <<"returned", serving>> \notin Ahead(0)
    /\ raised # Nobody => prod \notin {"idle", "holds", "runs"} /\ <<"returned", raised>> \notin Ahead(0)
    /\ prod = "fails" => raised = serving
    /\ \A r \in Reqs : call[r] \notin Late => ~Begun(r)

\* message/send has something to answer with, or something to wait for.
Decisive(r, m) == m[1] \in Terminal \cup {"error"} \/ m = <<"returned", r>>
Due(r) == r \in Waiting \/ (Engaged /\ serving = r) \/ \E m \in Ahead(at[r]) : Decisive(r, m)
AwaitInv ==
    \A r \in Reqs : mode[r] = "send" /\ ~Cancelled =>
        /\ call[r] = "reading" => answer[r] # None \/ Due(r)
        /\ call[r] # "answered" => answer[r] = None \/ answer[r].state \in {"message", "failed"}
        /\ call[r] = "asks" => Returned(r)

\* The exception of an agent is ahead of the client of its request, and nothing ends its
\* stream before.
ToldInv ==
    \A r \in Reqs : ~Cancelled =>
        /\ raised = r /\ call[r] = "reading" => prod = "fails" \/ <<"error", r>> \in Ahead(at[r])
        /\ call[r] = "asks" => <<"returned", r>> \in Ahead(0) \/ mode[r] = "poll"
        /\ call[r] = "answered" /\ mode[r] # "poll" =>
             \/ <<"returned", r>> \in Ahead(0)
             \/ ~subsOpen
             \/ mode[r] = "send" /\ answer[r].by \in Reqs /\ answer[r].state # "failed"

AnswerInv ==
    /\ TypeOK /\ TapInv /\ ClosingInv /\ OriginInv /\ OnceInv
    /\ AwaitInv /\ ToldInv /\ BlockingAnswers /\ FailureIsTold

\* A call that is cancelling or has cancelled goes on to have cancelled.
LEMMA CancelledStays == TypeOK /\ [Next]_vars => (Cancelled => Cancelled')
<1> SUFFICES ASSUME TypeOK, [Next]_vars, NEW c \in Cancels,
                    call[c] \in {"waits", "answered", "failed"}
             PROVE  call'[c] \in {"waits", "answered", "failed"}
  BY DEF Cancelled
<1>1. c \in Owners /\ c \notin Readers /\ call \in [Owners -> Places]
  BY HandlerAssumption DEF Owners, Readers, TypeOK, CallsOK
<1>3. ASSUME NEW r \in Reqs, (Configure(r) \/ Ask(r) \/ Look(r)) PROVE call'[c] = call[c]
  BY <1>1, <1>3 DEF Configure, Ask, Look, Answered, Becomes, Readers
<1>4. ASSUME NEW o \in Readers, (Subscribe(o) \/ Read(o) \/ ReadEnd(o)) PROVE call'[c] = call[c]
  BY <1>1, <1>4 DEF Subscribe, Read, ReadEnd, Ends, Judge, Answered, Becomes
<1>5. ASSUME NEW w \in Watchers, Greet(w) PROVE call'[c] = call[c]
  BY <1>1, <1>5 DEF Greet, Becomes, Readers
<1>6. ASSUME NEW o \in Owners, Enter(o) PROVE call'[c] = call[c]
  BY <1>1, <1>6 DEF Enter, Becomes
<1>7. ASSUME NEW k \in Cancels, NEW announces \in BOOLEAN, CancelAgent(k, announces)
      PROVE  call'[c] = call[c]
  BY <1>1, <1>7 DEF CancelAgent, Becomes
<1>8. ASSUME NEW k \in Cancels, CancelEnd(k) PROVE call'[c] \in {"waits", "answered", "failed"}
  BY <1>1, <1>8 DEF CancelEnd, Becomes
<1>9. CASE TakeRequest \/ Begin \/ Return \/ Raise \/ Fail \/ Stop \/ Closed \/ Forget
  BY <1>9 DEF TakeRequest, Begin, Return, Raise, Fail, Stop, Closed, Forget, calls
<1>10. CASE Consume \/ Snapshot \/ Publish \/ ConsumeEnd
  BY <1>10 DEF Consume, Snapshot, Publish, ConsumeEnd, calls
<1>11. CASE \/ \E u \in Urls : Post(u) \/ CreateConfig(u)
            \/ \E i \in Ids : DeleteConfig(i)
            \/ \E kind \in Kinds : Emit(kind)
            \/ UNCHANGED vars
  BY <1>11 DEF Post, CreateConfig, DeleteConfig, Emit, vars, calls
<1> QED BY <1>3, <1>4, <1>5, <1>6, <1>7, <1>8, <1>9, <1>10, <1>11 DEF Next, Runs, Owners

\* What the steps do to what is ahead of a tap.
LEMMA AheadSame ==
    ASSUME NEW n, UNCHANGED <<log, hand, agentQ>>
    PROVE  Ahead(n)' = Ahead(n)
  BY DEF Ahead

\* The same for the place a subscriber has read to.
LEMMA AheadAt ==
    ASSUME NEW r, NEW n, n = at[r], at' = at
    PROVE  Ahead(at[r]) = Ahead(n) /\ Ahead(at[r])' = Ahead(n)'
  BY DEF Ahead

\* What is put into the agent's queue is ahead of everybody,
LEMMA AheadPut ==
    ASSUME AgentVarsOK, NEW n, NEW k \in Kinds \cup Markers \cup {"canceled"}, NEW b \in Owners,
           agentQ' = Append(agentQ, [kind |-> k, by |-> b, no |-> 0]), UNCHANGED <<log, hand>>
    PROVE  Ahead(n)' = Ahead(n) \cup {<<k, b>>}
<1> DEFINE e == [kind |-> k, by |-> b, no |-> 0]
<1>1. e \in Entry /\ Mark(e) = <<k, b>>
  BY DEF Entry, Mark
<1>2. agentQ' = Append(agentQ, e) /\ agentQ \in Seq(Entry)
  BY DEF AgentVarsOK
<1> HIDE DEF e
<1>3. /\ Len(agentQ') = Len(agentQ) + 1 /\ agentQ'[Len(agentQ) + 1] = e
      /\ \A i \in 1..Len(agentQ) : agentQ'[i] = agentQ[i]
      /\ Len(agentQ) \in Nat
  BY <1>1, <1>2
<1>4. {Mark(agentQ'[i]) : i \in 1..Len(agentQ')}
        = {Mark(agentQ[i]) : i \in 1..Len(agentQ)} \cup {Mark(e)}
  BY <1>3
<1> QED BY <1>1, <1>4 DEF Ahead

\* the consumer takes nothing away by taking it in its hand,
LEMMA AheadConsume ==
    ASSUME TypeOK, NEW n, Consume
    PROVE  Ahead(n)' = Ahead(n)
<1>1. /\ agentQ \in Seq(Entry) /\ agentQ # <<>> /\ agentQ' = Tail(agentQ) /\ hand = Nobody
      /\ log' = log
  BY DEF Consume, TypeOK, AgentVarsOK, ConsumerOK, stream
<1>2. Head(agentQ) = agentQ[1] /\ agentQ[1] \in Entry
  BY <1>1
<1>3. Mark(hand') = Mark(agentQ[1])
  BY <1>2 DEF Consume, ConsumesUpdate, ConsumesOther, Mark, Entry
<1>4. hand' # Nobody
  <2>1. cons' \in {"push", "publish"}
    BY DEF Consume, ConsumesUpdate, ConsumesOther
  <2>2. ConsumerOK'
    BY NextTypes DEF TypeOK, Next, Runs
  <2> QED BY <2>1, <2>2, HandAssumption DEF ConsumerOK
<1>5. {Mark(agentQ[i]) : i \in 1..Len(agentQ)}
        = {Mark(agentQ[1])} \cup {Mark(agentQ'[i]) : i \in 1..Len(agentQ')}
  <2>1. /\ Len(agentQ') = Len(agentQ) - 1 /\ Len(agentQ) \in Nat /\ Len(agentQ) >= 1
        /\ \A i \in 1..Len(agentQ') : agentQ'[i] = agentQ[i + 1]
    BY <1>1
  <2>2. \A i \in 1..Len(agentQ) : i = 1 \/ (i - 1 \in 1..Len(agentQ') /\ agentQ[i] = agentQ'[i - 1])
    BY <2>1
  <2>3. \A i \in 1..Len(agentQ') : i + 1 \in 1..Len(agentQ)
    BY <2>1
  <2>4. 1 \in 1..Len(agentQ)
    BY <2>1
  <2> QED BY <2>1, <2>2, <2>3, <2>4
<1> QED BY <1>1, <1>3, <1>4, <1>5 DEF Ahead

\* nor by publishing it,
LEMMA AheadPublish ==
    ASSUME TypeOK, NEW n \in 0..Len(log), Publish
    PROVE  Ahead(n)' = Ahead(n)
<1>1. /\ log \in Seq(Entry) /\ hand \in Entry /\ log' = Append(log, hand) /\ hand' = Nobody
      /\ agentQ' = agentQ
  BY DEF Publish, TypeOK, StreamOK, ConsumerOK, agentVars
<1>2. hand # Nobody
  BY <1>1, HandAssumption
<1>3. /\ Len(log') = Len(log) + 1 /\ log'[Len(log) + 1] = hand /\ Len(log) \in Nat
      /\ \A i \in 1..Len(log) : log'[i] = log[i]
  BY <1>1
<1>4. {Mark(log'[i]) : i \in (n + 1)..Len(log')}
        = {Mark(log[i]) : i \in (n + 1)..Len(log)} \cup {Mark(hand)}
  BY <1>3
<1> QED BY <1>1, <1>2, <1>4 DEF Ahead

\* a subscriber has one entry less ahead when it has read it,
LEMMA AheadRead ==
    ASSUME StreamOK, NEW n \in Nat, n < Len(log)
    PROVE  Ahead(n) = Ahead(n + 1) \cup {Mark(log[n + 1])}
<1>1. Len(log) \in Nat
  BY DEF StreamOK
<1>2. {Mark(log[i]) : i \in (n + 1)..Len(log)}
        = {Mark(log[i]) : i \in (n + 1 + 1)..Len(log)} \cup {Mark(log[n + 1])}
  BY <1>1
<1> QED BY <1>2 DEF Ahead

\* and who joins later has less ahead.
LEMMA AheadLater ==
    ASSUME StreamOK, NEW n \in Nat, NEW m \in Nat, n <= m
    PROVE  Ahead(m) \subseteq Ahead(n)
  BY DEF Ahead, StreamOK

\* What has been returned stays in the stream.
LEMMA ReturnedStays ==
    ASSUME StreamOK, StreamOK', NEW r,
           log' = log \/ \E e \in Entry : log' = Append(log, e), Returned(r)
    PROVE  Returned(r)'
<1>1. PICK i \in 1..Len(log) : log[i].kind = "returned" /\ log[i].by = r
  BY DEF Returned
<1>2. i \in 1..Len(log') /\ log'[i] = log[i]
  BY DEF StreamOK
<1> QED BY <1>1, <1>2 DEF Returned

\* The steps of the agent, the producer, the consumer and of those who only ask for the task:
\* nobody reads, and of the requests' calls those that have begun to read stay as they are.
Settled ==
    /\ UNCHANGED <<mode, answer, at>>
    /\ \A r \in Reqs : call'[r] = call[r] \/ {call[r], call'[r]} \cap Late = {}

\* Nothing that a request waits for is lost by such a step, no more than what it is told.
LEMMA SettledKeeps ==
    ASSUME AnswerInv, Settled, Cancelled => Cancelled',
           TypeOK', log' = log \/ \E e \in Entry : log' = Append(log, e),
           \A n \in 0..Len(log) : Ahead(n) \subseteq Ahead(n)',
           subsOpen' => subsOpen,
           \A r \in Reqs : ~Cancelled' /\ call[r] = "reading" /\ Due(r) => Due(r)',
           \A r \in Reqs : ~Cancelled' /\ raised' = r =>
               \/ raised = r /\ (prod = "fails" => prod' = "fails" \/ <<"error", r>> \in Ahead(at[r])')
               \/ prod' = "fails" /\ raised' = serving /\ prod = "runs"
    PROVE  TapInv' /\ AwaitInv' /\ ToldInv' /\ BlockingAnswers' /\ FailureIsTold'
<1>1. /\ StreamOK /\ StreamOK' /\ \A r \in Reqs : at[r] \in 0..Len(log)
      /\ Len(log) <= Len(log') /\ at \in [Readers -> Nat] /\ Len(log') \in Nat
  BY DEF AnswerInv, TypeOK, StreamOK, TapInv, ReadersOK, Readers
<1>2. TapInv'
  BY <1>1 DEF AnswerInv, TapInv, Settled
<1>3. \A r \in Reqs : Returned(r) => Returned(r)'
  BY <1>1, ReturnedStays
<1>4. \A r \in Reqs : call'[r] \in Late => call[r] = call'[r]
  BY DEF Settled
<1>5. \A r \in Reqs : call[r] \in Late => call[r] = call'[r]
  BY DEF Settled
<1>6. AwaitInv'
  <2> SUFFICES ASSUME NEW r \in Reqs, mode[r] = "send", ~Cancelled'
               PROVE  /\ call'[r] = "reading" => answer[r] # None \/ Due(r)'
                      /\ call'[r] # "answered"
                            => answer[r] = None \/ answer[r].state \in {"message", "failed"}
                      /\ call'[r] = "asks" => Returned(r)'
    BY DEF AwaitInv, Settled
  <2> QED BY <1>3, <1>4, <1>5 DEF AnswerInv, AwaitInv, Late
<1>7. ToldInv'
  <2> SUFFICES ASSUME NEW r \in Reqs, ~Cancelled'
               PROVE  /\ raised' = r /\ call'[r] = "reading"
                            => prod' = "fails" \/ <<"error", r>> \in Ahead(at[r])'
                      /\ call'[r] = "asks" => <<"returned", r>> \in Ahead(0)' \/ mode'[r] = "poll"
                      /\ call'[r] = "answered" /\ mode'[r] # "poll" =>
                           \/ <<"returned", r>> \in Ahead(0)'
                           \/ ~subsOpen'
                           \/ mode'[r] = "send" /\ answer'[r].by \in Reqs /\ answer'[r].state # "failed"
    BY DEF ToldInv
  <2>1. ~Cancelled /\ ToldInv
    BY DEF AnswerInv
  <2>2. ASSUME raised' = r, call'[r] = "reading"
        PROVE  prod' = "fails" \/ <<"error", r>> \in Ahead(at[r])'
    <3>1. call[r] = "reading"
      BY <2>2, <1>4 DEF Late
    <3>2. Ahead(at[r]) \subseteq Ahead(at[r])'
      <4>1. PICK n \in 0..Len(log) : n = at[r]
        BY <1>1
      <4>2. Ahead(n) \subseteq Ahead(n)' /\ n = at'[r]
        BY <4>1 DEF Settled
      <4> QED BY <4>1, <4>2 DEF Ahead
    <3> QED BY <2>1, <2>2, <3>1, <3>2 DEF ToldInv
  <2>3. Ahead(0) \subseteq Ahead(0)'
    BY <1>1
  <2> QED BY <2>1, <2>2, <2>3, <1>4 DEF ToldInv, Late, Settled
<1>8. BlockingAnswers'
  BY <1>3, <1>4 DEF AnswerInv, BlockingAnswers, Settled, Late
<1>9. FailureIsTold'
  <2> SUFFICES ASSUME NEW r \in Reqs, call'[r] = "answered", raised' = r, ~Cancelled'
               PROVE  mode[r] = "poll" \/ (mode[r] = "send" /\ answer[r].by \in Reqs
                                           /\ answer[r].state # "failed")
    BY DEF FailureIsTold, Settled
  <2>1. call[r] = "answered" /\ ~Cancelled
    BY <1>4 DEF Late
  <2>2. CASE raised = r
    BY <2>1, <2>2 DEF AnswerInv, FailureIsTold
  <2>3. CASE serving = r /\ prod = "runs"
    <3>1. <<"returned", r>> \notin Ahead(0) /\ subsOpen
      BY <2>3 DEF AnswerInv, OnceInv, Engaged, ClosingInv
    <3> QED BY <2>1, <3>1 DEF AnswerInv, ToldInv
  <2> QED BY <2>2, <2>3
<1> QED BY <1>2, <1>6, <1>7, <1>8, <1>9

\* A request is taken once through a step that takes none, lets none return and no agent raise.
LEMMA OnceKeeps ==
    ASSUME OnceInv, \A r \in Reqs : call'[r] \notin Late => call[r] \notin Late,
           Engaged => serving \in Reqs, requests \in Seq(Reqs),
           requests' \in {requests, <<>>}, UNCHANGED <<serving, raised>>,
           prod' = prod \/ prod' \in {"closing", "torn", "over"},
           \A r \in Reqs : <<"returned", r>> \in Ahead(0)' => <<"returned", r>> \in Ahead(0),
           raised \in Reqs \cup {Nobody}
    PROVE  OnceInv'
<1>1. Waiting' \subseteq Waiting /\ Waiting \subseteq Reqs
  BY DEF Waiting
<1>2. Engaged' => Engaged
  BY DEF Engaged
<1>3. \A i, j \in 1..Len(requests') : requests'[i] = requests'[j] => i = j
  BY DEF OnceInv
<1>4. \A r \in Waiting' : <<"returned", r>> \notin Ahead(0)'
  BY <1>1 DEF OnceInv
<1>5. Engaged' => serving' \notin Waiting' /\ <<"returned", serving'>> \notin Ahead(0)'
  BY <1>1, <1>2 DEF OnceInv
<1>6. raised' # Nobody => prod' \notin {"idle", "holds", "runs"} /\ <<"returned", raised'>> \notin Ahead(0)'
  BY DEF OnceInv
<1>7. prod' = "fails" => raised' = serving'
  BY DEF OnceInv
<1>8. ASSUME NEW r \in Reqs, call'[r] \notin Late PROVE ~Begun(r)'
  BY <1>1, <1>2, <1>8 DEF OnceInv, Begun
<1> QED BY <1>3, <1>4, <1>5, <1>6, <1>7, <1>8 DEF OnceInv

\* The order in which the queues are closed is kept.
LEMMA NextClosing ==
    ASSUME TypeOK, TypeOK', ClosingInv, [Next]_vars
    PROVE  ClosingInv'
<1>0. /\ requests \in Seq(Reqs) /\ agentQ \in Seq(Entry)
      /\ cons \in {"take", "over"} => hand = Nobody
      /\ prod \in {"idle", "holds", "runs", "fails", "closing", "torn", "over"}
  BY DEF TypeOK, FeedOK, AgentVarsOK, ConsumerOK, ProducerOK
<1>1. CASE UNCHANGED <<feed, prod, agentVars, hand, stream>>
  BY <1>1 DEF feed, agentVars, stream, ClosingInv, Closing
<1>2. ASSUME NEW r \in Reqs, (Configure(r) \/ Ask(r) \/ Look(r)) PROVE ClosingInv'
  <2>1. UNCHANGED <<feed, prod, agentVars, hand, stream>>
    BY <1>2 DEF Configure, Ask, Look, producer, consumer
  <2> QED BY <2>1, <1>1
<1>3. ASSUME NEW o \in Readers, (Read(o) \/ ReadEnd(o)) PROVE ClosingInv'
  <2>1. UNCHANGED <<feed, prod, agentVars, hand, stream>>
    BY <1>3 DEF Read, ReadEnd, producer, consumer
  <2> QED BY <2>1, <1>1
<1>4. ASSUME NEW o \in Readers, Subscribe(o) PROVE ClosingInv'
  <2>1. UNCHANGED <<takesRequests, prod, agentVars, hand, stream>>
    BY <1>4 DEF Subscribe, producer, consumer
  <2>2. requests' = requests \/ takesRequests
    BY <1>4 DEF Subscribe
  <2> QED BY <2>1, <2>2 DEF agentVars, stream, ClosingInv, Closing
<1>5. ASSUME NEW o \in Owners, Enter(o) PROVE ClosingInv'
  <2>1. UNCHANGED <<feed, prod, agentVars, hand, stream>>
    BY <1>5 DEF Enter, producer, consumer
  <2> QED BY <2>1, <1>1
<1>6. ASSUME NEW w \in Watchers, Greet(w) PROVE ClosingInv'
  <2>1. UNCHANGED <<feed, prod, agentVars, hand, stream>>
    BY <1>6 DEF Greet, producer, consumer
  <2> QED BY <2>1, <1>1
<1>7. ASSUME NEW k \in Cancels, NEW announces \in BOOLEAN, CancelAgent(k, announces)
      PROVE  ClosingInv'
  <2>1. UNCHANGED <<hand, stream>>
    BY <1>7 DEF CancelAgent, consumer
  <2>2. CASE finished
    <3>1. UNCHANGED <<takesRequests, requests, prod, agentQ, agentOpen>>
      BY <1>7, <2>2 DEF CancelAgent, TypeOK, AgentVarsOK
    <3> QED BY <2>1, <3>1 DEF ClosingInv, Closing, stream
  <2>3. CASE ~finished
    <3>1. /\ takesRequests' = FALSE /\ requests' = <<>>
          /\ prod' \in {"closing", "torn", "over"}
          /\ prod = "over" => prod' = "over"
          /\ prod' = "closing" \/ prod \in {"closing", "torn", "over"}
          /\ agentOpen' = (agentOpen /\ prod' # "closing")
          /\ agentQ' = agentQ \/ agentOpen
      BY <1>7, <2>3 DEF CancelAgent
    <3> QED BY <2>1, <3>1 DEF ClosingInv, Closing, stream
  <2> QED BY <2>2, <2>3
<1>8. ASSUME NEW k \in Cancels, CancelEnd(k) PROVE ClosingInv'
  <2>1. UNCHANGED <<feed, prod, agentVars, hand, stream>>
    BY <1>8 DEF CancelEnd, producer, consumer
  <2> QED BY <2>1, <1>1
<1>9. CASE TakeRequest
  BY <1>9, <1>0 DEF TakeRequest, agentVars, consumer, stream, ClosingInv, Closing
<1>10. CASE Begin \/ Return \/ Raise \/ \E kind \in Kinds : Emit(kind)
  <2>1. /\ UNCHANGED <<feed, agentOpen, hand, stream>> /\ prod \notin {"closing", "torn", "over"}
        /\ prod' \in {"idle", "runs", "fails"}
    BY <1>10 DEF Begin, Return, Raise, Emit, agentVars, producer, consumer
  <2> QED BY <2>1 DEF ClosingInv, Closing, feed, stream
<1>11. CASE Fail
  BY <1>11 DEF Fail, consumer, stream, ClosingInv, Closing
<1>12. CASE Stop
  BY <1>12 DEF Stop, feed, consumer, stream, ClosingInv, Closing
<1>13. CASE Closed
  BY <1>13 DEF Closed, feed, consumer, agentVars, ClosingInv, Closing
<1>14. CASE Consume
  <2>1. /\ UNCHANGED <<prod, agentOpen, stream>> /\ agentQ # <<>>
        /\ UNCHANGED feed \/ (requests' = <<>> /\ takesRequests' = FALSE)
    BY <1>14 DEF Consume, ConsumesUpdate, ConsumesOther, Finish
  <2> QED BY <2>1 DEF ClosingInv, Closing, feed, stream
<1>15. CASE Publish
  <2>1. /\ UNCHANGED <<prod, feed, agentVars, subsOpen>> /\ hand' = Nobody
    BY <1>15 DEF Publish, producer
  <2> QED BY <2>1 DEF ClosingInv, Closing, feed, agentVars
<1>16. CASE ConsumeEnd
  <2>1. /\ UNCHANGED <<prod, agentVars, hand, stream>>
        /\ requests' = <<>> /\ takesRequests' = FALSE
    BY <1>16 DEF ConsumeEnd, Finish, producer
  <2> QED BY <2>1 DEF ClosingInv, Closing, agentVars, stream
<1>17. CASE \/ Snapshot \/ Forget \/ UNCHANGED vars
            \/ \E u \in Urls : Post(u) \/ CreateConfig(u)
            \/ \E i \in Ids : DeleteConfig(i)
  <2>1. UNCHANGED <<feed, prod, agentVars, hand, stream>>
    BY <1>17 DEF Snapshot, Forget, Post, CreateConfig, DeleteConfig, vars, producer, consumer
  <2> QED BY <2>1, <1>1
<1> QED BY <1>2, <1>3, <1>4, <1>5, <1>6, <1>7, <1>8, <1>9, <1>10, <1>11, <1>12, <1>13, <1>14,
           <1>15, <1>16, <1>17 DEF Next, Runs, Owners

\* Steps that touch neither queues nor producer nor who reads.
Quiet == Settled /\ UNCHANGED <<requests, prod, serving, agentQ, hand, log, subsOpen, raised>>

\* They keep everything.
LEMMA QuietKeeps ==
    ASSUME AnswerInv, TypeOK', ClosingInv', Cancelled => Cancelled', Quiet
    PROVE  AnswerInv'
<1>1. \A n : Ahead(n)' = Ahead(n)
  BY DEF Ahead, Quiet
<1>2. /\ UNCHANGED <<prod, serving, requests, at, raised, hand, log, subsOpen>> /\ Waiting' = Waiting
      /\ Engaged' = Engaged
  BY DEF Quiet, Settled, Waiting, Engaged
<1>3. \A r \in Reqs : Due(r) => Due(r)'
  BY <1>1, <1>2 DEF Due, Ahead
<1>4. \A r \in Reqs : call'[r] \notin Late => call[r] \notin Late
  BY DEF Quiet, Settled
<1>5. OriginInv'
  BY <1>1 DEF AnswerInv, OriginInv
<1>6. OnceInv'
  <2>1. /\ raised \in Reqs \cup {Nobody} /\ requests \in Seq(Reqs) /\ (Engaged => serving \in Reqs)
    BY DEF AnswerInv, TypeOK, AgentOK, FeedOK, ProducerOK, Engaged
  <2> QED BY <2>1, <1>1, <1>2, <1>4, OnceKeeps DEF AnswerInv
<1>7. \A r \in Reqs : raised' = r =>
          raised = r /\ (prod = "fails" => prod' = "fails" \/ <<"error", r>> \in Ahead(at[r])')
  BY <1>2
<1> QED BY <1>1, <1>2, <1>3, <1>5, <1>6, <1>7, SettledKeeps DEF AnswerInv, Quiet

\* The calls of others, edits of configurations and what the consumer does for endpoints.
LEMMA QuietSteps ==
    ASSUME TypeOK,
           \/ \E r \in Reqs : Configure(r) \/ Look(r)
           \/ \E o \in Owners : Enter(o)
           \/ \E w \in Watchers : Greet(w)
           \/ \E c \in Cancels : CancelEnd(c)
           \/ Snapshot \/ Forget \/ UNCHANGED vars
           \/ \E u \in Urls : Post(u) \/ CreateConfig(u)
           \/ \E i \in Ids : DeleteConfig(i)
    PROVE  Quiet
<1>0. call \in [Owners -> Places] /\ Reqs \cap Watchers = {} /\ (Reqs \cup Watchers) \cap Cancels = {}
  BY HandlerAssumption DEF TypeOK, CallsOK
<1> DEFINE Rest == UNCHANGED <<requests, prod, serving, agentQ, hand, log, subsOpen, raised>>
<1>1. ASSUME NEW r \in Reqs, (Configure(r) \/ Look(r)) PROVE Quiet
  <2>1. Rest /\ UNCHANGED <<mode, answer, at>>
    BY <1>1 DEF Configure, Look, feed, producer, agentVars, consumer, stream, agent, readers
  <2>2. \A q \in Reqs : call'[q] = call[q] \/ {call[q], call'[q]} \cap Late = {}
    <3>1. call[r] \in {"idle", "looked"}
      BY <1>1 DEF Configure, Look
    <3>2. \E s \in {"looked", "set", "refused"} : call' = [call EXCEPT ![r] = s]
      BY <1>1 DEF Configure, Look, Becomes
    <3> QED BY <1>0, <3>1, <3>2 DEF Owners, Late
  <2> QED BY <2>1, <2>2 DEF Quiet, Settled
<1>2. ASSUME NEW o \in Owners, Enter(o) PROVE Quiet
  <2>1. Rest /\ UNCHANGED <<mode, answer, at>>
    BY <1>2 DEF Enter, feed, producer, agentVars, consumer, stream, agent, readers
  <2>2. \A q \in Reqs : call'[q] = call[q] \/ {call[q], call'[q]} \cap Late = {}
    <3>1. call[o] \in {"idle", "set"}
      BY <1>2 DEF Enter
    <3>2. \E s \in {"entered", "refused"} : call' = [call EXCEPT ![o] = s]
      BY <1>2 DEF Enter, Becomes
    <3> QED BY <1>0, <3>1, <3>2 DEF Owners, Late
  <2> QED BY <2>1, <2>2 DEF Quiet, Settled
<1>3. ASSUME NEW w \in Watchers, Greet(w) PROVE Quiet
  <2>1. Rest /\ UNCHANGED <<mode, answer, at>>
    BY <1>3 DEF Greet, feed, producer, agentVars, consumer, stream, agent
  <2>2. \A q \in Reqs : call'[q] = call[q]
    BY <1>0, <1>3 DEF Greet, Becomes, Owners
  <2> QED BY <2>1, <2>2 DEF Quiet, Settled
<1>4. ASSUME NEW c \in Cancels, CancelEnd(c) PROVE Quiet
  <2>1. Rest /\ UNCHANGED <<mode, answer, at>>
    BY <1>4 DEF CancelEnd, feed, producer, agentVars, consumer, stream, agent, readers
  <2>2. \A q \in Reqs : call'[q] = call[q]
    BY <1>0, <1>4 DEF CancelEnd, Becomes, Owners
  <2> QED BY <2>1, <2>2 DEF Quiet, Settled
<1>5. CASE \/ Snapshot \/ Forget \/ UNCHANGED vars
           \/ \E u \in Urls : Post(u) \/ CreateConfig(u)
           \/ \E i \in Ids : DeleteConfig(i)
  <2>1. Rest /\ UNCHANGED <<mode, call, answer, at>>
    BY <1>5 DEF Snapshot, Forget, vars, Post, CreateConfig, DeleteConfig, calls, feed, producer,
                agentVars, consumer, stream, agent, readers
  <2> QED BY <2>1 DEF Quiet, Settled
<1> QED BY <1>1, <1>2, <1>3, <1>4, <1>5

\* The steps of producer and consumer.
LEMMA NextMachine ==
    ASSUME AnswerInv, TypeOK', ClosingInv', Cancelled => Cancelled',
           \/ TakeRequest \/ Begin \/ Return \/ Raise \/ Fail \/ Stop \/ Closed
           \/ Consume \/ Publish \/ ConsumeEnd
           \/ \E kind \in Kinds : Emit(kind)
    PROVE  AnswerInv'
<1>0. /\ TypeOK /\ TapInv /\ ClosingInv /\ OriginInv /\ OnceInv
      /\ requests \in Seq(Reqs) /\ raised \in Reqs \cup {Nobody} /\ (Engaged => serving \in Reqs)
      /\ AgentVarsOK /\ StreamOK
      /\ prod \in {"idle", "holds", "runs", "fails", "closing", "torn", "over"}
      /\ \A r \in Reqs : at[r] \in 0..Len(log)
  BY DEF AnswerInv, TypeOK, AgentOK, FeedOK, ProducerOK, Engaged, TapInv, Readers, ReadersOK, StreamOK
<1>c. UNCHANGED <<mode, call, answer, at>>
  BY DEF TakeRequest, Begin, Return, Raise, Fail, Stop, Closed, Consume, Publish, ConsumeEnd, Emit,
         calls, readers
<1>s. Settled
  BY <1>c DEF Settled
<1>l. \A r \in Reqs : call'[r] \notin Late => call[r] \notin Late
  BY <1>c
\* What a step has to show.
<1> DEFINE Keeps ==
        /\ log' = log \/ \E e \in Entry : log' = Append(log, e)
        /\ \A n \in 0..Len(log) : Ahead(n) \subseteq Ahead(n)'
        /\ subsOpen' => subsOpen
        /\ \A r \in Reqs : ~Cancelled' /\ call[r] = "reading" /\ Due(r) => Due(r)'
        /\ \A r \in Reqs : ~Cancelled' /\ raised' = r =>
               \/ raised = r /\ (prod = "fails" => prod' = "fails" \/ <<"error", r>> \in Ahead(at[r])')
               \/ prod' = "fails" /\ raised' = serving /\ prod = "runs"
<1>q. Keeps /\ OriginInv' /\ OnceInv' => AnswerInv'
  BY <1>s, SettledKeeps DEF AnswerInv
<1> HIDE DEF Keeps
<1>1. CASE TakeRequest
  <2>1. /\ requests # <<>> /\ prod = "idle" /\ prod' = "holds" /\ serving' = Head(requests)
        /\ requests' = Tail(requests) /\ UNCHANGED <<log, hand, agentQ, subsOpen, raised>>
    BY <1>1 DEF TakeRequest, agentVars, consumer, stream, agent
  <2>2. /\ Len(requests) >= 1 /\ Len(requests) \in Nat /\ serving' = requests[1]
        /\ Len(requests') = Len(requests) - 1
        /\ \A i \in 1..Len(requests') : requests'[i] = requests[i + 1]
    BY <2>1, <1>0
  <2>3. /\ \A r \in Waiting : r \in Waiting' \/ r = serving'
        /\ \A r \in Waiting' : r \in Waiting
        /\ serving' \in Waiting
    <3>1. \A i \in 1..Len(requests) : i = 1 \/ (i - 1 \in 1..Len(requests') /\ requests[i] = requests'[i - 1])
      BY <2>2
    <3>2. \A i \in 1..Len(requests') : i + 1 \in 1..Len(requests)
      BY <2>2
    <3> QED BY <2>2, <3>1, <3>2 DEF Waiting
  <2>4. \A n : Ahead(n)' = Ahead(n)
    BY <2>1 DEF Ahead
  <2>5. Keeps
    <3>1. \A r \in Reqs : Due(r) => Due(r)'
      BY <2>1, <2>3, <1>c DEF Due, Engaged, Ahead
    <3> QED BY <2>1, <2>4, <3>1 DEF Keeps
  <2>6. OriginInv'
    BY <2>4, <1>0 DEF OriginInv, AnswerInv
  <2>7. OnceInv'
    <3>1. serving' \notin Waiting'
      <4> SUFFICES ASSUME NEW i \in 1..Len(requests'), requests'[i] = serving' PROVE FALSE
        BY DEF Waiting
      <4>1. requests[i + 1] = requests[1] /\ i + 1 \in 1..Len(requests) /\ 1 \in 1..Len(requests)
        BY <2>2
      <4>2. i + 1 = 1
        BY <4>1, <1>0 DEF OnceInv
      <4> QED BY <4>2
    <3>2. \A i, j \in 1..Len(requests') : requests'[i] = requests'[j] => i = j
      <4> SUFFICES ASSUME NEW i \in 1..Len(requests'), NEW j \in 1..Len(requests'),
                          requests'[i] = requests'[j]
                   PROVE  i = j
        OBVIOUS
      <4>1. requests[i + 1] = requests[j + 1] /\ i + 1 \in 1..Len(requests) /\ j + 1 \in 1..Len(requests)
        BY <2>2
      <4>2. i + 1 = j + 1
        BY <4>1, <1>0 DEF OnceInv
      <4> QED BY <4>2
    <3>3. raised = Nobody
      BY <2>1, <1>0 DEF OnceInv
    <3>4. \A r \in Reqs : call'[r] \notin Late => ~Begun(r)'
      <4> SUFFICES ASSUME NEW r \in Reqs, call[r] \notin Late PROVE ~Begun(r)'
        BY <1>c
      <4>1. r \notin Waiting /\ <<"returned", r>> \notin Ahead(0)
        BY <1>0 DEF OnceInv, Begun
      <4> QED BY <4>1, <2>3, <2>4 DEF Begun
    <3>5. /\ \A r \in Waiting' : <<"returned", r>> \notin Ahead(0)'
          /\ <<"returned", serving'>> \notin Ahead(0)'
      BY <2>3, <2>4, <1>0 DEF OnceInv
    <3> QED BY <2>1, <3>1, <3>2, <3>3, <3>4, <3>5 DEF OnceInv
  <2> QED BY <1>q, <2>5, <2>6, <2>7
<1>2. CASE Begin \/ \E kind \in Kinds : Emit(kind)
  <2>1. /\ UNCHANGED <<log, hand, subsOpen, raised, requests, serving>>
        /\ prod \in {"holds", "runs"} /\ prod' = "runs"
    BY <1>2 DEF Begin, Emit, stream, consumer, producer, agent, feed
  <2>2. PICK k \in Kinds \cup {"started"} : agentQ' = Append(agentQ, [kind |-> k, by |-> serving, no |-> 0])
    BY <1>2 DEF Begin, Emit
  <2>3. serving \in Reqs /\ serving \in Owners
    BY <2>1, <1>0 DEF Engaged, Owners
  <2>4. k \in Kinds \cup Markers \cup {"canceled"} /\ k # "returned"
    BY HandlerAssumption DEF Markers
  <2>5. \A n : Ahead(n)' = Ahead(n) \cup {<<k, serving>>}
    BY <2>1, <2>2, <2>3, <2>4, <1>0, AheadPut
  <2>6. Keeps
    <3>1. \A r \in Reqs : Due(r) => Due(r)'
      <4> SUFFICES ASSUME NEW r \in Reqs, Due(r) PROVE Due(r)'
        OBVIOUS
      <4>1. PICK n \in 0..Len(log) : n = at[r]
        BY <1>0
      <4>2. Ahead(at[r]) \subseteq Ahead(at[r])'
        BY <4>1, <2>5, <1>c, AheadAt
      <4>3. Waiting' = Waiting /\ Engaged /\ Engaged' /\ serving' = serving
        BY <2>1 DEF Engaged, Waiting
      <4>4. \A m : Decisive(r, m) => Decisive(r, m)'
        BY DEF Decisive
      <4> QED BY <4>2, <4>3, <4>4 DEF Due
    <3> QED BY <2>1, <2>5, <3>1 DEF Keeps
  <2>7. OriginInv'
    BY <2>3, <2>5, <1>0 DEF OriginInv, AnswerInv
  <2>8. OnceInv'
    <3>1. \A r \in Reqs : <<"returned", r>> \in Ahead(0)' => <<"returned", r>> \in Ahead(0)
      BY <2>4, <2>5
    <3>2. Engaged' = Engaged /\ Waiting' = Waiting
      BY <2>1 DEF Engaged, Waiting
    <3>3. raised = Nobody
      BY <2>1, <1>0 DEF OnceInv
    <3> QED BY <2>1, <3>1, <3>2, <3>3, <1>0, <1>l DEF OnceInv, Begun, Waiting
  <2> QED BY <1>q, <2>6, <2>7, <2>8
<1>3. CASE Return
  <2>1. /\ UNCHANGED <<log, hand, subsOpen, raised, requests, serving>>
        /\ prod = "runs" /\ prod' = "idle"
        /\ agentQ' = Append(agentQ, [kind |-> "returned", by |-> serving, no |-> 0])
    BY <1>3 DEF Return, stream, consumer, agent, feed
  <2>2. serving \in Reqs /\ serving \in Owners
    BY <2>1, <1>0 DEF Engaged, Owners
  <2>3. \A n : Ahead(n)' = Ahead(n) \cup {<<"returned", serving>>}
    BY <2>1, <2>2, <1>0, AheadPut DEF Markers
  <2>4. Keeps
    <3>1. \A r \in Reqs : Due(r) => Due(r)'
      <4> SUFFICES ASSUME NEW r \in Reqs, Due(r) PROVE Due(r)'
        OBVIOUS
      <4>1. PICK n \in 0..Len(log) : n = at[r]
        BY <1>0
      <4>2. Ahead(at[r]) \subseteq Ahead(at[r])' /\ <<"returned", serving>> \in Ahead(at[r])'
        BY <4>1, <2>3, <1>c, AheadAt
      <4>3. Decisive(r, <<"returned", r>>)'
        BY DEF Decisive
      <4>4. Waiting' = Waiting /\ Engaged
        BY <2>1 DEF Engaged, Waiting
      <4>5. \A m : Decisive(r, m) => Decisive(r, m)'
        BY DEF Decisive
      <4> QED BY <4>2, <4>3, <4>4, <4>5 DEF Due
    <3> QED BY <2>1, <2>3, <3>1 DEF Keeps
  <2>5. OriginInv'
    BY <2>2, <2>3, <1>0 DEF OriginInv
  <2>6. OnceInv'
    <3>1. serving \notin Waiting /\ Waiting' = Waiting /\ ~Engaged' /\ Engaged /\ raised = Nobody
      BY <2>1, <1>0 DEF OnceInv, Engaged, Waiting
    <3>2. \A r \in Waiting' : <<"returned", r>> \notin Ahead(0)'
      BY <3>1, <2>3, <1>0 DEF OnceInv
    <3>3. \A r \in Reqs : call'[r] \notin Late => ~Begun(r)'
      <4> SUFFICES ASSUME NEW r \in Reqs, call[r] \notin Late PROVE ~Begun(r)'
        BY <1>c
      <4>1. r \notin Waiting /\ r # serving /\ <<"returned", r>> \notin Ahead(0)
        BY <1>0, <3>1 DEF OnceInv, Begun
      <4> QED BY <4>1, <3>1, <2>3 DEF Begun
    <3>4. \A i, j \in 1..Len(requests') : requests'[i] = requests'[j] => i = j
      BY <2>1, <1>0 DEF OnceInv
    <3> QED BY <2>1, <3>1, <3>2, <3>3, <3>4 DEF OnceInv
  <2> QED BY <1>q, <2>4, <2>5, <2>6
<1>4. CASE Raise
  <2>1. /\ UNCHANGED <<log, hand, agentQ, subsOpen, requests, serving>>
        /\ prod = "runs" /\ prod' = "fails" /\ raised' = serving
    BY <1>4 DEF Raise, stream, consumer, agentVars, feed
  <2>2. \A n : Ahead(n)' = Ahead(n)
    BY <2>1 DEF Ahead
  <2>3. Keeps
    <3>1. \A r \in Reqs : Due(r) => Due(r)'
      BY <2>1, <1>c DEF Due, Engaged, Waiting, Ahead
    <3> QED BY <2>1, <2>2, <3>1 DEF Keeps
  <2>4. OriginInv'
    BY <2>2, <1>0 DEF OriginInv
  <2>5. OnceInv'
    <3>1. Engaged /\ Engaged' /\ Waiting' = Waiting
      BY <2>1 DEF Engaged, Waiting
    <3> QED BY <3>1, <2>1, <2>2, <1>0, <1>l DEF OnceInv, Begun
  <2> QED BY <1>q, <2>3, <2>4, <2>5
<1>5. CASE Fail
  <2>1. /\ UNCHANGED <<log, hand, subsOpen, raised, serving>> /\ requests' = <<>>
        /\ prod = "fails" /\ prod' = "closing"
        /\ agentQ' = Append(agentQ, [kind |-> "error", by |-> serving, no |-> 0])
    BY <1>5 DEF Fail, stream, consumer, agent
  <2>2. serving \in Reqs /\ serving \in Owners /\ raised = serving
    BY <2>1, <1>0 DEF Engaged, Owners, OnceInv
  <2>3. \A n : Ahead(n)' = Ahead(n) \cup {<<"error", serving>>}
    BY <2>1, <2>2, <1>0, AheadPut DEF Markers
  <2>4. \A r \in Reqs : <<"error", serving>> \in Ahead(at[r])'
    <3> SUFFICES ASSUME NEW r \in Reqs PROVE <<"error", serving>> \in Ahead(at[r])'
      OBVIOUS
    <3>1. PICK n \in 0..Len(log) : n = at[r]
      BY <1>0
    <3> QED BY <3>1, <2>3, <1>c, AheadAt
  <2>5. Keeps
    <3>1. \A r \in Reqs : Due(r)'
      BY <2>4 DEF Due, Decisive
    <3> QED BY <2>1, <2>2, <2>3, <2>4, <3>1 DEF Keeps
  <2>6. OriginInv'
    BY <2>2, <2>3, <1>0 DEF OriginInv
  <2>7. OnceInv'
    BY <2>1, <2>3, <1>0, <1>l, OnceKeeps
  <2> QED BY <1>q, <2>5, <2>6, <2>7
<1>6. CASE Stop \/ Closed \/ ConsumeEnd
  <2>1. /\ UNCHANGED <<log, hand, agentQ, raised, serving>> /\ requests = <<>> /\ requests' = <<>>
        /\ prod' = prod \/ prod' \in {"closing", "torn", "over"}
        /\ prod' # prod => prod \in {"idle", "closing"}
        /\ subsOpen' => subsOpen
    BY <1>6, <1>0 DEF Stop, Closed, ConsumeEnd, Finish, ClosingInv, Closing, stream, consumer, agent,
                      agentVars, feed, producer
  <2>2. \A n : Ahead(n)' = Ahead(n)
    BY <2>1 DEF Ahead
  <2>3. Keeps
    <3>1. \A r \in Reqs : Due(r) => Due(r)'
      BY <2>1, <1>c DEF Due, Engaged, Waiting, Ahead
    <3> QED BY <2>1, <2>2, <3>1 DEF Keeps
  <2>4. OriginInv'
    BY <2>2, <1>0 DEF OriginInv
  <2>5. OnceInv'
    BY <2>1, <2>2, <1>0, <1>l, OnceKeeps
  <2> QED BY <1>q, <2>3, <2>4, <2>5
<1>7. CASE Consume
  <2>1. UNCHANGED <<log, subsOpen, raised, serving, prod>>
    BY <1>7 DEF Consume, stream, agent
  <2>2. \A n : Ahead(n)' = Ahead(n)
    BY <1>7, <1>0, AheadConsume
  <2>3. \/ requests' = requests
        \/ requests' = <<>> /\ hand'.kind \in Terminal /\ hand' \in Entry
    <3>1. Head(agentQ) \in Entry
      BY <1>7, <1>0 DEF Consume, AgentVarsOK
    <3>2. CASE ConsumesUpdate(Head(agentQ)) /\ Head(agentQ).kind \in Terminal
      <4>1. requests' = <<>> /\ hand'.kind \in Terminal /\ cons' = "push"
        BY <3>1, <3>2 DEF ConsumesUpdate, Finish, Entry
      <4> QED BY <4>1 DEF TypeOK, ConsumerOK
    <3> QED BY <1>7, <3>2 DEF Consume, ConsumesUpdate, ConsumesOther, feed
  <2>4. Keeps
    <3>1. \A r \in Reqs : Due(r) => Due(r)'
      <4> SUFFICES ASSUME NEW r \in Reqs, Due(r) PROVE Due(r)'
        OBVIOUS
      <4>1. PICK n \in 0..Len(log) : n = at[r]
        BY <1>0
      <4>2. Ahead(at[r])' = Ahead(at[r])
        BY <4>1, <2>2, <1>c, AheadAt
      <4>3. CASE requests' = requests
        BY <4>2, <4>3, <2>1 DEF Due, Engaged, Waiting
      <4>4. CASE hand'.kind \in Terminal /\ hand' \in Entry
        <5>1. Mark(hand') \in Ahead(at[r])' /\ Mark(hand')[1] \in Terminal
          BY <4>4, HandAssumption DEF Ahead, Mark
        <5> QED BY <5>1 DEF Due, Decisive
      <4> QED BY <2>3, <4>3, <4>4
    <3> QED BY <2>1, <2>2, <3>1 DEF Keeps
  <2>5. OriginInv'
    BY <2>2, <1>0 DEF OriginInv
  <2>6. OnceInv'
    BY <2>1, <2>2, <2>3, <1>0, <1>l, OnceKeeps
  <2> QED BY <1>q, <2>4, <2>5, <2>6
<1>8. CASE Publish
  <2>1. UNCHANGED <<subsOpen, raised, requests, serving, prod>> /\ log' = Append(log, hand)
    BY <1>8 DEF Publish, feed, agent, producer
  <2>2. \A n \in 0..Len(log) : Ahead(n)' = Ahead(n)
    BY <1>8, <1>0, AheadPublish
  <2>3. hand \in Entry
    BY <1>8, <1>0 DEF Publish, TypeOK, ConsumerOK
  <2>4. Keeps
    <3>1. \A r \in Reqs : Due(r) => Due(r)'
      <4> SUFFICES ASSUME NEW r \in Reqs, Due(r) PROVE Due(r)'
        OBVIOUS
      <4>1. PICK n \in 0..Len(log) : n = at[r]
        BY <1>0
      <4>2. Ahead(at[r])' = Ahead(at[r])
        BY <4>1, <2>2, <1>c, AheadAt
      <4> QED BY <4>2, <2>1 DEF Due, Engaged, Waiting
    <3> QED BY <2>1, <2>2, <2>3, <3>1 DEF Keeps
  <2>5. Ahead(0)' = Ahead(0)
    BY <2>2, <1>0 DEF StreamOK
  <2>6. OriginInv'
    BY <2>5, <1>0 DEF OriginInv
  <2>7. OnceInv'
    BY <2>1, <2>5, <1>0, <1>l, OnceKeeps
  <2> QED BY <1>q, <2>4, <2>6, <2>7
<1> QED BY <1>1, <1>2, <1>3, <1>4, <1>5, <1>6, <1>7, <1>8

\* cancel(): from now on nothing is promised about answers.
LEMMA NextCancelled ==
    ASSUME AnswerInv, TypeOK', ClosingInv', NEW c \in Cancels, NEW announces \in BOOLEAN,
           CancelAgent(c, announces)
    PROVE  AnswerInv'
<1>0. /\ TypeOK /\ TapInv /\ ClosingInv /\ OriginInv /\ OnceInv
      /\ requests \in Seq(Reqs) /\ raised \in Reqs \cup {Nobody} /\ (Engaged => serving \in Reqs)
      /\ AgentVarsOK /\ call \in [Owners -> Places] /\ c \in Owners /\ c \notin Reqs
  BY HandlerAssumption DEF AnswerInv, TypeOK, AgentOK, FeedOK, ProducerOK, Engaged, CallsOK, Owners
<1>1. call' = [call EXCEPT ![c] = "waits"] /\ UNCHANGED <<at, log, hand, serving, raised>>
  BY DEF CancelAgent, Becomes, readers, consumer, stream
<1>2. Cancelled'
  BY <1>0, <1>1 DEF Cancelled
<1>3. TapInv'
  BY <1>0, <1>1 DEF TapInv
<1>4. OriginInv'
  BY <1>2 DEF OriginInv
<1>5. OnceInv'
  <2>1. /\ requests' \in {requests, <<>>}
        /\ prod' = prod \/ prod' \in {"closing", "torn", "over"}
        /\ agentQ' = agentQ \/ agentQ' = Append(agentQ, [kind |-> "canceled", by |-> c, no |-> 0])
    BY DEF CancelAgent
  <2>2. \A r \in Reqs : call'[r] \notin Late => call[r] \notin Late
    BY <1>0, <1>1 DEF Owners
  <2>3. \A r \in Reqs : <<"returned", r>> \in Ahead(0)' => <<"returned", r>> \in Ahead(0)
    <3>1. CASE agentQ' = agentQ
      BY <1>1, <3>1, AheadSame
    <3>2. CASE agentQ' = Append(agentQ, [kind |-> "canceled", by |-> c, no |-> 0])
      <4>1. Ahead(0)' = Ahead(0) \cup {<<"canceled", c>>}
        BY <1>0, <1>1, <3>2, AheadPut
      <4> QED BY <4>1
    <3> QED BY <2>1, <3>1, <3>2
  <2> QED BY <1>0, <1>1, <2>1, <2>2, <2>3, OnceKeeps
<1>6. AwaitInv' /\ ToldInv' /\ BlockingAnswers' /\ FailureIsTold'
  BY <1>2 DEF AwaitInv, ToldInv, BlockingAnswers, FailureIsTold
<1> QED BY <1>3, <1>4, <1>5, <1>6 DEF AnswerInv

\* What the invariant says of one request.
Sound(r) ==
    ~Cancelled =>
        /\ mode[r] = "send" =>
             /\ call[r] = "reading" => answer[r] # None \/ Due(r)
             /\ call[r] # "answered" => answer[r] = None \/ answer[r].state \in {"message", "failed"}
             /\ call[r] = "asks" => Returned(r)
             /\ call[r] = "answered"
                  => answer[r].state \in Terminal \cup Interrupted \cup {"message"} \/ Returned(r)
        /\ raised = r /\ call[r] = "reading" => prod = "fails" \/ <<"error", r>> \in Ahead(at[r])
        /\ call[r] = "asks" => <<"returned", r>> \in Ahead(0) \/ mode[r] = "poll"
        /\ call[r] = "answered" /\ mode[r] # "poll" =>
             \/ <<"returned", r>> \in Ahead(0)
             \/ ~subsOpen
             \/ mode[r] = "send" /\ answer[r].by \in Reqs /\ answer[r].state # "failed"
        /\ call[r] = "answered" /\ raised = r
             => mode[r] = "poll" \/ (mode[r] = "send" /\ answer[r].by \in Reqs
                                     /\ answer[r].state # "failed")

\* That is the invariant.
LEMMA SoundForAll ==
    (\A r \in Reqs : Sound(r)) <=> AwaitInv /\ ToldInv /\ BlockingAnswers /\ FailureIsTold
<1>1. ASSUME \A r \in Reqs : Sound(r)
      PROVE  AwaitInv /\ ToldInv /\ BlockingAnswers /\ FailureIsTold
  <2>1. AwaitInv
    BY <1>1 DEF Sound, AwaitInv
  <2>2. ToldInv
    BY <1>1 DEF Sound, ToldInv
  <2>3. BlockingAnswers
    BY <1>1 DEF Sound, BlockingAnswers
  <2>4. FailureIsTold
    BY <1>1 DEF Sound, FailureIsTold
  <2> QED BY <2>1, <2>2, <2>3, <2>4
<1>2. ASSUME AwaitInv, ToldInv, BlockingAnswers, FailureIsTold, NEW r \in Reqs PROVE Sound(r)
  BY <1>2 DEF Sound, AwaitInv, ToldInv, BlockingAnswers, FailureIsTold
<1> QED BY <1>1, <1>2

\* A step of one subscriber says nothing about the others.
LEMMA ReaderKeeps ==
    ASSUME AnswerInv, TypeOK', ClosingInv', Cancelled' = Cancelled, NEW o \in Readers,
           UNCHANGED <<mode, requests, prod, serving, agentQ, hand, log, subsOpen, raised>>,
           at'[o] <= Len(log),
           \A p \in Readers \ {o} : at'[p] = at[p] /\ call'[p] = call[p],
           \A r \in Reqs \ {o} : answer'[r] = answer[r],
           o \in Reqs => {call[o], call'[o]} \subseteq Late /\ Sound(o)'
    PROVE  AnswerInv'
<1>1. \A n : Ahead(n)' = Ahead(n)
  BY DEF Ahead
<1>2. Waiting' = Waiting /\ Engaged' = Engaged /\ (\A r : Returned(r)' = Returned(r))
  BY DEF Waiting, Engaged, Returned
<1>3. \A r \in Reqs : Sound(r)'
  <2> SUFFICES ASSUME NEW r \in Reqs, r # o PROVE Sound(r)'
    OBVIOUS
  <2>1. at'[r] = at[r] /\ call'[r] = call[r] /\ answer'[r] = answer[r]
    BY DEF Readers
  <2>2. Ahead(at[r])' = Ahead(at[r]) /\ Ahead(0)' = Ahead(0)
    BY <2>1 DEF Ahead
  <2>3. Due(r)' = Due(r)
    BY <2>1, <2>2, <1>2 DEF Due
  <2>4. Sound(r)
    BY SoundForAll DEF AnswerInv
  <2> QED BY <2>1, <2>2, <2>3, <2>4, <1>2 DEF Sound
<1>4. TapInv'
  BY DEF AnswerInv, TapInv
<1>5. OriginInv'
  BY <1>1 DEF AnswerInv, OriginInv
<1>6. OnceInv'
  <2>1. /\ raised \in Reqs \cup {Nobody} /\ requests \in Seq(Reqs) /\ (Engaged => serving \in Reqs)
    BY DEF AnswerInv, TypeOK, AgentOK, FeedOK, ProducerOK, Engaged
  <2>2. \A r \in Reqs : call'[r] \notin Late => call[r] \notin Late
    BY DEF Readers
  <2> QED BY <2>1, <1>1, <2>2, OnceKeeps DEF AnswerInv
<1>7. AwaitInv' /\ ToldInv' /\ BlockingAnswers' /\ FailureIsTold'
  <2>1. ((\A r \in Reqs : Sound(r)) => AwaitInv /\ ToldInv /\ BlockingAnswers /\ FailureIsTold)'
    BY SoundForAll, PTL
  <2> QED BY <1>3, <2>1
<1> QED BY <1>4, <1>5, <1>6, <1>7 DEF AnswerInv

\* Subscribe, read, and the answers.
LEMMA NextSubscribe ==
    ASSUME AnswerInv, TypeOK', ClosingInv', Cancelled' = Cancelled, NEW o \in Readers, Subscribe(o)
    PROVE  AnswerInv'
<1>0. /\ TypeOK /\ TapInv /\ ClosingInv /\ OriginInv /\ OnceInv
      /\ requests \in Seq(Reqs) /\ raised \in Reqs \cup {Nobody} /\ (Engaged => serving \in Reqs)
      /\ call \in [Owners -> Places] /\ at \in [Readers -> Nat] /\ log \in Seq(Entry)
      /\ o \in Owners /\ Reqs \cap Watchers = {}
      /\ prod \in {"idle", "holds", "runs", "fails", "closing", "torn", "over"}
  BY HandlerAssumption DEF AnswerInv, TypeOK, AgentOK, FeedOK, ProducerOK, Engaged, CallsOK, Owners,
                           Readers, ReadersOK, StreamOK
<1>1. /\ UNCHANGED <<mode, answer, prod, serving, agentQ, hand, log, subsOpen, raised, takesRequests>>
      /\ call[o] = "entered"
  BY DEF Subscribe, producer, agentVars, consumer, stream, agent
<1>2. CASE call' = [call EXCEPT ![o] = "refused"] \/ call' = [call EXCEPT ![o] = "broken"]
  <2>1. UNCHANGED <<at, requests>>
    BY <1>0, <1>2 DEF Subscribe, Becomes
  <2>2. \A r \in Reqs : call'[r] = call[r] \/ {call[r], call'[r]} \cap Late = {}
    BY <1>0, <1>1, <1>2 DEF Late, Owners
  <2>3. Quiet
    BY <1>1, <2>1, <2>2 DEF Quiet, Settled
  <2> QED BY <2>3, QuietKeeps
<1>3. CASE /\ takesRequests \/ o \notin Reqs
           /\ \E place \in {n \in {Len(log) - 1, Len(log)} : JoinsAt(n)} : at' = [at EXCEPT ![o] = place]
           /\ requests' = IF o \in Reqs THEN Append(requests, o) ELSE requests
           /\ call' = [call EXCEPT ![o] = IF o \in Reqs THEN "reading" ELSE "greets"]
  <2>1. at'[o] <= Len(log) /\ \A p \in Readers \ {o} : at'[p] = at[p] /\ call'[p] = call[p]
    BY <1>0, <1>3 DEF Readers, Owners
  <2>2. CASE o \notin Reqs
    <3>1. UNCHANGED requests
      BY <1>3, <2>2
    <3> QED BY <1>1, <2>1, <2>2, <3>1, ReaderKeeps
  <2>3. CASE o \in Reqs
    <3>1. \A n : Ahead(n)' = Ahead(n)
      BY <1>1 DEF Ahead
    <3>2. Engaged' = Engaged /\ (\A r : Returned(r)' = Returned(r))
      BY <1>1 DEF Engaged, Returned
    <3>3. /\ Len(requests') = Len(requests) + 1 /\ requests'[Len(requests) + 1] = o
          /\ \A i \in 1..Len(requests) : requests'[i] = requests[i]
          /\ Len(requests) \in Nat
      BY <1>0, <1>3, <2>3
    <3>4. Waiting' = Waiting \cup {o}
      BY <3>3 DEF Waiting
    <3>5. o \notin Waiting /\ ~(Engaged /\ serving = o) /\ <<"returned", o>> \notin Ahead(0)
      BY <1>0, <1>1, <2>3 DEF OnceInv, Begun, Late
    <3>6. raised # o
      <4>1. prod \notin {"closing", "torn", "over"}
        BY <1>0, <1>3, <2>3 DEF ClosingInv, Closing
      <4> QED BY <4>1, <1>0, <2>3, <3>5, HandlerAssumption DEF OnceInv, Engaged
    <3>7. call'[o] = "reading"
      BY <1>0, <1>3, <2>3
    <3>8. \A r \in Reqs : Sound(r)'
      <4> SUFFICES ASSUME NEW r \in Reqs PROVE Sound(r)'
        OBVIOUS
      <4>1. Sound(r)
        BY SoundForAll DEF AnswerInv
      <4>2. CASE r = o
        <5>1. Due(r)'
          BY <4>2, <3>4 DEF Due
        <5> QED BY <4>1, <4>2, <5>1, <3>6, <3>7, <1>1 DEF Sound
      <4>3. CASE r # o
        <5>1. at'[r] = at[r] /\ call'[r] = call[r]
          BY <2>1, <4>3 DEF Readers
        <5>2. Ahead(at[r])' = Ahead(at[r]) /\ Ahead(0)' = Ahead(0)
          BY <5>1, <1>1 DEF Ahead
        <5>3. Due(r) => Due(r)'
          BY <5>1, <5>2, <3>2, <3>4, <1>1 DEF Due
        <5> QED BY <4>1, <5>1, <5>2, <5>3, <3>2, <1>1 DEF Sound
      <4> QED BY <4>2, <4>3
    <3>9. TapInv'
      BY <1>0, <1>1, <2>1 DEF TapInv
    <3>10. OriginInv'
      BY <1>0, <3>1 DEF OriginInv
    <3>11. OnceInv'
      <4>1. \A i, j \in 1..Len(requests') : requests'[i] = requests'[j] => i = j
        <5> SUFFICES ASSUME NEW i \in 1..Len(requests'), NEW j \in 1..Len(requests'),
                            requests'[i] = requests'[j]
                     PROVE  i = j
          OBVIOUS
        <5>1. \A k \in 1..Len(requests) : requests[k] # o
          BY <3>5 DEF Waiting
        <5>2. \A k, l \in 1..Len(requests) : requests[k] = requests[l] => k = l
          BY <1>0 DEF OnceInv
        <5>3. /\ i \in 1..Len(requests) \/ i = Len(requests) + 1
              /\ j \in 1..Len(requests) \/ j = Len(requests) + 1
          BY <3>3
        <5> QED BY <5>1, <5>2, <5>3, <3>3
      <4>2. \A r \in Waiting' : <<"returned", r>> \notin Ahead(0)'
        BY <3>1, <3>4, <3>5, <1>0 DEF OnceInv
      <4>3. Engaged' => serving' \notin Waiting' /\ <<"returned", serving'>> \notin Ahead(0)'
        BY <3>1, <3>2, <3>4, <3>5, <1>0, <1>1 DEF OnceInv
      <4>4. \A r \in Reqs : call'[r] \notin Late => ~Begun(r)'
        <5> SUFFICES ASSUME NEW r \in Reqs, call'[r] \notin Late PROVE ~Begun(r)'
          OBVIOUS
        <5>1. r # o
          BY <3>7 DEF Late
        <5>2. call[r] \notin Late
          BY <5>1, <2>1 DEF Readers
        <5> QED BY <5>1, <5>2, <3>1, <3>2, <3>4, <1>0, <1>1 DEF OnceInv, Begun
      <4> QED BY <4>1, <4>2, <4>3, <4>4, <3>1, <1>0, <1>1 DEF OnceInv
    <3>12. AwaitInv' /\ ToldInv' /\ BlockingAnswers' /\ FailureIsTold'
      <4>1. ((\A r \in Reqs : Sound(r)) => AwaitInv /\ ToldInv /\ BlockingAnswers /\ FailureIsTold)'
        BY SoundForAll, PTL
      <4> QED BY <3>8, <4>1
    <3> QED BY <3>9, <3>10, <3>11, <3>12 DEF AnswerInv
  <2> QED BY <2>2, <2>3
<1> QED BY <1>2, <1>3 DEF Subscribe, Becomes

\* Each entry a subscriber may read, by what its client makes of it.
LEMMA NextRead ==
    ASSUME AnswerInv, TypeOK', ClosingInv', Cancelled' = Cancelled, NEW o \in Readers, Read(o)
    PROVE  AnswerInv'
<1>0. /\ TypeOK /\ TapInv /\ ClosingInv /\ OriginInv /\ OnceInv
      /\ call \in [Owners -> Places] /\ at \in [Readers -> Nat] /\ log \in Seq(Entry)
      /\ answer \in [Reqs -> Result] /\ mode \in [Reqs -> {"send", "poll", "stream"}]
      /\ o \in Owners /\ Nobody \notin Reqs
  BY HandlerAssumption DEF AnswerInv, TypeOK, CallsOK, Owners, Readers, ReadersOK, StreamOK
<1>1. /\ UNCHANGED <<mode, requests, prod, serving, agentQ, hand, log, subsOpen, raised>>
      /\ call[o] = "reading" /\ at[o] < Len(log) /\ at' = [at EXCEPT ![o] = @ + 1]
  BY DEF Read, producer, agentVars, consumer, stream, agent, feed
<1>2. PICK n \in Nat : n = at[o] /\ n < Len(log) /\ n + 1 \in 1..Len(log) /\ at'[o] = n + 1
  BY <1>0, <1>1
<1>3. PICK e \in Entry : e = log[n + 1]
  BY <1>0, <1>2
<1>4. /\ Ahead(n) = Ahead(n + 1) \cup {Mark(e)} /\ Mark(e) \in Ahead(0)
      /\ Ahead(at[o]) = Ahead(n) /\ Ahead(at[o])' = Ahead(n + 1) /\ Ahead(0)' = Ahead(0)
  <2>1. Ahead(n) = Ahead(n + 1) \cup {Mark(e)} /\ Ahead(n) \subseteq Ahead(0)
    BY <1>0, <1>2, <1>3, AheadRead, AheadLater DEF TypeOK
  <2>2. Ahead(at[o]) = Ahead(n) /\ Ahead(at[o])' = Ahead(n + 1) /\ Ahead(0)' = Ahead(0)
    BY <1>1, <1>2 DEF Ahead
  <2> QED BY <2>1, <2>2
<1>5. /\ \A p \in Readers \ {o} : at'[p] = at[p]
      /\ at'[o] <= Len(log)
  BY <1>0, <1>1, <1>2
<1>6. /\ \A p \in Readers \ {o} : call'[p] = call[p]
      /\ \A r \in Reqs \ {o} : answer'[r] = answer[r]
  BY <1>0 DEF Read, Ends, Judge, Answered, Becomes, Readers, Owners
<1>7. CASE o \in Reqs
  <2> DEFINE ends   == e.kind = "returned" /\ e.by = o
             judges == e.kind \notin Markers /\ mode[o] # "stream"
             result == [state |-> IF e.kind = "task" THEN "submitted" ELSE e.kind, by |-> e.by]
  <2>0. /\ Engaged' = Engaged /\ Waiting' = Waiting /\ (\A r : Returned(r)' = Returned(r))
        /\ Sound(o) /\ Cancelled' = Cancelled
    BY <1>1, SoundForAll, <1>7 DEF Engaged, Waiting, Returned, AnswerInv
  <2>k. e.kind \in Kinds \cup Markers \cup {"canceled"} /\ Mark(e) = <<e.kind, e.by>>
    BY DEF Entry, Mark
  <2>l. {call[o], call'[o]} \subseteq Late
    BY <1>0, <1>1 DEF Read, Ends, Judge, Answered, Becomes, Late
  <2>1. CASE e.kind = "error" /\ Becomes(o, "failed") /\ UNCHANGED answer
    <3>1. call'[o] = "failed" /\ answer' = answer
      BY <1>0, <2>1 DEF Becomes
    <3> QED
      <4>1. Sound(o)'
        BY <3>1, <2>0, <1>1 DEF Sound
      <4> QED BY <1>1, <1>5, <1>6, <2>l, <4>1, ReaderKeeps
  <2>2. CASE ends /\ Ends(o)
    <3>1. Returned(o) /\ <<"returned", o>> \in Ahead(0)
      BY <2>2, <2>k, <1>2, <1>3, <1>4 DEF Returned
    <3>2. raised # o
      BY <3>1, <1>0, <1>7 DEF OnceInv
    <3>3. answer' = answer /\ call'[o] \in {"asks", "answered"}
      BY <1>0, <2>2 DEF Ends, Becomes
    <3> QED
      <4>1. Sound(o)'
        BY <3>1, <3>2, <3>3, <2>0, <1>1, <1>4 DEF Sound
      <4> QED BY <1>1, <1>5, <1>6, <2>l, <4>1, ReaderKeeps
  <2>3. CASE judges /\ Judge(o, e)
    <3>1. mode[o] \in {"send", "poll"} /\ e.kind \notin Markers
      BY <2>3, <1>0, <1>7
    <3>2. raised = o /\ ~Cancelled => prod = "fails" \/ <<"error", o>> \in Ahead(n + 1)
      BY <2>0, <2>k, <3>1, <1>1, <1>4 DEF Sound, Markers
    <3>3. ~Cancelled => e.by \in Reqs
      BY <1>0, <1>4, <2>k DEF OriginInv
    <3>4. CASE /\ e.kind = "message" \/ (e.kind = "failed" /\ mode[o] = "send")
               /\ answer' = [answer EXCEPT ![o] = result] /\ UNCHANGED call
      <4>1. answer'[o].state \in {"message", "failed"} /\ answer'[o] # None
        BY <3>4, <1>0, <1>7 DEF None
      <4>2. call'[o] = "reading"
        BY <3>4, <1>1
      <4>3. Sound(o)'
        BY <3>2, <4>1, <4>2, <2>0, <1>1, <1>4 DEF Sound
      <4> QED BY <1>1, <1>5, <1>6, <2>l, <4>3, ReaderKeeps
    <3>5. CASE /\ e.kind # "message" /\ ~(e.kind = "failed" /\ mode[o] = "send")
               /\ mode[o] = "poll" \/ e.kind \in Interrupted \cup Terminal
               /\ Answered(o, result)
      <4>1. call'[o] = "answered" /\ answer'[o] = result
        BY <3>5, <1>0, <1>7 DEF Answered, Becomes
      <4>2. mode[o] = "send" => /\ result.state \in Terminal \cup Interrupted
                                /\ result.state # "failed"
        BY <3>5 DEF Terminal, Interrupted
      <4>3. Sound(o)'
        BY <3>1, <3>3, <4>1, <4>2, <2>0, <1>1 DEF Sound
      <4> QED BY <1>1, <1>5, <1>6, <2>l, <4>3, ReaderKeeps
    <3>6. CASE /\ mode[o] # "poll" /\ e.kind \notin Interrupted \cup Terminal
               /\ UNCHANGED <<call, answer>>
      <4>1. ~Decisive(o, Mark(e))
        BY <3>1, <3>6, <2>k DEF Decisive, Markers
      <4>2. Due(o) => Due(o)'
        BY <4>1, <2>0, <1>1, <1>4 DEF Due
      <4>3. call'[o] = "reading" /\ answer' = answer
        BY <3>6, <1>1
      <4>4. Sound(o)'
        BY <3>2, <4>2, <4>3, <2>0, <1>1, <1>4 DEF Sound
      <4> QED BY <1>1, <1>5, <1>6, <2>l, <4>4, ReaderKeeps
    <3> QED BY <2>3, <3>4, <3>5, <3>6 DEF Judge
  <2>4. CASE e.kind # "error" /\ ~ends /\ ~judges /\ UNCHANGED <<call, answer>>
    <3>1. call'[o] = "reading" /\ answer' = answer
      BY <2>4, <1>1
    <3>2. Mark(e) # <<"error", o>>
      BY <2>4, <2>k
    <3>3. mode[o] = "send" => ~Decisive(o, Mark(e))
      BY <2>4, <2>k DEF Decisive, Markers, Terminal
    <3>4. mode[o] = "send" /\ Due(o) => Due(o)'
      BY <3>3, <2>0, <1>1, <1>4 DEF Due
    <3>5. Sound(o)'
      BY <3>1, <3>2, <3>4, <2>0, <1>1, <1>4 DEF Sound
    <3> QED BY <1>1, <1>5, <1>6, <2>l, <3>5, ReaderKeeps
  <2> QED BY <1>2, <1>3, <1>7, <2>1, <2>2, <2>3, <2>4 DEF Read
<1> QED BY <1>1, <1>5, <1>6, <1>7, ReaderKeeps

\* Where the stream ends without an exception nobody is owed anything.
LEMMA NextReadEnd ==
    ASSUME AnswerInv, TypeOK', ClosingInv', Cancelled' = Cancelled, NEW o \in Readers, ReadEnd(o)
    PROVE  AnswerInv'
<1>0. /\ TypeOK /\ TapInv /\ ClosingInv /\ OriginInv /\ OnceInv
      /\ call \in [Owners -> Places] /\ mode \in [Reqs -> {"send", "poll", "stream"}]
      /\ o \in Owners
  BY HandlerAssumption DEF AnswerInv, TypeOK, CallsOK, Owners, Readers
<1>1. /\ UNCHANGED <<mode, requests, prod, serving, agentQ, hand, log, subsOpen, raised, at, answer>>
      /\ call[o] = "reading" /\ at[o] = Len(log) /\ ~subsOpen
  BY DEF ReadEnd, Ends, producer, agentVars, consumer, stream, agent, feed, readers
<1>2. \A p \in Readers \ {o} : call'[p] = call[p]
  BY <1>0 DEF ReadEnd, Ends, Becomes, Readers, Owners
<1>3. at'[o] <= Len(log)
  BY <1>0, <1>1 DEF TapInv
<1>4. CASE o \in Reqs
  <2>1. call'[o] = IF mode[o] # "stream" /\ answer[o] = None THEN "asks" ELSE "answered"
    BY <1>0, <1>4, HandlerAssumption DEF ReadEnd, Ends, Becomes
  <2>2. Ahead(at[o]) = {}
    <3>1. log \in Seq(Entry) /\ agentQ = <<>> /\ hand = Nobody
      BY <1>0, <1>1 DEF ClosingInv, TypeOK, StreamOK
    <3> QED BY <3>1, <1>1 DEF Ahead
  <2>3. Waiting = {} /\ ~Engaged /\ prod = "over"
    BY <1>0, <1>1 DEF ClosingInv, Closing, Waiting, Engaged
  <2>4. Sound(o)
    BY <1>4, SoundForAll DEF AnswerInv
  <2>5. ~Cancelled => raised # o
    BY <2>2, <2>3, <2>4, <1>1 DEF Sound
  <2>6. ~Cancelled /\ mode[o] = "send" => answer[o] # None /\ answer[o].state \in {"message", "failed"}
    BY <2>2, <2>3, <2>4, <1>1 DEF Sound, Due
  <2>7. Sound(o)'
    <3> SUFFICES ASSUME ~Cancelled PROVE Sound(o)'
      BY DEF Sound
    <3>1. CASE mode[o] = "send"
      BY <3>1, <2>1, <2>5, <2>6, <1>1 DEF Sound, Terminal
    <3>2. CASE mode[o] = "stream"
      BY <3>2, <2>1, <2>5, <1>1 DEF Sound
    <3>3. CASE mode[o] = "poll"
      BY <3>3, <2>1, <2>5, <1>1 DEF Sound
    <3> QED BY <3>1, <3>2, <3>3, <1>0, <1>4
  <2>8. {call[o], call'[o]} \subseteq Late
    BY <1>1, <2>1 DEF Late
  <2> QED BY <1>1, <1>2, <1>3, <2>7, <2>8, ReaderKeeps
<1> QED BY <1>1, <1>2, <1>3, <1>4, ReaderKeeps

\* A client that asks for the stored task has seen its request return.
LEMMA NextAsk ==
    ASSUME AnswerInv, TypeOK', ClosingInv', Cancelled' = Cancelled, NEW r \in Reqs, Ask(r)
    PROVE  AnswerInv'
<1>0. /\ TypeOK /\ TapInv /\ OnceInv
      /\ call \in [Owners -> Places] /\ answer \in [Reqs -> Result]
      /\ r \in Owners /\ r \in Readers
  BY DEF AnswerInv, TypeOK, CallsOK, Owners, Readers
<1>1. /\ UNCHANGED <<mode, requests, prod, serving, agentQ, hand, log, subsOpen, raised, at>>
      /\ call[r] = "asks" /\ call' = [call EXCEPT ![r] = "answered"]
      /\ answer' = [answer EXCEPT ![r] = [state |-> row.state, by |-> Nobody]]
  BY DEF Ask, Answered, Becomes, producer, agentVars, consumer, stream, agent, feed, readers
<1>2. /\ \A p \in Readers \ {r} : call'[p] = call[p]
      /\ \A q \in Reqs \ {r} : answer'[q] = answer[q]
      /\ at'[r] <= Len(log) /\ call'[r] = "answered"
  BY <1>0, <1>1 DEF Readers, Owners, TapInv
<1>3. Sound(r)'
  <2>1. Sound(r) /\ Returned(r)' = Returned(r) /\ Ahead(0)' = Ahead(0)
    BY <1>1, SoundForAll DEF AnswerInv, Returned, Ahead
  <2>2. raised = r => <<"returned", r>> \notin Ahead(0)
    BY <1>0, HandlerAssumption DEF OnceInv
  <2> QED BY <1>1, <1>2, <2>1, <2>2 DEF Sound
<1> QED BY <1>0, <1>1, <1>2, <1>3, ReaderKeeps DEF Late

\* Nobody waits in the beginning.
LEMMA InitAnswers == Init => AnswerInv
<1> SUFFICES ASSUME Init PROVE AnswerInv
  OBVIOUS
<1>1. Waiting = {} /\ Ahead(0) = {} /\ ~Engaged /\ ~Closing
  BY DEF Init, Waiting, Ahead, Engaged, Closing
<1>2. \A o \in Owners : call[o] \in {"idle", "absent"}
  BY DEF Init
<1>3. \A r \in Reqs : call[r] \notin Late
  BY <1>2 DEF Owners, Late
<1>4. TapInv
  BY DEF Init, TapInv
<1>5. ClosingInv
  BY DEF Init, ClosingInv, Closing
<1>6. OriginInv
  BY <1>1 DEF OriginInv
<1>7. OnceInv
  BY <1>1 DEF Init, OnceInv, Begun
<1>8. \A r \in Reqs : Sound(r)
  BY <1>3 DEF Init, Sound, Late
<1> QED BY <1>4, <1>5, <1>6, <1>7, <1>8, InitTypes, SoundForAll DEF AnswerInv

\* Every step keeps the invariant.
LEMMA NextAnswers == AnswerInv /\ [Next]_vars => AnswerInv'
<1> SUFFICES ASSUME AnswerInv, [Next]_vars PROVE AnswerInv'
  OBVIOUS
<1>1. TypeOK /\ TypeOK' /\ ClosingInv' /\ (Cancelled => Cancelled')
  BY NextTypes, NextClosing, CancelledStays DEF AnswerInv
<1>2. call \in [Owners -> Places] /\ (Reqs \cup Watchers) \cap Cancels = {}
  BY <1>1, HandlerAssumption DEF TypeOK, CallsOK
<1>3. ASSUME NEW o \in Readers, NEW s, call' = [call EXCEPT ![o] = s] \/ UNCHANGED call
      PROVE  Cancelled' = Cancelled
  BY <1>2, <1>3 DEF Cancelled, Readers, Owners
<1>4. ASSUME NEW o \in Readers, (Subscribe(o) \/ Read(o) \/ ReadEnd(o)) PROVE AnswerInv'
  <2>1. UNCHANGED call \/ \E s : call' = [call EXCEPT ![o] = s]
    BY <1>4 DEF Subscribe, Read, ReadEnd, Ends, Judge, Answered, Becomes
  <2>2. Cancelled' = Cancelled
    BY <2>1, <1>3
  <2> QED BY <1>1, <1>4, <2>2, NextSubscribe, NextRead, NextReadEnd
<1>5. ASSUME NEW r \in Reqs, Ask(r) PROVE AnswerInv'
  <2>1. Cancelled' = Cancelled
    BY <1>3, <1>5 DEF Ask, Answered, Becomes, Readers
  <2> QED BY <1>1, <1>5, <2>1, NextAsk
<1>6. ASSUME NEW c \in Cancels, NEW announces \in BOOLEAN, CancelAgent(c, announces)
      PROVE  AnswerInv'
  BY <1>1, <1>6, NextCancelled
<1>7. CASE \/ TakeRequest \/ Begin \/ Return \/ Raise \/ Fail \/ Stop \/ Closed
           \/ Consume \/ Publish \/ ConsumeEnd
           \/ \E kind \in Kinds : Emit(kind)
  BY <1>1, <1>7, NextMachine
<1>8. CASE \/ \E r \in Reqs : Configure(r) \/ Look(r)
           \/ \E o \in Owners : Enter(o)
           \/ \E w \in Watchers : Greet(w)
           \/ \E c \in Cancels : CancelEnd(c)
           \/ Snapshot \/ Forget \/ UNCHANGED vars
           \/ \E u \in Urls : Post(u) \/ CreateConfig(u)
           \/ \E i \in Ids : DeleteConfig(i)
  BY <1>1, <1>8, QuietSteps, QuietKeeps
<1> QED BY <1>4, <1>5, <1>6, <1>7, <1>8 DEF Next, Runs, Owners

\* message/send does not answer before there is something to answer with, unless the task is
\* cancelled (default_request_handler_v2.py:283-325): BlockingAnswers for any number of calls
\* and events.
THEOREM AnswersBlock == Spec => []BlockingAnswers
<1>1. AnswerInv => BlockingAnswers
  BY DEF AnswerInv
<1> QED BY <1>1, InitAnswers, NextAnswers, PTL DEF Spec

\* A client whose agent raised is told so: neither the FAILED task nor the stored one answers
\* it, and its stream does not end as if the agent had returned
\* (default_request_handler_v2.py:302-305, active_task.py:558-580): FailureIsTold.
THEOREM FailuresAreTold == Spec => []FailureIsTold
<1>1. AnswerInv => FailureIsTold
  BY DEF AnswerInv
<1> QED BY <1>1, InitAnswers, NextAnswers, PTL DEF Spec

=============================================================================
