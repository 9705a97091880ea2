--------------------------- MODULE ActiveTaskProofs ---------------------------
(***************************************************************************)
(* Proofs about ActiveTask, for any number of subscribers, cancels and     *)
(* events, whatever the agent does.                                        *)
(***************************************************************************)
EXTENDS ActiveTask, FiniteSetTheorems, SequenceTheorems, TLAPS

-----------------------------------------------------------------------------
(* The registry is told when nobody uses the ActiveTask any more           *)

\* While it stands there the consumer has the reference that start() took.
Consuming == {"new", "get", "settle", "publish", "crash", "await", "unref"}
Holding == {s \in Subs : sub[s] \in InStream}
Share == IF cons \in Consuming THEN 1 ELSE 0

\* A reference is counted for every stream and for the consumer; more are counted when one was
\* refused half way or aclose() cut the consumer short.  start() comes before everything.
RefInv ==
    /\ sub \in [Subs -> SubStates] /\ cons \in ConsStates /\ finished \in BOOLEAN
    /\ refs \in Int /\ cleaned \in Nat
    /\ refs >= Cardinality(Holding) + Share
    /\ lock = "start" => cons = "off" /\ cleaned = 0
    /\ CleanupOnlyWhenUnused

\* The streams are finitely many.
LEMMA Counted == IsFiniteSet(Holding) /\ Cardinality(Holding) \in Nat /\ Share \in Nat
<1>1. IsFiniteSet(Holding)
  BY ActiveTaskAssumption, FS_Subset DEF Holding
<1> QED BY <1>1, FS_CardinalityType DEF Share

\* A step at which no reference changes hands.
LEMMA RefFrame ==
    ASSUME RefInv, UNCHANGED <<refs, cleaned>>, finished' \in BOOLEAN, finished => finished',
           sub' \in [Subs -> SubStates], Holding' = Holding, cons' \in ConsStates,
           cons' = cons \/ (cons # "off" /\ (cons' \in Consuming => cons \in Consuming)),
           lock' = "start" => lock = "start"
    PROVE  RefInv'
<1>1. Share' <= Share
  BY DEF Share
<1>2. refs' >= Cardinality(Holding') + Share'
  BY <1>1, Counted DEF RefInv, Share
<1>3. lock' = "start" => cons' = "off" /\ cleaned' = 0
  BY DEF RefInv
<1>4. CleanupOnlyWhenUnused'
  <2> SUFFICES ASSUME cleaned' > 0
               PROVE  /\ finished' /\ cons' \in {"off", "cleanup", "done"}
                      /\ \A s \in Subs : sub'[s] \notin InStream
    BY DEF CleanupOnlyWhenUnused
  <2>1. finished /\ cons \in {"off", "cleanup", "done"} /\ Holding = {}
    BY DEF RefInv, CleanupOnlyWhenUnused, Holding
  <2>2. cons' \notin Consuming
    BY <2>1 DEF Consuming
  <2>3. cons' \in {"off", "cleanup", "done"}
    BY <2>2 DEF Consuming, ConsStates
  <2>4. \A s \in Subs : sub'[s] \notin InStream
    BY <2>1 DEF Holding
  <2> QED BY <2>1, <2>3, <2>4
<1> QED BY <1>2, <1>3, <1>4 DEF RefInv

\* _maybe_cleanup() calls the registry only when no stream and no consumer is left.
LEMMA CleansUp ==
    ASSUME RefInv, MaybeCleanup, UNCHANGED <<refs, finished, lock>>,
           sub' \in [Subs -> SubStates], Holding' = Holding,
           cons' \in {cons, "done"}, cons \notin {"off"} \/ cons' = cons
    PROVE  RefInv'
<1>1. cleaned' \in Nat
  BY DEF RefInv, MaybeCleanup
<1>2. Share' <= Share /\ cons' \in ConsStates
  BY DEF Share, Consuming, ConsStates, RefInv
<1>3. refs' >= Cardinality(Holding') + Share'
  BY <1>2, Counted DEF RefInv, Share
<1>4. lock' # "start"
  BY DEF MaybeCleanup, LockFree, None
<1>5. CASE cleaned' = cleaned
  <2>1. cons' \in Consuming => cons \in Consuming
    BY DEF Consuming
  <2> QED BY <1>2, <1>5, <2>1, RefFrame DEF RefInv
<1>6. CASE cleaned' # cleaned
  <2>1. finished /\ refs = 0
    BY <1>6 DEF MaybeCleanup
  <2>2. Cardinality(Holding) = 0 /\ Share = 0
    BY <2>1, Counted DEF RefInv
  <2>3. Holding = {}
    BY <2>2, Counted, FS_EmptySet
  <2>4. cons \in {"off", "cleanup", "done"}
    BY <2>2 DEF Share, Consuming, ConsStates, RefInv
  <2>5. \A s \in Subs : sub'[s] \notin InStream
    BY <2>3 DEF Holding
  <2>6. CleanupOnlyWhenUnused'
    BY <2>1, <2>4, <2>5 DEF CleanupOnlyWhenUnused
  <2> QED BY <1>1, <1>2, <1>3, <1>4, <2>6 DEF RefInv
<1> QED BY <1>5, <1>6

\* Every step keeps the count of references.
LEMMA NextRefs == RefInv /\ [Next]_vars => RefInv'
<1> SUFFICES ASSUME RefInv, [Next]_vars PROVE RefInv'
  OBVIOUS
<1>0. /\ sub \in [Subs -> SubStates] /\ cons \in ConsStates /\ finished \in BOOLEAN
      /\ refs \in Int /\ cleaned \in Nat
      /\ refs >= Cardinality(Holding) + Share
  BY DEF RefInv
<1>s. ASSUME UNCHANGED sub PROVE sub' \in [Subs -> SubStates] /\ Holding' = Holding
  BY <1>0, <1>s DEF Holding
<1>1. CASE StartSucceeds
  <2>1. /\ lock = "start" /\ refs' = refs + 1 /\ cons' = "new" /\ lock' = None
        /\ UNCHANGED <<sub, finished, cleaned>>
    BY <1>1 DEF StartSucceeds, subVars
  <2>2. cons = "off" /\ cleaned = 0 /\ lock' # "start"
    BY <2>1 DEF RefInv, None
  <2>3. Share = 0 /\ Share' = 1
    BY <2>1, <2>2 DEF Share, Consuming
  <2>4. refs' \in Int /\ refs' >= Cardinality(Holding') + Share'
    BY <1>0, <2>1, <2>3, <1>s, Counted
  <2>5. CleanupOnlyWhenUnused'
    BY <2>1, <2>2 DEF CleanupOnlyWhenUnused
  <2> QED BY <1>0, <2>1, <2>2, <2>4, <2>5, <1>s DEF RefInv, ConsStates
<1>2. CASE StartFails
  <2>1. /\ lock = "start" /\ finished' = TRUE /\ lock' = None /\ UNCHANGED <<sub, refs, cons>>
        /\ cleaned' = IF refs = 0 THEN cleaned + 1 ELSE cleaned
    BY <1>2 DEF StartFails, subVars, consVars
  <2>2. cons = "off" /\ cleaned = 0 /\ lock' # "start"
    BY <2>1 DEF RefInv, None
  <2>3. CASE refs = 0
    <3>1. Cardinality(Holding) = 0
      BY <1>0, <2>3, Counted
    <3>2. Holding = {}
      BY <3>1, Counted, FS_EmptySet
    <3>3. CleanupOnlyWhenUnused'
      BY <2>1, <2>2, <3>2 DEF CleanupOnlyWhenUnused, Holding
    <3>4. cleaned' \in Nat /\ Share' = Share
      BY <1>0, <2>1 DEF Share
    <3> QED BY <1>0, <2>1, <2>2, <3>3, <3>4, <1>s DEF RefInv
  <2>4. CASE refs # 0
    BY <2>1, <2>2, <2>4, <1>s, RefFrame, <1>0
  <2> QED BY <2>3, <2>4
<1>3. CASE ProducerNext \/ AgentNext
  <2>1. UNCHANGED <<refs, cleaned, finished, sub, cons, lock>>
    BY <1>3 DEF ProducerNext, AgentNext, ProducerBegins, ProducerGetsRequest, ProducerStartsRequest,
         ProducerSeesShutdown, ProducerFails, ProducerShutsSink, ProducerShutsSubs,
         ProducerClosesSinks, ProducerEnds, AgentEmits, AgentReturns, ExecuteRaises,
         lifeVars, subVars, consVars
  <2> QED BY <2>1, <1>s, <1>0, RefFrame
<1>4. CASE \/ ConsumerBegins \/ ConsumesMarker \/ ConsumesMessage \/ ConsumerApplies
           \/ ConsumerRaises \/ ConsumerSettles \/ ConsumerPublishes \/ ConsumerSeesShutdown
           \/ ConsumerReportsError \/ ConsumerDies \/ ConsumerAwaitsProducer
  <2>1. /\ UNCHANGED <<refs, cleaned, sub, lock>>
        /\ cons \in Consuming /\ cons' \in Consuming
    BY <1>4 DEF ConsumerBegins, ConsumesMarker, ConsumesMessage, ConsumerApplies,
         ConsumerRaises, ConsumerSettles, ConsumerPublishes, ConsumerSeesShutdown,
         ConsumerReportsError, ConsumerDies, ConsumerAwaitsProducer, ConsumerTakes,
         ConsumerWindsUp, CanTake, lifeVars, subVars, consVars, Consuming
  <2>2. finished' = finished \/ finished' = TRUE
    BY <1>4 DEF ConsumerBegins, ConsumesMarker, ConsumesMessage, ConsumerApplies,
         ConsumerRaises, ConsumerSettles, ConsumerPublishes, ConsumerSeesShutdown,
         ConsumerReportsError, ConsumerDies, ConsumerAwaitsProducer, ConsumerTakes,
         ConsumerWindsUp, lifeVars
  <2>3. cons' \in ConsStates /\ cons # "off" /\ finished' \in BOOLEAN
    BY <1>0, <2>1, <2>2 DEF Consuming, ConsStates
  <2> QED BY <2>1, <2>2, <2>3, <1>s, <1>0, RefFrame
<1>5. CASE ConsumerUnrefs
  <2>1. /\ cons = "unref" /\ cons' = "cleanup" /\ refs' = refs - 1 /\ lock = None
        /\ UNCHANGED <<sub, finished, cleaned, lock>>
    BY <1>5 DEF ConsumerUnrefs, LockFree, subVars
  <2>2. Share = 1 /\ Share' = 0
    BY <2>1 DEF Share, Consuming
  <2>3. refs' \in Int /\ refs' >= Cardinality(Holding') + Share'
    BY <1>0, <2>1, <2>2, <1>s, Counted
  <2>4. CleanupOnlyWhenUnused'
    BY <2>1 DEF RefInv, CleanupOnlyWhenUnused
  <2> QED BY <1>0, <2>1, <2>3, <2>4, <1>s DEF RefInv, ConsStates, None
<1>6. CASE ConsumerCleansUp
  <2>1. MaybeCleanup /\ cons = "cleanup" /\ cons' = "done" /\ UNCHANGED <<refs, finished, lock, sub>>
    BY <1>6 DEF ConsumerCleansUp, subVars
  <2> QED BY <2>1, <1>s, CleansUp
<1>7. CASE Dispatch \/ AcloseQueues \/ AcloseReturns
  <2>1. UNCHANGED <<refs, cleaned, finished, sub, cons, lock>>
    BY <1>7 DEF Dispatch, AcloseQueues, AcloseReturns, lifeVars, subVars, consVars
  <2> QED BY <2>1, <1>s, <1>0, RefFrame
<1>8. ASSUME NEW s \in Subs, SubscribeRejected(s) \/ SubscriberNext(s) \/ Disconnect(s),
             ~Unsubscribes(s), ~SubscriberCleansUp(s)
      PROVE  RefInv'
  <2>1. UNCHANGED <<refs, cleaned, finished, cons, lock>>
    BY <1>8 DEF SubscribeRejected, SubscriberNext, Disconnect, YieldInitial, StreamsEvent,
         ResumesStream, SkipsMarker, RequestDone, RaisesError, StreamEnds, Leaves, Others,
         lifeVars, consVars
  <2>2. \/ UNCHANGED sub
        \/ sub[s] \in InStream /\ \E to \in InStream : sub' = [sub EXCEPT ![s] = to]
        \/ sub[s] = "idle" /\ sub' = [sub EXCEPT ![s] = "done"]
    BY <1>8 DEF SubscribeRejected, SubscriberNext, Disconnect, YieldInitial, StreamsEvent,
         ResumesStream, SkipsMarker, RequestDone, RaisesError, StreamEnds, Leaves, InStream
  <2>3. sub' \in [Subs -> SubStates] /\ Holding' = Holding
    BY <2>2, <1>0 DEF Holding, InStream, SubStates
  <2> QED BY <2>1, <2>3, <1>0, RefFrame
<1>9. ASSUME NEW s \in Subs, Subscribes(s) PROVE RefInv'
  <2>1. /\ sub[s] = "idle" /\ ~finished /\ lock = None /\ refs' = refs + 1
        /\ \E to \in {"stream", "initial"} : sub' = [sub EXCEPT ![s] = to]
        /\ UNCHANGED <<finished, cleaned, lock, cons>>
    BY <1>9 DEF Subscribes, LockFree, consVars
  <2>2. sub' \in [Subs -> SubStates] /\ Holding' = Holding \cup {s} /\ s \notin Holding
    BY <1>0, <2>1 DEF Holding, InStream, SubStates
  <2>3. Cardinality(Holding') = Cardinality(Holding) + 1 /\ Share' = Share
    BY <2>1, <2>2, Counted, FS_AddElement DEF Share
  <2>4. refs' \in Int /\ refs' >= Cardinality(Holding') + Share'
    BY <1>0, <2>1, <2>3, Counted
  <2>5. CleanupOnlyWhenUnused'
    BY <2>1 DEF RefInv, CleanupOnlyWhenUnused
  <2> QED BY <1>0, <2>1, <2>2, <2>4, <2>5 DEF RefInv, None
<1>10. ASSUME NEW s \in Subs, SubscribeRefused(s) PROVE RefInv'
  <2>1. /\ sub[s] = "idle" /\ ~finished /\ lock = None /\ refs' = refs + 1
        /\ sub' = [sub EXCEPT ![s] = "done"] /\ UNCHANGED <<finished, cleaned, lock, cons>>
    BY <1>10 DEF SubscribeRefused, LockFree, consVars
  <2>2. sub' \in [Subs -> SubStates] /\ Holding' = Holding /\ Share' = Share
    BY <1>0, <2>1 DEF Holding, InStream, SubStates, Share
  <2>3. refs' \in Int /\ refs' >= Cardinality(Holding') + Share'
    BY <1>0, <2>1, <2>2, Counted
  <2>4. CleanupOnlyWhenUnused'
    BY <2>1 DEF RefInv, CleanupOnlyWhenUnused
  <2> QED BY <1>0, <2>1, <2>2, <2>3, <2>4 DEF RefInv, None
<1>11. ASSUME NEW s \in Subs, Unsubscribes(s) PROVE RefInv'
  <2>1. /\ sub[s] = "unref" /\ lock = None /\ refs' = refs - 1
        /\ sub' = [sub EXCEPT ![s] = "cleanup"] /\ UNCHANGED <<finished, cleaned, lock, cons>>
    BY <1>11 DEF Unsubscribes, LockFree, consVars
  <2>2. sub' \in [Subs -> SubStates] /\ Holding' = Holding \ {s} /\ s \in Holding
    BY <1>0, <2>1 DEF Holding, InStream, SubStates
  <2>3. Cardinality(Holding') = Cardinality(Holding) - 1 /\ Share' = Share
    BY <2>1, <2>2, Counted, FS_RemoveElement DEF Share
  <2>4. refs' \in Int /\ refs' >= Cardinality(Holding') + Share'
    BY <1>0, <2>1, <2>3, Counted
  <2>5. cleaned = 0
    BY <1>0, <2>1 DEF RefInv, CleanupOnlyWhenUnused, InStream
  <2>6. CleanupOnlyWhenUnused'
    BY <2>1, <2>5 DEF CleanupOnlyWhenUnused
  <2> QED BY <1>0, <2>1, <2>2, <2>4, <2>6 DEF RefInv, None
<1>12. ASSUME NEW s \in Subs, SubscriberCleansUp(s) PROVE RefInv'
  <2>1. /\ MaybeCleanup /\ sub[s] = "cleanup" /\ sub' = [sub EXCEPT ![s] = "done"]
        /\ UNCHANGED <<refs, finished, lock, cons>>
    BY <1>12 DEF SubscriberCleansUp, consVars
  <2>2. sub' \in [Subs -> SubStates] /\ Holding' = Holding
    BY <1>0, <2>1 DEF Holding, InStream, SubStates
  <2> QED BY <2>1, <2>2, CleansUp
<1>13. ASSUME NEW c \in Cancelers, CancelBegins(c) \/ CancelNext(c) PROVE RefInv'
  <2>1. UNCHANGED <<refs, cleaned, finished, sub, cons>>
    BY <1>13 DEF CancelBegins, CancelNext, CancelEmits, AgentCancelReturns, AgentCancelRaises,
         CancelsProducer, CancelReturns, lifeVars, subVars, consVars
  <2>2. lock' \in {lock, c, None}
    BY <1>13 DEF CancelBegins, CancelNext, CancelEmits, AgentCancelReturns, AgentCancelRaises,
         CancelsProducer, CancelReturns
  <2>3. lock' = "start" => lock = "start"
    BY <2>2, ActiveTaskAssumption DEF None
  <2> QED BY <2>1, <2>3, <1>s, <1>0, RefFrame
<1>14. CASE AcloseCancels
  <2>1. UNCHANGED <<refs, cleaned, sub, lock>> /\ finished' = TRUE
    BY <1>14 DEF AcloseCancels, subVars
  <2>2. /\ cons' \in ConsStates
        /\ cons' = cons \/ (cons # "off" /\ (cons' \in Consuming => cons \in Consuming))
    BY <1>14, <1>0 DEF AcloseCancels, ConsStates, Consuming
  <2> QED BY <2>1, <2>2, <1>s, <1>0, RefFrame
<1>15. CASE UNCHANGED vars
  <2>1. UNCHANGED <<refs, cleaned, finished, sub, cons, lock>>
    BY <1>15 DEF vars, lifeVars, subVars, consVars
  <2> QED BY <2>1, <1>s, <1>0, RefFrame
<1> QED BY <1>1, <1>2, <1>3, <1>4, <1>5, <1>6, <1>7, <1>8, <1>9, <1>10, <1>11, <1>12,
           <1>13, <1>14, <1>15
        DEF Next, Start, ConsumerNext, SubscribeNext

\* At first nobody streams and the consumer has not been started.
LEMMA InitRefs == Init => RefInv
<1> SUFFICES ASSUME Init PROVE RefInv
  OBVIOUS
<1>1. Holding = {} /\ Share = 0
  BY DEF Init, Holding, Share, InStream, Consuming
<1>2. Cardinality(Holding) = 0
  BY <1>1, FS_EmptySet
<1>3. /\ refs = 0 /\ cleaned = 0 /\ finished = FALSE /\ cons = "off"
      /\ sub = [s \in Subs |-> "idle"]
  BY DEF Init
<1>4. sub \in [Subs -> SubStates] /\ cons \in ConsStates
  BY <1>3 DEF SubStates, ConsStates
<1>5. CleanupOnlyWhenUnused
  BY <1>3 DEF CleanupOnlyWhenUnused
<1>6. refs >= Cardinality(Holding) + Share /\ refs \in Int /\ cleaned \in Nat
  BY <1>1, <1>2, <1>3
<1>7. finished \in BOOLEAN /\ (lock = "start" => cons = "off" /\ cleaned = 0)
  BY <1>3
<1> QED BY <1>4, <1>5, <1>6, <1>7 DEF RefInv

\* The registry is told to forget the ActiveTask only when it has finished, its consumer is
\* through and nobody streams from it (active_task.py:851-872), for any number of streams.
THEOREM CleanupIsLast == Spec => []CleanupOnlyWhenUnused
<1>1. RefInv => CleanupOnlyWhenUnused
  BY DEF RefInv
<1> QED BY <1>1, InitRefs, NextRefs, PTL DEF Spec

-----------------------------------------------------------------------------
(* Requests are processed one after the other                              *)

\* A queue, without what join() counts.
Loose(E) == [items : Seq(E), unfinished : Int, down : BOOLEAN]

\* What the operations do to the items of a queue.
LEMMA LooseOps ==
    ASSUME NEW E, NEW q \in Loose(E)
    PROVE  /\ \A e \in E : QPut(q, e) \in Loose(E) /\ QPut(q, e).items = Append(q.items, e)
           /\ QCanGet(q) => /\ QGet(q) \in Loose(E) /\ QGet(q).items = Tail(q.items)
                            /\ Head(q.items) \in E
           /\ QDone(q) \in Loose(E) /\ QDone(q).items = q.items
           /\ \A now \in BOOLEAN : /\ QShutdown(q, now) \in Loose(E)
                                   /\ QShutdown(q, now).items \in {<<>>, q.items}
<1>1. q.items \in Seq(E) /\ q.unfinished \in Int /\ Len(q.items) \in Int
  BY DEF Loose
<1>2. \A e \in E : QPut(q, e) \in Loose(E) /\ QPut(q, e).items = Append(q.items, e)
  BY <1>1 DEF Loose, QPut
<1>3. QCanGet(q) => /\ QGet(q) \in Loose(E) /\ QGet(q).items = Tail(q.items)
                    /\ Head(q.items) \in E
  BY <1>1 DEF Loose, QCanGet, QGet
<1>4. QDone(q) \in Loose(E) /\ QDone(q).items = q.items
  BY <1>1 DEF Loose, QDone
<1>5. ASSUME NEW now \in BOOLEAN
      PROVE  QShutdown(q, now) \in Loose(E) /\ QShutdown(q, now).items \in {<<>>, q.items}
  <2>1. <<>> \in Seq(E)
    OBVIOUS
  <2>2. CASE now
    BY <1>1, <2>1, <2>2 DEF QShutdown, Loose
  <2>3. CASE ~now
    BY <1>1, <2>3 DEF QShutdown, Loose
  <2> QED BY <2>2, <2>3
<1> QED BY <1>2, <1>3, <1>4, <1>5

\* What the agent's queue holds.
Items == agentQ.items
\* The producer has yet to run an agent.
Early == {"off", "new", "get", "lock"}
\* The consumer has an event in its hand.
Busy == {"settle", "publish", "crash"}

SerialTypes ==
    /\ agentQ \in Loose(Event) /\ reqQ \in Loose(Senders) /\ inHand \in Event
    /\ prod \in ProdStates /\ prodReq \in Subs \cup {None}
    /\ prod \in {"lock", "exec", "failed"} => prodReq # None
    /\ lock = "start" => prod = "off"

\* The end of a request is that of somebody's.
MarksOwned == \A i \in 1..Len(Items) : Items[i].kind = "completed!" => Items[i].req # None

\* While the agent runs, the request lock is held and what is queued is of its request, whose
\* end is yet to come.
RunsAlone ==
    prod = "exec" =>
        /\ reqLock
        /\ \A i \in 1..Len(Items) : Items[i].kind # "completed!"
        /\ \A e \in Pending : e.req \in {prodReq, None}

\* Between two requests nothing but what cancel() enqueued comes after the end of the last one;
\* once the lock has been given back nothing else is left.
EndsLast ==
    prod \in Early =>
        /\ \A i, j \in 1..Len(Items) : i < j /\ Items[i].kind = "completed!" => Items[j].req = None
        /\ ~reqLock => \A e \in Pending : e.req = None

SerialInv == SerialTypes /\ MarksOwned /\ RunsAlone /\ EndsLast

\* What is pending: the items, and what the consumer has in its hand.
LEMMA PendingFacts ==
    /\ \A i \in 1..Len(Items) : Items[i] \in Pending
    /\ \A e \in Pending : \/ \E i \in 1..Len(Items) : e = Items[i]
                          \/ cons \in Busy /\ e = inHand
    /\ cons \in Busy => inHand \in Pending
  BY DEF Pending, Items, Busy

\* The producer goes on without running an agent again.
Leaving ==
    prod' = prod \/ prod' \notin Early \cup {"exec"} \/ (prod \in Early /\ prod' \in Early)

\* A step after which nothing is queued that was not queued before.
LEMMA SerialShrinks ==
    ASSUME SerialInv, SerialTypes', Leaving, UNCHANGED <<prodReq, reqLock>>,
           \/ Items' = Items
           \/ Items' = <<>>
           \/ Items # <<>> /\ Items' = Tail(Items),
           cons' \in Busy => inHand' \in Pending
    PROVE  SerialInv'
<1>1. PICK k \in {0, 1} :
          \A i \in 1..Len(Items') : i + k \in 1..Len(Items) /\ Items'[i] = Items[i + k]
  <2>0. Items \in Seq(Event)
    BY DEF SerialInv, SerialTypes, Items, Loose
  <2>1. CASE Items' = Items
    <3>1. \A i \in 1..Len(Items') : i + 0 \in 1..Len(Items) /\ Items'[i] = Items[i + 0]
      BY <2>0, <2>1
    <3> QED BY <3>1
  <2>2. CASE Items' = <<>>
    <3>1. \A i \in 1..Len(Items') : i + 0 \in 1..Len(Items) /\ Items'[i] = Items[i + 0]
      BY <2>2
    <3> QED BY <3>1
  <2>3. CASE Items # <<>> /\ Items' = Tail(Items)
    <3>1. \A i \in 1..Len(Items') : i + 1 \in 1..Len(Items) /\ Items'[i] = Items[i + 1]
      BY <2>0, <2>3
    <3> QED BY <3>1
  <2> QED BY <2>1, <2>2, <2>3
<1>5. \A e \in Pending' : e \in Pending
  <2>1. \A e \in Pending' : \/ \E i \in 1..Len(Items') : e = Items'[i]
                            \/ cons' \in Busy /\ e = inHand'
    BY DEF Pending, Items, Busy
  <2> QED BY <1>1, <2>1, PendingFacts
<1>2. MarksOwned'
  BY <1>1 DEF SerialInv, MarksOwned
<1>3. RunsAlone'
  BY <1>1, <1>5 DEF SerialInv, RunsAlone, Leaving, Early
<1>4. EndsLast'
  <2> SUFFICES ASSUME prod' \in Early PROVE EndsLast'
    BY DEF EndsLast
  <2>1. /\ \A i, j \in 1..Len(Items) :
             i < j /\ Items[i].kind = "completed!" => Items[j].req = None
        /\ ~reqLock => \A e \in Pending : e.req = None
    BY DEF SerialInv, EndsLast, Leaving
  <2>2. \A i, j \in 1..Len(Items') : i < j => i + k < j + k
    BY SMT
  <2>3. \A i, j \in 1..Len(Items') :
            i < j /\ Items'[i].kind = "completed!" => Items'[j].req = None
    BY <1>1, <2>1, <2>2
  <2> QED BY <1>5, <2>1, <2>3 DEF EndsLast
<1> QED BY <1>2, <1>3, <1>4 DEF SerialInv

\* A step that enqueues e, or drops it because the queue is closed.
LEMMA SerialGrows ==
    ASSUME SerialInv, NEW e \in Event, e.kind # "completed!",
           prod' \in Early => e.req = None, e.req \in {prodReq, None}, SerialTypes', Leaving,
           UNCHANGED <<prodReq, reqLock, cons, inHand>>, Items' \in {Items, Append(Items, e)}
    PROVE  SerialInv'
<1>0. Items \in Seq(Event)
  BY DEF SerialInv, SerialTypes, Items, Loose
<1>1. CASE Items' = Items
  <2>1. cons' \in Busy => inHand' \in Pending
    BY PendingFacts
  <2> QED BY <1>1, <2>1, SerialShrinks
<1>2. CASE Items' = Append(Items, e)
  <2>1. \A i \in 1..Len(Items') :
            \/ i \in 1..Len(Items) /\ Items'[i] = Items[i]
            \/ i = Len(Items) + 1 /\ Items'[i] = e
    BY <1>0, <1>2
  <2>2. \A x \in Pending' : x \in Pending \/ x = e
    <3>1. \A x \in Pending' : \/ \E i \in 1..Len(Items') : x = Items'[i]
                              \/ cons' \in Busy /\ x = inHand'
      BY DEF Pending, Items, Busy
    <3> QED BY <2>1, <3>1, PendingFacts
  <2>3. MarksOwned'
    BY <2>1 DEF SerialInv, MarksOwned
  <2>4. RunsAlone'
    BY <2>1, <2>2 DEF SerialInv, RunsAlone, Leaving, Early
  <2>5. EndsLast'
    <3> SUFFICES ASSUME prod' \in Early PROVE EndsLast'
      BY DEF EndsLast
    <3>1. prod \in Early /\ e.req = None
      BY DEF Leaving, Early
    <3>2. \A i, j \in 1..Len(Items') :
              i < j /\ Items'[i].kind = "completed!" => Items'[j].req = None
      BY <1>0, <2>1, <3>1 DEF SerialInv, EndsLast
    <3>3. ~reqLock => \A x \in Pending' : x.req = None
      BY <2>2, <3>1 DEF SerialInv, EndsLast
    <3> QED BY <3>2, <3>3 DEF EndsLast
  <2> QED BY <2>3, <2>4, <2>5 DEF SerialInv
<1> QED BY <1>1, <1>2

\* The types of what a step leaves.
LEMMA SerialTyped ==
    ASSUME SerialTypes, agentQ' \in Loose(Event), reqQ' \in Loose(Senders), inHand' \in Event,
           prod' \in ProdStates, prodReq' \in Subs \cup {None},
           prod' \in {"lock", "exec", "failed"} => prodReq' # None,
           lock' = "start" => lock = "start", prod = "off" => prod' = "off" \/ lock' # "start"
    PROVE  SerialTypes'
  BY DEF SerialTypes

\* Every step keeps requests apart.
LEMMA NextSerial == RefInv /\ SerialInv /\ [Next]_vars => SerialInv'
<1> SUFFICES ASSUME RefInv, SerialInv, [Next]_vars PROVE SerialInv'
  OBVIOUS
<1>0. /\ agentQ \in Loose(Event) /\ reqQ \in Loose(Senders) /\ inHand \in Event
      /\ prod \in ProdStates /\ prodReq \in Subs \cup {None}
      /\ prod \in {"lock", "exec", "failed"} => prodReq # None
      /\ lock = "start" => prod = "off"
      /\ Items \in Seq(Event) /\ SerialTypes
  BY DEF SerialInv, SerialTypes, Loose, Items
<1>e. \A k \in Kinds \cup Markers, r \in Subs \cup {None} :
          Ev(k, r) \in Event /\ Ev(k, r).kind = k /\ Ev(k, r).req = r
  BY DEF Ev, Event
<1>k. "completed!" \notin Kinds /\ "failed" \in Kinds
  BY DEF Kinds, States, Terminal, None
<1>m. "started" \in Markers /\ "completed!" \in Markers /\ "error" \in Markers
  BY DEF Markers
<1>p. prodReq \in Subs \cup {None}
  BY <1>0
\* The events that the steps put into the agent's queue.
<1>f. \A k \in Kinds, r \in Subs \cup {None} :
          Ev(k, r) \in Event /\ Ev(k, r).kind # "completed!" /\ Ev(k, r).req = r
  BY <1>e, <1>k
<1>g. \A r \in Subs \cup {None} :
          /\ Ev("started", r) \in Event /\ Ev("started", r).kind = "started"
          /\ Ev("started", r).req = r
          /\ Ev("completed!", r) \in Event /\ Ev("completed!", r).req = r
          /\ Ev("error", r) \in Event /\ Ev("error", r).kind = "error" /\ Ev("error", r).req = r
  BY <1>e, <1>m
<1>q. \A e \in Event : /\ AgentEnqueues(agentQ, e) \in Loose(Event)
                       /\ AgentEnqueues(agentQ, e).items \in {Items, Append(Items, e)}
  BY <1>0, LooseOps DEF AgentEnqueues, Items
<1>r. /\ \A now \in BOOLEAN : QShutdown(reqQ, now) \in Loose(Senders)
      /\ QDone(reqQ) \in Loose(Senders) /\ QShutdown(QDone(reqQ), TRUE) \in Loose(Senders)
  <2>1. /\ \A now \in BOOLEAN : QShutdown(reqQ, now) \in Loose(Senders)
        /\ QDone(reqQ) \in Loose(Senders)
    BY <1>0, LooseOps
  <2>2. QShutdown(QDone(reqQ), TRUE) \in Loose(Senders)
    BY <2>1, LooseOps
  <2> QED BY <2>1, <2>2
<1>b. cons \in Busy => inHand \in Pending
  BY PendingFacts
\* What closing the agent's queue leaves in it.
<1>c. ASSUME CloseAgentNow PROVE agentQ' \in Loose(Event) /\ Items' \in {<<>>, Items}
  BY <1>0, <1>c, LooseOps DEF CloseAgentNow, Items
\* What the cancellation does to the producer and its requests.
<1>i. ASSUME InterruptProducer
      PROVE  /\ reqQ' \in Loose(Senders) /\ prod' \in ProdStates /\ Leaving
             /\ prod' \notin {"lock", "exec", "failed"} /\ (prod = "off" => prod' = "off")
  <2>1. reqQ' \in Loose(Senders)
    BY <1>0, <1>i, <1>r DEF InterruptProducer
  <2>2. prod' \in {"shut", "shutSubs", "done"} \/ (prod = "off" /\ prod' = "off")
    BY <1>i DEF InterruptProducer
  <2>3. prod = "off" => prod' = "off"
    BY <1>i DEF InterruptProducer
  <2> QED BY <2>1, <2>2, <2>3 DEF Leaving, Early, ProdStates
\* What the producer does when it winds up.
<1>w. ASSUME ProducerWindsUp
      PROVE reqQ' \in Loose(Senders) /\ prod' \in {"shut", "shutSubs"}
  BY <1>w, <1>r DEF ProducerWindsUp
<1>1. CASE StartSucceeds
  <2>1. /\ prod' = "new" /\ cons' = "new" /\ lock = "start" /\ lock' = None
        /\ UNCHANGED <<agentQ, reqQ, inHand, prodReq, reqLock>>
    BY <1>1 DEF StartSucceeds, agentVars
  <2>2. prod = "off" /\ Leaving /\ lock' # "start"
    BY <1>0, <2>1 DEF Leaving, Early, None
  <2>3. SerialTypes'
    BY <1>0, <2>1, <2>2, SerialTyped DEF ProdStates
  <2>4. Items' = Items /\ cons' \notin Busy
    BY <2>1 DEF Items, Busy
  <2> QED BY <2>1, <2>2, <2>3, <2>4, SerialShrinks
<1>2. CASE \/ ProducerBegins \/ ExecuteRaises \/ ProducerSeesShutdown \/ ProducerShutsSubs
           \/ ProducerClosesSinks \/ ProducerEnds
  <2>1. UNCHANGED <<agentQ, inHand, cons, prodReq, reqLock, lock>>
    BY <1>2 DEF ProducerBegins, ExecuteRaises, ProducerSeesShutdown, ProducerShutsSubs,
         ProducerClosesSinks, ProducerEnds, agentVars, consVars
  <2>2. /\ prod # "off" /\ reqQ' \in Loose(Senders)
        /\ \/ prod = "new" /\ prod' = "get"
           \/ prod = "exec" /\ prod' = "failed"
           \/ prod' \in {"shut", "shutSubs", "drainSubs", "joinSubs", "done"}
    BY <1>2, <1>0, <1>r, <1>w DEF ProducerBegins, ExecuteRaises, ProducerSeesShutdown,
         ProducerShutsSubs, ProducerClosesSinks, ProducerEnds
  <2>3. Leaving /\ prod' \in ProdStates
    BY <2>2 DEF Leaving, Early, ProdStates
  <2>4. SerialTypes'
    BY <1>0, <2>1, <2>2, <2>3, SerialTyped
  <2>5. Items' = Items
    BY <2>1 DEF Items
  <2> QED BY <2>1, <2>3, <2>4, <2>5, <1>b, SerialShrinks
<1>3. CASE ProducerGetsRequest
  <2>1. /\ prod = "get" /\ prod' = "lock" /\ QCanGet(reqQ) /\ prodReq' = Head(reqQ.items)
        /\ reqQ' = QGet(reqQ) /\ UNCHANGED <<agentQ, inHand, cons, reqLock, lock>>
    BY <1>3 DEF ProducerGetsRequest, agentVars, consVars
  <2>2. reqQ' \in Loose(Senders) /\ prodReq' \in Senders
    BY <1>0, <2>1, LooseOps
  <2>3. prodReq' \in Subs /\ prodReq' # None
    BY <2>2, ActiveTaskAssumption
  <2>4. SerialTypes'
    BY <1>0, <2>1, <2>2, <2>3, SerialTyped DEF ProdStates
  <2>5. Items' = Items /\ Pending' = Pending
    BY <2>1 DEF Items, Pending
  <2>6. MarksOwned' /\ RunsAlone' /\ EndsLast'
    BY <2>1, <2>5 DEF SerialInv, MarksOwned, RunsAlone, EndsLast, Early
  <2> QED BY <2>4, <2>6 DEF SerialInv
<1>4. CASE ProducerStartsRequest
  <2> DEFINE e == Ev("started", prodReq)
  <2>1. /\ prod = "lock" /\ prod' = "exec" /\ ~reqLock /\ reqLock' = TRUE
        /\ agentQ' = AgentEnqueues(agentQ, e) /\ UNCHANGED <<inHand, cons, prodReq, reqQ, lock>>
    BY <1>4 DEF ProducerStartsRequest, consVars
  <2>2. e \in Event /\ e.kind = "started" /\ e.req = prodReq
    BY <1>g, <1>p
  <2> HIDE DEF e
  <2>3. agentQ' \in Loose(Event) /\ Items' \in {Items, Append(Items, e)}
    BY <2>1, <2>2, <1>q DEF Items
  <2>4. \A x \in Pending : x.req = None
    BY <2>1 DEF SerialInv, EndsLast, Early
  <2>5. \A i \in 1..Len(Items) : Items[i].req = None /\ Items[i].kind # "completed!"
    BY <2>4, PendingFacts DEF SerialInv, MarksOwned
  <2>6. \A i \in 1..Len(Items') : Items'[i] = e \/ \E j \in 1..Len(Items) : Items'[i] = Items[j]
    BY <1>0, <2>3
  <2>7. \A i \in 1..Len(Items') : /\ Items'[i].kind # "completed!"
                                  /\ Items'[i].req \in {prodReq, None}
    BY <2>2, <2>5, <2>6
  <2>8. \A x \in Pending' : x.req \in {prodReq, None}
    <3>1. \A x \in Pending' : \/ \E i \in 1..Len(Items') : x = Items'[i]
                              \/ cons' \in Busy /\ x = inHand'
      BY DEF Pending, Items, Busy
    <3> QED BY <3>1, <2>1, <2>4, <2>7, <1>b
  <2>9. SerialTypes'
    BY <1>0, <2>1, <2>3, SerialTyped DEF ProdStates
  <2>10. MarksOwned' /\ RunsAlone' /\ EndsLast'
    BY <2>1, <2>7, <2>8 DEF MarksOwned, RunsAlone, EndsLast, Early
  <2> QED BY <2>9, <2>10 DEF SerialInv
<1>5. ASSUME NEW k \in Kinds, AgentEmits(k) PROVE SerialInv'
  <2> DEFINE e == Ev(k, prodReq)
  <2>1. /\ prod = "exec" /\ agentQ' = AgentEnqueues(agentQ, e)
        /\ UNCHANGED <<prod, inHand, cons, prodReq, reqLock, reqQ, lock>>
    BY <1>5 DEF AgentEmits, Emits, consVars, prodVars
  <2>2. e \in Event /\ e.kind # "completed!" /\ e.req = prodReq
    BY <1>f, <1>p
  <2> HIDE DEF e
  <2>3. agentQ' \in Loose(Event) /\ Items' \in {Items, Append(Items, e)}
    BY <2>1, <2>2, <1>q DEF Items
  <2>4. SerialTypes' /\ Leaving /\ prod' \notin Early
    BY <1>0, <2>1, <2>3, SerialTyped DEF Leaving, Early
  <2> QED BY <2>1, <2>2, <2>3, <2>4, SerialGrows
<1>6. CASE AgentReturns
  <2> DEFINE e == Ev("completed!", prodReq)
  <2>1. /\ prod = "exec" /\ prod' = "get" /\ agentQ' = AgentEnqueues(agentQ, e)
        /\ reqQ' = QDone(reqQ) /\ UNCHANGED <<inHand, cons, prodReq, reqLock, lock>>
    BY <1>6 DEF AgentReturns, consVars
  <2>2. e \in Event /\ e.req = prodReq /\ prodReq # None
    BY <1>0, <1>g, <1>p, <2>1
  <2> HIDE DEF e
  <2>3. agentQ' \in Loose(Event) /\ Items' \in {Items, Append(Items, e)}
    BY <2>1, <2>2, <1>q DEF Items
  <2>4. reqLock /\ \A i \in 1..Len(Items) : Items[i].kind # "completed!"
    BY <2>1 DEF SerialInv, RunsAlone
  <2>5. \A i \in 1..Len(Items') :
            /\ Items'[i].kind = "completed!" => Items'[i].req # None
            /\ Items'[i].kind = "completed!" => i = Len(Items')
    <3>1. CASE Items' = Items
      BY <3>1, <2>4
    <3>2. CASE Items' = Append(Items, e)
      <4>1. /\ Len(Items') = Len(Items) + 1 /\ Len(Items) \in Nat
            /\ \A i \in 1..Len(Items) : Items'[i] = Items[i]
            /\ Items'[Len(Items) + 1] = e
        BY <1>0, <3>2
      <4>2. \A i \in 1..Len(Items') : i \in 1..Len(Items) \/ i = Len(Items')
        BY <4>1
      <4> QED BY <4>1, <4>2, <2>2, <2>4
    <3> QED BY <2>3, <3>1, <3>2
  <2>6. SerialTypes'
    BY <1>0, <1>r, <2>1, <2>3, SerialTyped DEF ProdStates
  <2>7. EndsLast'
    <3>1. Items' \in Seq(Event)
      BY <2>3 DEF Loose, Items
    <3>2. \A i, j \in 1..Len(Items') :
              i < j /\ Items'[i].kind = "completed!" => Items'[j].req = None
      BY <2>5, <3>1
    <3> QED BY <3>2, <2>1, <2>4 DEF EndsLast
  <2>8. MarksOwned' /\ RunsAlone'
    BY <2>1, <2>5 DEF MarksOwned, RunsAlone
  <2> QED BY <2>6, <2>7, <2>8 DEF SerialInv
<1>7. CASE ProducerFails
  <2> DEFINE e == Ev("error", prodReq)
  <2>1. /\ prod = "failed" /\ agentQ' = AgentEnqueues(agentQ, e) /\ ProducerWindsUp
        /\ UNCHANGED <<inHand, cons, prodReq, reqLock, lock>>
    BY <1>7 DEF ProducerFails, consVars
  <2>2. e \in Event /\ e.kind # "completed!" /\ e.req = prodReq
    BY <1>g, <1>p
  <2> HIDE DEF e
  <2>3. agentQ' \in Loose(Event) /\ Items' \in {Items, Append(Items, e)}
    BY <2>1, <2>2, <1>q DEF Items
  <2>4. SerialTypes' /\ Leaving /\ prod' \notin Early
    BY <1>0, <1>w, <2>1, <2>3, SerialTyped DEF Leaving, Early, ProdStates
  <2> QED BY <2>1, <2>2, <2>3, <2>4, SerialGrows
<1>8. CASE ProducerShutsSink
  <2>1. /\ prod = "shut" /\ prod' = "joinAgent" /\ agentQ' = QShutdown(agentQ, FALSE)
        /\ UNCHANGED <<inHand, cons, prodReq, reqLock, reqQ, lock>>
    BY <1>8 DEF ProducerShutsSink, consVars
  <2>2. agentQ' \in Loose(Event) /\ Items' \in {<<>>, Items}
    BY <1>0, <2>1, LooseOps DEF Items
  <2>3. SerialTypes' /\ Leaving
    BY <1>0, <2>1, <2>2, SerialTyped DEF Leaving, Early, ProdStates
  <2> QED BY <2>1, <2>2, <2>3, <1>b, SerialShrinks
<1>9. CASE ConsumesMarker
  <2>1. /\ cons = "get" /\ QCanGet(agentQ) /\ Taken.kind \in {"started", "completed!"}
        /\ reqLock' = IF Taken.kind = "completed!" THEN FALSE ELSE reqLock
        /\ agentQ' = QDone(QGet(agentQ)) /\ UNCHANGED <<prod, inHand, cons, prodReq, reqQ, lock>>
    BY <1>9 DEF ConsumesMarker, CanTake, consVars
  <2>2. agentQ' \in Loose(Event) /\ Items' = Tail(Items) /\ Items # <<>>
    <3>1. QGet(agentQ) \in Loose(Event) /\ QGet(agentQ).items = Tail(Items)
      BY <1>0, <2>1, LooseOps DEF Items
    <3> QED BY <2>1, <3>1, LooseOps DEF Items, QCanGet
  <2>3. SerialTypes' /\ Leaving
    BY <1>0, <2>1, <2>2, SerialTyped DEF Leaving
  <2>4. CASE Taken.kind = "started"
    BY <2>1, <2>2, <2>3, <2>4, <1>b, SerialShrinks
  <2>5. CASE Taken.kind = "completed!"
    <3>1. /\ 1 \in 1..Len(Items) /\ Items[1] = Taken
          /\ \A i \in 1..Len(Items') : i + 1 \in 1..Len(Items) /\ Items'[i] = Items[i + 1] /\ 1 < i + 1
      BY <1>0, <2>2 DEF Taken, Items
    <3>2. prod # "exec"
      BY <2>5, <3>1 DEF SerialInv, RunsAlone
    <3>3. prod \in Early => \A i \in 1..Len(Items') : Items'[i].req = None
      BY <2>5, <3>1 DEF SerialInv, EndsLast
    <3>4. \A x \in Pending' : \E i \in 1..Len(Items') : x = Items'[i]
      BY <2>1 DEF Pending, Items
    <3>5. EndsLast'
      BY <3>3, <3>4, <2>1 DEF EndsLast
    <3>6. MarksOwned' /\ RunsAlone'
      BY <3>1, <3>2, <2>1 DEF SerialInv, MarksOwned, RunsAlone
    <3> QED BY <2>3, <3>5, <3>6 DEF SerialInv
  <2> QED BY <2>1, <2>4, <2>5
<1>10. CASE ConsumesMessage
  <2>1. /\ cons = "get" /\ QCanGet(agentQ) /\ agentQ' = QDone(QGet(agentQ))
        /\ UNCHANGED <<prod, inHand, cons, prodReq, reqQ, reqLock, lock>>
    BY <1>10 DEF ConsumesMessage, CanTake, consVars, prodVars
  <2>2. agentQ' \in Loose(Event) /\ Items' = Tail(Items) /\ Items # <<>>
    <3>1. QGet(agentQ) \in Loose(Event) /\ QGet(agentQ).items = Tail(Items)
      BY <1>0, <2>1, LooseOps DEF Items
    <3> QED BY <2>1, <3>1, LooseOps DEF Items, QCanGet
  <2>3. SerialTypes' /\ Leaving
    BY <1>0, <2>1, <2>2, SerialTyped DEF Leaving
  <2> QED BY <2>1, <2>2, <2>3, <1>b, SerialShrinks
<1>11. CASE ConsumerApplies \/ ConsumerRaises
  <2>1. /\ cons = "get" /\ QCanGet(agentQ) /\ agentQ' = QGet(agentQ) /\ inHand' = Head(Items)
        /\ UNCHANGED <<prod, prodReq, reqQ, reqLock, lock>>
    BY <1>11 DEF ConsumerApplies, ConsumerRaises, ConsumerTakes, CanTake, Taken, Items, prodVars
  <2>2. /\ agentQ' \in Loose(Event) /\ Items' = Tail(Items) /\ Items # <<>>
        /\ inHand' \in Event
    BY <1>0, <2>1, LooseOps DEF Items, QCanGet
  <2>3. SerialTypes' /\ Leaving
    BY <1>0, <2>1, <2>2, SerialTyped DEF Leaving
  <2>4. inHand' \in Pending
    <3>1. 1 \in 1..Len(Items) /\ Items[1] = Head(Items)
      BY <1>0, <2>2
    <3> QED BY <3>1, <2>1, PendingFacts
  <2> QED BY <2>1, <2>2, <2>3, <2>4, SerialShrinks
<1>12. CASE \/ ConsumerBegins \/ ConsumerSettles \/ ConsumerAwaitsProducer \/ ConsumerUnrefs
            \/ ConsumerCleansUp
  <2>1. /\ UNCHANGED <<agentQ, prod, inHand, prodReq, reqLock, lock>>
        /\ reqQ' \in {reqQ, QShutdown(reqQ, TRUE)}
    BY <1>12 DEF ConsumerBegins, ConsumerSettles, ConsumerAwaitsProducer, ConsumerUnrefs,
         ConsumerCleansUp, agentVars, prodVars
  <2>2. cons' \in Busy => cons \in Busy
    BY <1>12 DEF ConsumerBegins, ConsumerSettles, ConsumerAwaitsProducer, ConsumerUnrefs,
         ConsumerCleansUp, Busy
  <2>3. SerialTypes' /\ Leaving
    BY <1>0, <1>r, <2>1, SerialTyped DEF Leaving
  <2>4. Items' = Items
    BY <2>1 DEF Items
  <2> QED BY <2>1, <2>2, <2>3, <2>4, <1>b, SerialShrinks
<1>13. CASE ConsumerPublishes \/ ConsumerReportsError \/ ConsumerDies \/ ConsumerSeesShutdown
  <2>1. /\ UNCHANGED <<prod, inHand, prodReq, reqLock, lock>> /\ cons' \notin Busy
        /\ reqQ' \in {reqQ, QShutdown(reqQ, TRUE)}
    BY <1>13 DEF ConsumerPublishes, ConsumerReportsError, ConsumerDies, ConsumerSeesShutdown,
         ConsumerWindsUp, prodVars, Busy
  <2>2. agentQ' \in Loose(Event) /\ Items' \in {<<>>, Items}
    <3>1. CASE ConsumerPublishes
      BY <3>1, <1>0, LooseOps DEF ConsumerPublishes, Items
    <3>2. CASE ConsumerReportsError
      <4>1. QDone(agentQ) \in Loose(Event) /\ QDone(agentQ).items = Items
        BY <1>0, LooseOps DEF Items
      <4>2. agentQ' \in {QDone(agentQ), QShutdown(QDone(agentQ), TRUE)}
        BY <3>2 DEF ConsumerReportsError
      <4> QED BY <4>1, <4>2, LooseOps DEF Items
    <3>3. CASE ConsumerDies \/ ConsumerSeesShutdown
      BY <3>3, <1>c DEF ConsumerDies, ConsumerSeesShutdown
    <3> QED BY <1>13, <3>1, <3>2, <3>3
  <2>3. SerialTypes' /\ Leaving
    BY <1>0, <1>r, <2>1, <2>2, SerialTyped DEF Leaving
  <2> QED BY <2>1, <2>2, <2>3, SerialShrinks
<1>14. CASE StartFails \/ Dispatch \/ AcloseReturns
  <2>1. UNCHANGED <<agentQ, prod, inHand, prodReq, reqLock, reqQ, cons>> /\ lock' \in {lock, None}
    BY <1>14 DEF StartFails, Dispatch, AcloseReturns, agentVars, prodVars, consVars
  <2>2. SerialTypes' /\ Leaving
    BY <1>0, <2>1, SerialTyped DEF Leaving, None
  <2>3. Items' = Items
    BY <2>1 DEF Items
  <2> QED BY <2>1, <2>2, <2>3, <1>b, SerialShrinks
<1>15. ASSUME NEW s \in Subs, SubscribeNext(s) \/ SubscriberNext(s) \/ Disconnect(s)
       PROVE  SerialInv'
  <2>1. UNCHANGED <<agentQ, prod, inHand, prodReq, reqLock, cons, lock>>
    BY <1>15 DEF SubscribeNext, SubscribeRejected, Subscribes, SubscribeRefused, SubscriberNext,
         Disconnect, YieldInitial, StreamsEvent, ResumesStream, SkipsMarker, RequestDone,
         RaisesError, StreamEnds, Leaves, Others, Unsubscribes, SubscriberCleansUp,
         agentVars, prodVars, consVars
  <2>2. reqQ' = reqQ \/ (s \in Senders /\ reqQ' = QPut(reqQ, s))
    BY <1>15 DEF SubscribeNext, SubscribeRejected, Subscribes, SubscribeRefused, SubscriberNext,
         Disconnect, YieldInitial, StreamsEvent, ResumesStream, SkipsMarker, RequestDone,
         RaisesError, StreamEnds, Leaves, Others, Unsubscribes, SubscriberCleansUp
  <2>3. reqQ' \in Loose(Senders)
    BY <1>0, <2>2, LooseOps
  <2>4. SerialTypes' /\ Leaving
    BY <1>0, <2>1, <2>3, SerialTyped DEF Leaving
  <2>5. Items' = Items
    BY <2>1 DEF Items
  <2> QED BY <2>1, <2>4, <2>5, <1>b, SerialShrinks
<1>16. ASSUME NEW c \in Cancelers, CancelBegins(c) \/ CancelReturns(c) PROVE SerialInv'
  <2>1. UNCHANGED <<agentQ, prod, inHand, prodReq, reqLock, reqQ, cons>> /\ lock' \in {lock, c}
    BY <1>16 DEF CancelBegins, CancelReturns, agentVars, prodVars, consVars
  <2>2. SerialTypes' /\ Leaving
    BY <1>0, <2>1, SerialTyped, ActiveTaskAssumption DEF Leaving
  <2>3. Items' = Items
    BY <2>1 DEF Items
  <2> QED BY <2>1, <2>2, <2>3, <1>b, SerialShrinks
<1>17. ASSUME NEW c \in Cancelers, NEW k \in CancelEvents, CancelEmits(c, k) PROVE SerialInv'
  <2> DEFINE e == Ev(k, None)
  <2>1. agentQ' = AgentEnqueues(agentQ, e) /\ UNCHANGED <<prod, inHand, cons, prodReq, reqLock, reqQ, lock>>
    BY <1>17 DEF CancelEmits, Emits, consVars, prodVars
  <2>2. e \in Event /\ e.kind # "completed!" /\ e.req = None
    BY <1>f, ActiveTaskAssumption
  <2> HIDE DEF e
  <2>3. agentQ' \in Loose(Event) /\ Items' \in {Items, Append(Items, e)}
    BY <2>1, <2>2, <1>q DEF Items
  <2>4. SerialTypes' /\ Leaving
    BY <1>0, <2>1, <2>3, SerialTyped DEF Leaving
  <2> QED BY <2>1, <2>2, <2>3, <2>4, SerialGrows
<1>18. ASSUME NEW c \in Cancelers, AgentCancelReturns(c) \/ AgentCancelRaises(c) PROVE SerialInv'
  <2> DEFINE e == Ev("failed", None)
  <2>1. /\ InterruptProducer /\ lock' = None /\ UNCHANGED <<inHand, cons, prodReq, reqLock>>
        /\ agentQ' = agentQ \/ agentQ' = AgentEnqueues(agentQ, e)
    BY <1>18 DEF AgentCancelReturns, AgentCancelRaises, CancelsProducer, consVars
  <2>2. e \in Event /\ e.kind # "completed!" /\ e.req = None
    BY <1>f, <1>k
  <2> HIDE DEF e
  <2>3. agentQ' \in Loose(Event) /\ Items' \in {Items, Append(Items, e)}
    BY <1>0, <2>1, <2>2, <1>q DEF Items
  <2>4. SerialTypes' /\ Leaving
    BY <1>0, <1>i, <2>1, <2>3, SerialTyped DEF None
  <2> QED BY <2>1, <2>2, <2>3, <2>4, SerialGrows
<1>19. CASE AcloseQueues
  <2>1. /\ CloseAgentNow /\ reqQ' = QShutdown(reqQ, TRUE)
        /\ UNCHANGED <<prod, inHand, cons, prodReq, reqLock, lock>>
    BY <1>19 DEF AcloseQueues, consVars, prodVars
  <2>2. SerialTypes' /\ Leaving
    BY <1>0, <1>c, <1>r, <2>1, SerialTyped DEF Leaving
  <2> QED BY <2>1, <2>2, <1>b, <1>c, SerialShrinks
<1>20. CASE AcloseCancels
  <2>1. /\ InterruptProducer /\ UNCHANGED <<agentQ, inHand, prodReq, reqLock, lock>>
        /\ cons' \in Busy => cons \in Busy
    BY <1>20 DEF AcloseCancels, Busy, RefInv, ConsStates
  <2>2. SerialTypes' /\ Leaving
    BY <1>0, <1>i, <2>1, SerialTyped
  <2>3. Items' = Items
    BY <2>1 DEF Items
  <2> QED BY <2>1, <2>2, <2>3, <1>b, SerialShrinks
<1>21. CASE UNCHANGED vars
  <2>1. UNCHANGED <<agentQ, prod, inHand, prodReq, reqLock, reqQ, cons, lock>>
    BY <1>21 DEF vars, agentVars, prodVars, consVars
  <2>2. SerialTypes' /\ Leaving
    BY <1>0, <2>1, SerialTyped DEF Leaving
  <2>3. Items' = Items
    BY <2>1 DEF Items
  <2> QED BY <2>1, <2>2, <2>3, <1>b, SerialShrinks
<1>22. AgentEvents \subseteq Kinds
  BY ActiveTaskAssumption
<1> QED BY <1>1, <1>2, <1>3, <1>4, <1>5, <1>6, <1>7, <1>8, <1>9, <1>10, <1>11, <1>12,
           <1>13, <1>14, <1>15, <1>16, <1>17, <1>18, <1>19, <1>20, <1>21, <1>22
        DEF Next, Start, ProducerNext, AgentNext, ConsumerNext, CancelNext

\* At first nothing is queued.
LEMMA InitSerial == Init => SerialInv
<1> SUFFICES ASSUME Init PROVE SerialInv
  OBVIOUS
<1>1. /\ agentQ = QNew /\ reqQ = QNew /\ inHand = Ev("task", None) /\ prod = "off"
      /\ prodReq = None /\ cons = "off"
  BY DEF Init
<1>2. QNew \in Loose(Event) /\ QNew \in Loose(Senders) /\ QNew.items = <<>>
  <2>1. <<>> \in Seq(Event) /\ <<>> \in Seq(Senders)
    OBVIOUS
  <2> QED BY <2>1 DEF QNew, Loose
<1>3. inHand \in Event
  BY <1>1 DEF Ev, Event, Kinds
<1>4. SerialTypes
  BY <1>1, <1>2, <1>3 DEF SerialTypes, ProdStates
<1>5. Items = <<>> /\ cons \notin Busy
  BY <1>1, <1>2 DEF Items, Busy
<1>6. 1..Len(Items) = {} /\ Pending = {}
  BY <1>5 DEF Pending, Items, Busy
<1>7. MarksOwned
  BY <1>6 DEF MarksOwned
<1>8. RunsAlone
  BY <1>1 DEF RunsAlone
<1>9. EndsLast
  BY <1>6 DEF EndsLast
<1> QED BY <1>4, <1>7, <1>8, <1>9 DEF SerialInv

\* The agent runs for a request only when no event of an earlier one is left, whoever
\* subscribes, cancels or closes (active_task.py:519, 166-170).
THEOREM RequestsAreSerial == Spec => []SerialRequests
<1>1. SerialInv => SerialRequests
  BY DEF SerialInv, RunsAlone, SerialRequests
<1> QED BY <1>1, InitRefs, InitSerial, NextRefs, NextSerial, PTL DEF Spec

-----------------------------------------------------------------------------
(* Types, and that no queue is confirmed more often than it was read       *)

\* The variables that are no queue and neither counted nor part of the request under way.
PlainOK ==
    /\ task \in States /\ created \in BOOLEAN
    /\ mode \in {"unset", "task", "message"}
    /\ lock \in {None, "start"} \cup Cancelers
    /\ reqLock \in BOOLEAN /\ closingSubs \in SUBSET Subs
    /\ agentOpen \in BOOLEAN /\ agentAttached \in BOOLEAN /\ subsOpen \in BOOLEAN
    /\ attached \in SUBSET Subs
    /\ aclosing \in {"idle", "tasks", "drain", "done"}
    /\ sent \in Nat /\ terminalSent \in BOOLEAN

\* What is kept for each subscriber and each cancel().
ArraysOK ==
    /\ outcome \in [Subs -> Outcomes]
    /\ canc \in [Cancelers -> {"idle", "agent", "wait", "returned", "raised"}]
    /\ made \in [Subs -> Nat] /\ got \in [Subs -> Nat]

\* Every step keeps the first.
LEMMA NextPlain ==
    ASSUME RefInv, SerialInv, PlainOK, [Next]_vars
    PROVE  PlainOK'
<1> USE DEF PlainOK, taskVars, lifeVars, prodVars, consVars, agentVars, feedVars, subVars, history
<1>1. CASE Start
  BY <1>1 DEF Start, StartSucceeds, StartFails
<1>2. CASE ProducerBegins \/ ProducerGetsRequest \/ ProducerStartsRequest
  BY <1>2 DEF ProducerBegins, ProducerGetsRequest, ProducerStartsRequest
<1>12. CASE ProducerSeesShutdown \/ ProducerShutsSink
  BY <1>12 DEF ProducerSeesShutdown, ProducerShutsSink, ProducerWindsUp
<1>13. CASE ProducerFails
  <2>1. task' \in States
    BY <1>13 DEF ProducerFails, States, Terminal
  <2> QED BY <1>13, <2>1 DEF ProducerFails, ProducerWindsUp
<1>3. CASE ProducerShutsSubs \/ ProducerClosesSinks \/ ProducerEnds
  BY <1>3 DEF ProducerShutsSubs, ProducerClosesSinks, ProducerEnds
<1>4. CASE AgentReturns \/ ExecuteRaises \/ \E k \in AgentEvents : AgentEmits(k)
  <2>1. CASE AgentReturns \/ ExecuteRaises
    BY <2>1 DEF AgentReturns, ExecuteRaises
  <2>2. ASSUME NEW k \in AgentEvents, AgentEmits(k) PROVE PlainOK'
    <3>1. UNCHANGED <<taskVars, lock, prodVars, agentOpen, agentAttached, subsOpen, attached, aclosing>>
      BY <2>2 DEF AgentEmits
    <3>2. terminalSent' \in BOOLEAN /\ sent' \in Nat
      BY <2>2 DEF AgentEmits, Emits
    <3> QED BY <3>1, <3>2
  <2> QED BY <1>4, <2>1, <2>2
<1>5. CASE ConsumerNext
  <2>1. CASE ConsumerApplies
    <3>1. IsStatus(Taken.kind) => Taken.kind \in States
      BY DEF IsStatus
    <3>2. "submitted" \in States
      BY DEF States
    <3> QED BY <2>1, <3>1, <3>2 DEF ConsumerApplies, ConsumerTakes
  <2>2. CASE ConsumerReportsError
    BY <2>2 DEF ConsumerReportsError, Publish, ConsumerWindsUp, States, Terminal
  <2>3. CASE \/ ConsumerBegins \/ ConsumesMarker \/ ConsumesMessage \/ ConsumerRaises
             \/ ConsumerSettles \/ ConsumerPublishes
    BY <2>3 DEF ConsumerBegins, ConsumesMarker, ConsumesMessage, ConsumerRaises, ConsumerTakes,
                ConsumerSettles, ConsumerPublishes, Publish
  <2>4. CASE \/ ConsumerSeesShutdown \/ ConsumerDies \/ ConsumerAwaitsProducer
             \/ ConsumerUnrefs \/ ConsumerCleansUp
    BY <2>4 DEF ConsumerSeesShutdown, ConsumerDies, ConsumerAwaitsProducer, ConsumerUnrefs,
                ConsumerCleansUp, ConsumerWindsUp, CloseAgentNow
  <2> QED BY <1>5, <2>1, <2>2, <2>3, <2>4 DEF ConsumerNext
<1>6. CASE Dispatch
  <2>1. attached' \in SUBSET Subs
    BY <1>6, Zenon DEF Dispatch
  <2>2. UNCHANGED <<taskVars, lock, prodVars, agentVars, subsOpen, aclosing, history>>
    BY <1>6 DEF Dispatch
  <2> QED BY <2>1, <2>2
<1>7. ASSUME NEW s \in Subs, SubscribeNext(s) PROVE PlainOK'
  <2>1. attached' \in SUBSET Subs
    BY <1>7 DEF SubscribeNext, SubscribeRejected, Subscribes, SubscribeRefused
  <2>2. UNCHANGED <<taskVars, lock, prodVars, agentVars, subsOpen, aclosing, history>>
    BY <1>7 DEF SubscribeNext, SubscribeRejected, Subscribes, SubscribeRefused
  <2> QED BY <2>1, <2>2
<1>8. ASSUME NEW s \in Subs, (SubscriberNext(s) \/ Disconnect(s)) PROVE PlainOK'
  <2>1. attached' \in {attached, attached \ {s}}
    BY <1>8 DEF SubscriberNext, YieldInitial, StreamsEvent, ResumesStream, SkipsMarker, RequestDone,
                RaisesError, StreamEnds, Disconnect, Leaves, Unsubscribes, SubscriberCleansUp
  <2>2. UNCHANGED <<taskVars, lock, prodVars, agentVars, subsOpen, aclosing, history>>
    BY <1>8 DEF SubscriberNext, YieldInitial, StreamsEvent, ResumesStream, SkipsMarker, RequestDone,
                RaisesError, StreamEnds, Disconnect, Leaves, Others, Unsubscribes, SubscriberCleansUp
  <2> QED BY <2>1, <2>2
<1>9. ASSUME NEW c \in Cancelers, (CancelBegins(c) \/ CancelNext(c)) PROVE PlainOK'
  <2>1. CASE CancelBegins(c)
    BY <2>1 DEF CancelBegins
  <2>2. ASSUME NEW k \in CancelEvents, CancelEmits(c, k) PROVE PlainOK'
    <3>1. UNCHANGED <<taskVars, lock, prodVars, agentOpen, agentAttached, subsOpen, attached, aclosing>>
      BY <2>2 DEF CancelEmits
    <3>2. terminalSent' \in BOOLEAN /\ sent' \in Nat
      BY <2>2 DEF CancelEmits, Emits
    <3> QED BY <3>1, <3>2
  <2>3. CASE AgentCancelReturns(c) \/ AgentCancelRaises(c)
    <3>1. /\ lock' = None /\ agentOpen' \in {agentOpen, FALSE}
          /\ UNCHANGED <<taskVars, reqLock, closingSubs, agentAttached, subsOpen, attached, aclosing, history>>
      BY <2>3 DEF AgentCancelReturns, AgentCancelRaises, CancelsProducer, InterruptProducer
    <3> QED BY <3>1
  <2>4. CASE CancelReturns(c)
    <3>1. task' \in States
      BY <2>4 DEF CancelReturns, States, Terminal
    <3>2. UNCHANGED <<created, mode, lock, prodVars, agentVars, subsOpen, attached, aclosing, history>>
      BY <2>4 DEF CancelReturns
    <3> QED BY <3>1, <3>2
  <2> QED BY <1>9, <2>1, <2>2, <2>3, <2>4 DEF CancelNext
<1>10. CASE AcloseQueues \/ AcloseCancels \/ AcloseReturns
  BY <1>10 DEF AcloseQueues, AcloseCancels, AcloseReturns, InterruptProducer, CloseAgentNow
<1>11. CASE UNCHANGED vars
  BY <1>11 DEF vars
<1> QED BY <1>1, <1>2, <1>3, <1>4, <1>5, <1>6, <1>7, <1>8, <1>9, <1>10, <1>11, <1>12, <1>13
        DEF Next, ProducerNext, AgentNext

\* And the second.
LEMMA NextArrays ==
    ASSUME ArraysOK, [Next]_vars
    PROVE  ArraysOK'
<1> USE DEF ArraysOK, taskVars, lifeVars, prodVars, consVars, agentVars, feedVars, subVars, history
<1>1. CASE Start \/ ProducerNext \/ Dispatch
  <2>1. UNCHANGED <<outcome, got, canc, made>>
    <3>1. CASE Start
      BY <3>1 DEF Start, StartSucceeds, StartFails
    <3>2. CASE Dispatch
      BY <3>2 DEF Dispatch
    <3>3. CASE ProducerNext
      BY <3>3 DEF ProducerNext, ProducerBegins, ProducerGetsRequest, ProducerStartsRequest,
                  ProducerSeesShutdown, ProducerFails, ProducerShutsSink, ProducerShutsSubs,
                  ProducerClosesSinks, ProducerEnds
    <3> QED BY <1>1, <3>1, <3>2, <3>3
  <2> QED BY <2>1
<1>2. CASE AgentNext
  BY <1>2 DEF AgentNext, AgentReturns, ExecuteRaises, AgentEmits
<1>3. CASE ConsumerNext
  BY <1>3 DEF ConsumerNext, ConsumerBegins, ConsumesMarker, ConsumesMessage, ConsumerApplies,
              ConsumerRaises, ConsumerTakes, ConsumerSettles, ConsumerPublishes,
              ConsumerSeesShutdown, ConsumerReportsError, ConsumerDies, ConsumerAwaitsProducer,
              ConsumerUnrefs, ConsumerCleansUp
<1>4. ASSUME NEW s \in Subs, SubscribeNext(s) PROVE ArraysOK'
  BY <1>4 DEF SubscribeNext, SubscribeRejected, Subscribes, SubscribeRefused, Outcomes
<1>5. ASSUME NEW s \in Subs, (SubscriberNext(s) \/ Disconnect(s)) PROVE ArraysOK'
  <2>1. /\ outcome' = outcome \/ \E result \in Outcomes : outcome' = [outcome EXCEPT ![s] = result]
        /\ got' = got \/ got' = [got EXCEPT ![s] = @ + 1]
    BY <1>5 DEF SubscriberNext, YieldInitial, StreamsEvent, ResumesStream, SkipsMarker, RequestDone,
                RaisesError, StreamEnds, Disconnect, Leaves, Unsubscribes, SubscriberCleansUp, Outcomes
  <2>2. UNCHANGED <<canc, made>>
    BY <1>5 DEF SubscriberNext, YieldInitial, StreamsEvent, ResumesStream, SkipsMarker, RequestDone,
                RaisesError, StreamEnds, Disconnect, Leaves, Others, Unsubscribes, SubscriberCleansUp
  <2> QED BY <2>1, <2>2
<1>6. ASSUME NEW c \in Cancelers, (CancelBegins(c) \/ CancelNext(c)) PROVE ArraysOK'
  BY <1>6 DEF CancelBegins, CancelNext, CancelEmits, AgentCancelReturns, AgentCancelRaises,
              CancelReturns, CancelsProducer
<1>7. CASE AcloseQueues \/ AcloseCancels \/ AcloseReturns \/ UNCHANGED vars
  BY <1>7 DEF AcloseQueues, AcloseCancels, AcloseReturns, vars
<1> QED BY <1>1, <1>2, <1>3, <1>4, <1>5, <1>6, <1>7 DEF Next

\* A queue of which at least n items have been taken out and not been confirmed.
Held(E, n) == {q \in QType(E) : q.unfinished >= Len(q.items) + n}

\* What the operations do to it.
LEMMA HeldOps ==
    ASSUME NEW E, NEW n \in {0, 1}, NEW q \in Held(E, n)
    PROVE  /\ q \in QType(E) /\ q \in Held(E, 0)
           /\ \A e \in E : QPut(q, e) \in Held(E, n)
           /\ QCanGet(q) => /\ Head(q.items) \in E /\ QGet(q) \in Held(E, 1) /\ QGet(q) \in Held(E, n)
           /\ n = 1 => QDone(q) \in Held(E, 0)
           /\ \A now \in BOOLEAN : QShutdown(q, now) \in Held(E, n)
<1>1. q \in QType(E) /\ q.unfinished >= Len(q.items) + n /\ Len(q.items) \in Nat /\ q.unfinished \in Nat
  BY DEF Held, QType
<1>2. q \in Held(E, 0)
  BY <1>1 DEF Held
<1>s. q.items \in Seq(E)
  BY <1>1 DEF QType
<1>3. ASSUME NEW e \in E PROVE QPut(q, e) \in Held(E, n)
  <2>1. Append(q.items, e) \in Seq(E) /\ Len(Append(q.items, e)) = Len(q.items) + 1
    BY <1>s
  <2> QED BY <1>1, <2>1 DEF Held, QPut, QType
<1>4. QCanGet(q) => Head(q.items) \in E /\ QGet(q) \in Held(E, 1) /\ QGet(q) \in Held(E, n)
  <2> SUFFICES ASSUME QCanGet(q)
               PROVE  Head(q.items) \in E /\ QGet(q) \in Held(E, 1) /\ QGet(q) \in Held(E, n)
    OBVIOUS
  <2>1. /\ Head(q.items) \in E /\ Tail(q.items) \in Seq(E)
        /\ Len(Tail(q.items)) = Len(q.items) - 1
    BY <1>s DEF QCanGet
  <2>2. /\ QGet(q) \in QType(E) /\ QGet(q).unfinished = q.unfinished
        /\ QGet(q).items = Tail(q.items)
    BY <1>1, <2>1 DEF QGet, QType
  <2>3. Len(QGet(q).items) = Len(q.items) - 1 /\ Head(q.items) \in E
    BY <2>1, <2>2
  <2>4. /\ QGet(q).unfinished >= Len(QGet(q).items) + 1
        /\ QGet(q).unfinished >= Len(QGet(q).items) + n
    BY <1>1, <2>2, <2>3
  <2> QED BY <2>2, <2>3, <2>4 DEF Held
<1>5. ASSUME n = 1 PROVE QDone(q) \in Held(E, 0)
  BY <1>1, <1>5 DEF Held, QDone, QType
<1>6. ASSUME NEW now \in BOOLEAN PROVE QShutdown(q, now) \in Held(E, n)
  <2>1. CASE now
    <3>1. <<>> \in Seq(E) /\ Len(<<>>) = 0 /\ q.unfinished - Len(q.items) \in Nat
      BY <1>1
    <3> QED BY <1>1, <2>1, <3>1 DEF Held, QShutdown, QType
  <2>2. CASE ~now
    <3>1. QShutdown(q, now) = [q EXCEPT !.down = TRUE]
      BY <2>2 DEF QShutdown
    <3> QED BY <1>1, <3>1 DEF Held, QType
  <2> QED BY <2>1, <2>2
<1> QED BY <1>1, <1>2, <1>3, <1>4, <1>5, <1>6

\* What has been taken out of each queue and not been confirmed.
InConsumer == IF cons \in Busy THEN 1 ELSE 0
InProducer == IF prod \in {"lock", "exec"} THEN 1 ELSE 0
InClient(s) == IF sub[s] = "yield" THEN 1 ELSE 0

AgentHeld == agentQ \in Held(Event, InConsumer)
ReqHeld   == reqQ \in Held(Senders, InProducer)
SubsHeld  == /\ subsIn \in Seq(Event)
             /\ subQ = [s \in Subs |-> subQ[s]]
             /\ \A s \in Subs : subQ[s] \in Held(Event, InClient(s))

\* The agent's queue.
LEMMA NextAgentHeld ==
    ASSUME RefInv, SerialInv, AgentHeld, [Next]_vars
    PROVE  AgentHeld'
<1>0. InConsumer \in {0, 1} /\ agentQ \in Held(Event, InConsumer) /\ agentQ \in Held(Event, 0)
  <2>1. InConsumer \in {0, 1} /\ agentQ \in Held(Event, InConsumer)
    BY DEF InConsumer, AgentHeld
  <2> QED BY <2>1, HeldOps
<1>1. ASSUME UNCHANGED agentQ, (cons' = cons \/ cons' \notin Busy \/ cons \in Busy) PROVE AgentHeld'
  BY <1>0, <1>1 DEF AgentHeld, InConsumer
<1>2. ASSUME NEW e \in Event, agentQ' = AgentEnqueues(agentQ, e), UNCHANGED cons PROVE AgentHeld'
  <2>1. QPut(agentQ, e) \in Held(Event, InConsumer)
    BY <1>0, HeldOps
  <2> QED BY <1>0, <1>2, <2>1 DEF AgentHeld, InConsumer, AgentEnqueues
<1>3. ASSUME CloseAgentNow, (cons' = cons \/ cons' \notin Busy) PROVE AgentHeld'
  <2>1. /\ QShutdown(agentQ, TRUE) \in Held(Event, InConsumer)
        /\ QShutdown(agentQ, TRUE) \in Held(Event, 0)
    BY <1>0, HeldOps
  <2> QED BY <1>0, <1>3, <2>1 DEF AgentHeld, InConsumer, CloseAgentNow
<1>4. /\ \A k \in Kinds \cup Markers, r \in Subs \cup {None} : Ev(k, r) \in Event
      /\ prodReq \in Subs \cup {None} /\ "failed" \in Kinds
      /\ {"started", "completed!", "error"} \subseteq Markers
  BY DEF Ev, Event, SerialInv, SerialTypes, Kinds, States, Terminal, None, Markers
<1>5. ASSUME CanTake PROVE /\ Taken \in Event /\ QGet(agentQ) \in Held(Event, 1)
                           /\ QDone(QGet(agentQ)) \in Held(Event, 0)
  <2>1. QGet(agentQ) \in Held(Event, 1) /\ Taken \in Event
    BY <1>0, <1>5, HeldOps DEF CanTake, Taken
  <2> QED BY <2>1, HeldOps
<1>6. CASE Start
  BY <1>1, <1>6 DEF Start, StartSucceeds, StartFails, agentVars, consVars, Busy
<1>7. CASE \/ ProducerBegins \/ ProducerGetsRequest \/ ProducerSeesShutdown \/ ProducerShutsSubs
           \/ ProducerClosesSinks \/ ProducerEnds \/ ExecuteRaises
  BY <1>1, <1>7 DEF ProducerBegins, ProducerGetsRequest, ProducerSeesShutdown, ProducerShutsSubs,
                    ProducerClosesSinks, ProducerEnds, ExecuteRaises, agentVars, consVars
<1>8. CASE ProducerStartsRequest \/ ProducerFails \/ AgentReturns
  <2>1. /\ UNCHANGED cons
        /\ \E k \in Markers : agentQ' = AgentEnqueues(agentQ, Ev(k, prodReq))
    BY <1>4, <1>8 DEF ProducerStartsRequest, ProducerFails, AgentReturns, consVars
  <2> QED BY <1>2, <1>4, <2>1
<1>9. CASE ProducerShutsSink
  <2>1. QShutdown(agentQ, FALSE) \in Held(Event, InConsumer)
    BY <1>0, HeldOps
  <2> QED BY <1>9, <2>1 DEF ProducerShutsSink, AgentHeld, InConsumer, consVars
<1>10. ASSUME NEW k \in AgentEvents, AgentEmits(k) PROVE AgentHeld'
  <2>1. UNCHANGED cons /\ agentQ' = AgentEnqueues(agentQ, Ev(k, prodReq)) /\ k \in Kinds
    BY <1>10, ActiveTaskAssumption DEF AgentEmits, Emits, consVars
  <2> QED BY <1>2, <1>4, <2>1
<1>11. CASE ConsumesMarker \/ ConsumesMessage
  <2>1. CanTake /\ UNCHANGED cons /\ agentQ' = QDone(QGet(agentQ)) /\ cons = "get"
    BY <1>11 DEF ConsumesMarker, ConsumesMessage, CanTake, consVars
  <2> QED BY <1>5, <2>1 DEF AgentHeld, InConsumer, Busy
<1>12. CASE ConsumerApplies \/ ConsumerRaises
  <2>1. CanTake /\ cons' \in Busy /\ agentQ' = QGet(agentQ)
    BY <1>12 DEF ConsumerApplies, ConsumerRaises, ConsumerTakes, Busy
  <2> QED BY <1>5, <2>1 DEF AgentHeld, InConsumer
<1>13. CASE ConsumerPublishes
  <2>1. cons = "publish" /\ cons' = "get" /\ agentQ' = QDone(agentQ)
    BY <1>13 DEF ConsumerPublishes
  <2>2. QDone(agentQ) \in Held(Event, 0)
    BY <1>0, <2>1, HeldOps DEF InConsumer, Busy
  <2> QED BY <2>1, <2>2 DEF AgentHeld, InConsumer, Busy
<1>14. CASE ConsumerReportsError
  <2>1. /\ cons = "crash" /\ cons' = "await"
        /\ agentQ' = IF agentAttached THEN QShutdown(QDone(agentQ), TRUE) ELSE QDone(agentQ)
    BY <1>14 DEF ConsumerReportsError, ConsumerWindsUp
  <2>2. QDone(agentQ) \in Held(Event, 0)
    BY <1>0, <2>1, HeldOps DEF InConsumer, Busy
  <2>3. QShutdown(QDone(agentQ), TRUE) \in Held(Event, 0)
    BY <2>2, HeldOps
  <2> QED BY <2>1, <2>2, <2>3 DEF AgentHeld, InConsumer, Busy
<1>15. CASE ConsumerSeesShutdown \/ ConsumerDies
  <2>1. CloseAgentNow /\ cons' = "await"
    BY <1>15 DEF ConsumerSeesShutdown, ConsumerDies, ConsumerWindsUp
  <2> QED BY <1>3, <2>1 DEF Busy
<1>16. CASE \/ ConsumerBegins \/ ConsumerSettles \/ ConsumerAwaitsProducer \/ ConsumerUnrefs
            \/ ConsumerCleansUp
  BY <1>1, <1>16 DEF ConsumerBegins, ConsumerSettles, ConsumerAwaitsProducer, ConsumerUnrefs,
                     ConsumerCleansUp, Busy, agentVars
<1>17. CASE Dispatch \/ UNCHANGED vars
  BY <1>1, <1>17 DEF Dispatch, vars, agentVars, consVars
<1>18. ASSUME NEW s \in Subs, (SubscribeNext(s) \/ SubscriberNext(s) \/ Disconnect(s))
       PROVE  AgentHeld'
  <2>1. UNCHANGED <<agentQ, cons>>
    BY <1>18 DEF SubscribeNext, SubscribeRejected, Subscribes, SubscribeRefused, SubscriberNext,
                 YieldInitial, StreamsEvent, ResumesStream, SkipsMarker, RequestDone, RaisesError,
                 StreamEnds, Disconnect, Leaves, Others, Unsubscribes, SubscriberCleansUp,
                 agentVars, consVars
  <2> QED BY <1>1, <2>1
<1>19. ASSUME NEW c \in Cancelers, (CancelBegins(c) \/ CancelNext(c)) PROVE AgentHeld'
  <2>1. CASE CancelBegins(c) \/ AgentCancelReturns(c) \/ CancelReturns(c)
    <3>1. UNCHANGED <<agentQ, cons>>
      BY <2>1 DEF CancelBegins, AgentCancelReturns, CancelReturns, CancelsProducer, agentVars, consVars
    <3> QED BY <1>1, <3>1
  <2>2. ASSUME NEW k \in CancelEvents, CancelEmits(c, k) PROVE AgentHeld'
    <3>1. UNCHANGED cons /\ agentQ' = AgentEnqueues(agentQ, Ev(k, None)) /\ k \in Kinds
      BY <2>2, ActiveTaskAssumption DEF CancelEmits, Emits, consVars
    <3> QED BY <1>2, <1>4, <3>1
  <2>3. CASE AgentCancelRaises(c)
    <3>1. /\ UNCHANGED cons
          /\ agentQ' = agentQ \/ agentQ' = AgentEnqueues(agentQ, Ev("failed", None))
      BY <2>3 DEF AgentCancelRaises, CancelsProducer, consVars
    <3> QED BY <1>1, <1>2, <1>4, <3>1
  <2> QED BY <1>19, <2>1, <2>2, <2>3 DEF CancelNext
<1>20. CASE AcloseQueues
  BY <1>3, <1>20 DEF AcloseQueues, consVars
<1>21. CASE AcloseCancels
  <2>1. UNCHANGED agentQ /\ cons' \notin Busy
    BY <1>21 DEF AcloseCancels, Busy, RefInv, ConsStates
  <2> QED BY <1>1, <2>1
<1>22. CASE AcloseReturns
  BY <1>1, <1>22 DEF AcloseReturns, agentVars, consVars
<1> QED BY <1>6, <1>7, <1>8, <1>9, <1>10, <1>11, <1>12, <1>13, <1>14, <1>15, <1>16, <1>17, <1>18,
           <1>19, <1>20, <1>21, <1>22 DEF Next, ProducerNext, AgentNext, ConsumerNext

\* The queue of requests.
LEMMA NextReqHeld ==
    ASSUME RefInv, SerialInv, ReqHeld, [Next]_vars
    PROVE  ReqHeld'
<1>0. InProducer \in {0, 1} /\ reqQ \in Held(Senders, InProducer) /\ reqQ \in Held(Senders, 0)
  <2>1. InProducer \in {0, 1} /\ reqQ \in Held(Senders, InProducer)
    BY DEF InProducer, ReqHeld
  <2> QED BY <2>1, HeldOps
<1>d. QShutdown(reqQ, TRUE) \in Held(Senders, InProducer) /\ QShutdown(reqQ, TRUE) \in Held(Senders, 0)
  BY <1>0, HeldOps
<1>1. ASSUME reqQ' \in {reqQ, QShutdown(reqQ, TRUE)},
             (prod' = prod \/ prod' \notin {"lock", "exec"} \/ prod \in {"lock", "exec"})
      PROVE  ReqHeld'
  BY <1>0, <1>d, <1>1 DEF ReqHeld, InProducer
<1>i. ASSUME InterruptProducer PROVE ReqHeld'
  <2>1. prod' \notin {"lock", "exec"}
    BY <1>i DEF InterruptProducer
  <2>2. CASE prod = "exec"
    <3>1. QDone(reqQ) \in Held(Senders, 0)
      BY <1>0, <2>2, HeldOps DEF InProducer
    <3>2. QShutdown(QDone(reqQ), TRUE) \in Held(Senders, 0)
      BY <3>1, HeldOps
    <3>3. reqQ' = QShutdown(QDone(reqQ), TRUE)
      BY <1>i, <2>2 DEF InterruptProducer
    <3> QED BY <2>1, <3>2, <3>3 DEF ReqHeld, InProducer
  <2>3. CASE prod # "exec"
    <3>1. reqQ' \in {reqQ, QShutdown(reqQ, TRUE)}
      BY <1>i, <2>3 DEF InterruptProducer
    <3> QED BY <1>1, <2>1, <3>1
  <2> QED BY <2>2, <2>3
<1>2. CASE Start
  BY <1>1, <1>2 DEF Start, StartSucceeds, StartFails, prodVars
<1>3. CASE \/ ProducerBegins \/ ProducerStartsRequest \/ ProducerSeesShutdown \/ ProducerFails
           \/ ProducerShutsSink \/ ProducerShutsSubs \/ ProducerClosesSinks \/ ProducerEnds
  <2>1. /\ reqQ' \in {reqQ, QShutdown(reqQ, TRUE)}
        /\ prod' \notin {"lock", "exec"} \/ prod \in {"lock", "exec"}
    BY <1>3 DEF ProducerBegins, ProducerStartsRequest, ProducerSeesShutdown, ProducerFails,
                ProducerShutsSink, ProducerShutsSubs, ProducerClosesSinks, ProducerEnds, ProducerWindsUp
  <2> QED BY <1>1, <2>1
<1>4. CASE ProducerGetsRequest
  <2>1. prod' = "lock" /\ QCanGet(reqQ) /\ reqQ' = QGet(reqQ)
    BY <1>4 DEF ProducerGetsRequest
  <2>2. QGet(reqQ) \in Held(Senders, 1)
    BY <1>0, <2>1, HeldOps
  <2> QED BY <2>1, <2>2 DEF ReqHeld, InProducer
<1>5. CASE AgentReturns \/ ExecuteRaises
  <2>1. prod = "exec" /\ prod' \in {"get", "failed"} /\ reqQ' = QDone(reqQ)
    BY <1>5 DEF AgentReturns, ExecuteRaises
  <2>2. QDone(reqQ) \in Held(Senders, 0)
    BY <1>0, <2>1, HeldOps DEF InProducer
  <2> QED BY <2>1, <2>2 DEF ReqHeld, InProducer
<1>6. ASSUME NEW k \in AgentEvents, AgentEmits(k) PROVE ReqHeld'
  BY <1>1, <1>6 DEF AgentEmits, prodVars
<1>7. CASE ConsumerNext
  <2>1. reqQ' \in {reqQ, QShutdown(reqQ, TRUE)} /\ UNCHANGED prod
    BY <1>7 DEF ConsumerNext, ConsumerBegins, ConsumesMarker, ConsumesMessage, ConsumerApplies,
                ConsumerRaises, ConsumerTakes, ConsumerSettles, ConsumerPublishes,
                ConsumerSeesShutdown, ConsumerReportsError, ConsumerDies, ConsumerAwaitsProducer,
                ConsumerUnrefs, ConsumerCleansUp, ConsumerWindsUp, prodVars
  <2> QED BY <1>1, <2>1
<1>8. CASE Dispatch \/ AcloseQueues \/ AcloseReturns \/ UNCHANGED vars
  BY <1>1, <1>8 DEF Dispatch, AcloseQueues, AcloseReturns, vars, prodVars
<1>9. ASSUME NEW s \in Subs, (SubscribeNext(s) \/ SubscriberNext(s) \/ Disconnect(s))
      PROVE  ReqHeld'
  <2>1. /\ UNCHANGED prod
        /\ reqQ' = reqQ \/ (s \in Senders /\ reqQ' = QPut(reqQ, s))
    BY <1>9 DEF SubscribeNext, SubscribeRejected, Subscribes, SubscribeRefused, SubscriberNext,
                YieldInitial, StreamsEvent, ResumesStream, SkipsMarker, RequestDone, RaisesError,
                StreamEnds, Disconnect, Leaves, Others, Unsubscribes, SubscriberCleansUp, prodVars
  <2>2. s \in Senders => QPut(reqQ, s) \in Held(Senders, InProducer)
    BY <1>0, HeldOps
  <2> QED BY <1>0, <2>1, <2>2 DEF ReqHeld, InProducer
<1>10. ASSUME NEW c \in Cancelers, (CancelBegins(c) \/ CancelNext(c)) PROVE ReqHeld'
  BY <1>1, <1>i, <1>10 DEF CancelBegins, CancelNext, CancelEmits, AgentCancelReturns,
                           AgentCancelRaises, CancelReturns, CancelsProducer, prodVars
<1>11. CASE AcloseCancels
  BY <1>i, <1>11 DEF AcloseCancels
<1> QED BY <1>2, <1>3, <1>4, <1>5, <1>6, <1>7, <1>8, <1>9, <1>10, <1>11
        DEF Next, ProducerNext, AgentNext

\* The queues of the subscribers, and the one that feeds them.
LEMMA NextSubsHeld ==
    ASSUME RefInv, SerialInv, AgentHeld, SubsHeld, [Next]_vars
    PROVE  SubsHeld'
<1>0. /\ subsIn \in Seq(Event) /\ subQ = [s \in Subs |-> subQ[s]]
      /\ \A s \in Subs : InClient(s) \in {0, 1} /\ subQ[s] \in Held(Event, InClient(s))
      /\ \A s \in Subs : subQ[s] \in Held(Event, 0)
  <2>1. /\ subsIn \in Seq(Event) /\ subQ = [s \in Subs |-> subQ[s]]
        /\ \A s \in Subs : InClient(s) \in {0, 1} /\ subQ[s] \in Held(Event, InClient(s))
    BY DEF SubsHeld, InClient
  <2> QED BY <2>1, HeldOps
<1>1. ASSUME UNCHANGED <<subQ, sub>>, subsIn' \in Seq(Event) PROVE SubsHeld'
  BY <1>0, <1>1 DEF SubsHeld, InClient
\* What every queue turns into when nobody streams an event.
<1>2. ASSUME subsIn' \in Seq(Event), UNCHANGED sub, subQ' = [s \in Subs |-> subQ'[s]],
             \A s \in Subs : subQ'[s] \in Held(Event, InClient(s))
      PROVE  SubsHeld'
  BY <1>2 DEF SubsHeld, InClient
\* What one queue turns into when its subscriber moves on.
<1>3. ASSUME NEW s \in Subs, UNCHANGED subsIn, NEW q, NEW to, NEW n \in {0, 1},
             subQ' = [subQ EXCEPT ![s] = q], sub' = [sub EXCEPT ![s] = to],
             q \in Held(Event, n), (to = "yield" => n = 1), (to # "yield" => n = 0)
      PROVE  SubsHeld'
  <2>1. subQ' = [t \in Subs |-> subQ'[t]] /\ subQ'[s] = q /\ sub'[s] = to
    BY <1>0, <1>3 DEF RefInv
  <2>2. \A t \in Subs \ {s} : subQ'[t] = subQ[t] /\ sub'[t] = sub[t]
    BY <1>0, <1>3
  <2>3. \A t \in Subs : subQ'[t] \in Held(Event, IF sub'[t] = "yield" THEN 1 ELSE 0)
    BY <1>0, <1>3, <2>1, <2>2 DEF InClient
  <2> QED BY <1>0, <1>3, <2>1, <2>3 DEF SubsHeld, InClient
<1>4. CASE Start \/ AgentNext \/ AcloseCancels \/ AcloseReturns \/ UNCHANGED vars
  <2>1. UNCHANGED <<subQ, sub, subsIn>>
    BY <1>4 DEF Start, StartSucceeds, StartFails, AgentNext, AgentEmits, AgentReturns,
                ExecuteRaises, AcloseCancels, AcloseReturns, vars, feedVars, subVars
  <2> QED BY <1>0, <1>1, <2>1
<1>5. CASE ProducerNext /\ ~ProducerClosesSinks
  <2>1. UNCHANGED <<subQ, sub, subsIn>>
    BY <1>5 DEF ProducerNext, ProducerBegins, ProducerGetsRequest, ProducerStartsRequest,
                ProducerSeesShutdown, ProducerFails, ProducerShutsSink, ProducerShutsSubs,
                ProducerEnds, feedVars, subVars
  <2> QED BY <1>0, <1>1, <2>1
<1>6. CASE ProducerClosesSinks
  <2>1. /\ UNCHANGED <<sub, subsIn>>
        /\ subQ' = [s \in Subs |-> IF s \in closingSubs THEN QShutdown(subQ[s], FALSE) ELSE subQ[s]]
    BY <1>6 DEF ProducerClosesSinks, feedVars
  <2>2. \A s \in Subs : QShutdown(subQ[s], FALSE) \in Held(Event, InClient(s))
    BY <1>0, HeldOps
  <2>3. \A s \in Subs : subQ'[s] \in Held(Event, InClient(s))
    BY <1>0, <2>1, <2>2
  <2>4. subQ' = [s \in Subs |-> subQ'[s]]
    BY <2>1
  <2> QED BY <1>0, <1>2, <2>1, <2>3, <2>4
<1>7. CASE ConsumerNext
  <2>1. /\ UNCHANGED <<subQ, sub>>
        /\ \/ UNCHANGED subsIn
           \/ CanTake /\ subsIn' = Append(subsIn, Taken)
           \/ subsIn' = Append(subsIn, inHand)
           \/ subsIn' = Append(subsIn, Ev("error", inHand.req))
    BY <1>7 DEF ConsumerNext, ConsumerBegins, ConsumesMarker, ConsumesMessage, ConsumerApplies,
                ConsumerRaises, ConsumerTakes, ConsumerSettles, ConsumerPublishes,
                ConsumerSeesShutdown, ConsumerReportsError, ConsumerDies, ConsumerAwaitsProducer,
                ConsumerUnrefs, ConsumerCleansUp, Publish, feedVars, subVars
  <2>2. CanTake => Taken \in Event
    <3>1. \E n \in {0, 1} : agentQ \in Held(Event, n)
      BY DEF AgentHeld, InConsumer
    <3> QED BY <3>1, HeldOps DEF CanTake, Taken
  <2>3. inHand \in Event /\ Ev("error", inHand.req) \in Event
    BY DEF SerialInv, SerialTypes, Ev, Event, Markers
  <2>4. subsIn' \in Seq(Event)
    BY <1>0, <2>1, <2>2, <2>3
  <2> QED BY <1>1, <2>1, <2>4
<1>8. CASE Dispatch
  <2> DEFINE full == {s \in attached : QFull(subQ[s], SubCapacity)}
  <2>1. /\ UNCHANGED sub /\ subsIn # <<>> /\ subsIn' = Tail(subsIn)
        /\ subQ' = [s \in Subs |-> IF s \in full THEN QShutdown(subQ[s], TRUE)
                                   ELSE IF s \in attached THEN QPut(subQ[s], Head(subsIn))
                                   ELSE subQ[s]]
    BY <1>8, Zenon DEF Dispatch
  <2> HIDE DEF full
  <2>2. subsIn' \in Seq(Event) /\ Head(subsIn) \in Event
    BY <1>0, <2>1
  <2>3. \A s \in Subs : /\ QShutdown(subQ[s], TRUE) \in Held(Event, InClient(s))
                        /\ QPut(subQ[s], Head(subsIn)) \in Held(Event, InClient(s))
    BY <1>0, <2>2, HeldOps
  <2>4. \A s \in Subs : subQ'[s] \in Held(Event, InClient(s))
    BY <1>0, <2>1, <2>3
  <2>5. subQ' = [s \in Subs |-> subQ'[s]]
    BY <2>1
  <2> QED BY <1>2, <2>1, <2>2, <2>4, <2>5
<1>9. ASSUME NEW s \in Subs, SubscribeNext(s) PROVE SubsHeld'
  <2>1. /\ UNCHANGED <<subQ, subsIn>> /\ sub[s] = "idle"
        /\ \E to \in {"done", "stream", "initial"} : sub' = [sub EXCEPT ![s] = to]
    BY <1>9 DEF SubscribeNext, SubscribeRejected, Subscribes, SubscribeRefused, feedVars
  <2>2. \A t \in Subs : InClient(t)' = InClient(t)
    BY <2>1 DEF InClient, RefInv
  <2> QED BY <1>0, <2>1, <2>2 DEF SubsHeld
<1>10. ASSUME NEW s \in Subs, (YieldInitial(s) \/ Unsubscribes(s) \/ SubscriberCleansUp(s))
       PROVE  SubsHeld'
  <2>1. /\ UNCHANGED <<subQ, subsIn>> /\ sub[s] # "yield"
        /\ \E to \in {"done", "stream", "cleanup"} : sub' = [sub EXCEPT ![s] = to]
    BY <1>10 DEF YieldInitial, Unsubscribes, SubscriberCleansUp, feedVars
  <2>2. \A t \in Subs : InClient(t)' = InClient(t)
    BY <2>1 DEF InClient, RefInv
  <2> QED BY <1>0, <2>1, <2>2 DEF SubsHeld
<1>11. ASSUME NEW s \in Subs, QCanGet(subQ[s]) PROVE QGet(subQ[s]) \in Held(Event, 1) /\ QGet(subQ[s]) \in Held(Event, 0)
  BY <1>0, <1>11, HeldOps
<1>12. ASSUME NEW s \in Subs, sub[s] = "yield" PROVE QDone(subQ[s]) \in Held(Event, 0)
  BY <1>0, <1>12, HeldOps DEF InClient
<1>13. ASSUME NEW s \in Subs, StreamsEvent(s) PROVE SubsHeld'
  BY <1>3, <1>11, <1>13 DEF StreamsEvent, Others, feedVars
<1>14. ASSUME NEW s \in Subs, ResumesStream(s) PROVE SubsHeld'
  BY <1>3, <1>12, <1>14 DEF ResumesStream, Others, feedVars
<1>15. ASSUME NEW s \in Subs, SkipsMarker(s) PROVE SubsHeld'
  <2>1. /\ UNCHANGED <<sub, subsIn>> /\ sub[s] = "stream" /\ QCanGet(subQ[s])
        /\ subQ' = [subQ EXCEPT ![s] = QGet(subQ[s])]
    BY <1>15 DEF SkipsMarker, Others, feedVars
  <2>2. sub' = [sub EXCEPT ![s] = "stream"]
    BY <2>1 DEF RefInv
  <2> QED BY <1>3, <1>11, <2>1, <2>2
<1>16. ASSUME NEW s \in Subs, NEW q \in Held(Event, 0), NEW result, Leaves(s, q, result) PROVE SubsHeld'
  <2>1. QShutdown(q, TRUE) \in Held(Event, 0)
    BY HeldOps
  <2>2. /\ subQ' = [subQ EXCEPT ![s] = QShutdown(q, TRUE)] /\ sub' = [sub EXCEPT ![s] = "unref"]
        /\ UNCHANGED subsIn
    BY <1>16 DEF Leaves, Others, feedVars
  <2> QED BY <1>3, <2>1, <2>2
<1>17. ASSUME NEW s \in Subs, (RequestDone(s) \/ RaisesError(s) \/ StreamEnds(s) \/ Disconnect(s))
       PROVE  SubsHeld'
  <2>1. CASE RequestDone(s) \/ RaisesError(s)
    BY <1>11, <1>16, <2>1 DEF RequestDone, RaisesError
  <2>2. CASE StreamEnds(s)
    BY <1>0, <1>16, <2>2 DEF StreamEnds
  <2>3. CASE Disconnect(s)
    BY <1>0, <1>12, <1>16, <2>3 DEF Disconnect
  <2> QED BY <1>17, <2>1, <2>2, <2>3
<1>18. ASSUME NEW c \in Cancelers, (CancelBegins(c) \/ CancelNext(c)) PROVE SubsHeld'
  <2>1. UNCHANGED <<subQ, sub, subsIn>>
    BY <1>18 DEF CancelBegins, CancelNext, CancelEmits, AgentCancelReturns, AgentCancelRaises,
                 CancelReturns, CancelsProducer, feedVars, subVars
  <2> QED BY <1>0, <1>1, <2>1
<1>19. CASE AcloseQueues
  <2>1. /\ UNCHANGED sub /\ subsIn' = <<>>
        /\ subQ' = [s \in Subs |-> IF s \in attached THEN QShutdown(subQ[s], TRUE) ELSE subQ[s]]
    BY <1>19 DEF AcloseQueues
  <2>2. \A s \in Subs : QShutdown(subQ[s], TRUE) \in Held(Event, InClient(s))
    BY <1>0, HeldOps
  <2>3. \A s \in Subs : subQ'[s] \in Held(Event, InClient(s))
    BY <1>0, <2>1, <2>2
  <2>4. subQ' = [s \in Subs |-> subQ'[s]]
    BY <2>1
  <2>5. subsIn' \in Seq(Event)
    BY <2>1
  <2> QED BY <1>2, <2>1, <2>3, <2>4, <2>5
<1> QED BY <1>4, <1>5, <1>6, <1>7, <1>8, <1>9, <1>10, <1>13, <1>14, <1>15, <1>17, <1>18, <1>19
        DEF Next, SubscriberNext

TypeInv == PlainOK /\ ArraysOK /\ AgentHeld /\ ReqHeld /\ SubsHeld

\* What start() finds.
LEMMA InitTypes == Init => TypeInv
<1> SUFFICES ASSUME Init PROVE TypeInv
  OBVIOUS
<1> USE DEF Init
<1>1. PlainOK
  <2>1. task \in States
    BY ActiveTaskAssumption
  <2> QED BY <2>1, ActiveTaskAssumption DEF PlainOK, None
<1>2. ArraysOK
  BY DEF ArraysOK, Outcomes
<1>3. \A E : QNew \in Held(E, 0)
  BY DEF Held, QNew, QType
<1>4. AgentHeld /\ ReqHeld
  BY <1>3 DEF AgentHeld, ReqHeld, InConsumer, InProducer, Busy
<1>5. SubsHeld
  BY <1>3 DEF SubsHeld, InClient
<1> QED BY <1>1, <1>2, <1>4, <1>5 DEF TypeInv

\* Every step of it all.
LEMMA NextTypes == RefInv /\ SerialInv /\ TypeInv /\ [Next]_vars => TypeInv'
  BY NextPlain, NextArrays, NextAgentHeld, NextReqHeld, NextSubsHeld DEF TypeInv

\* Counters never go below zero, no queue is confirmed more often than it was read, and every
\* variable has its type, for any number of subscribers, cancels and events.
THEOREM TypeCorrect == Spec => []TypeOK
<1>1. RefInv /\ SerialInv /\ TypeInv => TypeOK
  <2> SUFFICES ASSUME RefInv, SerialInv, TypeInv PROVE TypeOK
    OBVIOUS
  <2>1. refs \in Nat
    BY Counted DEF RefInv
  <2>2. agentQ \in QType(Event) /\ reqQ \in QType(Senders)
    BY DEF TypeInv, AgentHeld, ReqHeld, Held
  <2>3. subsIn \in Seq(Event) /\ subQ \in [Subs -> QType(Event)]
    BY DEF TypeInv, SubsHeld, Held
  <2> QED BY <2>1, <2>2, <2>3 DEF TypeInv, PlainOK, ArraysOK, RefInv, SerialInv, SerialTypes, TypeOK
<1> QED BY <1>1, InitRefs, InitSerial, InitTypes, NextRefs, NextSerial, NextTypes, PTL DEF Spec

-----------------------------------------------------------------------------
(* A stream that ends with its request carried all its events              *)

\* An event that the agent enqueued for the request s, and the mark at the end of that request.
Of(e, s) == e.kind \in Kinds /\ e.req = s
End(s) == Ev("completed!", s)

\* Where the events of s stand in a queue, and how many they are.
Places(q, s) == {i \in 1..Len(q) : Of(q[i], s)}
Count(q, s) == Cardinality(Places(q, s))
Ends(q, s) == \E i \in 1..Len(q) : q[i] = End(s)

\* No event of s comes after its end; nothing of s is there at all.
Ordered(q, s) == \A i, j \in 1..Len(q) : i < j /\ q[i] = End(s) => ~Of(q[j], s)
NoneOf(q, s) == \A i \in 1..Len(q) : q[i].req # s

\* p is the beginning of q.
Starts(p, q) == Len(p) <= Len(q) /\ \A i \in 1..Len(p) : p[i] = q[i]

\* Places are finitely many.
LEMMA PlacesFinite ==
    ASSUME NEW q \in Seq(Event), NEW s
    PROVE  IsFiniteSet(Places(q, s)) /\ Count(q, s) \in Nat
<1>1. Len(q) \in Nat /\ IsFiniteSet(1..Len(q))
  BY FS_Interval
<1>2. IsFiniteSet(Places(q, s))
  BY <1>1, FS_Subset DEF Places
<1> QED BY <1>2, FS_CardinalityType DEF Count

\* What an event at the end of a queue changes.
LEMMA AfterAppend ==
    ASSUME NEW q \in Seq(Event), NEW e \in Event, NEW s
    PROVE  /\ Count(Append(q, e), s) = Count(q, s) + (IF Of(e, s) THEN 1 ELSE 0)
           /\ Ends(Append(q, e), s) <=> Ends(q, s) \/ e = End(s)
           /\ Ordered(q, s) /\ (Ends(q, s) => ~Of(e, s)) => Ordered(Append(q, e), s)
<1> DEFINE p == Append(q, e)
<1>1. /\ Len(q) \in Nat /\ Len(p) = Len(q) + 1 /\ p[Len(q) + 1] = e
      /\ \A i \in 1..Len(q) : p[i] = q[i]
  BY AppendProperties
<1> HIDE DEF p
<1>2. \A i : i \in 1..Len(p) <=> i \in 1..Len(q) \/ i = Len(q) + 1
  BY <1>1
<1>3. Count(p, s) = Count(q, s) + (IF Of(e, s) THEN 1 ELSE 0)
  <2>1. Len(q) + 1 \notin Places(q, s)
    BY <1>1 DEF Places
  <2>2. CASE Of(e, s)
    <3>1. Places(p, s) = Places(q, s) \cup {Len(q) + 1}
      BY <1>1, <1>2, <2>2 DEF Places
    <3> QED BY <2>1, <2>2, <3>1, PlacesFinite, FS_AddElement DEF Count
  <2>3. CASE ~Of(e, s)
    <3>1. Places(p, s) = Places(q, s)
      BY <1>1, <1>2, <2>3 DEF Places
    <3> QED BY <2>3, <3>1, PlacesFinite DEF Count
  <2> QED BY <2>2, <2>3
<1>4. Ends(p, s) <=> Ends(q, s) \/ e = End(s)
  BY <1>1, <1>2 DEF Ends
<1>5. ASSUME Ordered(q, s), (Ends(q, s) => ~Of(e, s)) PROVE Ordered(p, s)
  <2> SUFFICES ASSUME NEW i \in 1..Len(p), NEW j \in 1..Len(p), i < j, p[i] = End(s)
               PROVE  ~Of(p[j], s)
    BY DEF Ordered
  <2>1. i \in 1..Len(q) /\ q[i] = End(s)
    BY <1>1
  <2>2. CASE j \in 1..Len(q)
    BY <1>1, <1>5, <2>1, <2>2 DEF Ordered
  <2>3. CASE j = Len(q) + 1
    BY <1>1, <1>5, <2>1, <2>3 DEF Ends
  <2> QED BY <1>2, <2>2, <2>3
<1> QED BY <1>3, <1>4, <1>5 DEF p

\* What taking the first event away changes.
LEMMA AfterTail ==
    ASSUME NEW q \in Seq(Event), NEW s, q # <<>>
    PROVE  /\ Count(q, s) = Count(Tail(q), s) + (IF Of(Head(q), s) THEN 1 ELSE 0)
           /\ Ends(q, s) /\ Head(q) # End(s) => Ends(Tail(q), s)
           /\ Ends(Tail(q), s) => Ends(q, s)
           /\ Ordered(q, s) => Ordered(Tail(q), s)
           /\ Ordered(q, s) /\ Head(q) = End(s) => Count(Tail(q), s) = 0
<1> DEFINE p == Tail(q)
<1>1. /\ Len(q) \in Nat \ {0} /\ Len(p) = Len(q) - 1 /\ Head(q) = q[1] /\ p \in Seq(Event)
      /\ \A i \in 1..Len(p) : p[i] = q[i + 1]
  BY HeadTailProperties
<1> HIDE DEF p
<1>2. \A i \in 1..Len(q) : i = 1 \/ (i - 1 \in 1..Len(p) /\ p[i - 1] = q[i])
  BY <1>1
<1>3. Count(q, s) = Count(p, s) + (IF Of(Head(q), s) THEN 1 ELSE 0)
  <2> DEFINE late == {i \in 2..Len(q) : Of(q[i], s)}
             f == [i \in Places(p, s) |-> i + 1]
  <2>1. f \in Bijection(Places(p, s), late)
    <3>1. \A i \in Places(p, s) : i \in Int /\ f[i] = i + 1 /\ f[i] \in late
      BY <1>1 DEF Places
    <3>2. \A j \in late : j - 1 \in Places(p, s) /\ f[j - 1] = j
      BY <1>1, <1>2 DEF Places
    <3>3. f \in [Places(p, s) -> late]
      BY <3>1
    <3>4. f \in Injection(Places(p, s), late)
      <4> HIDE DEF f, late
      <4>1. \A i, j \in Places(p, s) : f[i] = f[j] => i = j
        BY <3>1
      <4> QED BY <3>3, <4>1 DEF Injection, IsInjective
    <3>5. f \in Surjection(Places(p, s), late)
      <4> HIDE DEF f, late
      <4> QED BY <3>2, <3>3 DEF Surjection
    <3> QED BY <3>4, <3>5 DEF Bijection
  <2>2. IsFiniteSet(late) /\ Cardinality(late) = Count(p, s)
    BY <1>1, <2>1, PlacesFinite, FS_Bijection DEF ExistsBijection, Count
  <2>3. CASE Of(Head(q), s)
    <3>1. Places(q, s) = late \cup {1} /\ 1 \notin late
      BY <1>1, <2>3 DEF Places
    <3> QED BY <1>1, <2>2, <2>3, <3>1, FS_AddElement, PlacesFinite DEF Count
  <2>4. CASE ~Of(Head(q), s)
    <3>1. Places(q, s) = late
      BY <1>1, <2>4 DEF Places
    <3> HIDE DEF late
    <3> QED BY <1>1, <2>2, <2>4, <3>1, PlacesFinite DEF Count
  <2> QED BY <2>3, <2>4
<1>4. Ends(q, s) /\ Head(q) # End(s) => Ends(p, s)
  BY <1>1, <1>2 DEF Ends
<1>5. Ends(p, s) => Ends(q, s)
  <2>1. \A i \in 1..Len(p) : i + 1 \in 1..Len(q)
    BY <1>1
  <2> QED BY <1>1, <2>1 DEF Ends
<1>6. Ordered(q, s) => Ordered(p, s)
  <2> SUFFICES ASSUME Ordered(q, s), NEW i \in 1..Len(p), NEW j \in 1..Len(p), i < j, p[i] = End(s)
               PROVE  ~Of(p[j], s)
    BY DEF Ordered
  <2>1. i + 1 \in 1..Len(q) /\ j + 1 \in 1..Len(q) /\ i + 1 < j + 1
    BY <1>1
  <2> QED BY <1>1, <2>1 DEF Ordered
<1>7. Ordered(q, s) /\ Head(q) = End(s) => Count(p, s) = 0
  <2> SUFFICES ASSUME Ordered(q, s), Head(q) = End(s) PROVE Count(p, s) = 0
    OBVIOUS
  <2>1. \A i \in 1..Len(p) : 1 < i + 1 /\ i + 1 \in 1..Len(q) /\ 1 \in 1..Len(q)
    BY <1>1
  <2>2. \A i \in 1..Len(p) : ~Of(p[i], s)
    BY <1>1, <2>1 DEF Ordered
  <2>3. Places(p, s) = {}
    BY <2>2 DEF Places
  <2> QED BY <2>3, FS_EmptySet DEF Count
<1> QED BY <1>3, <1>4, <1>5, <1>6, <1>7 DEF p

\* What cutting off the end changes.
LEMMA AfterCut ==
    ASSUME NEW p \in Seq(Event), NEW q \in Seq(Event), NEW s, Starts(p, q), Ordered(q, s)
    PROVE  /\ Ordered(p, s)
           /\ Ends(p, s) => Ends(q, s) /\ Count(p, s) = Count(q, s)
<1>1. /\ Len(p) \in Nat /\ Len(q) \in Nat
      /\ \A i \in 1..Len(p) : i \in 1..Len(q) /\ p[i] = q[i]
  BY DEF Starts
<1>2. Ordered(p, s)
  BY <1>1 DEF Ordered
<1>3. ASSUME Ends(p, s) PROVE Ends(q, s) /\ Count(p, s) = Count(q, s)
  <2>1. PICK i \in 1..Len(p) : p[i] = End(s)
    BY <1>3 DEF Ends
  <2>2. \A j \in 1..Len(q) : Of(q[j], s) => j \in 1..Len(p)
    BY <1>1, <2>1 DEF Ordered
  <2>3. Places(p, s) = Places(q, s)
    BY <1>1, <2>2 DEF Places
  <2>4. Ends(q, s)
    BY <1>1, <2>1 DEF Ends
  <2> QED BY <2>3, <2>4 DEF Count
<1> QED BY <1>2, <1>3

\* What a queue is like that has nothing of s.
LEMMA WhenNone ==
    ASSUME NEW q \in Seq(Event), NEW s, NoneOf(q, s)
    PROVE  Ordered(q, s) /\ ~Ends(q, s) /\ Count(q, s) = 0
<1>1. \A i \in 1..Len(q) : ~Of(q[i], s) /\ q[i] # End(s)
  BY DEF NoneOf, Of, End, Ev
<1>2. Places(q, s) = {}
  BY <1>1 DEF Places
<1> QED BY <1>1, <1>2, FS_EmptySet DEF Ordered, Ends, Count

\* Where an event goes when one queue is read into another.
LEMMA Joins ==
    ASSUME NEW a \in Seq(Event), NEW b \in Seq(Event), NEW e \in Event
    PROVE  /\ a \o b \in Seq(Event) /\ a \o <<>> = a /\ <<>> \o a = a
           /\ Append(a, e) \o b = a \o (<<e>> \o b)
           /\ a \o Append(b, e) = Append(a \o b, e)
           /\ b # <<>> => <<Head(b)>> \o Tail(b) = b /\ Append(a, Head(b)) \o Tail(b) = a \o b
           /\ a # <<>> => a \o b # <<>> /\ Head(a \o b) = Head(a) /\ Tail(a \o b) = Tail(a) \o b
<1>1. a \o b \in Seq(Event) /\ a \o <<>> = a /\ <<>> \o a = a
  BY ConcatProperties, ConcatEmptySeq
<1>2. \A x \in Event, y, z \in Seq(Event) : Append(y, x) \o z = y \o (<<x>> \o z)
  <2> SUFFICES ASSUME NEW x \in Event, NEW y \in Seq(Event), NEW z \in Seq(Event)
               PROVE  Append(y, x) \o z = y \o (<<x>> \o z)
    OBVIOUS
  <2>1. Append(y, x) = y \o <<x>> /\ <<x>> \in Seq(Event)
    BY AppendIsConcat
  <2> QED BY <2>1, ConcatAssociative
<1>3. a \o Append(b, e) = Append(a \o b, e)
  <2>1. <<e>> \in Seq(Event) /\ Append(b, e) = b \o <<e>> /\ Append(a \o b, e) = (a \o b) \o <<e>>
    BY <1>1, AppendIsConcat
  <2> QED BY <2>1, ConcatAssociative
<1>4. \A z \in Seq(Event) : z # <<>> => <<Head(z)>> \o Tail(z) = z /\ Head(z) \in Event /\ Tail(z) \in Seq(Event)
  <2> SUFFICES ASSUME NEW z \in Seq(Event), z # <<>>
               PROVE  <<Head(z)>> \o Tail(z) = z /\ Head(z) \in Event /\ Tail(z) \in Seq(Event)
    OBVIOUS
  <2>1. /\ Head(z) \in Event /\ Tail(z) \in Seq(Event) /\ Len(Tail(z)) = Len(z) - 1
        /\ \A i \in 1..Len(Tail(z)) : Tail(z)[i] = z[i + 1]
    BY HeadTailProperties
  <2> DEFINE h == <<Head(z)>>
             t == Tail(z)
  <2>2. h \in Seq(Event) /\ Len(h) = 1 /\ h[1] = z[1] /\ Len(z) \in Nat \ {0}
    BY <2>1
  <2>3. t \in Seq(Event)
    BY <2>1
  <2>4. Len(t) = Len(z) - 1 /\ \A i \in 1..Len(t) : t[i] = z[i + 1]
    BY <2>1
  <2> HIDE DEF h, t
  <2>5. /\ h \o t \in Seq(Event) /\ Len(h \o t) = Len(h) + Len(t)
        /\ \A i \in 1..Len(h) + Len(t) : (h \o t)[i] = IF i <= Len(h) THEN h[i] ELSE t[i - Len(h)]
    BY <2>2, <2>3, ConcatProperties
  <2>6. Len(h \o t) = Len(z)
    BY <2>2, <2>4, <2>5
  <2>7. \A i \in 1..Len(z) : (h \o t)[i] = z[i]
    <3> SUFFICES ASSUME NEW i \in 1..Len(z) PROVE (h \o t)[i] = z[i]
      OBVIOUS
    <3>1. CASE i = 1
      BY <2>2, <2>4, <2>5, <3>1
    <3>2. CASE i # 1
      <4>1. i - 1 \in 1..Len(t) /\ (h \o t)[i] = t[i - 1] /\ (i - 1) + 1 = i
        BY <2>2, <2>4, <2>5, <3>2
      <4> QED BY <2>4, <4>1
    <3> QED BY <3>1, <3>2
  <2>8. h \o t = z
    BY <2>5, <2>6, <2>7, SeqEqual
  <2> QED BY <2>1, <2>8 DEF h, t
<1>5. b # <<>> => <<Head(b)>> \o Tail(b) = b /\ Append(a, Head(b)) \o Tail(b) = a \o b
  BY <1>2, <1>4
<1>6. a # <<>> => a \o b # <<>> /\ Head(a \o b) = Head(a) /\ Tail(a \o b) = Tail(a) \o b
  <2> SUFFICES ASSUME a # <<>>
               PROVE  a \o b # <<>> /\ Head(a \o b) = Head(a) /\ Tail(a \o b) = Tail(a) \o b
    OBVIOUS
  <2>1. /\ Head(a) \in Event /\ Tail(a) \in Seq(Event) /\ Len(a) \in Nat \ {0} /\ Len(b) \in Nat
        /\ Len(Tail(a)) = Len(a) - 1 /\ \A i \in 1..Len(Tail(a)) : Tail(a)[i] = a[i + 1]
    BY HeadTailProperties
  <2>2. /\ Len(a \o b) = Len(a) + Len(b)
        /\ \A i \in 1..Len(a) + Len(b) : (a \o b)[i] = IF i <= Len(a) THEN a[i] ELSE b[i - Len(a)]
    BY ConcatProperties
  <2>3. a \o b # <<>> /\ Head(a \o b) = Head(a)
    BY <1>1, <2>1, <2>2
  <2> DEFINE t == Tail(a)
             w == Tail(a \o b)
  <2>4. /\ w \in Seq(Event) /\ Len(w) = Len(a) + Len(b) - 1
        /\ \A i \in 1..Len(w) : w[i] = (a \o b)[i + 1]
    BY <1>1, <2>2, <2>3, HeadTailProperties
  <2>5. t \in Seq(Event) /\ Len(t) = Len(a) - 1 /\ \A i \in 1..Len(t) : t[i] = a[i + 1]
    BY <2>1
  <2> HIDE DEF t, w
  <2>6. /\ t \o b \in Seq(Event) /\ Len(t \o b) = Len(t) + Len(b)
        /\ \A i \in 1..Len(t) + Len(b) : (t \o b)[i] = IF i <= Len(t) THEN t[i] ELSE b[i - Len(t)]
    BY <2>5, ConcatProperties
  <2>7. Len(w) = Len(t \o b)
    BY <2>1, <2>4, <2>5, <2>6
  <2>8. \A i \in 1..Len(w) : w[i] = (t \o b)[i]
    <3> SUFFICES ASSUME NEW i \in 1..Len(w) PROVE w[i] = (t \o b)[i]
      OBVIOUS
    <3>1. i \in Int /\ i + 1 \in 1..Len(a) + Len(b) /\ i \in 1..Len(t) + Len(b)
      BY <2>1, <2>4, <2>5
    <3>2. CASE i <= Len(t)
      <4>1. (t \o b)[i] = t[i] /\ t[i] = a[i + 1] /\ (a \o b)[i + 1] = a[i + 1]
        BY <2>1, <2>2, <2>5, <2>6, <3>1, <3>2
      <4> QED BY <2>4, <4>1
    <3>3. CASE ~(i <= Len(t))
      <4>1. (t \o b)[i] = b[i - Len(t)] /\ (a \o b)[i + 1] = b[(i + 1) - Len(a)]
        BY <2>1, <2>2, <2>5, <2>6, <3>1, <3>3
      <4>2. (i + 1) - Len(a) = i - Len(t)
        BY <2>1, <2>5, <3>1
      <4> QED BY <2>4, <4>1, <4>2
    <3> QED BY <3>2, <3>3
  <2>9. w = t \o b
    BY <2>4, <2>6, <2>7, <2>8, SeqEqual
  <2> QED BY <2>3, <2>9 DEF t, w
<1> QED BY <1>1, <1>2, <1>3, <1>5, <1>6

\* What is the beginning of what.
LEMMA Beginnings ==
    ASSUME NEW a \in Seq(Event), NEW b \in Seq(Event), NEW c \in Seq(Event)
    PROVE  /\ Starts(a, a) /\ Starts(<<>>, a) /\ Starts(a, a \o b)
           /\ Starts(b, c) => Starts(a \o b, a \o c)
<1>1. Len(a) \in Nat /\ Len(b) \in Nat /\ Len(c) \in Nat
  OBVIOUS
<1>2. /\ Len(a \o b) = Len(a) + Len(b)
      /\ \A i \in 1..Len(a) + Len(b) : (a \o b)[i] = IF i <= Len(a) THEN a[i] ELSE b[i - Len(a)]
  BY ConcatProperties
<1>3. /\ Len(a \o c) = Len(a) + Len(c)
      /\ \A i \in 1..Len(a) + Len(c) : (a \o c)[i] = IF i <= Len(a) THEN a[i] ELSE c[i - Len(a)]
  BY ConcatProperties
<1>4. Starts(a, a) /\ Starts(<<>>, a)
  BY <1>1 DEF Starts
<1>5. Starts(a, a \o b)
  BY <1>1, <1>2 DEF Starts
<1>6. ASSUME Starts(b, c) PROVE Starts(a \o b, a \o c)
  <2>1. Len(a \o b) <= Len(a \o c)
    BY <1>1, <1>2, <1>3, <1>6 DEF Starts
  <2>2. ASSUME NEW i \in 1..Len(a \o b) PROVE (a \o b)[i] = (a \o c)[i]
    <3>1. i \in 1..Len(a) + Len(b) /\ i \in 1..Len(a) + Len(c)
      BY <1>1, <1>2, <1>3, <2>1
    <3>2. CASE i <= Len(a)
      BY <1>2, <1>3, <3>1, <3>2
    <3>3. CASE ~(i <= Len(a))
      <4>1. i - Len(a) \in 1..Len(b)
        BY <1>1, <3>1, <3>3
      <4>2. b[i - Len(a)] = c[i - Len(a)]
        BY <1>6, <4>1 DEF Starts
      <4> QED BY <1>2, <1>3, <3>1, <3>3, <4>2
    <3> QED BY <3>2, <3>3
  <2> QED BY <2>1, <2>2 DEF Starts
<1> QED BY <1>4, <1>5, <1>6

\* The consumer passes events on; what it has in its hand to pass on; what comes to the
\* subscribers; what a subscriber has before it.
Live == cons \in {"off", "new", "get", "settle", "publish"}
Hand == IF cons \in {"settle", "publish"} THEN <<inHand>> ELSE <<>>
Coming == IF subsOpen /\ Live THEN Hand \o agentQ.items ELSE <<>>
Feed == subsIn \o Coming
Way(s) == subQ[s].items \o (IF s \in attached THEN Feed ELSE <<>>)

\* What the agent enqueues reaches the subscribers, and s among them.
Running == agentOpen /\ subsOpen /\ Live
Intact(s) == Running /\ s \in attached

\* The request s waits in the queue, is the one under way, or either.
Queued(s) == \E i \in 1..Len(reqQ.items) : reqQ.items[i] = s
Current(s) == prod \in {"lock", "exec"} /\ prodReq = s
Upcoming(s) == Queued(s) \/ Current(s)

Moving == {"initial", "stream", "yield"}
Gone == {"unref", "cleanup", "done"}

\* A request is made once.
TurnInv(s) ==
    /\ \A i, j \in 1..Len(reqQ.items) : reqQ.items[i] = s /\ reqQ.items[j] = s => i = j
    /\ Current(s) => ~Queued(s)

\* Nothing is of a request that has not been made.
FreshInv(s) ==
    sub[s] = "idle" =>
        /\ made[s] = 0 /\ got[s] = 0 /\ outcome[s] = None /\ s \notin attached
        /\ subQ[s].items = <<>> /\ NoneOf(agentQ.items, s) /\ NoneOf(subsIn, s)
        /\ inHand.req # s /\ prodReq # s /\ ~Queued(s)

\* As long as nothing was cut off before the end of the request, what the subscriber got and what
\* it has before it is all that was made.
FlowInv(s) ==
    /\ Ordered(Way(s), s)
    /\ Upcoming(s) => ~Ends(Way(s), s)
    /\ sub[s] \in Moving /\ (Ends(Way(s), s) \/ Intact(s)) => got[s] + Count(Way(s), s) = made[s]
    /\ outcome[s] = "completed" => got[s] = made[s] /\ ~Upcoming(s) /\ sub[s] \in Gone

\* The queues hold events.
Flowing ==
    /\ agentQ.items \in Seq(Event) /\ subsIn \in Seq(Event) /\ inHand \in Event
    /\ \A s \in Subs : subQ[s].items \in Seq(Event)
    /\ reqQ.items \in Seq(Senders)

\* The types of the queues are among what is known already.
LEMMA FlowTyped == SerialInv /\ TypeInv => Flowing
<1> SUFFICES ASSUME SerialInv, TypeInv PROVE Flowing
  OBVIOUS
<1>1. agentQ \in Loose(Event) /\ reqQ \in Loose(Senders) /\ inHand \in Event
  BY DEF SerialInv, SerialTypes
<1>2. \A s \in Subs : subQ[s] \in QType(Event)
  BY DEF TypeInv, SubsHeld, Held
<1>3. subsIn \in Seq(Event)
  BY DEF TypeInv, SubsHeld
<1> QED BY <1>1, <1>2, <1>3 DEF Flowing, Loose, QType

\* What a subscriber has before it is a sequence of events.
LEMMA WayTyped ==
    ASSUME Flowing
    PROVE  /\ Hand \in Seq(Event) /\ Coming \in Seq(Event) /\ Feed \in Seq(Event)
           /\ \A s \in Subs : Way(s) \in Seq(Event)
<1>1. <<>> \in Seq(Event) /\ Hand \in Seq(Event)
  BY DEF Flowing, Hand
<1>2. Coming \in Seq(Event)
  <2>1. Hand \o agentQ.items \in Seq(Event)
    BY <1>1, ConcatProperties DEF Flowing
  <2> QED BY <1>1, <2>1 DEF Coming
<1>3. Feed \in Seq(Event)
  BY <1>2, ConcatProperties DEF Flowing, Feed
<1>4. \A s \in Subs : Way(s) \in Seq(Event)
  BY <1>1, <1>3, ConcatProperties DEF Flowing, Way
<1> QED BY <1>1, <1>2, <1>3, <1>4

\* A step after which a subscriber has the same before it, a beginning of it, or something more
\* that neither is of its request nor ends it.
LEMMA FlowKeeps ==
    ASSUME NEW s \in Senders, Flowing, FlowInv(s), NEW w \in Seq(Event), Way(s)' = w,
           \/ Starts(w, Way(s)) /\ (Intact(s)' => Intact(s) /\ w = Way(s))
           \/ /\ Intact(s)' => Intact(s)
              /\ \E e \in Event : ~Of(e, s) /\ e # End(s) /\ w = Append(Way(s), e),
           sub'[s] = sub[s] \/ (sub[s] \in Moving /\ sub'[s] \in Moving) \/ sub'[s] \in Gone,
           got'[s] = got[s], made'[s] = made[s],
           outcome'[s] \in {outcome[s], "error", "ended", "left", "rejected", "refused"},
           Upcoming(s)' => Upcoming(s)
    PROVE  FlowInv(s)'
<1>0. s \in Subs /\ Way(s) \in Seq(Event)
  BY WayTyped, ActiveTaskAssumption
<1>1. /\ Ordered(w, s)
      /\ Ends(w, s) => Ends(Way(s), s)
      /\ Ends(w, s) \/ Intact(s)' => Count(w, s) = Count(Way(s), s) /\ (Ends(Way(s), s) \/ Intact(s))
  <2>0. Ordered(Way(s), s)
    BY DEF FlowInv
  <2>1. CASE Starts(w, Way(s)) /\ (Intact(s)' => Intact(s) /\ w = Way(s))
    BY <1>0, <2>0, <2>1, AfterCut
  <2>2. CASE /\ Intact(s)' => Intact(s)
             /\ \E e \in Event : ~Of(e, s) /\ e # End(s) /\ w = Append(Way(s), e)
    <3>1. PICK e \in Event : ~Of(e, s) /\ e # End(s) /\ w = Append(Way(s), e)
      BY <2>2
    <3>2. /\ Count(w, s) = Count(Way(s), s) + 0 /\ Ordered(w, s)
          /\ Ends(w, s) <=> Ends(Way(s), s)
      BY <1>0, <2>0, <3>1, AfterAppend
    <3>3. Count(Way(s), s) \in Nat
      BY <1>0, PlacesFinite
    <3> QED BY <2>2, <3>2, <3>3
  <2> QED BY <2>1, <2>2
<1>2. sub'[s] \in Moving => sub[s] \in Moving
  BY DEF Moving, Gone
<1>3. sub'[s] \in Moving /\ (Ends(w, s) \/ Intact(s)') => got'[s] + Count(w, s) = made'[s]
  BY <1>1, <1>2 DEF FlowInv
<1>4. Upcoming(s)' => ~Ends(w, s)
  BY <1>1 DEF FlowInv
<1>5. outcome'[s] = "completed" => got'[s] = made'[s] /\ ~Upcoming(s)' /\ sub'[s] \in Gone
  <2> SUFFICES ASSUME outcome'[s] = "completed"
               PROVE  got'[s] = made'[s] /\ ~Upcoming(s)' /\ sub'[s] \in Gone
    OBVIOUS
  <2>1. outcome[s] = "completed"
    OBVIOUS
  <2>2. got[s] = made[s] /\ ~Upcoming(s) /\ sub[s] \in Gone
    BY <2>1 DEF FlowInv
  <2> QED BY <2>2 DEF Gone, Moving
<1> QED BY <1>1, <1>3, <1>4, <1>5 DEF FlowInv

\* What a step that changes nothing for s but what comes to the subscribers does to what s has
\* before it.
LEMMA WayFollows ==
    ASSUME Flowing, Flowing', NEW s \in Subs, subQ'[s].items = subQ[s].items,
           s \in attached' <=> s \in attached
    PROVE  /\ Feed' = Feed => Way(s)' = Way(s)
           /\ \A f \in Seq(Event) : Feed' = f /\ Starts(f, Feed) =>
                \E w \in Seq(Event) : Way(s)' = w /\ Starts(w, Way(s))
           /\ \A e \in Event : Feed' = Append(Feed, e) =>
                Way(s)' = IF s \in attached THEN Append(Way(s), e) ELSE Way(s)
<1>0. Feed \in Seq(Event) /\ subQ[s].items \in Seq(Event)
  BY WayTyped DEF Flowing
<1>1. Feed' = Feed => Way(s)' = Way(s)
  BY DEF Way
<1>2. ASSUME NEW f \in Seq(Event), Feed' = f, Starts(f, Feed)
      PROVE  \E w \in Seq(Event) : Way(s)' = w /\ Starts(w, Way(s))
  <2>1. CASE s \in attached
    <3>1. Way(s)' = subQ[s].items \o f /\ Way(s) = subQ[s].items \o Feed
      BY <1>2, <2>1 DEF Way
    <3>2. subQ[s].items \o f \in Seq(Event) /\ Starts(subQ[s].items \o f, subQ[s].items \o Feed)
      BY <1>0, <1>2, Beginnings, ConcatProperties
    <3> QED BY <3>1, <3>2
  <2>2. CASE s \notin attached
    <3>1. Way(s)' = Way(s)
      BY <2>2 DEF Way
    <3> QED BY <3>1, WayTyped, Beginnings
  <2> QED BY <2>1, <2>2
<1>3. ASSUME NEW e \in Event, Feed' = Append(Feed, e)
      PROVE  Way(s)' = IF s \in attached THEN Append(Way(s), e) ELSE Way(s)
  <2>1. subQ[s].items \o Append(Feed, e) = Append(subQ[s].items \o Feed, e)
    <3>1. \A a, b \in Seq(Event) : a \o Append(b, e) = Append(a \o b, e)
      BY Joins
    <3> QED BY <1>0, <3>1
  <2> QED BY <1>3, <2>1 DEF Way
<1> QED BY <1>1, <1>2, <1>3

\* A step that changes nothing for s but what comes to the subscribers.
LEMMA FlowQuiet ==
    ASSUME NEW s \in Senders, Flowing, Flowing', FlowInv(s),
           subQ'[s].items = subQ[s].items, s \in attached' <=> s \in attached,
           sub'[s] = sub[s] \/ (sub[s] \in Moving /\ sub'[s] \in Moving) \/ sub'[s] \in Gone,
           got'[s] = got[s], made'[s] = made[s], outcome'[s] = outcome[s],
           Upcoming(s)' => Upcoming(s),
           \/ Feed' = Feed /\ (Running' => Running)
           \/ Starts(Feed', Feed) /\ ~Running'
           \/ /\ Running' => Running
              /\ \E e \in Event : ~Of(e, s) /\ e # End(s) /\ Feed' = Append(Feed, e)
    PROVE  FlowInv(s)'
<1>0. s \in Subs /\ Way(s) \in Seq(Event)
  BY WayTyped, ActiveTaskAssumption
<1>1. CASE Feed' = Feed /\ (Running' => Running)
  <2>1. Way(s)' = Way(s) /\ (Intact(s)' => Intact(s))
    BY <1>0, <1>1, WayFollows DEF Intact
  <2>2. PICK w \in Seq(Event) : w = Way(s)
    BY <1>0
  <2>3. Starts(w, Way(s)) /\ Way(s)' = w
    BY <2>1, <2>2, Beginnings
  <2> QED BY <2>1, <2>2, <2>3, FlowKeeps
<1>2. CASE Starts(Feed', Feed) /\ ~Running'
  <2>1. PICK f \in Seq(Event) : f = Feed'
    <3>1. Feed' \in Seq(Event)
      <4>1. (Flowing => Feed \in Seq(Event))'
        BY WayTyped, PTL
      <4> QED BY <4>1
    <3> QED BY <3>1
  <2>2. PICK w \in Seq(Event) : Way(s)' = w /\ Starts(w, Way(s))
    BY <1>0, <1>2, <2>1, WayFollows
  <2>3. ~Intact(s)'
    BY <1>2 DEF Intact
  <2> QED BY <2>2, <2>3, FlowKeeps
<1>3. CASE /\ Running' => Running
           /\ \E e \in Event : ~Of(e, s) /\ e # End(s) /\ Feed' = Append(Feed, e)
  <2>1. PICK e \in Event : ~Of(e, s) /\ e # End(s) /\ Feed' = Append(Feed, e)
    BY <1>3
  <2>2. Way(s)' = IF s \in attached THEN Append(Way(s), e) ELSE Way(s)
    BY <1>0, <2>1, WayFollows
  <2>3. Intact(s)' => Intact(s)
    BY <1>3 DEF Intact
  <2>4. PICK w \in Seq(Event) : w = IF s \in attached THEN Append(Way(s), e) ELSE Way(s)
    BY <1>0, AppendProperties
  <2>5. w = Way(s) => Starts(w, Way(s))
    BY <1>0, Beginnings
  <2>6. w = Way(s) \/ w = Append(Way(s), e)
    BY <2>4
  <2> QED BY <2>1, <2>2, <2>3, <2>4, <2>5, <2>6, FlowKeeps
<1> QED BY <1>1, <1>2, <1>3

\* The producer is to run an agent, or is running it.
Engaged == {"lock", "exec"}

\* What a step does to the requests: it takes the next one, makes one, or ends some.
LEMMA NextRequests ==
    ASSUME SerialInv, [Next]_vars
    PROVE  \/ /\ reqQ'.items \in {reqQ.items, <<>>} /\ prodReq' = prodReq
              /\ prod' \in Engaged => prod \in Engaged
           \/ /\ reqQ.items # <<>> /\ reqQ'.items = Tail(reqQ.items) /\ prodReq' = Head(reqQ.items)
              /\ prod \notin Engaged
           \/ /\ UNCHANGED <<prod, prodReq>>
              /\ \E t \in Senders : Subscribes(t) /\ reqQ'.items = Append(reqQ.items, t)
<1> DEFINE Ending == /\ reqQ'.items \in {reqQ.items, <<>>} /\ prodReq' = prodReq
                     /\ prod' \in Engaged => prod \in Engaged
<1>0. reqQ \in Loose(Senders)
  BY DEF SerialInv, SerialTypes
<1>1. /\ QDone(reqQ).items = reqQ.items /\ QShutdown(reqQ, TRUE).items \in {<<>>, reqQ.items}
      /\ QShutdown(QDone(reqQ), TRUE).items \in {<<>>, reqQ.items}
  <2>1. /\ QDone(reqQ) \in Loose(Senders) /\ QDone(reqQ).items = reqQ.items
        /\ QShutdown(reqQ, TRUE).items \in {<<>>, reqQ.items}
    BY <1>0, LooseOps
  <2>2. QShutdown(QDone(reqQ), TRUE).items \in {<<>>, reqQ.items}
    BY <2>1, LooseOps
  <2> QED BY <2>1, <2>2
<1>2. CASE Start
  BY <1>2 DEF Start, StartSucceeds, StartFails, prodVars, Engaged
<1>3. CASE \/ ProducerBegins \/ ProducerStartsRequest \/ ProducerSeesShutdown \/ ProducerFails
           \/ ProducerShutsSink \/ ProducerShutsSubs \/ ProducerClosesSinks \/ ProducerEnds
  <2>1. /\ reqQ' \in {reqQ, QShutdown(reqQ, TRUE)} /\ prodReq' = prodReq
        /\ prod' \in Engaged => prod \in Engaged
    BY <1>3 DEF ProducerBegins, ProducerStartsRequest, ProducerSeesShutdown, ProducerFails,
                ProducerShutsSink, ProducerShutsSubs, ProducerClosesSinks, ProducerEnds,
                ProducerWindsUp, Engaged
  <2> QED BY <1>1, <2>1
<1>4. CASE ProducerGetsRequest
  <2>1. /\ prod = "get" /\ QCanGet(reqQ) /\ prodReq' = Head(reqQ.items) /\ reqQ' = QGet(reqQ)
    BY <1>4 DEF ProducerGetsRequest
  <2>2. reqQ'.items = Tail(reqQ.items) /\ reqQ.items # <<>>
    BY <1>0, <2>1, LooseOps DEF QCanGet
  <2> QED BY <2>1, <2>2 DEF Engaged
<1>5. CASE AgentReturns \/ ExecuteRaises
  <2>1. prod' \in {"get", "failed"} /\ reqQ' = QDone(reqQ) /\ prodReq' = prodReq
    BY <1>5 DEF AgentReturns, ExecuteRaises
  <2> QED BY <1>1, <2>1 DEF Engaged
<1>6. ASSUME NEW k \in AgentEvents, AgentEmits(k) PROVE Ending
  BY <1>6 DEF AgentEmits, prodVars
<1>7. CASE ConsumerNext
  <2>1. reqQ' \in {reqQ, QShutdown(reqQ, TRUE)} /\ UNCHANGED <<prod, prodReq>>
    BY <1>7 DEF ConsumerNext, ConsumerBegins, ConsumesMarker, ConsumesMessage, ConsumerApplies,
                ConsumerRaises, ConsumerTakes, ConsumerSettles, ConsumerPublishes,
                ConsumerSeesShutdown, ConsumerReportsError, ConsumerDies, ConsumerAwaitsProducer,
                ConsumerUnrefs, ConsumerCleansUp, ConsumerWindsUp, prodVars
  <2> QED BY <1>1, <2>1
<1>8. CASE Dispatch \/ AcloseQueues \/ AcloseReturns \/ UNCHANGED vars
  <2>1. reqQ' \in {reqQ, QShutdown(reqQ, TRUE)} /\ UNCHANGED <<prod, prodReq>>
    BY <1>8 DEF Dispatch, AcloseQueues, AcloseReturns, vars, prodVars
  <2> QED BY <1>1, <2>1
<1>9. ASSUME NEW s \in Subs, (SubscribeNext(s) \/ SubscriberNext(s) \/ Disconnect(s))
      PROVE  \/ Ending
             \/ /\ UNCHANGED <<prod, prodReq>> /\ s \in Senders
                /\ Subscribes(s) /\ reqQ'.items = Append(reqQ.items, s)
  <2>1. /\ UNCHANGED <<prod, prodReq>>
        /\ reqQ' = reqQ \/ (Subscribes(s) /\ s \in Senders /\ reqQ' = QPut(reqQ, s))
    BY <1>9 DEF SubscribeNext, SubscribeRejected, Subscribes, SubscribeRefused, SubscriberNext,
                YieldInitial, StreamsEvent, ResumesStream, SkipsMarker, RequestDone, RaisesError,
                StreamEnds, Disconnect, Leaves, Others, Unsubscribes, SubscriberCleansUp, prodVars
  <2>2. s \in Senders => QPut(reqQ, s).items = Append(reqQ.items, s)
    BY DEF QPut
  <2>3. CASE reqQ' = reqQ
    BY <2>1, <2>3
  <2>4. CASE Subscribes(s) /\ s \in Senders /\ reqQ' = QPut(reqQ, s)
    BY <2>1, <2>2, <2>4
  <2> QED BY <2>1, <2>3, <2>4
<1>10. ASSUME InterruptProducer, prodReq' = prodReq PROVE Ending
  <2>1. reqQ' \in {reqQ, QShutdown(reqQ, TRUE), QShutdown(QDone(reqQ), TRUE)}
    BY <1>10 DEF InterruptProducer
  <2>2. prod' \notin Engaged
    BY <1>10 DEF InterruptProducer, Engaged
  <2> QED BY <1>1, <1>10, <2>1, <2>2
<1>11. ASSUME NEW c \in Cancelers, (CancelBegins(c) \/ CancelNext(c)) PROVE Ending
  <2>1. CASE AgentCancelReturns(c) \/ AgentCancelRaises(c)
    BY <1>10, <2>1 DEF AgentCancelReturns, AgentCancelRaises, CancelsProducer
  <2>2. CASE CancelBegins(c) \/ CancelReturns(c) \/ \E k \in CancelEvents : CancelEmits(c, k)
    BY <2>2 DEF CancelBegins, CancelReturns, CancelEmits, prodVars
  <2> QED BY <1>11, <2>1, <2>2 DEF CancelNext
<1>12. CASE AcloseCancels
  BY <1>10, <1>12 DEF AcloseCancels
<1> QED BY <1>2, <1>3, <1>4, <1>5, <1>6, <1>7, <1>8, <1>9, <1>11, <1>12
        DEF Next, ProducerNext, AgentNext

\* A request is upcoming only from the moment when it is made.
LEMMA NextUpcoming ==
    ASSUME SerialInv, Flowing, [Next]_vars, NEW s \in Senders, ~Subscribes(s)
    PROVE  Upcoming(s)' => Upcoming(s)
<1>1. CASE /\ reqQ'.items \in {reqQ.items, <<>>} /\ prodReq' = prodReq
           /\ prod' \in Engaged => prod \in Engaged
  BY <1>1 DEF Upcoming, Queued, Current, Engaged
<1>2. CASE /\ reqQ.items # <<>> /\ reqQ'.items = Tail(reqQ.items) /\ prodReq' = Head(reqQ.items)
           /\ prod \notin Engaged
  <2>1. \A i \in 1..Len(reqQ'.items) : i + 1 \in 1..Len(reqQ.items) /\ reqQ'.items[i] = reqQ.items[i + 1]
    BY <1>2 DEF Flowing
  <2>2. 1 \in 1..Len(reqQ.items) /\ Head(reqQ.items) = reqQ.items[1]
    BY <1>2 DEF Flowing
  <2> QED BY <1>2, <2>1, <2>2 DEF Upcoming, Queued, Current
<1>3. ASSUME UNCHANGED <<prod, prodReq>>, NEW t \in Senders, Subscribes(t), reqQ'.items = Append(reqQ.items, t)
      PROVE  Upcoming(s)' => Upcoming(s)
  <2>1. t # s
    BY <1>3
  <2>2. \A i \in 1..Len(reqQ'.items) : reqQ'.items[i] = t \/ (i \in 1..Len(reqQ.items) /\ reqQ'.items[i] = reqQ.items[i])
    BY <1>3 DEF Flowing
  <2> QED BY <1>3, <2>1, <2>2 DEF Upcoming, Queued, Current
<1> QED BY <1>1, <1>2, <1>3, NextRequests

\* A request is made once.
LEMMA NextTurn ==
    ASSUME SerialInv, Flowing, [Next]_vars, NEW s \in Senders, TurnInv(s), FreshInv(s)
    PROVE  TurnInv(s)'
<1>0. Len(reqQ.items) \in Nat
  BY DEF Flowing
<1>1. CASE /\ reqQ'.items \in {reqQ.items, <<>>} /\ prodReq' = prodReq
           /\ prod' \in Engaged => prod \in Engaged
  BY <1>1 DEF TurnInv, Queued, Current, Engaged
<1>2. CASE /\ reqQ.items # <<>> /\ reqQ'.items = Tail(reqQ.items) /\ prodReq' = Head(reqQ.items)
           /\ prod \notin Engaged
  <2>1. \A i \in 1..Len(reqQ'.items) : i \in Int /\ i + 1 \in 1..Len(reqQ.items) /\ reqQ'.items[i] = reqQ.items[i + 1]
    BY <1>2 DEF Flowing
  <2>2. 1 \in 1..Len(reqQ.items) /\ Head(reqQ.items) = reqQ.items[1]
    BY <1>2 DEF Flowing
  <2>3. \A i \in 1..Len(reqQ'.items) : i + 1 # 1
    BY <2>1
  <2>4. ASSUME NEW i \in 1..Len(reqQ'.items), NEW j \in 1..Len(reqQ'.items),
               reqQ'.items[i] = s, reqQ'.items[j] = s
        PROVE  i = j
    <3>1. i + 1 = j + 1
      BY <2>1, <2>4 DEF TurnInv
    <3> QED BY <2>1, <3>1
  <2>5. Current(s)' => ~Queued(s)'
    BY <1>2, <2>1, <2>2, <2>3 DEF TurnInv, Current, Queued
  <2> QED BY <2>4, <2>5 DEF TurnInv
<1>3. ASSUME UNCHANGED <<prod, prodReq>>, NEW t \in Senders, Subscribes(t), reqQ'.items = Append(reqQ.items, t)
      PROVE  TurnInv(s)'
  <2>2. /\ Len(reqQ'.items) = Len(reqQ.items) + 1 /\ reqQ'.items[Len(reqQ.items) + 1] = t
        /\ \A i \in 1..Len(reqQ.items) : reqQ'.items[i] = reqQ.items[i]
    BY <1>3 DEF Flowing
  <2>3. \A i \in 1..Len(reqQ'.items) : i \in 1..Len(reqQ.items) \/ i = Len(reqQ.items) + 1
    BY <1>0, <2>2
  <2>4. CASE t = s
    <3>1. ~Queued(s) /\ prodReq # s
      BY <1>3, <2>4 DEF FreshInv, Subscribes
    <3> QED BY <1>3, <2>2, <2>3, <3>1 DEF TurnInv, Queued, Current
  <2>5. CASE t # s
    BY <1>3, <2>2, <2>3, <2>5 DEF TurnInv, Queued, Current
  <2> QED BY <2>4, <2>5
<1> QED BY <1>1, <1>2, <1>3, NextRequests

\* What a step does to the agent's queue and to the consumer's hand.
LEMMA NextItems ==
    ASSUME SerialInv, Flowing, [Next]_vars
    PROVE  \/ agentQ'.items \in {agentQ.items, <<>>} /\ inHand' = inHand
           \/ /\ agentQ.items # <<>> /\ agentQ'.items = Tail(agentQ.items)
              /\ inHand' \in {inHand, Head(agentQ.items)}
           \/ /\ inHand' = inHand
              /\ \E e \in Event : e.req \in {prodReq, None} /\ agentQ'.items = Append(agentQ.items, e)
<1> DEFINE Less == agentQ'.items \in {agentQ.items, <<>>} /\ inHand' = inHand
           More == /\ inHand' = inHand
                   /\ \E e \in Event : e.req \in {prodReq, None} /\ agentQ'.items = Append(agentQ.items, e)
           Read == /\ agentQ.items # <<>> /\ agentQ'.items = Tail(agentQ.items)
                   /\ inHand' \in {inHand, Head(agentQ.items)}
<1>0. agentQ \in Loose(Event) /\ prodReq \in Subs \cup {None}
  BY DEF SerialInv, SerialTypes
<1>1. /\ QDone(agentQ).items = agentQ.items
      /\ \A now \in BOOLEAN : QShutdown(agentQ, now).items \in {<<>>, agentQ.items}
      /\ QShutdown(QDone(agentQ), TRUE).items \in {<<>>, agentQ.items}
      /\ QCanGet(agentQ) => QGet(agentQ).items = Tail(agentQ.items) /\ QDone(QGet(agentQ)).items = Tail(agentQ.items)
  <2>1. /\ QDone(agentQ) \in Loose(Event) /\ QDone(agentQ).items = agentQ.items
        /\ \A now \in BOOLEAN : QShutdown(agentQ, now).items \in {<<>>, agentQ.items}
        /\ QCanGet(agentQ) => QGet(agentQ) \in Loose(Event) /\ QGet(agentQ).items = Tail(agentQ.items)
    BY <1>0, LooseOps
  <2>2. QShutdown(QDone(agentQ), TRUE).items \in {<<>>, agentQ.items}
    BY <2>1, LooseOps
  <2>3. QCanGet(agentQ) => QDone(QGet(agentQ)).items = QGet(agentQ).items
    BY <2>1, LooseOps
  <2> QED BY <2>1, <2>2, <2>3
<1>2. \A e : AgentEnqueues(agentQ, e).items \in {agentQ.items, Append(agentQ.items, e)}
  BY DEF AgentEnqueues, QPut
<1>3. /\ \A k \in Kinds \cup Markers, r \in Subs \cup {None} : Ev(k, r) \in Event /\ Ev(k, r).req = r
      /\ "failed" \in Kinds
  BY DEF Ev, Event, Kinds, States, Terminal, None
<1>4. ASSUME NEW e \in Event, e.req \in {prodReq, None}, agentQ' = AgentEnqueues(agentQ, e), inHand' = inHand
      PROVE  Less \/ More
  BY <1>2, <1>4
<1>5. ASSUME CloseAgentNow, inHand' = inHand PROVE Less
  BY <1>1, <1>5 DEF CloseAgentNow
<1>6. CASE Start \/ Dispatch \/ AcloseCancels \/ AcloseReturns \/ UNCHANGED vars
  BY <1>6 DEF Start, StartSucceeds, StartFails, Dispatch, AcloseCancels, AcloseReturns, vars,
              agentVars, consVars
<1>7. CASE \/ ProducerBegins \/ ProducerGetsRequest \/ ProducerSeesShutdown \/ ProducerShutsSubs
           \/ ProducerClosesSinks \/ ProducerEnds \/ ExecuteRaises
  BY <1>7 DEF ProducerBegins, ProducerGetsRequest, ProducerSeesShutdown, ProducerShutsSubs,
              ProducerClosesSinks, ProducerEnds, ExecuteRaises, agentVars, consVars
<1>8. CASE ProducerStartsRequest \/ ProducerFails \/ AgentReturns
  <2>1. /\ inHand' = inHand
        /\ \E k \in Markers : agentQ' = AgentEnqueues(agentQ, Ev(k, prodReq))
    BY <1>8 DEF ProducerStartsRequest, ProducerFails, AgentReturns, consVars, Markers
  <2> QED BY <1>0, <1>3, <1>4, <2>1
<1>9. CASE ProducerShutsSink
  BY <1>1, <1>9 DEF ProducerShutsSink, consVars
<1>10. ASSUME NEW k \in AgentEvents, AgentEmits(k) PROVE Less \/ More
  <2>1. inHand' = inHand /\ agentQ' = AgentEnqueues(agentQ, Ev(k, prodReq)) /\ k \in Kinds
    BY <1>10, ActiveTaskAssumption DEF AgentEmits, Emits, consVars
  <2> QED BY <1>0, <1>3, <1>4, <2>1
<1>11. CASE ConsumesMarker \/ ConsumesMessage \/ ConsumerApplies \/ ConsumerRaises
  <2>1. /\ QCanGet(agentQ) /\ agentQ' \in {QGet(agentQ), QDone(QGet(agentQ))}
        /\ inHand' \in {inHand, Head(agentQ.items)}
    BY <1>11 DEF ConsumesMarker, ConsumesMessage, ConsumerApplies, ConsumerRaises, ConsumerTakes,
                 CanTake, Taken, consVars
  <2> QED BY <1>1, <2>1 DEF QCanGet
<1>12. CASE ConsumerPublishes
  BY <1>1, <1>12 DEF ConsumerPublishes
<1>13. CASE ConsumerReportsError
  BY <1>1, <1>13 DEF ConsumerReportsError
<1>14. CASE ConsumerSeesShutdown \/ ConsumerDies
  BY <1>5, <1>14 DEF ConsumerSeesShutdown, ConsumerDies
<1>15. CASE \/ ConsumerBegins \/ ConsumerSettles \/ ConsumerAwaitsProducer \/ ConsumerUnrefs
            \/ ConsumerCleansUp
  BY <1>15 DEF ConsumerBegins, ConsumerSettles, ConsumerAwaitsProducer, ConsumerUnrefs,
               ConsumerCleansUp, agentVars
<1>16. ASSUME NEW s \in Subs, (SubscribeNext(s) \/ SubscriberNext(s) \/ Disconnect(s)) PROVE Less
  BY <1>16 DEF SubscribeNext, SubscribeRejected, Subscribes, SubscribeRefused, SubscriberNext,
               YieldInitial, StreamsEvent, ResumesStream, SkipsMarker, RequestDone, RaisesError,
               StreamEnds, Disconnect, Leaves, Others, Unsubscribes, SubscriberCleansUp,
               agentVars, consVars
<1>17. ASSUME NEW c \in Cancelers, (CancelBegins(c) \/ CancelNext(c)) PROVE Less \/ More
  <2>1. CASE CancelBegins(c) \/ AgentCancelReturns(c) \/ CancelReturns(c)
    BY <2>1 DEF CancelBegins, AgentCancelReturns, CancelReturns, CancelsProducer, agentVars, consVars
  <2>2. ASSUME NEW k \in CancelEvents, CancelEmits(c, k) PROVE Less \/ More
    <3>1. inHand' = inHand /\ agentQ' = AgentEnqueues(agentQ, Ev(k, None)) /\ k \in Kinds
      BY <2>2, ActiveTaskAssumption DEF CancelEmits, Emits, consVars
    <3> QED BY <1>3, <1>4, <3>1
  <2>3. CASE AgentCancelRaises(c)
    <3>1. /\ inHand' = inHand
          /\ agentQ' = agentQ \/ agentQ' = AgentEnqueues(agentQ, Ev("failed", None))
      BY <2>3 DEF AgentCancelRaises, CancelsProducer, consVars
    <3> QED BY <1>3, <1>4, <3>1
  <2> QED BY <1>17, <2>1, <2>2, <2>3 DEF CancelNext
<1>18. CASE AcloseQueues
  BY <1>5, <1>18 DEF AcloseQueues, consVars
<1> QED BY <1>6, <1>7, <1>8, <1>9, <1>10, <1>11, <1>12, <1>13, <1>14, <1>15, <1>16, <1>17, <1>18
        DEF Next, ProducerNext, AgentNext, ConsumerNext

\* What a step does to the queue that feeds the subscribers.
LEMMA NextSubsIn ==
    ASSUME [Next]_vars
    PROVE  \/ subsIn' \in {subsIn, <<>>}
           \/ subsIn # <<>> /\ subsIn' = Tail(subsIn)
           \/ agentQ.items # <<>> /\ subsIn' = Append(subsIn, Head(agentQ.items))
           \/ subsIn' \in {Append(subsIn, inHand), Append(subsIn, Ev("error", inHand.req))}
<1>1. CASE Start \/ ProducerNext \/ AgentNext \/ AcloseCancels \/ AcloseReturns \/ UNCHANGED vars
  BY <1>1 DEF Start, StartSucceeds, StartFails, AgentNext, AgentEmits, AgentReturns,
              ExecuteRaises, AcloseCancels, AcloseReturns, vars, feedVars,
              ProducerNext, ProducerBegins, ProducerGetsRequest, ProducerStartsRequest,
              ProducerSeesShutdown, ProducerFails, ProducerShutsSink, ProducerShutsSubs,
              ProducerClosesSinks, ProducerEnds
<1>2. CASE ConsumerNext
  BY <1>2 DEF ConsumerNext, ConsumerBegins, ConsumesMarker, ConsumesMessage, ConsumerApplies,
              ConsumerRaises, ConsumerTakes, ConsumerSettles, ConsumerPublishes,
              ConsumerSeesShutdown, ConsumerReportsError, ConsumerDies, ConsumerAwaitsProducer,
              ConsumerUnrefs, ConsumerCleansUp, Publish, feedVars, CanTake, QCanGet, Taken
<1>3. CASE Dispatch \/ AcloseQueues
  BY <1>3 DEF Dispatch, AcloseQueues
<1>4. ASSUME NEW s \in Subs, (SubscribeNext(s) \/ SubscriberNext(s) \/ Disconnect(s)) PROVE subsIn' = subsIn
  BY <1>4 DEF SubscribeNext, SubscribeRejected, Subscribes, SubscribeRefused, SubscriberNext,
              YieldInitial, StreamsEvent, ResumesStream, SkipsMarker, RequestDone, RaisesError,
              StreamEnds, Disconnect, Leaves, Others, Unsubscribes, SubscriberCleansUp, feedVars
<1>5. ASSUME NEW c \in Cancelers, (CancelBegins(c) \/ CancelNext(c)) PROVE subsIn' = subsIn
  BY <1>5 DEF CancelBegins, CancelNext, CancelEmits, AgentCancelReturns, AgentCancelRaises,
              CancelReturns, CancelsProducer, feedVars
<1> QED BY <1>1, <1>2, <1>3, <1>4, <1>5 DEF Next

\* What a step does to a subscriber that has not begun.
LEMMA NextIdle ==
    ASSUME RefInv, TypeInv, [Next]_vars, NEW s \in Subs, sub'[s] = "idle"
    PROVE  /\ sub[s] = "idle" /\ got'[s] = got[s] /\ outcome'[s] = outcome[s]
           /\ s \in attached' => s \in attached
           /\ s \notin attached => subQ'[s].items \in {subQ[s].items, <<>>}
           /\ prodReq # s => made'[s] = made[s]
<1>0. /\ sub \in [Subs -> SubStates] /\ subQ = [t \in Subs |-> subQ[t]]
      /\ outcome \in [Subs -> Outcomes] /\ got \in [Subs -> Nat] /\ made \in [Subs -> Nat]
      /\ attached \subseteq Subs
  BY DEF RefInv, TypeInv, SubsHeld, ArraysOK, PlainOK
<1>s. \A now \in BOOLEAN : QShutdown(subQ[s], now).items \in {subQ[s].items, <<>>}
  <2>1. subQ[s] \in Loose(Event)
    BY DEF TypeInv, SubsHeld, Held, QType, Loose
  <2> QED BY <2>1, LooseOps
<1>1. CASE \/ Start \/ AgentReturns \/ ExecuteRaises \/ ConsumerNext \/ AcloseCancels \/ AcloseReturns
           \/ UNCHANGED vars
  BY <1>1 DEF Start, StartSucceeds, StartFails, AgentReturns, ExecuteRaises, ConsumerNext,
              ConsumerBegins, ConsumesMarker, ConsumesMessage, ConsumerApplies,
              ConsumerRaises, ConsumerTakes, ConsumerSettles, ConsumerPublishes,
              ConsumerSeesShutdown, ConsumerReportsError, ConsumerDies, ConsumerAwaitsProducer,
              ConsumerUnrefs, ConsumerCleansUp, AcloseCancels, AcloseReturns, vars, subVars, history
<1>2. ASSUME NEW k \in AgentEvents, AgentEmits(k) PROVE UNCHANGED subVars /\ (prodReq # s => made'[s] = made[s])
  BY <1>0, <1>2 DEF AgentEmits
<1>3. CASE ProducerNext
  <2>1. CASE ~ProducerClosesSinks
    BY <1>3, <2>1 DEF ProducerNext, ProducerBegins, ProducerGetsRequest, ProducerStartsRequest,
                ProducerSeesShutdown, ProducerFails, ProducerShutsSink, ProducerShutsSubs,
                ProducerEnds, subVars, history
  <2>2. CASE ProducerClosesSinks
    <3>1. /\ UNCHANGED <<sub, outcome, got, made>> /\ attached' \subseteq attached
          /\ subQ'[s] \in {subQ[s], QShutdown(subQ[s], FALSE)}
      BY <2>2 DEF ProducerClosesSinks, history
    <3> QED BY <1>s, <3>1
  <2> QED BY <2>1, <2>2
<1>4. CASE Dispatch
  <2>1. UNCHANGED <<sub, outcome, got, made>> /\ attached' \subseteq attached
    BY <1>4, Zenon DEF Dispatch, history
  <2>2. s \notin attached => subQ'[s] = subQ[s]
    BY <1>4 DEF Dispatch
  <2> QED BY <2>1, <2>2
<1>5. CASE AcloseQueues
  <2>1. UNCHANGED <<sub, outcome, got, made>> /\ attached' = {}
    BY <1>5 DEF AcloseQueues, history
  <2>2. subQ'[s] \in {subQ[s], QShutdown(subQ[s], TRUE)}
    BY <1>5 DEF AcloseQueues
  <2> QED BY <1>s, <2>1, <2>2
<1>6. ASSUME NEW t \in Subs, (SubscribeNext(t) \/ SubscriberNext(t) \/ Disconnect(t))
      PROVE  /\ sub[s] = "idle" /\ got'[s] = got[s] /\ outcome'[s] = outcome[s]
             /\ s \in attached' => s \in attached
             /\ subQ'[s] = subQ[s] /\ made'[s] = made[s]
  <2>1. made' = made
    BY <1>6 DEF SubscribeNext, SubscribeRejected, Subscribes, SubscribeRefused, SubscriberNext,
                YieldInitial, StreamsEvent, ResumesStream, SkipsMarker, RequestDone, RaisesError,
                StreamEnds, Disconnect, Leaves, Others, Unsubscribes, SubscriberCleansUp, history
  <2>2. \/ \E to \in SubStates \ {"idle"} : sub' = [sub EXCEPT ![t] = to]
        \/ sub[t] = "stream" /\ sub' = sub
    BY <1>6 DEF SubscribeNext, SubscribeRejected, Subscribes, SubscribeRefused, SubscriberNext,
                YieldInitial, StreamsEvent, ResumesStream, SkipsMarker, RequestDone, RaisesError,
                StreamEnds, Disconnect, Leaves, Others, Unsubscribes, SubscriberCleansUp, SubStates
  <2>3. t # s /\ sub[s] = "idle"
    BY <1>0, <2>2
  <2>4. /\ subQ' = subQ \/ \E q : subQ' = [subQ EXCEPT ![t] = q]
        /\ outcome' = outcome \/ \E result : outcome' = [outcome EXCEPT ![t] = result]
        /\ got' = got \/ \E n : got' = [got EXCEPT ![t] = n]
        /\ attached' \in {attached, attached \ {t}, attached \cup {t}}
    BY <1>6 DEF SubscribeNext, SubscribeRejected, Subscribes, SubscribeRefused, SubscriberNext,
                YieldInitial, StreamsEvent, ResumesStream, SkipsMarker, RequestDone, RaisesError,
                StreamEnds, Disconnect, Leaves, Others, Unsubscribes, SubscriberCleansUp
  <2> QED BY <1>0, <2>1, <2>3, <2>4
<1>7. ASSUME NEW c \in Cancelers, (CancelBegins(c) \/ CancelNext(c)) PROVE UNCHANGED <<subVars, made>>
  BY <1>7 DEF CancelBegins, CancelNext, CancelEmits, AgentCancelReturns, AgentCancelRaises,
              CancelReturns, CancelsProducer, history
<1> QED BY <1>0, <1>1, <1>2, <1>3, <1>4, <1>5, <1>6, <1>7 DEF Next, AgentNext, subVars

\* A queue in which there is nothing of s, after it has grown or has been read.
LEMMA NoneKeeps ==
    ASSUME NEW q \in Seq(Event), NEW s, NoneOf(q, s)
    PROVE  /\ \A e \in Event : e.req # s => NoneOf(Append(q, e), s)
           /\ q # <<>> => NoneOf(Tail(q), s) /\ Head(q).req # s
           /\ NoneOf(<<>>, s)
           /\ \A p \in Seq(Event) : NoneOf(p, s) => NoneOf(q \o p, s) /\ NoneOf(p \o q, s)
<1>1. ASSUME NEW e \in Event, e.req # s PROVE NoneOf(Append(q, e), s)
  <2>1. \A i \in 1..Len(Append(q, e)) : Append(q, e)[i] = e \/ (i \in 1..Len(q) /\ Append(q, e)[i] = q[i])
    OBVIOUS
  <2> QED BY <1>1, <2>1 DEF NoneOf
<1>2. ASSUME q # <<>> PROVE NoneOf(Tail(q), s) /\ Head(q).req # s
  <2>1. /\ \A i \in 1..Len(Tail(q)) : i + 1 \in 1..Len(q) /\ Tail(q)[i] = q[i + 1]
        /\ 1 \in 1..Len(q) /\ Head(q) = q[1]
    BY <1>2
  <2> QED BY <2>1 DEF NoneOf
<1>3. NoneOf(<<>>, s)
  BY DEF NoneOf
<1>4. \A a, b \in Seq(Event) : NoneOf(a, s) /\ NoneOf(b, s) => NoneOf(a \o b, s)
  <2> SUFFICES ASSUME NEW a \in Seq(Event), NEW b \in Seq(Event), NoneOf(a, s), NoneOf(b, s)
               PROVE  NoneOf(a \o b, s)
    OBVIOUS
  <2>1. /\ Len(a \o b) = Len(a) + Len(b) /\ Len(a) \in Nat /\ Len(b) \in Nat
        /\ \A i \in 1..Len(a) + Len(b) : (a \o b)[i] = IF i <= Len(a) THEN a[i] ELSE b[i - Len(a)]
    BY ConcatProperties
  <2>2. \A i \in 1..Len(a \o b) : i \in 1..Len(a) \/ i - Len(a) \in 1..Len(b)
    BY <2>1
  <2>3. ASSUME NEW i \in 1..Len(a \o b) PROVE (a \o b)[i].req # s
    <3>1. CASE i <= Len(a)
      BY <2>1, <3>1 DEF NoneOf
    <3>2. CASE ~(i <= Len(a))
      <4>1. i - Len(a) \in 1..Len(b) /\ (a \o b)[i] = b[i - Len(a)]
        BY <2>1, <3>2
      <4> QED BY <4>1 DEF NoneOf
    <3> QED BY <3>1, <3>2
  <2> QED BY <2>3 DEF NoneOf
<1> QED BY <1>1, <1>2, <1>3, <1>4

\* A step leaves nothing of a request before it is made.
LEMMA NextFresh ==
    ASSUME RefInv, SerialInv, TypeInv, Flowing, [Next]_vars, NEW s \in Senders, FreshInv(s)
    PROVE  FreshInv(s)'
<1> SUFFICES ASSUME sub'[s] = "idle"
             PROVE  /\ made'[s] = 0 /\ got'[s] = 0 /\ outcome'[s] = None /\ s \notin attached'
                    /\ subQ'[s].items = <<>> /\ NoneOf(agentQ'.items, s) /\ NoneOf(subsIn', s)
                    /\ inHand'.req # s /\ prodReq' # s /\ ~Queued(s)'
  BY DEF FreshInv
<1>s. s \in Subs /\ s # None
  BY ActiveTaskAssumption
<1>1. /\ sub[s] = "idle" /\ made[s] = 0 /\ got[s] = 0 /\ outcome[s] = None /\ s \notin attached
      /\ subQ[s].items = <<>> /\ NoneOf(agentQ.items, s) /\ NoneOf(subsIn, s)
      /\ inHand.req # s /\ prodReq # s /\ ~Queued(s)
  BY <1>s, NextIdle DEF FreshInv
<1>2. /\ made'[s] = 0 /\ got'[s] = 0 /\ outcome'[s] = None /\ s \notin attached'
      /\ subQ'[s].items = <<>>
  BY <1>s, <1>1, NextIdle
<1>3. NoneOf(agentQ'.items, s) /\ inHand'.req # s
  <2>1. agentQ.items \in Seq(Event) /\ (agentQ.items # <<>> => Head(agentQ.items).req # s)
    <3>1. agentQ.items \in Seq(Event)
      BY DEF Flowing
    <3>2. agentQ.items # <<>> => Head(agentQ.items).req # s
      BY <1>1, <3>1, NoneKeeps
    <3> QED BY <3>1, <3>2
  <2>2. \E x : x = agentQ'.items /\ NoneOf(x, s)
    <3>1. /\ NoneOf(<<>>, s)
          /\ agentQ.items # <<>> => NoneOf(Tail(agentQ.items), s)
          /\ \A e \in Event : e.req # s => NoneOf(Append(agentQ.items, e), s)
      BY <1>1, NoneKeeps DEF Flowing
    <3> QED BY <1>s, <1>1, <3>1, NextItems
  <2>3. inHand' \in {inHand, Head(agentQ.items)} /\ (inHand' = inHand \/ agentQ.items # <<>>)
    BY NextItems
  <2> QED BY <1>1, <2>1, <2>2, <2>3 DEF Flowing
<1>4. NoneOf(subsIn', s)
  <2>1. /\ NoneOf(<<>>, s)
        /\ subsIn # <<>> => NoneOf(Tail(subsIn), s)
        /\ \A e \in Event : e.req # s => NoneOf(Append(subsIn, e), s)
    BY <1>1, NoneKeeps DEF Flowing
  <2>2. agentQ.items # <<>> => Head(agentQ.items) \in Event /\ Head(agentQ.items).req # s
    <3>1. agentQ.items \in Seq(Event)
      BY DEF Flowing
    <3>2. agentQ.items # <<>> => Head(agentQ.items).req # s
      BY <1>1, <3>1, NoneKeeps
    <3> QED BY <3>1, <3>2, HeadTailProperties
  <2>3. /\ inHand \in Event /\ Ev("error", inHand.req) \in Event
        /\ Ev("error", inHand.req).req = inHand.req
    BY DEF Flowing, Ev, Event, Markers
  <2>4. \E x : x = subsIn' /\ NoneOf(x, s)
    BY <1>1, <2>1, <2>2, <2>3, NextSubsIn
  <2> QED BY <2>4
<1>5. prodReq' # s /\ ~Queued(s)'
  <2>1. CASE reqQ'.items \in {reqQ.items, <<>>} /\ prodReq' = prodReq
    BY <1>1, <2>1 DEF Queued
  <2>2. CASE /\ reqQ.items # <<>> /\ reqQ'.items = Tail(reqQ.items) /\ prodReq' = Head(reqQ.items)
    <3>1. /\ \A i \in 1..Len(reqQ'.items) : i + 1 \in 1..Len(reqQ.items) /\ reqQ'.items[i] = reqQ.items[i + 1]
          /\ 1 \in 1..Len(reqQ.items) /\ Head(reqQ.items) = reqQ.items[1]
      BY <2>2 DEF Flowing
    <3> QED BY <1>1, <2>2, <3>1 DEF Queued
  <2>3. ASSUME prodReq' = prodReq, NEW t \in Senders, Subscribes(t), reqQ'.items = Append(reqQ.items, t)
        PROVE  prodReq' # s /\ ~Queued(s)'
    <3>1. t # s
      BY <1>s, <2>3 DEF Subscribes, RefInv
    <3>2. \A i \in 1..Len(reqQ'.items) : reqQ'.items[i] = t \/ (i \in 1..Len(reqQ.items) /\ reqQ'.items[i] = reqQ.items[i])
      BY <2>3 DEF Flowing
    <3> QED BY <1>1, <2>3, <3>1, <3>2 DEF Queued
  <2> QED BY <2>1, <2>2, <2>3, NextRequests
<1> QED BY <1>2, <1>3, <1>4, <1>5

\* What comes to the subscribers does not change while the consumer moves an event on.
LEMMA FeedSame ==
    ASSUME UNCHANGED <<subsIn, subsOpen, inHand>>, agentQ'.items = agentQ.items,
           cons' = cons \/ (cons = "settle" /\ cons' = "publish") \/ {cons, cons'} \subseteq {"off", "new", "get"}
             \/ {cons, cons'} \subseteq ConsStates \ {"off", "new", "get", "settle", "publish"},
           agentOpen' \in {agentOpen, FALSE}
    PROVE  Feed' = Feed /\ (Running' => Running)
<1>1. Hand' = Hand /\ (Live' <=> Live)
  <2>1. CASE cons' = cons \/ (cons = "settle" /\ cons' = "publish")
    BY <2>1 DEF Hand, Live
  <2>2. CASE {cons, cons'} \subseteq {"off", "new", "get"}
    BY <2>2 DEF Hand, Live
  <2>3. CASE {cons, cons'} \subseteq ConsStates \ {"off", "new", "get", "settle", "publish"}
    BY <2>3 DEF Hand, Live
  <2> QED BY <2>1, <2>2, <2>3
<1>2. Feed' = Feed
  BY <1>1 DEF Feed, Coming
<1>3. agentOpen' => agentOpen
  OBVIOUS
<1>4. Running' => Running
  BY <1>1, <1>3 DEF Running
<1> QED BY <1>2, <1>4

\* It is cut off when the subscribers' queue or the consumer closes.
LEMMA FeedCut ==
    ASSUME Flowing, UNCHANGED subsIn, ~(subsOpen' /\ Live')
    PROVE  Starts(Feed', Feed) /\ ~Running'
<1>1. subsIn \in Seq(Event) /\ Coming \in Seq(Event) /\ Feed = subsIn \o Coming
  BY WayTyped DEF Flowing, Feed
<1>2. Feed' = subsIn
  <2>1. Feed' = subsIn \o <<>>
    BY DEF Feed, Coming
  <2> QED BY <1>1, <2>1, ConcatEmptySeq
<1>3. Starts(subsIn, Feed)
  BY <1>1, Beginnings
<1> QED BY <1>2, <1>3 DEF Running

\* It grows when the agent or the producer enqueues something, if everything is open.
LEMMA FeedGrows ==
    ASSUME Flowing, NEW e \in Event, agentQ' = AgentEnqueues(agentQ, e), agentOpen' \in {agentOpen, FALSE},
           UNCHANGED <<subsIn, subsOpen, inHand, cons>>
    PROVE  /\ Feed' = IF Running THEN Append(Feed, e) ELSE Feed
           /\ Running' => Running
<1>0. /\ Hand \in Seq(Event) /\ Coming \in Seq(Event) /\ subsIn \in Seq(Event)
      /\ agentQ.items \in Seq(Event)
  BY WayTyped DEF Flowing
<1>1. Hand' = Hand /\ (Live' <=> Live)
  BY DEF Hand, Live
<1>2. Running' => Running
  BY <1>1 DEF Running
<1>3. CASE ~agentOpen
  <2>1. agentQ' = agentQ
    BY <1>3 DEF AgentEnqueues
  <2> QED BY <1>1, <1>2, <1>3, <2>1 DEF Feed, Coming, Running
<1>4. CASE agentOpen /\ ~(subsOpen /\ Live)
  BY <1>1, <1>2, <1>4 DEF Feed, Coming, Running
<1>5. CASE agentOpen /\ subsOpen /\ Live
  <2>1. agentQ'.items = Append(agentQ.items, e)
    BY <1>5 DEF AgentEnqueues, QPut
  <2>2. \A a, b \in Seq(Event) : a \o Append(b, e) = Append(a \o b, e)
    BY Joins
  <2>3. Coming' = Hand \o Append(agentQ.items, e) /\ Coming = Hand \o agentQ.items
    BY <1>1, <1>5, <2>1 DEF Coming
  <2>4. Coming' = Append(Coming, e)
    BY <1>0, <2>2, <2>3
  <2>5. Feed' = subsIn \o Append(Coming, e)
    BY <2>4 DEF Feed
  <2>6. Feed' = Append(Feed, e)
    BY <1>0, <2>2, <2>5 DEF Feed
  <2> QED BY <1>2, <1>5, <2>6 DEF Running
<1> QED BY <1>2, <1>3, <1>4, <1>5

\* Nor does it change when the consumer publishes the event it has read.
LEMMA FeedMoves ==
    ASSUME Flowing, UNCHANGED <<subsOpen, agentOpen>>, Live, cons' = "get",
           \/ /\ cons = "get" /\ agentQ.items # <<>> /\ agentQ'.items = Tail(agentQ.items)
              /\ subsIn' = IF subsOpen THEN Append(subsIn, Head(agentQ.items)) ELSE subsIn
           \/ /\ cons = "publish" /\ agentQ'.items = agentQ.items
              /\ subsIn' = IF subsOpen THEN Append(subsIn, inHand) ELSE subsIn
    PROVE  Feed' = Feed /\ (Running' => Running)
<1>0. /\ subsIn \in Seq(Event) /\ agentQ.items \in Seq(Event) /\ inHand \in Event
  BY DEF Flowing
<1>1. Live' /\ Hand' = <<>>
  BY DEF Live, Hand
<1>2. Running' => Running
  BY <1>1 DEF Running
<1>3. CASE ~subsOpen
  BY <1>2, <1>3 DEF Feed, Coming
<1>4. CASE subsOpen /\ cons = "get"
  <2> DEFINE q == agentQ.items
             t == Tail(agentQ.items)
             h == Head(agentQ.items)
  <2>1. q # <<>> /\ agentQ'.items = t /\ subsIn' = Append(subsIn, h) /\ Hand = <<>>
    BY <1>4 DEF Hand
  <2>2. q \in Seq(Event) /\ t \in Seq(Event) /\ h \in Event
    BY <1>0, <2>1, HeadTailProperties
  <2>3. \A a, b \in Seq(Event) : b # <<>> => Append(a, Head(b)) \o Tail(b) = a \o b
    BY <2>2, Joins
  <2>4. Append(subsIn, h) \o t = subsIn \o q
    BY <1>0, <2>1, <2>3
  <2>5. Feed' = Append(subsIn, h) \o (<<>> \o t) /\ Feed = subsIn \o (<<>> \o q)
    BY <1>1, <1>4, <2>1 DEF Feed, Coming
  <2>6. <<>> \o t = t /\ <<>> \o q = q
    BY <2>2, ConcatEmptySeq
  <2> HIDE DEF q, t, h
  <2> QED BY <1>2, <2>4, <2>5, <2>6
<1>5. CASE subsOpen /\ cons = "publish"
  <2>1. agentQ'.items = agentQ.items /\ subsIn' = Append(subsIn, inHand) /\ Hand = <<inHand>>
    BY <1>5 DEF Hand
  <2>2. Feed' = Append(subsIn, inHand) \o (<<>> \o agentQ.items) /\ Feed = subsIn \o (<<inHand>> \o agentQ.items)
    BY <1>1, <1>5, <2>1 DEF Feed, Coming
  <2>3. <<>> \o agentQ.items = agentQ.items
    BY <1>0, ConcatEmptySeq
  <2>4. Append(subsIn, inHand) \o agentQ.items = subsIn \o (<<inHand>> \o agentQ.items)
    <3>1. PICK a \in Seq(Event), b \in Seq(Event), e \in Event :
              a = subsIn /\ b = agentQ.items /\ e = inHand
      BY <1>0
    <3>2. Append(a, e) \o b = a \o (<<e>> \o b)
      BY Joins
    <3> QED BY <3>1, <3>2
  <2>5. Feed' = Feed
    BY <2>2, <2>3, <2>4
  <2> QED BY <1>2, <2>5
<1> QED BY <1>3, <1>4, <1>5

\* The steps of the consumer.
LEMMA ConsumerFlows ==
    ASSUME Flowing, Flowing', SerialInv, RefInv, ConsumerNext
    PROVE  /\ UNCHANGED <<subVars, made>>
           /\ \/ Feed' = Feed /\ (Running' => Running)
              \/ Starts(Feed', Feed) /\ ~Running'
              \/ /\ Running' => Running
                 /\ \E e \in Event : e.kind = "error" /\ Feed' = Append(Feed, e)
<1>0. agentQ \in Loose(Event) /\ agentQ.items \in Seq(Event)
  BY DEF SerialInv, SerialTypes, Flowing
<1>q. /\ QDone(agentQ).items = agentQ.items
      /\ QCanGet(agentQ) => QGet(agentQ).items = Tail(agentQ.items) /\ QDone(QGet(agentQ)).items = Tail(agentQ.items)
  BY <1>0, LooseOps DEF QDone, QGet
<1>1. UNCHANGED <<subVars, made>>
  BY DEF ConsumerNext, ConsumerBegins, ConsumesMarker, ConsumesMessage, ConsumerApplies,
         ConsumerRaises, ConsumerTakes, ConsumerSettles, ConsumerPublishes,
         ConsumerSeesShutdown, ConsumerReportsError, ConsumerDies, ConsumerAwaitsProducer,
         ConsumerUnrefs, ConsumerCleansUp, history
<1>2. CASE ConsumesMarker \/ ConsumesMessage
  <2>1. /\ cons = "get" /\ cons' = "get" /\ QCanGet(agentQ) /\ agentQ' = QDone(QGet(agentQ))
        /\ subsIn' = (IF subsOpen THEN Append(subsIn, Head(agentQ.items)) ELSE subsIn)
        /\ UNCHANGED <<subsOpen, agentOpen>>
    BY <1>2 DEF ConsumesMarker, ConsumesMessage, CanTake, Taken, Publish, consVars
  <2>2. Live /\ agentQ.items # <<>> /\ agentQ'.items = Tail(agentQ.items)
    BY <1>q, <2>1 DEF Live, QCanGet
  <2> QED BY <1>1, <2>1, <2>2, FeedMoves
<1>3. CASE ConsumerApplies
  <2>1. /\ cons = "get" /\ cons' = "settle" /\ QCanGet(agentQ) /\ agentQ' = QGet(agentQ)
        /\ inHand' = Head(agentQ.items) /\ UNCHANGED <<subsIn, subsOpen, agentOpen>>
    BY <1>3 DEF ConsumerApplies, ConsumerTakes, CanTake, Taken, feedVars
  <2>2. agentQ'.items = Tail(agentQ.items) /\ agentQ.items # <<>>
    BY <1>q, <2>1 DEF QCanGet
  <2>3. /\ Coming' = IF subsOpen THEN <<Head(agentQ.items)>> \o Tail(agentQ.items) ELSE <<>>
        /\ Coming = IF subsOpen THEN <<>> \o agentQ.items ELSE <<>>
    BY <2>1, <2>2 DEF Coming, Hand, Live
  <2>4. \A e \in Event, b \in Seq(Event) : b # <<>> => <<Head(b)>> \o Tail(b) = b
    BY Joins
  <2>5. <<Head(agentQ.items)>> \o Tail(agentQ.items) = agentQ.items
    <3>1. Head(agentQ.items) \in Event
      BY <1>0, <2>2, HeadTailProperties
    <3> QED BY <1>0, <2>2, <2>4, <3>1
  <2>6. <<>> \o agentQ.items = agentQ.items
    BY <1>0, ConcatEmptySeq
  <2>7. Coming' = Coming
    BY <2>3, <2>5, <2>6
  <2>8. Running' => Running
    BY <2>1 DEF Running, Live
  <2> QED BY <1>1, <2>1, <2>7, <2>8 DEF Feed
<1>4. CASE ConsumerPublishes
  <2>1. /\ cons = "publish" /\ cons' = "get" /\ agentQ' = QDone(agentQ)
        /\ subsIn' = (IF subsOpen THEN Append(subsIn, inHand) ELSE subsIn)
        /\ UNCHANGED <<subsOpen, agentOpen>>
    BY <1>4 DEF ConsumerPublishes, Publish
  <2>2. Live /\ agentQ'.items = agentQ.items
    BY <1>q, <2>1 DEF Live
  <2> QED BY <1>1, <2>1, <2>2, FeedMoves
<1>5. CASE \/ ConsumerBegins \/ ConsumerSettles \/ ConsumerAwaitsProducer \/ ConsumerUnrefs
           \/ ConsumerCleansUp
  <2>1. /\ UNCHANGED <<subsIn, subsOpen, inHand, agentQ, agentOpen>>
        /\ \/ cons = "settle" /\ cons' = "publish"
           \/ {cons, cons'} \subseteq {"off", "new", "get"}
           \/ {cons, cons'} \subseteq ConsStates \ {"off", "new", "get", "settle", "publish"}
    BY <1>5 DEF ConsumerBegins, ConsumerSettles, ConsumerAwaitsProducer, ConsumerUnrefs,
                ConsumerCleansUp, agentVars, feedVars, ConsStates
  <2> QED BY <1>1, <2>1, FeedSame
<1>6. CASE ConsumerRaises \/ ConsumerSeesShutdown \/ ConsumerDies
  <2>1. UNCHANGED subsIn /\ cons' \in {"crash", "await"}
    BY <1>6 DEF ConsumerRaises, ConsumerSeesShutdown, ConsumerDies, ConsumerTakes,
                ConsumerWindsUp, feedVars
  <2>2. ~Live'
    BY <2>1 DEF Live
  <2> QED BY <1>1, <2>1, <2>2, FeedCut
<1>7. CASE ConsumerReportsError
  <2> DEFINE e == Ev("error", inHand.req)
  <2>1. /\ cons = "crash" /\ cons' = "await" /\ UNCHANGED subsOpen
        /\ subsIn' = IF subsOpen THEN Append(subsIn, e) ELSE subsIn
    BY <1>7 DEF ConsumerReportsError, ConsumerWindsUp, Publish
  <2>2. e \in Event /\ e.kind = "error"
    BY DEF Flowing, Ev, Event, Markers
  <2>3. ~Live /\ ~Live'
    BY <2>1 DEF Live
  <2>4. Feed = subsIn \o <<>> /\ Feed' = subsIn' \o <<>>
    BY <2>3 DEF Feed, Coming
  <2>5. Feed = subsIn /\ Feed' = subsIn'
    <3>1. subsIn \in Seq(Event) /\ subsIn' \in Seq(Event)
      BY DEF Flowing
    <3> QED BY <2>4, <3>1, ConcatEmptySeq
  <2>6. ~Running'
    BY <2>3 DEF Running
  <2> HIDE DEF e
  <2> QED BY <1>1, <2>1, <2>2, <2>5, <2>6
<1> QED BY <1>2, <1>3, <1>4, <1>5, <1>6, <1>7 DEF ConsumerNext

\* A step that takes no part of what s has before it and that is none of a subscriber's.
LEMMA FlowAround ==
    ASSUME RefInv, SerialInv, Flowing, Flowing', [Next]_vars, NEW s \in Senders, FlowInv(s),
           UNCHANGED subVars, made'[s] = made[s],
           \/ Feed' = Feed /\ (Running' => Running)
           \/ Starts(Feed', Feed) /\ ~Running'
           \/ /\ Running' => Running
              /\ \E e \in Event : (e.kind \in {"started", "error"} \/ e.req # s) /\ Feed' = Append(Feed, e)
    PROVE  FlowInv(s)'
<1>1. \A e \in Event : e.kind \in {"started", "error"} \/ e.req # s => ~Of(e, s) /\ e # End(s)
  BY DEF Of, End, Ev, Kinds, States, Terminal, None
<1>2. s \in Subs
  BY ActiveTaskAssumption
<1>3. ~Subscribes(s)
  BY <1>2 DEF Subscribes, subVars, RefInv
<1>4. Upcoming(s)' => Upcoming(s)
  BY <1>3, NextUpcoming
<1>5. /\ subQ'[s].items = subQ[s].items /\ (s \in attached' <=> s \in attached)
      /\ sub'[s] = sub[s] /\ got'[s] = got[s] /\ outcome'[s] = outcome[s]
  BY DEF subVars
<1> QED BY <1>1, <1>4, <1>5, FlowQuiet

\* The producer, and the agent when it works for somebody else.
LEMMA ProducerFlows ==
    ASSUME RefInv, SerialInv, Flowing, Flowing', [Next]_vars, NEW s \in Senders, FlowInv(s),
           \/ ProducerNext /\ ~ProducerClosesSinks
           \/ Start \/ ExecuteRaises \/ AcloseCancels \/ AcloseReturns \/ UNCHANGED vars
           \/ \E c \in Cancelers : CancelBegins(c) \/ CancelNext(c)
    PROVE  FlowInv(s)'
<1>0. /\ \A k \in Kinds \cup Markers, r \in Subs \cup {None} :
             Ev(k, r) \in Event /\ Ev(k, r).kind = k /\ Ev(k, r).req = r
      /\ "failed" \in Kinds /\ {"started", "error"} \subseteq Markers
      /\ prodReq \in Subs \cup {None} /\ s \in Subs /\ s # None
      /\ agentQ \in Loose(Event) /\ cons \in ConsStates
  <2>1. \A k \in Kinds \cup Markers, r \in Subs \cup {None} :
            Ev(k, r) \in Event /\ Ev(k, r).kind = k /\ Ev(k, r).req = r
    BY DEF Ev, Event
  <2>2. "failed" \in Kinds /\ {"started", "error"} \subseteq Markers
    BY DEF Kinds, States, Terminal, None, Markers
  <2>3. prodReq \in Subs \cup {None} /\ s \in Subs /\ s # None
    BY ActiveTaskAssumption DEF SerialInv, SerialTypes
  <2>4. agentQ \in Loose(Event) /\ cons \in ConsStates
    BY DEF SerialInv, SerialTypes, RefInv
  <2> QED BY <2>1, <2>2, <2>3, <2>4
<1>1. ASSUME UNCHANGED <<subVars, made, subsIn, subsOpen, inHand>>, agentQ'.items = agentQ.items,
             cons' = cons \/ {cons, cons'} \subseteq {"off", "new", "get"},
             agentOpen' \in {agentOpen, FALSE}
      PROVE  FlowInv(s)'
  <2>1. Feed' = Feed /\ (Running' => Running)
    BY <1>1, FeedSame
  <2> QED BY <1>1, <2>1, FlowAround
<1>2. ASSUME NEW e \in Event, (e.kind \in {"started", "error"} \/ e.req # s),
             agentQ' = AgentEnqueues(agentQ, e), agentOpen' \in {agentOpen, FALSE},
             UNCHANGED <<subVars, made, subsIn, subsOpen, inHand, cons>>
      PROVE  FlowInv(s)'
  <2>1. Running' => Running
    BY <1>2, FeedGrows
  <2>2. Feed' = Feed \/ Feed' = Append(Feed, e)
    BY <1>2, FeedGrows
  <2> QED BY <1>2, <2>1, <2>2, FlowAround
<1>3. CASE Start
  <2>1. lock = "start" => cons = "off"
    BY DEF RefInv
  <2>2. /\ UNCHANGED <<subVars, made, subsIn, subsOpen, inHand, agentQ, agentOpen>>
        /\ cons' = cons \/ (lock = "start" /\ cons' = "new")
    BY <1>3 DEF Start, StartSucceeds, StartFails, history, feedVars, agentVars, consVars
  <2> QED BY <1>1, <2>1, <2>2
<1>4. CASE \/ ProducerBegins \/ ProducerGetsRequest \/ ProducerSeesShutdown \/ ProducerEnds
           \/ ExecuteRaises
  <2>1. /\ UNCHANGED <<subVars, made, subsIn, subsOpen, inHand, cons, agentQ>>
        /\ agentOpen' \in {agentOpen, FALSE}
    BY <1>4 DEF ProducerBegins, ProducerGetsRequest, ProducerSeesShutdown, ProducerEnds,
                ExecuteRaises, ProducerWindsUp, history, feedVars, agentVars, consVars
  <2> QED BY <1>1, <2>1
<1>5. CASE ProducerShutsSink
  <2>1. /\ UNCHANGED <<subVars, made, subsIn, subsOpen, inHand, cons, agentOpen>>
        /\ agentQ' = QShutdown(agentQ, FALSE)
    BY <1>5 DEF ProducerShutsSink, history, feedVars, consVars
  <2>2. agentQ'.items = agentQ.items
    BY <1>0, <2>1 DEF QShutdown, Loose
  <2> QED BY <1>1, <2>1, <2>2
<1>6. CASE ProducerStartsRequest \/ ProducerFails
  <2>1. /\ \E k \in {"started", "error"} : agentQ' = AgentEnqueues(agentQ, Ev(k, prodReq))
        /\ UNCHANGED <<subVars, made, subsIn, subsOpen, inHand, cons>>
        /\ agentOpen' \in {agentOpen, FALSE}
    BY <1>6 DEF ProducerStartsRequest, ProducerFails, ProducerWindsUp, history, feedVars, consVars
  <2> QED BY <1>0, <1>2, <2>1
<1>7. CASE ProducerShutsSubs
  <2>1. UNCHANGED <<subVars, made, subsIn>> /\ ~subsOpen'
    BY <1>7 DEF ProducerShutsSubs, history
  <2>2. Starts(Feed', Feed) /\ ~Running'
    BY <2>1, FeedCut
  <2> QED BY <2>1, <2>2, FlowAround
<1>8. CASE AcloseCancels
  <2>1. /\ UNCHANGED <<subVars, made, subsIn, subsOpen, inHand, agentQ>>
        /\ agentOpen' \in {agentOpen, FALSE}
    BY <1>8 DEF AcloseCancels, InterruptProducer, history, feedVars
  <2>2. CASE cons = "off"
    <3>1. cons' = "off"
      BY <1>8, <2>2 DEF AcloseCancels
    <3> QED BY <1>1, <2>1, <2>2, <3>1
  <2>3. CASE cons # "off"
    <3>1. cons' \in {"await", "unref", "done"}
      BY <1>0, <1>8, <2>3 DEF AcloseCancels, ConsStates
    <3>2. ~Live'
      BY <3>1 DEF Live
    <3>3. Starts(Feed', Feed) /\ ~Running'
      BY <2>1, <3>2, FeedCut
    <3> QED BY <2>1, <3>3, FlowAround
  <2> QED BY <2>2, <2>3
<1>9. CASE AcloseReturns \/ UNCHANGED vars
  <2>1. UNCHANGED <<subVars, made, subsIn, subsOpen, inHand, cons, agentQ, agentOpen>>
    BY <1>9 DEF AcloseReturns, vars, history, feedVars, agentVars, consVars
  <2> QED BY <1>1, <2>1
<1>10. ASSUME NEW c \in Cancelers, (CancelBegins(c) \/ CancelNext(c)) PROVE FlowInv(s)'
  <2>1. CASE CancelBegins(c) \/ AgentCancelReturns(c) \/ CancelReturns(c)
    <3>1. /\ UNCHANGED <<subVars, made, subsIn, subsOpen, inHand, cons, agentQ>>
          /\ agentOpen' \in {agentOpen, FALSE}
      BY <2>1 DEF CancelBegins, AgentCancelReturns, CancelReturns, CancelsProducer, InterruptProducer,
                  history, feedVars, agentVars, consVars
    <3> QED BY <1>1, <3>1
  <2>2. ASSUME NEW k \in CancelEvents, CancelEmits(c, k) PROVE FlowInv(s)'
    <3>1. /\ agentQ' = AgentEnqueues(agentQ, Ev(k, None)) /\ k \in Kinds
          /\ UNCHANGED <<subVars, made, subsIn, subsOpen, inHand, cons, agentOpen>>
      BY <2>2, ActiveTaskAssumption DEF CancelEmits, Emits, feedVars, consVars
    <3> QED BY <1>0, <1>2, <3>1
  <2>3. CASE AgentCancelRaises(c)
    <3>1. /\ agentQ' = agentQ \/ agentQ' = AgentEnqueues(agentQ, Ev("failed", None))
          /\ UNCHANGED <<subVars, made, subsIn, subsOpen, inHand, cons>>
          /\ agentOpen' \in {agentOpen, FALSE}
      BY <2>3 DEF AgentCancelRaises, CancelsProducer, InterruptProducer, history, feedVars, consVars
    <3>2. CASE agentQ' = agentQ
      BY <1>1, <3>1, <3>2
    <3>3. CASE agentQ' = AgentEnqueues(agentQ, Ev("failed", None))
      <4>1. Ev("failed", None) \in Event /\ Ev("failed", None).req # s
        BY <1>0
      <4> QED BY <1>2, <3>1, <3>3, <4>1
    <3> QED BY <3>1, <3>2, <3>3
  <2> QED BY <1>10, <2>1, <2>2, <2>3 DEF CancelNext
<1> QED BY <1>3, <1>4, <1>5, <1>6, <1>7, <1>8, <1>9, <1>10 DEF ProducerNext

\* The agent.
LEMMA AgentFlows ==
    ASSUME RefInv, SerialInv, TypeInv, Flowing, Flowing', [Next]_vars, NEW s \in Senders,
           TurnInv(s), FlowInv(s), AgentReturns \/ \E k \in AgentEvents : AgentEmits(k)
    PROVE  FlowInv(s)'
<1>0. s \in Subs /\ Way(s) \in Seq(Event)
  BY WayTyped, ActiveTaskAssumption
<1>e. /\ \A k \in Kinds \cup Markers : Ev(k, prodReq) \in Event /\ Ev(k, prodReq).kind = k /\ Ev(k, prodReq).req = prodReq
      /\ "completed!" \in Markers \ Kinds
  <2>1. prodReq \in Subs \cup {None}
    BY DEF SerialInv, SerialTypes
  <2> QED BY <2>1 DEF Ev, Event, Markers, Kinds, States, Terminal, None
<1>1. PICK k \in Kinds \cup {"completed!"} :
          /\ prod = "exec" /\ agentQ' = AgentEnqueues(agentQ, Ev(k, prodReq))
          /\ UNCHANGED <<subVars, subsIn, subsOpen, inHand, cons, agentOpen, prodReq>>
          /\ k = "completed!" => /\ prod' = "get" /\ reqQ' = QDone(reqQ) /\ made' = made
          /\ k # "completed!" => /\ UNCHANGED <<prod, reqQ>>
                                 /\ made' = IF agentOpen THEN [made EXCEPT ![prodReq] = @ + 1] ELSE made
  <2>1. CASE AgentReturns
    BY <2>1 DEF AgentReturns, feedVars, consVars, history
  <2>2. ASSUME NEW k \in AgentEvents, AgentEmits(k)
        PROVE  /\ k \in Kinds /\ k # "completed!" /\ prod = "exec" /\ agentQ' = AgentEnqueues(agentQ, Ev(k, prodReq))
               /\ UNCHANGED <<subVars, subsIn, subsOpen, inHand, cons, agentOpen, prodReq, prod, reqQ>>
               /\ made' = IF agentOpen THEN [made EXCEPT ![prodReq] = @ + 1] ELSE made
    BY <1>e, <2>2, ActiveTaskAssumption DEF AgentEmits, Emits, feedVars, consVars, prodVars
  <2> QED BY <2>1, <2>2
<1> DEFINE e == Ev(k, prodReq)
<1>2. /\ e \in Event /\ e.kind = k /\ e.req = prodReq /\ agentQ' = AgentEnqueues(agentQ, e)
      /\ k = "completed!" /\ prodReq = s => e = End(s)
      /\ k # "completed!" => k \in Kinds /\ e # End(s)
      /\ k = "completed!" => k \notin Kinds
  BY <1>1, <1>e DEF End, Ev
<1> HIDE DEF e
<1>3. /\ Feed' = IF Running THEN Append(Feed, e) ELSE Feed
      /\ Running' => Running
  BY <1>1, <1>2, FeedGrows
<1>4. CASE prodReq # s
  <2>1. made'[s] = made[s]
    BY <1>0, <1>1, <1>4 DEF TypeInv, ArraysOK
  <2>2. e.req # s
    BY <1>2, <1>4
  <2> QED BY <1>1, <1>2, <1>3, <2>1, <2>2, FlowAround
<1>5. CASE prodReq = s
  <2>1. Upcoming(s) /\ ~Ends(Way(s), s) /\ ~Queued(s) /\ outcome[s] # "completed"
    BY <1>1, <1>5 DEF FlowInv, TurnInv, Upcoming, Current
  <2>2. /\ Way(s)' = IF Intact(s) THEN Append(Way(s), e) ELSE Way(s)
        /\ Intact(s)' => Intact(s)
    <3>1. subQ'[s].items = subQ[s].items /\ (s \in attached' <=> s \in attached)
      BY <1>1 DEF subVars
    <3>2. /\ Feed' = Feed => Way(s)' = Way(s)
          /\ Feed' = Append(Feed, e) => Way(s)' = IF s \in attached THEN Append(Way(s), e) ELSE Way(s)
      BY <1>0, <1>2, <3>1, WayFollows
    <3> QED BY <1>3, <3>1, <3>2 DEF Intact
  <2>3. UNCHANGED <<sub, got, outcome>>
    BY <1>1 DEF subVars
  <2>4. made'[s] = IF k # "completed!" /\ agentOpen THEN made[s] + 1 ELSE made[s]
    BY <1>0, <1>1, <1>5 DEF TypeInv, ArraysOK
  <2>5. CASE ~Intact(s)
    <3>1. Way(s)' = Way(s) /\ ~Intact(s)'
      BY <2>2, <2>5
    <3>2. PICK w \in Seq(Event) : w = Way(s)
      BY <1>0
    <3>3. Ordered(w, s) /\ ~Ends(w, s) /\ Way(s)' = w
      BY <2>1, <3>1, <3>2 DEF FlowInv
    <3> QED BY <2>1, <2>3, <3>1, <3>3 DEF FlowInv
  <2>6. CASE Intact(s)
    <3>1. PICK w \in Seq(Event) : w = Append(Way(s), e) /\ Way(s)' = w
      BY <1>0, <1>2, <2>2, <2>6, AppendProperties
    <3>2. /\ Count(w, s) = Count(Way(s), s) + (IF Of(e, s) THEN 1 ELSE 0)
          /\ Ends(w, s) <=> Ends(Way(s), s) \/ e = End(s)
          /\ Ordered(w, s)
      <4>1. Ordered(Way(s), s)
        BY DEF FlowInv
      <4> QED BY <1>0, <1>2, <2>1, <3>1, <4>1, AfterAppend
    <3>3. Count(Way(s), s) \in Nat /\ made[s] \in Nat /\ got[s] \in Nat /\ agentOpen
      BY <1>0, <2>6, PlacesFinite DEF TypeInv, ArraysOK, Intact, Running
    <3>4. sub[s] \in Moving => got[s] + Count(Way(s), s) = made[s]
      BY <2>6 DEF FlowInv
    <3>5. CASE k = "completed!"
      <4>1. ~Of(e, s)
        BY <1>2, <3>5 DEF Of
      <4>2. sub'[s] \in Moving => got'[s] + Count(w, s) = made'[s]
        BY <2>3, <2>4, <3>2, <3>3, <3>4, <3>5, <4>1
      <4>3. ~Upcoming(s)'
        <5>1. reqQ'.items = reqQ.items /\ prod' = "get"
          BY <1>1, <3>5, LooseOps DEF SerialInv, SerialTypes
        <5> QED BY <2>1, <5>1 DEF Upcoming, Queued, Current
      <4> QED BY <2>1, <2>3, <3>1, <3>2, <4>2, <4>3 DEF FlowInv
    <3>6. CASE k # "completed!"
      <4>1. Of(e, s) /\ e # End(s)
        BY <1>2, <1>5, <3>6 DEF Of
      <4>2. sub'[s] \in Moving => got'[s] + Count(w, s) = made'[s]
        BY <2>3, <2>4, <3>2, <3>3, <3>4, <3>6, <4>1
      <4>3. ~Ends(w, s)
        BY <2>1, <3>2, <4>1
      <4> QED BY <2>1, <2>3, <3>1, <3>2, <4>2, <4>3 DEF FlowInv
    <3> QED BY <3>5, <3>6
  <2> QED BY <2>5, <2>6
<1> QED BY <1>4, <1>5

\* A step at which the sink of s is closed or detached.
LEMMA FlowDetached ==
    ASSUME NEW s \in Senders, Flowing, FlowInv(s),
           subQ'[s].items \in {<<>>, subQ[s].items}, s \notin attached',
           sub'[s] = sub[s] \/ sub'[s] \in Gone,
           got'[s] = got[s], made'[s] = made[s],
           outcome'[s] \in {outcome[s], "error", "ended", "left", "rejected", "refused"},
           Upcoming(s)' => Upcoming(s)
    PROVE  FlowInv(s)'
<1>0. s \in Subs /\ Way(s) \in Seq(Event) /\ subQ[s].items \in Seq(Event) /\ Feed \in Seq(Event)
  BY WayTyped, ActiveTaskAssumption DEF Flowing
<1>p. PICK a, f : a = subQ[s].items /\ f = (IF s \in attached THEN Feed ELSE <<>>)
  OBVIOUS
<1>1. a \in Seq(Event) /\ f \in Seq(Event)
  BY <1>0, <1>p
<1>2. PICK w \in Seq(Event) : w = subQ'[s].items
  <2>1. <<>> \in Seq(Event)
    OBVIOUS
  <2> QED BY <1>0, <2>1
<1>3. Starts(<<>>, a \o f) /\ Starts(a, a \o f) /\ w \o <<>> = w
  <2>1. a \o f \in Seq(Event)
    BY <1>1, ConcatProperties
  <2>2. Starts(<<>>, a \o f)
    BY <2>1, Beginnings
  <2> QED BY <1>1, <2>2, Beginnings, ConcatEmptySeq
<1>4. Way(s) = a \o f
  BY <1>p, Zenon DEF Way
<1>5. Starts(w, Way(s))
  BY <1>p, <1>2, <1>3, <1>4
<1>6. Way(s)' = w
  BY <1>2, <1>3 DEF Way
<1>7. ~Intact(s)'
  BY DEF Intact
<1> QED BY <1>5, <1>6, <1>7, FlowKeeps

\* The dispatcher takes what comes to a subscriber into its queue.
LEMMA DispatchFlows ==
    ASSUME RefInv, SerialInv, TypeInv, Flowing, [Next]_vars, NEW s \in Senders, FlowInv(s), Dispatch
    PROVE  FlowInv(s)'
<1>0. /\ s \in Subs /\ Way(s) \in Seq(Event) /\ subQ[s].items \in Seq(Event) /\ Coming \in Seq(Event)
      /\ subsIn \in Seq(Event) /\ Feed \in Seq(Event)
  BY WayTyped, ActiveTaskAssumption DEF Flowing
<1>1. /\ UNCHANGED <<sub, got, made, outcome, prod, prodReq, reqQ>> /\ subsIn # <<>> /\ subsIn' = Tail(subsIn)
      /\ attached' \subseteq attached
      /\ s \in attached' => subQ'[s] = QPut(subQ[s], Head(subsIn))
      /\ s \in attached \ attached' => subQ'[s] = QShutdown(subQ[s], TRUE)
      /\ s \notin attached => subQ'[s] = subQ[s]
  <2>1. UNCHANGED <<sub, got, made, outcome, prod, prodReq, reqQ>> /\ subsIn # <<>> /\ subsIn' = Tail(subsIn)
    BY DEF Dispatch, history, prodVars
  <2> DEFINE full == {t \in attached : QFull(subQ[t], SubCapacity)}
  <2>2. /\ attached' = attached \ full /\ full \subseteq attached
        /\ subQ' = [t \in Subs |-> IF t \in full THEN QShutdown(subQ[t], TRUE)
                        ELSE IF t \in attached THEN QPut(subQ[t], Head(subsIn))
                        ELSE subQ[t]]
    BY Zenon DEF Dispatch
  <2> HIDE DEF full
  <2> QED BY <1>0, <2>1, <2>2
<1>2. Coming' = Coming /\ (Running' <=> Running)
  BY DEF Dispatch, Coming, Hand, Running, Live, agentVars, consVars
<1>3. Upcoming(s)' <=> Upcoming(s)
  BY <1>1 DEF Upcoming, Queued, Current
<1>4. CASE s \notin attached'
  <2>1. subQ'[s].items \in {<<>>, subQ[s].items}
    BY <1>0, <1>1, <1>4 DEF QShutdown
  <2> QED BY <1>1, <1>3, <1>4, <2>1, FlowDetached
<1>5. CASE s \in attached'
  <2>1. s \in attached /\ subQ'[s].items = Append(subQ[s].items, Head(subsIn))
    BY <1>1, <1>5 DEF QPut
  <2>2. PICK a \in Seq(Event), b \in Seq(Event), c \in Seq(Event) :
            a = subQ[s].items /\ b = subsIn /\ c = Coming
    BY <1>0
  <2>3. Head(b) \in Event /\ Tail(b) \in Seq(Event) /\ Tail(b) \o c \in Seq(Event) /\ b \o c \in Seq(Event)
        /\ <<Head(b)>> \in Seq(Event)
    BY <1>1, <2>2, HeadTailProperties, ConcatProperties
  <2>4. Append(a, Head(b)) \o (Tail(b) \o c) = a \o (<<Head(b)>> \o (Tail(b) \o c))
    <3>1. PICK h \in Event, d \in Seq(Event) : h = Head(b) /\ d = Tail(b) \o c
      BY <2>3
    <3>2. Append(a, h) \o d = a \o (<<h>> \o d)
      BY Joins
    <3> QED BY <3>1, <3>2
  <2>5. <<Head(b)>> \o (Tail(b) \o c) = (<<Head(b)>> \o Tail(b)) \o c
    BY <2>3, ConcatAssociative
  <2>6. <<Head(b)>> \o Tail(b) = b
    <3>1. b # <<>>
      BY <1>1, <2>2
    <3> QED BY <2>3, <3>1, Joins
  <2>7. Way(s) = a \o (b \o c)
    <3>1. Way(s) = subQ[s].items \o Feed /\ Feed = subsIn \o Coming
      BY <2>1 DEF Way, Feed
    <3> QED BY <2>2, <3>1
  <2>8. Way(s)' = Append(a, Head(b)) \o (Tail(b) \o c)
    BY <1>1, <1>2, <1>5, <2>1, <2>2 DEF Way, Feed
  <2>9. PICK w \in Seq(Event) : w = a \o (b \o c)
    BY <2>3, ConcatProperties
  <2>10. Way(s)' = w /\ w = Way(s)
    BY <2>4, <2>5, <2>6, <2>7, <2>8, <2>9
  <2>11. Starts(w, Way(s)) /\ (Intact(s)' => Intact(s))
    BY <1>2, <2>1, <2>10, Beginnings DEF Intact
  <2> QED BY <1>1, <1>3, <2>10, <2>11, FlowKeeps
<1> QED BY <1>4, <1>5

\* What comes from others than subscribers takes away sinks or what is on the way to them.
LEMMA ClosingFlows ==
    ASSUME RefInv, SerialInv, TypeInv, Flowing, Flowing', [Next]_vars, NEW s \in Senders, FlowInv(s),
           AcloseQueues \/ ProducerClosesSinks
    PROVE  FlowInv(s)'
<1>0. s \in Subs /\ subQ[s].items \in Seq(Event)
  BY ActiveTaskAssumption DEF Flowing
<1>1. UNCHANGED <<sub, got, made, outcome>>
  BY DEF AcloseQueues, ProducerClosesSinks, history
<1>2. ~Subscribes(s)
  BY <1>0, <1>1 DEF Subscribes, RefInv
<1>3. Upcoming(s)' => Upcoming(s)
  BY <1>2, NextUpcoming
<1>4. CASE AcloseQueues
  <2>1. s \notin attached' /\ subQ'[s].items \in {<<>>, subQ[s].items}
    BY <1>0, <1>4 DEF AcloseQueues, QShutdown
  <2> QED BY <1>1, <1>3, <2>1, FlowDetached
<1>5. CASE ProducerClosesSinks
  <2>1. /\ subQ'[s].items = subQ[s].items
        /\ s \in attached' <=> s \in attached /\ s \notin closingSubs
    BY <1>0, <1>5 DEF ProducerClosesSinks, QShutdown
  <2>2. CASE s \notin attached'
    BY <1>1, <1>3, <2>1, <2>2, FlowDetached
  <2>3. CASE s \in attached'
    <3>1. UNCHANGED <<subsIn, subsOpen, inHand, cons, agentQ, agentOpen>>
      BY <1>5 DEF ProducerClosesSinks, feedVars, consVars, agentVars
    <3>2. Feed' = Feed /\ (Running' => Running)
      BY <3>1, FeedSame
    <3> QED BY <1>1, <1>3, <2>1, <2>3, <3>2, FlowQuiet
  <2> QED BY <2>2, <2>3
<1> QED BY <1>4, <1>5

\* What another subscriber does.
LEMMA OthersFlow ==
    ASSUME RefInv, SerialInv, TypeInv, Flowing, Flowing', [Next]_vars, NEW s \in Senders, FlowInv(s),
           NEW t \in Subs, t # s, SubscribeNext(t) \/ SubscriberNext(t) \/ Disconnect(t)
    PROVE  FlowInv(s)'
<1>0. /\ s \in Subs /\ sub \in [Subs -> SubStates] /\ subQ = [x \in Subs |-> subQ[x]]
      /\ outcome \in [Subs -> Outcomes] /\ got \in [Subs -> Nat] /\ attached \subseteq Subs
  BY ActiveTaskAssumption DEF RefInv, TypeInv, SubsHeld, ArraysOK, PlainOK
<1>1. UNCHANGED <<made, subsIn, subsOpen, inHand, cons, agentQ, agentOpen>>
  BY DEF SubscribeNext, SubscribeRejected, Subscribes, SubscribeRefused, SubscriberNext,
         YieldInitial, StreamsEvent, ResumesStream, SkipsMarker, RequestDone, RaisesError,
         StreamEnds, Disconnect, Leaves, Others, Unsubscribes, SubscriberCleansUp, history,
         feedVars, agentVars, consVars
<1>2. /\ sub' = sub \/ \E to : sub' = [sub EXCEPT ![t] = to]
      /\ subQ' = subQ \/ \E q : subQ' = [subQ EXCEPT ![t] = q]
      /\ outcome' = outcome \/ \E result : outcome' = [outcome EXCEPT ![t] = result]
      /\ got' = got \/ \E n : got' = [got EXCEPT ![t] = n]
      /\ attached' \in {attached, attached \ {t}, attached \cup {t}}
  BY DEF SubscribeNext, SubscribeRejected, Subscribes, SubscribeRefused, SubscriberNext,
         YieldInitial, StreamsEvent, ResumesStream, SkipsMarker, RequestDone, RaisesError,
         StreamEnds, Disconnect, Leaves, Others, Unsubscribes, SubscriberCleansUp
<1>3. /\ sub'[s] = sub[s] /\ subQ'[s] = subQ[s] /\ outcome'[s] = outcome[s] /\ got'[s] = got[s]
      /\ s \in attached' <=> s \in attached
  BY <1>0, <1>2
<1>4. ~Subscribes(s)
  BY <1>0, <1>3 DEF Subscribes
<1>5. Upcoming(s)' => Upcoming(s)
  BY <1>4, NextUpcoming
<1>6. Feed' = Feed /\ (Running' => Running)
  BY <1>1, FeedSame
<1> QED BY <1>1, <1>3, <1>5, <1>6, FlowQuiet

\* A subscriber that neither reads its queue nor leaves, or that has left.
LEMMA IdlingFlows ==
    ASSUME RefInv, SerialInv, TypeInv, Flowing, Flowing', [Next]_vars, NEW s \in Senders, FlowInv(s),
           YieldInitial(s) \/ ResumesStream(s) \/ Unsubscribes(s) \/ SubscriberCleansUp(s)
    PROVE  FlowInv(s)'
<1>0. /\ s \in Subs /\ sub \in [Subs -> SubStates] /\ subQ = [x \in Subs |-> subQ[x]]
  BY ActiveTaskAssumption DEF RefInv, TypeInv, SubsHeld
<1>1. UNCHANGED <<made, subsIn, subsOpen, inHand, cons, agentQ, agentOpen, attached, outcome, got>>
  BY DEF YieldInitial, ResumesStream, Others, Unsubscribes, SubscriberCleansUp, history,
         feedVars, agentVars, consVars
<1>2. subQ'[s].items = subQ[s].items
  <2>1. subQ' = subQ \/ subQ' = [subQ EXCEPT ![s] = QDone(@)]
    BY DEF YieldInitial, ResumesStream, Unsubscribes, SubscriberCleansUp
  <2>2. subQ'[s] = subQ[s] \/ subQ'[s] = QDone(subQ[s])
    BY <1>0, <2>1
  <2>3. subQ[s] \in Loose(Event)
    BY <1>0 DEF TypeInv, SubsHeld, Held, QType, Loose
  <2> QED BY <2>2, <2>3, LooseOps
<1>3. (sub[s] \in Moving /\ sub'[s] \in Moving) \/ sub'[s] \in Gone
  <2>1. CASE YieldInitial(s) \/ ResumesStream(s)
    BY <1>0, <2>1 DEF YieldInitial, ResumesStream, Moving
  <2>2. CASE Unsubscribes(s) \/ SubscriberCleansUp(s)
    BY <1>0, <2>2 DEF Unsubscribes, SubscriberCleansUp, Gone
  <2> QED BY <2>1, <2>2
<1>4. ~Subscribes(s)
  BY DEF Subscribes, YieldInitial, ResumesStream, Unsubscribes, SubscriberCleansUp
<1>5. Upcoming(s)' => Upcoming(s)
  BY <1>4, NextUpcoming
<1>6. Feed' = Feed /\ (Running' => Running)
  BY <1>1, FeedSame
<1> QED BY <1>1, <1>2, <1>3, <1>5, <1>6, FlowQuiet

\* A subscriber takes an event out of its queue.
LEMMA ReadingFlows ==
    ASSUME RefInv, SerialInv, TypeInv, Flowing, Flowing', [Next]_vars, NEW s \in Senders, FlowInv(s),
           StreamsEvent(s) \/ SkipsMarker(s)
    PROVE  FlowInv(s)'
<1>0. /\ s \in Subs /\ sub \in [Subs -> SubStates] /\ subQ = [x \in Subs |-> subQ[x]]
      /\ got \in [Subs -> Nat] /\ made \in [Subs -> Nat]
      /\ subQ[s].items \in Seq(Event) /\ Feed \in Seq(Event) /\ Way(s) \in Seq(Event)
  BY WayTyped, ActiveTaskAssumption DEF RefInv, TypeInv, SubsHeld, ArraysOK, Flowing
<1>1. UNCHANGED <<made, subsIn, subsOpen, inHand, cons, agentQ, agentOpen, attached, outcome>>
  BY DEF StreamsEvent, SkipsMarker, Others, history, feedVars, agentVars, consVars
<1>2. /\ subQ[s].items # <<>> /\ subQ' = [subQ EXCEPT ![s] = QGet(@)]
      /\ sub[s] = "stream" /\ sub' \in {sub, [sub EXCEPT ![s] = "yield"]}
  BY DEF StreamsEvent, SkipsMarker, QCanGet
<1>3. subQ'[s].items = Tail(subQ[s].items)
  <2>1. subQ[s] \in Loose(Event)
    BY <1>0 DEF TypeInv, SubsHeld, Held, QType, Loose
  <2>2. subQ'[s] = QGet(subQ[s]) /\ QCanGet(subQ[s])
    BY <1>0, <1>2 DEF QCanGet
  <2> QED BY <2>1, <2>2, LooseOps
<1>4. PICK a, f : a = subQ[s].items /\ f = (IF s \in attached THEN Feed ELSE <<>>)
  OBVIOUS
<1>5. a \in Seq(Event) /\ f \in Seq(Event) /\ a # <<>> /\ Head(a) \in Event /\ Tail(a) \in Seq(Event)
  BY <1>0, <1>2, <1>4, HeadTailProperties
<1>6. Way(s) = a \o f
  BY <1>4, Zenon DEF Way
<1>7. PICK v \in Seq(Event), w \in Seq(Event) : v = a \o f /\ w = Tail(a) \o f
  BY <1>5, ConcatProperties
<1>8. v # <<>> /\ Head(v) = Head(a) /\ Tail(v) = w
  BY <1>5, <1>7, Joins
<1>9. Way(s)' = w
  <2>1. Feed' = Feed /\ Running' = Running
    BY <1>1 DEF Feed, Coming, Hand, Live, Running
  <2>2. f = (IF s \in attached' THEN Feed' ELSE <<>>)
    BY <1>1, <1>4, <2>1
  <2>3. Tail(a) = subQ'[s].items
    BY <1>3, <1>4
  <2>4. Way(s)' = Tail(a) \o f
    BY <2>2, <2>3, Zenon DEF Way
  <2> QED BY <1>7, <2>4
<1>10. /\ got'[s] = got[s] + (IF Of(Head(v), s) THEN 1 ELSE 0)
       /\ Head(v) # End(s)
  <2>1. CASE StreamsEvent(s)
    <3>1. /\ Head(a).kind \in Kinds
          /\ got' = IF Head(a).req = s THEN [got EXCEPT ![s] = @ + 1] ELSE got
      BY <1>4, <2>1 DEF StreamsEvent
    <3>2. Of(Head(a), s) <=> Head(a).req = s
      BY <3>1 DEF Of
    <3>3. Head(a) # End(s)
      BY <3>1 DEF End, Ev, Kinds, States, Terminal, None
    <3> QED BY <1>0, <1>8, <3>1, <3>2, <3>3
  <2>2. CASE SkipsMarker(s)
    <3>1. /\ Head(a).kind = "started" \/ (Head(a).kind = "completed!" /\ Head(a).req # s)
          /\ got' = got
      BY <1>4, <2>2 DEF SkipsMarker
    <3>2. ~Of(Head(a), s) /\ Head(a) # End(s)
      BY <3>1 DEF Of, End, Ev, Kinds, States, Terminal, None
    <3> QED BY <1>0, <1>8, <3>1, <3>2
  <2> QED BY <2>1, <2>2
<1>11. /\ Count(v, s) = Count(w, s) + (IF Of(Head(v), s) THEN 1 ELSE 0)
       /\ Ends(v, s) <=> Ends(w, s)
       /\ Ordered(v, s) => Ordered(w, s)
  <2>1. /\ Count(v, s) = Count(Tail(v), s) + (IF Of(Head(v), s) THEN 1 ELSE 0)
        /\ Ends(v, s) /\ Head(v) # End(s) => Ends(Tail(v), s)
        /\ Ends(Tail(v), s) => Ends(v, s)
        /\ Ordered(v, s) => Ordered(Tail(v), s)
    BY <1>8, AfterTail
  <2> QED BY <1>8, <1>10, <2>1
<1>12. Count(w, s) \in Nat /\ got[s] \in Nat /\ made'[s] = made[s]
  BY <1>0, <1>1, PlacesFinite
<1>13. /\ Ordered(v, s) /\ (Upcoming(s) => ~Ends(v, s))
       /\ Ends(v, s) \/ Intact(s) => got[s] + Count(v, s) = made[s]
       /\ outcome[s] # "completed"
  BY <1>2, <1>6, <1>7 DEF FlowInv, Moving, Gone
<1>14. /\ Upcoming(s)' <=> Upcoming(s)
       /\ Intact(s)' <=> Intact(s)
       /\ outcome'[s] # "completed"
  <2>1. UNCHANGED <<reqQ, prod, prodReq>>
    BY DEF StreamsEvent, SkipsMarker, Others, prodVars
  <2> QED BY <1>1, <1>13, <2>1 DEF Upcoming, Queued, Current, Intact, Running, Live
<1>15. /\ Ordered(w, s) /\ (Upcoming(s)' => ~Ends(w, s))
       /\ Ends(w, s) \/ Intact(s)' => got'[s] + Count(w, s) = made'[s]
  BY <1>10, <1>11, <1>12, <1>13, <1>14
<1> QED BY <1>9, <1>14, <1>15 DEF FlowInv

\* A subscriber leaves because its request is completed.
LEMMA EndingFlows ==
    ASSUME RefInv, SerialInv, TypeInv, Flowing, Flowing', [Next]_vars, NEW s \in Senders, FlowInv(s),
           RequestDone(s)
    PROVE  FlowInv(s)'
<1>0. /\ s \in Subs /\ sub \in [Subs -> SubStates] /\ subQ = [x \in Subs |-> subQ[x]]
      /\ outcome \in [Subs -> Outcomes]
      /\ got \in [Subs -> Nat] /\ made \in [Subs -> Nat]
      /\ subQ[s].items \in Seq(Event) /\ Feed \in Seq(Event) /\ Way(s) \in Seq(Event)
  BY WayTyped, ActiveTaskAssumption DEF RefInv, TypeInv, SubsHeld, ArraysOK, Flowing
<1>1. /\ sub[s] = "stream" /\ subQ[s].items # <<>> /\ Head(subQ[s].items) = End(s)
      /\ subQ' = [subQ EXCEPT ![s] = QShutdown(QGet(subQ[s]), TRUE)]
      /\ attached' = attached \ {s} /\ sub' = [sub EXCEPT ![s] = "unref"]
      /\ UNCHANGED <<got, made, reqQ, prod, prodReq>>
  BY DEF RequestDone, Leaves, Others, QCanGet, End, history, prodVars
<1>4. PICK a, f : a = subQ[s].items /\ f = (IF s \in attached THEN Feed ELSE <<>>)
  OBVIOUS
<1>5. a \in Seq(Event) /\ f \in Seq(Event) /\ a # <<>> /\ Head(a) \in Event /\ Tail(a) \in Seq(Event)
  BY <1>0, <1>1, <1>4, HeadTailProperties
<1>6. Way(s) = a \o f
  BY <1>4, Zenon DEF Way
<1>7. PICK v \in Seq(Event) : v = a \o f
  BY <1>5, ConcatProperties
<1>8. v # <<>> /\ Head(v) = End(s)
  <2>1. v # <<>> /\ Head(v) = Head(a)
    BY <1>5, <1>7, Joins
  <2> QED BY <1>1, <1>4, <2>1
<1>9. Ends(v, s)
  <2>1. 1 \in 1..Len(v) /\ Head(v) = v[1]
    BY <1>8
  <2> QED BY <1>8, <2>1 DEF Ends
<1>10. Ordered(v, s) /\ ~Upcoming(s) /\ got[s] + Count(v, s) = made[s]
  BY <1>1, <1>6, <1>7, <1>9 DEF FlowInv, Moving
<1>11. Count(v, s) = 0
  <2>1. /\ Count(v, s) = Count(Tail(v), s) + (IF Of(Head(v), s) THEN 1 ELSE 0)
        /\ Count(Tail(v), s) = 0
    BY <1>8, <1>10, AfterTail
  <2>2. ~Of(Head(v), s)
    BY <1>8 DEF Of, End, Ev, Kinds, States, Terminal, None
  <2> QED BY <2>1, <2>2
<1>12. got'[s] = made'[s] /\ ~Upcoming(s)' /\ sub'[s] \in Gone
  BY <1>0, <1>1, <1>10, <1>11 DEF Upcoming, Queued, Current, Gone
<1>13. Way(s)' = <<>>
  <2>1. subQ'[s].items = <<>> /\ s \notin attached'
    BY <1>0, <1>1 DEF QShutdown
  <2> QED BY <2>1 DEF Way
<1>14. Ordered(<<>>, s) /\ ~Ends(<<>>, s)
  BY DEF Ordered, Ends
<1>15. sub'[s] \notin Moving
  BY <1>12 DEF Gone, Moving
<1> QED BY <1>12, <1>13, <1>14, <1>15 DEF FlowInv

\* A subscriber leaves for any other reason.
LEMMA LeavingFlows ==
    ASSUME RefInv, SerialInv, TypeInv, Flowing, Flowing', [Next]_vars, NEW s \in Senders, FlowInv(s),
           RaisesError(s) \/ StreamEnds(s) \/ Disconnect(s)
    PROVE  FlowInv(s)'
<1>0. /\ s \in Subs /\ sub \in [Subs -> SubStates] /\ subQ = [x \in Subs |-> subQ[x]]
      /\ outcome \in [Subs -> Outcomes]
  BY ActiveTaskAssumption DEF RefInv, TypeInv, SubsHeld, ArraysOK
<1>1. \E q, result : Leaves(s, q, result) /\ result \in {"error", "ended", "left"}
  BY DEF RaisesError, StreamEnds, Disconnect
<1>2. PICK q, result : Leaves(s, q, result) /\ result \in {"error", "ended", "left"}
  BY <1>1
<1>3. /\ subQ' = [subQ EXCEPT ![s] = QShutdown(q, TRUE)] /\ attached' = attached \ {s}
      /\ sub' = [sub EXCEPT ![s] = "unref"] /\ outcome' = [outcome EXCEPT ![s] = result]
      /\ UNCHANGED <<got, made, reqQ, prod, prodReq>>
  BY <1>2 DEF Leaves, Others, history, prodVars
<1>4. /\ subQ'[s].items = <<>> /\ s \notin attached' /\ sub'[s] \in Gone
      /\ outcome'[s] \in {"error", "ended", "left"} /\ got'[s] = got[s] /\ made'[s] = made[s]
  BY <1>0, <1>2, <1>3 DEF QShutdown, Gone
<1>5. Upcoming(s)' => Upcoming(s)
  BY <1>3 DEF Upcoming, Queued, Current
<1> QED BY <1>4, <1>5, FlowDetached

\* A subscriber begins, or is turned away: nothing of its request is there yet.
LEMMA BeginningFlows ==
    ASSUME RefInv, SerialInv, TypeInv, Flowing, Flowing', [Next]_vars, NEW s \in Senders, FreshInv(s),
           SubscribeNext(s)
    PROVE  FlowInv(s)'
<1>0. /\ s \in Subs /\ sub \in [Subs -> SubStates] /\ outcome \in [Subs -> Outcomes]
      /\ agentQ.items \in Seq(Event) /\ subsIn \in Seq(Event) /\ inHand \in Event
      /\ Hand \in Seq(Event) /\ Coming \in Seq(Event) /\ Feed \in Seq(Event)
  BY WayTyped, ActiveTaskAssumption DEF RefInv, TypeInv, ArraysOK, Flowing
<1>1. /\ sub[s] = "idle" /\ UNCHANGED <<subQ, got, made, subsIn, subsOpen, inHand, cons, agentQ>>
      /\ outcome' = outcome \/ outcome' \in {[outcome EXCEPT ![s] = "rejected"], [outcome EXCEPT ![s] = "refused"]}
  BY DEF SubscribeNext, SubscribeRejected, Subscribes, SubscribeRefused, history, feedVars,
         agentVars, consVars
<1>2. /\ made'[s] = 0 /\ got'[s] = 0 /\ subQ'[s].items = <<>> /\ outcome'[s] # "completed"
      /\ NoneOf(agentQ.items, s) /\ NoneOf(subsIn, s) /\ inHand.req # s
  BY <1>0, <1>1 DEF FreshInv, None
<1>3. Feed' = Feed
  BY <1>1 DEF Feed, Coming, Hand, Live
<1>4. NoneOf(Feed, s)
  <2>1. PICK h \in Seq(Event), q \in Seq(Event), i \in Seq(Event), c \in Seq(Event) :
            h = Hand /\ q = agentQ.items /\ i = subsIn /\ c = Coming
    BY <1>0
  <2>2. NoneOf(<<>>, s)
    BY DEF NoneOf
  <2>3. NoneOf(h, s)
    <3>1. h = <<>> \/ h = <<inHand>>
      BY <2>1 DEF Hand
    <3>2. NoneOf(<<inHand>>, s)
      BY <1>2 DEF NoneOf
    <3> QED BY <2>2, <3>1, <3>2
  <2>4. NoneOf(q, s) /\ NoneOf(i, s)
    BY <1>2, <2>1
  <2>5. NoneOf(h \o q, s)
    BY <2>3, <2>4, NoneKeeps
  <2>6. NoneOf(c, s)
    <3>1. c = h \o q \/ c = <<>>
      BY <2>1 DEF Coming
    <3> QED BY <2>2, <2>5, <3>1
  <2>7. NoneOf(i \o c, s)
    BY <2>4, <2>6, NoneKeeps
  <2>8. Feed = i \o c
    BY <2>1 DEF Feed
  <2> QED BY <2>7, <2>8
<1>5. PICK w \in Seq(Event) : w = Way(s)' /\ NoneOf(w, s)
  <2>1. PICK f \in Seq(Event) : f = (IF s \in attached' THEN Feed' ELSE <<>>) /\ NoneOf(f, s)
    <3>1. NoneOf(<<>>, s) /\ <<>> \in Seq(Event)
      BY DEF NoneOf
    <3> QED BY <1>0, <1>3, <1>4, <3>1
  <2>2. Way(s)' = <<>> \o f
    BY <1>2, <2>1, Zenon DEF Way
  <2>3. <<>> \o f = f
    BY ConcatEmptySeq
  <2> QED BY <2>1, <2>2, <2>3
<1>6. Ordered(w, s) /\ ~Ends(w, s) /\ Count(w, s) = 0
  BY <1>5, WhenNone
<1> QED BY <1>2, <1>5, <1>6 DEF FlowInv

\* Every step keeps the flow of s.
LEMMA NextFlow ==
    ASSUME RefInv, SerialInv, TypeInv, Flowing, Flowing', [Next]_vars, NEW s \in Senders,
           TurnInv(s), FreshInv(s), FlowInv(s)
    PROVE  FlowInv(s)'
<1>1. CASE \/ ProducerNext \/ Start \/ ExecuteRaises \/ AcloseCancels \/ AcloseReturns \/ UNCHANGED vars
           \/ \E c \in Cancelers : CancelBegins(c) \/ CancelNext(c)
  BY <1>1, ProducerFlows, ClosingFlows
<1>2. CASE AgentReturns \/ \E k \in AgentEvents : AgentEmits(k)
  BY <1>2, AgentFlows
<1>3. CASE ConsumerNext
  BY <1>3, ConsumerFlows, FlowAround
<1>4. CASE Dispatch \/ AcloseQueues
  BY <1>4, DispatchFlows, ClosingFlows
<1>5. ASSUME NEW t \in Subs, (SubscribeNext(t) \/ SubscriberNext(t) \/ Disconnect(t))
      PROVE  FlowInv(s)'
  <2>1. CASE t # s
    BY <1>5, <2>1, OthersFlow
  <2>2. CASE t = s
    BY <1>5, <2>2, IdlingFlows, ReadingFlows, EndingFlows, LeavingFlows, BeginningFlows
       DEF SubscriberNext
  <2> QED BY <2>1, <2>2
<1> QED BY <1>1, <1>2, <1>3, <1>4, <1>5 DEF Next, AgentNext

\* Only a request can be completed.
OnlyS == \A s \in Subs : outcome[s] = "completed" => s \in Senders

\* No step completes anything else.
LEMMA NextOnly == RefInv /\ TypeInv /\ OnlyS /\ [Next]_vars => OnlyS'
<1> SUFFICES ASSUME RefInv, TypeInv, OnlyS, [Next]_vars, NEW s \in Subs, outcome'[s] = "completed"
             PROVE  s \in Senders
  BY DEF OnlyS
<1>0. outcome \in [Subs -> Outcomes]
  BY DEF TypeInv, ArraysOK
<1>1. CASE \/ ProducerNext \/ Start \/ AgentNext \/ ConsumerNext \/ Dispatch
           \/ AcloseQueues \/ AcloseCancels \/ AcloseReturns \/ UNCHANGED vars
           \/ \E c \in Cancelers : CancelBegins(c) \/ CancelNext(c)
  <2>1. outcome' = outcome
    <3>1. CASE ProducerNext
      BY <3>1 DEF ProducerNext, ProducerBegins, ProducerGetsRequest, ProducerStartsRequest,
                ProducerSeesShutdown, ProducerFails, ProducerShutsSink, ProducerShutsSubs,
                ProducerClosesSinks, ProducerEnds, subVars
    <3>2. CASE \/ Start \/ AgentNext \/ Dispatch
               \/ AcloseQueues \/ AcloseCancels \/ AcloseReturns \/ UNCHANGED vars
      BY <3>2 DEF Start, StartSucceeds, StartFails, AgentNext, AgentEmits, AgentReturns,
                  ExecuteRaises, Dispatch, AcloseQueues, AcloseCancels, AcloseReturns, vars, subVars
    <3>3. CASE ConsumerNext
      BY <3>3 DEF ConsumerNext, ConsumerBegins, ConsumesMarker, ConsumesMessage, ConsumerApplies,
              ConsumerRaises, ConsumerTakes, ConsumerSettles, ConsumerPublishes,
              ConsumerSeesShutdown, ConsumerReportsError, ConsumerDies, ConsumerAwaitsProducer,
              ConsumerUnrefs, ConsumerCleansUp, subVars
    <3>4. CASE \E c \in Cancelers : CancelBegins(c) \/ CancelNext(c)
      BY <3>4 DEF CancelBegins, CancelNext, CancelEmits, AgentCancelReturns, AgentCancelRaises,
              CancelReturns, CancelsProducer, subVars
    <3> QED BY <1>1, <3>1, <3>2, <3>3, <3>4
  <2> QED BY <2>1 DEF OnlyS
<1>2. ASSUME NEW t \in Subs, (SubscribeNext(t) \/ SubscriberNext(t) \/ Disconnect(t))
      PROVE  s \in Senders
  <2>1. \/ outcome' = outcome
        \/ \E result \in Outcomes \ {"completed"} : outcome' = [outcome EXCEPT ![t] = result]
        \/ t \in Senders /\ outcome' = [outcome EXCEPT ![t] = "completed"]
    BY <1>2 DEF SubscribeNext, SubscribeRejected, Subscribes, SubscribeRefused, SubscriberNext,
         YieldInitial, StreamsEvent, ResumesStream, SkipsMarker, RequestDone, RaisesError,
         StreamEnds, Disconnect, Leaves, Unsubscribes, SubscriberCleansUp, Outcomes
  <2> QED BY <1>0, <2>1 DEF OnlyS
<1> QED BY <1>1, <1>2 DEF Next

\* What holds of the stream of each request.
StreamInv == \A s \in Senders : TurnInv(s) /\ FreshInv(s) /\ FlowInv(s)

\* What start() finds.
LEMMA InitStreams == Init => StreamInv /\ OnlyS
<1>a. Init => OnlyS
  BY DEF Init, OnlyS, None
<1> SUFFICES ASSUME Init, NEW s \in Senders PROVE TurnInv(s) /\ FreshInv(s) /\ FlowInv(s)
  BY <1>a DEF StreamInv
<1>0. s \in Subs /\ s # None /\ Senders \subseteq Subs
  BY ActiveTaskAssumption
<1>1. /\ reqQ.items = <<>> /\ agentQ.items = <<>> /\ subsIn = <<>> /\ attached = {}
      /\ subQ[s].items = <<>> /\ prod = "off" /\ prodReq = None /\ inHand.req = None
      /\ sub[s] = "idle" /\ outcome = [t \in Subs |-> None] /\ made[s] = 0 /\ got[s] = 0
  BY <1>0 DEF Init, QNew, Ev
<1>2. TurnInv(s)
  BY <1>1 DEF TurnInv, Current, Queued
<1>3. FreshInv(s)
  BY <1>0, <1>1 DEF FreshInv, NoneOf, Queued
<1>4. FlowInv(s)
  <2>1. Way(s) = <<>> /\ ~Intact(s)
    BY <1>1 DEF Way, Intact
  <2>2. Ordered(<<>>, s) /\ ~Ends(<<>>, s)
    BY DEF Ordered, Ends
  <2> QED BY <1>0, <1>1, <2>1, <2>2 DEF FlowInv, None
<1> QED BY <1>2, <1>3, <1>4

\* A stream that ends because its request is completed carried every event the agent
\* enqueued for the request, none twice (active_task.py:636-641, 678-690).
THEOREM StreamsAreComplete == Spec => []CompleteStreams
<1> DEFINE Inv == RefInv /\ SerialInv /\ TypeInv /\ StreamInv /\ OnlyS
<1>1. Inv => CompleteStreams
  BY DEF StreamInv, OnlyS, FlowInv, CompleteStreams
<1>2. Inv /\ [Next]_vars => Inv'
  <2> SUFFICES ASSUME Inv, [Next]_vars PROVE Inv'
    OBVIOUS
  <2>1. RefInv' /\ SerialInv' /\ TypeInv'
    BY NextRefs, NextSerial, NextTypes
  <2>2. Flowing
    BY FlowTyped
  <2>3. Flowing'
    <3>1. (SerialInv /\ TypeInv => Flowing)'
      BY FlowTyped, PTL
    <3> QED BY <2>1, <3>1
  <2>4. StreamInv'
    <3>1. ASSUME NEW s \in Senders PROVE TurnInv(s)' /\ FreshInv(s)' /\ FlowInv(s)'
      <4>1. TurnInv(s) /\ FreshInv(s) /\ FlowInv(s)
        BY DEF StreamInv
      <4> QED BY <2>2, <2>3, <4>1, NextTurn, NextFresh, NextFlow
    <3> QED BY <3>1 DEF StreamInv
  <2>5. OnlyS'
    BY NextOnly
  <2> QED BY <2>1, <2>4, <2>5
<1>3. Init => Inv
  BY InitRefs, InitSerial, InitTypes, InitStreams
<1> QED BY <1>1, <1>2, <1>3, PTL DEF Spec
=============================================================================
