--------------------------- MODULE EventQueueProofs ---------------------------
(***************************************************************************)
(* Proofs about EventQueueSource, for any number of sinks, closers and     *)
(* events and any capacity: the counters of the queues, the order of       *)
(* delivery, evictions, what close() guarantees (no sink survives it, and  *)
(* a graceful one loses nothing), and that it implements Broadcast.        *)
(***************************************************************************)
EXTENDS EventQueueRefinement, TLAPS

-----------------------------------------------------------------------------
(* The queue                                                               *)

\* A new queue is a queue.
LEMMA QNewType ==
    ASSUME NEW E
    PROVE  QNew \in QType(E) /\ Len(QNew.items) = 0 /\ QNew.unfinished = 0
BY DEF QNew, QType

\* put() adds one item that has to be confirmed, at the end.
LEMMA QPutType ==
    ASSUME NEW E, NEW q \in QType(E), NEW e \in E
    PROVE  /\ QPut(q, e) \in QType(E)
           /\ QPut(q, e).items = Append(q.items, e)
           /\ Len(QPut(q, e).items) = Len(q.items) + 1
           /\ QPut(q, e).unfinished = q.unfinished + 1
           /\ QPut(q, e).down = q.down
<1>1. q.items \in Seq(E)
  BY DEF QType
<1>2. Append(q.items, e) \in Seq(E) /\ Len(Append(q.items, e)) = Len(q.items) + 1
  BY <1>1
<1> QED BY <1>1, <1>2 DEF QPut, QType

\* get() takes one item out, which stays unconfirmed.
LEMMA QGetType ==
    ASSUME NEW E, NEW q \in QType(E), QCanGet(q)
    PROVE  /\ QGet(q) \in QType(E)
           /\ QGet(q).items = Tail(q.items)
           /\ Len(q.items) \in Nat \ {0}
           /\ Len(QGet(q).items) = Len(q.items) - 1
           /\ QGet(q).unfinished = q.unfinished
           /\ QGet(q).down = q.down
           /\ Head(q.items) \in E
BY DEF QGet, QCanGet, QType

\* task_done() never makes the count negative when something is unconfirmed.
LEMMA QDoneType ==
    ASSUME NEW E, NEW q \in QType(E), q.unfinished > 0
    PROVE  /\ QDone(q) \in QType(E)
           /\ QDone(q).items = q.items
           /\ QDone(q).unfinished = q.unfinished - 1
           /\ QDone(q).down = q.down
BY DEF QDone, QType

\* shutdown() keeps the number of items taken out and not confirmed, whatever the queue.
LEMMA QShutdownCounts ==
    \A q \in QType(Nat), immediate \in BOOLEAN :
        q.unfinished >= Len(q.items) =>
            \E r \in QType(Nat) :
                /\ r = QShutdown(q, immediate)
                /\ r.unfinished - Len(r.items) = q.unfinished - Len(q.items)
<1> SUFFICES ASSUME NEW q \in QType(Nat), NEW immediate \in BOOLEAN,
                    q.unfinished >= Len(q.items)
             PROVE  /\ QShutdown(q, immediate) \in QType(Nat)
                    /\ QShutdown(q, immediate).unfinished - Len(QShutdown(q, immediate).items)
                         = q.unfinished - Len(q.items)
  BY Zenon
<1>1. CASE immediate
  <2>1. /\ Len(q.items) \in Nat /\ q.unfinished \in Nat
        /\ <<>> \in Seq(Nat) /\ Len(<<>>) = 0
    BY DEF QType
  <2>2. q.unfinished - Len(q.items) \in Nat
    BY <2>1
  <2> QED BY <1>1, <2>1, <2>2 DEF QShutdown, QType
<1>2. CASE ~immediate
  BY <1>2 DEF QShutdown, QType
<1> QED BY <1>1, <1>2

-----------------------------------------------------------------------------
(* Types, counters, order and evictions                                    *)

\* The counters never go below zero only because join() counts exactly what is
\* queued or in hand, so the two are one inductive invariant.
CountInv == TypeOK /\ JoinCountsExact

\* What TypeOK and JoinCountsExact say of the queue of one sink.
LEMMA SinkQueueFacts ==
    ASSUME CountInv, NEW s \in Sinks
    PROVE  /\ sinkQ[s] \in QType(Nat)
           /\ held[s] \in Nat
           /\ sinkQ[s].unfinished = Len(sinkQ[s].items) + held[s]
           /\ Len(sinkQ[s].items) \in Nat
           /\ sinkQ[s].unfinished >= Len(sinkQ[s].items)
<1>1. sinkQ[s] \in QType(Nat) /\ held[s] \in Nat
  BY DEF CountInv, TypeOK
<1>2. sinkQ[s].unfinished = Len(sinkQ[s].items) + held[s]
  BY DEF CountInv, JoinCountsExact
<1>3. Len(sinkQ[s].items) \in Nat
  BY <1>1 DEF QType
<1> QED BY <1>1, <1>2, <1>3

\* Closing one sink keeps the queue of every sink a queue, and the number of its
\* items in hand.
LEMMA ShutSinkFacts ==
    ASSUME CountInv, NEW s \in Sinks, NEW immediate \in BOOLEAN,
           ShutSink(s, immediate)
    PROVE  /\ sinkQ' \in [Sinks -> QType(Nat)]
           /\ sinkState' \in [Sinks -> {"unborn", "open", "closed"}]
           /\ sinks' \in SUBSET Sinks
           /\ \A t \in Sinks : sinkQ'[t].unfinished = Len(sinkQ'[t].items) + held[t]
<1>1. /\ sinkQ \in [Sinks -> QType(Nat)]
      /\ sinkState \in [Sinks -> {"unborn", "open", "closed"}]
      /\ sinks \in SUBSET Sinks
      /\ \A t \in Sinks : sinkQ[t].unfinished = Len(sinkQ[t].items) + held[t]
  BY DEF CountInv, TypeOK, JoinCountsExact
<1>2. sinkQ[s] \in QType(Nat) /\ sinkQ[s].unfinished >= Len(sinkQ[s].items)
  BY SinkQueueFacts
<1>9. PICK q \in QType(Nat) :
          /\ q = QShutdown(sinkQ[s], immediate)
          /\ q.unfinished - Len(q.items) = sinkQ[s].unfinished - Len(sinkQ[s].items)
  BY <1>2, QShutdownCounts, Zenon
<1>3. sinkQ' = [sinkQ EXCEPT ![s] = q]
  BY <1>9 DEF ShutSink
<1>4. q.unfinished \in Nat /\ Len(q.items) \in Nat
  BY DEF QType
<1>5. q.unfinished = Len(q.items) + held[s]
  BY <1>9, <1>4, SinkQueueFacts
<1>6. sinkQ' \in [Sinks -> QType(Nat)]
  BY <1>1, <1>3
<1>7. \A t \in Sinks : sinkQ'[t].unfinished = Len(sinkQ'[t].items) + held[t]
  BY <1>1, <1>3, <1>5
<1> QED BY <1>1, <1>6, <1>7 DEF ShutSink

\* Everything there is initially is well formed.
LEMMA InitCountInv == Init => CountInv
<1> SUFFICES ASSUME Init PROVE CountInv
  OBVIOUS
<1>1. QNew \in QType(Nat) /\ Len(QNew.items) = 0 /\ QNew.unfinished = 0
  BY QNewType
<1>2. TypeOK
  <2>1. /\ incoming \in QType(Nat)
        /\ sinkQ \in [Sinks -> QType(Nat)]
    BY <1>1 DEF Init
  <2>2. /\ sinkState \in [Sinks -> {"unborn", "open", "closed"}]
        /\ held \in [Sinks -> Nat]
        /\ delivered \in [Sinks -> Seq(Nat)]
    BY DEF Init
  <2>3. closing \in [Closers -> [phase : Phases, immediate : BOOLEAN,
                                 todo : SUBSET Sinks, joining : SUBSET Sinks]]
    BY DEF Init, NoClose, Phases
  <2> QED BY <2>1, <2>2, <2>3, SourceAssumption DEF Init, TypeOK
<1>3. JoinCountsExact
  BY <1>1 DEF Init, JoinCountsExact
<1> QED BY <1>2, <1>3 DEF CountInv

\* A step on the queue of one sink preserves the counts of all when it preserves
\* those of that sink.
LEMMA OneSinkFacts ==
    ASSUME CountInv, NEW s \in Sinks, NEW q \in QType(Nat), NEW h \in Nat,
           q.unfinished = Len(q.items) + h,
           sinkQ' = [sinkQ EXCEPT ![s] = q],
           held' = [held EXCEPT ![s] = h]
    PROVE  /\ sinkQ' \in [Sinks -> QType(Nat)]
           /\ held' \in [Sinks -> Nat]
           /\ \A t \in Sinks : sinkQ'[t].unfinished = Len(sinkQ'[t].items) + held'[t]
<1>1. /\ sinkQ \in [Sinks -> QType(Nat)]
      /\ held \in [Sinks -> Nat]
      /\ \A t \in Sinks : sinkQ[t].unfinished = Len(sinkQ[t].items) + held[t]
  BY DEF CountInv, TypeOK, JoinCountsExact
<1> QED BY <1>1

\* The incoming queue is a queue with at least its backlog unconfirmed.
LEMMA IncomingFacts ==
    ASSUME CountInv
    PROVE  /\ incoming \in QType(Nat)
           /\ Len(incoming.items) \in Nat
           /\ incoming.unfinished \in Nat
           /\ incoming.unfinished >= Len(incoming.items)
<1>1. incoming \in QType(Nat) /\ incoming.unfinished >= Len(incoming.items)
  BY DEF CountInv, TypeOK, JoinCountsExact
<1> QED BY <1>1 DEF QType

\* No step of producers, readers, dispatcher or closers breaks the counts.
LEMMA NextCountInv == CountInv /\ [Next]_vars => CountInv'
<1> SUFFICES ASSUME CountInv, [Next]_vars PROVE CountInv'
  OBVIOUS
<1> USE DEF CountInv
<1>1. CASE EnqueueEvent
  <2>1. sent + 1 \in Nat /\ incoming \in QType(Nat)
    BY DEF TypeOK
  <2> DEFINE q == QPut(incoming, sent + 1)
  <2>2. /\ q \in QType(Nat) /\ Len(q.items) = Len(incoming.items) + 1
        /\ q.unfinished = incoming.unfinished + 1
    BY <2>1, QPutType
  <2>3. incoming' = q /\ sent' = sent + 1
    BY <1>1 DEF EnqueueEvent
  <2> HIDE DEF q
  <2> QED BY <1>1, <2>1, <2>2, <2>3, IncomingFacts, SMTT(30)
          DEF EnqueueEvent, dispVars, sinkVars, TypeOK, JoinCountsExact
<1>2. ASSUME NEW s \in Sinks, Tap(s) PROVE CountInv'
  BY <1>2 DEF Tap, dispVars, TypeOK, JoinCountsExact
<1>3. ASSUME NEW s \in Sinks, DequeueEvent(s) PROVE CountInv'
  <2>1. /\ sinkQ[s] \in QType(Nat) /\ QCanGet(sinkQ[s])
        /\ sinkQ' = [sinkQ EXCEPT ![s] = QGet(sinkQ[s])]
        /\ held' = [held EXCEPT ![s] = held[s] + 1]
    BY <1>3, SinkQueueFacts DEF DequeueEvent
  <2>2. /\ QGet(sinkQ[s]) \in QType(Nat)
        /\ Len(QGet(sinkQ[s]).items) = Len(sinkQ[s].items) - 1
        /\ QGet(sinkQ[s]).unfinished = sinkQ[s].unfinished
    BY <2>1, QGetType
  <2>3. held[s] + 1 \in Nat /\ QGet(sinkQ[s]).unfinished = Len(QGet(sinkQ[s]).items) + (held[s] + 1)
    BY <2>2, SinkQueueFacts, SMTT(30)
  <2>4. /\ sinkQ' \in [Sinks -> QType(Nat)] /\ held' \in [Sinks -> Nat]
        /\ \A t \in Sinks : sinkQ'[t].unfinished = Len(sinkQ'[t].items) + held'[t]
    BY <2>1, <2>2, <2>3, OneSinkFacts
  <2> QED BY <1>3, <2>4 DEF DequeueEvent, dispVars, TypeOK, JoinCountsExact
<1>4. ASSUME NEW s \in Sinks, TaskDone(s) PROVE CountInv'
  <2>1. /\ sinkQ[s] \in QType(Nat) /\ held[s] > 0 /\ sinkQ[s].unfinished > 0
        /\ sinkQ' = [sinkQ EXCEPT ![s] = QDone(sinkQ[s])]
        /\ held' = [held EXCEPT ![s] = held[s] - 1]
    BY <1>4, SinkQueueFacts DEF TaskDone
  <2>2. /\ QDone(sinkQ[s]) \in QType(Nat)
        /\ QDone(sinkQ[s]).items = sinkQ[s].items
        /\ QDone(sinkQ[s]).unfinished = sinkQ[s].unfinished - 1
    BY <2>1, QDoneType
  <2>3. held[s] - 1 \in Nat /\ QDone(sinkQ[s]).unfinished = Len(QDone(sinkQ[s]).items) + (held[s] - 1)
    BY <2>1, <2>2, SinkQueueFacts
  <2>4. /\ sinkQ' \in [Sinks -> QType(Nat)] /\ held' \in [Sinks -> Nat]
        /\ \A t \in Sinks : sinkQ'[t].unfinished = Len(sinkQ'[t].items) + held'[t]
    BY <2>1, <2>2, <2>3, OneSinkFacts
  <2> QED BY <1>4, <2>4 DEF TaskDone, dispVars, TypeOK, JoinCountsExact
<1>5. ASSUME NEW s \in Sinks, NEW immediate \in BOOLEAN, ReaderCloses(s, immediate)
      PROVE CountInv'
  BY <1>5, ShutSinkFacts DEF ReaderCloses, dispVars, TypeOK, JoinCountsExact
<1>6. CASE DispatchGet
  <2>1. /\ QGet(incoming) \in QType(Nat)
        /\ Len(QGet(incoming).items) = Len(incoming.items) - 1
        /\ QGet(incoming).unfinished = incoming.unfinished
        /\ Head(incoming.items) \in Nat
    BY <1>6, IncomingFacts, QGetType DEF DispatchGet
  <2>2. incoming' = QGet(incoming)
    BY <1>6 DEF DispatchGet
  <2> QED BY <1>6, <2>1, <2>2, IncomingFacts
          DEF DispatchGet, sinkVars, TypeOK, JoinCountsExact
<1>7. ASSUME NEW s \in Sinks, Deliver(s) PROVE CountInv'
  <2>1. ASSUME /\ sinkQ' \in [Sinks -> QType(Nat)]
               /\ sinkState' \in [Sinks -> {"unborn", "open", "closed"}]
               /\ sinks' \in SUBSET Sinks
               /\ delivered' \in [Sinks -> Seq(Nat)]
               /\ quit' \in SUBSET Sinks
               /\ held' = held
               /\ \A t \in Sinks : sinkQ'[t].unfinished = Len(sinkQ'[t].items) + held[t]
        PROVE  CountInv'
    BY <1>7, <2>1 DEF Deliver, TypeOK, JoinCountsExact
  <2>2. CASE DeliverSkip(s)
    BY <2>1, <2>2 DEF DeliverSkip, sinkVars, TypeOK, JoinCountsExact
  <2>3. CASE DeliverEvict(s)
    BY <2>1, <2>3, ShutSinkFacts DEF DeliverEvict, TypeOK
  <2>4. CASE DeliverPut(s)
    <3>1. /\ sinkQ[s] \in QType(Nat) /\ dispEvent \in Nat /\ held[s] \in Nat
          /\ sinkQ' = [sinkQ EXCEPT ![s] = QPut(sinkQ[s], dispEvent)]
          /\ held' = held /\ held' = [held EXCEPT ![s] = held[s]]
      BY <2>4, SinkQueueFacts DEF DeliverPut, TypeOK
    <3>2. /\ QPut(sinkQ[s], dispEvent) \in QType(Nat)
          /\ Len(QPut(sinkQ[s], dispEvent).items) = Len(sinkQ[s].items) + 1
          /\ QPut(sinkQ[s], dispEvent).unfinished = sinkQ[s].unfinished + 1
      BY <3>1, QPutType
    <3>3. QPut(sinkQ[s], dispEvent).unfinished
            = Len(QPut(sinkQ[s], dispEvent).items) + held[s]
      BY <3>2, SinkQueueFacts
    <3>4. /\ sinkQ' \in [Sinks -> QType(Nat)]
          /\ \A t \in Sinks : sinkQ'[t].unfinished = Len(sinkQ'[t].items) + held[t]
      BY <3>1, <3>2, <3>3, OneSinkFacts
    <3>5. delivered' \in [Sinks -> Seq(Nat)]
      BY <2>4, <3>1 DEF DeliverPut, TypeOK
    <3> QED BY <2>1, <2>4, <3>1, <3>4, <3>5 DEF DeliverPut, TypeOK
  <2> QED BY <1>7, <2>2, <2>3, <2>4 DEF Deliver
<1>8. CASE DispatchDone
  <2>1. incoming.unfinished > 0 /\ incoming.unfinished = Len(incoming.items) + 1
    BY <1>8, IncomingFacts DEF DispatchDone, JoinCountsExact
  <2>2. /\ QDone(incoming) \in QType(Nat)
        /\ QDone(incoming).items = incoming.items
        /\ QDone(incoming).unfinished = incoming.unfinished - 1
    BY <2>1, IncomingFacts, QDoneType
  <2>3. incoming' = QDone(incoming)
    BY <1>8 DEF DispatchDone
  <2> QED BY <1>8, <2>1, <2>2, <2>3, IncomingFacts
          DEF DispatchDone, sinkVars, TypeOK, JoinCountsExact
<1>9. CASE DispatchStop
  BY <1>9 DEF DispatchStop, sinkVars, TypeOK, JoinCountsExact
<1>19. ASSUME NEW immediate \in BOOLEAN, incoming' = QShutdown(incoming, immediate)
       PROVE  /\ incoming' \in QType(Nat)
              /\ incoming'.unfinished >= Len(incoming'.items)
              /\ ~immediate => /\ incoming'.items = incoming.items
                               /\ incoming'.unfinished = incoming.unfinished
  <2>1. /\ incoming \in QType(Nat) /\ incoming.unfinished >= Len(incoming.items)
    BY IncomingFacts
  <2>2. /\ incoming' \in QType(Nat)
        /\ incoming'.unfinished - Len(incoming'.items)
             = incoming.unfinished - Len(incoming.items)
    BY <1>19, <2>1, QShutdownCounts, Zenon
  <2>3. Len(incoming'.items) \in Nat /\ incoming'.unfinished \in Nat
    BY <2>2 DEF QType
  <2>4. ~immediate => incoming' = [incoming EXCEPT !.down = TRUE]
    BY <1>19, Zenon DEF QShutdown
  <2>5. ~immediate => incoming'.items = incoming.items /\ incoming'.unfinished = incoming.unfinished
    BY <2>1, <2>4 DEF QType
  <2> QED BY <2>2, <2>3, <2>5, IncomingFacts
<1>10. CASE DispatcherCancelled
  <2>1. incoming' \in QType(Nat) /\ incoming'.unfinished >= Len(incoming'.items)
    BY <1>10, <1>19 DEF DispatcherCancelled
  <2> QED BY <1>10, <2>1 DEF DispatcherCancelled, sinkVars, TypeOK, JoinCountsExact
<1>11. ASSUME NEW s \in Sinks, CancelledClosesSink(s) PROVE CountInv'
  BY <1>11, ShutSinkFacts DEF CancelledClosesSink, TypeOK, JoinCountsExact
<1>12. CASE CancelledDone
  BY <1>12 DEF CancelledDone, sinkVars, TypeOK, JoinCountsExact
<1>20. ASSUME NEW c \in Closers, NEW x, closing' = [closing EXCEPT ![c] = x],
              x \in [phase : Phases, immediate : BOOLEAN,
                     todo : SUBSET Sinks, joining : SUBSET Sinks]
       PROVE  closing' \in [Closers -> [phase : Phases, immediate : BOOLEAN,
                                        todo : SUBSET Sinks, joining : SUBSET Sinks]]
  BY <1>20 DEF TypeOK
<1>13. ASSUME NEW c \in Closers, NEW immediate \in BOOLEAN, Close(c, immediate)
       PROVE CountInv'
  <2>1. /\ incoming' \in QType(Nat)
        /\ incoming'.unfinished >= Len(incoming'.items)
        /\ ~immediate => /\ incoming'.items = incoming.items
                         /\ incoming'.unfinished = incoming.unfinished
    BY <1>13, <1>19 DEF Close
  <2>2. closing' \in [Closers -> [phase : Phases, immediate : BOOLEAN,
                                  todo : SUBSET Sinks, joining : SUBSET Sinks]]
    BY <1>13, <1>20 DEF Close, Phases, TypeOK
  <2>3. CASE immediate
    BY <1>13, <2>1, <2>2, <2>3
    DEF Close, CancelDispatcher, sinkVars, TypeOK, JoinCountsExact
  <2>4. CASE ~immediate
    BY <1>13, <2>1, <2>2, <2>4
    DEF Close, dispVars, sinkVars, TypeOK, JoinCountsExact
  <2> QED BY <2>3, <2>4
<1>14. ASSUME NEW c \in Closers, JoinIncoming(c) PROVE CountInv'
  <2>1. closing' \in [Closers -> [phase : Phases, immediate : BOOLEAN,
                                  todo : SUBSET Sinks, joining : SUBSET Sinks]]
    BY <1>14 DEF JoinIncoming, Phases, TypeOK
  <2> QED BY <1>14, <2>1
          DEF JoinIncoming, CancelDispatcher, sinkVars, TypeOK, JoinCountsExact
<1>15. ASSUME NEW c \in Closers, NEW s \in Sinks, CloseSink(c, s) PROVE CountInv'
  <2>1. closing[c] \in [phase : Phases, immediate : BOOLEAN,
                        todo : SUBSET Sinks, joining : SUBSET Sinks]
    BY DEF TypeOK
  <2>2. closing' \in [Closers -> [phase : Phases, immediate : BOOLEAN,
                                  todo : SUBSET Sinks, joining : SUBSET Sinks]]
    BY <1>15, <1>20, <2>1 DEF CloseSink, Phases
  <2>3. closing[c].immediate \in BOOLEAN /\ ShutSink(s, closing[c].immediate)
    BY <1>15, <2>1 DEF CloseSink
  <2>4. /\ sinkQ' \in [Sinks -> QType(Nat)]
        /\ sinkState' \in [Sinks -> {"unborn", "open", "closed"}]
        /\ sinks' \in SUBSET Sinks
        /\ \A t \in Sinks : sinkQ'[t].unfinished = Len(sinkQ'[t].items) + held[t]
    BY <2>3, ShutSinkFacts
  <2>5. quit' \in SUBSET Sinks
    BY <1>15 DEF CloseSink, TypeOK
  <2> QED BY <1>15, <2>2, <2>4, <2>5
          DEF CloseSink, dispVars, TypeOK, JoinCountsExact
<1>16. ASSUME NEW c \in Closers, NEW s \in Sinks, SinkJoined(c, s) PROVE CountInv'
  <2>1. closing' \in [Closers -> [phase : Phases, immediate : BOOLEAN,
                                  todo : SUBSET Sinks, joining : SUBSET Sinks]]
    BY <1>16 DEF SinkJoined, TypeOK
  <2> QED BY <1>16, <2>1
          DEF SinkJoined, dispVars, sinkVars, TypeOK, JoinCountsExact
<1>17. ASSUME NEW c \in Closers, CloseReturns(c) PROVE CountInv'
  <2>1. closing' \in [Closers -> [phase : Phases, immediate : BOOLEAN,
                                  todo : SUBSET Sinks, joining : SUBSET Sinks]]
    BY <1>17 DEF CloseReturns, Phases, TypeOK
  <2> QED BY <1>17, <2>1
          DEF CloseReturns, dispVars, sinkVars, TypeOK, JoinCountsExact
<1>18. CASE UNCHANGED vars
  BY <1>18 DEF vars, TypeOK, JoinCountsExact
<1> QED
  BY <1>1, <1>2, <1>3, <1>4, <1>5, <1>6, <1>7, <1>8, <1>9, <1>10, <1>11, <1>12,
     <1>13, <1>14, <1>15, <1>16, <1>17, <1>18
  DEF Next, DispatcherNext, CloserNext

\* The state of every queue, sink and close() keeps its type.
THEOREM TypeCorrect == Spec => []TypeOK
<1>1. CountInv => TypeOK
  BY DEF CountInv
<1> QED BY <1>1, InitCountInv, NextCountInv, PTL DEF Spec

\* join() counts exactly what is queued or in hand, in every reachable state: a
\* graceful close can neither return early nor wait for an event nobody holds.
THEOREM JoinIsExact == Spec => []JoinCountsExact
<1>1. CountInv => JoinCountsExact
  BY DEF CountInv
<1> QED BY <1>1, InitCountInv, NextCountInv, PTL DEF Spec

\* The order of deliveries with what keeps it.
OrderInv == CountInv /\ DispatchPosition /\ DeliveredInOrder

\* Closing one sink leaves exactly the other open ones attached.
LEMMA ShutSinkAttached ==
    ASSUME OrderInv, NEW s \in Sinks, NEW immediate \in BOOLEAN,
           ShutSink(s, immediate)
    PROVE  /\ sinks' = {t \in Sinks : sinkState'[t] = "open"}
           /\ \A t \in Sinks : /\ sinkState'[t] = "open" => sinkState[t] = "open"
                               /\ sinkState'[t] = "unborn" => sinkState[t] = "unborn"
<1>1. /\ sinkState \in [Sinks -> {"unborn", "open", "closed"}]
      /\ sinks = {t \in Sinks : sinkState[t] = "open"}
  BY DEF OrderInv, CountInv, TypeOK, DispatchPosition, AttachedAreOpen
<1>2. sinkState' = [sinkState EXCEPT ![s] = "closed"] /\ sinks' = sinks \ {s}
  BY DEF ShutSink
<1> QED BY <1>1, <1>2

\* A step that delivers nothing and opens nothing keeps the order, when it leaves
\* the dispatcher and the backlog alone or stops the dispatcher for good.
LEMMA CalmStep ==
    ASSUME OrderInv,
           incoming'.items \in {<<>>, incoming.items},
           UNCHANGED <<sent, delivered>>,
           sinks' = {t \in Sinks : sinkState'[t] = "open"},
           \A t \in Sinks : /\ sinkState'[t] = "open" => sinkState[t] = "open"
                            /\ sinkState'[t] = "unborn" => sinkState[t] = "unborn",
           \/ dispState' \notin {"get", "deliver"}
           \/ UNCHANGED dispVars /\ incoming'.items = incoming.items
    PROVE  DispatchPosition' /\ DeliveredInOrder'
<1>1. DeliveredInOrder'
  BY DEF OrderInv, DeliveredInOrder
<1>2. /\ sent \in Nat /\ incoming.items \in Seq(Nat)
      /\ AttachedAreOpen /\ BacklogIsLatest /\ OpenSinksHaveOffered
  BY DEF OrderInv, CountInv, TypeOK, QType, DispatchPosition
<1>3. AttachedAreOpen'
  BY <1>2 DEF AttachedAreOpen
<1>4. BacklogIsLatest'
  <2>1. CASE incoming'.items = <<>>
    BY <1>2, <2>1 DEF BacklogIsLatest
  <2>2. CASE incoming'.items = incoming.items
    BY <1>2, <2>2 DEF BacklogIsLatest
  <2> QED BY <2>1, <2>2
<1>5. OpenSinksHaveOffered'
  <2>1. CASE dispState' \notin {"get", "deliver"}
    BY <2>1 DEF OpenSinksHaveOffered
  <2>2. CASE UNCHANGED dispVars /\ incoming'.items = incoming.items
    <3>1. \A t \in Sinks : Offered(t)' = Offered(t)
      BY <2>2 DEF dispVars, Offered
    <3> QED BY <1>2, <2>2, <3>1 DEF dispVars, OpenSinksHaveOffered
  <2> QED BY <2>1, <2>2
<1> QED BY <1>1, <1>3, <1>4, <1>5 DEF DispatchPosition

\* The order holds before anything was sent.
LEMMA InitOrderInv == Init => OrderInv
<1> SUFFICES ASSUME Init PROVE OrderInv
  OBVIOUS
<1>1. CountInv
  BY InitCountInv
<1>2. Len(QNew.items) = 0
  BY DEF QNew
<1>3. DeliveredInOrder
  BY DEF Init, DeliveredInOrder
<1>4. AttachedAreOpen
  BY SourceAssumption DEF Init, AttachedAreOpen
<1>5. BacklogIsLatest /\ OpenSinksHaveOffered
  BY <1>2 DEF Init, BacklogIsLatest, OpenSinksHaveOffered
<1> QED BY <1>1, <1>3, <1>4, <1>5 DEF OrderInv, DispatchPosition

\* Only four steps touch the order: an enqueue, a tap, a step of the dispatcher
\* that takes or finishes an event, and a delivery.
LEMMA NextOrderInv == OrderInv /\ [Next]_vars => OrderInv'
<1> SUFFICES ASSUME OrderInv, [Next]_vars PROVE DispatchPosition' /\ DeliveredInOrder'
  BY NextCountInv DEF OrderInv
<1>0. /\ incoming \in QType(Nat) /\ Len(incoming.items) \in Nat
      /\ incoming.items \in Seq(Nat)
      /\ sent \in Nat /\ dispEvent \in Nat
      /\ sinkState \in [Sinks -> {"unborn", "open", "closed"}]
      /\ delivered \in [Sinks -> Seq(Nat)]
      /\ CountInv
  BY IncomingFacts DEF OrderInv, CountInv, TypeOK, QType
<1>a. sinks = {t \in Sinks : sinkState[t] = "open"}
  BY DEF OrderInv, DispatchPosition, AttachedAreOpen
<1>b. AttachedAreOpen /\ BacklogIsLatest /\ OpenSinksHaveOffered /\ DeliveredInOrder
  BY DEF OrderInv, DispatchPosition
<1>1. CASE EnqueueEvent
  <2>1. /\ sent' = sent + 1
        /\ incoming'.items = Append(incoming.items, sent + 1)
        /\ UNCHANGED <<dispVars, sinks, sinkState, delivered>>
    BY <1>1 DEF EnqueueEvent, QPut, sinkVars
  <2>2. /\ Len(incoming'.items) = Len(incoming.items) + 1
        /\ \A i \in 1 .. Len(incoming.items) : incoming'.items[i] = incoming.items[i]
        /\ incoming'.items[Len(incoming.items) + 1] = sent + 1
    BY <1>0, <2>1
  <2>6. sent' - Len(incoming'.items) = sent - Len(incoming.items)
    <3>1. ASSUME NEW n \in Nat PROVE (sent + 1) - (n + 1) = sent - n
      BY <1>0
    <3> QED BY <1>0, <2>1, <2>2, <3>1
  <2>7. /\ Len(incoming.items) <= sent
        /\ \A i \in 1 .. Len(incoming.items) :
                incoming.items[i] = sent - Len(incoming.items) + i
    BY <1>b DEF BacklogIsLatest
  <2>8. Len(incoming'.items) <= sent'
    BY <1>0, <2>1, <2>2, <2>7
  <2>9. ASSUME NEW i \in 1 .. Len(incoming'.items)
        PROVE  incoming'.items[i] = sent' - Len(incoming'.items) + i
    <3>1. CASE i \in 1 .. Len(incoming.items)
      BY <2>2, <2>6, <2>7, <3>1
    <3>2. CASE i = Len(incoming.items) + 1
      BY <1>0, <2>2, <2>6, <3>2
    <3> QED BY <1>0, <2>2, <3>1, <3>2
  <2>3. BacklogIsLatest'
    BY <2>8, <2>9 DEF BacklogIsLatest
  <2>4. \A t \in Sinks : Offered(t)' = Offered(t)
    BY <2>1, <2>6 DEF dispVars, Offered
  <2>5. OpenSinksHaveOffered'
    BY <1>0, <1>b, <2>1, <2>2, <2>4 DEF dispVars, OpenSinksHaveOffered
  <2> QED BY <1>b, <2>1, <2>3, <2>5
          DEF DispatchPosition, AttachedAreOpen, DeliveredInOrder
<1>2. ASSUME NEW s \in Sinks, Tap(s) PROVE DispatchPosition' /\ DeliveredInOrder'
  <2>1. /\ sinkState[s] = "unborn" /\ sinkState' = [sinkState EXCEPT ![s] = "open"]
        /\ sinks' = sinks \cup {s}
        /\ UNCHANGED <<incoming, dispVars, sent, delivered>>
    BY <1>2 DEF Tap
  <2>2. delivered[s] = <<>>
    BY <1>b, <2>1 DEF AttachedAreOpen
  <2>3. AttachedAreOpen'
    BY <1>0, <1>b, <2>1, <2>2 DEF AttachedAreOpen
  <2>4. \A t \in Sinks : Offered(t)' = Offered(t)
    BY <2>1 DEF dispVars, Offered
  <2>5. OpenSinksHaveOffered'
    BY <1>0, <1>b, <2>1, <2>2, <2>4 DEF dispVars, OpenSinksHaveOffered
  <2> QED BY <1>b, <2>1, <2>3, <2>5
          DEF DispatchPosition, BacklogIsLatest, DeliveredInOrder
<1>3. ASSUME NEW s \in Sinks, DequeueEvent(s) PROVE DispatchPosition' /\ DeliveredInOrder'
  BY <1>3, <1>a, CalmStep DEF DequeueEvent
<1>4. ASSUME NEW s \in Sinks, TaskDone(s) PROVE DispatchPosition' /\ DeliveredInOrder'
  BY <1>4, <1>a, CalmStep DEF TaskDone
<1>5. ASSUME NEW s \in Sinks, NEW immediate \in BOOLEAN, ReaderCloses(s, immediate)
      PROVE DispatchPosition' /\ DeliveredInOrder'
  BY <1>5, ShutSinkAttached, CalmStep DEF ReaderCloses
<1>6. CASE DispatchGet
  <2>1. /\ dispState = "get" /\ dispState' = "deliver"
        /\ incoming.items # <<>> /\ incoming'.items = Tail(incoming.items)
        /\ dispEvent' = Head(incoming.items) /\ dispPending' = sinks
        /\ UNCHANGED <<sinks, sinkState, sent, delivered>>
    BY <1>6 DEF DispatchGet, QCanGet, QGet, sinkVars
  <2>2. /\ Len(incoming.items) >= 1
        /\ Len(incoming'.items) = Len(incoming.items) - 1
        /\ \A i \in 1 .. Len(incoming.items) - 1 :
                incoming'.items[i] = incoming.items[i + 1]
        /\ dispEvent' = incoming.items[1]
    BY <1>0, <2>1
  <2>7. /\ Len(incoming.items) <= sent
        /\ \A i \in 1 .. Len(incoming.items) :
                incoming.items[i] = sent - Len(incoming.items) + i
    BY <1>b DEF BacklogIsLatest
  <2>8. sent - Len(incoming'.items) = sent - Len(incoming.items) + 1
    <3>1. ASSUME NEW n \in Nat PROVE sent - (n - 1) = sent - n + 1
      BY <1>0
    <3> QED BY <1>0, <2>2, <3>1
  <2>9. ASSUME NEW i \in 1 .. Len(incoming'.items)
        PROVE  incoming'.items[i] = sent - Len(incoming'.items) + i
    <3>1. i \in 1 .. Len(incoming.items) - 1 /\ i + 1 \in 1 .. Len(incoming.items)
      BY <1>0, <2>2
    <3>2. incoming'.items[i] = sent - Len(incoming.items) + (i + 1)
      BY <2>2, <2>7, <3>1
    <3>3. ASSUME NEW n \in Nat PROVE sent - n + (i + 1) = sent - n + 1 + i
      BY <1>0, <3>1
    <3> QED BY <1>0, <2>8, <3>2, <3>3
  <2>10. Len(incoming'.items) <= sent
    BY <1>0, <2>2, <2>7
  <2>3. BacklogIsLatest'
    BY <2>1, <2>9, <2>10 DEF BacklogIsLatest
  <2>11. 1 \in 1 .. Len(incoming.items)
    BY <1>0, <2>2
  <2>4. dispEvent' = sent - Len(incoming'.items)
    BY <2>2, <2>7, <2>8, <2>11
  <2>5. \A t \in Sinks : sinkState[t] = "open" => Offered(t)' = Offered(t)
    BY <1>0, <1>a, <2>1, <2>2, <2>4 DEF Offered
  <2>6. OpenSinksHaveOffered'
    BY <1>b, <2>1, <2>4, <2>5 DEF OpenSinksHaveOffered
  <2> QED BY <1>b, <2>1, <2>3, <2>6
          DEF DispatchPosition, AttachedAreOpen, DeliveredInOrder
<1>7. ASSUME NEW s \in Sinks, Deliver(s) PROVE DispatchPosition' /\ DeliveredInOrder'
  <2>1. /\ dispState = "deliver" /\ s \in dispPending
        /\ dispPending' = dispPending \ {s}
        /\ UNCHANGED <<incoming, dispState, dispEvent, sent>>
        /\ dispEvent = sent - Len(incoming.items)
    BY <1>7, <1>b DEF Deliver, OpenSinksHaveOffered
  <2>2. \A t \in Sinks \ {s} : Offered(t)' = Offered(t)
    BY <2>1 DEF Offered
  <2>3. CASE DeliverPut(s)
    <3>1. /\ sinkState[s] = "open"
          /\ delivered' = [delivered EXCEPT ![s] = Append(delivered[s], dispEvent)]
          /\ UNCHANGED <<sinks, sinkState>>
      BY <2>3 DEF DeliverPut
    <3>2. /\ delivered[s] \in Seq(Nat) /\ Len(delivered[s]) \in Nat
          /\ delivered'[s] = Append(delivered[s], dispEvent)
          /\ \A t \in Sinks \ {s} : delivered'[t] = delivered[t]
      BY <1>0, <3>1
    <3>3. /\ Len(delivered'[s]) = Len(delivered[s]) + 1
          /\ \A i \in 1 .. Len(delivered[s]) : delivered'[s][i] = delivered[s][i]
          /\ delivered'[s][Len(delivered[s]) + 1] = dispEvent
      BY <1>0, <3>2
    <3>4. delivered[s] # <<>> =>
            delivered[s][Len(delivered[s])] = dispEvent - 1 /\ Len(delivered[s]) >= 1
      BY <1>b, <2>1, <3>1, <3>2 DEF OpenSinksHaveOffered, Offered
    <3>5. \A i \in 1 .. Len(delivered'[s]) - 1 :
            delivered'[s][i + 1] = delivered'[s][i] + 1
      <4>1. SUFFICES ASSUME NEW i \in 1 .. Len(delivered'[s]) - 1
                     PROVE  delivered'[s][i + 1] = delivered'[s][i] + 1
        OBVIOUS
      <4>2. CASE i = Len(delivered[s])
        BY <1>0, <3>2, <3>3, <3>4, <4>1, <4>2
      <4>3. CASE i # Len(delivered[s])
        <5>1. i \in 1 .. Len(delivered[s]) - 1 /\ i + 1 \in 1 .. Len(delivered[s])
          BY <3>2, <3>3, <4>1, <4>3
        <5> QED BY <1>b, <3>2, <3>3, <5>1, SMTT(30) DEF DeliveredInOrder
      <4> QED BY <4>2, <4>3
    <3>6. DeliveredInOrder'
      BY <1>b, <3>2, <3>5, ZenonT(60) DEF DeliveredInOrder
    <3>7. Offered(s)' = dispEvent
      BY <2>1 DEF Offered
    <3>8. OpenSinksHaveOffered'
      BY <1>b, <2>1, <2>2, <3>1, <3>2, <3>3, <3>7 DEF OpenSinksHaveOffered
    <3>9. AttachedAreOpen'
      BY <1>b, <3>1, <3>2 DEF AttachedAreOpen
    <3> QED BY <1>b, <2>1, <3>6, <3>8, <3>9 DEF DispatchPosition, BacklogIsLatest
  <2>4. ASSUME /\ delivered' = delivered
               /\ sinks' = {t \in Sinks : sinkState'[t] = "open"}
               /\ \A t \in Sinks :
                    /\ sinkState'[t] = "open" => sinkState[t] = "open" /\ t # s
                    /\ sinkState'[t] = "unborn" => sinkState[t] = "unborn"
        PROVE  DispatchPosition' /\ DeliveredInOrder'
    <3>1. AttachedAreOpen'
      BY <1>b, <2>4 DEF AttachedAreOpen
    <3>2. OpenSinksHaveOffered'
      BY <1>b, <2>1, <2>2, <2>4 DEF OpenSinksHaveOffered
    <3> QED BY <1>b, <2>1, <2>4, <3>1, <3>2
            DEF DispatchPosition, BacklogIsLatest, DeliveredInOrder
  <2>5. CASE DeliverSkip(s)
    BY <1>a, <2>4, <2>5 DEF DeliverSkip, sinkVars
  <2>6. CASE DeliverEvict(s)
    <3>1. ShutSink(s, TRUE) /\ delivered' = delivered
      BY <2>6 DEF DeliverEvict
    <3>2. sinkState'[s] # "open"
      BY <1>0, <3>1 DEF ShutSink
    <3> QED BY <2>4, <3>1, <3>2, ShutSinkAttached
  <2> QED BY <1>7, <2>3, <2>5, <2>6 DEF Deliver
<1>8. CASE DispatchDone
  <2>1. /\ dispState = "deliver" /\ dispPending = {} /\ dispState' = "get"
        /\ incoming'.items = incoming.items
        /\ UNCHANGED <<sinks, sinkState, delivered, sent>>
    BY <1>0, <1>8 DEF DispatchDone, QDone, QType, sinkVars
  <2>2. \A t \in Sinks : Offered(t)' = Offered(t)
    BY <2>1 DEF Offered
  <2>3. OpenSinksHaveOffered'
    BY <1>b, <2>1, <2>2 DEF OpenSinksHaveOffered
  <2> QED BY <1>b, <2>1, <2>3
          DEF DispatchPosition, AttachedAreOpen, BacklogIsLatest, DeliveredInOrder
<1>9. CASE DispatchStop
  BY <1>9, <1>a, CalmStep DEF DispatchStop, sinkVars
<1>10. ASSUME NEW immediate \in BOOLEAN
       PROVE  /\ QShutdown(incoming, immediate).items \in {<<>>, incoming.items}
              /\ ~immediate => QShutdown(incoming, immediate).items = incoming.items
  <2>1. CASE immediate
    BY <2>1 DEF QShutdown
  <2>2. CASE ~immediate
    BY <1>0, <2>2 DEF QShutdown, QType
  <2> QED BY <2>1, <2>2
<1>11. CASE DispatcherCancelled
  BY <1>11, <1>a, <1>10, CalmStep DEF DispatcherCancelled, sinkVars
<1>12. ASSUME NEW s \in Sinks, CancelledClosesSink(s)
       PROVE DispatchPosition' /\ DeliveredInOrder'
  BY <1>12, ShutSinkAttached, CalmStep DEF CancelledClosesSink
<1>13. CASE CancelledDone
  BY <1>13, <1>a, CalmStep DEF CancelledDone, sinkVars
<1>14. ASSUME NEW c \in Closers, NEW immediate \in BOOLEAN, Close(c, immediate)
       PROVE DispatchPosition' /\ DeliveredInOrder'
  <2>1. CASE immediate
    BY <1>14, <1>a, <1>10, <2>1, CalmStep DEF Close, CancelDispatcher, sinkVars
  <2>2. CASE ~immediate
    BY <1>14, <1>a, <1>10, <2>2, CalmStep DEF Close, sinkVars
  <2> QED BY <2>1, <2>2
<1>15. ASSUME NEW c \in Closers, JoinIncoming(c)
       PROVE DispatchPosition' /\ DeliveredInOrder'
  BY <1>15, <1>a, CalmStep DEF JoinIncoming, CancelDispatcher, sinkVars
<1>16. ASSUME NEW c \in Closers, NEW s \in Sinks, CloseSink(c, s)
       PROVE DispatchPosition' /\ DeliveredInOrder'
  <2>1. closing[c].immediate \in BOOLEAN /\ ShutSink(s, closing[c].immediate)
    BY <1>0, <1>16 DEF CloseSink, CountInv, TypeOK
  <2> QED BY <1>16, <2>1, ShutSinkAttached, CalmStep DEF CloseSink
<1>17. ASSUME NEW c \in Closers, NEW s \in Sinks, SinkJoined(c, s)
       PROVE DispatchPosition' /\ DeliveredInOrder'
  BY <1>17, <1>a, CalmStep DEF SinkJoined, sinkVars
<1>18. ASSUME NEW c \in Closers, CloseReturns(c)
       PROVE DispatchPosition' /\ DeliveredInOrder'
  BY <1>18, <1>a, CalmStep DEF CloseReturns, sinkVars
<1>19. CASE UNCHANGED vars
  BY <1>19, <1>a, CalmStep DEF vars, dispVars
<1> QED
  BY <1>1, <1>2, <1>3, <1>4, <1>5, <1>6, <1>7, <1>8, <1>9, <1>11, <1>12, <1>13,
     <1>14, <1>15, <1>16, <1>17, <1>18, <1>19
  DEF Next, DispatcherNext, CloserNext

\* A sink is given consecutive events, in every reachable state: none is missed,
\* repeated or reordered while it is attached, whatever taps, evictions and closes
\* happen around the dispatcher.
THEOREM DeliveryOrder == Spec => []DeliveredInOrder
<1>1. OrderInv => DeliveredInOrder
  BY DEF OrderInv
<1> QED BY <1>1, InitOrderInv, NextOrderInv, PTL DEF Spec

\* The dispatcher and the sinks keep step: the backlog and the event in hand are exactly
\* what open sinks have not been offered yet.
THEOREM DispatcherKeepsPosition == Spec => []DispatchPosition
<1>1. OrderInv => DispatchPosition
  BY DEF OrderInv
<1> QED BY <1>1, InitOrderInv, NextOrderInv, PTL DEF Spec

\* A delivery, and so an eviction, never touches the queue of a sink that is closed.
THEOREM EvictionsSpareDrainingReaders == Spec => EvictionSparesDraining
<1> DEFINE A == dispState = "deliver" /\ dispState' = "deliver"
                /\ dispPending' # dispPending
                => \A s \in Sinks : sinkState[s] = "closed" => sinkQ'[s] = sinkQ[s]
<1>1. CountInv /\ [Next]_vars => A
  <2> SUFFICES ASSUME CountInv, [Next]_vars, dispState = "deliver",
                      dispState' = "deliver", dispPending' # dispPending,
                      NEW s \in Sinks, sinkState[s] = "closed"
               PROVE  sinkQ'[s] = sinkQ[s]
    OBVIOUS
  <2>1. sinkQ \in [Sinks -> QType(Nat)]
    BY DEF CountInv, TypeOK
  <2>2. PICK t \in Sinks : Deliver(t)
    <3>1. ~DispatchGet /\ ~DispatchDone /\ ~DispatchStop /\ ~CancelledDone
          /\ ~DispatcherCancelled
      BY DEF DispatchGet, DispatchDone, DispatchStop, CancelledDone, DispatcherCancelled
    <3>2. \A t \in Sinks : ~CancelledClosesSink(t)
      BY DEF CancelledClosesSink
    <3>3. ~EnqueueEvent /\ vars' # vars
      BY DEF EnqueueEvent, dispVars, vars
    <3>4. \A t \in Sinks : /\ ~Tap(t) /\ ~DequeueEvent(t) /\ ~TaskDone(t)
                           /\ \A immediate \in BOOLEAN : ~ReaderCloses(t, immediate)
      BY DEF Tap, DequeueEvent, TaskDone, ReaderCloses, dispVars
    <3>5. \A c \in Closers : /\ \A immediate \in BOOLEAN : ~Close(c, immediate)
                             /\ ~CloserNext(c)
      BY DEF Close, CloserNext, JoinIncoming, CancelDispatcher, CloseSink, SinkJoined,
             CloseReturns, dispVars
    <3> QED BY <3>1, <3>2, <3>3, <3>4, <3>5 DEF Next, DispatcherNext
  <2>3. CASE DeliverSkip(t)
    BY <2>3 DEF DeliverSkip, sinkVars
  <2>4. CASE DeliverEvict(t)
    BY <2>1, <2>4 DEF DeliverEvict, ShutSink
  <2>5. CASE DeliverPut(t)
    BY <2>1, <2>5 DEF DeliverPut
  <2> QED BY <2>2, <2>3, <2>4, <2>5 DEF Deliver
<1> QED BY <1>1, InitCountInv, NextCountInv, PTL DEF Spec, EvictionSparesDraining

-----------------------------------------------------------------------------
(* What close() has left to do                                             *)

\* What close() has left to do covers every sink that is still attached, because
\* nobody can tap a source that is closed.
CloserInv ==
    \A c \in Closers :
        /\ closing[c].phase # "idle" => isClosed
        /\ closing[c].phase \in {"join", "sinks"} => sinks \subseteq closing[c].todo
        /\ closing[c].phase = "done" => sinks = {}

\* How a step of one close() changes its record.
LEMMA ClosingFacts ==
    ASSUME CountInv, NEW c \in Closers
    PROVE  /\ \A p \in Phases :
                closing' = [closing EXCEPT ![c].phase = p] =>
                    /\ closing'[c].phase = p
                    /\ closing'[c].immediate = closing[c].immediate
                    /\ closing'[c].todo = closing[c].todo
                    /\ closing'[c].joining = closing[c].joining
                    /\ \A d \in Closers \ {c} : closing'[d] = closing[d]
           /\ \A s \in Sinks :
                closing' = [closing EXCEPT ![c].joining = closing[c].joining \ {s}] =>
                    /\ closing'[c].phase = closing[c].phase
                    /\ closing'[c].immediate = closing[c].immediate
                    /\ closing'[c].todo = closing[c].todo
                    /\ closing'[c].joining = closing[c].joining \ {s}
                    /\ \A d \in Closers \ {c} : closing'[d] = closing[d]
<1>1. closing \in [Closers -> [phase : Phases, immediate : BOOLEAN,
                               todo : SUBSET Sinks, joining : SUBSET Sinks]]
  BY DEF CountInv, TypeOK
<1> QED BY <1>1

LEMMA NextCloserInv == CountInv /\ CloserInv /\ [Next]_vars => CloserInv'
<1> SUFFICES ASSUME CountInv, CloserInv, [Next]_vars PROVE CloserInv'
  OBVIOUS
<1>1. ASSUME UNCHANGED closing, isClosed => isClosed', sinks' \subseteq sinks
      PROVE  CloserInv'
  BY <1>1 DEF CloserInv
<1>2. ASSUME NEW s \in Sinks, NEW immediate \in BOOLEAN, ShutSink(s, immediate)
      PROVE  sinks' \subseteq sinks
  BY <1>2 DEF ShutSink
<1>3. CASE EnqueueEvent
  BY <1>1, <1>3 DEF EnqueueEvent
<1>4. ASSUME NEW s \in Sinks, Tap(s) PROVE CloserInv'
  BY <1>4 DEF Tap, CloserInv
<1>5. ASSUME NEW s \in Sinks, DequeueEvent(s) \/ TaskDone(s) PROVE CloserInv'
  BY <1>1, <1>5 DEF DequeueEvent, TaskDone
<1>6. ASSUME NEW s \in Sinks, NEW immediate \in BOOLEAN, ReaderCloses(s, immediate)
      PROVE  CloserInv'
  BY <1>1, <1>2, <1>6 DEF ReaderCloses
<1>7. CASE DispatchGet \/ DispatchDone \/ DispatchStop \/ CancelledDone
  BY <1>1, <1>7 DEF DispatchGet, DispatchDone, DispatchStop, CancelledDone
<1>8. ASSUME NEW s \in Sinks, Deliver(s) PROVE CloserInv'
  <2>1. sinks' \subseteq sinks
    BY <1>2, <1>8 DEF Deliver, DeliverSkip, DeliverEvict, DeliverPut
  <2> QED BY <1>1, <1>8, <2>1 DEF Deliver
<1>9. ASSUME NEW s \in Sinks, CancelledClosesSink(s) PROVE CloserInv'
  BY <1>1, <1>2, <1>9 DEF CancelledClosesSink
<1>10. CASE DispatcherCancelled
  BY <1>1, <1>10 DEF DispatcherCancelled
<1>11. ASSUME NEW c \in Closers, NEW immediate \in BOOLEAN, Close(c, immediate)
       PROVE  CloserInv'
  <2>1. /\ isClosed' /\ sinks' = sinks
        /\ closing'[c].phase \in {"join", "sinks"} /\ closing'[c].todo = sinks
        /\ \A d \in Closers \ {c} : closing'[d] = closing[d]
    BY <1>11 DEF Close, CountInv, TypeOK
  <2> QED BY <2>1 DEF CloserInv
<1>12. ASSUME NEW c \in Closers, JoinIncoming(c) PROVE CloserInv'
  <2>1. /\ closing'[c].phase = "sinks" /\ closing'[c].todo = closing[c].todo
        /\ \A d \in Closers \ {c} : closing'[d] = closing[d]
    BY <1>12, ClosingFacts DEF JoinIncoming, Phases
  <2> QED BY <1>12, <2>1 DEF JoinIncoming, CloserInv
<1>13. ASSUME NEW c \in Closers, NEW s \in Sinks, CloseSink(c, s) PROVE CloserInv'
  <2>1. /\ closing'[c].phase = "sinks" /\ closing'[c].todo = closing[c].todo \ {s}
        /\ \A d \in Closers \ {c} : closing'[d] = closing[d]
        /\ sinks' = sinks \ {s} /\ isClosed' = isClosed
    BY <1>13 DEF CloseSink, ShutSink, CountInv, TypeOK
  <2> QED BY <1>13, <2>1 DEF CloseSink, CloserInv
<1>14. ASSUME NEW c \in Closers, NEW s \in Sinks, SinkJoined(c, s) PROVE CloserInv'
  <2>1. /\ closing'[c].phase = closing[c].phase /\ closing'[c].todo = closing[c].todo
        /\ \A d \in Closers \ {c} : closing'[d] = closing[d]
    BY <1>14, ClosingFacts DEF SinkJoined
  <2> QED BY <1>14, <2>1 DEF SinkJoined, CloserInv
<1>15. ASSUME NEW c \in Closers, CloseReturns(c) PROVE CloserInv'
  <2>1. /\ closing'[c].phase = "done"
        /\ \A d \in Closers \ {c} : closing'[d] = closing[d]
    BY <1>15, ClosingFacts DEF CloseReturns, Phases
  <2> QED BY <1>15, <2>1 DEF CloseReturns, CloserInv
<1>16. CASE UNCHANGED vars
  BY <1>1, <1>16 DEF vars
<1> QED
  BY <1>3, <1>4, <1>5, <1>6, <1>7, <1>8, <1>9, <1>10, <1>11, <1>12, <1>13, <1>14,
     <1>15, <1>16
  DEF Next, DispatcherNext, CloserNext

\* Once any close() has returned no sink is attached and none is open: no tap can slip
\* between the snapshot of the sinks and their closing.
THEOREM CloseLeavesNoSink == Spec => []NoTapSurvivesClose
<1> DEFINE Inv == OrderInv /\ CloserInv
<1>1. Init => Inv
  BY InitOrderInv DEF Init, CloserInv, NoClose
<1>2. Inv /\ [Next]_vars => Inv'
  BY NextOrderInv, NextCloserInv DEF OrderInv
<1>3. Inv => NoTapSurvivesClose
  BY DEF OrderInv, DispatchPosition, AttachedAreOpen, CloserInv, NoTapSurvivesClose
<1> QED BY <1>1, <1>2, <1>3, PTL DEF Spec

\* As long as nothing was forced the dispatcher only ends once the incoming queue is
\* empty for good, and a sink is only closed after that, by a close() that joins it.
EndedIsEmpty ==
    /\ dispState # "killed"
    /\ dispState = "done" => incoming.items = <<>> /\ incoming.down

ClosersWait ==
    \A c \in Closers :
        /\ ~closing[c].immediate
        /\ closing[c].phase # "idle" => incoming.down
        /\ closing[c].phase \in {"sinks", "done"} => dispState = "done"
        /\ closing[c].phase # "sinks" => closing[c].joining = {}

UnbornAreEmpty ==
    \A s \in Sinks : sinkState[s] = "unborn" => sinkQ[s].items = <<>> /\ held[s] = 0

StayedAreJoined ==
    \A s \in Sinks \ quit :
        sinkState[s] = "closed" =>
            /\ dispState = "done"
            /\ sinkQ[s].unfinished = 0 \/ \E c \in Closers : s \in closing[c].joining

WindDownInv ==
    ~forced => EndedIsEmpty /\ ClosersWait /\ UnbornAreEmpty /\ StayedAreJoined

LEMMA QuietClosers ==
    ASSUME ClosersWait, UNCHANGED closing,
           incoming.down => incoming'.down,
           dispState = "done" => dispState' = "done"
    PROVE  ClosersWait'
BY DEF ClosersWait

LEMMA QuietSinks ==
    ASSUME UnbornAreEmpty, StayedAreJoined, UNCHANGED <<sinkQ, sinkState, held, quit>>,
           dispState = "done" => dispState' = "done",
           \A c \in Closers : closing[c].joining \subseteq closing'[c].joining
    PROVE  UnbornAreEmpty' /\ StayedAreJoined'
BY DEF UnbornAreEmpty, StayedAreJoined

\* Closing a sink that its reader gave up, or that close() goes on to join.
LEMMA ShutSinkJoined ==
    ASSUME CountInv, UnbornAreEmpty, StayedAreJoined,
           NEW s \in Sinks, NEW immediate \in BOOLEAN, ShutSink(s, immediate),
           UNCHANGED <<held, dispState>>,
           quit' \in {quit, quit \cup {s}},
           \A c \in Closers : closing[c].joining \subseteq closing'[c].joining,
           \/ s \in quit'
           \/ dispState = "done" /\ \E c \in Closers : s \in closing'[c].joining
    PROVE  UnbornAreEmpty' /\ StayedAreJoined'
<1>1. /\ sinkState \in [Sinks -> {"unborn", "open", "closed"}]
      /\ sinkQ \in [Sinks -> QType(Nat)]
  BY DEF CountInv, TypeOK
<1>2. /\ sinkState'[s] = "closed"
      /\ \A t \in Sinks \ {s} : sinkState'[t] = sinkState[t] /\ sinkQ'[t] = sinkQ[t]
  BY <1>1 DEF ShutSink
<1>3. UnbornAreEmpty'
  BY <1>2 DEF UnbornAreEmpty
<1>4. ASSUME NEW t \in Sinks \ quit', sinkState'[t] = "closed"
      PROVE  /\ dispState' = "done"
             /\ sinkQ'[t].unfinished = 0 \/ \E c \in Closers : t \in closing'[c].joining
  <2>1. CASE t = s
    BY <1>4, <2>1
  <2>2. CASE t # s
    BY <1>2, <1>4, <2>2 DEF StayedAreJoined
  <2> QED BY <2>1, <2>2
<1> QED BY <1>3, <1>4 DEF StayedAreJoined

LEMMA NextWindDownInv == CountInv /\ WindDownInv /\ [Next]_vars => WindDownInv'
<1> SUFFICES ASSUME CountInv, WindDownInv, [Next]_vars, ~forced'
             PROVE  EndedIsEmpty' /\ ClosersWait' /\ UnbornAreEmpty' /\ StayedAreJoined'
  BY DEF WindDownInv
<1>0. ~forced => EndedIsEmpty /\ ClosersWait /\ UnbornAreEmpty /\ StayedAreJoined
  BY DEF WindDownInv
<1>1. CASE EnqueueEvent
  <2>1. ~forced /\ ~incoming.down /\ incoming'.down = incoming.down
        /\ UNCHANGED <<dispState, closing, sinkQ, sinkState, held, quit>>
    BY <1>1 DEF EnqueueEvent, QCanPut, QPut, dispVars, sinkVars
  <2> QED BY <1>0, <2>1, QuietClosers, QuietSinks DEF EndedIsEmpty
<1>2. ASSUME NEW s \in Sinks, Tap(s)
      PROVE  EndedIsEmpty' /\ ClosersWait' /\ UnbornAreEmpty' /\ StayedAreJoined'
  <2>1. ~forced /\ UNCHANGED <<incoming, dispState, closing, sinkQ, held, quit>>
        /\ sinkState' = [sinkState EXCEPT ![s] = "open"]
    BY <1>2 DEF Tap, dispVars
  <2>2. \A t \in Sinks : sinkState'[t] # "open" => sinkState'[t] = sinkState[t]
    BY <2>1 DEF CountInv, TypeOK
  <2>3. UnbornAreEmpty' /\ StayedAreJoined'
    BY <1>0, <2>1, <2>2 DEF UnbornAreEmpty, StayedAreJoined
  <2> QED BY <1>0, <2>1, <2>3, QuietClosers DEF EndedIsEmpty
<1>3. ASSUME NEW s \in Sinks, DequeueEvent(s)
      PROVE  EndedIsEmpty' /\ ClosersWait' /\ UnbornAreEmpty' /\ StayedAreJoined'
  <2>1. ~forced /\ UNCHANGED <<incoming, dispState, closing, sinkState, quit>>
        /\ sinkQ[s].items # <<>>
    BY <1>3 DEF DequeueEvent, QCanGet, dispVars
  <2>2. sinkState[s] # "unborn"
    BY <1>0, <2>1 DEF UnbornAreEmpty
  <2>3. /\ sinkQ'[s].unfinished = sinkQ[s].unfinished
        /\ \A t \in Sinks \ {s} : sinkQ'[t] = sinkQ[t] /\ held'[t] = held[t]
    <3>1. sinkQ[s] \in QType(Nat) /\ QCanGet(sinkQ[s])
      BY <1>3, SinkQueueFacts DEF DequeueEvent
    <3>2. QGet(sinkQ[s]).unfinished = sinkQ[s].unfinished
      BY <3>1, QGetType
    <3> QED BY <1>3, <3>2 DEF DequeueEvent, CountInv, TypeOK
  <2>4. UnbornAreEmpty' /\ StayedAreJoined'
    BY <1>0, <2>1, <2>2, <2>3 DEF UnbornAreEmpty, StayedAreJoined
  <2> QED BY <1>0, <2>1, <2>4, QuietClosers DEF EndedIsEmpty
<1>4. ASSUME NEW s \in Sinks, TaskDone(s)
      PROVE  EndedIsEmpty' /\ ClosersWait' /\ UnbornAreEmpty' /\ StayedAreJoined'
  <2>1. ~forced /\ UNCHANGED <<incoming, dispState, closing, sinkState, quit>>
        /\ held[s] > 0
    BY <1>4 DEF TaskDone, dispVars
  <2>2. sinkState[s] # "unborn" /\ sinkQ[s].unfinished # 0
    BY <1>0, <2>1, SinkQueueFacts DEF UnbornAreEmpty
  <2>3. \A t \in Sinks \ {s} : sinkQ'[t] = sinkQ[t] /\ held'[t] = held[t]
    BY <1>4 DEF TaskDone, CountInv, TypeOK
  <2>4. UnbornAreEmpty' /\ StayedAreJoined'
    BY <1>0, <2>1, <2>2, <2>3 DEF UnbornAreEmpty, StayedAreJoined
  <2> QED BY <1>0, <2>1, <2>4, QuietClosers DEF EndedIsEmpty
<1>5. ASSUME NEW s \in Sinks, NEW immediate \in BOOLEAN, ReaderCloses(s, immediate)
      PROVE  EndedIsEmpty' /\ ClosersWait' /\ UnbornAreEmpty' /\ StayedAreJoined'
  <2>1. /\ ~forced /\ UNCHANGED <<incoming, dispState, closing, held>>
        /\ ShutSink(s, immediate) /\ quit' = quit \cup {s}
    BY <1>5 DEF ReaderCloses, dispVars
  <2>2. UnbornAreEmpty' /\ StayedAreJoined'
    BY <1>0, <2>1, ShutSinkJoined
  <2> QED BY <1>0, <2>1, <2>2, QuietClosers DEF EndedIsEmpty
<1>6. CASE DispatchGet
  <2>1. /\ ~forced /\ UNCHANGED <<closing, sinkQ, sinkState, held, quit>>
        /\ dispState = "get" /\ dispState' = "deliver"
        /\ incoming' = QGet(incoming) /\ QCanGet(incoming)
    BY <1>6 DEF DispatchGet, sinkVars
  <2>2. incoming'.down = incoming.down
    BY <2>1, QGetType, IncomingFacts
  <2> QED BY <1>0, <2>1, <2>2, QuietClosers, QuietSinks DEF EndedIsEmpty
<1>7. ASSUME NEW s \in Sinks, Deliver(s)
      PROVE  EndedIsEmpty' /\ ClosersWait' /\ UnbornAreEmpty' /\ StayedAreJoined'
  <2>1. ~forced /\ UNCHANGED <<incoming, dispState, closing>> /\ dispState = "deliver"
    BY <1>7 DEF Deliver
  <2>2. UnbornAreEmpty' /\ StayedAreJoined'
    <3>1. CASE DeliverSkip(s)
      BY <1>0, <2>1, <3>1, QuietSinks DEF DeliverSkip, sinkVars
    <3>2. CASE DeliverEvict(s)
      BY <1>0, <2>1, <3>2, ShutSinkJoined DEF DeliverEvict
    <3>3. CASE DeliverPut(s)
      <4>1. /\ sinkState[s] = "open" /\ UNCHANGED <<sinkState, held, quit>>
            /\ \A t \in Sinks \ {s} : sinkQ'[t] = sinkQ[t]
        BY <3>3 DEF DeliverPut, CountInv, TypeOK
      <4> QED BY <1>0, <2>1, <4>1 DEF UnbornAreEmpty, StayedAreJoined
    <3> QED BY <1>7, <3>1, <3>2, <3>3 DEF Deliver
  <2> QED BY <1>0, <2>1, <2>2, QuietClosers DEF EndedIsEmpty
<1>8. CASE DispatchDone
  <2>1. /\ ~forced /\ UNCHANGED <<closing, sinkQ, sinkState, held, quit>>
        /\ dispState = "deliver" /\ dispState' = "get"
        /\ incoming' = QDone(incoming)
    BY <1>8 DEF DispatchDone, sinkVars
  <2>2. incoming'.down = incoming.down
    BY <2>1, IncomingFacts DEF QDone, QType
  <2> QED BY <1>0, <2>1, <2>2, QuietClosers, QuietSinks DEF EndedIsEmpty
<1>9. CASE DispatchStop
  <2>1. /\ ~forced /\ UNCHANGED <<closing, incoming, sinkQ, sinkState, held, quit>>
        /\ dispState' = "done" /\ incoming.items = <<>> /\ incoming.down
    BY <1>9 DEF DispatchStop, QDrained, sinkVars
  <2> QED BY <1>0, <2>1, QuietClosers, QuietSinks DEF EndedIsEmpty
<1>10. CASE DispatcherCancelled
  BY <1>10 DEF DispatcherCancelled
<1>11. CASE (\E s \in Sinks : CancelledClosesSink(s)) \/ CancelledDone
  BY <1>0, <1>11 DEF CancelledClosesSink, CancelledDone, EndedIsEmpty
<1>12. ASSUME NEW c \in Closers, NEW immediate \in BOOLEAN, Close(c, immediate)
       PROVE  EndedIsEmpty' /\ ClosersWait' /\ UnbornAreEmpty' /\ StayedAreJoined'
  <2>1. /\ ~forced /\ ~immediate /\ closing[c].phase = "idle"
        /\ UNCHANGED <<dispState, sinkQ, sinkState, held, quit>>
        /\ incoming' = [incoming EXCEPT !.down = TRUE]
    BY <1>12 DEF Close, QShutdown, dispVars, sinkVars
  <2>2. incoming'.down /\ incoming'.items = incoming.items
    BY <2>1, IncomingFacts DEF QType
  <2>3. /\ closing'[c].phase = "join" /\ ~closing'[c].immediate
        /\ closing'[c].joining = {}
        /\ \A d \in Closers \ {c} : closing'[d] = closing[d]
    BY <1>12, <2>1 DEF Close, CountInv, TypeOK
  <2>4. closing[c].joining = {}
    BY <1>0, <2>1 DEF ClosersWait
  <2>5. ClosersWait'
    BY <1>0, <2>1, <2>2, <2>3 DEF ClosersWait
  <2> QED BY <1>0, <2>1, <2>2, <2>3, <2>4, <2>5, QuietSinks DEF EndedIsEmpty
<1>13. ASSUME NEW c \in Closers, JoinIncoming(c)
       PROVE  EndedIsEmpty' /\ ClosersWait' /\ UnbornAreEmpty' /\ StayedAreJoined'
  <2>1. /\ ~forced /\ closing[c].phase = "join" /\ dispState' = "done"
        /\ incoming.unfinished = 0 \/ dispState = "done"
        /\ UNCHANGED <<incoming, sinkQ, sinkState, held, quit>>
    BY <1>13 DEF JoinIncoming, CancelDispatcher, QJoined, sinkVars
  <2>2. incoming.down /\ incoming.items = <<>>
    BY <1>0, <2>1, IncomingFacts DEF ClosersWait, EndedIsEmpty, QType
  <2>3. /\ closing'[c].phase = "sinks" /\ closing'[c].immediate = closing[c].immediate
        /\ closing'[c].joining = closing[c].joining
        /\ \A d \in Closers \ {c} : closing'[d] = closing[d]
    BY <1>13, ClosingFacts DEF JoinIncoming, Phases
  <2>4. ClosersWait'
    BY <1>0, <2>1, <2>2, <2>3 DEF ClosersWait
  <2> QED BY <1>0, <2>1, <2>2, <2>3, <2>4, QuietSinks DEF EndedIsEmpty
<1>14. ASSUME NEW c \in Closers, NEW s \in Sinks, CloseSink(c, s)
       PROVE  EndedIsEmpty' /\ ClosersWait' /\ UnbornAreEmpty' /\ StayedAreJoined'
  <2>1. /\ ~forced /\ closing[c].phase = "sinks"
        /\ UNCHANGED <<incoming, dispState, held>>
    BY <1>14 DEF CloseSink, dispVars
  <2>2. ~closing[c].immediate /\ dispState = "done"
    BY <1>0, <2>1 DEF ClosersWait
  <2>3. /\ closing'[c].phase = "sinks" /\ ~closing'[c].immediate
        /\ closing'[c].joining = closing[c].joining \cup {s}
        /\ \A d \in Closers \ {c} : closing'[d] = closing[d]
    BY <1>14, <2>2 DEF CloseSink, CountInv, TypeOK
  <2>4. ShutSink(s, FALSE) /\ quit' = quit
    BY <1>14, <2>1, <2>2 DEF CloseSink, CountInv, TypeOK
  <2>5. UnbornAreEmpty' /\ StayedAreJoined'
    BY <1>0, <2>1, <2>2, <2>3, <2>4, ShutSinkJoined
  <2>6. ClosersWait'
    BY <1>0, <2>1, <2>2, <2>3 DEF ClosersWait
  <2> QED BY <1>0, <2>1, <2>5, <2>6 DEF EndedIsEmpty
<1>15. ASSUME NEW c \in Closers, NEW s \in Sinks, SinkJoined(c, s)
       PROVE  EndedIsEmpty' /\ ClosersWait' /\ UnbornAreEmpty' /\ StayedAreJoined'
  <2>1. /\ ~forced /\ sinkQ[s].unfinished = 0
        /\ UNCHANGED <<incoming, dispState, sinkQ, sinkState, held, quit>>
    BY <1>15 DEF SinkJoined, QJoined, dispVars, sinkVars
  <2>2. /\ closing'[c].phase = closing[c].phase
        /\ closing'[c].immediate = closing[c].immediate
        /\ closing'[c].joining = closing[c].joining \ {s}
        /\ \A d \in Closers \ {c} : closing'[d] = closing[d]
    BY <1>15, ClosingFacts DEF SinkJoined
  <2>3. StayedAreJoined'
    BY <1>0, <2>1, <2>2 DEF StayedAreJoined
  <2>4. UnbornAreEmpty' /\ ClosersWait'
    BY <1>0, <2>1, <2>2 DEF UnbornAreEmpty, ClosersWait
  <2> QED BY <1>0, <2>1, <2>3, <2>4 DEF EndedIsEmpty
<1>16. ASSUME NEW c \in Closers, CloseReturns(c)
       PROVE  EndedIsEmpty' /\ ClosersWait' /\ UnbornAreEmpty' /\ StayedAreJoined'
  <2>1. /\ ~forced /\ closing[c].joining = {} /\ dispState = "done"
        /\ UNCHANGED <<incoming, dispState, sinkQ, sinkState, held, quit>>
        /\ closing[c].phase = "sinks"
    BY <1>16 DEF CloseReturns, dispVars, sinkVars
  <2>2. /\ closing'[c].phase = "done" /\ closing'[c].immediate = closing[c].immediate
        /\ closing'[c].joining = closing[c].joining
        /\ \A d \in Closers \ {c} : closing'[d] = closing[d]
    BY <1>16, ClosingFacts DEF CloseReturns, Phases
  <2>3. ClosersWait'
    BY <1>0, <2>1, <2>2 DEF ClosersWait
  <2> QED BY <1>0, <2>1, <2>2, <2>3, QuietSinks DEF EndedIsEmpty
<1>17. CASE UNCHANGED vars
  BY <1>0, <1>17, QuietClosers, QuietSinks DEF vars, EndedIsEmpty
<1> QED
  BY <1>1, <1>2, <1>3, <1>4, <1>5, <1>6, <1>7, <1>8, <1>9, <1>10, <1>11, <1>12,
     <1>13, <1>14, <1>15, <1>16, <1>17
  DEF Next, DispatcherNext, CloserNext

\* Every sink that stayed got everything since it was tapped, the default sink everything.
DefaultGotAll ==
    \A s \in InitialSinks \ quit : Len(delivered[s]) = Offered(s)

StayedGotLast ==
    dispState = "done" =>
        \A s \in Sinks \ quit :
            delivered[s] # <<>> => delivered[s][Len(delivered[s])] = sent

LedgerInv ==
    /\ \A s \in InitialSinks : sinkState[s] # "unborn"
    /\ ~forced => DefaultGotAll /\ StayedGotLast

LEMMA QuietLedger ==
    ASSUME DefaultGotAll, StayedGotLast, UNCHANGED <<sent, delivered>>,
           quit \subseteq quit', dispState' = dispState,
           \A s \in InitialSinks \ quit' : Offered(s)' = Offered(s)
    PROVE  DefaultGotAll' /\ StayedGotLast'
BY DEF DefaultGotAll, StayedGotLast

\* As long as the dispatcher runs, a sink that stayed is attached or not tapped yet.
LEMMA StayedAreOpen ==
    ASSUME OrderInv, WindDownInv, ~forced, dispState # "done",
           NEW s \in Sinks \ quit
    PROVE  sinkState[s] \in {"open", "unborn"}
BY DEF OrderInv, CountInv, TypeOK, WindDownInv, StayedAreJoined

\* When the dispatcher ends because everything was dispatched the ledger is settled.
LEMMA SettledLedger ==
    ASSUME OrderInv, WindDownInv, LedgerInv, ~forced, incoming.items = <<>>,
           dispState # "deliver", dispState' = "done",
           UNCHANGED <<incoming, sent, delivered, quit>>
    PROVE  DefaultGotAll' /\ StayedGotLast'
<1>1. sent \in Nat /\ Len(incoming.items) = 0
  BY DEF OrderInv, CountInv, TypeOK
<1>2. \A s \in Sinks : Offered(s) = sent /\ Offered(s)' = sent
  BY <1>1 DEF Offered
<1>3. DefaultGotAll'
  BY <1>2, SourceAssumption DEF LedgerInv, DefaultGotAll
<1>4. ASSUME NEW s \in Sinks \ quit, delivered[s] # <<>>
      PROVE  delivered[s][Len(delivered[s])] = sent
  <2>1. CASE dispState = "done"
    BY <1>4, <2>1 DEF LedgerInv, StayedGotLast
  <2>2. CASE dispState # "done"
    <3>1. dispState = "get"
      BY <2>2 DEF OrderInv, CountInv, TypeOK, WindDownInv, EndedIsEmpty
    <3>2. sinkState[s] = "open"
      BY <1>4, <2>2, StayedAreOpen DEF OrderInv, DispatchPosition, AttachedAreOpen
    <3> QED BY <1>2, <1>4, <3>1, <3>2
            DEF OrderInv, DispatchPosition, OpenSinksHaveOffered
  <2> QED BY <2>1, <2>2
<1> QED BY <1>3, <1>4 DEF StayedGotLast

LEMMA NextLedgerInv ==
    OrderInv /\ WindDownInv /\ LedgerInv /\ [Next]_vars => LedgerInv'
<1> SUFFICES ASSUME OrderInv, WindDownInv, LedgerInv, [Next]_vars PROVE LedgerInv'
  OBVIOUS
<1>0. /\ CountInv /\ BacklogIsLatest /\ OpenSinksHaveOffered /\ AttachedAreOpen
      /\ sinkState \in [Sinks -> {"unborn", "open", "closed"}]
      /\ delivered \in [Sinks -> Seq(Nat)] /\ sent \in Nat /\ dispEvent \in Nat
      /\ incoming.items \in Seq(Nat) /\ Len(incoming.items) \in Nat
  BY IncomingFacts DEF OrderInv, DispatchPosition, CountInv, TypeOK, QType
<1>a. \A s \in InitialSinks : s \in Sinks /\ sinkState[s] # "unborn"
  BY SourceAssumption DEF LedgerInv
<1>b. ~forced => /\ DefaultGotAll /\ StayedGotLast
                 /\ EndedIsEmpty /\ ClosersWait /\ StayedAreJoined
  BY DEF LedgerInv, WindDownInv
<1>1. ASSUME UNCHANGED sinkState PROVE \A s \in InitialSinks : sinkState'[s] # "unborn"
  BY <1>1, <1>a
<1>2. ASSUME NEW s \in Sinks, NEW immediate \in BOOLEAN, ShutSink(s, immediate)
      PROVE  \A t \in InitialSinks : sinkState'[t] # "unborn"
  BY <1>0, <1>2, <1>a DEF ShutSink
\* Steps that leave the deliveries, the dispatcher and the backlog alone.
<1>3. ASSUME UNCHANGED <<sent, delivered, dispState, dispEvent, dispPending>>,
             incoming'.items = incoming.items, quit \subseteq quit', forced' = forced,
             \A s \in InitialSinks : sinkState'[s] # "unborn"
      PROVE  LedgerInv'
  <2>1. \A s \in Sinks : Offered(s)' = Offered(s)
    BY <1>3 DEF Offered
  <2> QED BY <1>3, <1>a, <1>b, <2>1, QuietLedger DEF LedgerInv
<1>4. CASE EnqueueEvent
  <2>1. /\ UNCHANGED <<dispVars, sinkState, delivered, quit, forced>>
        /\ sent' = sent + 1
        /\ incoming'.items = Append(incoming.items, sent + 1)
    BY <1>4 DEF EnqueueEvent, QCanPut, QPut, sinkVars
  <2>2. sent' - Len(incoming'.items) = sent - Len(incoming.items)
    <3>1. ASSUME NEW n \in Nat PROVE (sent + 1) - (n + 1) = sent - n
      BY <1>0
    <3>2. Len(incoming'.items) = Len(incoming.items) + 1
      BY <1>0, <2>1
    <3> QED BY <1>0, <2>1, <3>1, <3>2
  <2>3. \A s \in Sinks : Offered(s)' = Offered(s)
    BY <2>1, <2>2 DEF dispVars, Offered
  <2>4. ~forced => dispState # "done"
    BY <1>4, <1>b DEF EnqueueEvent, QCanPut, EndedIsEmpty
  <2>5. ~forced' => DefaultGotAll' /\ StayedGotLast'
    BY <1>a, <1>b, <2>1, <2>3, <2>4 DEF dispVars, DefaultGotAll, StayedGotLast
  <2> QED BY <1>1, <2>1, <2>5 DEF LedgerInv
<1>5. ASSUME NEW s \in Sinks, Tap(s) PROVE LedgerInv'
  <2>1. \A t \in InitialSinks : sinkState'[t] # "unborn"
    BY <1>0, <1>5, <1>a DEF Tap
  <2> QED BY <1>3, <1>5, <2>1 DEF Tap, dispVars
<1>6. ASSUME NEW s \in Sinks, DequeueEvent(s) \/ TaskDone(s) PROVE LedgerInv'
  BY <1>1, <1>3, <1>6 DEF DequeueEvent, TaskDone, dispVars
<1>7. ASSUME NEW s \in Sinks, NEW immediate \in BOOLEAN, ReaderCloses(s, immediate)
      PROVE  LedgerInv'
  BY <1>2, <1>3, <1>7 DEF ReaderCloses, dispVars
<1>8. CASE DispatchGet
  <2>1. /\ dispState = "get" /\ dispState' = "deliver" /\ dispPending' = sinks
        /\ incoming.items # <<>> /\ incoming'.items = Tail(incoming.items)
        /\ dispEvent' = Head(incoming.items)
        /\ UNCHANGED <<sinkState, sent, delivered, quit, forced>>
    BY <1>8 DEF DispatchGet, QCanGet, QGet, sinkVars
  <2>2. dispEvent' = sent - Len(incoming.items) + 1
    <3>1. 1 \in 1 .. Len(incoming.items) /\ Head(incoming.items) = incoming.items[1]
      BY <1>0, <2>1
    <3> QED BY <1>0, <2>1, <3>1 DEF BacklogIsLatest
  <2>3. ASSUME NEW t \in InitialSinks \ quit, ~forced PROVE Offered(t)' = Offered(t)
    <3>1. t \in sinks
      BY <1>0, <1>a, <2>1, <2>3, StayedAreOpen DEF AttachedAreOpen
    <3> QED BY <1>0, <2>1, <2>2, <3>1 DEF Offered
  <2>4. ~forced => DefaultGotAll' /\ StayedGotLast'
    BY <1>b, <2>1, <2>3 DEF DefaultGotAll, StayedGotLast
  <2> QED BY <1>1, <2>1, <2>4 DEF LedgerInv
<1>9. ASSUME NEW s \in Sinks, Deliver(s) PROVE LedgerInv'
  <2>1. /\ dispState = "deliver" /\ s \in dispPending
        /\ dispPending' = dispPending \ {s}
        /\ UNCHANGED <<incoming, dispState, dispEvent, sent, forced>>
        /\ dispEvent = sent - Len(incoming.items)
    BY <1>0, <1>9 DEF Deliver, OpenSinksHaveOffered
  <2>2. \A t \in Sinks \ {s} : Offered(t)' = Offered(t)
    BY <2>1 DEF Offered
  <2>3. CASE DeliverPut(s)
    <3>1. /\ UNCHANGED <<sinkState, quit>>
          /\ Len(delivered'[s]) = Len(delivered[s]) + 1
          /\ \A t \in Sinks \ {s} : delivered'[t] = delivered[t]
      BY <1>0, <2>3 DEF DeliverPut
    <3>2. Offered(s) = dispEvent - 1 /\ Offered(s)' = dispEvent
      BY <2>1 DEF Offered
    <3>3. ~forced => DefaultGotAll'
      BY <1>0, <1>a, <1>b, <2>2, <3>1, <3>2 DEF DefaultGotAll
    <3> QED BY <1>1, <2>1, <3>1, <3>3 DEF LedgerInv, StayedGotLast
  <2>4. ASSUME ~forced => s \in quit', quit \subseteq quit', delivered' = delivered,
               \A t \in InitialSinks : sinkState'[t] # "unborn"
        PROVE  LedgerInv'
    BY <1>a, <1>b, <2>1, <2>2, <2>4 DEF LedgerInv, DefaultGotAll, StayedGotLast
  <2>5. CASE DeliverSkip(s)
    <3>1. ~forced => s \in quit
      BY <2>1, <2>5, StayedAreOpen DEF DeliverSkip
    <3> QED BY <1>1, <2>4, <2>5, <3>1 DEF DeliverSkip, sinkVars
  <2>6. CASE DeliverEvict(s)
    BY <1>2, <2>4, <2>6 DEF DeliverEvict
  <2> QED BY <1>9, <2>3, <2>5, <2>6 DEF Deliver
<1>10. CASE DispatchDone
  <2>1. /\ dispState = "deliver" /\ dispPending = {} /\ dispState' = "get"
        /\ incoming'.items = incoming.items
        /\ UNCHANGED <<dispPending, dispEvent, sinkState, sent, delivered, quit, forced>>
    BY <1>0, <1>10, IncomingFacts DEF DispatchDone, QDone, QType, sinkVars
  <2>2. \A t \in Sinks : Offered(t)' = Offered(t)
    BY <2>1 DEF Offered
  <2>3. ~forced => DefaultGotAll' /\ StayedGotLast'
    BY <1>a, <1>b, <2>1, <2>2 DEF DefaultGotAll, StayedGotLast
  <2> QED BY <1>1, <2>1, <2>3 DEF LedgerInv
<1>11. CASE DispatchStop
  <2>1. /\ dispState = "get" /\ dispState' = "done" /\ incoming.items = <<>>
        /\ UNCHANGED <<incoming, sinkState, sent, delivered, quit, forced>>
    BY <1>11 DEF DispatchStop, QDrained, sinkVars
  <2> QED BY <1>1, <2>1, SettledLedger DEF LedgerInv
<1>12. CASE DispatcherCancelled
  BY <1>1, <1>12 DEF DispatcherCancelled, sinkVars, LedgerInv
<1>13. ASSUME NEW s \in Sinks, CancelledClosesSink(s) PROVE LedgerInv'
  <2>1. forced
    BY <1>13, <1>b DEF CancelledClosesSink, EndedIsEmpty
  <2> QED BY <1>2, <1>13, <2>1 DEF CancelledClosesSink, LedgerInv
<1>14. CASE CancelledDone
  <2>1. forced
    BY <1>14, <1>b DEF CancelledDone, EndedIsEmpty
  <2> QED BY <1>1, <1>14, <2>1 DEF CancelledDone, sinkVars, LedgerInv
<1>15. ASSUME NEW c \in Closers, NEW immediate \in BOOLEAN, Close(c, immediate)
       PROVE  LedgerInv'
  <2>1. CASE immediate
    BY <1>1, <1>15, <2>1 DEF Close, sinkVars, LedgerInv
  <2>2. CASE ~immediate
    <3>1. incoming'.items = incoming.items
      BY <1>0, <1>15, <2>2, IncomingFacts DEF Close, QShutdown, QType
    <3>2. forced' = (forced \/ immediate) /\ forced \in BOOLEAN
      BY <1>0, <1>15 DEF Close, CountInv, TypeOK
    <3>3. forced' = forced
      BY <2>2, <3>2
    <3>4. UNCHANGED <<sent, delivered, dispState, dispEvent, dispPending, sinkState, quit>>
      BY <1>15, <2>2 DEF Close, dispVars, sinkVars
    <3> QED BY <1>1, <1>3, <3>1, <3>3, <3>4
  <2> QED BY <2>1, <2>2
<1>16. ASSUME NEW c \in Closers, JoinIncoming(c) PROVE LedgerInv'
  <2>1. /\ incoming.unfinished = 0 \/ dispState = "done"
        /\ dispState' = "done"
        /\ UNCHANGED <<incoming, sinkState, sent, delivered, quit, forced>>
    BY <1>16 DEF JoinIncoming, QJoined, CancelDispatcher, sinkVars
  <2>2. ~forced => incoming.items = <<>> /\ dispState # "deliver"
    BY <1>0, <1>b, <2>1, IncomingFacts DEF EndedIsEmpty, CountInv, JoinCountsExact
  <2>3. ~forced => DefaultGotAll' /\ StayedGotLast'
    BY <2>1, <2>2, SettledLedger
  <2> QED BY <1>1, <2>1, <2>3 DEF LedgerInv
<1>17. ASSUME NEW c \in Closers, NEW s \in Sinks, CloseSink(c, s) PROVE LedgerInv'
  <2>1. closing[c].immediate \in BOOLEAN /\ ShutSink(s, closing[c].immediate)
    BY <1>0, <1>17 DEF CloseSink, CountInv, TypeOK
  <2> QED BY <1>2, <1>3, <1>17, <2>1 DEF CloseSink, dispVars
<1>18. ASSUME NEW c \in Closers, NEW s \in Sinks, SinkJoined(c, s) PROVE LedgerInv'
  BY <1>1, <1>3, <1>18 DEF SinkJoined, dispVars, sinkVars
<1>19. ASSUME NEW c \in Closers, CloseReturns(c) PROVE LedgerInv'
  BY <1>1, <1>3, <1>19 DEF CloseReturns, dispVars, sinkVars
<1>20. CASE UNCHANGED vars
  BY <1>1, <1>3, <1>20 DEF vars
<1> QED
  BY <1>4, <1>5, <1>6, <1>7, <1>8, <1>9, <1>10, <1>11, <1>12, <1>13, <1>14, <1>15,
     <1>16, <1>17, <1>18, <1>19, <1>20
  DEF Next, DispatcherNext, CloserNext

\* What close() guarantees all together.
CloseInv == OrderInv /\ CloserInv /\ WindDownInv /\ LedgerInv

LEMMA InitCloseInv == Init => CloseInv
<1> SUFFICES ASSUME Init PROVE CloserInv /\ WindDownInv /\ LedgerInv
  BY InitOrderInv DEF CloseInv
<1>1. QNew.items = <<>> /\ Len(<<>>) = 0
  BY DEF QNew
<1>2. CloserInv /\ ClosersWait
  BY DEF Init, CloserInv, ClosersWait, NoClose
<1>3. EndedIsEmpty /\ UnbornAreEmpty /\ StayedAreJoined
  BY <1>1 DEF Init, EndedIsEmpty, UnbornAreEmpty, StayedAreJoined
<1>4. \A s \in InitialSinks : s \in Sinks /\ Offered(s) = 0
  <2>1. dispState = "get" /\ sent = 0 /\ Len(incoming.items) = 0
    BY <1>1 DEF Init
  <2> QED BY <2>1, SourceAssumption DEF Offered
<1>5. DefaultGotAll /\ StayedGotLast /\ \A s \in InitialSinks : sinkState[s] # "unborn"
  BY <1>1, <1>4 DEF Init, DefaultGotAll, StayedGotLast
<1> QED BY <1>2, <1>3, <1>5 DEF WindDownInv, LedgerInv

\* A source that was only closed gracefully has lost nothing once every close() that was
\* called has returned: each sink that stayed read and confirmed all it was to get.
THEOREM GracefulCloseIsLossless == Spec => []GracefulCloseLosesNothing
<1>1. CloseInv /\ [Next]_vars => CloseInv'
  BY NextOrderInv, NextCloserInv, NextWindDownInv, NextLedgerInv DEF CloseInv, OrderInv
<1>2. CloseInv => GracefulCloseLosesNothing
  <2> SUFFICES ASSUME CloseInv, ~forced, NEW c \in Closers, closing[c].phase = "done",
                      \A d \in Closers : closing[d].phase \in {"idle", "done"}
               PROVE  AllConfirmed
    BY DEF GracefulCloseLosesNothing
  <2>1. /\ dispState = "done" /\ incoming.items = <<>>
        /\ \A d \in Closers : closing[d].joining = {}
    BY DEF CloseInv, WindDownInv, ClosersWait, EndedIsEmpty
  <2>2. ASSUME NEW s \in Sinks \ quit PROVE sinkQ[s].items = <<>> /\ held[s] = 0
    <3>1. sinkState[s] \in {"unborn", "closed"}
      BY DEF CloseInv, CloserInv, OrderInv, CountInv, TypeOK, DispatchPosition,
             AttachedAreOpen
    <3>2. CASE sinkState[s] = "unborn"
      BY <3>2 DEF CloseInv, WindDownInv, UnbornAreEmpty
    <3>3. CASE sinkState[s] = "closed"
      <4>1. sinkQ[s].unfinished = 0
        BY <2>1, <3>3 DEF CloseInv, WindDownInv, StayedAreJoined
      <4>2. /\ sinkQ[s].unfinished = Len(sinkQ[s].items) + held[s]
            /\ held[s] \in Nat /\ Len(sinkQ[s].items) \in Nat
            /\ sinkQ[s].items \in Seq(Nat)
        BY SinkQueueFacts DEF CloseInv, OrderInv, QType
      <4> QED BY <4>1, <4>2
    <3> QED BY <3>1, <3>2, <3>3
  <2>3. \A s \in Sinks \ quit : delivered[s] # <<>> => Last(delivered[s]) = sent
    BY <2>1 DEF CloseInv, LedgerInv, StayedGotLast, Last
  <2>4. ASSUME NEW s \in Sinks \ quit, s \in InitialSinks
        PROVE  Len(delivered[s]) = sent
    <3>1. Offered(s) = sent
      BY <2>1 DEF Offered, CloseInv, OrderInv, CountInv, TypeOK
    <3> QED BY <2>4, <3>1 DEF CloseInv, LedgerInv, DefaultGotAll
  <2> QED BY <2>1, <2>2, <2>3, <2>4 DEF AllConfirmed
<1> QED BY <1>1, <1>2, InitCloseInv, PTL DEF Spec

-----------------------------------------------------------------------------
(* EventQueueSource implements Broadcast                                   *)

\* What the mapping needs beside CloseInv: nothing is accepted by a closed source, who
\* quit does not come back, and after a forced close nothing is delivered.
MappingInv ==
    /\ isClosed => incoming.down
    /\ forced => dispState \in {"killed", "done"} /\ isClosed
    /\ \A s \in quit : sinkState[s] = "closed"
    /\ dispState = "deliver" => dispEvent >= 1

LEMMA NextMappingInv == CloseInv /\ MappingInv /\ [Next]_vars => MappingInv'
<1> SUFFICES ASSUME CloseInv, MappingInv, [Next]_vars PROVE MappingInv'
  OBVIOUS
<1>0. /\ CountInv /\ BacklogIsLatest /\ incoming \in QType(Nat)
      /\ sinkState \in [Sinks -> {"unborn", "open", "closed"}]
      /\ quit \subseteq Sinks /\ forced \in BOOLEAN /\ isClosed \in BOOLEAN
      /\ sent \in Nat /\ Len(incoming.items) \in Nat /\ incoming.items \in Seq(Nat)
  BY IncomingFacts DEF CloseInv, OrderInv, DispatchPosition, CountInv, TypeOK, QType
\* Steps that leave the flags, the dispatcher and those who quit alone.
<1>1. ASSUME UNCHANGED <<isClosed, forced, dispState, dispEvent>>,
             incoming.down => incoming'.down,
             \A s \in quit' : sinkState'[s] = "closed"
      PROVE  MappingInv'
  BY <1>1 DEF MappingInv
<1>2. ASSUME NEW s \in Sinks, NEW immediate \in BOOLEAN, ShutSink(s, immediate),
             quit' \in {quit, quit \cup {s}}
      PROVE  \A t \in quit' : sinkState'[t] = "closed"
  BY <1>0, <1>2 DEF ShutSink, MappingInv
<1>3. UNCHANGED <<quit, sinkState>> => \A t \in quit' : sinkState'[t] = "closed"
  BY DEF MappingInv
<1>4. CASE EnqueueEvent
  BY <1>1, <1>3, <1>4 DEF EnqueueEvent, QPut, dispVars, sinkVars
<1>5. ASSUME NEW s \in Sinks, Tap(s) PROVE MappingInv'
  <2>1. \A t \in quit' : sinkState'[t] = "closed"
    BY <1>0, <1>5 DEF Tap, MappingInv
  <2> QED BY <1>1, <1>5, <2>1 DEF Tap, dispVars
<1>6. ASSUME NEW s \in Sinks, DequeueEvent(s) \/ TaskDone(s) PROVE MappingInv'
  BY <1>1, <1>3, <1>6 DEF DequeueEvent, TaskDone, dispVars
<1>7. ASSUME NEW s \in Sinks, NEW immediate \in BOOLEAN, ReaderCloses(s, immediate)
      PROVE  MappingInv'
  BY <1>1, <1>2, <1>7 DEF ReaderCloses, dispVars
<1>8. CASE DispatchGet
  <2>1. dispEvent' >= 1
    <3>1. /\ 1 \in 1 .. Len(incoming.items) /\ Len(incoming.items) <= sent
          /\ dispEvent' = incoming.items[1]
      BY <1>0, <1>8 DEF DispatchGet, QCanGet, BacklogIsLatest
    <3>2. incoming.items[1] = sent - Len(incoming.items) + 1
      BY <1>0, <3>1 DEF BacklogIsLatest
    <3> QED BY <1>0, <3>1, <3>2
  <2>2. incoming'.down = incoming.down
    BY <1>0, <1>8, QGetType DEF DispatchGet
  <2> QED BY <1>3, <1>8, <2>1, <2>2 DEF DispatchGet, sinkVars, MappingInv
<1>9. ASSUME NEW s \in Sinks, Deliver(s) PROVE MappingInv'
  <2>1. \A t \in quit' : sinkState'[t] = "closed"
    BY <1>2, <1>3, <1>9 DEF Deliver, DeliverSkip, DeliverEvict, DeliverPut, sinkVars
  <2> QED BY <1>1, <1>9, <2>1 DEF Deliver
<1>10. CASE DispatchDone
  <2>1. incoming'.down = incoming.down
    BY <1>0, <1>10 DEF DispatchDone, QDone, QType
  <2> QED BY <1>3, <1>10, <2>1 DEF DispatchDone, sinkVars, MappingInv
<1>11. CASE DispatchStop \/ CancelledDone
  BY <1>3, <1>11 DEF DispatchStop, CancelledDone, sinkVars, MappingInv
<1>12. CASE DispatcherCancelled
  <2>1. incoming'.down
    BY <1>12 DEF DispatcherCancelled, QShutdown
  <2> QED BY <1>3, <1>12, <2>1 DEF DispatcherCancelled, sinkVars, MappingInv
<1>13. ASSUME NEW s \in Sinks, CancelledClosesSink(s) PROVE MappingInv'
  <2>1. \A t \in quit' : sinkState'[t] = "closed"
    BY <1>2, <1>13 DEF CancelledClosesSink
  <2> QED BY <1>13, <2>1 DEF CancelledClosesSink, MappingInv
<1>14. ASSUME NEW c \in Closers, NEW immediate \in BOOLEAN, Close(c, immediate)
       PROVE  MappingInv'
  <2>1. incoming'.down /\ isClosed'
    BY <1>0, <1>14 DEF Close, QShutdown, QType
  <2>2. forced' => forced \/ dispState' = "done"
    BY <1>14 DEF Close, CancelDispatcher
  <2>3. /\ dispState' \in {dispState, "done"}
        /\ dispState' = "deliver" => dispEvent' = dispEvent
    BY <1>14 DEF Close, CancelDispatcher, dispVars
  <2> QED BY <1>3, <1>14, <2>1, <2>2, <2>3 DEF Close, sinkVars, MappingInv
<1>15. ASSUME NEW c \in Closers, JoinIncoming(c) PROVE MappingInv'
  BY <1>3, <1>15 DEF JoinIncoming, CancelDispatcher, sinkVars, MappingInv
<1>16. ASSUME NEW c \in Closers, NEW s \in Sinks, CloseSink(c, s) PROVE MappingInv'
  <2>1. closing[c].immediate \in BOOLEAN /\ ShutSink(s, closing[c].immediate)
    BY <1>0, <1>16 DEF CloseSink, CountInv, TypeOK
  <2>2. \A t \in quit' : sinkState'[t] = "closed"
    BY <1>2, <1>16, <2>1 DEF CloseSink
  <2> QED BY <1>1, <1>16, <2>2 DEF CloseSink, dispVars
<1>17. ASSUME NEW c \in Closers, NEW s \in Sinks, SinkJoined(c, s) PROVE MappingInv'
  BY <1>1, <1>3, <1>17 DEF SinkJoined, dispVars, sinkVars
<1>18. ASSUME NEW c \in Closers, CloseReturns(c) PROVE MappingInv'
  BY <1>1, <1>3, <1>18 DEF CloseReturns, dispVars, sinkVars
<1>19. CASE UNCHANGED vars
  BY <1>1, <1>3, <1>19 DEF vars
<1> QED
  BY <1>4, <1>5, <1>6, <1>7, <1>8, <1>9, <1>10, <1>11, <1>12, <1>13, <1>14, <1>15,
     <1>16, <1>17, <1>18, <1>19
  DEF Next, DispatcherNext, CloserNext

OpenSinks == {s \in Sinks : sinkState[s] = "open"}

LEMMA InitMaps == Init => Abstract!Start
BY SourceAssumption DEF Init, Abstract!Start

\* An event put into a sink is the next one for its reader.
LEMMA PutGivesNext ==
    ASSUME CloseInv, MappingInv, NEW s \in Sinks, Deliver(s), DeliverPut(s)
    PROVE  Abstract!Give(s)
<1>1. /\ dispState = "deliver" /\ s \in dispPending /\ sinkState[s] = "open"
      /\ delivered' = [delivered EXCEPT ![s] = Append(@, dispEvent)]
      /\ UNCHANGED <<sent, isClosed, sinkState, quit>>
  BY DEF Deliver, DeliverPut
<1>2. /\ sent \in Nat /\ dispEvent \in Nat /\ Len(incoming.items) \in Nat
      /\ dispEvent = sent - Len(incoming.items) /\ Offered(s) = dispEvent - 1
      /\ dispEvent \in 1 .. sent
  BY <1>1, IncomingFacts
     DEF CloseInv, OrderInv, CountInv, TypeOK, DispatchPosition, OpenSinksHaveOffered,
         Offered, MappingInv
<1>3. ~forced /\ s \notin quit
  BY <1>1 DEF MappingInv
<1>4. CASE delivered[s] = <<>>
  <2>1. ASSUME s \in InitialSinks PROVE dispEvent = 1
    BY <1>2, <1>3, <1>4, <2>1 DEF CloseInv, LedgerInv, DefaultGotAll
  <2>2. Abstract!NextFor(s, dispEvent)
    BY <1>2, <1>4, <2>1 DEF Abstract!NextFor
  <2> QED BY <1>1, <1>2, <2>2 DEF Abstract!Give
<1>5. CASE delivered[s] # <<>>
  <2>1. delivered[s][Len(delivered[s])] = dispEvent - 1
    BY <1>1, <1>2, <1>5 DEF CloseInv, OrderInv, DispatchPosition, OpenSinksHaveOffered
  <2>2. Abstract!NextFor(s, dispEvent)
    BY <1>2, <1>5, <2>1 DEF Abstract!NextFor
  <2> QED BY <1>1, <1>2, <2>2 DEF Abstract!Give
<1> QED BY <1>4, <1>5

\* A sink that a graceful close closes has been given the last event.
LEMMA GracefulCloseReleases ==
    ASSUME CloseInv, MappingInv, NEW c \in Closers, closing[c].phase = "sinks", ~forced,
           NEW s \in Sinks, sinkState[s] = "open"
    PROVE  isClosed /\ Abstract!UpToDate(s)
<1>1. isClosed /\ dispState = "done" /\ incoming.items = <<>> /\ s \notin quit
  BY DEF CloseInv, CloserInv, WindDownInv, ClosersWait, EndedIsEmpty, MappingInv
<1>2. CASE delivered[s] # <<>>
  BY <1>1, <1>2 DEF CloseInv, LedgerInv, StayedGotLast, Abstract!UpToDate
<1>3. CASE delivered[s] = <<>>
  <2>1. ASSUME s \in InitialSinks PROVE sent = 0
    <3>1. Offered(s) = sent /\ sent \in Nat
      BY <1>1 DEF Offered, CloseInv, OrderInv, CountInv, TypeOK
    <3> QED BY <1>1, <1>3, <2>1, <3>1 DEF CloseInv, LedgerInv, DefaultGotAll
  <2> QED BY <1>1, <1>3, <2>1 DEF Abstract!UpToDate
<1> QED BY <1>1, <1>2, <1>3

\* Every step of the queue is a step of the broadcast or invisible to it.
LEMMA NextMaps ==
    CloseInv /\ MappingInv /\ [Next]_vars => [Abstract!BNext]_(Abstract!bvars)
<1> SUFFICES ASSUME CloseInv, MappingInv, [Next]_vars
             PROVE  Abstract!BNext \/ UNCHANGED Abstract!bvars
  OBVIOUS
<1>0. /\ CountInv /\ AttachedAreOpen /\ isClosed \in BOOLEAN
      /\ sinkState \in [Sinks -> {"unborn", "open", "closed"}]
  BY DEF CloseInv, OrderInv, DispatchPosition, CountInv, TypeOK
<1>1. UNCHANGED <<sent, isClosed, sinkState, quit, delivered>>
        => UNCHANGED Abstract!bvars
  BY DEF Abstract!bvars
<1>2. ASSUME NEW s \in Sinks, NEW immediate \in BOOLEAN, ShutSink(s, immediate)
      PROVE  {t \in Sinks : sinkState'[t] = "open"} = OpenSinks \ {s}
  BY <1>0, <1>2 DEF ShutSink, OpenSinks
<1>3. ASSUME NEW s \in Sinks, NEW immediate \in BOOLEAN, ShutSink(s, immediate),
             quit' = quit \cup {s}, UNCHANGED <<sent, isClosed, delivered>>
      PROVE  Abstract!Leave(s)
  BY <1>2, <1>3 DEF Abstract!Leave, OpenSinks
<1>4. ASSUME isClosed' = TRUE, UNCHANGED <<sent, sinkState, quit, delivered>>
      PROVE  Abstract!Shut
  BY <1>4 DEF Abstract!Shut
<1>5. CASE EnqueueEvent
  BY <1>5 DEF EnqueueEvent, QCanPut, sinkVars, MappingInv, Abstract!BNext, Abstract!Publish
<1>6. ASSUME NEW s \in Sinks, Tap(s) PROVE Abstract!BNext
  <2>1. /\ ~isClosed /\ delivered[s] = <<>>
        /\ {t \in Sinks : sinkState'[t] = "open"} = OpenSinks \cup {s}
        /\ UNCHANGED <<sent, isClosed, quit, delivered>>
    BY <1>0, <1>6 DEF Tap, AttachedAreOpen, OpenSinks
  <2> QED BY <2>1 DEF Abstract!BNext, Abstract!Attach, OpenSinks
<1>7. ASSUME NEW s \in Sinks, DequeueEvent(s) \/ TaskDone(s)
      PROVE  UNCHANGED Abstract!bvars
  BY <1>1, <1>7 DEF DequeueEvent, TaskDone
<1>8. ASSUME NEW s \in Sinks, NEW immediate \in BOOLEAN, ReaderCloses(s, immediate)
      PROVE  Abstract!BNext
  BY <1>3, <1>8 DEF ReaderCloses, Abstract!BNext
<1>9. CASE DispatchGet \/ DispatchDone \/ DispatchStop \/ CancelledDone
  BY <1>1, <1>9 DEF DispatchGet, DispatchDone, DispatchStop, CancelledDone, sinkVars
<1>10. ASSUME NEW s \in Sinks, Deliver(s)
       PROVE  Abstract!BNext \/ UNCHANGED Abstract!bvars
  <2>1. CASE DeliverSkip(s)
    BY <1>1, <1>10, <2>1 DEF Deliver, DeliverSkip, sinkVars
  <2>2. CASE DeliverEvict(s)
    BY <1>3, <1>10, <2>2 DEF Deliver, DeliverEvict, Abstract!BNext
  <2>3. CASE DeliverPut(s)
    BY <1>10, <2>3, PutGivesNext DEF Abstract!BNext
  <2> QED BY <1>10, <2>1, <2>2, <2>3 DEF Deliver
<1>11. ASSUME NEW s \in Sinks, CancelledClosesSink(s) PROVE Abstract!BNext
  BY <1>3, <1>11 DEF CancelledClosesSink, Abstract!BNext
<1>12. CASE DispatcherCancelled
  BY <1>4, <1>12 DEF DispatcherCancelled, sinkVars, Abstract!BNext
<1>13. ASSUME NEW c \in Closers, NEW immediate \in BOOLEAN, Close(c, immediate)
       PROVE  Abstract!BNext
  BY <1>4, <1>13 DEF Close, sinkVars, Abstract!BNext
<1>14. ASSUME NEW c \in Closers, JoinIncoming(c) \/ CloseReturns(c)
       PROVE  UNCHANGED Abstract!bvars
  BY <1>1, <1>14 DEF JoinIncoming, CloseReturns, sinkVars
<1>15. ASSUME NEW c \in Closers, NEW s \in Sinks, SinkJoined(c, s)
       PROVE  UNCHANGED Abstract!bvars
  BY <1>1, <1>15 DEF SinkJoined, sinkVars
<1>16. ASSUME NEW c \in Closers, NEW s \in Sinks, CloseSink(c, s)
       PROVE  Abstract!BNext \/ UNCHANGED Abstract!bvars
  <2>1. /\ closing[c].immediate \in BOOLEAN /\ ShutSink(s, closing[c].immediate)
        /\ closing[c].phase = "sinks"
        /\ UNCHANGED <<sent, isClosed, delivered>>
    BY <1>0, <1>16 DEF CloseSink, CountInv, TypeOK
  <2>2. CASE closing[c].immediate \/ forced
    <3>1. quit' = quit \cup {s}
      BY <1>16, <2>2 DEF CloseSink
    <3> QED BY <1>3, <2>1, <3>1 DEF Abstract!BNext
  <2>3. CASE ~(closing[c].immediate \/ forced)
    <3>1. quit' = quit /\ ~forced
      BY <1>16, <2>3 DEF CloseSink
    <3>2. {t \in Sinks : sinkState'[t] = "open"} = OpenSinks \ {s}
      BY <1>2, <2>1
    <3>3. CASE sinkState[s] = "open"
      <4>1. isClosed /\ Abstract!UpToDate(s)
        BY <2>1, <3>1, <3>3, GracefulCloseReleases
      <4> QED BY <2>1, <3>1, <3>2, <3>3, <4>1
              DEF Abstract!BNext, Abstract!Release, OpenSinks
    <3>4. CASE sinkState[s] # "open"
      <4>1. {t \in Sinks : sinkState'[t] = "open"} = {t \in Sinks : sinkState[t] = "open"}
        BY <3>2, <3>4 DEF OpenSinks
      <4> QED BY <2>1, <3>1, <4>1 DEF Abstract!bvars
    <3> QED BY <3>3, <3>4
  <2> QED BY <2>2, <2>3
<1>17. CASE UNCHANGED vars
  BY <1>1, <1>17 DEF vars
<1> QED
  BY <1>5, <1>6, <1>7, <1>8, <1>9, <1>10, <1>11, <1>12, <1>13, <1>14, <1>15, <1>16,
     <1>17
  DEF Next, DispatcherNext, CloserNext

\* The event queue implements the abstract broadcast.
THEOREM Implements == Spec => ImplementsBroadcast
<1>1. Init => CloseInv /\ MappingInv
  BY InitCloseInv DEF Init, MappingInv
<1>2. CloseInv /\ MappingInv /\ [Next]_vars => (CloseInv /\ MappingInv)'
  BY NextMappingInv, NextOrderInv, NextCloserInv, NextWindDownInv, NextLedgerInv
     DEF CloseInv, OrderInv
<1> QED BY <1>1, <1>2, InitMaps, NextMaps, PTL DEF Spec, ImplementsBroadcast, Abstract!BSpec

=============================================================================
