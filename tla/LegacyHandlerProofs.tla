------------------------ MODULE LegacyHandlerProofs ------------------------
(***************************************************************************)
(* Proofs about LegacyHandler, for any requests, resubscribers and cancels *)
(* and any number of events.                                               *)
(***************************************************************************)
EXTENDS LegacyHandler, SequenceTheorems, WellFoundedInduction, TLAPS

-----------------------------------------------------------------------------
(* What holds of a request that is alone with the task                     *)

\* A consumer that has an event to apply or to save holds it; it is not a Message.
Handed ==
    \A o \in Owners : cons[o] \in {"apply", "save"} => hand[o] \in Event /\ hand[o].kind # "message"

TypeInv == TypeOK /\ Handed

\* The events of an agent are numbered as it put them.
NumberedInv == \A r \in Reqs : \A n \in 1..Len(put[r]) : put[r][n].no = n /\ put[r][n].by = r

\* Nothing of a request is there before its call has entered.
Fresh(r) ==
    /\ prod[r] = "none" /\ cons[r] = "none" /\ tidy[r] = "none" /\ ~failure[r]
    /\ put[r] = <<>> /\ seen[r] = <<>> /\ queue[r] = <<>> /\ ~closed[r] /\ kids[r] = {}
    /\ entry # r /\ r \notin lost
    /\ \A p \in Owners : r \notin kids[p]

FreshInv == \A r \in Reqs : call[r] \in {"absent", "idle", "refused", "looked"} => Fresh(r)

Apart(r) ==
    \A p \in Owners \ {r} : /\ \A i \in 1..Len(queue[p]) : queue[p][i].by # r
                            /\ cons[p] \in {"apply", "save"} => hand[p].by # r

\* While a request that is alone goes on, nobody else does and its queue is the only one; its
\* events are in no other queue and in nobody else's hand.
AloneInv ==
    \A r \in Reqs : Alone(r) =>
        /\ Active(r) => /\ Others(r) = {} /\ kids[r] = {} /\ entry \in {r, Nobody}
                        /\ \A p \in Owners : r \notin kids[p]
        /\ call[r] = "looked" => entry = Nobody /\ cache[r] = row
        /\ Apart(r)

\* None of the first k events of s is final.
NoEnd(s, k) == \A n \in 1..k : s[n].kind \notin Final

\* q is s without its first k events.
IsRest(q, s, k) ==
    /\ k \in 0..Len(s) /\ Len(q) = Len(s) - k
    /\ \A i \in 1..Len(q) : q[i] = s[k + i]

\* Of r, log has the first k events of s without its messages, once and in order.
Written(log, r, s, k) ==
    /\ \A i \in 1..Len(log) : log[i].by = r =>
         log[i].no \in 1..k /\ log[i] = s[log[i].no] /\ log[i].kind # "message"
    /\ \A n \in 1..k : s[n].kind # "message" => \E i \in 1..Len(log) : log[i] = s[n]
    /\ \A i, j \in 1..Len(log) : log[i].by = r /\ log[j].by = r /\ i < j => log[i].no < log[j].no

\* Everything of r that is to be told is written, for everybody who goes on with the task.
Kept(r) ==
    LET told == Len(UpToFinal(put[r]))
    IN /\ Written(row.log, r, put[r], told)
       /\ \A p \in Owners \ {r} :
            /\ Active(p) /\ cache[p] # NoTask => Written(cache[p].log, r, put[r], told)
            /\ cons[p] = "save" => Written(obj[p].log, r, put[r], told)

\* The consumer waits for the next event: those before it have been written.
Waiting(r) ==
    LET k == Len(put[r]) - Len(queue[r])
    IN /\ IsRest(queue[r], put[r], k) /\ NoEnd(put[r], k)
       /\ Written(row.log, r, put[r], k) /\ cache[r] = row

\* The consumer has an event in its hand: those before it have been written.
Applying(r) ==
    LET n == hand[r].no
    IN /\ n \in 1..Len(put[r]) /\ hand[r] = put[r][n] /\ NoEnd(put[r], n - 1)
       /\ hand[r].kind \notin Final => IsRest(queue[r], put[r], n)
       /\ hand[r].kind \in Final => closed[r]
       /\ Written(row.log, r, put[r], n - 1)
       /\ cons[r] = "apply" => cache[r] = row
       /\ cons[r] = "save" => cache[r] = obj[r] /\ Written(obj[r].log, r, put[r], n)

\* How the events of r go through its consumer.
Flow(r) ==
    /\ failure[r] => prod[r] = "raised"
    /\ cons[r] = "none" => prod[r] = "none"
    /\ call[r] = "waits" => r \notin lost /\ cons[r] \in {"pull", "apply", "save"}
    /\ r \notin lost /\ cons[r] = "pull" => Waiting(r)
    /\ r \notin lost /\ cons[r] \in {"apply", "save"} => Applying(r)
    /\ r \notin lost /\ cons[r] = "over" /\ prod[r] # "raised" => closed[r]
    /\ r \notin lost /\ cons[r] \in {"none", "over"} /\ prod[r] # "raised" => Kept(r)

FlowInv == \A r \in Reqs : Alone(r) => Flow(r)

\* A stream has yielded what its consumer has written.
Streamed(r) ==
    /\ call[r] # "cleans"
    /\ Len(seen[r]) <= Len(put[r])
    /\ \A i \in 1..Len(seen[r]) : seen[r][i] = put[r][i]
    /\ NoEnd(put[r], Len(seen[r]) - 1)
    /\ call[r] = "waits" /\ cons[r] = "pull" => Len(seen[r]) = Len(put[r]) - Len(queue[r])
    /\ call[r] = "waits" /\ cons[r] \in {"apply", "save"} => Len(seen[r]) = hand[r].no - 1
    /\ call[r] = "answered" /\ prod[r] # "raised" =>
         closed[r] /\ Len(seen[r]) = Len(UpToFinal(put[r]))

SeenInv == \A r \in Reqs : Alone(r) /\ mode[r] = "stream" => Streamed(r)

IInv == TypeInv /\ NumberedInv /\ FreshInv /\ AloneInv /\ FlowInv /\ SeenInv

-----------------------------------------------------------------------------
(* What is written and what is told                                        *)

\* Up to its first final event a sequence is told; without one, all of it.
LEMMA ToldUpTo ==
    ASSUME NEW s \in Seq(Event), NEW k \in 0..Len(s), NoEnd(s, k - 1),
           (k = Len(s) \/ (k >= 1 /\ s[k].kind \in Final))
    PROVE  UpToFinal(s) = SubSeq(s, 1, k) /\ Len(UpToFinal(s)) = k
<1> DEFINE ends == {i \in 1..Len(s) : s[i].kind \in Final}
           n == SelectInSeq(s, LAMBDA e : e.kind \in Final)
<1>1. n = IF ends # {} THEN CHOOSE x \in ends : \A y \in ends : x <= y ELSE 0
  BY DEF SelectInSeq, Min
<1>2. UpToFinal(s) = IF n = 0 THEN s ELSE SubSeq(s, 1, n)
  BY DEF UpToFinal
<1> HIDE DEF n
<1>3. \A i \in 1..Len(s) : i <= k - 1 => s[i].kind \notin Final
  BY DEF NoEnd
<1>4. CASE ends = {}
  <2>1. k = Len(s)
    BY <1>4
  <2>2. SubSeq(s, 1, Len(s)) = s
    BY SubSeqFull
  <2> QED BY <1>1, <1>2, <1>4, <2>1, <2>2
<1>5. CASE ends # {}
  <2>1. PICK m \in ends : TRUE
    BY <1>5
  <2>2. m >= k
    BY <1>3, <2>1
  <2>3. k \in ends
    BY <2>1, <2>2
  <2>4. \A y \in ends : k <= y
    BY <1>3
  <2>5. \A x \in ends : (\A y \in ends : x <= y) => x = k
    BY <2>3, <2>4
  <2>6. (CHOOSE x \in ends : \A y \in ends : x <= y) = k
    BY <2>3, <2>4, <2>5
  <2>7. n = k /\ k >= 1 /\ k <= Len(s)
    BY <1>1, <1>5, <2>3, <2>6
  <2>8. Len(SubSeq(s, 1, k)) = k
    BY <2>7
  <2> QED BY <1>2, <2>7, <2>8
<1> QED BY <1>4, <1>5

\* What is told is the beginning of what was put, and all before its last event is not final.
LEMMA ToldIsPrefix ==
    ASSUME NEW s \in Seq(Event)
    PROVE  \E k \in 0..Len(s) : /\ UpToFinal(s) = SubSeq(s, 1, k) /\ Len(UpToFinal(s)) = k
                                /\ NoEnd(s, k - 1)
                                /\ k = Len(s) \/ (k >= 1 /\ s[k].kind \in Final)
<1> DEFINE ends == {i \in 1..Len(s) : s[i].kind \in Final}
<1>1. CASE ends = {}
  <2>1. NoEnd(s, Len(s) - 1)
    BY <1>1 DEF NoEnd
  <2>2. Len(s) \in 0..Len(s)
    OBVIOUS
  <2> QED BY <2>1, <2>2, ToldUpTo
<1>2. CASE ends # {}
  <2>1. ends \in SUBSET Nat /\ ends # {}
    BY <1>2
  <2>2. PICK k \in ends : \A m \in ends : k <= m
    <3>1. PICK k \in ends : \A m \in ends : <<m, k>> \notin OpToRel(<, Nat)
      BY <2>1, NatLessThanWellFounded, WFMin
    <3> HIDE DEF ends
    <3>2. \A m \in ends : ~(m < k)
      BY <2>1, <3>1 DEF OpToRel
    <3> QED BY <2>1, <3>2
  <2>3. k \in 0..Len(s) /\ k >= 1 /\ s[k].kind \in Final
    BY <2>2
  <2>4. NoEnd(s, k - 1)
    BY <2>2, <2>3 DEF NoEnd
  <2> QED BY <2>3, <2>4, ToldUpTo
<1> QED BY <1>1, <1>2

\* An event of somebody else changes nothing of what is written of r.
LEMMA WriteOthers ==
    ASSUME NEW log \in Seq(Event), NEW e \in Event, NEW r, NEW s, NEW k, e.by # r,
           Written(log, r, s, k)
    PROVE  Written(Append(log, e), r, s, k)
<1> DEFINE new == Append(log, e)
<1>1. Len(new) = Len(log) + 1 /\ Len(log) \in Nat /\ new[Len(log) + 1] = e
      /\ \A i \in 1..Len(log) : new[i] = log[i]
  OBVIOUS
<1>2. \A i \in 1..Len(new) : new[i].by = r => i \in 1..Len(log)
  BY <1>1
<1> HIDE DEF new
<1>3. \A i \in 1..Len(new) : new[i].by = r =>
         new[i].no \in 1..k /\ new[i] = s[new[i].no] /\ new[i].kind # "message"
  BY <1>1, <1>2 DEF Written
<1>4. ASSUME NEW n \in 1..k, s[n].kind # "message" PROVE \E i \in 1..Len(new) : new[i] = s[n]
  <2>1. PICK i \in 1..Len(log) : log[i] = s[n]
    BY <1>4 DEF Written
  <2> QED BY <1>1, <2>1
<1>5. \A i, j \in 1..Len(new) : new[i].by = r /\ new[j].by = r /\ i < j => new[i].no < new[j].no
  BY <1>1, <1>2 DEF Written
<1> QED BY <1>3, <1>4, <1>5 DEF Written, new

\* The next event of r.
LEMMA WriteNext ==
    ASSUME NEW log \in Seq(Event), NEW r, NEW s \in Seq(Event), NEW n \in 1..Len(s),
           s[n].by = r, s[n].no = n, s[n].kind # "message", Written(log, r, s, n - 1)
    PROVE  Written(Append(log, s[n]), r, s, n)
<1> DEFINE new == Append(log, s[n])
<1>1. Len(new) = Len(log) + 1 /\ Len(log) \in Nat /\ new[Len(log) + 1] = s[n]
      /\ \A i \in 1..Len(log) : new[i] = log[i]
  OBVIOUS
<1> HIDE DEF new
<1>2. ASSUME NEW i \in 1..Len(new), new[i].by = r
      PROVE  new[i].no \in 1..n /\ new[i] = s[new[i].no] /\ new[i].kind # "message"
  <2>1. CASE i \in 1..Len(log)
    BY <1>1, <1>2, <2>1 DEF Written
  <2>2. CASE i = Len(log) + 1
    BY <1>1, <2>2
  <2> QED BY <1>1, <2>1, <2>2
<1>3. ASSUME NEW m \in 1..n, s[m].kind # "message" PROVE \E i \in 1..Len(new) : new[i] = s[m]
  <2>1. CASE m = n
    BY <1>1, <2>1
  <2>2. CASE m \in 1..(n - 1)
    <3>1. PICK i \in 1..Len(log) : log[i] = s[m]
      BY <1>3, <2>2 DEF Written
    <3> QED BY <1>1, <3>1
  <2> QED BY <2>1, <2>2
<1>4. ASSUME NEW i \in 1..Len(new), NEW j \in 1..Len(new), new[i].by = r, new[j].by = r, i < j
      PROVE  new[i].no < new[j].no
  <2>1. i \in 1..Len(log)
    BY <1>1, <1>4
  <2>2. CASE j \in 1..Len(log)
    BY <1>1, <1>4, <2>1, <2>2 DEF Written
  <2>3. CASE j = Len(log) + 1
    <3>1. new[i].no \in 1..(n - 1)
      BY <1>1, <1>4, <2>1 DEF Written
    <3> QED BY <1>1, <2>3, <3>1
  <2> QED BY <1>1, <2>2, <2>3
<1> QED BY <1>2, <1>3, <1>4 DEF Written, new

\* A Message is told and not written.
LEMMA WriteMessage ==
    ASSUME NEW log, NEW r, NEW s, NEW n \in Nat \ {0}, s[n].kind = "message",
           Written(log, r, s, n - 1)
    PROVE  Written(log, r, s, n)
BY DEF Written

\* What follows in s changes nothing of what is written of its beginning.
LEMMA WriteLater ==
    ASSUME NEW log, NEW r, NEW s \in Seq(Event), NEW e \in Event, NEW k \in 0..Len(s),
           Written(log, r, s, k)
    PROVE  Written(log, r, Append(s, e), k)
<1>1. \A n \in 1..k : Append(s, e)[n] = s[n]
  OBVIOUS
<1> QED BY <1>1 DEF Written

\* The first event of the rest.
LEMMA TakeRest ==
    ASSUME NEW s \in Seq(Event), NEW q \in Seq(Event), NEW k, IsRest(q, s, k), q # <<>>
    PROVE  k + 1 \in 1..Len(s) /\ Head(q) = s[k + 1] /\ IsRest(Tail(q), s, k + 1)
<1>1. Len(q) >= 1 /\ Head(q) = q[1] /\ Len(Tail(q)) = Len(q) - 1
      /\ \A i \in 1..Len(Tail(q)) : Tail(q)[i] = q[i + 1]
  OBVIOUS
<1>2. k + 1 \in 1..Len(s) /\ q[1] = s[k + 1]
  BY <1>1 DEF IsRest
<1>3. \A i \in 1..Len(Tail(q)) : Tail(q)[i] = s[k + 1 + i]
  BY <1>1 DEF IsRest
<1> QED BY <1>1, <1>2, <1>3 DEF IsRest

\* An event that is put while the queue is open is the last of the rest.
LEMMA PutRest ==
    ASSUME NEW s \in Seq(Event), NEW q \in Seq(Event), NEW k, NEW e \in Event, IsRest(q, s, k)
    PROVE  IsRest(Append(q, e), Append(s, e), k)
<1> DEFINE qe == Append(q, e)
           se == Append(s, e)
<1>1. /\ Len(qe) = Len(q) + 1
      /\ Len(se) = Len(s) + 1
      /\ qe[Len(q) + 1] = e
      /\ se[Len(s) + 1] = e
      /\ \A i \in 1..Len(q) : qe[i] = q[i]
      /\ \A i \in 1..Len(s) : se[i] = s[i]
  OBVIOUS
<1> HIDE DEF qe, se
<1>2. k \in 0..Len(s) /\ Len(q) = Len(s) - k
  BY DEF IsRest
<1>3. ASSUME NEW i \in 1..(Len(q) + 1) PROVE qe[i] = se[k + i]
  <2>1. CASE i \in 1..Len(q)
    <3>1. q[i] = s[k + i] /\ k + i \in 1..Len(s)
      BY <1>2, <2>1 DEF IsRest
    <3> QED BY <1>1, <2>1, <3>1
  <2>2. CASE i = Len(q) + 1
    BY <1>1, <1>2, <2>2
  <2> QED BY <2>1, <2>2
<1>4. IsRest(qe, se, k)
  BY <1>1, <1>2, <1>3 DEF IsRest
<1> QED BY <1>4 DEF qe, se

-----------------------------------------------------------------------------
(* Types                                                                   *)

CallStates == {"absent", "idle", "looked", "tapped", "waits", "cleans",
               "answered", "failed", "refused", "left"}
TidyStates == {"none", "await", "close", "done", "failed"}

\* What the operations of a queue do keeps its types.
LEMMA QueueTypes ==
    ASSUME TypeInv, NEW o \in Owners
    PROVE  /\ \A e \in Event : Enqueue(o, e) => queue' \in [Owners -> Seq(Event)]
           /\ \A j \in {"run", "tidy"} \X Reqs : Close(o, j) =>
                /\ closed' \in [Owners -> BOOLEAN]
                /\ joins' \in [{"run", "tidy"} \X Reqs -> SUBSET Owners]
                /\ UNCHANGED <<queue, kids>>
           /\ CloseNow(o) => /\ closed' \in [Owners -> BOOLEAN]
                             /\ queue' \in [Owners -> Seq(Event)] /\ UNCHANGED kids
           /\ entry # Nobody /\ Tap(o) => kids' \in [Owners -> SUBSET Owners]
<1>0. /\ queue \in [Owners -> Seq(Event)] /\ closed \in [Owners -> BOOLEAN]
      /\ kids \in [Owners -> SUBSET Owners]
      /\ joins \in [{"run", "tidy"} \X Reqs -> SUBSET Owners]
  BY DEF TypeInv, TypeOK
<1>1. \A e \in Event : Enqueue(o, e) => queue' \in [Owners -> Seq(Event)]
  BY <1>0 DEF Enqueue
<1>2. ASSUME NEW j \in {"run", "tidy"} \X Reqs, Close(o, j)
      PROVE  /\ closed' \in [Owners -> BOOLEAN]
             /\ joins' \in [{"run", "tidy"} \X Reqs -> SUBSET Owners]
             /\ UNCHANGED <<queue, kids>>
  <2>1. closed' = [p \in Owners |-> closed[p] \/ p \in Shuts(o)]
        /\ joins' = [joins EXCEPT ![j] = Shuts(o)] /\ UNCHANGED <<queue, kids>>
    BY <1>2 DEF Close
  <2>2. Shuts(o) \in SUBSET Owners
    BY <1>0 DEF Shuts, Tree
  <2>4. closed' \in [Owners -> BOOLEAN]
    <3>1. \A b, c : (b \/ c) \in BOOLEAN
      OBVIOUS
    <3> QED BY <2>1, <3>1
  <2>5. joins' \in [{"run", "tidy"} \X Reqs -> SUBSET Owners]
    BY <1>0, <2>1, <2>2
  <2> QED BY <2>1, <2>4, <2>5
<1>3. CloseNow(o) => /\ closed' \in [Owners -> BOOLEAN]
                     /\ queue' \in [Owners -> Seq(Event)] /\ UNCHANGED kids
  BY <1>0 DEF CloseNow
<1>4. ASSUME entry # Nobody, Tap(o) PROVE kids' \in [Owners -> SUBSET Owners]
  <2>1. entry \in Owners
    BY <1>4 DEF TypeInv, TypeOK, Owners
  <2>2. kids[entry] \cup {o} \in SUBSET Owners
    BY <1>0, <2>1
  <2>3. kids' = [kids EXCEPT ![entry] = kids[entry] \cup {o}]
    BY <1>4 DEF Tap
  <2> QED BY <1>0, <2>1, <2>2, <2>3
<1> QED BY <1>1, <1>2, <1>3, <1>4

\* So does the end of a reading.
LEMMA EndsTypes ==
    ASSUME TypeInv, NEW o \in Owners, NEW task, Ends(o, task)
    PROVE  call' \in [Owners -> CallStates] /\ tidy' \in [Reqs -> TidyStates]
<1>0. call \in [Owners -> CallStates] /\ tidy \in [Reqs -> TidyStates]
  BY DEF TypeInv, TypeOK, CallStates, TidyStates
<1> QED BY <1>0 DEF Ends, CallStates, TidyStates

\* What a party does with its call, its producer, its consumer or its clean-up.
Step(o) ==
    \/ Read(o) \/ Leave(o)
    \/ o \in Reqs /\ \/ Enter(o) \/ Return(o) \/ Returned(o) \/ Raise(o) \/ TakeFailure(o)
                     \/ TidyFails(o) \/ Tidy(o) \/ Tidied(o)
                     \/ \E kind \in Kinds : Emit(o, kind)
    \/ o \in Watchers /\ Watch(o)
    \/ o \in Cancels /\ (CancelTap(o) \/ CancelAgent(o))

\* Every step is somebody's.
LEMMA NextIsStep == Next => \E o \in Owners : Look(o) \/ Step(o)
BY DEF Next, Runs, Step, Owners

\* The types hold at the start.
LEMMA TypeOfInit == Init => TypeInv
<1> SUFFICES ASSUME Init PROVE TypeInv
  OBVIOUS
<1>1. NoTask \in Task /\ New \in Task
  BY DEF NoTask, New, Task
<1>2. call \in [Owners -> CallStates]
  BY DEF Init, CallStates
<1>3. /\ mode \in [Reqs -> Modes] /\ row \in Task
      /\ cache \in [Owners -> Task] /\ obj \in [Owners -> Task]
      /\ queue \in [Owners -> Seq(Event)]
      /\ closed \in [Owners -> BOOLEAN] /\ kids \in [Owners -> SUBSET Owners]
      /\ failure \in [Owners -> BOOLEAN]
      /\ entry \in Reqs \cup {Nobody} /\ running \in Reqs \cup {Nobody}
  BY <1>1 DEF Init
<1>4. /\ hand \in [Owners -> Event \cup {Nobody}] /\ \A o \in Owners : cons[o] = "none"
      /\ prod \in [Reqs -> {"none", "runs", "closing", "over", "raised", "cancelled"}]
      /\ cons \in [Owners -> {"none", "pull", "apply", "save", "over"}]
      /\ tidy \in [Reqs -> TidyStates]
      /\ joins \in [{"run", "tidy"} \X Reqs -> SUBSET Owners]
      /\ put \in [Reqs -> Seq(Event)] /\ seen \in [Owners -> Seq(Event)]
      /\ mixed \subseteq Owners /\ lost \subseteq Owners
  BY DEF Init, TidyStates
<1> QED BY <1>2, <1>3, <1>4 DEF TypeInv, TypeOK, Handed, CallStates, TidyStates


\* A step keeps the types.
LEMMA StepTypes ==
    ASSUME TypeInv, NEW o \in Owners, Step(o)
    PROVE  TypeInv'
<1>0. /\ NoTask \in Task /\ New \in Task
      /\ \A r \in Reqs : r \in Owners /\ <<"run", r>> \in {"run", "tidy"} \X Reqs
                         /\ <<"tidy", r>> \in {"run", "tidy"} \X Reqs
      /\ Owners = Reqs \cup Watchers \cup Cancels
  BY DEF NoTask, New, Task, Owners
<1>1. ASSUME Take(o) PROVE TypeInv'
  <2> DEFINE e == Head(queue[o])
  <2>1. /\ queue[o] \in Seq(Event) /\ queue[o] # <<>> /\ seen[o] \in Seq(Event)
        /\ queue \in [Owners -> Seq(Event)] /\ seen \in [Owners -> Seq(Event)]
        /\ closed \in [Owners -> BOOLEAN] /\ call \in [Owners -> CallStates]
        /\ tidy \in [Reqs -> TidyStates]
        /\ kids \in [Owners -> SUBSET Owners]
    BY <1>1 DEF Take, TypeInv, TypeOK, CallStates, TidyStates
  <2>2. e \in Event /\ Tail(queue[o]) \in Seq(Event)
    BY <2>1
  <2> HIDE DEF e
  <2>3. closed' \in [Owners -> BOOLEAN] /\ queue' \in [Owners -> Seq(Event)] /\ UNCHANGED kids
    BY <1>1, <2>1, <2>2, QueueTypes DEF Take, e
  <2>4. /\ seen' \in [Owners -> Seq(Event)] /\ call' \in [Owners -> CallStates]
        /\ tidy' \in [Reqs -> TidyStates]
    <3>1. CASE e.kind = "message"
      <4>1. Ends(o, cache[o])
        BY <1>1, <3>1 DEF Take, e
      <4>2. seen' = [seen EXCEPT ![o] = IF Streams(o) /\ call[o] = "waits" THEN Append(@, e) ELSE @]
        BY <1>1, <3>1 DEF Take, e
      <4>3. Append(seen[o], e) \in Seq(Event)
        BY <2>1, <2>2
      <4>4. seen' \in [Owners -> Seq(Event)]
        BY <2>1, <4>2, <4>3
      <4> QED BY <4>1, <4>4, EndsTypes
    <3>2. CASE e.kind # "message"
      BY <1>1, <2>1, <3>2 DEF Take, e
    <3> QED BY <3>1, <3>2
  <2>5. /\ hand' = [hand EXCEPT ![o] = e]
        /\ cons' = [cons EXCEPT ![o] = IF e.kind = "message" THEN "over" ELSE "apply"]
    BY <1>1 DEF Take, e
  <2>6. cons' \in [Owners -> {"none", "pull", "apply", "save", "over"}]
    BY <2>5 DEF TypeInv, TypeOK
  <2>8. hand' \in [Owners -> Event \cup {Nobody}]
    BY <2>2, <2>5 DEF TypeInv, TypeOK
  <2>9. Handed'
    <3> SUFFICES ASSUME NEW p \in Owners, cons'[p] \in {"apply", "save"}
                 PROVE  hand'[p] \in Event /\ hand'[p].kind # "message"
      BY DEF Handed
    <3>1. CASE p = o
      BY <2>2, <2>5, <3>1 DEF TypeInv, TypeOK
    <3>2. CASE p # o
      BY <2>5, <3>2 DEF TypeInv, TypeOK, Handed
    <3> QED BY <3>1, <3>2
  <2>7. UNCHANGED <<mode, row, cache, entry, running, prod, failure, obj, joins, put, mixed, lost>>
    BY <1>1 DEF Take, store, handler, agents
  <2> QED BY <2>3, <2>4, <2>6, <2>7, <2>8, <2>9 DEF TypeInv, TypeOK, CallStates, TidyStates
<1>2. ASSUME TakeEnd(o) PROVE TypeInv'
  BY <1>0, <1>2, EndsTypes DEF TakeEnd, CallStates, TidyStates,
     TypeInv, TypeOK, Handed, store, queues, handler, agents, history
<1>3. ASSUME Insert(o) PROVE TypeInv'
  BY <1>0, <1>3 DEF Insert, TypeInv, TypeOK, Handed, queues, handler, agents, reading, history
<1>4. ASSUME Change(o) PROVE TypeInv'
  <2> DEFINE old == IF cache[o] = NoTask THEN row ELSE cache[o]
             task == Apply(old, hand[o])
  <2>1. old \in Task /\ hand[o] \in Event /\ hand[o].kind # "message"
    BY <1>4 DEF Change, TypeInv, TypeOK, Handed
  <2>2. hand[o].kind \in {"none", "submitted", "working", "auth", "input"} \cup Terminal
    BY <2>1, LegacyAssumption DEF Event, Terminal
  <2>3. Append(old.log, hand[o]) \in Seq(Event)
    BY <2>1 DEF Task
  <2>4. task \in Task
    BY <2>2, <2>3 DEF Apply, Task
  <2>5. /\ obj' = [obj EXCEPT ![o] = task]
        /\ cache' = [cache EXCEPT ![o] = IF @ = NoTask THEN @ ELSE task]
        /\ cons[o] = "apply" /\ cons' = [cons EXCEPT ![o] = "save"]
        /\ UNCHANGED <<mode, row, queue, closed, kids, entry, running, prod, failure, hand, call,
                       tidy, joins, put, seen, mixed, lost>>
    BY <1>4 DEF Change, queues, handler, agents, history
  <2> HIDE DEF task
  <2>6. Handed'
    BY <2>1, <2>5 DEF TypeInv, TypeOK, Handed
  <2> QED BY <2>4, <2>5, <2>6 DEF TypeInv, TypeOK
<1>5. ASSUME Commit(o) PROVE TypeInv'
  <2>1. /\ row' = obj[o] /\ cache' = [cache EXCEPT ![o] = obj[o]]
        /\ obj' = [obj EXCEPT ![o] = NoTask]
        /\ hand' = [hand EXCEPT ![o] = Nobody]
        /\ seen' = [seen EXCEPT ![o] = IF Streams(o) /\ call[o] = "waits"
                                       THEN Append(@, hand[o]) ELSE @]
        /\ cons' = [cons EXCEPT ![o] = IF hand[o].kind \in Final THEN "over" ELSE "pull"]
        /\ UNCHANGED <<mode, queue, closed, kids, entry, running, prod, failure, joins, put, mixed,
                       lost>>
    BY <1>5 DEF Commit, queues, handler, agents
  <2>2. hand[o] \in Event
    BY <1>5 DEF Commit, TypeInv, Handed
  <2>3. seen' \in [Owners -> Seq(Event)]
    <3>1. seen \in [Owners -> Seq(Event)] /\ Append(seen[o], hand[o]) \in Seq(Event)
      BY <2>2 DEF TypeInv, TypeOK
    <3> QED BY <2>1, <3>1
  <2>4. call' \in [Owners -> CallStates] /\ tidy' \in [Reqs -> TidyStates]
    <3>0. call \in [Owners -> CallStates] /\ tidy \in [Reqs -> TidyStates]
      BY DEF TypeInv, TypeOK, CallStates, TidyStates
    <3>1. CASE Interrupts(o)
      BY <1>5, <3>0, <3>1 DEF Commit, CallStates, TidyStates
    <3>2. CASE ~Interrupts(o) /\ hand[o].kind \in Final
      BY <1>5, <3>2, EndsTypes DEF Commit
    <3>3. CASE ~Interrupts(o) /\ hand[o].kind \notin Final
      BY <1>5, <3>0, <3>3 DEF Commit
    <3> QED BY <3>1, <3>2, <3>3
  <2>5. /\ row' \in Task /\ cache' \in [Owners -> Task] /\ obj' \in [Owners -> Task]
        /\ cons' \in [Owners -> {"none", "pull", "apply", "save", "over"}]
        /\ hand' \in [Owners -> Event \cup {Nobody}]
        /\ Handed'
    BY <1>0, <2>1 DEF TypeInv, TypeOK, Handed
  <2> QED BY <2>1, <2>3, <2>4, <2>5 DEF TypeInv, TypeOK, CallStates, TidyStates
<1>6. ASSUME Leave(o) PROVE TypeInv'
  BY <1>0, <1>6 DEF Leave, TypeInv, TypeOK, Handed, store, queues, handler, agents
<1>7. ASSUME o \in Reqs, Enter(o) PROVE TypeInv'
  BY <1>0, <1>7, QueueTypes DEF Enter, TypeInv, TypeOK, Handed, store, history
<1>8. ASSUME o \in Reqs, Return(o) PROVE TypeInv'
  BY <1>0, <1>8, QueueTypes DEF Return, TypeInv, TypeOK, Handed, store, handler, reading, history
<1>9. ASSUME o \in Reqs, Returned(o) PROVE TypeInv'
  BY <1>0, <1>9 DEF Returned, TypeInv, TypeOK, Handed, store, queues, handler, reading, history
<1>10. ASSUME o \in Reqs, Raise(o) PROVE TypeInv'
  BY <1>0, <1>10 DEF Raise, TypeInv, TypeOK, Handed, store, queues, handler, reading, history
<1>11. ASSUME o \in Reqs, TakeFailure(o) PROVE TypeInv'
  BY <1>0, <1>11 DEF TakeFailure, TypeInv, TypeOK, Handed, store, queues, handler, agents, history
<1>12. ASSUME o \in Reqs, TidyFails(o) PROVE TypeInv'
  BY <1>0, <1>12 DEF TidyFails,
     TypeInv, TypeOK, Handed, store, queues, handler, agents, reading, history
<1>13. ASSUME o \in Reqs, Tidy(o) PROVE TypeInv'
  BY <1>0, <1>13, QueueTypes DEF Tidy, TypeInv, TypeOK, Handed, store, agents, reading, history
<1>14. ASSUME o \in Reqs, Tidied(o) PROVE TypeInv'
  BY <1>0, <1>14 DEF Tidied, TypeInv, TypeOK, Handed, store, queues, agents, reading, history
<1>15. ASSUME o \in Reqs, NEW kind \in Kinds, Emit(o, kind) PROVE TypeInv'
  <2> DEFINE e == [kind |-> kind, by |-> o, no |-> Len(put[o]) + 1]
  <2>1. put \in [Reqs -> Seq(Event)] /\ put[o] \in Seq(Event)
    BY <1>15 DEF TypeInv, TypeOK
  <2>2. e \in Event
    BY <1>0, <1>15, <2>1 DEF Event
  <2>3. /\ Enqueue(o, e)
        /\ put' = [put EXCEPT ![o] = IF closed[o] THEN @ ELSE Append(@, e)]
        /\ UNCHANGED <<mode, row, cache, closed, kids, entry, running, prod, failure, cons, hand, obj,
                       call, tidy, joins, seen, mixed, lost>>
    BY <1>15 DEF Emit, store, handler, agents, reading
  <2> HIDE DEF e
  <2>4. queue' \in [Owners -> Seq(Event)]
    BY <2>2, <2>3, QueueTypes
  <2>5. put' \in [Reqs -> Seq(Event)]
    <3>1. Append(put[o], e) \in Seq(Event)
      BY <2>1, <2>2
    <3> QED BY <2>1, <2>3, <3>1
  <2> QED BY <2>3, <2>4, <2>5 DEF TypeInv, TypeOK, Handed
<1>16. ASSUME o \in Watchers, Watch(o) PROVE TypeInv'
  <2>1. /\ UNCHANGED <<mode, row, cache, queue, closed, entry, running, prod, failure, hand, obj, tidy,
                       joins, put, seen, mixed, lost>>
        /\ call' = [call EXCEPT ![o] = IF entry = Nobody THEN "refused" ELSE "waits"]
        /\ cons' = IF entry = Nobody THEN cons ELSE [cons EXCEPT ![o] = "pull"]
    BY <1>16 DEF Watch, store, handler, agents, history
  <2>2. kids' \in [Owners -> SUBSET Owners]
    BY <1>16, QueueTypes DEF Watch, TypeInv, TypeOK
  <2> QED BY <2>1, <2>2 DEF TypeInv, TypeOK, Handed
<1>17. ASSUME o \in Cancels, CancelTap(o) PROVE TypeInv'
  BY <1>0, <1>17, QueueTypes DEF CancelTap,
     TypeInv, TypeOK, Handed, store, handler, agents, reading, history
<1>18. ASSUME o \in Cancels, CancelAgent(o) PROVE TypeInv'
  <2> DEFINE e == [kind |-> "canceled", by |-> o, no |-> 1]
  <2>1. e \in Event
    BY DEF Event
  <2>2. /\ Enqueue(o, e)
        /\ prod' = [r \in Reqs |-> IF r = running /\ prod[r] \in {"runs", "closing"}
                                   THEN "cancelled" ELSE prod[r]]
        /\ call' = [call EXCEPT ![o] = "waits"] /\ cons' = [cons EXCEPT ![o] = "pull"]
        /\ UNCHANGED <<mode, row, cache, closed, kids, entry, running, failure, hand, obj, tidy, joins,
                       put, seen, mixed, lost>>
    BY <1>18 DEF CancelAgent, store, handler, history
  <2> HIDE DEF e
  <2>3. queue' \in [Owners -> Seq(Event)]
    BY <2>1, <2>2, QueueTypes
  <2> QED BY <2>2, <2>3 DEF TypeInv, TypeOK, Handed
<1> QED
  BY <1>1, <1>2, <1>3, <1>4, <1>5, <1>6, <1>7, <1>8, <1>9, <1>10, <1>11, <1>12, <1>13, <1>14,
     <1>15, <1>16, <1>17, <1>18 DEF Step, Read

\* The beginning of a call keeps the types.
LEMMA LookTypes ==
    ASSUME TypeInv, NEW o \in Owners, Look(o)
    PROVE  TypeInv'
<1>1. NoTask \in Task
  BY DEF NoTask, Task
<1>2. Others(o) \in SUBSET Owners
  BY DEF Others
<1> QED
  BY <1>1, <1>2 DEF Look, TypeInv, TypeOK, Handed, queues, handler, agents, reading

\* So does a step that changes nothing.
LEMMA StutterTypes == TypeInv /\ UNCHANGED vars => TypeInv'
BY DEF vars, TypeInv, TypeOK, Handed, store, queues, handler, agents, reading, history

-----------------------------------------------------------------------------
(* What a step of somebody leaves alone                                    *)

\* Only who is active moves.
LEMMA StepMoves ==
    ASSUME TypeInv, NEW o \in Owners, Step(o)
    PROVE  Active(o)
<1>0. Reqs \subseteq Owners
  BY DEF Owners
<1> DEFINE Goal == Active(o)
<1>1. ASSUME Take(o) PROVE Goal
  BY <1>0, <1>1 DEF Goal, Take, Active
<1>2. ASSUME TakeEnd(o) PROVE Goal
  BY <1>0, <1>2 DEF Goal, TakeEnd, Active
<1>3. ASSUME Insert(o) PROVE Goal
  BY <1>0, <1>3 DEF Goal, Insert, Active
<1>4. ASSUME Change(o) PROVE Goal
  BY <1>0, <1>4 DEF Goal, Change, Active
<1>5. ASSUME Commit(o) PROVE Goal
  BY <1>0, <1>5 DEF Goal, Commit, Active, Interrupts
<1>6. ASSUME Leave(o) PROVE Goal
  BY <1>0, <1>6 DEF Goal, Leave, Active
<1>7. ASSUME o \in Reqs, Enter(o) PROVE Goal
  BY <1>0, <1>7 DEF Goal, Enter, Active
<1>8. ASSUME o \in Reqs, Return(o) PROVE Goal
  BY <1>0, <1>8 DEF Goal, Return, Active
<1>9. ASSUME o \in Reqs, Returned(o) PROVE Goal
  BY <1>0, <1>9 DEF Goal, Returned, Active
<1>10. ASSUME o \in Reqs, Raise(o) PROVE Goal
  BY <1>0, <1>10 DEF Goal, Raise, Active
<1>11. ASSUME o \in Reqs, TakeFailure(o) PROVE Goal
  BY <1>0, <1>11 DEF Goal, TakeFailure, Active
<1>12. ASSUME o \in Reqs, TidyFails(o) PROVE Goal
  BY <1>0, <1>12 DEF Goal, TidyFails, Active
<1>13. ASSUME o \in Reqs, Tidy(o) PROVE Goal
  BY <1>0, <1>13 DEF Goal, Tidy, Active
<1>14. ASSUME o \in Reqs, Tidied(o) PROVE Goal
  BY <1>0, <1>14 DEF Goal, Tidied, Active
<1>15. ASSUME o \in Reqs, NEW kind \in Kinds, Emit(o, kind) PROVE Goal
  BY <1>0, <1>15 DEF Goal, Emit, Active
<1>16. ASSUME o \in Watchers, Watch(o) PROVE Goal
  BY <1>0, <1>16 DEF Goal, Watch, Active
<1>17. ASSUME o \in Cancels, CancelTap(o) PROVE Goal
  BY <1>0, <1>17 DEF Goal, CancelTap, Active
<1>18. ASSUME o \in Cancels, CancelAgent(o) PROVE Goal
  BY <1>0, <1>18 DEF Goal, CancelAgent, Active
<1> QED
  BY <1>1, <1>2, <1>3, <1>4, <1>5, <1>6, <1>7, <1>8, <1>9, <1>10, <1>11, <1>12, <1>13, <1>14,
     <1>15, <1>16, <1>17, <1>18 DEF Step, Read

\* A step leaves alone what belongs to others; their producers it can only cancel.
LEMMA StepFrame ==
    ASSUME TypeInv, NEW o \in Owners, Step(o), NEW p \in Owners \ {o}
    PROVE  /\ call'[p] = call[p] /\ cons'[p] = cons[p] /\ hand'[p] = hand[p] /\ obj'[p] = obj[p]
           /\ cache'[p] = cache[p] /\ seen'[p] = seen[p] /\ failure'[p] = failure[p]
           /\ p \in lost' <=> p \in lost
           /\ p \in Reqs => tidy'[p] = tidy[p] /\ put'[p] = put[p]
           /\ p \in Reqs => prod'[p] = prod[p] \/ prod[p] \in {"runs", "closing"}
           /\ mode' = mode /\ mixed' = mixed
<1>0. /\ call \in [Owners -> CallStates]
      /\ cons \in [Owners -> {"none", "pull", "apply", "save", "over"}]
      /\ hand \in [Owners -> Event \cup {Nobody}] /\ obj \in [Owners -> Task]
      /\ cache \in [Owners -> Task]
      /\ seen \in [Owners -> Seq(Event)] /\ failure \in [Owners -> BOOLEAN]
      /\ tidy \in [Reqs -> TidyStates] /\ put \in [Reqs -> Seq(Event)]
      /\ prod \in [Reqs -> {"none", "runs", "closing", "over", "raised", "cancelled"}]
      /\ Reqs \subseteq Owners /\ Watchers \subseteq Owners /\ Cancels \subseteq Owners
  BY DEF TypeInv, TypeOK, CallStates, TidyStates, Owners
<1> DEFINE Goal == /\ call'[p] = call[p] /\ cons'[p] = cons[p] /\ hand'[p] = hand[p] /\ obj'[p] = obj[p]
                   /\ cache'[p] = cache[p] /\ seen'[p] = seen[p] /\ failure'[p] = failure[p]
                   /\ p \in lost' <=> p \in lost
                   /\ p \in Reqs => tidy'[p] = tidy[p] /\ put'[p] = put[p]
                   /\ p \in Reqs => prod'[p] = prod[p] \/ prod[p] \in {"runs", "closing"}
                   /\ mode' = mode /\ mixed' = mixed
<1>1. ASSUME Take(o) PROVE Goal
  BY <1>0, <1>1 DEF Goal, Take, Ends, store, handler, agents
<1>2. ASSUME TakeEnd(o) PROVE Goal
  BY <1>0, <1>2 DEF Goal, TakeEnd, Ends, store, queues, handler, agents, history
<1>3. ASSUME Insert(o) PROVE Goal
  BY <1>0, <1>3 DEF Goal, Insert, queues, handler, agents, reading, history
<1>4. ASSUME Change(o) PROVE Goal
  BY <1>0, <1>4 DEF Goal, Change, queues, handler, agents, history
<1>5. ASSUME Commit(o) PROVE Goal
  BY <1>0, <1>5 DEF Goal, Commit, Ends, queues, handler, agents
<1>6. ASSUME Leave(o) PROVE Goal
  BY <1>0, <1>6 DEF Goal, Leave, store, queues, handler, agents
<1>7. ASSUME o \in Reqs, Enter(o) PROVE Goal
  BY <1>0, <1>7 DEF Goal, Enter, store, history
<1>8. ASSUME o \in Reqs, Return(o) PROVE Goal
  BY <1>0, <1>8 DEF Goal, Return, store, handler, reading, history
<1>9. ASSUME o \in Reqs, Returned(o) PROVE Goal
  BY <1>0, <1>9 DEF Goal, Returned, store, queues, handler, reading, history
<1>10. ASSUME o \in Reqs, Raise(o) PROVE Goal
  BY <1>0, <1>10 DEF Goal, Raise, store, queues, handler, reading, history
<1>11. ASSUME o \in Reqs, TakeFailure(o) PROVE Goal
  BY <1>0, <1>11 DEF Goal, TakeFailure, store, queues, handler, agents, history
<1>12. ASSUME o \in Reqs, TidyFails(o) PROVE Goal
  BY <1>0, <1>12 DEF Goal, TidyFails, store, queues, handler, agents, reading, history
<1>13. ASSUME o \in Reqs, Tidy(o) PROVE Goal
  BY <1>0, <1>13 DEF Goal, Tidy, store, agents, reading, history
<1>14. ASSUME o \in Reqs, Tidied(o) PROVE Goal
  BY <1>0, <1>14 DEF Goal, Tidied, store, queues, agents, reading, history
<1>15. ASSUME o \in Reqs, NEW kind \in Kinds, Emit(o, kind) PROVE Goal
  BY <1>0, <1>15 DEF Goal, Emit, store, handler, agents, reading
<1>16. ASSUME o \in Watchers, Watch(o) PROVE Goal
  BY <1>0, <1>16 DEF Goal, Watch, store, handler, agents, history
<1>17. ASSUME o \in Cancels, CancelTap(o) PROVE Goal
  BY <1>0, <1>17 DEF Goal, CancelTap, store, handler, agents, reading, history
<1>18. ASSUME o \in Cancels, CancelAgent(o) PROVE Goal
  BY <1>0, <1>18 DEF Goal, CancelAgent, store, handler, history
<1> QED
  BY <1>1, <1>2, <1>3, <1>4, <1>5, <1>6, <1>7, <1>8, <1>9, <1>10, <1>11, <1>12, <1>13, <1>14,
     <1>15, <1>16, <1>17, <1>18 DEF Step, Read

\* A queue that is closed stays closed.
LEMMA StepCloses ==
    ASSUME TypeInv, NEW o \in Owners, Step(o), NEW p \in Owners, closed[p]
    PROVE  closed'[p]
<1> DEFINE Goal == closed'[p]
<1>0. Reqs \subseteq Owners /\ closed \in [Owners -> BOOLEAN]
  BY DEF TypeInv, TypeOK, Owners
<1>1. ASSUME Take(o) PROVE Goal
  BY <1>0, <1>1 DEF Goal, Take, CloseNow, store, handler, agents
<1>2. ASSUME TakeEnd(o) PROVE Goal
  BY <1>0, <1>2 DEF Goal, TakeEnd, store, queues, handler, agents, history
<1>3. ASSUME Insert(o) PROVE Goal
  BY <1>0, <1>3 DEF Goal, Insert, queues, handler, agents, reading, history
<1>4. ASSUME Change(o) PROVE Goal
  BY <1>0, <1>4 DEF Goal, Change, queues, handler, agents, history
<1>5. ASSUME Commit(o) PROVE Goal
  BY <1>0, <1>5 DEF Goal, Commit, queues, handler, agents
<1>6. ASSUME Leave(o) PROVE Goal
  BY <1>0, <1>6 DEF Goal, Leave, store, queues, handler, agents
<1>7. ASSUME o \in Reqs, Enter(o) PROVE Goal
  BY <1>0, <1>7 DEF Goal, Enter, store, history
<1>8. ASSUME o \in Reqs, Return(o) PROVE Goal
  BY <1>0, <1>8 DEF Goal, Return, Close, store, handler, reading, history
<1>9. ASSUME o \in Reqs, Returned(o) PROVE Goal
  BY <1>0, <1>9 DEF Goal, Returned, store, queues, handler, reading, history
<1>10. ASSUME o \in Reqs, Raise(o) PROVE Goal
  BY <1>0, <1>10 DEF Goal, Raise, store, queues, handler, reading, history
<1>11. ASSUME o \in Reqs, TakeFailure(o) PROVE Goal
  BY <1>0, <1>11 DEF Goal, TakeFailure, store, queues, handler, agents, history
<1>12. ASSUME o \in Reqs, TidyFails(o) PROVE Goal
  BY <1>0, <1>12 DEF Goal, TidyFails, store, queues, handler, agents, reading, history
<1>13. ASSUME o \in Reqs, Tidy(o) PROVE Goal
  BY <1>0, <1>13 DEF Goal, Tidy, Close, store, agents, reading, history
<1>14. ASSUME o \in Reqs, Tidied(o) PROVE Goal
  BY <1>0, <1>14 DEF Goal, Tidied, store, queues, agents, reading, history
<1>15. ASSUME o \in Reqs, NEW kind \in Kinds, Emit(o, kind) PROVE Goal
  BY <1>0, <1>15 DEF Goal, Emit, store, handler, agents, reading
<1>16. ASSUME o \in Watchers, Watch(o) PROVE Goal
  BY <1>0, <1>16 DEF Goal, Watch, store, handler, agents, history
<1>17. ASSUME o \in Cancels, CancelTap(o) PROVE Goal
  BY <1>0, <1>17 DEF Goal, CancelTap, store, handler, agents, reading, history
<1>18. ASSUME o \in Cancels, CancelAgent(o) PROVE Goal
  BY <1>0, <1>18 DEF Goal, CancelAgent, store, handler, history
<1> QED
  BY <1>1, <1>2, <1>3, <1>4, <1>5, <1>6, <1>7, <1>8, <1>9, <1>10, <1>11, <1>12, <1>13, <1>14,
     <1>15, <1>16, <1>17, <1>18 DEF Step, Read

\* A queue that nobody has as a child and that is not registered belongs to its owner alone.
LEMMA StepQueues ==
    ASSUME TypeInv, NEW o \in Owners, Step(o), NEW r \in Owners \ {o}, entry # r,
           \A p \in Owners : r \notin kids[p]
    PROVE  /\ queue'[r] = queue[r] /\ closed'[r] = closed[r] /\ kids'[r] = kids[r]
           /\ entry' # r
           /\ \A p \in Owners : r \notin kids'[p]
           /\ entry' # r
           /\ \A p \in Owners : r \notin kids'[p]
<1> DEFINE Goal == /\ queue'[r] = queue[r] /\ closed'[r] = closed[r] /\ kids'[r] = kids[r]
                   /\ entry' # r
                   /\ \A p \in Owners : r \notin kids'[p]
<1>0. /\ Reqs \subseteq Owners /\ closed \in [Owners -> BOOLEAN]
      /\ queue \in [Owners -> Seq(Event)] /\ kids \in [Owners -> SUBSET Owners]
      /\ entry \in Reqs \cup {Nobody} /\ Nobody \notin Owners
  BY LegacyAssumption DEF TypeInv, TypeOK, Owners
<1>1. ASSUME Take(o) PROVE Goal
  BY <1>0, <1>1 DEF Goal, Take, CloseNow, Tree, store, handler, agents
<1>2. ASSUME TakeEnd(o) PROVE Goal
  BY <1>0, <1>2 DEF Goal, TakeEnd, store, queues, handler, agents, history
<1>3. ASSUME Insert(o) PROVE Goal
  BY <1>0, <1>3 DEF Goal, Insert, queues, handler, agents, reading, history
<1>4. ASSUME Change(o) PROVE Goal
  BY <1>0, <1>4 DEF Goal, Change, queues, handler, agents, history
<1>5. ASSUME Commit(o) PROVE Goal
  BY <1>0, <1>5 DEF Goal, Commit, queues, handler, agents
<1>6. ASSUME Leave(o) PROVE Goal
  BY <1>0, <1>6 DEF Goal, Leave, store, queues, handler, agents
<1>7. ASSUME o \in Reqs, Enter(o) PROVE Goal
  <2>1. UNCHANGED <<queue, closed>>
    BY <1>7 DEF Enter
  <2>2. CASE entry = Nobody
    BY <1>0, <1>7, <2>1, <2>2 DEF Goal, Enter
  <2>3. CASE entry # Nobody
    <3>1. entry' = entry /\ kids' = [kids EXCEPT ![entry] = @ \cup {o}] /\ entry \in Owners
      BY <1>0, <1>7, <2>3 DEF Enter, Tap
    <3> QED BY <1>0, <2>1, <3>1 DEF Goal
  <2> QED BY <2>2, <2>3
<1>8. ASSUME o \in Reqs, Return(o) PROVE Goal
  BY <1>0, <1>8 DEF Goal, Return, Close, Shuts, Tree, store, handler, reading, history
<1>9. ASSUME o \in Reqs, Returned(o) PROVE Goal
  BY <1>0, <1>9 DEF Goal, Returned, store, queues, handler, reading, history
<1>10. ASSUME o \in Reqs, Raise(o) PROVE Goal
  BY <1>0, <1>10 DEF Goal, Raise, store, queues, handler, reading, history
<1>11. ASSUME o \in Reqs, TakeFailure(o) PROVE Goal
  BY <1>0, <1>11 DEF Goal, TakeFailure, store, queues, handler, agents, history
<1>12. ASSUME o \in Reqs, TidyFails(o) PROVE Goal
  BY <1>0, <1>12 DEF Goal, TidyFails, store, queues, handler, agents, reading, history
<1>13. ASSUME o \in Reqs, Tidy(o) PROVE Goal
  BY <1>0, <1>13 DEF Goal, Tidy, Close, Shuts, Tree, store, agents, reading, history
<1>14. ASSUME o \in Reqs, Tidied(o) PROVE Goal
  BY <1>0, <1>14 DEF Goal, Tidied, store, queues, agents, reading, history
<1>15. ASSUME o \in Reqs, NEW kind \in Kinds, Emit(o, kind) PROVE Goal
  BY <1>0, <1>15 DEF Goal, Emit, Enqueue, Tree, store, handler, agents, reading
<1>16. ASSUME o \in Watchers, Watch(o) PROVE Goal
  BY <1>0, <1>16 DEF Goal, Watch, Tap, store, handler, agents, history
<1>17. ASSUME o \in Cancels, CancelTap(o) PROVE Goal
  BY <1>0, <1>17 DEF Goal, CancelTap, Tap, store, handler, agents, reading, history
<1>18. ASSUME o \in Cancels, CancelAgent(o) PROVE Goal
  BY <1>0, <1>18 DEF Goal, CancelAgent, Enqueue, Tree, store, handler, history
<1> QED
  BY <1>1, <1>2, <1>3, <1>4, <1>5, <1>6, <1>7, <1>8, <1>9, <1>10, <1>11, <1>12, <1>13, <1>14,
     <1>15, <1>16, <1>17, <1>18 DEF Step, Read

\* Nobody becomes active by a step of somebody else.
LEMMA StepActive ==
    ASSUME TypeInv, NEW o \in Owners, Step(o), NEW p \in Owners \ {o}, Active(p)'
    PROVE  Active(p)
BY StepFrame DEF Active

-----------------------------------------------------------------------------
(* What a step of a request does                                           *)

\* A call is of one kind.
LEMMA DisjointCalls ==
    /\ \A r \in Reqs : r \notin Watchers /\ r \notin Cancels /\ r \in Owners
    /\ Nobody \notin Owners
BY LegacyAssumption DEF Owners

\* The first step of a request is to enter.
LEMMA FreshEnters ==
    ASSUME TypeInv, NEW o \in Reqs, Fresh(o), Step(o)
    PROVE  Enter(o)
<1> DEFINE Goal == Enter(o)
<1>0. o \in Owners
  BY DEF Owners
<1>1. ASSUME Take(o) PROVE Goal
  BY <1>0, <1>1 DEF Goal, Take, Fresh
<1>2. ASSUME TakeEnd(o) PROVE Goal
  BY <1>0, <1>2 DEF Goal, TakeEnd, Fresh
<1>3. ASSUME Insert(o) PROVE Goal
  BY <1>0, <1>3 DEF Goal, Insert, Fresh
<1>4. ASSUME Change(o) PROVE Goal
  BY <1>0, <1>4 DEF Goal, Change, Fresh
<1>5. ASSUME Commit(o) PROVE Goal
  BY <1>0, <1>5 DEF Goal, Commit, Fresh
<1>6. ASSUME Leave(o) PROVE Goal
  BY <1>0, <1>6 DEF Goal, Leave, Fresh
<1>7. ASSUME o \in Reqs, Enter(o) PROVE Goal
  BY <1>0, <1>7 DEF Goal, Enter, Fresh
<1>8. ASSUME o \in Reqs, Return(o) PROVE Goal
  BY <1>0, <1>8 DEF Goal, Return, Fresh
<1>9. ASSUME o \in Reqs, Returned(o) PROVE Goal
  BY <1>0, <1>9 DEF Goal, Returned, Fresh
<1>10. ASSUME o \in Reqs, Raise(o) PROVE Goal
  BY <1>0, <1>10 DEF Goal, Raise, Fresh
<1>11. ASSUME o \in Reqs, TakeFailure(o) PROVE Goal
  BY <1>0, <1>11 DEF Goal, TakeFailure, Fresh
<1>12. ASSUME o \in Reqs, TidyFails(o) PROVE Goal
  BY <1>0, <1>12 DEF Goal, TidyFails, Fresh
<1>13. ASSUME o \in Reqs, Tidy(o) PROVE Goal
  BY <1>0, <1>13 DEF Goal, Tidy, Fresh
<1>14. ASSUME o \in Reqs, Tidied(o) PROVE Goal
  BY <1>0, <1>14 DEF Goal, Tidied, Fresh
<1>15. ASSUME o \in Reqs, NEW kind \in Kinds, Emit(o, kind) PROVE Goal
  BY <1>0, <1>15 DEF Goal, Emit, Fresh
<1> QED
  BY <1>1, <1>2, <1>3, <1>4, <1>5, <1>6, <1>7, <1>8, <1>9, <1>10, <1>11, <1>12, <1>13, <1>14,
     <1>15, DisjointCalls DEF Step, Read

\* No step of a request brings its call back to where it began.
LEMMA OwnCall ==
    ASSUME TypeInv, NEW o \in Reqs, Step(o)
    PROVE  call'[o] \in {"waits", "cleans", "answered", "failed", "left", call[o]}
<1> DEFINE Goal == call'[o] \in {"waits", "cleans", "answered", "failed", "left", call[o]}
<1>0. call \in [Owners -> CallStates] /\ o \in Owners
  BY DEF TypeInv, TypeOK, CallStates, Owners
<1>1. ASSUME Take(o) PROVE Goal
  BY <1>0, <1>1 DEF Goal, Take, Ends
<1>2. ASSUME TakeEnd(o) PROVE Goal
  BY <1>0, <1>2 DEF Goal, TakeEnd, Ends
<1>3. ASSUME Insert(o) PROVE Goal
  BY <1>0, <1>3 DEF Goal, Insert
<1>4. ASSUME Change(o) PROVE Goal
  BY <1>0, <1>4 DEF Goal, Change
<1>5. ASSUME Commit(o) PROVE Goal
  BY <1>0, <1>5 DEF Goal, Commit, Ends
<1>6. ASSUME Leave(o) PROVE Goal
  BY <1>0, <1>6 DEF Goal, Leave
<1>7. ASSUME o \in Reqs, Enter(o) PROVE Goal
  BY <1>0, <1>7 DEF Goal, Enter
<1>8. ASSUME o \in Reqs, Return(o) PROVE Goal
  BY <1>0, <1>8 DEF Goal, Return
<1>9. ASSUME o \in Reqs, Returned(o) PROVE Goal
  BY <1>0, <1>9 DEF Goal, Returned
<1>10. ASSUME o \in Reqs, Raise(o) PROVE Goal
  BY <1>0, <1>10 DEF Goal, Raise
<1>11. ASSUME o \in Reqs, TakeFailure(o) PROVE Goal
  BY <1>0, <1>11 DEF Goal, TakeFailure
<1>12. ASSUME o \in Reqs, TidyFails(o) PROVE Goal
  BY <1>0, <1>12 DEF Goal, TidyFails
<1>13. ASSUME o \in Reqs, Tidy(o) PROVE Goal
  BY <1>0, <1>13 DEF Goal, Tidy
<1>14. ASSUME o \in Reqs, Tidied(o) PROVE Goal
  BY <1>0, <1>14 DEF Goal, Tidied
<1>15. ASSUME o \in Reqs, NEW kind \in Kinds, Emit(o, kind) PROVE Goal
  BY <1>0, <1>15 DEF Goal, Emit
<1> QED
  BY <1>1, <1>2, <1>3, <1>4, <1>5, <1>6, <1>7, <1>8, <1>9, <1>10, <1>11, <1>12, <1>13, <1>14,
     <1>15, DisjointCalls DEF Step, Read

\* While its queue is the only one, a request touches no other.
LEMMA OwnQueue ==
    ASSUME TypeInv, NEW o \in Reqs, Step(o), kids[o] = {}, entry \in {o, Nobody},
           call[o] = "looked" => entry = Nobody
    PROVE  /\ kids' = kids /\ entry' \in {o, Nobody}
           /\ \A p \in Owners \ {o} : queue'[p] = queue[p] /\ closed'[p] = closed[p]
<1> DEFINE Goal == /\ kids' = kids /\ entry' \in {o, Nobody}
                   /\ \A p \in Owners \ {o} : queue'[p] = queue[p] /\ closed'[p] = closed[p]
<1>0. /\ o \in Owners /\ closed \in [Owners -> BOOLEAN] /\ queue \in [Owners -> Seq(Event)]
      /\ Tree(o) = {o}
  BY DEF TypeInv, TypeOK, Owners, Tree
<1>1. ASSUME Take(o) PROVE Goal
  BY <1>0, <1>1 DEF Goal, Take, CloseNow, store, handler, agents
<1>2. ASSUME TakeEnd(o) PROVE Goal
  BY <1>0, <1>2 DEF Goal, TakeEnd, store, queues, handler, agents, history
<1>3. ASSUME Insert(o) PROVE Goal
  BY <1>0, <1>3 DEF Goal, Insert, queues, handler, agents, reading, history
<1>4. ASSUME Change(o) PROVE Goal
  BY <1>0, <1>4 DEF Goal, Change, queues, handler, agents, history
<1>5. ASSUME Commit(o) PROVE Goal
  BY <1>0, <1>5 DEF Goal, Commit, queues, handler, agents
<1>6. ASSUME Leave(o) PROVE Goal
  BY <1>0, <1>6 DEF Goal, Leave, store, queues, handler, agents
<1>7. ASSUME o \in Reqs, Enter(o) PROVE Goal
  BY <1>0, <1>7 DEF Goal, Enter, store, history
<1>8. ASSUME o \in Reqs, Return(o) PROVE Goal
  BY <1>0, <1>8 DEF Goal, Return, Close, Shuts, store, handler, reading, history
<1>9. ASSUME o \in Reqs, Returned(o) PROVE Goal
  BY <1>0, <1>9 DEF Goal, Returned, store, queues, handler, reading, history
<1>10. ASSUME o \in Reqs, Raise(o) PROVE Goal
  BY <1>0, <1>10 DEF Goal, Raise, store, queues, handler, reading, history
<1>11. ASSUME o \in Reqs, TakeFailure(o) PROVE Goal
  BY <1>0, <1>11 DEF Goal, TakeFailure, store, queues, handler, agents, history
<1>12. ASSUME o \in Reqs, TidyFails(o) PROVE Goal
  BY <1>0, <1>12 DEF Goal, TidyFails, store, queues, handler, agents, reading, history
<1>13. ASSUME o \in Reqs, Tidy(o) PROVE Goal
  BY <1>0, <1>13 DEF Goal, Tidy, Close, Shuts, store, agents, reading, history
<1>14. ASSUME o \in Reqs, Tidied(o) PROVE Goal
  BY <1>0, <1>14 DEF Goal, Tidied, store, queues, agents, reading, history
<1>15. ASSUME o \in Reqs, NEW kind \in Kinds, Emit(o, kind) PROVE Goal
  BY <1>0, <1>15 DEF Goal, Emit, Enqueue, store, handler, agents, reading
<1> QED
  BY <1>1, <1>2, <1>3, <1>4, <1>5, <1>6, <1>7, <1>8, <1>9, <1>10, <1>11, <1>12, <1>13, <1>14,
     <1>15, DisjointCalls DEF Step, Read

-----------------------------------------------------------------------------
(* Before the beginning, the numbers, and being alone                      *)

\* What the beginning of a call changes.
LEMMA LookFrame ==
    ASSUME TypeInv, NEW o \in Owners, Look(o)
    PROVE  /\ UNCHANGED <<mode, row, queue, closed, kids, entry, prod, failure, cons, hand, obj, tidy,
                          put, seen, lost>>
           /\ call[o] = "idle" /\ call'[o] \in {"refused", "looked"}
           /\ cache'[o] = IF o \in Reqs THEN row ELSE NoTask
           /\ \A p \in Owners \ {o} : call'[p] = call[p] /\ cache'[p] = cache[p]
           /\ mixed' = IF Others(o) = {} /\ entry = Nobody THEN mixed
                       ELSE mixed \cup Others(o) \cup {o}
BY DEF Look, TypeInv, TypeOK, queues, handler, agents, reading

\* Who looks at the task while somebody is active is not alone, nor is that one.
LEMMA LookMixes ==
    ASSUME TypeInv, NEW o \in Owners, Look(o), NEW r \in Owners \ {o}, Active(r)
    PROVE  r \in mixed'
<1>1. r \in Others(o)
  BY DEF Others
<1> QED BY <1>1, LookFrame

\* Nothing of a request is there before it has entered, whatever is done.
LEMMA NextFresh ==
    ASSUME TypeInv, FreshInv, Next
    PROVE  FreshInv'
<1> DEFINE Early == {"absent", "idle", "refused", "looked"}
<1> SUFFICES ASSUME NEW r \in Reqs, call'[r] \in Early PROVE Fresh(r)'
  BY DEF FreshInv
<1>1. PICK o \in Owners : Look(o) \/ Step(o)
  BY NextIsStep
<1>0. r \in Owners
  BY DisjointCalls
<1>2. CASE Look(o)
  <2>1. call[r] \in Early
    BY <1>0, <1>2, LookFrame
  <2>2. Fresh(r)
    BY <2>1 DEF FreshInv
  <2> QED BY <1>2, <2>2, LookFrame DEF Fresh
<1>3. CASE Step(o) /\ o # r
  <2>1. call[r] \in Early
    BY <1>0, <1>3, StepFrame
  <2>2. Fresh(r)
    BY <2>1 DEF FreshInv
  <2>3. r \in Owners \ {o} /\ entry # r /\ \A p \in Owners : r \notin kids[p]
    BY <1>0, <1>3, <2>2 DEF Fresh
  <2>4. /\ queue'[r] = queue[r] /\ closed'[r] = closed[r] /\ kids'[r] = kids[r]
        /\ entry' # r /\ \A p \in Owners : r \notin kids'[p]
    BY <1>3, <2>3, StepQueues
  <2>5. /\ cons'[r] = cons[r] /\ seen'[r] = seen[r] /\ failure'[r] = failure[r]
        /\ tidy'[r] = tidy[r] /\ put'[r] = put[r] /\ prod'[r] = prod[r] /\ r \notin lost'
    BY <1>3, <2>2, <2>3, StepFrame DEF Fresh
  <2> QED BY <2>2, <2>4, <2>5 DEF Fresh
<1>4. CASE Step(o) /\ o = r
  <2>1. call[r] \in Early
    BY <1>4, OwnCall
  <2>2. Fresh(r) /\ Enter(r)
    BY <1>4, <2>1, FreshEnters DEF FreshInv
  <2>3. call'[r] = "waits"
    BY <1>0, <2>2 DEF Enter, TypeInv, TypeOK
  <2> QED BY <2>3
<1> QED BY <1>1, <1>2, <1>3, <1>4

\* What an agent emits is the next event of its own, unless its queue is closed.
LEMMA Emitted ==
    ASSUME TypeInv, NEW o \in Reqs, NEW kind \in Kinds, Emit(o, kind)
    PROVE  LET e == [kind |-> kind, by |-> o, no |-> Len(put[o]) + 1]
           IN /\ e \in Event /\ Enqueue(o, e) /\ prod[o] = "runs"
              /\ put'[o] = IF closed[o] THEN put[o] ELSE Append(put[o], e)
              /\ \A r \in Reqs \ {o} : put'[r] = put[r]
              /\ UNCHANGED <<mode, row, cache, closed, kids, entry, prod, failure, cons, hand, obj,
                             call, tidy, seen, mixed, lost>>
<1> DEFINE e == [kind |-> kind, by |-> o, no |-> Len(put[o]) + 1]
<1>1. put \in [Reqs -> Seq(Event)]
  BY DEF TypeInv, TypeOK
<1>2. e \in Event
  BY <1>1, DisjointCalls DEF Event
<1>3. Enqueue(o, e) /\ put' = [put EXCEPT ![o] = IF closed[o] THEN @ ELSE Append(@, e)]
      /\ prod[o] = "runs"
  BY DEF Emit
<1>4. UNCHANGED <<mode, row, cache, closed, kids, entry, prod, failure, cons, hand, obj,
                  call, tidy, seen, mixed, lost>>
  BY DEF Emit, store, handler, agents, reading
<1> HIDE DEF e
<1>5. put'[o] = IF closed[o] THEN put[o] ELSE Append(put[o], e)
  BY <1>1, <1>3
<1>6. \A r \in Reqs \ {o} : put'[r] = put[r]
  BY <1>1, <1>3
<1> QED BY <1>2, <1>3, <1>4, <1>5, <1>6 DEF e

\* Only an agent that emits into an open queue adds to what was put.
LEMMA OwnPut ==
    ASSUME TypeInv, NEW o \in Reqs, Step(o)
    PROVE  put'[o] = put[o] \/ \E kind \in Kinds : Emit(o, kind) /\ ~closed[o]
<1> DEFINE Goal == put'[o] = put[o] \/ \E kind \in Kinds : Emit(o, kind) /\ ~closed[o]
<1>0. put \in [Reqs -> Seq(Event)]
  BY DEF TypeInv, TypeOK
<1>1. ASSUME Take(o) PROVE Goal
  BY <1>0, <1>1 DEF Goal, Take, store, handler, agents
<1>2. ASSUME TakeEnd(o) PROVE Goal
  BY <1>0, <1>2 DEF Goal, TakeEnd, store, queues, handler, agents, history
<1>3. ASSUME Insert(o) PROVE Goal
  BY <1>0, <1>3 DEF Goal, Insert, queues, handler, agents, reading, history
<1>4. ASSUME Change(o) PROVE Goal
  BY <1>0, <1>4 DEF Goal, Change, queues, handler, agents, history
<1>5. ASSUME Commit(o) PROVE Goal
  BY <1>0, <1>5 DEF Goal, Commit, queues, handler, agents
<1>6. ASSUME Leave(o) PROVE Goal
  BY <1>0, <1>6 DEF Goal, Leave, store, queues, handler, agents
<1>7. ASSUME o \in Reqs, Enter(o) PROVE Goal
  BY <1>0, <1>7 DEF Goal, Enter, store, history
<1>8. ASSUME o \in Reqs, Return(o) PROVE Goal
  BY <1>0, <1>8 DEF Goal, Return, store, handler, reading, history
<1>9. ASSUME o \in Reqs, Returned(o) PROVE Goal
  BY <1>0, <1>9 DEF Goal, Returned, store, queues, handler, reading, history
<1>10. ASSUME o \in Reqs, Raise(o) PROVE Goal
  BY <1>0, <1>10 DEF Goal, Raise, store, queues, handler, reading, history
<1>11. ASSUME o \in Reqs, TakeFailure(o) PROVE Goal
  BY <1>0, <1>11 DEF Goal, TakeFailure, store, queues, handler, agents, history
<1>12. ASSUME o \in Reqs, TidyFails(o) PROVE Goal
  BY <1>0, <1>12 DEF Goal, TidyFails, store, queues, handler, agents, reading, history
<1>13. ASSUME o \in Reqs, Tidy(o) PROVE Goal
  BY <1>0, <1>13 DEF Goal, Tidy, store, agents, reading, history
<1>14. ASSUME o \in Reqs, Tidied(o) PROVE Goal
  BY <1>0, <1>14 DEF Goal, Tidied, store, queues, agents, reading, history
<1>15. ASSUME o \in Reqs, NEW kind \in Kinds, Emit(o, kind) PROVE Goal
  BY <1>0, <1>15 DEF Goal, Emit, store, handler, agents, reading
<1> QED
  BY <1>1, <1>2, <1>3, <1>4, <1>5, <1>6, <1>7, <1>8, <1>9, <1>10, <1>11, <1>12, <1>13, <1>14,
     <1>15, DisjointCalls DEF Step, Read

\* An agent's events stay numbered.
LEMMA NextNumbered ==
    ASSUME TypeInv, NumberedInv, Next
    PROVE  NumberedInv'
<1> SUFFICES ASSUME NEW r \in Reqs, NEW n \in 1..Len(put'[r])
             PROVE  put'[r][n].no = n /\ put'[r][n].by = r
  BY DEF NumberedInv
<1>1. PICK o \in Owners : Look(o) \/ Step(o)
  BY NextIsStep
<1>2. CASE put'[r] = put[r]
  BY <1>2 DEF NumberedInv
<1>3. CASE Look(o)
  BY <1>2, <1>3, LookFrame
<1>4. CASE Step(o) /\ o # r
  <2>1. r \in Owners \ {o}
    BY <1>4, DisjointCalls
  <2> QED BY <1>2, <1>4, <2>1, StepFrame
<1>5. CASE Step(o) /\ o = r
  <2>1. ASSUME NEW kind \in Kinds, Emit(r, kind), ~closed[r]
        PROVE  put'[r][n].no = n /\ put'[r][n].by = r
    <3> DEFINE e == [kind |-> kind, by |-> r, no |-> Len(put[r]) + 1]
    <3>1. e \in Event /\ put'[r] = Append(put[r], e) /\ put[r] \in Seq(Event)
      BY <2>1, Emitted DEF TypeInv, TypeOK
    <3>2. e.by = r /\ e.no = Len(put[r]) + 1
      OBVIOUS
    <3> HIDE DEF e
    <3>3. CASE n = Len(put[r]) + 1
      BY <3>1, <3>2, <3>3
    <3>4. CASE n \in 1..Len(put[r])
      BY <3>1, <3>4 DEF NumberedInv
    <3> QED BY <3>1, <3>3, <3>4
  <2> QED BY <1>2, <1>5, <2>1, OwnPut
<1> QED BY <1>1, <1>3, <1>4, <1>5

\* A step adds only its own events to a queue.
LEMMA StepQueue ==
    ASSUME TypeInv, NEW o \in Owners, Step(o), NEW p \in Owners
    PROVE  \/ queue'[p] \in {queue[p], Tail(queue[p]), <<>>}
           \/ \E e \in Event : e.by = o /\ queue'[p] = Append(queue[p], e)
<1> DEFINE Goal == \/ queue'[p] \in {queue[p], Tail(queue[p]), <<>>}
                   \/ \E e \in Event : e.by = o /\ queue'[p] = Append(queue[p], e)
<1>0. queue \in [Owners -> Seq(Event)] /\ Reqs \subseteq Owners
  BY DEF TypeInv, TypeOK, Owners
<1>1. ASSUME Take(o) PROVE Goal
  BY <1>0, <1>1 DEF Goal, Take, CloseNow, store, handler, agents
<1>2. ASSUME TakeEnd(o) PROVE Goal
  BY <1>0, <1>2 DEF Goal, TakeEnd, store, queues, handler, agents, history
<1>3. ASSUME Insert(o) PROVE Goal
  BY <1>0, <1>3 DEF Goal, Insert, queues, handler, agents, reading, history
<1>4. ASSUME Change(o) PROVE Goal
  BY <1>0, <1>4 DEF Goal, Change, queues, handler, agents, history
<1>5. ASSUME Commit(o) PROVE Goal
  BY <1>0, <1>5 DEF Goal, Commit, queues, handler, agents
<1>6. ASSUME Leave(o) PROVE Goal
  BY <1>0, <1>6 DEF Goal, Leave, store, queues, handler, agents
<1>7. ASSUME o \in Reqs, Enter(o) PROVE Goal
  BY <1>0, <1>7 DEF Goal, Enter, store, history
<1>8. ASSUME o \in Reqs, Return(o) PROVE Goal
  BY <1>0, <1>8 DEF Goal, Return, Close, store, handler, reading, history
<1>9. ASSUME o \in Reqs, Returned(o) PROVE Goal
  BY <1>0, <1>9 DEF Goal, Returned, store, queues, handler, reading, history
<1>10. ASSUME o \in Reqs, Raise(o) PROVE Goal
  BY <1>0, <1>10 DEF Goal, Raise, store, queues, handler, reading, history
<1>11. ASSUME o \in Reqs, TakeFailure(o) PROVE Goal
  BY <1>0, <1>11 DEF Goal, TakeFailure, store, queues, handler, agents, history
<1>12. ASSUME o \in Reqs, TidyFails(o) PROVE Goal
  BY <1>0, <1>12 DEF Goal, TidyFails, store, queues, handler, agents, reading, history
<1>13. ASSUME o \in Reqs, Tidy(o) PROVE Goal
  BY <1>0, <1>13 DEF Goal, Tidy, Close, store, agents, reading, history
<1>14. ASSUME o \in Reqs, Tidied(o) PROVE Goal
  BY <1>0, <1>14 DEF Goal, Tidied, store, queues, agents, reading, history
<1>15. ASSUME o \in Reqs, NEW kind \in Kinds, Emit(o, kind) PROVE Goal
  <2> DEFINE e == [kind |-> kind, by |-> o, no |-> Len(put[o]) + 1]
  <2>1. e \in Event /\ Enqueue(o, e) /\ e.by = o
    BY <1>15, Emitted
  <2> HIDE DEF e
  <2> QED BY <1>0, <2>1 DEF Enqueue
<1>16. ASSUME o \in Watchers, Watch(o) PROVE Goal
  BY <1>0, <1>16 DEF Goal, Watch, store, handler, agents, history
<1>17. ASSUME o \in Cancels, CancelTap(o) PROVE Goal
  BY <1>0, <1>17 DEF Goal, CancelTap, store, handler, agents, reading, history
<1>18. ASSUME o \in Cancels, CancelAgent(o) PROVE Goal
  <2> DEFINE e == [kind |-> "canceled", by |-> o, no |-> 1]
  <2>1. e \in Event /\ Enqueue(o, e) /\ e.by = o
    BY <1>18 DEF CancelAgent, Event
  <2> HIDE DEF e
  <2> QED BY <1>0, <2>1 DEF Enqueue
<1> QED
  BY <1>1, <1>2, <1>3, <1>4, <1>5, <1>6, <1>7, <1>8, <1>9, <1>10, <1>11, <1>12, <1>13, <1>14,
     <1>15, <1>16, <1>17, <1>18 DEF Step, Read

\* A consumer holds what it held or what was first in its queue.
LEMMA StepHand ==
    ASSUME TypeInv, NEW o \in Owners, Step(o), NEW p \in Owners, cons'[p] \in {"apply", "save"}
    PROVE  \/ queue[p] # <<>> /\ hand'[p] = Head(queue[p])
           \/ hand'[p] = hand[p] /\ cons[p] \in {"apply", "save"}
<1> DEFINE Goal == \/ queue[p] # <<>> /\ hand'[p] = Head(queue[p])
                   \/ hand'[p] = hand[p] /\ cons[p] \in {"apply", "save"}
<1>0. /\ Reqs \subseteq Owners /\ cons \in [Owners -> {"none", "pull", "apply", "save", "over"}]
      /\ hand \in [Owners -> Event \cup {Nobody}]
  BY DEF TypeInv, TypeOK, Owners
<1>1. ASSUME Take(o) PROVE Goal
  BY <1>0, <1>1 DEF Goal, Take, store, handler, agents
<1>2. ASSUME TakeEnd(o) PROVE Goal
  BY <1>0, <1>2 DEF Goal, TakeEnd, store, queues, handler, agents, history
<1>3. ASSUME Insert(o) PROVE Goal
  BY <1>0, <1>3 DEF Goal, Insert, queues, handler, agents, reading, history
<1>4. ASSUME Change(o) PROVE Goal
  BY <1>0, <1>4 DEF Goal, Change, queues, handler, agents, history
<1>5. ASSUME Commit(o) PROVE Goal
  BY <1>0, <1>5 DEF Goal, Commit, queues, handler, agents
<1>6. ASSUME Leave(o) PROVE Goal
  BY <1>0, <1>6 DEF Goal, Leave, store, queues, handler, agents
<1>7. ASSUME o \in Reqs, Enter(o) PROVE Goal
  BY <1>0, <1>7 DEF Goal, Enter, store, history
<1>8. ASSUME o \in Reqs, Return(o) PROVE Goal
  BY <1>0, <1>8 DEF Goal, Return, store, handler, reading, history
<1>9. ASSUME o \in Reqs, Returned(o) PROVE Goal
  BY <1>0, <1>9 DEF Goal, Returned, store, queues, handler, reading, history
<1>10. ASSUME o \in Reqs, Raise(o) PROVE Goal
  BY <1>0, <1>10 DEF Goal, Raise, store, queues, handler, reading, history
<1>11. ASSUME o \in Reqs, TakeFailure(o) PROVE Goal
  BY <1>0, <1>11 DEF Goal, TakeFailure, store, queues, handler, agents, history
<1>12. ASSUME o \in Reqs, TidyFails(o) PROVE Goal
  BY <1>0, <1>12 DEF Goal, TidyFails, store, queues, handler, agents, reading, history
<1>13. ASSUME o \in Reqs, Tidy(o) PROVE Goal
  BY <1>0, <1>13 DEF Goal, Tidy, store, agents, reading, history
<1>14. ASSUME o \in Reqs, Tidied(o) PROVE Goal
  BY <1>0, <1>14 DEF Goal, Tidied, store, queues, agents, reading, history
<1>15. ASSUME o \in Reqs, NEW kind \in Kinds, Emit(o, kind) PROVE Goal
  BY <1>0, <1>15 DEF Goal, Emit, store, handler, agents, reading
<1>16. ASSUME o \in Watchers, Watch(o) PROVE Goal
  BY <1>0, <1>16 DEF Goal, Watch, store, handler, agents, history
<1>17. ASSUME o \in Cancels, CancelTap(o) PROVE Goal
  BY <1>0, <1>17 DEF Goal, CancelTap, store, handler, agents, reading, history
<1>18. ASSUME o \in Cancels, CancelAgent(o) PROVE Goal
  BY <1>0, <1>18 DEF Goal, CancelAgent, store, handler, history
<1> QED
  BY <1>1, <1>2, <1>3, <1>4, <1>5, <1>6, <1>7, <1>8, <1>9, <1>10, <1>11, <1>12, <1>13, <1>14,
     <1>15, <1>16, <1>17, <1>18 DEF Step, Read

\* Whether somebody was alone is decided when calls begin.
LEMMA StepMixed ==
    ASSUME TypeInv, NEW o \in Owners, Step(o)
    PROVE  mixed' = mixed /\ mode' = mode
<1> DEFINE Goal == mixed' = mixed /\ mode' = mode
<1>0. Reqs \subseteq Owners
  BY DEF Owners
<1>1. ASSUME Take(o) PROVE Goal
  BY <1>0, <1>1 DEF Goal, Take
<1>2. ASSUME TakeEnd(o) PROVE Goal
  BY <1>0, <1>2 DEF Goal, TakeEnd, history
<1>3. ASSUME Insert(o) PROVE Goal
  BY <1>0, <1>3 DEF Goal, Insert, history
<1>4. ASSUME Change(o) PROVE Goal
  BY <1>0, <1>4 DEF Goal, Change, history
<1>5. ASSUME Commit(o) PROVE Goal
  BY <1>0, <1>5 DEF Goal, Commit
<1>6. ASSUME Leave(o) PROVE Goal
  BY <1>0, <1>6 DEF Goal, Leave
<1>7. ASSUME o \in Reqs, Enter(o) PROVE Goal
  BY <1>0, <1>7 DEF Goal, Enter, history
<1>8. ASSUME o \in Reqs, Return(o) PROVE Goal
  BY <1>0, <1>8 DEF Goal, Return, history
<1>9. ASSUME o \in Reqs, Returned(o) PROVE Goal
  BY <1>0, <1>9 DEF Goal, Returned, history
<1>10. ASSUME o \in Reqs, Raise(o) PROVE Goal
  BY <1>0, <1>10 DEF Goal, Raise, history
<1>11. ASSUME o \in Reqs, TakeFailure(o) PROVE Goal
  BY <1>0, <1>11 DEF Goal, TakeFailure, history
<1>12. ASSUME o \in Reqs, TidyFails(o) PROVE Goal
  BY <1>0, <1>12 DEF Goal, TidyFails, history
<1>13. ASSUME o \in Reqs, Tidy(o) PROVE Goal
  BY <1>0, <1>13 DEF Goal, Tidy, history
<1>14. ASSUME o \in Reqs, Tidied(o) PROVE Goal
  BY <1>0, <1>14 DEF Goal, Tidied, history
<1>15. ASSUME o \in Reqs, NEW kind \in Kinds, Emit(o, kind) PROVE Goal
  BY <1>0, <1>15 DEF Goal, Emit
<1>16. ASSUME o \in Watchers, Watch(o) PROVE Goal
  BY <1>0, <1>16 DEF Goal, Watch, history
<1>17. ASSUME o \in Cancels, CancelTap(o) PROVE Goal
  BY <1>0, <1>17 DEF Goal, CancelTap, history
<1>18. ASSUME o \in Cancels, CancelAgent(o) PROVE Goal
  BY <1>0, <1>18 DEF Goal, CancelAgent, history
<1> QED
  BY <1>1, <1>2, <1>3, <1>4, <1>5, <1>6, <1>7, <1>8, <1>9, <1>10, <1>11, <1>12, <1>13, <1>14,
     <1>15, <1>16, <1>17, <1>18 DEF Step, Read

\* Events of r stay where they are when somebody else goes on.
LEMMA StepApart ==
    ASSUME TypeInv, NEW o \in Owners, Step(o), NEW r, r # o, Apart(r)
    PROVE  Apart(r)'
<1> SUFFICES ASSUME NEW p \in Owners \ {r}
             PROVE  /\ \A i \in 1..Len(queue'[p]) : queue'[p][i].by # r
                    /\ cons'[p] \in {"apply", "save"} => hand'[p].by # r
  BY DEF Apart
<1>0. queue[p] \in Seq(Event) /\ \A i \in 1..Len(queue[p]) : queue[p][i].by # r
  BY DEF Apart, TypeInv, TypeOK
<1>1. ASSUME NEW i \in 1..Len(queue'[p]) PROVE queue'[p][i].by # r
  <2>1. CASE queue'[p] = queue[p]
    BY <1>0, <1>1, <2>1
  <2>2. CASE queue'[p] = Tail(queue[p])
    <3>1. CASE queue[p] = <<>>
      BY <1>0, <1>1, <2>2, <3>1
    <3>2. CASE queue[p] # <<>>
      <4>1. i + 1 \in 1..Len(queue[p]) /\ queue'[p][i] = queue[p][i + 1]
        BY <1>0, <1>1, <2>2, <3>2
      <4> QED BY <1>0, <4>1
    <3> QED BY <3>1, <3>2
  <2>3. CASE queue'[p] = <<>>
    BY <1>1, <2>3
  <2>4. ASSUME NEW e \in Event, e.by = o, queue'[p] = Append(queue[p], e) PROVE queue'[p][i].by # r
    <3>1. CASE i = Len(queue[p]) + 1
      BY <1>0, <2>4, <3>1
    <3>2. CASE i \in 1..Len(queue[p])
      BY <1>0, <2>4, <3>2
    <3>3. i \in 1..(Len(queue[p]) + 1)
      BY <1>0, <1>1, <2>4
    <3> QED BY <1>0, <3>1, <3>2, <3>3
  <2> QED BY <2>1, <2>2, <2>3, <2>4, StepQueue
<1>2. ASSUME cons'[p] \in {"apply", "save"} PROVE hand'[p].by # r
  <2>1. CASE queue[p] # <<>> /\ hand'[p] = Head(queue[p])
    <3>1. 1 \in 1..Len(queue[p]) /\ hand'[p] = queue[p][1]
      BY <1>0, <2>1
    <3> QED BY <1>0, <3>1
  <2>2. CASE hand'[p] = hand[p] /\ cons[p] \in {"apply", "save"}
    BY <2>2 DEF Apart
  <2> QED BY <1>2, <2>1, <2>2, StepHand
<1> QED BY <1>1, <1>2

\* A request that is alone stays so until another call begins.
LEMMA NextAlone ==
    ASSUME TypeInv, FreshInv, AloneInv, Next
    PROVE  AloneInv'
<1> SUFFICES ASSUME NEW r \in Reqs, r \notin mixed'
             PROVE  /\ Active(r)' => /\ Others(r)' = {} /\ kids'[r] = {} /\ entry' \in {r, Nobody}
                                     /\ \A p \in Owners : r \notin kids'[p]
                    /\ call'[r] = "looked" => entry' = Nobody /\ cache'[r] = row'
                    /\ Apart(r)'
  BY DEF AloneInv, Alone
<1>0. r \in Owners /\ mixed \in SUBSET Owners
  BY DisjointCalls DEF TypeInv, TypeOK
<1>1. PICK o \in Owners : Look(o) \/ Step(o)
  BY NextIsStep
<1>i. ASSUME r \notin mixed
      PROVE  /\ Active(r) => /\ Others(r) = {} /\ kids[r] = {} /\ entry \in {r, Nobody}
                             /\ \A p \in Owners : r \notin kids[p]
             /\ call[r] = "looked" => entry = Nobody /\ cache[r] = row
             /\ Apart(r)
  BY <1>i DEF AloneInv, Alone
<1>2. CASE Look(o) /\ o # r
  <2>1. ~Active(r)
    BY <1>0, <1>2, LookMixes
  <2>2. r \notin mixed
    BY <1>0, <1>2, LookFrame
  <2>3. ~Active(r)' /\ call'[r] # "looked"
    BY <1>0, <1>2, <2>1, LookFrame DEF Active
  <2>4. Apart(r)'
    BY <1>i, <1>2, <2>2, LookFrame DEF Apart
  <2> QED BY <2>3, <2>4
<1>3. CASE Look(o) /\ o = r
  <2>1. r \notin mixed /\ Others(r) = {} /\ entry = Nobody
    BY <1>3, LookFrame
  <2>2. Fresh(r)
    BY <1>3, LookFrame DEF FreshInv
  <2>3. Others(r)' = {}
    BY <1>3, <2>1, LookFrame DEF Others, Active
  <2>4. kids'[r] = {} /\ entry' = Nobody /\ (\A p \in Owners : r \notin kids'[p])
        /\ cache'[r] = row'
    BY <1>3, <2>1, <2>2, LookFrame DEF Fresh
  <2>5. Apart(r)'
    BY <1>i, <1>3, <2>1, LookFrame DEF Apart
  <2> QED BY <2>3, <2>4, <2>5
<1>4. CASE Step(o) /\ o # r
  <2>1. r \in Owners \ {o} /\ o \in Owners \ {r} /\ Active(o)
    BY <1>0, <1>4, StepMoves
  <2>2. r \notin mixed
    BY <1>4, <2>1, StepFrame
  <2>3. ~Active(r)
    BY <1>i, <2>1, <2>2 DEF Others
  <2>4. ~Active(r)'
    BY <1>4, <2>1, <2>3, StepActive
  <2>5. call'[r] # "looked"
    BY <2>4 DEF Active
  <2>6. Apart(r)'
    BY <1>i, <1>4, <2>2, StepApart
  <2> QED BY <2>4, <2>5, <2>6
<1>5. CASE Step(o) /\ o = r
  <2>1. Active(r)
    BY <1>5, StepMoves
  <2>2. r \notin mixed
    BY <1>5, StepMixed
  <2>3. /\ kids' = kids /\ entry' \in {r, Nobody}
        /\ \A p \in Owners \ {r} : queue'[p] = queue[p] /\ closed'[p] = closed[p]
    BY <1>i, <1>5, <2>1, <2>2, OwnQueue
  <2>4. Others(r)' = {}
    <3>1. \A p \in Owners \ {r} : Active(p)' => Active(p)
      BY <1>5, StepActive
    <3> QED BY <1>i, <2>1, <2>2, <3>1 DEF Others
  <2>5. call'[r] # "looked"
    <3>1. CASE call[r] = "looked"
      <4>1. Enter(r)
        BY <1>5, <3>1, FreshEnters DEF FreshInv
      <4>2. call'[r] = "waits"
        BY <1>0, <4>1 DEF Enter, TypeInv, TypeOK
      <4> QED BY <4>2
    <3>2. CASE call[r] # "looked"
      BY <1>5, <3>2, OwnCall
    <3> QED BY <3>1, <3>2
  <2>6. Apart(r)'
    <3>1. \A p \in Owners \ {r} : hand'[p] = hand[p] /\ cons'[p] = cons[p]
      BY <1>5, StepFrame
    <3> QED BY <1>i, <2>2, <2>3, <3>1 DEF Apart
  <2> QED BY <1>i, <2>1, <2>2, <2>3, <2>4, <2>5, <2>6
<1> QED BY <1>1, <1>2, <1>3, <1>4, <1>5

-----------------------------------------------------------------------------
(* What is written stays written                                           *)

\* What is written of r in the row, and for whoever goes on with the task, stays so.
LEMMA StepStore ==
    ASSUME TypeInv, NEW o \in Owners, Step(o), NEW r, NEW s, NEW k, Written(row.log, r, s, k),
           cache[o] # NoTask => Written(cache[o].log, r, s, k),
           cons[o] = "save" => Written(obj[o].log, r, s, k),
           cons[o] \in {"apply", "save"} => hand[o].by # r
    PROVE  /\ Written(row'.log, r, s, k)
           /\ cache'[o] # NoTask => Written(cache'[o].log, r, s, k)
           /\ cons'[o] = "save" => Written(obj'[o].log, r, s, k)
<1> DEFINE Goal == /\ Written(row'.log, r, s, k)
                   /\ cache'[o] # NoTask => Written(cache'[o].log, r, s, k)
                   /\ cons'[o] = "save" => Written(obj'[o].log, r, s, k)
<1>0. /\ Reqs \subseteq Owners /\ cons \in [Owners -> {"none", "pull", "apply", "save", "over"}]
      /\ cache \in [Owners -> Task] /\ obj \in [Owners -> Task]
      /\ NoTask.log = <<>> /\ New.log = <<>>
  BY DEF TypeInv, TypeOK, Owners, NoTask, New
<1>1. ASSUME Take(o) PROVE Goal
  BY <1>0, <1>1 DEF Goal, Take, store, handler, agents
<1>2. ASSUME TakeEnd(o) PROVE Goal
  BY <1>0, <1>2 DEF Goal, TakeEnd, store, queues, handler, agents, history
<1>3. ASSUME Insert(o) PROVE Goal
  BY <1>0, <1>3 DEF Goal, Insert, queues, handler, agents, reading, history
<1>4. ASSUME Change(o) PROVE Goal
  <2> DEFINE old == IF cache[o] = NoTask THEN row ELSE cache[o]
             task == Apply(old, hand[o])
  <2>1. old \in Task /\ hand[o] \in Event /\ hand[o].by # r /\ Written(old.log, r, s, k)
    BY <1>4 DEF Change, TypeInv, TypeOK, Handed
  <2>2. old.log \in Seq(Event)
    BY <2>1 DEF Task
  <2> HIDE DEF old
  <2>3. Written(task.log, r, s, k)
    BY <2>1, <2>2, WriteOthers DEF Apply
  <2>4. /\ row' = row /\ obj'[o] = task /\ cache'[o] \in {NoTask, task}
    BY <1>0, <1>4 DEF Change, old
  <2> QED BY <2>3, <2>4
<1>5. ASSUME Commit(o) PROVE Goal
  BY <1>0, <1>5 DEF Goal, Commit, queues, handler, agents
<1>6. ASSUME Leave(o) PROVE Goal
  BY <1>0, <1>6 DEF Goal, Leave, store, queues, handler, agents
<1>7. ASSUME o \in Reqs, Enter(o) PROVE Goal
  BY <1>0, <1>7 DEF Goal, Enter, store, history
<1>8. ASSUME o \in Reqs, Return(o) PROVE Goal
  BY <1>0, <1>8 DEF Goal, Return, store, handler, reading, history
<1>9. ASSUME o \in Reqs, Returned(o) PROVE Goal
  BY <1>0, <1>9 DEF Goal, Returned, store, queues, handler, reading, history
<1>10. ASSUME o \in Reqs, Raise(o) PROVE Goal
  BY <1>0, <1>10 DEF Goal, Raise, store, queues, handler, reading, history
<1>11. ASSUME o \in Reqs, TakeFailure(o) PROVE Goal
  BY <1>0, <1>11 DEF Goal, TakeFailure, store, queues, handler, agents, history
<1>12. ASSUME o \in Reqs, TidyFails(o) PROVE Goal
  BY <1>0, <1>12 DEF Goal, TidyFails, store, queues, handler, agents, reading, history
<1>13. ASSUME o \in Reqs, Tidy(o) PROVE Goal
  BY <1>0, <1>13 DEF Goal, Tidy, store, agents, reading, history
<1>14. ASSUME o \in Reqs, Tidied(o) PROVE Goal
  BY <1>0, <1>14 DEF Goal, Tidied, store, queues, agents, reading, history
<1>15. ASSUME o \in Reqs, NEW kind \in Kinds, Emit(o, kind) PROVE Goal
  BY <1>0, <1>15 DEF Goal, Emit, store, handler, agents, reading
<1>16. ASSUME o \in Watchers, Watch(o) PROVE Goal
  BY <1>0, <1>16 DEF Goal, Watch, store, handler, agents, history
<1>17. ASSUME o \in Cancels, CancelTap(o) PROVE Goal
  BY <1>0, <1>17 DEF Goal, CancelTap, store, handler, agents, reading, history
<1>18. ASSUME o \in Cancels, CancelAgent(o) PROVE Goal
  BY <1>0, <1>18 DEF Goal, CancelAgent, store, handler, history
<1> QED
  BY <1>1, <1>2, <1>3, <1>4, <1>5, <1>6, <1>7, <1>8, <1>9, <1>10, <1>11, <1>12, <1>13, <1>14,
     <1>15, <1>16, <1>17, <1>18 DEF Step, Read

\* A step of somebody else keeps what is written of r.
LEMMA StepKept ==
    ASSUME TypeInv, NEW o \in Owners, Step(o), NEW r \in Reqs, r # o, Apart(r), Kept(r)
    PROVE  Kept(r)'
<1> DEFINE told == Len(UpToFinal(put[r]))
<1>0. r \in Owners \ {o} /\ o \in Owners \ {r} /\ Active(o)
  BY StepMoves, DisjointCalls
<1>1. put'[r] = put[r]
  BY <1>0, StepFrame
<1>2. /\ Written(row.log, r, put[r], told)
      /\ \A p \in Owners \ {r} :
           /\ Active(p) /\ cache[p] # NoTask => Written(cache[p].log, r, put[r], told)
           /\ cons[p] = "save" => Written(obj[p].log, r, put[r], told)
  BY DEF Kept
<1>3. \A p \in Owners \ {r, o} : /\ cache'[p] = cache[p] /\ obj'[p] = obj[p] /\ cons'[p] = cons[p]
                                 /\ Active(p)' => Active(p)
  BY StepFrame, StepActive
<1>4. cons[o] \in {"apply", "save"} => hand[o].by # r
  BY <1>0 DEF Apart
<1> HIDE DEF told
<1>5. /\ Written(row'.log, r, put[r], told)
      /\ cache'[o] # NoTask => Written(cache'[o].log, r, put[r], told)
      /\ cons'[o] = "save" => Written(obj'[o].log, r, put[r], told)
  BY <1>0, <1>2, <1>4, StepStore
<1>6. \A p \in Owners \ {r} :
        /\ Active(p)' /\ cache'[p] # NoTask => Written(cache'[p].log, r, put[r], told)
        /\ cons'[p] = "save" => Written(obj'[p].log, r, put[r], told)
  BY <1>2, <1>3, <1>5
<1> QED BY <1>1, <1>5, <1>6 DEF Kept, told

\* When nobody else goes on with the task, the row is all there is.
LEMMA KeptAlone ==
    ASSUME NEW r \in Reqs, \A p \in Owners \ {r} : ~Active(p)',
           Written(row'.log, r, put'[r], Len(UpToFinal(put'[r])))
    PROVE  Kept(r)'
<1>1. \A p \in Owners \ {r} : cons'[p] # "save"
  BY DEF Active
<1> QED BY <1>1 DEF Kept

-----------------------------------------------------------------------------
(* The flow of a request's events, by its own steps                        *)

\* How much of a sequence is no longer in the queue.
LEMMA RestLength ==
    ASSUME NEW s \in Seq(Event), NEW q \in Seq(Event), NEW k, IsRest(q, s, k)
    PROVE  Len(s) - Len(q) = k /\ k \in 0..Len(s)
<1>1. k \in 0..Len(s) /\ Len(q) = Len(s) - k /\ Len(s) \in Nat
  BY DEF IsRest
<1> QED BY <1>1

\* What is told of an agent whose events have all been taken, the last of them by its reader.
LEMMA ToldAll ==
    ASSUME NEW s \in Seq(Event), NEW k \in 0..Len(s), NoEnd(s, k - 1),
           (k = Len(s) \/ (k >= 1 /\ s[k].kind \in Final))
    PROVE  Len(UpToFinal(s)) = k
BY ToldUpTo

\* The consumer takes an event,
LEMMA OwnTake ==
    ASSUME TypeInv, NumberedInv, NEW r \in Reqs, Flow(r), kids[r] = {}, Take(r),
           \A p \in Owners \ {r} : ~Active(p)'
    PROVE  Flow(r)'
<1> DEFINE e == Head(queue[r])
           k == Len(put[r]) - Len(queue[r])
<1>0. /\ r \in Owners /\ queue[r] \in Seq(Event) /\ put[r] \in Seq(Event) /\ queue[r] # <<>>
      /\ hand \in [Owners -> Event \cup {Nobody}] /\ call \in [Owners -> CallStates]
      /\ cons \in [Owners -> {"none", "pull", "apply", "save", "over"}]
      /\ queue \in [Owners -> Seq(Event)]
  BY DisjointCalls DEF Take, TypeInv, TypeOK, CallStates
<1>1. /\ cons[r] = "pull" /\ ~failure[r] /\ hand'[r] = e
      /\ cons'[r] = IF e.kind = "message" THEN "over" ELSE "apply"
      /\ e.kind \notin Final => queue'[r] = Tail(queue[r]) /\ closed'[r] = closed[r]
      /\ e.kind \in Final => closed'[r] = TRUE
      /\ UNCHANGED <<row, cache, prod, failure, obj, put, lost>>
  BY <1>0 DEF Take, CloseNow, Tree, store, handler, agents
<1>2. e.kind = "message" => call'[r] # "waits"
  BY <1>0, <1>1 DEF Take, Ends, CallStates
<1>3. e.kind # "message" => call'[r] = call[r]
  BY <1>0, <1>1 DEF Take
<1> HIDE DEF e, k
<1>4. CASE r \in lost
  BY <1>1, <1>2, <1>3, <1>4 DEF Flow
<1>5. CASE r \notin lost
  <2>1. /\ IsRest(queue[r], put[r], k) /\ NoEnd(put[r], k)
        /\ Written(row.log, r, put[r], k) /\ cache[r] = row
    BY <1>1, <1>5 DEF Flow, Waiting, k
  <2>2. k + 1 \in 1..Len(put[r]) /\ e = put[r][k + 1] /\ IsRest(Tail(queue[r]), put[r], k + 1)
    BY <1>0, <2>1, TakeRest DEF e
  <2>3. e.no = k + 1 /\ e.by = r /\ k \in Nat
    <3>1. k \in 0..Len(put[r])
      BY <1>0, <2>1, RestLength
    <3> QED BY <1>0, <2>2, <3>1 DEF NumberedInv
  <2>6. (k + 1) - 1 = k /\ k + 1 \in Nat \ {0}
    BY <2>3
  <2>7. NoEnd(put[r], (k + 1) - 1) /\ Written(row.log, r, put[r], (k + 1) - 1)
    BY <2>1, <2>6
  <2>4. CASE e.kind = "message"
    <3>1. e.kind \in Final
      BY <2>4 DEF Final
    <3>2. Written(row.log, r, put[r], k + 1)
      BY <2>2, <2>4, <2>6, <2>7, WriteMessage
    <3>3. Len(UpToFinal(put[r])) = k + 1
      <4>1. k + 1 \in 0..Len(put[r]) /\ k + 1 >= 1 /\ put[r][k + 1].kind \in Final
        BY <1>0, <2>2, <2>3, <3>1
      <4> QED BY <1>0, <2>7, <4>1, ToldAll
    <3>4. Kept(r)'
      BY <1>1, <3>2, <3>3, KeptAlone
    <3> QED BY <1>1, <1>2, <2>4, <3>1, <3>4 DEF Flow
  <2>5. CASE e.kind # "message"
    <3>1. Applying(r)'
      <4>1. NoEnd(put[r], hand'[r].no - 1) /\ Written(row.log, r, put[r], hand'[r].no - 1)
        BY <1>1, <2>3, <2>7
      <4>2. hand'[r].no \in 1..Len(put[r]) /\ hand'[r] = put[r][hand'[r].no]
        BY <1>1, <2>2, <2>3
      <4>3. hand'[r].kind \notin Final => IsRest(queue'[r], put[r], hand'[r].no)
        BY <1>1, <2>2, <2>3
      <4> QED BY <1>1, <2>1, <2>5, <4>1, <4>2, <4>3 DEF Applying
    <3> QED BY <1>1, <1>3, <2>5, <3>1 DEF Flow
  <2> QED BY <2>4, <2>5
<1> QED BY <1>4, <1>5

\* sees the end of the queue,
LEMMA OwnTakeEnd ==
    ASSUME TypeInv, NEW r \in Reqs, Flow(r), TakeEnd(r), \A p \in Owners \ {r} : ~Active(p)'
    PROVE  Flow(r)'
<1>0. /\ r \in Owners /\ put[r] \in Seq(Event) /\ call \in [Owners -> CallStates]
      /\ cons \in [Owners -> {"none", "pull", "apply", "save", "over"}]
  BY DisjointCalls DEF TypeInv, TypeOK, CallStates
<1>1. /\ cons[r] = "pull" /\ ~failure[r] /\ queue[r] = <<>> /\ closed[r] /\ cons'[r] = "over"
      /\ call'[r] # "waits"
      /\ UNCHANGED <<row, cache, closed, prod, failure, obj, put, lost>>
  BY <1>0 DEF TakeEnd, Ends, store, queues, agents, history, CallStates
<1>2. CASE r \in lost
  BY <1>1, <1>2 DEF Flow
<1>3. CASE r \notin lost
  <2>1. NoEnd(put[r], Len(put[r])) /\ Written(row.log, r, put[r], Len(put[r]))
    BY <1>0, <1>1, <1>3 DEF Flow, Waiting
  <2>2. NoEnd(put[r], Len(put[r]) - 1) /\ Len(put[r]) \in 0..Len(put[r])
    BY <1>0, <2>1 DEF NoEnd
  <2>3. Len(UpToFinal(put[r])) = Len(put[r])
    BY <1>0, <2>2, ToldAll
  <2>4. Kept(r)'
    BY <1>1, <2>1, <2>3, KeptAlone
  <2> QED BY <1>1, <2>4 DEF Flow
<1> QED BY <1>2, <1>3

\* inserts the task,
LEMMA OwnInsert ==
    ASSUME TypeInv, NEW r \in Reqs, Flow(r), Insert(r)
    PROVE  Flow(r)'
<1>0. r \in Owners /\ cache \in [Owners -> Task] /\ NoTask.log = <<>> /\ New.log = <<>>
  BY DisjointCalls DEF TypeInv, TypeOK, NoTask, New
<1>1. /\ cons[r] = "apply" /\ row = NoTask /\ row' = New /\ cache'[r] = New
      /\ UNCHANGED <<queue, closed, prod, failure, cons, hand, call, put, lost>>
  BY <1>0 DEF Insert, queues, agents, reading, history
<1>2. ASSUME r \notin lost PROVE Applying(r)'
  <2>1. Applying(r)
    BY <1>1, <1>2 DEF Flow
  <2> QED BY <1>0, <1>1, <2>1 DEF Applying
<1> QED BY <1>1, <1>2 DEF Flow

\* applies the event to it,
LEMMA OwnChange ==
    ASSUME TypeInv, NumberedInv, NEW r \in Reqs, Flow(r), Change(r)
    PROVE  Flow(r)'
<1>0. r \in Owners /\ put[r] \in Seq(Event) /\ row \in Task /\ row.log \in Seq(Event)
      /\ cache \in [Owners -> Task] /\ obj \in [Owners -> Task]
      /\ cons \in [Owners -> {"none", "pull", "apply", "save", "over"}]
  BY DisjointCalls DEF TypeInv, TypeOK, Task
<1>1. /\ cons[r] = "apply" /\ cons'[r] = "save"
      /\ UNCHANGED <<row, queue, closed, prod, failure, hand, call, put, lost>>
  BY <1>0 DEF Change, queues, agents, history
<1>2. ASSUME r \notin lost PROVE Applying(r)'
  <2> DEFINE n == hand[r].no
             task == Apply(row, hand[r])
  <2>1. Applying(r) /\ cache[r] = row
    BY <1>1, <1>2 DEF Flow, Applying
  <2>2. cache[r] # NoTask
    BY <2>1 DEF Change
  <2>3. obj'[r] = task /\ cache'[r] = task
    BY <1>0, <2>1, <2>2 DEF Change
  <2>4. /\ n \in 1..Len(put[r]) /\ hand[r] = put[r][n] /\ Written(row.log, r, put[r], n - 1)
    BY <2>1 DEF Applying
  <2>5. put[r][n].by = r /\ put[r][n].no = n /\ put[r][n].kind # "message"
    BY <1>0, <1>1, <2>4 DEF NumberedInv, TypeInv, Handed
  <2> HIDE DEF n
  <2>6. Written(Append(row.log, put[r][n]), r, put[r], n)
    BY <1>0, <2>4, <2>5, WriteNext
  <2>7. task.log = Append(row.log, put[r][n])
    BY <2>4 DEF Apply
  <2> HIDE DEF task
  <2> QED BY <1>1, <2>1, <2>3, <2>6, <2>7 DEF Applying, n
<1> QED BY <1>1, <1>2 DEF Flow

\* saves it,
LEMMA OwnCommit ==
    ASSUME TypeInv, NEW r \in Reqs, Flow(r), Commit(r), \A p \in Owners \ {r} : ~Active(p)'
    PROVE  Flow(r)'
<1>0. /\ r \in Owners /\ put[r] \in Seq(Event) /\ call \in [Owners -> CallStates]
      /\ cache \in [Owners -> Task] /\ queue[r] \in Seq(Event)
      /\ cons \in [Owners -> {"none", "pull", "apply", "save", "over"}]
  BY DisjointCalls DEF TypeInv, TypeOK, CallStates
<1>1. /\ cons[r] = "save" /\ row' = obj[r] /\ cache'[r] = obj[r]
      /\ cons'[r] = IF hand[r].kind \in Final THEN "over" ELSE "pull"
      /\ UNCHANGED <<queue, closed, prod, failure, put, lost>>
  BY <1>0 DEF Commit, queues, agents
<1>2. call'[r] = "waits" => call[r] = "waits" /\ hand[r].kind \notin Final
  BY <1>0 DEF Commit, Ends, CallStates
<1>3. CASE r \in lost
  BY <1>1, <1>2, <1>3 DEF Flow
<1>4. CASE r \notin lost
  <2> DEFINE n == hand[r].no
  <2>1. /\ n \in 1..Len(put[r]) /\ hand[r] = put[r][n] /\ NoEnd(put[r], n - 1)
        /\ hand[r].kind \notin Final => IsRest(queue[r], put[r], n)
        /\ hand[r].kind \in Final => closed[r]
        /\ cache[r] = obj[r] /\ Written(obj[r].log, r, put[r], n)
    BY <1>1, <1>4 DEF Flow, Applying
  <2> HIDE DEF n
  <2>2. CASE hand[r].kind \in Final
    <3>1. Len(UpToFinal(put[r])) = n
      BY <1>0, <2>1, <2>2, ToldAll
    <3>2. Kept(r)'
      BY <1>1, <2>1, <3>1, KeptAlone
    <3> QED BY <1>1, <1>2, <2>1, <2>2, <3>2 DEF Flow
  <2>3. CASE hand[r].kind \notin Final
    <3>1. Len(put[r]) - Len(queue[r]) = n
      BY <1>0, <2>1, <2>3, RestLength
    <3>2. NoEnd(put[r], n)
      BY <2>1, <2>3 DEF NoEnd
    <3>3. Waiting(r)'
      BY <1>1, <2>1, <2>3, <3>1, <3>2 DEF Waiting
    <3> QED BY <1>1, <1>2, <1>4, <2>3, <3>3 DEF Flow
  <2> QED BY <2>2, <2>3
<1> QED BY <1>3, <1>4

\* or loses its client.
LEMMA OwnLeave ==
    ASSUME TypeInv, NEW r \in Reqs, Flow(r), Leave(r)
    PROVE  Flow(r)'
<1>0. /\ r \in Owners /\ call \in [Owners -> CallStates]
      /\ cons \in [Owners -> {"none", "pull", "apply", "save", "over"}]
  BY DisjointCalls DEF TypeInv, TypeOK, CallStates
<1>1. /\ cons'[r] = "pull" /\ call'[r] = "left"
      /\ r \notin lost' => r \notin lost /\ cons[r] = "pull"
      /\ UNCHANGED <<row, cache, queue, closed, prod, failure, put>>
  BY <1>0 DEF Leave, store, queues, agents
<1>2. ASSUME r \notin lost' PROVE Waiting(r)'
  BY <1>1, <1>2 DEF Flow, Waiting
<1> QED BY <1>1, <1>2 DEF Flow

\* The request enters.
LEMMA OwnEnter ==
    ASSUME TypeInv, NEW r \in Reqs, Flow(r), Enter(r), Fresh(r), cache[r] = row
    PROVE  Flow(r)'
<1>0. /\ r \in Owners /\ call \in [Owners -> CallStates] /\ prod[r] = "none" /\ cons[r] = "none"
      /\ cons \in [Owners -> {"none", "pull", "apply", "save", "over"}]
      /\ put[r] = <<>> /\ queue[r] = <<>> /\ r \notin lost /\ ~failure[r]
  BY DisjointCalls DEF TypeInv, TypeOK, CallStates, Fresh
<1>1. /\ cons'[r] = "pull" /\ call'[r] = "waits"
      /\ UNCHANGED <<row, cache, queue, failure, put, lost>>
  BY <1>0 DEF Enter, store, history
<1>2. Written(row.log, r, put[r], Len(UpToFinal(put[r])))
  BY <1>0 DEF Flow, Kept
<1>3. NoEnd(put[r], 0) /\ NoEnd(put[r], 0 - 1) /\ Len(put[r]) = 0 /\ put[r] \in Seq(Event)
  BY <1>0 DEF NoEnd
<1>4. Len(UpToFinal(put[r])) = 0
  BY <1>3, ToldAll
<1>5. IsRest(queue[r], put[r], 0)
  BY <1>0 DEF IsRest
<1>6. Len(put[r]) - Len(queue[r]) = 0
  BY <1>0
<1>7. Waiting(r)'
  BY <1>1, <1>2, <1>3, <1>4, <1>5, <1>6 DEF Waiting
<1> QED BY <1>0, <1>1, <1>7 DEF Flow

\* A step at which no event moves.
LEMMA OwnQuiet ==
    ASSUME TypeInv, NEW r \in Reqs, Flow(r), \A p \in Owners \ {r} : ~Active(p)',
           UNCHANGED <<row, cache, obj, hand, cons, lost>>,
           queue'[r] = queue[r], put'[r] = put[r], closed[r] => closed'[r],
           failure'[r] => prod'[r] = "raised", prod[r] = "raised" => prod'[r] = "raised",
           prod[r] = "none" => prod'[r] = "none", call'[r] = "waits" => call[r] = "waits"
    PROVE  Flow(r)'
<1>1. Waiting(r) => Waiting(r)'
  BY DEF Waiting
<1>2. Applying(r) => Applying(r)'
  BY DEF Applying
<1>3. Kept(r) => Kept(r)'
  <2>1. ASSUME Kept(r) PROVE Written(row'.log, r, put'[r], Len(UpToFinal(put'[r])))
    BY <2>1 DEF Kept
  <2> QED BY <2>1, KeptAlone
<1> QED BY <1>1, <1>2, <1>3 DEF Flow

\* The consumer hears that the agent has raised.
LEMMA OwnTakeFailure ==
    ASSUME TypeInv, NEW r \in Reqs, Flow(r), TakeFailure(r)
    PROVE  Flow(r)'
<1>0. /\ r \in Owners /\ call \in [Owners -> CallStates]
      /\ cons \in [Owners -> {"none", "pull", "apply", "save", "over"}]
  BY DisjointCalls DEF TypeInv, TypeOK, CallStates
<1>1. /\ cons'[r] = "over" /\ call'[r] # "waits" /\ failure[r]
      /\ UNCHANGED <<prod, failure>>
  BY <1>0 DEF TakeFailure, agents
<1> QED BY <1>1 DEF Flow

\* The agent emits into an open queue.
LEMMA OwnEmit ==
    ASSUME TypeInv, NEW r \in Reqs, Flow(r), NEW kind \in Kinds, Emit(r, kind), ~closed[r],
           kids[r] = {}
    PROVE  Flow(r)'
<1> DEFINE e == [kind |-> kind, by |-> r, no |-> Len(put[r]) + 1]
<1>1. /\ e \in Event /\ Enqueue(r, e) /\ prod[r] = "runs" /\ put'[r] = Append(put[r], e)
      /\ UNCHANGED <<row, cache, closed, prod, failure, cons, hand, obj, call, lost>>
  BY Emitted
<1> HIDE DEF e
<1>2. r \in Owners /\ put[r] \in Seq(Event) /\ queue[r] \in Seq(Event)
  BY DisjointCalls DEF TypeInv, TypeOK
<1>3. queue'[r] = Append(queue[r], e)
  BY <1>1, <1>2 DEF Enqueue, Tree
<1>4. ASSUME NEW k, IsRest(queue[r], put[r], k)
      PROVE  k \in 0..Len(put[r]) /\ IsRest(queue'[r], put'[r], k)
  BY <1>1, <1>2, <1>3, <1>4, PutRest, RestLength
<1>5. ASSUME NEW k \in 0..Len(put[r]), NEW log, Written(log, r, put[r], k)
      PROVE  Written(log, r, put'[r], k)
  BY <1>1, <1>2, <1>5, WriteLater
<1>6. \A n \in 1..Len(put[r]) : put'[r][n] = put[r][n]
  BY <1>1, <1>2
<1>7. Len(put'[r]) = Len(put[r]) + 1 /\ Len(queue'[r]) = Len(queue[r]) + 1
      /\ Len(put[r]) \in Nat /\ Len(queue[r]) \in Nat
  BY <1>1, <1>2, <1>3
<1>n. ASSUME NEW k \in 0..Len(put[r]), NoEnd(put[r], k) PROVE NoEnd(put'[r], k)
  BY <1>6, <1>7, <1>n DEF NoEnd
<1>8. ASSUME r \notin lost, cons[r] = "pull" PROVE Waiting(r)'
  <2> DEFINE k == Len(put[r]) - Len(queue[r])
  <2>1. /\ IsRest(queue[r], put[r], k) /\ NoEnd(put[r], k)
        /\ Written(row.log, r, put[r], k) /\ cache[r] = row
    BY <1>8 DEF Flow, Waiting
  <2>2. k = Len(put'[r]) - Len(queue'[r])
    BY <1>7
  <2> HIDE DEF k
  <2>3. k \in 0..Len(put[r]) /\ IsRest(queue'[r], put'[r], k) /\ Written(row.log, r, put'[r], k)
    BY <1>4, <1>5, <2>1
  <2>4. NoEnd(put'[r], k)
    BY <1>n, <2>1, <2>3
  <2> QED BY <1>1, <2>1, <2>2, <2>3, <2>4 DEF Waiting
<1>9. ASSUME r \notin lost, cons[r] \in {"apply", "save"} PROVE Applying(r)'
  <2> DEFINE n == hand[r].no
  <2>1. /\ n \in 1..Len(put[r]) /\ hand[r] = put[r][n] /\ NoEnd(put[r], n - 1)
        /\ hand[r].kind \notin Final => IsRest(queue[r], put[r], n)
        /\ hand[r].kind \in Final => closed[r]
        /\ Written(row.log, r, put[r], n - 1)
        /\ cons[r] = "apply" => cache[r] = row
        /\ cons[r] = "save" => cache[r] = obj[r] /\ Written(obj[r].log, r, put[r], n)
    BY <1>9 DEF Flow, Applying
  <2> HIDE DEF n
  <2>2. n \in 1..Len(put'[r]) /\ put'[r][n] = put[r][n] /\ n - 1 \in 0..Len(put[r])
        /\ n \in 0..Len(put[r])
    BY <1>6, <1>7, <2>1
  <2>3. NoEnd(put'[r], n - 1)
    BY <1>n, <2>1, <2>2
  <2>4. hand[r].kind \notin Final => IsRest(queue'[r], put'[r], n)
    BY <1>4, <2>1
  <2>5. Written(row.log, r, put'[r], n - 1)
    BY <1>5, <2>1, <2>2
  <2>6. cons[r] = "save" => Written(obj[r].log, r, put'[r], n)
    BY <1>5, <2>1, <2>2
  <2>7. n = hand'[r].no
    BY <1>1 DEF n
  <2> QED BY <1>1, <2>1, <2>2, <2>3, <2>4, <2>5, <2>6, <2>7 DEF Applying
<1> QED BY <1>1, <1>8, <1>9 DEF Flow

\* All that a request that is alone does keeps the flow of its events.
LEMMA OwnFlow ==
    ASSUME TypeInv, NumberedInv, NEW r \in Reqs, Flow(r), Step(r), kids[r] = {},
           \A p \in Owners \ {r} : ~Active(p)',
           call[r] = "looked" => Fresh(r) /\ cache[r] = row
    PROVE  Flow(r)'
<1>0. /\ r \in Owners /\ call \in [Owners -> CallStates]
      /\ prod \in [Reqs -> {"none", "runs", "closing", "over", "raised", "cancelled"}]
      /\ failure \in [Owners -> BOOLEAN]
  BY DisjointCalls DEF TypeInv, TypeOK, CallStates
<1>c. closed[r] => closed'[r]
  BY <1>0, StepCloses
<1>1. CASE Take(r) \/ TakeEnd(r) \/ Insert(r) \/ Change(r) \/ Commit(r) \/ Leave(r)
  BY <1>1, OwnTake, OwnTakeEnd, OwnInsert, OwnChange, OwnCommit, OwnLeave
<1>2. CASE Enter(r)
  BY <1>2, OwnEnter DEF Enter
<1>3. CASE Return(r)
  <2>1. UNCHANGED <<row, cache, obj, hand, cons, lost, queue, put, failure, call>>
        /\ prod[r] = "runs"
    BY <1>3 DEF Return, Close, store, reading, history
  <2> QED BY <1>c, <2>1, OwnQuiet DEF Flow
<1>4. CASE Returned(r)
  <2>1. UNCHANGED <<row, cache, obj, hand, cons, lost, queue, put, failure, call>>
        /\ prod[r] = "closing"
    BY <1>4 DEF Returned, store, queues, reading, history
  <2> QED BY <1>c, <2>1, OwnQuiet DEF Flow
<1>5. CASE Raise(r)
  <2>1. UNCHANGED <<row, cache, obj, hand, cons, lost, queue, put, call>>
        /\ prod[r] = "runs" /\ prod'[r] = "raised"
    BY <1>0, <1>5 DEF Raise, store, queues, reading, history
  <2> QED BY <1>c, <2>1, OwnQuiet
<1>6. CASE TakeFailure(r)
  BY <1>6, OwnTakeFailure
<1>7. CASE TidyFails(r) \/ Tidy(r) \/ Tidied(r)
  <2>1. UNCHANGED <<row, cache, obj, hand, cons, lost, queue, put, failure, prod>>
    BY <1>7 DEF TidyFails, Tidy, Tidied, Close, store, queues, agents, reading, history
  <2>2. call'[r] = "waits" => call[r] = "waits"
    BY <1>0, <1>7 DEF TidyFails, Tidy, Tidied
  <2> QED BY <1>c, <2>1, <2>2, OwnQuiet DEF Flow
<1>8. ASSUME NEW kind \in Kinds, Emit(r, kind) PROVE Flow(r)'
  <2>1. CASE closed[r]
    <3>1. put'[r] = put[r] /\ UNCHANGED <<row, cache, prod, failure, cons, hand, obj, call, lost>>
      BY <1>8, <2>1, Emitted
    <3>2. queue'[r] = queue[r]
      BY <1>0, <1>8, <2>1 DEF Emit, Enqueue
    <3> QED BY <1>c, <3>1, <3>2, OwnQuiet DEF Flow
  <2>2. CASE ~closed[r]
    BY <1>8, <2>2, OwnEmit
  <2> QED BY <2>1, <2>2
<1> QED BY <1>1, <1>2, <1>3, <1>4, <1>5, <1>6, <1>7, <1>8, DisjointCalls DEF Step, Read

\* And so does every step.
LEMMA NextFlow ==
    ASSUME TypeInv, NumberedInv, FreshInv, AloneInv, FlowInv, Next
    PROVE  FlowInv'
<1> SUFFICES ASSUME NEW r \in Reqs, r \notin mixed' PROVE Flow(r)'
  BY DEF FlowInv, Alone
<1>0. r \in Owners /\ mixed \in SUBSET Owners
  BY DisjointCalls DEF TypeInv, TypeOK
<1>1. PICK o \in Owners : Look(o) \/ Step(o)
  BY NextIsStep
<1>2. r \notin mixed
  BY <1>1, LookFrame, StepMixed
<1>3. Flow(r)
  BY <1>2 DEF FlowInv, Alone
<1>4. /\ Active(r) => /\ Others(r) = {} /\ kids[r] = {} /\ entry \in {r, Nobody}
      /\ call[r] = "looked" => entry = Nobody /\ cache[r] = row
      /\ Apart(r)
  BY <1>2 DEF AloneInv, Alone
<1>5. CASE Look(o)
  <2>1. o # r => ~Active(r)
    BY <1>0, <1>5, LookMixes
  <2>2. o = r => ~Active(r)
    <3>1. o = r => Fresh(r) /\ call[r] = "idle"
      BY <1>5, LookFrame DEF FreshInv
    <3> QED BY <3>1 DEF Fresh, Active
  <2>3. cons[r] \notin {"pull", "apply", "save"} /\ call'[r] # "waits"
    BY <1>0, <1>5, <2>1, <2>2, LookFrame DEF Active
  <2>4. ASSUME Kept(r) PROVE Kept(r)'
    <3> DEFINE told == Len(UpToFinal(put[r]))
    <3>1. /\ Written(row.log, r, put[r], told)
          /\ \A p \in Owners \ {r} :
               /\ Active(p) /\ cache[p] # NoTask => Written(cache[p].log, r, put[r], told)
               /\ cons[p] = "save" => Written(obj[p].log, r, put[r], told)
      BY <2>4 DEF Kept
    <3>2. UNCHANGED <<row, put, cons, obj>> /\ cache'[o] \in {row, NoTask}
          /\ \A p \in Owners \ {o} : cache'[p] = cache[p] /\ (Active(p)' <=> Active(p))
      BY <1>5, LookFrame DEF Active
    <3> HIDE DEF told
    <3>3. \A p \in Owners \ {r} :
               /\ Active(p)' /\ cache'[p] # NoTask => Written(cache'[p].log, r, put[r], told)
               /\ cons'[p] = "save" => Written(obj'[p].log, r, put[r], told)
      BY <3>1, <3>2
    <3> QED BY <3>1, <3>2, <3>3 DEF Kept, told
  <2> QED BY <1>3, <1>5, <2>3, <2>4, LookFrame DEF Flow
<1>6. CASE Step(o) /\ o # r
  <2>1. r \in Owners \ {o} /\ o \in Owners \ {r} /\ Active(o)
    BY <1>0, <1>6, StepMoves
  <2>2. ~Active(r)
    BY <1>4, <2>1 DEF Others
  <2>3. /\ call'[r] = call[r] /\ cons'[r] = cons[r] /\ failure'[r] = failure[r]
        /\ (r \in lost' <=> r \in lost)
        /\ prod'[r] = prod[r] \/ prod[r] \in {"runs", "closing"}
    BY <1>6, <2>1, StepFrame
  <2>4. /\ call[r] # "waits" /\ cons[r] \notin {"pull", "apply", "save"}
        /\ prod[r] \notin {"runs", "closing"}
    BY <2>2 DEF Active
  <2>5. Kept(r) => Kept(r)'
    BY <1>4, <1>6, StepKept
  <2>6. closed[r] => closed'[r]
    BY <1>0, <1>6, StepCloses
  <2> QED BY <1>3, <2>3, <2>4, <2>5, <2>6 DEF Flow
<1>7. CASE Step(o) /\ o = r
  <2>1. Active(r)
    BY <1>7, StepMoves
  <2>2. \A p \in Owners \ {r} : ~Active(p)'
    <3>1. \A p \in Owners \ {r} : ~Active(p)
      BY <1>4, <2>1 DEF Others
    <3>2. \A p \in Owners \ {r} : Active(p)' => Active(p)
      BY <1>7, StepActive
    <3> QED BY <3>1, <3>2
  <2>3. call[r] = "looked" => Fresh(r) /\ cache[r] = row
    BY <1>4 DEF FreshInv
  <2> QED BY <1>3, <1>4, <1>7, <2>1, <2>2, <2>3, OwnFlow
<1> QED BY <1>1, <1>5, <1>6, <1>7

-----------------------------------------------------------------------------
(* What a stream yields                                                    *)

\* The next event of a stream.
LEMMA Yields ==
    ASSUME NEW s \in Seq(Event), NEW t \in Seq(Event), NEW n \in 1..Len(t), Len(s) = n - 1,
           \A i \in 1..Len(s) : s[i] = t[i]
    PROVE  /\ Len(Append(s, t[n])) = n
           /\ \A i \in 1..Len(Append(s, t[n])) : Append(s, t[n])[i] = t[i]
<1> DEFINE u == Append(s, t[n])
<1>1. Len(u) = Len(s) + 1 /\ u[Len(s) + 1] = t[n] /\ Len(s) \in Nat
      /\ \A i \in 1..Len(s) : u[i] = s[i]
  OBVIOUS
<1> HIDE DEF u
<1>2. Len(u) = n
  BY <1>1
<1>3. ASSUME NEW i \in 1..Len(u) PROVE u[i] = t[i]
  <2>1. CASE i = n
    BY <1>1, <2>1
  <2>2. CASE i \in 1..Len(s)
    BY <1>1, <2>2
  <2> QED BY <1>1, <1>2, <2>1, <2>2
<1> QED BY <1>2, <1>3 DEF u

\* A stream whose consumer takes an event,
LEMMA StreamTake ==
    ASSUME TypeInv, NumberedInv, NEW r \in Reqs, Flow(r), mode[r] = "stream", Streamed(r), Take(r)
    PROVE  Streamed(r)'
<1> DEFINE e == Head(queue[r])
           k == Len(put[r]) - Len(queue[r])
<1>0. /\ r \in Owners /\ queue[r] \in Seq(Event) /\ put[r] \in Seq(Event) /\ queue[r] # <<>>
      /\ hand \in [Owners -> Event \cup {Nobody}] /\ call \in [Owners -> CallStates]
      /\ cons \in [Owners -> {"none", "pull", "apply", "save", "over"}]
      /\ seen \in [Owners -> Seq(Event)] /\ closed \in [Owners -> BOOLEAN]
      /\ r \notin Cancels /\ Streams(r) /\ seen[r] \in Seq(Event)
  BY DisjointCalls DEF Take, TypeInv, TypeOK, CallStates, Streams
<1>1. /\ cons[r] = "pull" /\ hand'[r] = e
      /\ cons'[r] = IF e.kind = "message" THEN "over" ELSE "apply"
      /\ closed[r] \/ e.kind \in Final => closed'[r]
      /\ UNCHANGED <<prod, put>>
  BY <1>0 DEF Take, CloseNow, Tree, store, handler, agents
<1>2. CASE call[r] # "waits"
  <2>1. call'[r] = call[r] /\ seen'[r] = seen[r]
    BY <1>0, <1>2 DEF Take, Ends
  <2> QED BY <1>1, <1>2, <2>1 DEF Streamed
<1>3. CASE call[r] = "waits"
  <2>1. IsRest(queue[r], put[r], k) /\ NoEnd(put[r], k)
    BY <1>1, <1>3 DEF Flow, Waiting
  <2>2. /\ Len(seen[r]) = k /\ NoEnd(put[r], Len(seen[r]) - 1)
        /\ \A i \in 1..Len(seen[r]) : seen[r][i] = put[r][i]
    BY <1>1, <1>3 DEF Streamed
  <2>3. e.kind = "message" => call'[r] = "answered" /\ seen'[r] = Append(seen[r], e)
    BY <1>0, <1>3 DEF Take, Ends
  <2>4. e.kind # "message" => call'[r] = "waits" /\ seen'[r] = seen[r]
    BY <1>0, <1>3 DEF Take
  <2> HIDE DEF e, k
  <2>5. k + 1 \in 1..Len(put[r]) /\ e = put[r][k + 1] /\ k \in 0..Len(put[r])
    BY <1>0, <2>1, TakeRest, RestLength DEF e
  <2>6. e.no = k + 1 /\ (k + 1) - 1 = k
    BY <2>5 DEF NumberedInv
  <2>7. CASE e.kind = "message"
    <3>1. e.kind \in Final
      BY <2>7 DEF Final
    <3>2. /\ Len(seen'[r]) = k + 1
          /\ \A i \in 1..Len(seen'[r]) : seen'[r][i] = put[r][i]
      <4>1. Len(seen[r]) = (k + 1) - 1
        BY <2>2, <2>6
      <4>2. seen'[r] = Append(seen[r], put[r][k + 1])
        <5>1. seen'[r] = Append(seen[r], e)
          BY <2>3, <2>7
        <5>2. e = put[r][k + 1]
          BY <2>5
        <5> QED BY <5>1, <5>2, Zenon
      <4>3. /\ Len(Append(seen[r], put[r][k + 1])) = k + 1
            /\ \A i \in 1..Len(Append(seen[r], put[r][k + 1])) :
                 Append(seen[r], put[r][k + 1])[i] = put[r][i]
        <5>1. k + 1 \in 1..Len(put[r]) /\ seen[r] \in Seq(Event) /\ put[r] \in Seq(Event)
              /\ \A i \in 1..Len(seen[r]) : seen[r][i] = put[r][i]
          BY <1>0, <2>2, <2>5
        <5> QED BY <4>1, <5>1, Yields
      <4> QED BY <4>2, <4>3
    <3>3. NoEnd(put[r], (k + 1) - 1)
      BY <2>1, <2>6
    <3>4. Len(UpToFinal(put[r])) = k + 1
      <4>1. k + 1 \in 0..Len(put[r]) /\ k + 1 >= 1 /\ put[r][k + 1].kind \in Final
        BY <1>0, <2>5, <3>1
      <4> QED BY <1>0, <3>3, <4>1, ToldAll
    <3>5. Len(seen'[r]) <= Len(put[r])
      BY <1>0, <2>5, <3>2
    <3> QED BY <1>1, <2>3, <2>7, <3>1, <3>2, <3>3, <3>4, <3>5 DEF Streamed
  <2>8. CASE e.kind # "message"
    <3>1. Len(seen'[r]) = hand'[r].no - 1 /\ Len(seen'[r]) <= Len(put[r])
      BY <1>0, <1>1, <2>2, <2>4, <2>5, <2>6, <2>8
    <3> QED BY <1>1, <2>2, <2>4, <2>8, <3>1 DEF Streamed
  <2> QED BY <2>7, <2>8
<1> QED BY <1>2, <1>3

\* sees the end of the queue,
LEMMA StreamTakeEnd ==
    ASSUME TypeInv, NEW r \in Reqs, Flow(r), mode[r] = "stream", Streamed(r), TakeEnd(r)
    PROVE  Streamed(r)'
<1>0. /\ r \in Owners /\ put[r] \in Seq(Event) /\ call \in [Owners -> CallStates]
      /\ cons \in [Owners -> {"none", "pull", "apply", "save", "over"}]
      /\ r \notin Cancels /\ Streams(r)
  BY DisjointCalls DEF TypeInv, TypeOK, CallStates, Streams
<1>1. /\ cons[r] = "pull" /\ queue[r] = <<>> /\ closed[r] /\ cons'[r] = "over"
      /\ call'[r] = IF call[r] = "waits" THEN "answered" ELSE call[r]
      /\ UNCHANGED <<closed, prod, put, seen>>
  BY <1>0 DEF TakeEnd, Ends, queues, agents, history
<1>2. CASE call[r] # "waits"
  BY <1>1, <1>2 DEF Streamed
<1>3. CASE call[r] = "waits"
  <2>1. NoEnd(put[r], Len(put[r])) /\ Len(seen[r]) = Len(put[r])
    BY <1>0, <1>1, <1>3 DEF Flow, Waiting, Streamed
  <2>2. NoEnd(put[r], Len(put[r]) - 1) /\ Len(put[r]) \in 0..Len(put[r])
    BY <1>0, <2>1 DEF NoEnd
  <2>3. Len(UpToFinal(put[r])) = Len(put[r])
    BY <1>0, <2>2, ToldAll
  <2> QED BY <1>1, <1>3, <2>1, <2>3 DEF Streamed
<1> QED BY <1>2, <1>3

\* or saves what it took.
LEMMA StreamCommit ==
    ASSUME TypeInv, NEW r \in Reqs, Flow(r), mode[r] = "stream", Streamed(r), Commit(r)
    PROVE  Streamed(r)'
<1>0. /\ r \in Owners /\ put[r] \in Seq(Event) /\ call \in [Owners -> CallStates]
      /\ queue[r] \in Seq(Event) /\ seen \in [Owners -> Seq(Event)] /\ seen[r] \in Seq(Event)
      /\ cons \in [Owners -> {"none", "pull", "apply", "save", "over"}]
      /\ r \notin Cancels /\ Streams(r)
  BY DisjointCalls DEF TypeInv, TypeOK, CallStates, Streams
<1>1. /\ cons[r] = "save" /\ ~Interrupts(r)
      /\ cons'[r] = IF hand[r].kind \in Final THEN "over" ELSE "pull"
      /\ UNCHANGED <<queue, closed, prod, put>>
  BY <1>0 DEF Commit, queues, agents, Interrupts
<1>2. CASE call[r] # "waits"
  <2>1. call'[r] = call[r] /\ seen'[r] = seen[r]
    BY <1>0, <1>1, <1>2 DEF Commit, Ends
  <2> QED BY <1>1, <1>2, <2>1 DEF Streamed
<1>3. CASE call[r] = "waits"
  <2> DEFINE n == hand[r].no
  <2>1. /\ n \in 1..Len(put[r]) /\ hand[r] = put[r][n] /\ NoEnd(put[r], n - 1)
        /\ hand[r].kind \notin Final => IsRest(queue[r], put[r], n)
        /\ hand[r].kind \in Final => closed[r]
    BY <1>1, <1>3 DEF Flow, Applying
  <2>2. Len(seen[r]) = n - 1 /\ \A i \in 1..Len(seen[r]) : seen[r][i] = put[r][i]
    BY <1>1, <1>3 DEF Streamed
  <2>3. seen'[r] = Append(seen[r], hand[r])
    BY <1>0, <1>3 DEF Commit
  <2>4. call'[r] = IF hand[r].kind \in Final THEN "answered" ELSE "waits"
    BY <1>0, <1>1, <1>3 DEF Commit, Ends
  <2> HIDE DEF n
  <2>5. /\ Len(seen'[r]) = n
        /\ \A i \in 1..Len(seen'[r]) : seen'[r][i] = put[r][i]
    BY <1>0, <2>1, <2>2, <2>3, Yields
  <2>6. n <= Len(put[r])
    BY <1>0, <2>1
  <2>7. CASE hand[r].kind \in Final
    <3>1. Len(UpToFinal(put[r])) = n
      BY <1>0, <2>1, <2>7, ToldAll
    <3> QED BY <1>1, <2>1, <2>4, <2>5, <2>6, <2>7, <3>1 DEF Streamed
  <2>8. CASE hand[r].kind \notin Final
    <3>1. Len(put[r]) - Len(queue[r]) = n
      BY <1>0, <2>1, <2>8, RestLength
    <3> QED BY <1>1, <2>1, <2>4, <2>5, <2>6, <2>8, <3>1 DEF Streamed
  <2> QED BY <2>7, <2>8
<1> QED BY <1>2, <1>3

\* The agent emits; the stream has not seen it.
LEMMA StreamEmit ==
    ASSUME TypeInv, NEW r \in Reqs, Streamed(r), NEW kind \in Kinds, Emit(r, kind), ~closed[r]
    PROVE  Streamed(r)'
<1> DEFINE e == [kind |-> kind, by |-> r, no |-> Len(put[r]) + 1]
<1>1. /\ e \in Event /\ Enqueue(r, e) /\ put'[r] = Append(put[r], e)
      /\ UNCHANGED <<closed, prod, cons, hand, call, seen>>
  BY Emitted
<1> HIDE DEF e
<1>2. r \in Owners /\ put[r] \in Seq(Event) /\ queue[r] \in Seq(Event) /\ seen[r] \in Seq(Event)
  BY DisjointCalls DEF TypeInv, TypeOK
<1>3. queue'[r] = Append(queue[r], e)
  BY <1>1, <1>2 DEF Enqueue, Tree
<1>4. /\ Len(put'[r]) = Len(put[r]) + 1 /\ Len(queue'[r]) = Len(queue[r]) + 1
      /\ Len(put[r]) \in Nat /\ Len(queue[r]) \in Nat /\ Len(seen[r]) \in Nat
      /\ \A n \in 1..Len(put[r]) : put'[r][n] = put[r][n]
  BY <1>1, <1>2, <1>3
<1>5. /\ Len(seen[r]) <= Len(put'[r])
      /\ \A i \in 1..Len(seen[r]) : seen[r][i] = put'[r][i]
      /\ NoEnd(put'[r], Len(seen[r]) - 1)
  BY <1>4 DEF Streamed, NoEnd
<1>6. Len(put'[r]) - Len(queue'[r]) = Len(put[r]) - Len(queue[r])
  BY <1>4
<1> QED BY <1>1, <1>5, <1>6 DEF Streamed

\* A step at which the stream yields nothing.
LEMMA StreamQuiet ==
    ASSUME TypeInv, NEW r \in Reqs, Streamed(r), seen'[r] = seen[r], put'[r] = put[r],
           closed[r] => closed'[r], prod[r] = "raised" => prod'[r] = "raised",
           (call'[r] \in {"left", "failed"})
           \/ (call'[r] = call[r] /\ hand'[r] = hand[r] /\ queue'[r] = queue[r]
               /\ (cons'[r] = cons[r] \/ (cons[r] = "apply" /\ cons'[r] = "save")))
    PROVE  Streamed(r)'
BY DEF Streamed

\* All that a stream that is alone does keeps what it has yielded.
LEMMA OwnStreamed ==
    ASSUME TypeInv, NumberedInv, NEW r \in Reqs, Flow(r), mode[r] = "stream", Streamed(r), Step(r),
           call[r] = "looked" => Fresh(r)
    PROVE  Streamed(r)'
<1>0. /\ r \in Owners /\ call \in [Owners -> CallStates] /\ call[r] # "cleans"
      /\ prod \in [Reqs -> {"none", "runs", "closing", "over", "raised", "cancelled"}]
      /\ cons \in [Owners -> {"none", "pull", "apply", "save", "over"}]
      /\ Streams(r)
  BY DisjointCalls DEF TypeInv, TypeOK, CallStates, Streams, Streamed
<1>c. closed[r] => closed'[r]
  BY <1>0, StepCloses
<1>1. CASE Take(r) \/ TakeEnd(r) \/ Commit(r)
  BY <1>1, StreamTake, StreamTakeEnd, StreamCommit
<1>2. CASE Insert(r) \/ Change(r)
  <2>1. /\ UNCHANGED <<seen, put, prod, call, hand, queue>>
        /\ cons'[r] = cons[r] \/ (cons[r] = "apply" /\ cons'[r] = "save")
    BY <1>0, <1>2 DEF Insert, Change, queues, agents, reading, history
  <2> QED BY <1>c, <2>1, StreamQuiet
<1>3. CASE Leave(r) \/ TakeFailure(r)
  <2>1. UNCHANGED <<seen, put, prod>>
    BY <1>3 DEF Leave, TakeFailure, agents, history
  <2>2. CASE call[r] = "waits"
    <3>1. call'[r] \in {"left", "failed"}
      BY <1>0, <1>3, <2>2 DEF Leave, TakeFailure
    <3> QED BY <1>c, <2>1, <3>1, StreamQuiet
  <2>3. CASE call[r] # "waits"
    <3>1. TakeFailure(r) /\ call'[r] = call[r]
      BY <1>0, <1>3, <2>3 DEF Leave, TakeFailure
    <3> QED BY <1>c, <2>1, <2>3, <3>1 DEF Streamed
  <2> QED BY <2>2, <2>3
<1>4. CASE Enter(r)
  <2>1. Fresh(r) /\ UNCHANGED <<seen, put, queue>> /\ cons'[r] = "pull" /\ call'[r] = "waits"
    BY <1>0, <1>4 DEF Enter, history
  <2>2. seen[r] = <<>> /\ put[r] = <<>> /\ queue[r] = <<>>
    BY <2>1 DEF Fresh
  <2> QED BY <2>1, <2>2 DEF Streamed, NoEnd
<1>5. CASE Return(r) \/ Returned(r) \/ Raise(r) \/ TidyFails(r) \/ Tidy(r) \/ Tidied(r)
  <2>1. UNCHANGED <<seen, put, hand, queue, cons>>
    BY <1>5 DEF Return, Returned, Raise, TidyFails, Tidy, Tidied, Close, queues, reading, history
  <2>2. call'[r] = call[r]
    BY <1>0, <1>5 DEF Return, Returned, Raise, TidyFails, Tidy, Tidied
  <2>3. prod[r] = "raised" => prod'[r] = "raised"
    BY <1>0, <1>5 DEF Return, Returned, Raise, TidyFails, Tidy, Tidied, agents
  <2> QED BY <1>c, <2>1, <2>2, <2>3, StreamQuiet
<1>6. ASSUME NEW kind \in Kinds, Emit(r, kind) PROVE Streamed(r)'
  <2>1. CASE closed[r]
    <3>1. put'[r] = put[r] /\ UNCHANGED <<prod, cons, hand, call, seen>>
      BY <1>6, <2>1, Emitted
    <3>2. queue'[r] = queue[r]
      BY <1>0, <1>6, <2>1 DEF Emit, Enqueue
    <3> QED BY <1>c, <3>1, <3>2, StreamQuiet
  <2>2. CASE ~closed[r]
    BY <1>6, <2>2, StreamEmit
  <2> QED BY <2>1, <2>2
<1> QED BY <1>1, <1>2, <1>3, <1>4, <1>5, <1>6, DisjointCalls DEF Step, Read

\* And so does every step.
LEMMA NextSeen ==
    ASSUME TypeInv, NumberedInv, FreshInv, AloneInv, FlowInv, SeenInv, Next
    PROVE  SeenInv'
<1> SUFFICES ASSUME NEW r \in Reqs, r \notin mixed', mode'[r] = "stream" PROVE Streamed(r)'
  BY DEF SeenInv, Alone
<1>0. r \in Owners /\ mixed \in SUBSET Owners
  BY DisjointCalls DEF TypeInv, TypeOK
<1>1. PICK o \in Owners : Look(o) \/ Step(o)
  BY NextIsStep
<1>2. r \notin mixed /\ mode[r] = "stream"
  BY <1>1, LookFrame, StepMixed
<1>3. Flow(r) /\ Streamed(r)
  BY <1>2 DEF FlowInv, SeenInv, Alone
<1>4. Active(r) => Others(r) = {}
  BY <1>2 DEF AloneInv, Alone
<1>5. CASE Look(o)
  <2>1. call'[r] = call[r] \/ call'[r] \in {"refused", "looked"}
    BY <1>0, <1>5, LookFrame
  <2>2. UNCHANGED <<queue, closed, prod, cons, hand, put, seen>>
    BY <1>5, LookFrame
  <2> QED BY <1>3, <2>1, <2>2 DEF Streamed
<1>6. CASE Step(o) /\ o # r
  <2>1. r \in Owners \ {o} /\ o \in Owners \ {r} /\ Active(o)
    BY <1>0, <1>6, StepMoves
  <2>2. ~Active(r)
    BY <1>4, <2>1 DEF Others
  <2>3. /\ call'[r] = call[r] /\ seen'[r] = seen[r] /\ put'[r] = put[r]
        /\ prod'[r] = prod[r] \/ prod[r] \in {"runs", "closing"}
    BY <1>6, <2>1, StepFrame
  <2>4. call[r] # "waits" /\ prod[r] \notin {"runs", "closing"}
    BY <2>2 DEF Active
  <2>5. closed[r] => closed'[r]
    BY <1>0, <1>6, StepCloses
  <2> QED BY <1>3, <2>3, <2>4, <2>5 DEF Streamed
<1>7. CASE Step(o) /\ o = r
  <2>1. call[r] = "looked" => Fresh(r)
    BY DEF FreshInv
  <2> QED BY <1>2, <1>3, <1>7, <2>1, OwnStreamed
<1> QED BY <1>1, <1>5, <1>6, <1>7

-----------------------------------------------------------------------------
(* The theorems                                                            *)

\* The inductive invariant holds at the start,
LEMMA InitIInv == Init => IInv
<1> SUFFICES ASSUME Init PROVE IInv
  OBVIOUS
<1>1. TypeInv
  BY TypeOfInit
<1>2. /\ row.log = <<>> /\ entry = Nobody /\ mixed = {} /\ lost = {}
      /\ \A o \in Owners : /\ cache[o] = NoTask /\ queue[o] = <<>> /\ ~closed[o] /\ kids[o] = {}
                           /\ ~failure[o] /\ cons[o] = "none" /\ call[o] \in {"absent", "idle"}
                           /\ seen[o] = <<>>
      /\ \A r \in Reqs : prod[r] = "none" /\ tidy[r] = "none" /\ put[r] = <<>>
  BY DEF Init, NoTask, New
<1>3. NumberedInv
  BY <1>2 DEF NumberedInv
<1>4. \A r \in Reqs : Fresh(r)
  BY <1>2, DisjointCalls DEF Fresh
<1>5. \A o \in Owners : ~Active(o)
  BY <1>2 DEF Active
<1>6. \A r \in Reqs : Apart(r)
  BY <1>2 DEF Apart
<1>7. AloneInv
  BY <1>2, <1>5, <1>6, DisjointCalls DEF AloneInv
<1>8. ASSUME NEW r \in Reqs PROVE Kept(r)
  <2>1. Written(row.log, r, put[r], 0)
    BY <1>2 DEF Written
  <2>2. Len(UpToFinal(put[r])) = 0
    <3>0. put[r] = <<>>
      BY <1>2
    <3>1. put[r] \in Seq(Event) /\ Len(put[r]) = 0 /\ NoEnd(put[r], 0 - 1)
      BY <3>0 DEF NoEnd
    <3> QED BY <3>1, ToldAll
  <2> QED BY <1>2, <1>5, <2>1, <2>2 DEF Kept
<1>9. FlowInv
  BY <1>2, <1>8, DisjointCalls DEF FlowInv, Flow
<1>10. SeenInv
  <2> SUFFICES ASSUME NEW r \in Reqs PROVE Streamed(r)
    BY DEF SeenInv
  <2>1. /\ seen[r] = <<>> /\ put[r] = <<>> /\ call[r] \in {"absent", "idle"}
    BY <1>2, DisjointCalls
  <2> QED BY <2>1 DEF Streamed, NoEnd
<1> QED BY <1>1, <1>3, <1>4, <1>7, <1>9, <1>10 DEF IInv, FreshInv

\* is kept by every step,
LEMMA NextIInv == IInv /\ [Next]_vars => IInv'
<1> SUFFICES ASSUME IInv, [Next]_vars PROVE IInv'
  OBVIOUS
<1>1. CASE Next
  <2>1. TypeInv'
    BY <1>1, NextIsStep, StepTypes, LookTypes DEF IInv
  <2> QED BY <1>1, <2>1, NextNumbered, NextFresh, NextAlone, NextFlow, NextSeen DEF IInv
<1>2. CASE UNCHANGED vars
  <2>1. TypeInv'
    BY <1>2, StutterTypes DEF IInv
  <2>2. UNCHANGED <<mode, row, cache, queue, closed, kids, entry, prod, failure, cons, hand, obj, call,
                    tidy, put, seen, mixed, lost>>
    BY <1>2 DEF vars, store, queues, handler, agents, reading, history
  <2>3. NumberedInv' /\ FreshInv'
    BY <2>2 DEF IInv, NumberedInv, FreshInv, Fresh
  <2>4. AloneInv'
    BY <2>2 DEF IInv, AloneInv, Alone, Active, Others, Apart
  <2>5. FlowInv'
    BY <2>2 DEF IInv, FlowInv, Flow, Alone, Waiting, Applying, Kept, Active
  <2>6. SeenInv'
    BY <2>2 DEF IInv, SeenInv, Streamed, Alone
  <2> QED BY <2>1, <2>3, <2>4, <2>5, <2>6 DEF IInv
<1> QED BY <1>1, <1>2

\* and so holds always.
LEMMA Invariance == Spec => []IInv
BY InitIInv, NextIInv, PTL DEF Spec

\* The state of the legacy handler keeps its types.
THEOREM TypeCorrect == Spec => []TypeOK
<1>1. IInv => TypeOK
  BY DEF IInv, TypeInv
<1> QED BY <1>1, Invariance, PTL

\* What an agent put before its first final event, without Messages, is what the row has of it.
LEMMA RowIsExact ==
    ASSUME NEW log, NEW r, NEW s \in Seq(Event), Written(log, r, s, Len(UpToFinal(s))),
           \A n \in 1..Len(s) : s[n].by = r
    PROVE  LET told == UpToFinal(s)
               mine == {i \in 1..Len(log) : log[i].by = r}

               IN /\ {log[i] : i \in mine} =
                   {told[n] : n \in {m \in 1..Len(told) : told[m].kind # "message"}}
              /\ \A i, j \in mine : i < j => log[i].no < log[j].no
<1> DEFINE told == UpToFinal(s)
           mine == {i \in 1..Len(log) : log[i].by = r}
           tell == {m \in 1..Len(told) : told[m].kind # "message"}
<1>1. PICK k \in 0..Len(s) : told = SubSeq(s, 1, k) /\ Len(told) = k
  BY ToldIsPrefix
<1> HIDE DEF told
<1>2. \A n \in 1..k : told[n] = s[n]
  BY <1>1
<1>3. Written(log, r, s, k)
  BY <1>1 DEF told
<1>4. ASSUME NEW i \in mine PROVE \E n \in tell : log[i] = told[n]
  <2>1. log[i].no \in 1..k /\ log[i] = s[log[i].no] /\ log[i].kind # "message"
    BY <1>3 DEF Written
  <2>2. log[i].no \in tell /\ log[i] = told[log[i].no]
    BY <1>1, <1>2, <2>1
  <2> QED BY <2>2
<1>5. ASSUME NEW n \in tell PROVE \E i \in mine : log[i] = told[n]
  <2>1. n \in 1..k /\ told[n] = s[n] /\ s[n].kind # "message" /\ s[n].by = r
    BY <1>1, <1>2
  <2>2. PICK i \in 1..Len(log) : log[i] = s[n]
    BY <1>3, <2>1 DEF Written
  <2> QED BY <2>1, <2>2
<1>6. {log[i] : i \in mine} = {told[n] : n \in tell}
  <2> DEFINE A == {log[i] : i \in mine}
             B == {told[n] : n \in tell}
  <2>1. ASSUME NEW x \in A PROVE x \in B
    <3>1. PICK i \in mine : x = log[i]
      OBVIOUS
    <3> QED BY <1>4, <3>1
  <2>2. ASSUME NEW x \in B PROVE x \in A
    <3>1. PICK n \in tell : x = told[n]
      OBVIOUS
    <3> QED BY <1>5, <3>1
  <2> HIDE DEF A, B
  <2>3. A = B
    BY <2>1, <2>2
  <2> QED BY <2>3 DEF A, B
<1>7. \A i, j \in mine : i < j => log[i].no < log[j].no
  BY <1>3 DEF Written
<1> QED BY <1>6, <1>7 DEF told

\* Of an agent whose request was alone and has been read to its end the row has everything it
\* put before its first final event, once and in order: no event is lost between the agent's
\* queue, the task in memory and the store, and none is saved twice, whatever the client does.
THEOREM EventsAreKept == Spec => []EventsPersist
<1>1. IInv => EventsPersist
  <2> SUFFICES ASSUME IInv, NEW r \in Reqs, r \notin mixed, r \notin lost, cons[r] = "over",
                      prod[r] \in {"closing", "over"}
               PROVE  LET told == UpToFinal(put[r])
                          mine == {i \in 1..Len(row.log) : row.log[i].by = r}
                      IN /\ {row.log[i] : i \in mine} =
                              {told[n] : n \in {m \in 1..Len(told) : told[m].kind # "message"}}
                         /\ \A i, j \in mine : i < j => row.log[i].no < row.log[j].no
    BY DEF EventsPersist, Alone
  <2>1. Kept(r)
    BY DEF IInv, FlowInv, Flow, Alone
  <2>2. Written(row.log, r, put[r], Len(UpToFinal(put[r])))
    BY <2>1 DEF Kept
  <2>3. put[r] \in Seq(Event) /\ \A n \in 1..Len(put[r]) : put[r][n].by = r
    BY DEF IInv, TypeInv, TypeOK, NumberedInv
  <2> QED BY <2>2, <2>3, RowIsExact
<1> QED BY <1>1, Invariance, PTL

\* A stream that is alone yields the events its agent put, in order and without a gap, and ends
\* by itself only after the final one, or the last.
THEOREM StreamsAreWhole == Spec => []StreamsAreComplete
<1>1. IInv => StreamsAreComplete
  <2> SUFFICES ASSUME IInv, NEW r \in Reqs, r \notin mixed, mode[r] = "stream"
               PROVE  /\ IsPrefix(seen[r], UpToFinal(put[r]))
                      /\ call[r] = "answered" /\ prod[r] # "raised" => seen[r] = UpToFinal(put[r])
    BY DEF StreamsAreComplete, Alone
  <2> DEFINE told == UpToFinal(put[r])
             n == Len(seen[r])
  <2>1. Streamed(r) /\ seen[r] \in Seq(Event) /\ put[r] \in Seq(Event)
    BY DisjointCalls DEF IInv, SeenInv, Alone, TypeInv, TypeOK
  <2>2. PICK k \in 0..Len(put[r]) : /\ told = SubSeq(put[r], 1, k) /\ Len(told) = k
                                    /\ NoEnd(put[r], k - 1)
                                    /\ k = Len(put[r]) \/ (k >= 1 /\ put[r][k].kind \in Final)
    BY <2>1, ToldIsPrefix
  <2> HIDE DEF told
  <2>3. n \in Nat /\ n <= Len(put[r]) /\ NoEnd(put[r], n - 1)
        /\ \A i \in 1..n : seen[r][i] = put[r][i]
    BY <2>1 DEF Streamed
  <2>4. n <= k
    <3>1. SUFFICES ASSUME n > k PROVE FALSE
      BY <2>2, <2>3
    <3>2. k >= 1 /\ put[r][k].kind \in Final /\ k \in 1..(n - 1)
      BY <2>2, <2>3, <3>1
    <3> QED BY <2>3, <3>2 DEF NoEnd
  <2>5. \A i \in 1..n : seen[r][i] = told[i]
    BY <2>1, <2>2, <2>3, <2>4
  <2>6. told \in Seq(Event)
    BY <2>1, <2>2
  <2>7. SubSeq(seen[r], 1, n) = SubSeq(told, 1, n)
    BY <2>1, <2>2, <2>3, <2>4, <2>5, <2>6
  <2>8. IsPrefix(seen[r], told)
    BY <2>2, <2>4, <2>7 DEF IsPrefix
  <2>9. ASSUME call[r] = "answered", prod[r] # "raised" PROVE seen[r] = told
    <3>1. n = Len(told)
      BY <2>1, <2>9 DEF Streamed, told
    <3> QED BY <2>1, <2>5, <2>6, <3>1
  <2> QED BY <2>8, <2>9 DEF told
<1> QED BY <1>1, Invariance, PTL

=============================================================================
