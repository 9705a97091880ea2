----------------------- MODULE ActiveTaskRegistryProofs -----------------------
(***************************************************************************)
(* Proofs about ActiveTaskRegistry, for any number of callers and          *)
(* ActiveTasks.                                                            *)
(***************************************************************************)
EXTENDS ActiveTaskRegistry, FiniteSetTheorems, TLAPS

-----------------------------------------------------------------------------
(* The reference counter                                                   *)

\* Who has a reference of i to give back.
Using == {"stream", "queued"}
Users(i) == {c \in Callers : inst[c] = i /\ pc[c] \in Using}
Share(i) == IF cons[i] \in {"run", "await", "queued"} THEN 1 ELSE 0

\* The counter stays a natural number only because it counts the users; it counts more when
\* aclose() cut the consumer short.
Counted == \A i \in Instances : refs[i] >= Cardinality(Users(i)) + Share(i)
Assigned == \A c \in Callers : pc[c] \notin {"idle", "refused"} => inst[c] \in Instances
CountInv ==
    /\ TypeOK /\ Assigned /\ Counted
    /\ closing = "cancel" => snapshot \in Instances

\* The users of a reference can be counted.
LEMMA UsersFinite ==
    \A i : IsFiniteSet(Users(i)) /\ Cardinality(Users(i)) \in Nat
<1> TAKE i
<1>1. IsFiniteSet(Users(i))
  BY RegistryAssumption, FS_Subset DEF Users
<1> QED BY <1>1, FS_CardinalityType

\* One caller moves on; the others stay where they are.
LEMMA UsersMove ==
    ASSUME CountInv, NEW c \in Callers, NEW i \in Instances,
           \A d \in Callers \ {c} : pc'[d] = pc[d] /\ inst'[d] = inst[d]
    PROVE  /\ Cardinality(Users(i)') \in Nat
           /\ Cardinality(Users(i)') <= Cardinality(Users(i)) + 1
           /\ c \notin Users(i)' \/ c \in Users(i) =>
                Cardinality(Users(i)') <= Cardinality(Users(i))
           /\ c \notin Users(i)' /\ c \in Users(i) =>
                Cardinality(Users(i)') = Cardinality(Users(i)) - 1
<1> DEFINE old == Users(i)
           new == Users(i)'
<1>1. \A d \in Callers \ {c} : d \in new <=> d \in old
  BY DEF Users
<1>2. old \subseteq Callers /\ new \subseteq Callers
  BY DEF Users
<1>3. IsFiniteSet(old) /\ Cardinality(old) \in Nat
  BY UsersFinite
<1> HIDE DEF old, new
<1>4. CASE c \in new /\ c \in old
  <2>1. new = old
    BY <1>1, <1>2, <1>4
  <2> QED BY <2>1, <1>3, <1>4 DEF old, new
<1>5. CASE c \notin new /\ c \notin old
  <2>1. new = old
    BY <1>1, <1>2, <1>5
  <2> QED BY <2>1, <1>3, <1>5 DEF old, new
<1>6. CASE c \in new /\ c \notin old
  <2>1. new = old \cup {c}
    BY <1>1, <1>2, <1>6
  <2>2. Cardinality(new) = Cardinality(old) + 1
    BY <2>1, <1>3, <1>6, FS_AddElement
  <2> QED BY <2>2, <1>3, <1>6 DEF old, new
<1>7. CASE c \notin new /\ c \in old
  <2>1. new = old \ {c}
    BY <1>1, <1>2, <1>7
  <2>2. Cardinality(new) = Cardinality(old) - 1
    BY <2>1, <1>3, <1>7, FS_RemoveElement
  <2>3. IsFiniteSet(new)
    BY <2>1, <1>3, FS_RemoveElement
  <2>4. Cardinality(new) \in Nat
    BY <2>3, FS_CardinalityType
  <2> QED BY <2>2, <2>4, <1>3, <1>7 DEF old, new
<1> QED BY <1>4, <1>5, <1>6, <1>7

\* While no caller moves, the users stay.
LEMMA UsersStay == UNCHANGED callVars => \A i : Users(i)' = Users(i)
BY DEF Users, callVars

\* x has given its reference back.
LEMMA Returns ==
    ASSUME CountInv, NEW i \in Instances, NEW x, refs[i] > 0, FirstTurn(i, x) \/ BothTurns(i, x)
    PROVE  /\ refs' \in [Instances -> Nat] /\ pops' \in Nat
           /\ refs' = [refs EXCEPT ![i] = @ - 1]
<1>1. refs \in [Instances -> Nat] /\ pops \in Nat
  BY DEF CountInv, TypeOK
<1>2. refs' = [refs EXCEPT ![i] = @ - 1] /\ pops' \in {pops, pops + 1}
  BY DEF FirstTurn, BothTurns, PopsAfter
<1> QED BY <1>1, <1>2

\* x waits for its turn, or looks at the counter.
LEMMA Waits ==
    ASSUME CountInv, NEW i \in Instances, NEW x, JoinsLine(i, x) \/ SecondTurn(i)
    PROVE  refs' = refs /\ pops' \in Nat
BY DEF JoinsLine, SecondTurn, PopsAfter, CountInv, TypeOK

\* Every step leaves the counter at no less than its users, and the types.
LEMMA NextCount == CountInv /\ [Next]_vars => CountInv'
<1> SUFFICES ASSUME CountInv, [Next]_vars PROVE CountInv'
  OBVIOUS
<1>0. /\ TypeOK /\ Assigned /\ Counted /\ (closing = "cancel" => snapshot \in Instances)
      /\ Instances \subseteq Nat \ {0} /\ Nobody = 0
  BY DEF CountInv, Instances, Nobody
<1>n. \A i \in Instances : /\ Cardinality(Users(i)) \in Nat /\ Share(i) \in Nat
                           /\ refs[i] \in Nat /\ refs[i] >= Cardinality(Users(i)) + Share(i)
  BY <1>0, UsersFinite DEF TypeOK, Share, Counted
<1>p. \A c \in Callers, to \in {"check", "starting", "have", "stream", "queued", "recheck", "agent", "await",
                                "save", "refused", "returned", "missing", "done"} :
          Goes(c, to) => pc' \in [Callers -> PCs] /\ pc'[c] = to /\ \A d \in Callers \ {c} : pc'[d] = pc[d]
  BY <1>0 DEF Goes, TypeOK, PCs
\* The steps of callers that touch no counter.
<1>1. ASSUME NEW c \in Callers, \/ LookUpRefused(c) \/ LookUpMisses(c) \/ LookUpHits(c) \/ ChecksOwner(c)
                                \/ StartFails(c) \/ CancelBegins(c) \/ ExecutorCancels(c) \/ CancelsProducer(c)
                                \/ CancelDecides(c) \/ CancelSaves(c)
      PROVE  CountInv'
  <2>1. TypeOK'
    <3>1. CASE LookUpRefused(c) \/ ChecksOwner(c)
      <4>1. pc' \in [Callers -> PCs] /\ UNCHANGED <<store, active, pops, taskVars, inst, closeVars>>
        BY <3>1, <1>p DEF LookUpRefused, ChecksOwner
      <4> QED BY <4>1, <1>0 DEF TypeOK, taskVars, closeVars
    <3>2. CASE LookUpHits(c)
      <4>1. pc' \in [Callers -> PCs] /\ inst' \in [Callers -> Instances \cup {Nobody}]
        BY <3>2, <1>p, <1>0 DEF LookUpHits, TypeOK
      <4>2. UNCHANGED <<store, active, pops, taskVars, closeVars>>
        BY <3>2 DEF LookUpHits
      <4> QED BY <4>1, <4>2, <1>0 DEF TypeOK, taskVars, closeVars
    <3>3. CASE LookUpMisses(c)
      <4>1. PICK i \in Instances :
                /\ active' = i /\ phase' = [phase EXCEPT ![i] = "starting"]
                /\ lock' = [lock EXCEPT ![i] = TRUE] /\ inst' = [inst EXCEPT ![c] = i]
        BY <3>3 DEF LookUpMisses
      <4>2. Goes(c, "starting") /\ UNCHANGED <<store, pops, prod, cons, refs, cached, closeVars>>
        BY <3>3 DEF LookUpMisses
      <4>3. pc' \in [Callers -> PCs]
        BY <4>2, <1>p
      <4> QED BY <4>1, <4>2, <4>3, <1>0 DEF TypeOK, closeVars
    <3>4. CASE StartFails(c)
      <4>1. /\ Goes(c, "refused") /\ pops' = pops + 1
            /\ phase' = [phase EXCEPT ![inst[c]] = "finished"] /\ lock' = [lock EXCEPT ![inst[c]] = FALSE]
            /\ cached' = [cached EXCEPT ![inst[c]] = store]
            /\ UNCHANGED <<store, active, prod, cons, refs, inst, closeVars>>
        BY <3>4 DEF StartFails
      <4>2. pc' \in [Callers -> PCs]
        BY <4>1, <1>p
      <4>3. phase' \in [Instances -> {"unborn", "starting", "running", "finished"}] /\ lock' \in [Instances -> BOOLEAN]
        BY <4>1, <1>0 DEF TypeOK
      <4>4. cached' \in [Instances -> States]
        BY <4>1, <1>0 DEF TypeOK
      <4> QED BY <4>1, <4>2, <4>3, <4>4, <1>0 DEF TypeOK, closeVars
    <3>5. CASE CancelBegins(c)
      <4>1. /\ Goes(c, "agent") \/ Goes(c, "await")
            /\ lock' \in {lock, [lock EXCEPT ![inst[c]] = TRUE]}
            /\ UNCHANGED <<store, active, pops, phase, prod, cons, refs, cached, inst, closeVars>>
        BY <3>5 DEF CancelBegins
      <4>2. pc' \in [Callers -> PCs]
        BY <4>1, <1>p
      <4> QED BY <4>1, <4>2, <1>0 DEF TypeOK, closeVars
    <3>6. CASE ExecutorCancels(c)
      BY <3>6, <1>0 DEF TypeOK, ExecutorCancels, Applies, States, Terminal, callVars, closeVars
    <3>7. CASE CancelsProducer(c)
      <4>1. /\ Goes(c, "await") /\ prod' = [prod EXCEPT ![inst[c]] = FALSE]
            /\ lock' = [lock EXCEPT ![inst[c]] = FALSE]
            /\ UNCHANGED <<store, active, pops, phase, cons, refs, cached, inst, closeVars>>
        BY <3>7 DEF CancelsProducer
      <4>2. pc' \in [Callers -> PCs]
        BY <4>1, <1>p
      <4> QED BY <4>1, <4>2, <1>0 DEF TypeOK, closeVars
    <3>8. CASE CancelDecides(c)
      <4>1. /\ Goes(c, "missing") \/ Goes(c, "returned") \/ Goes(c, "save")
            /\ UNCHANGED <<store, active, pops, taskVars, inst, closeVars>>
        BY <3>8 DEF CancelDecides
      <4>2. pc' \in [Callers -> PCs]
        BY <4>1, <1>p
      <4> QED BY <4>1, <4>2, <1>0 DEF TypeOK, taskVars, closeVars
    <3>9. CASE CancelSaves(c)
      <4>1. /\ Goes(c, "returned") /\ store' = "canceled"
            /\ cached' = [cached EXCEPT ![inst[c]] = "canceled"]
            /\ UNCHANGED <<active, pops, phase, prod, cons, lock, refs, inst, closeVars>>
        BY <3>9 DEF CancelSaves
      <4>2. pc' \in [Callers -> PCs]
        BY <4>1, <1>p
      <4> QED BY <4>1, <4>2, <1>0 DEF TypeOK, States, Terminal, closeVars
    <3> QED BY <1>1, <3>1, <3>2, <3>3, <3>4, <3>5, <3>6, <3>7, <3>8, <3>9
  <2>2. /\ \A d \in Callers \ {c} : pc'[d] = pc[d] /\ inst'[d] = inst[d]
        /\ pc'[c] \notin Using \/ callVars' = callVars
        /\ pc'[c] \notin {"idle", "refused"} => inst'[c] \in Instances
    BY <1>0, <1>1 DEF TypeOK, Assigned, LookUpRefused, LookUpMisses, LookUpHits, ChecksOwner, StartFails,
         CancelBegins, ExecutorCancels, Applies, CancelsProducer, CancelDecides, CancelSaves, Goes,
         Using, callVars
  <2>3. UNCHANGED <<refs, closing, snapshot>> /\ (cons' = cons)
    BY <1>1 DEF LookUpRefused, LookUpMisses, LookUpHits, ChecksOwner, StartFails,
         CancelBegins, ExecutorCancels, Applies, CancelsProducer, CancelDecides, CancelSaves,
         taskVars, closeVars
  <2>4. \A i \in Instances : Cardinality(Users(i)') <= Cardinality(Users(i))
                            /\ Cardinality(Users(i)') \in Nat
    <3> TAKE i \in Instances
    <3>1. CASE callVars' = callVars
      BY <3>1, UsersStay, <1>n
    <3>2. CASE pc'[c] \notin Using
      <4>1. c \notin Users(i)'
        BY <3>2 DEF Users
      <4> QED BY <4>1, <2>2, UsersMove
    <3> QED BY <2>2, <3>1, <3>2
  <2>5. Counted'
    BY <2>3, <2>4, <1>n DEF Counted, Share
  <2>6. Assigned'
    BY <2>2, <1>0 DEF Assigned
  <2> QED BY <2>1, <2>3, <2>5, <2>6, <1>0 DEF CountInv
<1>2. ASSUME NEW c \in Callers, StartSucceeds(c) \/ Subscribes(c) PROVE CountInv'
  <2>1. PICK i \in Instances : i = inst[c]
    BY <1>0, <1>2 DEF Assigned, StartSucceeds, Subscribes
  <2>2. TypeOK'
    <3>1. CASE StartSucceeds(c)
      <4>1. /\ Goes(c, "have") /\ phase' = [phase EXCEPT ![i] = "running"]
            /\ prod' = [prod EXCEPT ![i] = TRUE] /\ cons' = [cons EXCEPT ![i] = "run"]
            /\ lock' = [lock EXCEPT ![i] = FALSE] /\ refs' = [refs EXCEPT ![i] = @ + 1]
            /\ cached' = [cached EXCEPT ![i] = store]
            /\ UNCHANGED <<store, active, pops, inst, closeVars>>
        BY <2>1, <3>1 DEF StartSucceeds
      <4>2. pc' \in [Callers -> PCs]
        BY <4>1, <1>p
      <4>3. phase' \in [Instances -> {"unborn", "starting", "running", "finished"}] /\ lock' \in [Instances -> BOOLEAN]
        BY <4>1, <1>0 DEF TypeOK
      <4>4. cached' \in [Instances -> States]
        BY <4>1, <1>0 DEF TypeOK
      <4>6. refs' \in [Instances -> Nat]
        BY <4>1, <1>0 DEF TypeOK
      <4>5. /\ prod' \in [Instances -> BOOLEAN]
            /\ cons' \in [Instances -> {"off", "run", "await", "queued", "recheck", "done"}]
        BY <4>1, <1>0 DEF TypeOK
      <4> QED BY <4>1, <4>2, <4>3, <4>4, <4>5, <4>6, <1>0 DEF TypeOK, closeVars
    <3>2. CASE Subscribes(c)
      <4>1. /\ Goes(c, "refused") \/ Goes(c, "stream")
            /\ refs' \in {refs, [refs EXCEPT ![i] = @ + 1]}
            /\ UNCHANGED <<store, active, pops, phase, prod, cons, lock, cached, inst, closeVars>>
        BY <2>1, <3>2 DEF Subscribes
      <4>2. pc' \in [Callers -> PCs]
        BY <4>1, <1>p
      <4> QED BY <4>1, <4>2, <1>0 DEF TypeOK, closeVars
    <3> QED BY <1>2, <3>1, <3>2
  <2>3. /\ inst' = inst /\ \A d \in Callers \ {c} : pc'[d] = pc[d]
        /\ UNCHANGED <<closing, snapshot>>
        /\ \A j \in Instances \ {i} : refs'[j] = refs[j] /\ cons'[j] = cons[j]
    BY <1>0, <1>2, <2>1 DEF TypeOK, StartSucceeds, Subscribes, Goes, closeVars
  <2>4. \/ /\ pc'[c] \notin Using /\ refs'[i] = refs[i] + 1
        \/ /\ pc'[c] = "stream" /\ refs'[i] = refs[i] + 1 /\ cons' = cons
        \/ /\ pc'[c] \notin Using /\ refs' = refs /\ cons' = cons
    BY <1>0, <1>2, <2>1 DEF TypeOK, StartSucceeds, Subscribes, Goes, Using
  <2>5. Counted'
    <3> SUFFICES ASSUME NEW j \in Instances
                 PROVE  refs'[j] >= Cardinality(Users(j)') + Share(j)'
      BY DEF Counted
    <3>1. /\ Cardinality(Users(j)') \in Nat
          /\ Cardinality(Users(j)') <= Cardinality(Users(j)) + 1
          /\ c \notin Users(j)' => Cardinality(Users(j)') <= Cardinality(Users(j))
      BY <2>3, UsersMove
    <3>2. Share(j)' \in {0, 1}
      BY DEF Share
    <3>3. CASE j # i
      <4>1. c \notin Users(j)'
        BY <3>3, <2>1, <2>3 DEF Users
      <4> QED BY <3>1, <3>3, <4>1, <2>3, <1>n DEF Share
    <3>4. CASE j = i /\ pc'[c] \notin Using
      <4>1. c \notin Users(j)'
        BY <3>4 DEF Users
      <4>2. Share(j)' <= Share(j) \/ refs'[j] = refs[j] + 1
        BY <2>4, <3>4 DEF Share, Using
      <4> QED BY <3>1, <3>2, <3>4, <4>1, <4>2, <2>4, <1>n DEF Share, Using
    <3>5. CASE j = i /\ pc'[c] \in Using
      <4>1. refs'[j] = refs[j] + 1 /\ Share(j)' = Share(j)
        BY <2>4, <3>5 DEF Share
      <4> QED BY <3>1, <3>5, <4>1, <1>n
    <3> QED BY <3>3, <3>4, <3>5
  <2>6. Assigned'
    BY <2>1, <2>3, <1>0 DEF Assigned
  <2> QED BY <2>2, <2>3, <2>5, <2>6, <1>0 DEF CountInv
\* A caller gives its reference back, in one go or in two turns.
<1>3. ASSUME NEW c \in Callers, Leaves(c) \/ LeavesLine(c) PROVE CountInv'
  <2>2. PICK i \in Instances : i = inst[c]
    BY <1>3, <1>0 DEF Assigned, Leaves, LeavesLine
  <2>1. /\ UNCHANGED <<store, active, phase, prod, cons, lock, cached, inst, closeVars>>
        /\ \/ pc[c] \in Using /\ (FirstTurn(i, c) \/ BothTurns(i, c)) /\ (Goes(c, "recheck") \/ Goes(c, "done"))
           \/ pc[c] \in Using /\ JoinsLine(i, c) /\ Goes(c, "queued")
           \/ pc[c] = "recheck" /\ SecondTurn(i) /\ Goes(c, "done")
    BY <1>3, <2>2 DEF Leaves, LeavesLine, Using
  <2>3. /\ pc' \in [Callers -> PCs] /\ pc'[c] \in {"queued", "recheck", "done"}
        /\ \A d \in Callers \ {c} : pc'[d] = pc[d]
    BY <2>1, <1>p
  <2>4. \A j \in Instances : /\ Cardinality(Users(j)') \in Nat
                             /\ Cardinality(Users(j)') <= Cardinality(Users(j))
    <3> TAKE j \in Instances
    <3>1. c \notin Users(j)' \/ c \in Users(j)
      BY <2>1, <1>p DEF Users, Using
    <3> QED BY <2>1, <2>3, <3>1, UsersMove
  <2>5. CASE pc[c] \in Using /\ (FirstTurn(i, c) \/ BothTurns(i, c)) /\ (Goes(c, "recheck") \/ Goes(c, "done"))
    <3>1. c \in Users(i) /\ c \notin Users(i)'
      BY <2>2, <2>5, <1>p DEF Users, Using
    <3>2. Cardinality(Users(i)') = Cardinality(Users(i)) - 1 /\ Cardinality(Users(i)') \in Nat
      BY <2>1, <2>2, <2>3, <3>1, UsersMove
    <3>3. refs[i] > 0
      BY <3>2, <2>2, <1>n
    <3>4. refs' \in [Instances -> Nat] /\ pops' \in Nat /\ refs' = [refs EXCEPT ![i] = @ - 1]
      BY <2>2, <2>5, <3>3, Returns
    <3>5. TypeOK'
      BY <1>0, <2>1, <2>3, <3>4 DEF TypeOK, closeVars
    <3>6. Counted'
      <4> SUFFICES ASSUME NEW j \in Instances
                   PROVE  refs'[j] >= Cardinality(Users(j)') + Share(j)'
        BY DEF Counted
      <4>1. Share(j)' = Share(j)
        BY <2>1 DEF Share
      <4>2. CASE j = i
        <5>1. refs'[j] = refs[j] - 1
          BY <4>2, <3>4, <2>2, <1>0 DEF TypeOK
        <5> QED BY <5>1, <4>1, <4>2, <3>2, <1>n
      <4>3. CASE j # i
        <5>1. refs'[j] = refs[j]
          BY <4>3, <3>4, <1>0 DEF TypeOK
        <5> QED BY <5>1, <4>1, <2>4, <1>n
      <4> QED BY <4>2, <4>3
    <3> QED BY <2>1, <2>2, <2>3, <3>5, <3>6, <1>0 DEF CountInv, Assigned, closeVars
  <2>6. CASE \/ pc[c] \in Using /\ JoinsLine(i, c) /\ Goes(c, "queued")
             \/ pc[c] = "recheck" /\ SecondTurn(i) /\ Goes(c, "done")
    <3>1. refs' = refs /\ pops' \in Nat
      BY <2>2, <2>6, Waits
    <3>2. TypeOK'
      BY <1>0, <2>1, <2>3, <3>1 DEF TypeOK, closeVars
    <3>3. Counted'
      BY <2>1, <2>4, <3>1, <1>n DEF Counted, Share
    <3> QED BY <2>1, <2>2, <2>3, <3>2, <3>3, <1>0 DEF CountInv, Assigned, closeVars
  <2> QED BY <2>1, <2>5, <2>6
\* So does the consumer.
<1>4. ASSUME NEW i \in Instances, ConsumerLeaves(i) \/ ConsumerLeavesLine(i) PROVE CountInv'
  <2> DEFINE x == Consumer
  <2>1. /\ UNCHANGED <<store, active, phase, prod, lock, cached, callVars, closeVars>>
        /\ \/ cons[i] \in {"await", "queued"} /\ (FirstTurn(i, x) \/ BothTurns(i, x))
              /\ cons' \in {[cons EXCEPT ![i] = "recheck"], [cons EXCEPT ![i] = "done"]}
           \/ cons[i] = "await" /\ JoinsLine(i, x) /\ cons' = [cons EXCEPT ![i] = "queued"]
           \/ cons[i] = "recheck" /\ SecondTurn(i) /\ cons' = [cons EXCEPT ![i] = "done"]
    BY <1>4 DEF ConsumerLeaves, ConsumerLeavesLine
  <2>2. /\ cons' \in [Instances -> {"off", "run", "await", "queued", "recheck", "done"}]
        /\ \A j \in Instances \ {i} : cons'[j] = cons[j]
    BY <2>1, <1>0 DEF TypeOK
  <2>3. \A j \in Instances : Users(j)' = Users(j)
    BY <2>1, UsersStay
  <2>4. CASE /\ cons[i] \in {"await", "queued"} /\ (FirstTurn(i, x) \/ BothTurns(i, x))
             /\ cons' \in {[cons EXCEPT ![i] = "recheck"], [cons EXCEPT ![i] = "done"]}
    <3>1. Share(i) = 1 /\ Share(i)' = 0 /\ refs[i] > 0
      BY <2>4, <1>0, <1>n DEF Share, TypeOK
    <3>2. refs' \in [Instances -> Nat] /\ pops' \in Nat /\ refs' = [refs EXCEPT ![i] = @ - 1]
      BY <2>4, <3>1, Returns
    <3>3. TypeOK'
      BY <1>0, <2>1, <2>2, <3>2 DEF TypeOK, callVars, closeVars
    <3>4. Counted'
      <4> SUFFICES ASSUME NEW j \in Instances
                   PROVE  refs'[j] >= Cardinality(Users(j)') + Share(j)'
        BY DEF Counted
      <4>1. CASE j = i
        <5>1. refs'[j] = refs[j] - 1
          BY <4>1, <3>2, <1>0 DEF TypeOK
        <5> QED BY <5>1, <4>1, <3>1, <2>3, <1>n
      <4>2. CASE j # i
        <5>1. refs'[j] = refs[j] /\ Share(j)' = Share(j)
          BY <4>2, <3>2, <2>2, <1>0 DEF TypeOK, Share
        <5> QED BY <5>1, <2>3, <1>n
      <4> QED BY <4>1, <4>2
    <3> QED BY <2>1, <3>3, <3>4, <1>0 DEF CountInv, Assigned, callVars, closeVars
  <2>5. CASE \/ cons[i] = "await" /\ JoinsLine(i, x) /\ cons' = [cons EXCEPT ![i] = "queued"]
             \/ cons[i] = "recheck" /\ SecondTurn(i) /\ cons' = [cons EXCEPT ![i] = "done"]
    <3>1. refs' = refs /\ pops' \in Nat
      BY <2>5, Waits
    <3>2. TypeOK'
      BY <1>0, <2>1, <2>2, <3>1 DEF TypeOK, callVars, closeVars
    <3>3. \A j \in Instances : Share(j)' <= Share(j)
      BY <2>2, <2>5, <1>0 DEF Share, TypeOK
    <3>4. Counted'
      BY <2>3, <3>1, <3>3, <1>n DEF Counted, Share
    <3> QED BY <2>1, <3>2, <3>4, <1>0 DEF CountInv, Assigned, callVars, closeVars
  <2> QED BY <2>1, <2>4, <2>5
\* The other steps of an ActiveTask, the removals and aclose().
<1>5. CASE (\E i \in Instances : AgentWorks(i) \/ AgentCompletes(i) \/ ProducerEnds(i) \/ ConsumerStops(i))
           \/ RemoveTask \/ AcloseBegins \/ AcloseTask \/ AcloseAwaits \/ AcloseReturns \/ UNCHANGED vars
  <2>1. UNCHANGED <<callVars, refs>>
    BY <1>5 DEF AgentWorks, AgentCompletes, Applies, ProducerEnds, ConsumerStops, RemoveTask,
         AcloseBegins, AcloseTask, AcloseAwaits, AcloseReturns, vars, taskVars, callVars
  <2>2. TypeOK'
    <3>1. CASE \E i \in Instances : AgentWorks(i) \/ AgentCompletes(i)
      BY <3>1, <1>0 DEF TypeOK, AgentWorks, AgentCompletes, Applies, States, Terminal, callVars, closeVars
    <3>2. CASE \E i \in Instances : ProducerEnds(i) \/ ConsumerStops(i)
      BY <3>2, <1>0 DEF TypeOK, ProducerEnds, ConsumerStops, callVars, closeVars
    <3>3. CASE RemoveTask
      BY <3>3, <1>0 DEF TypeOK, RemoveTask, taskVars, callVars
    <3>4. CASE AcloseBegins \/ AcloseAwaits \/ AcloseReturns \/ UNCHANGED vars
      BY <3>4, <1>0 DEF TypeOK, AcloseBegins, AcloseAwaits, AcloseReturns, vars, taskVars, callVars, closeVars
    <3>5. CASE AcloseTask
      BY <3>5, <1>0 DEF TypeOK, AcloseTask, callVars
    <3> QED BY <1>5, <3>1, <3>2, <3>3, <3>4, <3>5
  <2>3. \A i \in Instances : Share(i)' <= Share(i)
    BY <1>5, <1>0 DEF TypeOK, Share, AgentWorks, AgentCompletes, Applies, ProducerEnds, ConsumerStops,
         RemoveTask, AcloseBegins, AcloseTask, AcloseAwaits, AcloseReturns, vars, taskVars
  <2>4. Counted'
    BY <2>1, <2>3, <1>n, UsersStay DEF Counted, Share
  <2>5. closing' = "cancel" => snapshot' \in Instances
    BY <1>5, <1>0 DEF TypeOK, AgentWorks, AgentCompletes, Applies, ProducerEnds, ConsumerStops,
         RemoveTask, AcloseBegins, AcloseTask, AcloseAwaits, AcloseReturns, vars, closeVars
  <2> QED BY <2>1, <2>2, <2>4, <2>5, <1>0 DEF CountInv, Assigned, callVars
<1> QED BY <1>1, <1>2, <1>3, <1>4, <1>5 DEF Next, CallerNext, TaskNext

\* At first there is neither reference nor user.
LEMMA InitCount == Init => CountInv
<1> SUFFICES ASSUME Init PROVE CountInv
  OBVIOUS
<1>1. TypeOK
  BY RegistryAssumption DEF Init, TypeOK, PCs, States
<1>2. \A i : Users(i) = {}
  BY DEF Init, Users, Using
<1>3. \A i \in Instances : refs[i] = 0 /\ Share(i) = 0
  BY DEF Init, Share
<1>4. Counted
  BY <1>2, <1>3, FS_EmptySet DEF Counted
<1> QED BY <1>1, <1>4 DEF CountInv, Init, Assigned

\* The counter never counts less than its users.
LEMMA CountIsInductive == Spec => []CountInv
BY InitCount, NextCount, PTL DEF Spec

\* The reference counter never falls below zero, and everything else keeps its type
\* (active_task.py:602-606, 703-709, 851-872).
THEOREM TypeCorrect == Spec => []TypeOK
<1>1. CountInv => TypeOK
  BY DEF CountInv
<1> QED BY <1>1, CountIsInductive, PTL

-----------------------------------------------------------------------------
(* Whoever runs is registered                                              *)

\* A removal is scheduled once for an ActiveTask, when nobody needs it any more, and no
\* other is registered before it is done.
Popping ==
    /\ pops \in {0, 1}
    /\ active # Nobody => phase[active] # "unborn"
    /\ pops = 1 => active \in Instances /\ phase[active] = "finished" /\ refs[active] = 0

\* Without a cancel() only start() holds the lock, and nobody stands in line for it.
Staged(i) ==
    /\ prod[i] => cons[i] \in {"run", "await"}
    /\ cons[i] \notin {"queued", "recheck"}
    /\ lock[i] <=> phase[i] = "starting"
    /\ phase[i] \in {"unborn", "starting"} => refs[i] = 0
    /\ i # active => refs[i] = 0 /\ phase[i] \in {"unborn", "finished"}

Placed(c) ==
    /\ pc[c] \in {"idle", "check", "starting", "have", "stream", "refused", "done"}
    /\ pc[c] \in {"check", "have", "stream"} => phase[inst[c]] # "unborn"
    /\ pc[c] = "starting" => inst[c] = active /\ phase[active] = "starting"
    /\ \A d \in Callers : pc[c] = "starting" /\ pc[d] = "starting" => c = d

Orderly ==
    /\ Popping
    /\ \A i \in Instances : Staged(i)
    /\ \A c \in Callers : Placed(c)

RegisteredInv == Undisturbed /\ closing # "done" => Orderly

\* A cancel() that has reached its ActiveTask stays beyond that point.
LEMMA ReachedStays == CountInv /\ [Next]_vars => \A c \in Cancelers : Reached(c) => Reached(c)'
<1> DEFINE Early == {"idle", "check", "starting", "have", "refused"}
<1> SUFFICES ASSUME CountInv, [Next]_vars, NEW c \in Cancelers, ~Reached(c)' PROVE pc[c] \in Early
  BY DEF Reached
<1>0. pc \in [Callers -> PCs] /\ c \in Callers /\ pc'[c] \in Early
  BY DEF CountInv, TypeOK, Callers, Reached
<1>1. ASSUME NEW d \in Callers, NEW to \in PCs, Goes(d, to), to \notin Early \/ pc[d] \in Early
      PROVE  pc[c] \in Early
  BY <1>0, <1>1 DEF Goes
<1>2. CASE pc' = pc
  BY <1>0, <1>2
<1>3. ASSUME NEW d \in Callers, CallerNext(d) PROVE pc[c] \in Early
  <2>1. CASE \/ LookUpRefused(d) \/ LookUpMisses(d) \/ LookUpHits(d) \/ ChecksOwner(d)
             \/ StartSucceeds(d) \/ StartFails(d) \/ Subscribes(d)
    <3>1. \E to \in {"refused", "starting", "have", "check", "stream"} : Goes(d, to)
      BY <2>1 DEF LookUpRefused, LookUpMisses, LookUpHits, ChecksOwner, StartSucceeds, StartFails, Subscribes
    <3>2. pc[d] \in Early
      BY <2>1 DEF LookUpRefused, LookUpMisses, LookUpHits, ChecksOwner, StartSucceeds, StartFails, Subscribes
    <3> QED BY <3>1, <3>2, <1>1 DEF PCs
  <2>2. CASE \/ Leaves(d) \/ LeavesLine(d) \/ CancelBegins(d) \/ CancelsProducer(d) \/ CancelDecides(d)
             \/ CancelSaves(d)
    <3>1. \E to \in {"queued", "recheck", "done", "agent", "await", "missing", "returned", "save"} : Goes(d, to)
      BY <2>2 DEF Leaves, LeavesLine, CancelBegins, CancelsProducer, CancelDecides, CancelSaves
    <3> QED BY <3>1, <1>1 DEF PCs
  <2>3. CASE ExecutorCancels(d)
    BY <2>3, <1>2 DEF ExecutorCancels, Applies, callVars
  <2> QED BY <1>3, <2>1, <2>2, <2>3 DEF CallerNext
<1>4. CASE \/ \E i \in Instances : TaskNext(i)
           \/ RemoveTask \/ AcloseBegins \/ AcloseTask \/ AcloseAwaits \/ AcloseReturns \/ UNCHANGED vars
  BY <1>2, <1>4 DEF TaskNext, AgentWorks, AgentCompletes, Applies, ProducerEnds, ConsumerStops,
     ConsumerLeaves, ConsumerLeavesLine, RemoveTask, AcloseBegins, AcloseTask, AcloseAwaits,
     AcloseReturns, vars, callVars
<1> QED BY <1>3, <1>4 DEF Next

\* Once disturbed, always disturbed.
LEMMA StaysDisturbed == CountInv /\ [Next]_vars /\ Undisturbed' => Undisturbed
BY ReachedStays DEF Undisturbed

\* Without references there is neither a stream nor a consumer.
LEMMA Unused ==
    ASSUME CountInv, NEW i \in Instances, refs[i] = 0
    PROVE  /\ cons[i] \in {"off", "recheck", "done"}
           /\ \A c \in Callers : inst[c] = i => pc[c] \notin Using
<1>1. refs[i] >= Cardinality(Users(i)) + Share(i) /\ Cardinality(Users(i)) \in Nat
  BY UsersFinite DEF CountInv, Counted
<1>2. Cardinality(Users(i)) = 0 /\ Share(i) = 0
  BY <1>1 DEF Share
<1>3. Users(i) = {}
  BY <1>2, UsersFinite, FS_EmptySet
<1>4. \A c \in Callers : inst[c] = i => pc[c] \notin Using
  BY <1>3 DEF Users
<1>5. cons[i] \in {"off", "recheck", "done"}
  BY <1>2 DEF Share, CountInv, TypeOK
<1> QED BY <1>4, <1>5

\* While no cancel() has reached an ActiveTask, every step keeps the removals in order.
LEMMA NextRegistered == CountInv /\ RegisteredInv /\ [Next]_vars => RegisteredInv'
<1> SUFFICES ASSUME CountInv, RegisteredInv, [Next]_vars, Undisturbed', closing' # "done"
             PROVE  Orderly'
  BY DEF RegisteredInv
<1>1. Undisturbed
  BY StaysDisturbed
<1>2. closing # "done"
  BY DEF Next, CallerNext, TaskNext, LookUpRefused, LookUpMisses, LookUpHits, ChecksOwner, StartSucceeds,
     StartFails, Subscribes, Leaves, LeavesLine, CancelBegins, ExecutorCancels, Applies, CancelsProducer,
     CancelDecides, CancelSaves, AgentWorks, AgentCompletes, ProducerEnds, ConsumerStops, ConsumerLeaves,
     ConsumerLeavesLine, RemoveTask, AcloseBegins, AcloseTask, AcloseAwaits, AcloseReturns, vars, closeVars
<1>o. Popping /\ (\A i \in Instances : Staged(i)) /\ (\A c \in Callers : Placed(c))
  BY <1>1, <1>2 DEF RegisteredInv, Orderly
<1>t. /\ active \in Instances \cup {Nobody} /\ Nobody \notin Instances
      /\ phase \in [Instances -> {"unborn", "starting", "running", "finished"}]
      /\ prod \in [Instances -> BOOLEAN] /\ lock \in [Instances -> BOOLEAN]
      /\ cons \in [Instances -> {"off", "run", "await", "queued", "recheck", "done"}]
      /\ refs \in [Instances -> Nat]
      /\ pc \in [Callers -> PCs] /\ inst \in [Callers -> Instances \cup {Nobody}]
      /\ \A c \in Callers : pc[c] \notin {"idle", "refused"} => inst[c] \in Instances
  BY DEF CountInv, TypeOK, Assigned, Instances, Nobody
\* Nobody stands in line.
<1>l. \A i \in Instances : Lining(i) = {}
  BY <1>o DEF Lining, Staged, Placed
\* A reference is held of the ActiveTask that is registered, and its removal is not scheduled.
<1>r. \A i \in Instances : refs[i] > 0 => /\ i = active /\ pops = 0 /\ ~lock[i]
                                          /\ phase[i] \in {"running", "finished"}
  BY <1>o, <1>t DEF Popping, Staged
<1>3. ASSUME NEW c \in Callers, LookUpRefused(c) \/ LookUpHits(c) \/ ChecksOwner(c) PROVE Orderly'
  <2>1. /\ UNCHANGED <<active, pops, phase, prod, cons, lock, refs>> /\ pc'[c] \in {"refused", "have", "check"}
        /\ pc'[c] # "refused" => phase[inst'[c]] # "unborn"
        /\ \A d \in Callers \ {c} : pc'[d] = pc[d] /\ inst'[d] = inst[d]
    BY <1>3, <1>o, <1>t DEF LookUpRefused, LookUpHits, ChecksOwner, Goes, taskVars, Popping, Placed
  <2>2. Popping' /\ \A i \in Instances : Staged(i)'
    BY <2>1, <1>o DEF Popping, Staged
  <2>3. \A d \in Callers : Placed(d)'
    BY <2>1, <1>o DEF Placed
  <2> QED BY <2>2, <2>3 DEF Orderly
<1>4. ASSUME NEW c \in Callers, LookUpMisses(c) PROVE Orderly'
  <2>1. PICK i \in Instances : /\ phase[i] = "unborn" /\ active' = i
                              /\ phase' = [phase EXCEPT ![i] = "starting"]
                              /\ lock' = [lock EXCEPT ![i] = TRUE] /\ inst' = [inst EXCEPT ![c] = i]
    BY <1>4 DEF LookUpMisses
  <2>2. /\ active = Nobody /\ Goes(c, "starting") /\ UNCHANGED <<pops, prod, cons, refs>>
    BY <1>4 DEF LookUpMisses
  <2>3. /\ pops = 0 /\ \A d \in Callers : pc[d] # "starting"
        /\ pc'[c] = "starting" /\ inst'[c] = i
        /\ \A d \in Callers \ {c} : pc'[d] = pc[d] /\ inst'[d] = inst[d]
    BY <2>1, <2>2, <1>o, <1>t DEF Popping, Placed, Goes
  <2>4. phase'[i] = "starting" /\ \A j \in Instances \ {i} : phase'[j] = phase[j] /\ lock'[j] = lock[j]
    BY <2>1, <1>t
  <2>5. Popping'
    BY <2>1, <2>2, <2>3, <2>4 DEF Popping
  <2>6. \A j \in Instances : Staged(j)'
    BY <2>1, <2>2, <2>4, <1>o, <1>t DEF Staged
  <2>7. \A d \in Callers : Placed(d)'
    BY <2>1, <2>3, <2>4, <1>o, <1>t DEF Placed
  <2> QED BY <2>5, <2>6, <2>7 DEF Orderly
<1>5. ASSUME NEW c \in Callers, StartSucceeds(c) \/ StartFails(c) PROVE Orderly'
  <2>1. PICK i \in Instances : i = inst[c]
    BY <1>5, <1>t DEF StartSucceeds, StartFails
  <2>2. /\ pc[c] = "starting" /\ i = active /\ phase[i] = "starting" /\ refs[i] = 0 /\ pops = 0
        /\ \A d \in Callers : pc[d] = "starting" => d = c
    BY <1>5, <2>1, <1>o, <1>t DEF StartSucceeds, StartFails, Placed, Popping, Staged
  <2>3. UNCHANGED <<active, inst>> /\ lock' = [lock EXCEPT ![i] = FALSE] /\ (Goes(c, "have") \/ Goes(c, "refused"))
    BY <1>5, <2>1 DEF StartSucceeds, StartFails
  <2>4. \/ /\ phase' = [phase EXCEPT ![i] = "running"] /\ refs' = [refs EXCEPT ![i] = @ + 1] /\ pops' = pops
           /\ cons' = [cons EXCEPT ![i] = "run"] /\ prod' = [prod EXCEPT ![i] = TRUE]
        \/ phase' = [phase EXCEPT ![i] = "finished"] /\ pops' = pops + 1 /\ UNCHANGED <<refs, cons, prod>>
    BY <1>5, <2>1 DEF StartSucceeds, StartFails
  <2>5. /\ pc'[c] \in {"have", "refused"} /\ \A d \in Callers \ {c} : pc'[d] = pc[d]
        /\ phase'[i] \in {"running", "finished"} /\ ~lock'[i]
        /\ \A j \in Instances \ {i} : /\ phase'[j] = phase[j] /\ lock'[j] = lock[j] /\ refs'[j] = refs[j]
                                       /\ cons'[j] = cons[j] /\ prod'[j] = prod[j]
    BY <2>3, <2>4, <1>t DEF Goes
  <2>6. Popping'
    BY <2>2, <2>3, <2>4, <1>t DEF Popping
  <2>7. Staged(i)'
    BY <2>2, <2>3, <2>4, <2>5, <1>o, <1>t DEF Staged
  <2>8. \A j \in Instances \ {i} : Staged(j)'
    BY <2>3, <2>5, <1>o DEF Staged
  <2>9. \A d \in Callers : Placed(d)'
    BY <2>1, <2>2, <2>3, <2>5, <1>o, <1>t DEF Placed
  <2> QED BY <2>6, <2>7, <2>8, <2>9 DEF Orderly
<1>6. ASSUME NEW c \in Callers, Subscribes(c) PROVE Orderly'
  <2>1. PICK i \in Instances : i = inst[c]
    BY <1>6, <1>t DEF Subscribes
  <2>2. pc[c] = "have" /\ phase[i] \in {"running", "finished"} /\ ~lock[i]
    BY <1>6, <2>1, <1>o, <1>t DEF Subscribes, Placed, Staged
  <2>3. /\ UNCHANGED <<active, pops, phase, prod, cons, lock, inst>> /\ pc'[c] \in {"refused", "stream"}
        /\ \A d \in Callers \ {c} : pc'[d] = pc[d]
        /\ \A j \in Instances \ {i} : refs'[j] = refs[j]
        /\ refs'[i] = refs[i] \/ phase[i] = "running"
    BY <1>6, <2>1, <2>2, <1>t DEF Subscribes, Goes
  <2>4. phase[i] = "running" => i = active
    BY <1>o DEF Staged
  <2>5. Popping'
    BY <2>3, <2>4, <1>o DEF Popping
  <2>6. \A j \in Instances : Staged(j)'
    BY <2>2, <2>3, <2>4, <1>o DEF Staged
  <2>7. \A d \in Callers : Placed(d)'
    BY <2>1, <2>2, <2>3, <1>o DEF Placed
  <2> QED BY <2>5, <2>6, <2>7 DEF Orderly
\* A caller or the consumer gives its reference back: at once, and the last one schedules the removal.
<1>b. ASSUME NEW i \in Instances, NEW x, refs[i] > 0, JoinsLine(i, x) \/ BothTurns(i, x)
      PROVE  /\ refs' = [refs EXCEPT ![i] = @ - 1] /\ i = active /\ pops = 0
             /\ pops' \in {0, 1} /\ (pops' = 1 => phase[i] = "finished" /\ refs'[i] = 0)
  <2>1. /\ BothTurns(i, x) /\ i = active /\ pops = 0
    BY <1>b, <1>l, <1>r DEF JoinsLine
  <2>2. refs' = [refs EXCEPT ![i] = @ - 1] /\ pops' = PopsAfter(i, refs[i] - 1)
    BY <2>1 DEF BothTurns
  <2> QED BY <2>1, <2>2, <1>t DEF PopsAfter
<1>7. ASSUME NEW c \in Callers, Leaves(c) \/ LeavesLine(c) PROVE Orderly'
  <2>1. PICK i \in Instances : i = inst[c]
    BY <1>7, <1>t DEF Leaves, LeavesLine
  <2>2. Leaves(c)
    BY <1>7, <1>o DEF LeavesLine, Placed
  <2>3. refs[i] > 0
    BY <2>1, <2>2, Unused, <1>t DEF Leaves, Using
  <2>4. JoinsLine(i, c) \/ BothTurns(i, c)
    BY <2>1, <2>2 DEF Leaves
  <2>6. pc[c] = "stream" /\ (Goes(c, "done") \/ Goes(c, "queued"))
        /\ UNCHANGED <<active, phase, prod, cons, lock, inst>>
    BY <2>2 DEF Leaves
  <2>7. Goes(c, "done")
    BY <2>1, <2>2, <2>3, <1>l, <1>r DEF Leaves, JoinsLine
  <2>8. pc'[c] = "done" /\ \A d \in Callers \ {c} : pc'[d] = pc[d]
    BY <2>7, <1>t DEF Goes
  <2>9. /\ refs' = [refs EXCEPT ![i] = @ - 1] /\ i = active
        /\ pops' \in {0, 1} /\ (pops' = 1 => phase[i] = "finished" /\ refs'[i] = 0)
    BY <2>3, <2>4, <1>b
  <2>10. Popping'
    BY <2>6, <2>9, <1>o DEF Popping
  <2>11. \A j \in Instances : Staged(j)'
    BY <2>3, <2>6, <2>9, <1>o, <1>r, <1>t DEF Staged
  <2>12. \A d \in Callers : Placed(d)'
    BY <2>6, <2>8, <1>o DEF Placed
  <2> QED BY <2>10, <2>11, <2>12 DEF Orderly
<1>8. ASSUME NEW c \in Callers, CancelBegins(c) \/ ExecutorCancels(c) \/ CancelsProducer(c) \/ CancelDecides(c)
                                \/ CancelSaves(c)
      PROVE  FALSE
  <2>1. CancelBegins(c)
    BY <1>8, <1>o DEF ExecutorCancels, CancelsProducer, CancelDecides, CancelSaves, Placed
  <2>2. c \in Cancelers /\ pc'[c] \in {"agent", "await"}
    BY <2>1, <1>t DEF CancelBegins, Goes
  <2> QED BY <2>2 DEF Undisturbed, Reached
<1>9. ASSUME NEW i \in Instances, AgentWorks(i) \/ AgentCompletes(i) \/ ProducerEnds(i) PROVE Orderly'
  <2>1. /\ UNCHANGED <<active, pops, cons, lock, refs, pc, inst>>
        /\ phase' = phase \/ (phase[i] = "running" /\ phase' = [phase EXCEPT ![i] = "finished"])
        /\ prod' = prod \/ prod' = [prod EXCEPT ![i] = FALSE]
    BY <1>9 DEF AgentWorks, AgentCompletes, Applies, ProducerEnds, callVars, Terminal
  <2>2. Popping'
    BY <2>1, <1>o, <1>t DEF Popping
  <2>3. \A j \in Instances : Staged(j)'
    BY <2>1, <1>o, <1>t DEF Staged
  <2>4. \A d \in Callers : Placed(d)'
    BY <2>1, <1>o, <1>t DEF Placed
  <2> QED BY <2>2, <2>3, <2>4 DEF Orderly
<1>10. ASSUME NEW i \in Instances, ConsumerStops(i) PROVE Orderly'
  <2>1. /\ UNCHANGED <<active, pops, prod, lock, refs, pc, inst>> /\ cons[i] = "run"
        /\ phase' = [phase EXCEPT ![i] = "finished"] /\ cons' = [cons EXCEPT ![i] = "await"]
    BY <1>10 DEF ConsumerStops, callVars
  <2>2. refs[i] > 0
    BY <2>1, Unused, <1>t
  <2>3. i = active /\ pops = 0 /\ phase[i] \in {"running", "finished"}
    BY <2>2, <1>r
  <2>4. Popping'
    BY <2>1, <2>3, <1>o, <1>t DEF Popping
  <2>5. \A j \in Instances : Staged(j)'
    BY <2>1, <2>3, <1>o, <1>t DEF Staged
  <2>6. \A d \in Callers : Placed(d)'
    BY <2>1, <2>3, <1>o, <1>t DEF Placed
  <2> QED BY <2>4, <2>5, <2>6 DEF Orderly
<1>11. ASSUME NEW i \in Instances, ConsumerLeaves(i) \/ ConsumerLeavesLine(i) PROVE Orderly'
  <2>1. ConsumerLeaves(i)
    BY <1>11, <1>o DEF ConsumerLeavesLine, Staged
  <2>2. /\ UNCHANGED <<active, phase, prod, lock, pc, inst>> /\ ~prod[i] /\ cons[i] = "await"
        /\ JoinsLine(i, Consumer) \/ BothTurns(i, Consumer)
    BY <2>1 DEF ConsumerLeaves, callVars
  <2>3. refs[i] > 0
    BY <2>2, Unused, <1>t
  <2>4. cons' = [cons EXCEPT ![i] = "done"]
    BY <2>1, <2>3, <1>l, <1>r DEF ConsumerLeaves, JoinsLine
  <2>5. /\ refs' = [refs EXCEPT ![i] = @ - 1] /\ i = active
        /\ pops' \in {0, 1} /\ (pops' = 1 => phase[i] = "finished" /\ refs'[i] = 0)
    BY <2>2, <2>3, <1>b
  <2>6. Popping'
    BY <2>2, <2>5, <1>o DEF Popping
  <2>7. \A j \in Instances : Staged(j)'
    BY <2>2, <2>3, <2>4, <2>5, <1>o, <1>r, <1>t DEF Staged
  <2>8. \A d \in Callers : Placed(d)'
    BY <2>2, <1>o DEF Placed
  <2> QED BY <2>6, <2>7, <2>8 DEF Orderly
<1>12. CASE RemoveTask
  <2>1. /\ pops > 0 /\ pops' = pops - 1 /\ active' = Nobody
        /\ UNCHANGED <<phase, prod, cons, lock, refs, pc, inst>>
    BY <1>12 DEF RemoveTask, taskVars, callVars
  <2>2. pops = 1 /\ active \in Instances /\ phase[active] = "finished" /\ refs[active] = 0
    BY <2>1, <1>o DEF Popping
  <2>3. Popping'
    BY <2>1, <2>2 DEF Popping
  <2>4. \A j \in Instances : Staged(j)'
    BY <2>1, <2>2, <1>o DEF Staged
  <2>5. \A d \in Callers : Placed(d)'
    BY <2>1, <2>2, <1>o DEF Placed
  <2> QED BY <2>3, <2>4, <2>5 DEF Orderly
<1>13. CASE AcloseTask
  <2>1. PICK i \in Instances : i = snapshot
    BY <1>13 DEF AcloseTask, CountInv
  <2>2. /\ ~lock[i] /\ phase' = [phase EXCEPT ![i] = "finished"] /\ prod' = [prod EXCEPT ![i] = FALSE]
        /\ cons' = [cons EXCEPT ![i] = IF @ \in {"queued", "recheck"} THEN "done" ELSE @]
        /\ UNCHANGED <<active, pops, lock, refs, pc, inst>>
    BY <1>13, <2>1 DEF AcloseTask, callVars
  <2>3. cons' = cons /\ phase[i] # "starting"
    BY <2>2, <1>o, <1>t DEF Staged
  <2>4. Popping'
    BY <2>2, <1>o, <1>t DEF Popping
  <2>5. \A j \in Instances : Staged(j)'
    BY <2>2, <2>3, <1>o, <1>t DEF Staged
  <2>6. \A d \in Callers : Placed(d)'
    BY <2>2, <2>3, <1>o, <1>t DEF Placed
  <2> QED BY <2>4, <2>5, <2>6 DEF Orderly
<1>14. CASE AcloseBegins \/ AcloseAwaits \/ AcloseReturns \/ UNCHANGED vars
  <2>1. ~AcloseReturns
    BY DEF AcloseReturns
  <2>2. UNCHANGED <<active, pops, phase, prod, cons, lock, refs, pc, inst>>
    BY <1>14, <2>1 DEF AcloseBegins, AcloseAwaits, vars, taskVars, callVars
  <2> QED BY <2>2, <1>o DEF Orderly, Popping, Staged, Placed
<1> QED BY <1>3, <1>4, <1>5, <1>6, <1>7, <1>8, <1>9, <1>10, <1>11, <1>12, <1>13, <1>14
        DEF Next, CallerNext, TaskNext

\* The removals are in order until a cancel() reaches an ActiveTask.
LEMMA RegistersInOrder == Spec => []RegisteredInv
<1>1. Init => RegisteredInv
  <2> SUFFICES ASSUME Init PROVE Orderly
    BY DEF RegisteredInv
  <2>1. Popping
    BY DEF Init, Popping
  <2>2. \A i \in Instances : Staged(i)
    BY DEF Init, Staged
  <2>3. \A c \in Callers : Placed(c)
    BY DEF Init, Placed
  <2> QED BY <2>1, <2>2, <2>3 DEF Orderly
<1> QED BY <1>1, CountIsInductive, NextRegistered, PTL DEF Spec

\* As long as no cancel() has reached an ActiveTask, the clean-up by id removes none but the one
\* it was meant for: whoever runs, or starts, is registered
\* (active_task_registry.py:99-109, active_task.py:602-606, 703-709, 851-872).
THEOREM WhoRunsIsRegistered == Spec => []RunningIsRegistered
<1>1. CountInv /\ RegisteredInv => RunningIsRegistered
  <2> SUFFICES ASSUME CountInv, Orderly, NEW i \in Instances, prod[i] \/ phase[i] = "starting"
               PROVE  active = i
    BY DEF RegisteredInv, RunningIsRegistered
  <2>1. Staged(i)
    BY DEF Orderly
  <2>2. CASE prod[i]
    <3>1. refs[i] # 0
      BY <2>1, <2>2, Unused DEF Staged
    <3> QED BY <3>1, <2>1 DEF Staged
  <2>3. CASE phase[i] = "starting"
    BY <2>1, <2>3 DEF Staged
  <2> QED BY <2>2, <2>3
<1> QED BY <1>1, CountIsInductive, RegistersInOrder, PTL

-----------------------------------------------------------------------------
(* What cancel() returned holds                                            *)

\* The ActiveTasks of the id are constructed one after another; whoever knows one knows it
\* at a stage that fits where the caller stands.
Known(c) ==
    /\ inst[c] # Nobody => phase[inst[c]] # "unborn"
    /\ pc[c] = "starting" => phase[inst[c]] = "starting"
    /\ pc[c] = "agent" => phase[inst[c]] # "starting"
    /\ pc[c] \in {"save", "returned"} => phase[inst[c]] = "finished"
    /\ pc[c] \in {"agent", "await", "save"} => c \in Cancelers
    /\ \A d \in Callers : pc[c] = "starting" /\ pc[d] = "starting" /\ inst[c] = inst[d] => c = d

BirthInv ==
    /\ \A i, j \in Instances : i < j /\ phase[j] # "unborn" => phase[i] # "unborn"
    /\ active # Nobody => phase[active] # "unborn"
    /\ snapshot # Nobody => phase[snapshot] # "unborn"
    /\ \A i \in Instances : /\ phase[i] = "starting" => lock[i]
                            /\ cons[i] # "off" => phase[i] \in {"running", "finished"}
    /\ \A c \in Callers : Known(c)

\* No step takes an ActiveTask back to an earlier stage, and only a look-up changes which one a
\* caller is about.
LEMMA StagesGrow ==
    ASSUME CountInv, BirthInv, [Next]_vars
    PROVE  /\ \A i \in Instances : /\ phase[i] # "unborn" => phase'[i] # "unborn"
                                   /\ phase[i] = "finished" => phase'[i] = "finished"
                                   /\ phase[i] = "running" => phase'[i] # "starting"
           /\ \A c \in Callers : pc[c] # "idle" => inst'[c] = inst[c]
<1>t. /\ phase \in [Instances -> {"unborn", "starting", "running", "finished"}]
      /\ pc \in [Callers -> PCs] /\ inst \in [Callers -> Instances \cup {Nobody}]
      /\ \A c \in Callers : pc[c] \notin {"idle", "refused"} => inst[c] \in Instances
  BY DEF CountInv, TypeOK, Assigned
<1>1. \/ phase' = phase
      \/ \E i \in Instances : \/ phase[i] = "unborn" /\ phase' = [phase EXCEPT ![i] = "starting"]
                              \/ phase[i] = "starting" /\ phase' = [phase EXCEPT ![i] = "running"]
                              \/ phase[i] # "unborn" /\ phase' = [phase EXCEPT ![i] = "finished"]
  <2>1. ASSUME NEW c \in Callers, LookUpMisses(c) PROVE <1>1!2
    BY <2>1 DEF LookUpMisses
  <2>2. ASSUME NEW c \in Callers, StartSucceeds(c) \/ StartFails(c) PROVE <1>1!2
    <3>1. inst[c] \in Instances /\ phase[inst[c]] = "starting"
      BY <2>2, <1>t DEF StartSucceeds, StartFails, BirthInv, Known
    <3> QED BY <2>2, <3>1 DEF StartSucceeds, StartFails
  <2>3. ASSUME NEW c \in Callers, ExecutorCancels(c) PROVE phase' = phase \/ <1>1!2
    <3>1. inst[c] \in Instances
      BY <2>3, <1>t DEF ExecutorCancels
    <3> QED BY <2>3, <3>1 DEF ExecutorCancels, Applies
  <2>4. ASSUME NEW i \in Instances, AgentWorks(i) \/ AgentCompletes(i) PROVE phase' = phase \/ <1>1!2
    BY <2>4 DEF AgentWorks, AgentCompletes, Applies
  <2>5. ASSUME NEW i \in Instances, ConsumerStops(i) PROVE <1>1!2
    BY <2>5 DEF ConsumerStops, BirthInv
  <2>6. CASE AcloseTask
    <3>1. snapshot \in Instances /\ phase[snapshot] # "unborn"
      BY <2>6 DEF AcloseTask, CountInv, BirthInv, Instances, Nobody
    <3> QED BY <2>6, <3>1 DEF AcloseTask
  <2>7. CASE UNCHANGED vars
    BY <2>7 DEF vars, taskVars
  <2>8. ASSUME NEW c \in Callers, \/ LookUpRefused(c) \/ LookUpHits(c) \/ ChecksOwner(c) \/ Subscribes(c)
                                  \/ Leaves(c) \/ LeavesLine(c) \/ CancelBegins(c) \/ CancelsProducer(c)
                                  \/ CancelDecides(c) \/ CancelSaves(c)
        PROVE  phase' = phase
    BY <2>8 DEF LookUpRefused, LookUpHits, ChecksOwner, Subscribes, Leaves, LeavesLine, CancelBegins,
       CancelsProducer, CancelDecides, CancelSaves, taskVars
  <2>9. CASE (\E i \in Instances : ProducerEnds(i) \/ ConsumerLeaves(i) \/ ConsumerLeavesLine(i))
             \/ RemoveTask \/ AcloseBegins \/ AcloseAwaits \/ AcloseReturns
    BY <2>9 DEF ProducerEnds, ConsumerLeaves, ConsumerLeavesLine, RemoveTask, AcloseBegins, AcloseAwaits,
       AcloseReturns, taskVars
  <2> QED BY <2>1, <2>2, <2>3, <2>4, <2>5, <2>6, <2>7, <2>8, <2>9 DEF Next, CallerNext, TaskNext
<1>2. \A c \in Callers : pc[c] # "idle" => inst'[c] = inst[c]
  <2>1. ASSUME NEW d \in Callers, LookUpMisses(d) \/ LookUpHits(d)
        PROVE  pc[d] = "idle" /\ \A c \in Callers \ {d} : inst'[c] = inst[c]
    BY <2>1, <1>t DEF LookUpMisses, LookUpHits
  <2>2. inst' = inst \/ \E d \in Callers : LookUpMisses(d) \/ LookUpHits(d)
    BY DEF Next, CallerNext, TaskNext, LookUpRefused, ChecksOwner, StartSucceeds,
     StartFails, Subscribes, Leaves, LeavesLine, CancelBegins, ExecutorCancels, Applies, CancelsProducer,
     CancelDecides, CancelSaves, AgentWorks, AgentCompletes, ProducerEnds, ConsumerStops, ConsumerLeaves,
     ConsumerLeavesLine, RemoveTask, AcloseBegins, AcloseTask, AcloseAwaits, AcloseReturns, vars, callVars
  <2> QED BY <2>1, <2>2
<1> QED BY <1>1, <1>2, <1>t

\* The ActiveTasks and who is about them: every step keeps that in order.
LEMMA NextBirth == CountInv /\ BirthInv /\ [Next]_vars => BirthInv'
<1> SUFFICES ASSUME CountInv, BirthInv, [Next]_vars PROVE BirthInv'
  OBVIOUS
<1>g. /\ \A i \in Instances : /\ phase[i] # "unborn" => phase'[i] # "unborn"
                              /\ phase[i] = "finished" => phase'[i] = "finished"
                              /\ phase[i] = "running" => phase'[i] # "starting"
      /\ \A c \in Callers : pc[c] # "idle" => inst'[c] = inst[c]
  BY StagesGrow
<1>t. /\ active \in Instances \cup {Nobody} /\ snapshot \in Instances \cup {Nobody} /\ Nobody \notin Instances
      /\ phase \in [Instances -> {"unborn", "starting", "running", "finished"}]
      /\ lock \in [Instances -> BOOLEAN]
      /\ cons \in [Instances -> {"off", "run", "await", "queued", "recheck", "done"}]
      /\ pc \in [Callers -> PCs] /\ inst \in [Callers -> Instances \cup {Nobody}]
      /\ \A c \in Callers : pc[c] \notin {"idle", "refused"} => inst[c] \in Instances
      /\ closing = "cancel" => snapshot \in Instances
  BY DEF CountInv, TypeOK, Assigned, Instances, Nobody
<1>b. /\ \A i, j \in Instances : i < j /\ phase[j] # "unborn" => phase[i] # "unborn"
      /\ active # Nobody => phase[active] # "unborn"
      /\ snapshot # Nobody => phase[snapshot] # "unborn"
      /\ \A i \in Instances : /\ phase[i] = "starting" => lock[i]
                              /\ cons[i] # "off" => phase[i] \in {"running", "finished"}
      /\ \A c \in Callers : Known(c)
  BY DEF BirthInv
\* Unless an ActiveTask is registered or started, only these things change.
<1> DEFINE Calm ==
             /\ \A i \in Instances : /\ phase'[i] = "unborn" <=> phase[i] = "unborn"
                                     /\ phase'[i] = "starting" <=> phase[i] = "starting"
                                     /\ phase[i] = "starting" => lock'[i] = lock[i]
                                     /\ cons'[i] = "off" <=> cons[i] = "off"
             /\ active' \in {active, Nobody}
             /\ snapshot' \in {active, snapshot}
             /\ \A c \in Callers :
                  /\ inst'[c] \in {active, inst[c]}
                  /\ pc'[c] = "starting" => pc[c] = "starting"
                  /\ pc'[c] = "agent" => pc[c] = "agent" \/ (pc[c] = "have" /\ phase'[inst[c]] # "starting")
                  /\ pc'[c] \in {"save", "returned"} =>
                        pc[c] \in {"save", "returned"} \/ (pc[c] = "await" /\ phase'[inst[c]] = "finished")
                  /\ pc'[c] \in {"agent", "await", "save"} => pc[c] \in {"agent", "await", "save"} \/ c \in Cancelers
<1>c. ASSUME Calm PROVE BirthInv'
  <2>1. \A c \in Callers : Known(c)'
    <3> TAKE c \in Callers
    <3>1. inst'[c] # Nobody => phase'[inst'[c]] # "unborn"
      BY <1>c, <1>b, <1>t DEF Known
    <3>2. pc'[c] = "starting" => phase'[inst'[c]] = "starting"
      <4> SUFFICES ASSUME pc'[c] = "starting" PROVE phase'[inst'[c]] = "starting"
        OBVIOUS
      <4>1. pc[c] = "starting"
        BY <1>c
      <4>2. inst'[c] = inst[c] /\ inst[c] \in Instances /\ phase[inst[c]] = "starting"
        BY <4>1, <1>g, <1>t, <1>b DEF Known
      <4> QED BY <4>2, <1>c
    <3>3. pc'[c] = "agent" => phase'[inst'[c]] # "starting"
      <4> SUFFICES ASSUME pc'[c] = "agent" PROVE phase'[inst'[c]] # "starting"
        OBVIOUS
      <4>1. CASE pc[c] = "agent"
        <5>1. inst'[c] = inst[c] /\ inst[c] \in Instances /\ phase[inst[c]] # "starting"
          BY <4>1, <1>g, <1>t, <1>b DEF Known
        <5> QED BY <5>1, <1>c
      <4> QED BY <4>1, <1>c, <1>g
    <3>4. pc'[c] \in {"save", "returned"} => phase'[inst'[c]] = "finished"
      <4> SUFFICES ASSUME pc'[c] \in {"save", "returned"} PROVE phase'[inst'[c]] = "finished"
        OBVIOUS
      <4>1. CASE pc[c] \in {"save", "returned"}
        <5>1. inst'[c] = inst[c] /\ inst[c] \in Instances /\ phase[inst[c]] = "finished"
          BY <4>1, <1>g, <1>t, <1>b DEF Known
        <5> QED BY <5>1, <1>g
      <4> QED BY <4>1, <1>c, <1>g
    <3>5. ASSUME NEW d \in Callers, pc'[c] = "starting", pc'[d] = "starting", inst'[c] = inst'[d] PROVE c = d
      <4>1. pc[c] = "starting" /\ pc[d] = "starting"
        BY <1>c, <3>5
      <4>2. inst[c] = inst[d]
        BY <4>1, <3>5, <1>g
      <4> QED BY <4>1, <4>2, <1>b DEF Known
    <3>6. pc'[c] \in {"agent", "await", "save"} => c \in Cancelers
      BY <1>c, <1>b DEF Known
    <3> QED BY <3>1, <3>2, <3>3, <3>4, <3>5, <3>6 DEF Known
  <2>2. \A i, j \in Instances : i < j /\ phase'[j] # "unborn" => phase'[i] # "unborn"
    BY <1>c, <1>b
  <2>3. \A i \in Instances : phase'[i] = "starting" => lock'[i]
    BY <1>c, <1>b
  <2>4. \A i \in Instances : cons'[i] # "off" => phase'[i] \in {"running", "finished"}
    <3> TAKE i \in Instances
    <3>1. phase[i] \in {"running", "finished"} => phase'[i] \in {"running", "finished"}
      <4>1. phase'[i] \in {"unborn", "starting", "running", "finished"}
        BY NextCount DEF CountInv, TypeOK
      <4> QED BY <4>1, <1>g
    <3> QED BY <3>1, <1>c, <1>b
  <2>5. (active' # Nobody => phase'[active'] # "unborn") /\ (snapshot' # Nobody => phase'[snapshot'] # "unborn")
    BY <1>c, <1>b, <1>t
  <2> QED BY <2>1, <2>2, <2>3, <2>4, <2>5 DEF BirthInv
<1>1. ASSUME NEW c \in Callers, LookUpMisses(c) PROVE BirthInv'
  <2>1. PICK i \in Instances : /\ phase[i] = "unborn" /\ \A j \in 1 .. i - 1 : phase[j] # "unborn"
                              /\ active' = i /\ phase' = [phase EXCEPT ![i] = "starting"]
                              /\ lock' = [lock EXCEPT ![i] = TRUE] /\ inst' = [inst EXCEPT ![c] = i]
    BY <1>1 DEF LookUpMisses
  <2>2. Goes(c, "starting") /\ UNCHANGED <<cons, snapshot>>
    BY <1>1 DEF LookUpMisses, closeVars
  <2>3. /\ pc'[c] = "starting" /\ inst'[c] = i /\ phase'[i] = "starting" /\ lock'[i]
        /\ \A d \in Callers \ {c} : pc'[d] = pc[d] /\ inst'[d] = inst[d]
        /\ \A j \in Instances \ {i} : phase'[j] = phase[j] /\ lock'[j] = lock[j]
    BY <2>1, <2>2, <1>t DEF Goes
  <2>4. \A j, k \in Instances : j < k /\ phase'[k] # "unborn" => phase'[j] # "unborn"
    <3> SUFFICES ASSUME NEW j \in Instances, NEW k \in Instances, j < k, phase'[k] # "unborn", j # i
                 PROVE  phase[j] # "unborn"
      BY <2>3
    <3>1. CASE k = i
      BY <3>1, <2>1 DEF Instances
    <3>2. CASE k # i
      BY <3>2, <2>3, <1>b
    <3> QED BY <3>1, <3>2
  <2>5. \A j \in Instances : /\ phase'[j] = "starting" => lock'[j]
                             /\ cons'[j] # "off" => phase'[j] \in {"running", "finished"}
    BY <2>1, <2>2, <2>3, <1>b
  <2>6. \A d \in Callers : Known(d)'
    <3>1. \A d \in Callers \ {c} : /\ inst[d] # Nobody => inst[d] # i
                                   /\ pc[d] \in {"starting", "agent", "save", "returned"} => inst[d] # i /\ inst[d] \in Instances
      BY <2>1, <1>b, <1>t DEF Known
    <3>2. Known(c)'
      BY <2>3, <3>1 DEF Known
    <3>3. \A d \in Callers \ {c} : Known(d)'
      BY <2>3, <3>1, <1>b, <1>t DEF Known
    <3> QED BY <3>2, <3>3
  <2>7. (active' # Nobody => phase'[active'] # "unborn") /\ (snapshot' # Nobody => phase'[snapshot'] # "unborn")
    BY <2>1, <2>2, <1>b, <1>g, <1>t
  <2> QED BY <2>4, <2>5, <2>6, <2>7 DEF BirthInv
<1>2. ASSUME NEW c \in Callers, StartSucceeds(c) \/ StartFails(c) PROVE BirthInv'
  <2>1. PICK i \in Instances : i = inst[c]
    BY <1>2, <1>t DEF StartSucceeds, StartFails
  <2>2. /\ pc[c] = "starting" /\ phase[i] = "starting" /\ UNCHANGED <<active, snapshot, inst>>
        /\ lock' = [lock EXCEPT ![i] = FALSE] /\ (Goes(c, "have") \/ Goes(c, "refused"))
    BY <1>2, <2>1, <1>b DEF StartSucceeds, StartFails, Known, closeVars
  <2>3. \/ phase' = [phase EXCEPT ![i] = "running"] /\ cons' = [cons EXCEPT ![i] = "run"]
        \/ phase' = [phase EXCEPT ![i] = "finished"] /\ UNCHANGED cons
    BY <1>2, <2>1 DEF StartSucceeds, StartFails
  <2>4. /\ pc'[c] \in {"have", "refused"} /\ \A d \in Callers \ {c} : pc'[d] = pc[d]
        /\ phase'[i] \in {"running", "finished"}
        /\ \A j \in Instances \ {i} : phase'[j] = phase[j] /\ lock'[j] = lock[j] /\ cons'[j] = cons[j]
    BY <2>2, <2>3, <1>t DEF Goes
  <2>5. \A d \in Callers : Known(d)'
    <3>1. \A d \in Callers \ {c} : pc[d] = "starting" => inst[d] # i /\ inst[d] \in Instances
      BY <2>1, <2>2, <1>b, <1>t DEF Known
    <3>2. \A d \in Callers \ {c} : pc[d] \in {"agent", "save", "returned"} => inst[d] \in Instances
      BY <1>t
    <3>3. \A d \in Callers : Known(d)
      BY <1>b
    <3>4. Known(c)'
      BY <2>1, <2>2, <2>4, <3>3 DEF Known
    <3>5. ASSUME NEW d \in Callers \ {c} PROVE Known(d)'
      <4>1. inst'[d] # Nobody => phase'[inst'[d]] # "unborn"
        BY <2>2, <3>3, <1>g, <1>t DEF Known
      <4>2. pc'[d] = "starting" => phase'[inst'[d]] = "starting"
        BY <2>2, <2>4, <3>1, <3>3 DEF Known
      <4>3. pc'[d] = "agent" => phase'[inst'[d]] # "starting"
        BY <2>2, <2>4, <3>2, <3>3 DEF Known
      <4>4. pc'[d] \in {"save", "returned"} => phase'[inst'[d]] = "finished"
        BY <2>2, <2>4, <3>2, <3>3, <1>g DEF Known
      <4>5. \A e \in Callers : pc'[d] = "starting" /\ pc'[e] = "starting" /\ inst'[d] = inst'[e] => d = e
        BY <2>2, <2>4, <3>3 DEF Known
      <4>6. pc'[d] \in {"agent", "await", "save"} => d \in Cancelers
        BY <2>4, <3>3 DEF Known
      <4> QED BY <4>1, <4>2, <4>3, <4>4, <4>5, <4>6 DEF Known
    <3> QED BY <3>4, <3>5
  <2>6. \A j, k \in Instances : j < k /\ phase'[k] # "unborn" => phase'[j] # "unborn"
    BY <2>2, <2>4, <1>b
  <2>7. \A j \in Instances : /\ phase'[j] = "starting" => lock'[j]
                             /\ cons'[j] # "off" => phase'[j] \in {"running", "finished"}
    BY <2>4, <1>b
  <2>8. (active' # Nobody => phase'[active'] # "unborn") /\ (snapshot' # Nobody => phase'[snapshot'] # "unborn")
    BY <2>2, <1>b, <1>g, <1>t
  <2> QED BY <2>5, <2>6, <2>7, <2>8 DEF BirthInv
<1>h. ASSUME NEW c \in Callers, NEW to, Goes(c, to) PROVE pc'[c] = to /\ \A d \in Callers \ {c} : pc'[d] = pc[d]
  BY <1>h, <1>t DEF Goes
<1>3. ASSUME NEW c \in Callers, \/ LookUpRefused(c) \/ LookUpHits(c) \/ ChecksOwner(c) \/ Subscribes(c)
                                \/ Leaves(c) \/ LeavesLine(c) \/ CancelDecides(c) \/ CancelSaves(c)
      PROVE  Calm
  <2>1. UNCHANGED <<active, phase, cons, lock, snapshot>>
    BY <1>3 DEF LookUpRefused, LookUpHits, ChecksOwner, Subscribes, Leaves, LeavesLine, CancelDecides,
       CancelSaves, taskVars, closeVars
  <2>2. \A d \in Callers : inst'[d] \in {active, inst[d]}
    BY <1>3, <1>t DEF LookUpRefused, LookUpHits, ChecksOwner, Subscribes, Leaves, LeavesLine, CancelDecides,
       CancelSaves
  <2>3. \/ \E to \in {"refused", "have", "check", "stream", "queued", "recheck", "done", "missing"} : Goes(c, to)
        \/ pc[c] = "await" /\ phase[inst[c]] = "finished" /\ (Goes(c, "returned") \/ Goes(c, "save"))
        \/ pc[c] = "save" /\ Goes(c, "returned")
    BY <1>3 DEF LookUpRefused, LookUpHits, ChecksOwner, Subscribes, Leaves, LeavesLine, CancelDecides,
       CancelSaves
  <2>4. /\ pc'[c] \notin {"starting", "agent"} /\ \A d \in Callers \ {c} : pc'[d] = pc[d]
        /\ pc'[c] \in {"save", "returned"} => pc[c] = "save" \/ (pc[c] = "await" /\ phase[inst[c]] = "finished")
        /\ pc'[c] \in {"agent", "await", "save"} => pc[c] = "await"
    BY <2>3, <1>h
  <2> QED BY <2>1, <2>2, <2>4
<1>4. ASSUME NEW c \in Callers, CancelBegins(c) \/ CancelsProducer(c) PROVE Calm
  <2>1. PICK i \in Instances : i = inst[c]
    BY <1>4, <1>t DEF CancelBegins, CancelsProducer
  <2>2. phase[i] # "starting" /\ UNCHANGED <<active, phase, cons, inst, snapshot>>
    BY <1>4, <2>1, <1>b DEF CancelBegins, CancelsProducer, Known, closeVars
  <2>3. \A j \in Instances \ {i} : lock'[j] = lock[j]
    BY <1>4, <2>1, <1>t DEF CancelBegins, CancelsProducer
  <2>4. (Goes(c, "agent") /\ pc[c] = "have") \/ Goes(c, "await")
    BY <1>4 DEF CancelBegins, CancelsProducer
  <2>6. pc[c] = "agent" \/ c \in Cancelers
    BY <1>4 DEF CancelBegins, CancelsProducer
  <2>5. pc'[c] \in {"agent", "await"} /\ (pc'[c] = "agent" => pc[c] = "have") /\ \A d \in Callers \ {c} : pc'[d] = pc[d]
    BY <2>4, <1>h
  <2> QED BY <2>1, <2>2, <2>3, <2>5, <2>6
\* A status is applied, or the consumer stops: what runs goes on or finishes.
<1>5. ASSUME NEW i \in Instances, Applies(i, "working") \/ Applies(i, "completed") \/ Applies(i, "canceled")
             \/ ConsumerStops(i)
      PROVE  Calm
  <2>1. /\ UNCHANGED <<active, lock, pc, inst, snapshot>> /\ cons[i] = "run"
        /\ phase' = phase \/ phase' = [phase EXCEPT ![i] = "finished"]
        /\ cons' = cons \/ cons' = [cons EXCEPT ![i] = "await"]
    BY <1>5 DEF Applies, ConsumerStops, callVars, closeVars
  <2>2. phase[i] \in {"running", "finished"}
    BY <2>1, <1>b
  <2> QED BY <2>1, <2>2, <1>t
<1>6. ASSUME NEW i \in Instances, ConsumerLeaves(i) \/ ConsumerLeavesLine(i) PROVE Calm
  <2>1. /\ UNCHANGED <<active, phase, lock, pc, inst, snapshot>> /\ cons[i] # "off"
        /\ \E to \in {"queued", "recheck", "done"} : cons' = [cons EXCEPT ![i] = to]
    BY <1>6 DEF ConsumerLeaves, ConsumerLeavesLine, callVars, closeVars
  <2> QED BY <2>1, <1>t
<1>7. ASSUME AcloseTask PROVE Calm
  <2>1. PICK i \in Instances : i = snapshot
    BY <1>7, <1>t DEF AcloseTask
  <2>2. /\ phase[i] \notin {"starting", "unborn"} /\ UNCHANGED <<active, lock, pc, inst, snapshot>>
        /\ phase' = [phase EXCEPT ![i] = "finished"]
        /\ cons' = [cons EXCEPT ![i] = IF @ \in {"queued", "recheck"} THEN "done" ELSE @]
    BY <1>7, <2>1, <1>b, <1>t DEF AcloseTask, callVars
  <2>3. \A j \in Instances : cons'[j] = "off" <=> cons[j] = "off"
    BY <2>2, <1>t
  <2> QED BY <2>2, <2>3, <1>t
<1>8. ASSUME \/ \E i \in Instances : ProducerEnds(i)
             \/ RemoveTask \/ AcloseBegins \/ AcloseAwaits \/ AcloseReturns \/ UNCHANGED vars
      PROVE  Calm
  <2>1. UNCHANGED <<phase, lock, cons, pc, inst>> /\ active' \in {active, Nobody} /\ snapshot' \in {active, snapshot}
    BY <1>8 DEF ProducerEnds, RemoveTask, AcloseBegins, AcloseAwaits, AcloseReturns, vars, taskVars, callVars,
       closeVars
  <2> QED BY <2>1
<1>9. ASSUME NEW c \in Callers, ExecutorCancels(c) PROVE Calm
  <2>1. PICK i \in Instances : i = inst[c]
    BY <1>9, <1>t DEF ExecutorCancels
  <2> QED BY <1>9, <2>1, <1>5 DEF ExecutorCancels
<1>10. ASSUME NEW i \in Instances, AgentWorks(i) \/ AgentCompletes(i) PROVE Calm
  BY <1>10, <1>5 DEF AgentWorks, AgentCompletes
<1> HIDE DEF Calm
<1> QED BY <1>c, <1>1, <1>2, <1>3, <1>4, <1>5, <1>6, <1>7, <1>8, <1>9, <1>10 DEF Next, CallerNext, TaskNext

\* Only the last ActiveTask is alive, and while no other was registered after it what it remembers
\* is what is stored.
Leading == \A i \in Instances : phase[i] \in {"starting", "running"} => Last(i)
Written == \A i \in Instances : Last(i) /\ phase[i] \in {"running", "finished"} => store = cached[i]
Returned == \A c \in Cancelers : pc[c] = "returned" => store \in Terminal

\* No cancel() has reached an ActiveTask but the last one.
Quiet == Undisturbed \/ \E c \in Cancelers : Reached(c) /\ Last(inst[c]) /\ Alone(c)
HoldInv == Quiet => Leading /\ Written /\ Returned

\* Who cancels is a caller.
LEMMA CancelersCall == Cancelers \subseteq Callers
BY DEF Callers

\* What is quiet was quiet before.
LEMMA StaysUnquiet ==
    ASSUME CountInv, BirthInv, [Next]_vars, Quiet'
    PROVE  Quiet
<1>t. \A c \in Callers : pc[c] \notin {"idle", "refused"} => inst[c] \in Instances
  BY DEF CountInv, Assigned
<1>g. /\ \A i \in Instances : phase[i] # "unborn" => phase'[i] # "unborn"
      /\ \A c \in Callers : pc[c] # "idle" => inst'[c] = inst[c]
  BY StagesGrow
<1>r. \A c \in Cancelers : Reached(c) => Reached(c)' /\ inst'[c] = inst[c] /\ inst[c] \in Instances
  BY ReachedStays, CancelersCall, <1>t, <1>g DEF Reached
<1>1. CASE Undisturbed'
  BY <1>1, StaysDisturbed DEF Quiet
<1>2. CASE \E c \in Cancelers : Reached(c)' /\ Last(inst[c])' /\ Alone(c)'
  <2>1. PICK c \in Cancelers : Reached(c)' /\ Last(inst[c])' /\ Alone(c)'
    BY <1>2
  <2>2. ASSUME NEW d \in Cancelers, Reached(d) PROVE inst[d] = inst'[c]
    BY <2>1, <2>2, <1>r DEF Alone
  <2>3. \A j \in Instances : j > inst'[c] => phase[j] = "unborn"
    BY <2>1, <1>g DEF Last
  <2>4. ASSUME NEW d \in Cancelers, Reached(d) PROVE Quiet
    <3>1. Last(inst[d])
      BY <2>2, <2>3, <2>4 DEF Last
    <3>2. Alone(d)
      BY <2>2, <2>4 DEF Alone
    <3> QED BY <2>4, <3>1, <3>2 DEF Quiet
  <2> QED BY <2>4 DEF Quiet, Undisturbed
<1> QED BY <1>1, <1>2 DEF Quiet

\* Of two ActiveTasks that exist one is not the last.
LEMMA LastIsOne ==
    ASSUME CountInv, NEW i \in Instances, NEW j \in Instances, Last(i), Last(j),
           phase[i] # "unborn", phase[j] # "unborn"
    PROVE  i = j
BY DEF Last, Instances

\* While it is quiet and a cancel() has returned, what it was about is the last ActiveTask, and has
\* finished.
LEMMA ReturnedIsLast ==
    ASSUME CountInv, BirthInv, Quiet, NEW c \in Cancelers, Reached(c)
    PROVE  /\ inst[c] \in Instances /\ Last(inst[c])
           /\ pc[c] \in {"save", "returned"} => phase[inst[c]] = "finished"
<1>1. inst[c] \in Instances
  BY CancelersCall DEF CountInv, Assigned, Reached
<1>2. Last(inst[c])
  BY DEF Quiet, Undisturbed, Alone
<1> QED BY <1>1, <1>2, CancelersCall DEF BirthInv, Known

\* A new ActiveTask is registered while no cancel() has reached one, when all others have finished.
LEMMA RegistersQuietly ==
    ASSUME CountInv, BirthInv, RegisteredInv, [Next]_vars, Quiet', NEW c \in Callers, LookUpMisses(c)
    PROVE  Undisturbed /\ \A i \in Instances : phase[i] \in {"unborn", "finished"}
<1>t. /\ phase \in [Instances -> {"unborn", "starting", "running", "finished"}] /\ Nobody \notin Instances
  BY DEF CountInv, TypeOK, Instances, Nobody
<1>1. PICK i \in Instances : phase[i] = "unborn" /\ phase' = [phase EXCEPT ![i] = "starting"]
  BY DEF LookUpMisses
<1>2. ~(\E d \in Cancelers : Reached(d) /\ Last(inst[d])')
  <2> SUFFICES ASSUME NEW d \in Cancelers, Reached(d), Last(inst[d])' PROVE FALSE
    OBVIOUS
  <2>1. d \in Callers /\ inst[d] \in Instances /\ inst'[d] = inst[d]
    BY CancelersCall, StagesGrow DEF CountInv, Assigned, Reached
  <2>2. phase[inst[d]] # "unborn"
    BY <2>1, <1>t DEF BirthInv, Known
  <2>3. ~(inst[d] < i)
    BY <2>1, <1>1, <1>t DEF Last
  <2>4. i < inst[d]
    BY <2>1, <2>2, <2>3, <1>1 DEF Instances
  <2> QED BY <2>1, <2>2, <2>4, <1>1 DEF BirthInv
<1>3. \A d \in Cancelers : Reached(d)' => Reached(d)
  BY CancelersCall DEF LookUpMisses, Goes, Reached, CountInv, TypeOK
<1>4. Undisturbed
  <2>1. CASE Undisturbed'
    BY <2>1, StaysDisturbed
  <2>2. ~Undisturbed' => FALSE
    BY <1>2, <1>3 DEF Quiet
  <2> QED BY <2>1, <2>2
<1>5. closing # "done" /\ active = Nobody
  BY DEF LookUpMisses, Closed
<1>6. \A j \in Instances : Staged(j)
  BY <1>4, <1>5 DEF RegisteredInv, Orderly
<1> QED BY <1>4, <1>5, <1>6, <1>t DEF Staged

\* While it is quiet, the last ActiveTask alone writes, and nobody writes after cancel() returned.
LEMMA NextHold == CountInv /\ BirthInv /\ RegisteredInv /\ HoldInv /\ [Next]_vars => HoldInv'
<1> SUFFICES ASSUME CountInv, BirthInv, RegisteredInv, HoldInv, [Next]_vars, Quiet'
             PROVE  Leading' /\ Written' /\ Returned'
  BY DEF HoldInv
<1>q. Quiet
  BY StaysUnquiet
<1>o. Leading /\ Written /\ Returned
  BY <1>q DEF HoldInv
<1>t. /\ store \in States
      /\ phase \in [Instances -> {"unborn", "starting", "running", "finished"}]
      /\ cached \in [Instances -> States]
      /\ pc \in [Callers -> PCs] /\ inst \in [Callers -> Instances \cup {Nobody}]
      /\ \A c \in Callers : pc[c] \notin {"idle", "refused"} => inst[c] \in Instances
      /\ closing = "cancel" => snapshot \in Instances
  BY DEF CountInv, TypeOK, Assigned
<1>b. /\ \A i, j \in Instances : i < j /\ phase[j] # "unborn" => phase[i] # "unborn"
      /\ \A i \in Instances : cons[i] # "off" => phase[i] \in {"running", "finished"}
      /\ \A c \in Callers : Known(c)
      /\ snapshot # Nobody => phase[snapshot] # "unborn"
      /\ \A i \in Instances : phase[i] = "starting" => lock[i]
  BY DEF BirthInv
<1>l. \A i \in Instances : Last(i)' => Last(i)
  BY StagesGrow DEF Last
\* Nothing is registered: the last one stays the last.
<1>k. ASSUME \A i \in Instances : phase'[i] = "unborn" <=> phase[i] = "unborn"
      PROVE  \A i \in Instances : Last(i)' <=> Last(i)
  BY <1>k DEF Last
<1>1. ASSUME NEW c \in Callers, LookUpMisses(c) PROVE Leading' /\ Written' /\ Returned'
  <2>1. PICK i \in Instances : phase[i] = "unborn" /\ phase' = [phase EXCEPT ![i] = "starting"]
    BY <1>1 DEF LookUpMisses
  <2>2. Undisturbed /\ \A j \in Instances : phase[j] \in {"unborn", "finished"}
    BY <1>1, RegistersQuietly
  <2>3. Goes(c, "starting")
    BY <1>1 DEF LookUpMisses
  <2>4. \A j \in Instances : j > i => phase[j] = "unborn"
    BY <2>1, <1>b
  <2>5. Leading'
    BY <2>1, <2>2, <2>4, <1>t DEF Leading, Last, Instances
  <2>6. ASSUME NEW j \in Instances, Last(j)', phase'[j] \in {"running", "finished"} PROVE FALSE
    <3>1. j # i /\ phase[j] # "unborn" /\ phase'[i] # "unborn"
      BY <2>1, <2>6, <1>t
    <3>2. ~(i > j)
      BY <2>6, <3>1 DEF Last
    <3> QED BY <3>1, <3>2, <2>4 DEF Instances
  <2>7. Written'
    BY <2>6 DEF Written
  <2>8. Returned'
    BY <2>2, <2>3, <1>t, CancelersCall DEF Returned, Goes, Undisturbed, Reached
  <2> QED BY <2>5, <2>7, <2>8
<1>2. ASSUME NEW c \in Callers, StartSucceeds(c) \/ StartFails(c) PROVE Leading' /\ Written' /\ Returned'
  <2>1. PICK i \in Instances : i = inst[c]
    BY <1>2, <1>t DEF StartSucceeds, StartFails
  <2>2. phase[i] = "starting" /\ Last(i)
    BY <1>2, <2>1, <1>b, <1>o DEF StartSucceeds, StartFails, Known, Leading
  <2>3. /\ phase' \in {[phase EXCEPT ![i] = "running"], [phase EXCEPT ![i] = "finished"]}
        /\ cached' = [cached EXCEPT ![i] = store] /\ store' = store
        /\ Goes(c, "have") \/ Goes(c, "refused")
    BY <1>2, <2>1 DEF StartSucceeds, StartFails
  <2>4. \A j \in Instances : Last(j)' <=> Last(j)
    BY <2>2, <2>3, <1>k, <1>t
  <2>5. Leading'
    BY <2>2, <2>3, <2>4, <1>o, <1>t DEF Leading
  <2>6. Written'
    BY <2>2, <2>3, <2>4, <1>o, <1>t DEF Written
  <2>7. Returned'
    BY <2>3, <1>o, <1>t, CancelersCall DEF Returned, Goes
  <2> QED BY <2>5, <2>6, <2>7
\* Only the last one writes, and only while no cancel() has returned.
<1>3. ASSUME NEW i \in Instances, NEW s \in States, Applies(i, s), phase[i] = "running"
      PROVE  Leading' /\ Written' /\ Returned'
  <2>1. Last(i)
    BY <1>3, <1>o DEF Leading
  <2>2. /\ store' = s /\ cached' = [cached EXCEPT ![i] = s] /\ pc' = pc
        /\ phase' \in {phase, [phase EXCEPT ![i] = "finished"]}
    BY <1>3 DEF Applies, callVars
  <2>3. \A j \in Instances : Last(j)' <=> Last(j)
    BY <2>2, <1>3, <1>k, <1>t
  <2>4. Leading'
    BY <2>2, <2>3, <1>o, <1>t DEF Leading
  <2>5. Written'
    <3> SUFFICES ASSUME NEW j \in Instances, Last(j)', phase'[j] \in {"running", "finished"} PROVE store' = cached'[j]
      BY DEF Written
    <3>1. Last(j) /\ phase[j] # "unborn"
      BY <2>2, <2>3, <1>3, <1>t
    <3>2. i = j
      BY <3>1, <2>1, <1>3, LastIsOne
    <3> QED BY <3>2, <2>2, <1>t
  <2>6. ASSUME NEW c \in Cancelers, pc[c] = "returned" PROVE FALSE
    <3>1. inst[c] \in Instances /\ Last(inst[c]) /\ phase[inst[c]] = "finished"
      BY <2>6, <1>q, ReturnedIsLast DEF Reached
    <3>2. i = inst[c]
      BY <3>1, <2>1, <1>3, LastIsOne
    <3> QED BY <3>1, <3>2, <1>3
  <2>7. Returned'
    BY <2>2, <2>6 DEF Returned
  <2> QED BY <2>4, <2>5, <2>7
<1>4. ASSUME NEW c \in Callers, ExecutorCancels(c) PROVE Leading' /\ Written' /\ Returned'
  <2>1. PICK i \in Instances : i = inst[c]
    BY <1>4, <1>t DEF ExecutorCancels
  <2> QED BY <1>4, <2>1, <1>3 DEF ExecutorCancels, States, Terminal
<1>5. ASSUME NEW i \in Instances, AgentWorks(i) \/ AgentCompletes(i) PROVE Leading' /\ Written' /\ Returned'
  BY <1>5, <1>3 DEF AgentWorks, AgentCompletes, States, Terminal
\* What runs finishes, and nothing is written.
<1>6. ASSUME NEW i \in Instances, phase[i] \in {"running", "finished"}, phase' = [phase EXCEPT ![i] = "finished"],
             UNCHANGED <<store, cached, pc>>
      PROVE  Leading' /\ Written' /\ Returned'
  <2>1. \A j \in Instances : Last(j)' <=> Last(j)
    BY <1>6, <1>k, <1>t
  <2>2. Leading'
    BY <1>6, <2>1, <1>o, <1>t DEF Leading
  <2>3. Written'
    BY <1>6, <2>1, <1>o, <1>t DEF Written
  <2> QED BY <1>6, <2>2, <2>3, <1>o DEF Returned
<1>7. ASSUME NEW i \in Instances, ConsumerStops(i) PROVE Leading' /\ Written' /\ Returned'
  BY <1>7, <1>6, <1>b DEF ConsumerStops, callVars
<1>8. CASE AcloseTask
  <2>1. PICK i \in Instances : i = snapshot
    BY <1>8, <1>t DEF AcloseTask
  <2>2. phase[i] \in {"running", "finished"}
    BY <1>8, <2>1, <1>b, <1>t DEF AcloseTask, Instances, Nobody
  <2>3. phase' = [phase EXCEPT ![i] = "finished"] /\ UNCHANGED <<store, cached, pc>>
    BY <1>8, <2>1 DEF AcloseTask, callVars
  <2> QED BY <2>2, <2>3, <1>6
\* cancel() goes by what the last ActiveTask remembers, which is what is stored.
<1>9. ASSUME NEW c \in Callers, CancelDecides(c) PROVE Leading' /\ Written' /\ Returned'
  <2>1. UNCHANGED <<store, phase, cached>> /\ \A d \in Callers \ {c} : pc'[d] = pc[d]
    BY <1>9, <1>t DEF CancelDecides, taskVars, Goes
  <2>2. ASSUME c \in Cancelers, pc'[c] = "returned" PROVE store \in Terminal
    <3>1. PICK i \in Instances : i = inst[c]
      BY <1>9, <1>t DEF CancelDecides
    <3>2. Last(i) /\ phase[i] = "finished"
      BY <1>9, <2>2, <3>1, <1>q, ReturnedIsLast DEF Reached, CancelDecides
    <3>3. store = cached[i]
      BY <3>2, <1>o DEF Written
    <3>4. \/ store = "none" /\ Goes(c, "missing")
          \/ store \in Terminal
          \/ Goes(c, "save")
      BY <1>9, <3>1, <3>3 DEF CancelDecides
    <3> QED BY <2>2, <3>4, <1>t DEF Goes
  <2>3. Returned'
    BY <2>1, <2>2, <1>o DEF Returned, Callers
  <2> QED BY <2>1, <2>3, <1>o DEF Leading, Written, Last
<1>10. ASSUME NEW c \in Callers, CancelSaves(c) PROVE Leading' /\ Written' /\ Returned'
  <2>1. PICK i \in Instances : i = inst[c]
    BY <1>10, <1>t DEF CancelSaves
  <2>2. store' = "canceled" /\ cached' = [cached EXCEPT ![i] = "canceled"] /\ phase' = phase
    BY <1>10, <2>1 DEF CancelSaves
  <2>3. phase[i] = "finished" /\ \A j \in Instances : Last(j)' <=> Last(j)
    BY <1>10, <2>1, <2>2, <1>b, <1>k DEF CancelSaves, Known
  <2>4. Last(i)
    <3>1. c \in Cancelers /\ Reached(c)
      BY <1>10, <1>b DEF CancelSaves, Known, Reached
    <3> QED BY <3>1, <2>1, <1>q, ReturnedIsLast
  <2>5. Written'
    <3> SUFFICES ASSUME NEW j \in Instances, Last(j)', phase'[j] \in {"running", "finished"} PROVE store' = cached'[j]
      BY DEF Written
    <3>1. i = j
      BY <2>2, <2>3, <2>4, LastIsOne
    <3> QED BY <3>1, <2>2, <1>t
  <2>6. Returned'
    BY <2>2 DEF Returned, Terminal
  <2>7. Leading'
    BY <2>2, <2>3, <1>o DEF Leading
  <2> QED BY <2>5, <2>6, <2>7
<1>11. ASSUME NEW c \in Callers, \/ LookUpRefused(c) \/ LookUpHits(c) \/ ChecksOwner(c) \/ Subscribes(c)
                                 \/ Leaves(c) \/ LeavesLine(c) \/ CancelBegins(c) \/ CancelsProducer(c)
       PROVE  Leading' /\ Written' /\ Returned'
  <2>1. UNCHANGED <<store, phase, cached>>
    BY <1>11 DEF LookUpRefused, LookUpHits, ChecksOwner, Subscribes, Leaves, LeavesLine, CancelBegins,
       CancelsProducer, taskVars
  <2>2. \E to \in {"refused", "have", "check", "stream", "queued", "recheck", "done", "agent", "await"} : Goes(c, to)
    BY <1>11 DEF LookUpRefused, LookUpHits, ChecksOwner, Subscribes, Leaves, LeavesLine, CancelBegins,
       CancelsProducer
  <2>3. Returned'
    BY <2>1, <2>2, <1>o, <1>t, CancelersCall DEF Returned, Goes
  <2> QED BY <2>1, <2>3, <1>o DEF Leading, Written, Last
<1>12. CASE (\E i \in Instances : ProducerEnds(i) \/ ConsumerLeaves(i) \/ ConsumerLeavesLine(i)) \/ RemoveTask
            \/ AcloseBegins \/ AcloseAwaits \/ AcloseReturns \/ UNCHANGED vars
  <2>1. UNCHANGED <<store, phase, cached, pc>>
    BY <1>12 DEF ProducerEnds, ConsumerLeaves, ConsumerLeavesLine, RemoveTask, AcloseBegins, AcloseAwaits,
       AcloseReturns, vars, taskVars, callVars
  <2> QED BY <2>1, <1>o DEF Leading, Written, Last, Returned
<1> QED BY <1>1, <1>2, <1>4, <1>5, <1>7, <1>8, <1>9, <1>10, <1>11, <1>12 DEF Next, CallerNext, TaskNext

\* Once a cancel() has returned the stored task is terminal and stays so, until a successor of its
\* ActiveTask is registered or another cancel() reaches a different one
\* (active_task.py:787-804, active_task_registry.py:99-109).
THEOREM CancelReturnsTheEnd == Spec => []CancelHolds
<1>1. Init => BirthInv
  BY DEF Init, BirthInv, Known
<1>2. Init => HoldInv
  BY CancelersCall DEF Init, HoldInv, Leading, Written, Returned
<1>3. HoldInv => CancelHolds
  BY DEF HoldInv, CancelHolds, Returned, Quiet, Reached
<1> QED BY <1>1, <1>2, <1>3, CountIsInductive, RegistersInOrder, NextBirth, NextHold, PTL DEF Spec
=============================================================================
