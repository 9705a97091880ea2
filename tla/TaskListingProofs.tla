------------------------- MODULE TaskListingProofs -------------------------
(***************************************************************************)
(* Proofs about TaskListing, for any tasks, owners, timestamps and pages   *)
(* and any number of changes.                                              *)
(***************************************************************************)
EXTENDS TaskListing, FiniteSetTheorems, WellFoundedInduction, TLAPS

\* The part of TypeOK the proof needs.
RowsInv ==
    /\ rows \in [Ids -> Row \cup {Absent}]
    /\ store \in {"memory", "database"}
    /\ got \in [Ids -> Nat]
    /\ untouched \in SUBSET Ids
    /\ token \in Ids \cup {NoToken}
    /\ sank \in BOOLEAN

\* Why no task is missed.  What did not change still matches; and it was returned
\* already or comes, in today's order, no earlier than the task of the token, or,
\* once the database has looked that up, than the row it had then.
WalkInv ==
    /\ phase = "idle" => token = NoToken
    /\ phase \in {"list", "select"} => untouched \subseteq Matching(store, req)
    /\ phase = "list" /\ ~sank /\ token # NoToken =>
            \A u \in untouched : got[u] >= 1 \/ ~Before(store, u, token)
    /\ phase = "select" => store = "database"
    /\ phase = "select" /\ ~sank =>
            \A u \in untouched : got[u] >= 1 \/ u \in RestInDatabase(req, from)
    /\ phase = "done" /\ ~sank => \A u \in untouched : got[u] >= 1

\* The number the order compares timestamps by is a natural number.
LEMMA StampsAreNatural ==
    ASSUME RowsInv, NEW i \in Ids
    PROVE  /\ rows[i].stamp \in Nat
           /\ \A s : Rank(s, rows[i].stamp) \in Int
           /\ i \in Nat
<1>1. rows[i] \in Row \cup {Absent}
  BY DEF RowsInv
<1>2. rows[i].stamp \in Instants \cup {0}
  BY <1>1 DEF Row, Absent, Stamps, NoStamp
<1>3. rows[i].stamp \in Nat /\ i \in Nat
  <2>1. Ids \subseteq Nat /\ Instants \subseteq Nat
    BY ListingAssumption
  <2>2. \A t \in Instants \cup {0} : t \in Nat
    BY <2>1
  <2>3. rows[i].stamp \in Nat
    BY <1>2, <2>2
  <2>4. i \in Nat
    BY <2>1
  <2> QED BY <2>3, <2>4
<1>4. \A t \in Nat : t % 2 \in Int
  OBVIOUS
<1> QED BY <1>3, <1>4 DEF Rank, JsonRank

\* The order of the listing is strict and total.
LEMMA BeforeOrders ==
    ASSUME RowsInv, NEW s
    PROVE  /\ \A i, j, k \in Ids : Before(s, i, j) /\ Before(s, j, k) => Before(s, i, k)
           /\ \A i \in Ids : ~Before(s, i, i)
           /\ \A i, j \in Ids : i = j \/ Before(s, i, j) \/ Before(s, j, i)
<1> SUFFICES ASSUME NEW i \in Ids, NEW j \in Ids, NEW k \in Ids
             PROVE  /\ Before(s, i, j) /\ Before(s, j, k) => Before(s, i, k)
                    /\ ~Before(s, i, i)
                    /\ i = j \/ Before(s, i, j) \/ Before(s, j, i)
  OBVIOUS
<1>1. /\ Rank(s, rows[i].stamp) \in Int /\ Rank(s, rows[j].stamp) \in Int
      /\ Rank(s, rows[k].stamp) \in Int
      /\ i \in Nat /\ j \in Nat /\ k \in Nat
  BY StampsAreNatural
<1> QED BY <1>1 DEF Before

\* The places of what is listed follow the order.
LEMMA PositionGrows ==
    ASSUME RowsInv, NEW s, NEW rest \in SUBSET Ids
    PROVE  /\ \A i \in Ids : Position(s, rest, i) \in Nat
           /\ \A i \in Ids, j \in rest : Before(s, j, i) => Position(s, rest, j) < Position(s, rest, i)
<1> DEFINE Ahead(i) == {j \in rest : Before(s, j, i)}
<1>1. IsFiniteSet(rest) /\ \A i \in Ids : IsFiniteSet(Ahead(i))
  <2>1. IsFiniteSet(rest)
    BY FS_Subset, ListingAssumption
  <2> QED BY <2>1, FS_Subset
<1>2. \A i \in Ids : Position(s, rest, i) \in Nat
  BY <1>1, FS_CardinalityType DEF Position
<1>3. ASSUME NEW i \in Ids, NEW j \in rest, Before(s, j, i)
      PROVE  Position(s, rest, j) < Position(s, rest, i)
  <2>1. Ahead(j) \subseteq Ahead(i)
    BY <1>3, BeforeOrders
  <2>2. j \in Ahead(i) /\ j \notin Ahead(j)
    BY <1>3, BeforeOrders
  <2>3. /\ Cardinality(Ahead(j)) <= Cardinality(Ahead(i))
        /\ Cardinality(Ahead(i)) # Cardinality(Ahead(j))
    <3>1. Ahead(j) \in SUBSET Ahead(i) /\ IsFiniteSet(Ahead(i)) /\ Ahead(i) # Ahead(j)
      BY <1>1, <2>1, <2>2
    <3> HIDE DEF Ahead
    <3> QED BY <3>1, FS_Subset
  <2>4. Cardinality(Ahead(j)) \in Nat /\ Cardinality(Ahead(i)) \in Nat
    BY <1>1, FS_CardinalityType
  <2>5. Cardinality(Ahead(j)) < Cardinality(Ahead(i))
    BY <2>3, <2>4
  <2> QED BY <2>5 DEF Position
<1> QED BY <1>2, <1>3

\* If a page leaves something over, one of what is left over is the first, and the
\* token names it.
LEMMA TokenIsFirst ==
    ASSUME RowsInv, NEW s, NEW rest \in SUBSET Ids, NEW size,
           rest \ PageOf(s, rest, size) # {}
    PROVE  LET later == rest \ PageOf(s, rest, size)
           IN  /\ NextToken(s, rest, size) \in later
               /\ \A j \in later : ~Before(s, j, NextToken(s, rest, size))
<1> DEFINE later == rest \ PageOf(s, rest, size)
<1>2. \A i \in Ids : Position(s, rest, i) \in Nat
  BY PositionGrows
<1>3. \A i, j \in later : Before(s, j, i) => Position(s, rest, j) < Position(s, rest, i)
  BY PositionGrows
<1>4. \E i \in later : \A j \in later : ~Before(s, j, i)
  <2> DEFINE places == {Position(s, rest, i) : i \in later}
  <2>1. places \in SUBSET Nat /\ places # {}
    BY <1>2
  <2>2. PICK n \in places : \A m \in places : n <= m
    <3>1. PICK n \in places : \A m \in places : <<m, n>> \notin OpToRel(<, Nat)
      BY <2>1, NatLessThanWellFounded, WFMin
    <3> HIDE DEF places
    <3>2. \A m \in places : ~(m < n)
      BY <2>1, <3>1 DEF OpToRel
    <3> QED BY <2>1, <3>2
  <2>3. PICK i \in later : n = Position(s, rest, i)
    BY <2>2
  <2>4. ASSUME NEW j \in later, Before(s, j, i) PROVE FALSE
    <3>1. Position(s, rest, j) < n
      BY <1>3, <2>3, <2>4
    <3>2. Position(s, rest, j) \in places /\ Position(s, rest, j) \in Nat /\ n \in Nat
      BY <1>2, <2>1, <2>2
    <3>3. n <= Position(s, rest, j)
      BY <2>2, <3>2
    <3> QED BY <3>1, <3>2, <3>3
  <2> QED BY <2>4
<1> QED BY <1>4 DEF NextToken

\* A page that was answered: what it was to cover is returned or still to come.
LEMMA Covered ==
    ASSUME RowsInv, NEW rest \in SUBSET Ids, Respond(rest), req' = req,
           NEW u \in Ids, got[u] >= 1 \/ u \in rest
    PROVE  \/ got'[u] >= 1
           \/ token' # NoToken /\ token' \in Ids /\ ~Before(store, u, token')
<1> DEFINE page == PageOf(store, rest, req.size)
<1>1. got[u] \in Nat
  BY DEF RowsInv
<1>2. got'[u] = IF u \in page THEN got[u] + 1 ELSE got[u]
  BY DEF Respond
<1>3. CASE got[u] >= 1
  BY <1>1, <1>2, <1>3
<1>4. CASE u \in page
  BY <1>1, <1>2, <1>4
<1>5. CASE u \in rest \ page
  <2>1. token' = NextToken(store, rest, req.size)
    BY DEF Respond
  <2>2. token' \in rest \ page /\ ~Before(store, u, token')
    BY <1>5, <2>1, TokenIsFirst
  <2>3. token' # NoToken
    BY <2>2, ListingAssumption DEF NoToken
  <2> QED BY <2>2, <2>3
<1> QED BY <1>3, <1>4, <1>5

\* What the database selects for the row it found covers what comes no earlier.
LEMMA LookedUp ==
    ASSUME RowsInv, NEW u \in Matching("database", req), NEW t \in Ids,
           ~Before("database", u, t), from' = [id |-> t, stamp |-> rows[t].stamp],
           UNCHANGED <<rows, req>>
    PROVE  u \in RestInDatabase(req, from)'
<1>1. u \in Ids
  BY DEF Matching, Stored
<1>2. /\ rows[u].stamp \in Nat /\ rows[t].stamp \in Nat
      /\ u \in Nat /\ t \in Nat
  BY <1>1, StampsAreNatural
<1>3. /\ ~(rows[u].stamp > rows[t].stamp)
      /\ rows[u].stamp = rows[t].stamp => ~(u > t)
  BY DEF Before, Rank
<1>4. Matching("database", req)' = Matching("database", req)
  BY DEF Matching, Stored
<1> QED BY <1>2, <1>3, <1>4 DEF RestInDatabase, NoStamp

\* Every step keeps those types.
LEMMA NextRowsInv == RowsInv /\ [Next]_vars => RowsInv'
<1> SUFFICES ASSUME RowsInv, [Next]_vars PROVE RowsInv'
  OBVIOUS
<1>1. ASSUME NEW i \in Ids, NEW state \in States, NEW stamp \in Stamps,
             Save(i, state, stamp)
      PROVE  RowsInv'
  <2>1. rows' \in [Ids -> Row \cup {Absent}]
    BY <1>1 DEF Save, RowsInv, Row
  <2> QED BY <1>1, <2>1 DEF Save, Touch, walkVars, RowsInv
<1>2. ASSUME NEW i \in Ids, Delete(i) PROVE RowsInv'
  BY <1>2 DEF Delete, Touch, walkVars, RowsInv
<1>3. ASSUME NEW r \in Requests, StartWalk(r) PROVE RowsInv'
  BY <1>3 DEF StartWalk, storeVars, RowsInv, Matching, Stored
<1>4. ASSUME NEW rest \in SUBSET Ids, Respond(rest), UNCHANGED <<storeVars, store>>
      PROVE  RowsInv'
  <2>1. got' \in [Ids -> Nat]
    BY <1>4 DEF Respond, RowsInv
  <2>2. token' \in Ids \cup {NoToken}
    <3>1. CASE rest \ PageOf(store, rest, req.size) = {}
      BY <1>4, <3>1 DEF Respond, NextToken
    <3>2. CASE rest \ PageOf(store, rest, req.size) # {}
      BY <1>4, <3>2, TokenIsFirst DEF Respond
    <3> QED BY <3>1, <3>2
  <2> QED BY <1>4, <2>1, <2>2 DEF Respond, storeVars, history, RowsInv
<1>5. CASE FirstPage
  BY <1>4, <1>5 DEF FirstPage, Matching, Stored
<1>6. CASE NextPageInMemory
  BY <1>4, <1>6 DEF NextPageInMemory, RestInMemory, Matching, Stored
<1>7. CASE SelectPage
  BY <1>4, <1>7 DEF SelectPage, RestInDatabase, Matching, Stored
<1>8. CASE LookUpToken
  BY <1>8 DEF LookUpToken, storeVars, history, RowsInv
<1>9. CASE RejectInMemory \/ RejectInDatabase
  BY <1>9 DEF RejectInMemory, RejectInDatabase, Reject, storeVars, history, RowsInv
<1>10. CASE UNCHANGED vars
  BY <1>10 DEF vars, storeVars, walkVars, history, RowsInv
<1> QED
  BY <1>1, <1>2, <1>3, <1>5, <1>6, <1>7, <1>8, <1>9, <1>10 DEF Next, WalkNext

\* A change of one task leaves the place of the others, and what matches, alone.
LEMMA OthersStay ==
    ASSUME RowsInv, NEW i \in Ids, NEW new, rows' = [rows EXCEPT ![i] = new],
           NEW s, UNCHANGED <<req, from>>
    PROVE  /\ \A u \in Ids \ {i} : rows'[u] = rows[u]
           /\ \A u \in Ids \ {i} : u \in Matching(s, req) => u \in Matching(s, req)'
           /\ \A u \in Ids \ {i} : u \in RestInDatabase(req, from)
                                   => u \in RestInDatabase(req, from)'
<1>1. \A u \in Ids \ {i} : rows'[u] = rows[u]
  BY DEF RowsInv
<1>2. \A v : \A u \in Ids \ {i} : u \in Matching(v, req) => u \in Matching(v, req)'
  BY <1>1 DEF Matching, Stored
<1> QED BY <1>1, <1>2 DEF RestInDatabase

\* Every step keeps the walk on its way to what did not change.
LEMMA NextWalkInv == RowsInv /\ WalkInv /\ [Next]_vars => WalkInv'
<1> SUFFICES ASSUME RowsInv, WalkInv, [Next]_vars PROVE WalkInv'
  OBVIOUS
<1>0. untouched \subseteq Ids /\ token \in Ids \cup {NoToken} /\ sank \in BOOLEAN
  BY DEF RowsInv
\* Changes of one task.
<1>1. ASSUME NEW i \in Ids, NEW new, rows' = [rows EXCEPT ![i] = new], Touch(i),
             UNCHANGED <<store, walkVars>>,
             sank => sank',
             ~sank' /\ phase = "list" /\ i = token
             => Rank(store, new.stamp) >= Rank(store, rows[i].stamp)
                /\ new.stamp \in Stamps
      PROVE  WalkInv'
  <2>1. /\ untouched' = untouched \ {i}
        /\ UNCHANGED <<store, phase, req, token, from, got>>
        /\ phase \in {"list", "select"}
    BY <1>1 DEF Touch, walkVars
  <2>2. untouched' \subseteq Matching(store, req)'
    BY <1>0, <1>1, <2>1, OthersStay DEF WalkInv
  <2>3. ASSUME phase = "list", ~sank', token # NoToken, NEW u \in untouched', got[u] < 1
        PROVE  ~Before(store, u, token)'
    <3>1. u \in Ids \ {i} /\ token \in Ids /\ ~sank /\ u \in untouched
      BY <1>0, <1>1, <2>1, <2>3
    <3>2. rows'[u] = rows[u] /\ ~Before(store, u, token)
      <4>1. got[u] \in Nat
        BY <3>1 DEF RowsInv
      <4> QED BY <1>1, <2>1, <2>3, <3>1, <4>1, OthersStay DEF WalkInv
    <3>3. CASE token # i
      <4>1. rows'[token] = rows[token]
        BY <1>1, <2>1, <3>1, <3>3, OthersStay
      <4> QED BY <2>1, <3>2, <4>1 DEF Before
    <3>4. CASE token = i
      <4>1. rows'[i] = new
        BY <1>1 DEF RowsInv
      <4>2. /\ Rank(store, rows[u].stamp) \in Int /\ Rank(store, rows[i].stamp) \in Int
            /\ u \in Nat /\ i \in Nat
        BY <3>1, StampsAreNatural
      <4>3. Rank(store, new.stamp) >= Rank(store, rows[i].stamp)
            /\ Rank(store, new.stamp) \in Int
        <5>1. \A t \in Stamps : t \in Nat
          BY ListingAssumption DEF Stamps, NoStamp
        <5>2. \A t \in Nat : t % 2 \in Int
          OBVIOUS
        <5> QED BY <1>1, <2>3, <3>4, <5>1, <5>2 DEF Rank, JsonRank
      <4>4. /\ ~(Rank(store, rows[u].stamp) > Rank(store, rows[i].stamp))
            /\ Rank(store, rows[u].stamp) = Rank(store, rows[i].stamp) => ~(u > i)
        BY <3>2, <3>4 DEF Before
      <4> HIDE DEF Rank
      <4>5. /\ ~(Rank(store, rows[u].stamp) > Rank(store, new.stamp))
            /\ Rank(store, rows[u].stamp) = Rank(store, new.stamp) => ~(u > i)
        BY <4>2, <4>3, <4>4
      <4> QED BY <2>1, <3>2, <3>4, <4>1, <4>5 DEF Before
    <3> QED BY <3>3, <3>4
  <2>4. ASSUME phase = "select", ~sank', NEW u \in untouched', got[u] < 1
        PROVE  u \in RestInDatabase(req, from)'
    <3>1. u \in Ids \ {i} /\ u \in untouched /\ ~sank /\ got[u] \in Nat
      BY <1>0, <1>1, <2>1, <2>4 DEF RowsInv
    <3>2. u \in RestInDatabase(req, from)
      BY <2>4, <3>1 DEF WalkInv
    <3> QED BY <1>1, <2>1, <3>1, <3>2, OthersStay
  <2>5. \A u \in untouched' : got'[u] = got[u] /\ got[u] \in Nat
    BY <1>0, <2>1 DEF RowsInv
  <2> QED BY <2>1, <2>2, <2>3, <2>4, <2>5 DEF WalkInv
<1>2. ASSUME NEW i \in Ids, NEW state \in States, NEW stamp \in Stamps,
             Save(i, state, stamp)
      PROVE  WalkInv'
  <2> DEFINE new == [state |-> state, stamp |-> stamp]
  <2>1. rows' = [rows EXCEPT ![i] = new] /\ new.stamp = stamp /\ Touch(i)
        /\ UNCHANGED <<store, walkVars>>
    BY <1>2 DEF Save
  <2>2. sank' = (sank \/ (phase = "list" /\ i = token
                          /\ Rank(store, stamp) < Rank(store, rows[i].stamp)))
    BY <1>2 DEF Save
  <2>3. Rank(store, stamp) \in Int /\ Rank(store, rows[i].stamp) \in Int
    <3>1. \A t \in Stamps : t \in Nat
      BY ListingAssumption DEF Stamps, NoStamp
    <3>2. \A t \in Nat : t % 2 \in Int
      OBVIOUS
    <3> QED BY <3>1, <3>2, StampsAreNatural DEF Rank, JsonRank
  <2>4. sank => sank'
    BY <2>2
  <2>5. ~sank' /\ phase = "list" /\ i = token
        => Rank(store, stamp) >= Rank(store, rows[i].stamp)
    <3> DEFINE a == Rank(store, stamp)
               b == Rank(store, rows[i].stamp)
    <3>1. ~sank' => ~((phase = "list" /\ i = token) /\ a < b)
      BY <2>2
    <3>2. a \in Int /\ b \in Int
      BY <2>3
    <3> HIDE DEF a, b
    <3>3. ~(a < b) => a >= b
      BY <3>2
    <3> QED BY <3>1, <3>3 DEF a, b
  <2> HIDE DEF new
  <2> QED BY <1>1, <2>1, <2>4, <2>5
<1>3. ASSUME NEW i \in Ids, Delete(i) PROVE WalkInv'
  <2>1. sank' = (sank \/ (phase = "list" /\ i = token))
    BY <1>3 DEF Delete
  <2>2. ~(~sank' /\ phase = "list" /\ i = token)
        /\ sank => sank'
    BY <2>1
  <2> QED BY <1>1, <1>3, <2>2 DEF Delete
\* Steps of the walk.
<1>4. ASSUME NEW r \in Requests, StartWalk(r) PROVE WalkInv'
  BY <1>4 DEF StartWalk, storeVars, WalkInv, Matching, Stored
<1>5. ASSUME NEW rest \in SUBSET Ids, Respond(rest), UNCHANGED <<storeVars, store>>,
             phase \in {"list", "select"},
             ~sank => \A u \in untouched : got[u] >= 1 \/ u \in rest
      PROVE  WalkInv'
  <2>1. /\ phase' \in {"list", "done"} /\ (phase' = "done" <=> token' = NoToken)
        /\ UNCHANGED <<rows, req, from, untouched, sank, store>>
    BY <1>5 DEF Respond, storeVars, history
  <2>2. untouched' \subseteq Matching(store, req)'
    BY <1>5, <2>1 DEF WalkInv, Matching, Stored
  <2>3. ASSUME ~sank, NEW u \in untouched
        PROVE  got'[u] >= 1 \/ (token' # NoToken /\ ~Before(store, u, token'))
    <3>1. u \in Ids /\ (got[u] >= 1 \/ u \in rest)
      BY <1>0, <1>5, <2>3
    <3> QED BY <1>5, <2>1, <3>1, Covered
  <2>5. ASSUME ~sank, NEW u \in untouched
        PROVE  got'[u] >= 1 \/ (token' # NoToken /\ ~Before(store, u, token)')
    BY <2>1, <2>3, <2>5 DEF Before
  <2> QED BY <2>1, <2>2, <2>5 DEF WalkInv
<1>6. CASE FirstPage
  BY <1>5, <1>6 DEF FirstPage, WalkInv, Matching, Stored
<1>7. CASE NextPageInMemory
  <2>1. RestInMemory(req, token) \in SUBSET Ids
    BY DEF RestInMemory, Matching, Stored
  <2>2. ~sank => \A u \in untouched : got[u] >= 1 \/ u \in RestInMemory(req, token)
    BY <1>7 DEF NextPageInMemory, WalkInv, RestInMemory
  <2> QED BY <1>5, <1>7, <2>1, <2>2 DEF NextPageInMemory
<1>8. CASE SelectPage
  <2>1. RestInDatabase(req, from) \in SUBSET Ids
    BY DEF RestInDatabase, Matching, Stored
  <2>2. ~sank => \A u \in untouched : got[u] >= 1 \/ u \in RestInDatabase(req, from)
    BY <1>8 DEF SelectPage, WalkInv
  <2> QED BY <1>5, <1>8, <2>1, <2>2 DEF SelectPage
<1>9. CASE LookUpToken
  <2>1. /\ phase = "list" /\ phase' = "select" /\ store = "database" /\ token \in Ids
        /\ token # NoToken /\ from' = [id |-> token, stamp |-> rows[token].stamp]
        /\ UNCHANGED <<rows, store, req, token, got, untouched, sank>>
    BY <1>0, <1>9 DEF LookUpToken, storeVars, history
  <2>2. untouched' \subseteq Matching(store, req)'
    BY <2>1 DEF WalkInv, Matching, Stored
  <2>3. ASSUME ~sank, NEW u \in untouched, ~(got[u] >= 1)
        PROVE  u \in RestInDatabase(req, from)'
    <3>1. ~Before("database", u, token) /\ u \in Matching("database", req)
      BY <2>1, <2>3 DEF WalkInv
    <3> QED BY <2>1, <3>1, LookedUp
  <2> QED BY <2>1, <2>2, <2>3 DEF WalkInv
<1>10. CASE RejectInMemory \/ RejectInDatabase
  BY <1>10 DEF RejectInMemory, RejectInDatabase, Reject, WalkInv
<1>11. CASE UNCHANGED vars
  BY <1>11 DEF vars, storeVars, walkVars, history, WalkInv, Matching, Stored, Before,
               RestInDatabase
<1> QED
  BY <1>2, <1>3, <1>4, <1>6, <1>7, <1>8, <1>9, <1>10, <1>11 DEF Next, WalkNext

\* Paging misses no task that stays as it is: whatever is saved and deleted between
\* two pages or between the two statements of the database store, a walk that was
\* answered to the end, and whose tokens did not move back, returned it.
THEOREM PagingMissesNothing == Spec => []UntouchedAreListed
<1>1. Init => RowsInv /\ WalkInv
  <2> SUFFICES ASSUME Init PROVE RowsInv /\ WalkInv
    OBVIOUS
  <2>1. RowsInv
    BY ListingAssumption DEF Init, RowsInv
  <2>2. WalkInv
    BY DEF Init, WalkInv
  <2> QED BY <2>1, <2>2
<1>2. RowsInv /\ WalkInv => UntouchedAreListed
  BY DEF WalkInv, UntouchedAreListed
<1> QED BY <1>1, <1>2, NextRowsInv, NextWalkInv, PTL DEF Spec

-----------------------------------------------------------------------------
(* Types                                                                   *)

\* No step leaves the types.
LEMMA NextTypes == TypeOK /\ [Next]_vars => TypeOK'
<1> SUFFICES ASSUME TypeOK, [Next]_vars PROVE TypeOK'
  OBVIOUS
<1>0. RowsInv /\ RowsInv'
  <2>1. RowsInv
    BY ListingAssumption DEF TypeOK, RowsInv
  <2> QED BY <2>1, NextRowsInv
<1>1. ASSUME UNCHANGED <<store, req, from>>, clock' \in Stamps, saves' \in Nat,
             phase' \in {"idle", "list", "select", "done", "rejected"}
      PROVE  TypeOK'
  BY <1>0, <1>1 DEF TypeOK, RowsInv
<1>2. ASSUME NEW i \in Ids, NEW state \in States, NEW stamp \in Stamps, Save(i, state, stamp)
      PROVE  TypeOK'
  <2>1. /\ UNCHANGED <<store, req, from, phase>> /\ saves' = saves + 1
        /\ clock' \in {stamp, clock}
    BY <1>2 DEF Save, Touch, walkVars
  <2> QED BY <1>1, <2>1 DEF TypeOK
<1>3. ASSUME NEW i \in Ids, Delete(i) PROVE TypeOK'
  BY <1>1, <1>3 DEF Delete, Touch, walkVars, TypeOK
<1>4. ASSUME NEW r \in Requests, StartWalk(r) PROVE TypeOK'
  BY <1>0, <1>4 DEF StartWalk, storeVars, TypeOK, RowsInv
<1>5. CASE FirstPage \/ NextPageInMemory \/ SelectPage
  <2>1. UNCHANGED <<store, req, from, clock, saves>> /\ phase' \in {"done", "list"}
    BY <1>5 DEF FirstPage, NextPageInMemory, SelectPage, Respond, storeVars
  <2> QED BY <1>1, <2>1 DEF TypeOK
<1>6. CASE RejectInMemory \/ RejectInDatabase
  <2>1. UNCHANGED <<store, req, from, clock, saves>> /\ phase' = "rejected"
    BY <1>6 DEF RejectInMemory, RejectInDatabase, Reject, storeVars
  <2> QED BY <1>1, <2>1 DEF TypeOK
<1>7. CASE LookUpToken
  <2>1. /\ UNCHANGED <<store, req, clock, saves>> /\ phase' = "select" /\ token \in Ids
        /\ from' = [id |-> token, stamp |-> rows[token].stamp]
    BY <1>7 DEF LookUpToken, storeVars, TypeOK
  <2>2. rows[token].stamp \in Stamps
    BY <2>1 DEF TypeOK, Row, Absent, Stamps
  <2> QED BY <1>0, <2>1, <2>2 DEF TypeOK, RowsInv
<1>8. CASE UNCHANGED vars
  BY <1>1, <1>8 DEF vars, storeVars, walkVars, TypeOK
<1> QED BY <1>2, <1>3, <1>4, <1>5, <1>6, <1>7, <1>8 DEF Next, WalkNext

\* The types hold at first.
LEMMA InitTypes == Init => TypeOK
<1> SUFFICES ASSUME Init PROVE TypeOK
  OBVIOUS
<1>1. (CHOOSE r \in Requests : TRUE) \in Requests /\ (CHOOSE i \in Ids : TRUE) \in Ids
  BY ListingAssumption
<1>2. NoStamp \in Stamps
  BY DEF Stamps
<1> QED BY <1>1, <1>2 DEF Init, TypeOK

\* Rows, walks and tokens keep their types.
THEOREM TypeCorrect == Spec => []TypeOK
BY InitTypes, NextTypes, PTL DEF Spec

-----------------------------------------------------------------------------
(* The two stores                                                          *)

\* While all timestamps are written alike, both stores list in the same order.
LEMMA RanksAgree ==
    ASSUME TypeOK, SameForm(req)
    PROVE  /\ \A i, j \in Ids : Before("memory", i, j) <=> Before("database", i, j)
           /\ \A i \in Ids : rows[i].stamp # NoStamp /\ req.after # NoStamp =>
                (Rank("memory", rows[i].stamp) >= Rank("memory", req.after)
                 <=> Rank("database", rows[i].stamp) >= Rank("database", req.after))
<1> DEFINE stamps == {rows[i].stamp : i \in Ids} \cup {req.after}
<1>1. PICK p \in {0, 1} : \A t \in stamps : t # NoStamp => t % 2 = p
  BY DEF SameForm
<1>2. \A t \in stamps : t = 0 \/ (t \in Nat /\ t >= 2)
  <2>1. \A i \in Ids : rows[i].stamp \in Stamps
    BY DEF TypeOK, Row, Absent, Stamps
  <2>2. req.after \in Stamps
    BY ListingAssumption DEF TypeOK, AllRequests
  <2>3. \A t \in Instants : t \in Nat /\ t >= 2
    BY ListingAssumption
  <2>4. \A t \in Stamps : t = 0 \/ (t \in Nat /\ t >= 2)
    BY <2>3 DEF Stamps, NoStamp
  <2> QED BY <2>1, <2>2, <2>4
<1>3. ASSUME NEW t \in stamps, NEW u \in stamps
      PROVE  /\ JsonRank(t) > JsonRank(u) <=> t > u
             /\ JsonRank(t) = JsonRank(u) <=> t = u
             /\ JsonRank(t) >= JsonRank(u) <=> t >= u
  <2>1. /\ t = 0 \/ (t \in Nat /\ t >= 2 /\ t % 2 = p)
        /\ u = 0 \/ (u \in Nat /\ u >= 2 /\ u % 2 = p)
    BY <1>1, <1>2 DEF NoStamp
  <2> HIDE DEF stamps
  <2>2. \A v \in Nat : v % 2 \in {0, 1}
    OBVIOUS
  <2>3. CASE p = 0
    <3>1. /\ (t = 0 /\ JsonRank(t) = 0) \/ (t \in Nat /\ t >= 2 /\ JsonRank(t) = t + 1)
          /\ (u = 0 /\ JsonRank(u) = 0) \/ (u \in Nat /\ u >= 2 /\ JsonRank(u) = u + 1)
      BY <2>1, <2>3 DEF JsonRank, NoStamp
    <3> QED BY <3>1
  <2>4. CASE p = 1
    <3>1. /\ (t = 0 /\ JsonRank(t) = 0) \/ (t \in Nat /\ t >= 2 /\ JsonRank(t) = t - 1)
          /\ (u = 0 /\ JsonRank(u) = 0) \/ (u \in Nat /\ u >= 2 /\ JsonRank(u) = u - 1)
      BY <2>1, <2>4 DEF JsonRank, NoStamp
    <3> QED BY <3>1
  <2> QED BY <1>1, <2>3, <2>4
<1>4. \A t : Rank("memory", t) = JsonRank(t) /\ Rank("database", t) = t
  BY DEF Rank
<1>5. \A i \in Ids : rows[i].stamp \in stamps
  OBVIOUS
<1>6. req.after \in stamps
  OBVIOUS
<1> HIDE DEF stamps
<1> QED BY <1>3, <1>4, <1>5, <1>6 DEF Before

\* Both stores take the same tasks for those that match.
LEMMA MatchingAgree ==
    ASSUME TypeOK, SameForm(req)
    PROVE  Matching("memory", req) = Matching("database", req)
<1>1. \A i \in Stored : i \in Ids
  BY DEF Stored
<1> QED BY <1>1, RanksAgree DEF Matching

\* The where clauses of the database select what comes no earlier than a task.
LEMMA StampSplit ==
    ASSUME RowsInv, NEW i \in Ids, NEW t \in Ids, NEW start, start.id = t, start.stamp = rows[t].stamp
    PROVE  ~Before("database", i, t) <=>
                \/ rows[i].stamp = start.stamp /\ i <= start.id
                \/ start.stamp # NoStamp /\ rows[i].stamp # NoStamp
                   /\ rows[i].stamp < start.stamp
                \/ start.stamp # NoStamp /\ rows[i].stamp = NoStamp
<1>1. rows[i].stamp \in Nat /\ rows[t].stamp \in Nat /\ i \in Nat /\ t \in Nat
  BY StampsAreNatural
<1>2. Before("database", i, t) <=> rows[i].stamp > rows[t].stamp \/ (rows[i].stamp = rows[t].stamp /\ i > t)
  BY DEF Before, Rank
<1> QED BY <1>1, <1>2 DEF NoStamp

\* From any token of a task that matches both stores have the same left to list.
LEMMA RestAgrees ==
    ASSUME TypeOK, SameForm(req), token \in Matching("memory", req) \cup {NoToken}
    PROVE  Rest("memory", req, token) = Rest("database", req, token)
<1>0. RowsInv
  BY ListingAssumption DEF TypeOK, RowsInv
<1>1. CASE token = NoToken
  BY <1>1, MatchingAgree DEF Rest
<1>2. CASE token # NoToken
  <2>1. PICK t \in Ids : t = token
    BY <1>2 DEF Matching, Stored
  <2>2. PICK start : start = [id |-> t, stamp |-> rows[t].stamp]
    OBVIOUS
  <2>3. ASSUME NEW i \in Ids
        PROVE  ~Before("memory", i, t) <=>
                \/ rows[i].stamp = start.stamp /\ i <= start.id
                \/ start.stamp # NoStamp /\ rows[i].stamp # NoStamp
                   /\ rows[i].stamp < start.stamp
                \/ start.stamp # NoStamp /\ rows[i].stamp = NoStamp
    <3>1. Before("memory", i, t) <=> Before("database", i, t)
      BY RanksAgree
    <3>2. start.stamp = rows[t].stamp /\ start.id = t
      BY <2>2
    <3> QED BY <1>0, <3>1, <3>2, StampSplit
  <2>4. RestInMemory(req, t) = RestInDatabase(req, start)
    <3>1. Matching("memory", req) = Matching("database", req) /\ Matching("memory", req) \subseteq Ids
      BY MatchingAgree DEF Matching, Stored
    <3> QED BY <2>3, <3>1 DEF RestInMemory, RestInDatabase
  <2>5. Rest("memory", req, token) = RestInMemory(req, t) /\ Rest("database", req, token) = RestInDatabase(req, start)
    BY <1>2, <2>1, <2>2 DEF Rest
  <2> QED BY <2>4, <2>5
<1> QED BY <1>1, <1>2

\* The stores can be exchanged: whatever is stored and asked for, both give the same page
\* and the same next token, while timestamps are written alike and the task of the token
\* still passes the filters.
THEOREM StoresCanBeExchanged == Spec => []StoresAgree
<1>1. TypeOK => StoresAgree
  <2>1. SUFFICES ASSUME TypeOK, SameForm(req), token \in Matching("memory", req) \cup {NoToken},
                        NEW rest, rest = Rest("memory", req, token)
                 PROVE  /\ PageOf("memory", rest, req.size) = PageOf("database", rest, req.size)
                        /\ NextToken("memory", rest, req.size) = NextToken("database", rest, req.size)
    BY RestAgrees DEF StoresAgree
  <2>2. RowsInv
    BY <2>1, ListingAssumption DEF TypeOK, RowsInv
  <2>3. rest \in SUBSET Ids
    BY <2>1 DEF Rest, RestInMemory, Matching, Stored
  <2>4. \A i, j \in Ids : Before("memory", i, j) <=> Before("database", i, j)
    BY <2>1, RanksAgree
  <2>5. \A i \in rest : {j \in rest : Before("memory", j, i)} = {j \in rest : Before("database", j, i)}
    BY <2>3, <2>4
  <2>6. PageOf("memory", rest, req.size) = PageOf("database", rest, req.size)
    <3>1. \A i \in rest : Position("memory", rest, i) = Position("database", rest, i)
      BY <2>5 DEF Position
    <3> QED BY <3>1 DEF PageOf
  <2>7. PICK later : later = rest \ PageOf("memory", rest, req.size) /\ later = rest \ PageOf("database", rest, req.size)
    BY <2>6
  <2>8. NextToken("memory", rest, req.size) = NextToken("database", rest, req.size)
    <3>1. CASE later = {}
      BY <2>7, <3>1 DEF NextToken
    <3>2. CASE later # {}
      <4>1. PICK size : size = req.size
        OBVIOUS
      <4>2. PICK m, d : m = NextToken("memory", rest, size) /\ d = NextToken("database", rest, size)
        OBVIOUS
      <4>3. m \in later /\ \A j \in later : ~Before("memory", j, m)
        BY <2>2, <2>3, <2>7, <3>2, <4>1, <4>2, TokenIsFirst
      <4>4. d \in later /\ \A j \in later : ~Before("database", j, d)
        BY <2>2, <2>3, <2>7, <3>2, <4>1, <4>2, TokenIsFirst
      <4>5. m \in Ids /\ d \in Ids
        BY <2>3, <2>7, <4>3, <4>4
      <4>6. ~Before("memory", d, m) /\ ~Before("memory", m, d)
        BY <2>4, <4>3, <4>4, <4>5
      <4> QED BY <2>2, <4>1, <4>2, <4>5, <4>6, BeforeOrders
    <3> QED BY <3>1, <3>2
  <2> QED BY <2>6, <2>8
<1> QED BY <1>1, TypeCorrect, PTL

-----------------------------------------------------------------------------
(* Walks during which nothing changes                                      *)

\* The tasks that come before the one named.
Listed(i, t) == i \in Matching(store, req) /\ (t = NoToken \/ Before(store, i, t))

\* Before a page is asked for, exactly the tasks before that of the token were returned,
\* once each; and the row the database looked up is the one the token names.
ExactInv ==
    saves = 0 =>
        /\ phase = "idle" => token = NoToken
        /\ phase = "idle" \/ (phase = "list" /\ token = NoToken) => \A i \in Ids : got[i] = 0
        /\ phase \in {"list", "select"} /\ token # NoToken =>
                /\ token \in Matching(store, req)
                /\ \A i \in Ids : got[i] = IF Listed(i, token) THEN 1 ELSE 0
        /\ phase = "select" => /\ store = "database" /\ token # NoToken
                              /\ from = [id |-> token, stamp |-> rows[token].stamp]
        /\ phase = "done" => \A i \in Ids : got[i] = IF Listed(i, NoToken) THEN 1 ELSE 0

\* A page is what is left before the task of the next token.
LEMMA PageEnds ==
    ASSUME RowsInv, NEW s, NEW rest \in SUBSET Ids, NEW size \in Nat,
           rest \ PageOf(s, rest, size) # {}, NEW i \in rest
    PROVE  i \in PageOf(s, rest, size) <=> Before(s, i, NextToken(s, rest, size))
<1>1. PICK t : t = NextToken(s, rest, size)
  OBVIOUS
<1>2. t \in rest \ PageOf(s, rest, size) /\ \A j \in rest \ PageOf(s, rest, size) : ~Before(s, j, t)
  BY <1>1, TokenIsFirst
<1>3. PICK m, n : m = Position(s, rest, i) /\ n = Position(s, rest, t)
  OBVIOUS
<1>4. m \in Nat /\ n \in Nat /\ ~(n < size) /\ (i \in PageOf(s, rest, size) <=> m < size)
  BY <1>2, <1>3, PositionGrows DEF PageOf
<1>5. Before(s, t, i) => n < m
  BY <1>2, <1>3, PositionGrows
<1>6. i = t \/ Before(s, i, t) \/ Before(s, t, i)
  BY <1>2, BeforeOrders
<1>7. i \in PageOf(s, rest, size) => Before(s, i, t)
  BY <1>2, <1>4, <1>5, <1>6
<1> QED BY <1>1, <1>2, <1>7

\* A page from the task of the token on, after those before it were returned.
LEMMA RespondsExactly ==
    ASSUME TypeOK, NEW t \in Ids \cup {NoToken}, NEW rest,
           rest = {i \in Matching(store, req) : t = NoToken \/ ~Before(store, i, t)},
           \A i \in Ids : got[i] = IF t # NoToken /\ Listed(i, t) THEN 1 ELSE 0,
           Respond(rest), UNCHANGED <<rows, store>>
    PROVE  ExactInv'
<1>0. RowsInv
  BY ListingAssumption DEF TypeOK, RowsInv
<1>1. req.size \in Nat
  BY ListingAssumption DEF TypeOK, AllRequests
<1>2. PICK size, s, page, next : /\ size = req.size /\ size \in Nat /\ s = store
                                /\ page = PageOf(s, rest, size) /\ next = NextToken(s, rest, size)
  BY <1>1
<1>3. /\ got' = [i \in Ids |-> IF i \in page THEN got[i] + 1 ELSE got[i]]
      /\ token' = next /\ phase' = (IF token' = NoToken THEN "done" ELSE "list")
      /\ UNCHANGED <<rows, store, req>>
  BY <1>2 DEF Respond
<1>4. Matching(store, req)' = Matching(store, req) /\ Matching(store, req) \subseteq Ids
  BY <1>3 DEF Matching, Stored
<1>5. rest \in SUBSET Ids /\ page \subseteq rest
  BY <1>2, <1>4 DEF PageOf
<1>6. \A i, j : Before(store, i, j)' <=> Before(store, i, j)
  BY <1>3 DEF Before
<1>7. CASE rest \ page = {}
  <2>1. token' = NoToken /\ phase' = "done"
    BY <1>2, <1>3, <1>7 DEF NextToken
  <2>2. ASSUME NEW i \in Ids PROVE got'[i] = IF i \in Matching(store, req) THEN 1 ELSE 0
    <3>1. i \in page <=> i \in rest
      BY <1>5, <1>7
    <3>2. CASE i \in rest
      BY <1>3, <3>1, <3>2 DEF Listed
    <3>3. CASE i \notin rest /\ i \in Matching(store, req)
      BY <1>3, <3>1, <3>3 DEF Listed
    <3>4. CASE i \notin Matching(store, req)
      BY <1>3, <3>1, <3>4 DEF Listed
    <3> QED BY <3>2, <3>3, <3>4
  <2> QED BY <1>4, <2>1, <2>2 DEF ExactInv, Listed
<1>8. CASE rest \ page # {}
  <2>1. next \in rest \ page /\ \A j \in rest \ page : ~Before(s, j, next)
    BY <1>0, <1>2, <1>5, <1>8, TokenIsFirst
  <2>2. next \in Ids /\ next # NoToken /\ next \in Matching(store, req)
    BY <1>5, <2>1, ListingAssumption DEF NoToken
  <2>3. token' = next /\ phase' = "list"
    BY <1>3, <2>2
  <2>4. ASSUME NEW i \in Ids
        PROVE  got'[i] = IF i \in Matching(store, req) /\ Before(store, i, next) THEN 1 ELSE 0
    <3>1. CASE i \in rest
      <4>1. i \in page <=> Before(s, i, next)
        BY <1>0, <1>2, <1>5, <1>8, <3>1, PageEnds
      <4>2. got[i] = 0 /\ i \in Matching(store, req)
        BY <3>1 DEF Listed
      <4> QED BY <1>2, <1>3, <4>1, <4>2
    <3>2. CASE i \notin rest /\ i \in Matching(store, req)
      <4>1. t # NoToken /\ Before(store, i, t) /\ t \in Ids /\ i \notin page
        BY <1>5, <3>2
      <4>2. got'[i] = 1
        BY <1>3, <3>2, <4>1 DEF Listed
      <4>3. ~Before(store, next, t)
        BY <2>1, <4>1
      <4>4. next = t \/ Before(store, t, next)
        BY <1>0, <2>2, <4>1, <4>3, BeforeOrders
      <4>5. Before(store, i, next)
        BY <1>0, <2>2, <4>1, <4>4, BeforeOrders
      <4> QED BY <3>2, <4>2, <4>5
    <3>3. CASE i \notin Matching(store, req)
      <4>1. i \notin page
        BY <1>5, <3>3
      <4> QED BY <1>3, <3>3, <4>1 DEF Listed
    <3> QED BY <3>1, <3>2, <3>3
  <2> QED BY <1>4, <1>6, <2>2, <2>3, <2>4 DEF ExactInv, Listed
<1> QED BY <1>7, <1>8

LEMMA NextExactInv == TypeOK /\ ExactInv /\ [Next]_vars => ExactInv'
<1> SUFFICES ASSUME TypeOK, ExactInv, [Next]_vars PROVE ExactInv'
  OBVIOUS
<1>0. RowsInv
  BY ListingAssumption DEF TypeOK, RowsInv
<1>1. ASSUME saves' = saves + 1 PROVE ExactInv'
  <2>1. saves' # 0
    BY <1>1 DEF TypeOK
  <2> QED BY <2>1 DEF ExactInv
<1>2. CASE \/ \E i \in Ids, state \in States, stamp \in Stamps : Save(i, state, stamp)
           \/ \E i \in Ids : Delete(i)
  BY <1>1, <1>2 DEF Save, Delete, Touch
<1>3. SUFFICES ASSUME ~(\E i \in Ids, state \in States, stamp \in Stamps : Save(i, state, stamp)),
                      ~(\E i \in Ids : Delete(i))
               PROVE  ExactInv'
  BY <1>2
<1>4. UNCHANGED <<rows, clock, saves, store>>
  BY <1>3 DEF Next, WalkNext, StartWalk, FirstPage, NextPageInMemory, RejectInMemory, LookUpToken, RejectInDatabase,
              SelectPage, Reject, storeVars, vars
<1>5. SUFFICES ASSUME saves = 0 PROVE ExactInv'
  BY <1>4 DEF ExactInv
<1>6. CASE \E r \in Requests : StartWalk(r)
  BY <1>4, <1>5, <1>6 DEF StartWalk, ExactInv
<1>7. CASE FirstPage
  <2>1. /\ phase = "list" /\ token = NoToken /\ Respond(Matching(store, req))
    BY <1>7 DEF FirstPage
  <2>2. \A i \in Ids : got[i] = 0
    BY <1>5, <2>1 DEF ExactInv
  <2>3. PICK rest : rest = Matching(store, req)
    OBVIOUS
  <2>4. rest = {i \in Matching(store, req) : token = NoToken \/ ~Before(store, i, token)}
    BY <2>1, <2>3
  <2>5. PICK t \in Ids \cup {NoToken} : t = token
    BY DEF TypeOK
  <2> QED BY <1>4, <2>1, <2>2, <2>3, <2>4, <2>5, RespondsExactly
<1>8. CASE NextPageInMemory
  <2>1. phase = "list" /\ token # NoToken /\ store = "memory" /\ Respond(RestInMemory(req, token))
    BY <1>8 DEF NextPageInMemory
  <2>2. PICK rest, t : rest = RestInMemory(req, token) /\ t = token /\ t \in Ids \cup {NoToken}
    BY DEF TypeOK
  <2>3. rest = {i \in Matching(store, req) : t = NoToken \/ ~Before(store, i, t)}
    BY <2>1, <2>2 DEF RestInMemory
  <2>4. \A i \in Ids : got[i] = IF t # NoToken /\ Listed(i, t) THEN 1 ELSE 0
    BY <1>5, <2>1, <2>2 DEF ExactInv
  <2> QED BY <1>4, <2>1, <2>2, <2>3, <2>4, RespondsExactly
<1>9. CASE SelectPage
  <2>1. phase = "select" /\ Respond(RestInDatabase(req, from))
    BY <1>9 DEF SelectPage
  <2>2. /\ store = "database" /\ token # NoToken /\ from = [id |-> token, stamp |-> rows[token].stamp]
        /\ \A i \in Ids : got[i] = IF Listed(i, token) THEN 1 ELSE 0
    BY <1>5, <2>1 DEF ExactInv
  <2>3. PICK t \in Ids : t = token
    BY <2>2 DEF TypeOK
  <2>4. PICK rest : rest = RestInDatabase(req, from)
    OBVIOUS
  <2>5. rest = {i \in Matching("database", req) : ~Before("database", i, t)}
    <3>1. Matching("database", req) \subseteq Ids /\ from.stamp = rows[t].stamp /\ from.id = t
      BY <2>2, <2>3 DEF Matching, Stored
    <3>2. ASSUME NEW i \in Ids
          PROVE  ~Before("database", i, t) <=>
                    \/ rows[i].stamp = from.stamp /\ i <= from.id
                    \/ from.stamp # NoStamp /\ rows[i].stamp # NoStamp /\ rows[i].stamp < from.stamp
                    \/ from.stamp # NoStamp /\ rows[i].stamp = NoStamp
      BY <1>0, <3>1, StampSplit
    <3> QED BY <2>4, <3>1, <3>2 DEF RestInDatabase
  <2>6. rest = {i \in Matching(store, req) : t = NoToken \/ ~Before(store, i, t)}
    BY <2>2, <2>3, <2>5
  <2>7. \A i \in Ids : got[i] = IF t # NoToken /\ Listed(i, t) THEN 1 ELSE 0
    BY <2>2, <2>3
  <2> QED BY <1>4, <2>1, <2>3, <2>4, <2>6, <2>7, RespondsExactly
<1>10. CASE LookUpToken
  <2>1. /\ phase = "list" /\ phase' = "select" /\ store = "database" /\ token # NoToken
        /\ from' = [id |-> token, stamp |-> rows[token].stamp]
        /\ UNCHANGED <<req, token, got>>
    BY <1>10 DEF LookUpToken
  <2>2. \A t : Listed(t, token)' <=> Listed(t, token)
    BY <1>4, <2>1 DEF Listed, Matching, Stored, Before
  <2>3. Matching(store, req)' = Matching(store, req)
    BY <1>4, <2>1 DEF Matching, Stored
  <2> QED BY <1>4, <1>5, <2>1, <2>2, <2>3 DEF ExactInv
<1>11. CASE RejectInMemory \/ RejectInDatabase
  BY <1>11 DEF RejectInMemory, RejectInDatabase, Reject, ExactInv
<1>12. CASE UNCHANGED vars
  BY <1>12 DEF vars, storeVars, walkVars, ExactInv, Listed, Matching, Stored, Before
<1> QED BY <1>3, <1>6, <1>7, <1>8, <1>9, <1>10, <1>11, <1>12 DEF Next, WalkNext

\* Paging is exact while nothing changes: every task that matches is returned once, no
\* other one is, whichever store lists and however long the pages are.
THEOREM QuietPagingIsExact == Spec => []QuietWalkIsExact
<1>1. Init => ExactInv
  BY DEF Init, ExactInv
<1>2. TypeOK /\ ExactInv => QuietWalkIsExact
  BY DEF TypeOK, ExactInv, QuietWalkIsExact, Listed
<1> QED BY <1>1, <1>2, InitTypes, NextTypes, NextExactInv, PTL DEF Spec
=============================================================================
