---------------------------- MODULE TaskListing ----------------------------
(***************************************************************************)
(* The task stores (server/tasks/inmemory_task_store.py and                *)
(* database_task_store.py) and a client that pages through tasks/list      *)
(* while tasks are saved and deleted.                                      *)
(*                                                                         *)
(* Both stores hold one row per task and owner; ids are UUIDs, so a task   *)
(* has one owner for good.  They differ in how they list.  The in-memory   *)
(* store filters and sorts in one piece, under no await, and compares      *)
(* timestamps by their JSON form.  The database store looks the task of    *)
(* the page token up in one statement and selects the page in another;     *)
(* other transactions commit between the two.                              *)
(*                                                                         *)
(* Instants are counted in half seconds, 0 is a status without timestamp.  *)
(* A page is the set of the tasks on it: their order is the order of the   *)
(* listing.  A page token is the id of the task the next page starts with; *)
(* its encoding is left out.                                               *)
(***************************************************************************)
EXTENDS Integers, FiniteSets

CONSTANTS
    Ids,        \* task ids, ordered as strings are
    Owners, OwnerOf,
    Contexts, ContextOf,
    States,     \* the task states told apart
    Instants,   \* the instants at which a status may be set
    Requests,   \* what the client may ask for
    Stores,     \* which stores the client may list: "memory", "database"
    MaxSaves    \* bound on the number of saves and deletions during the walk

NoStamp == 0
Stamps == Instants \cup {NoStamp}

\* owner is the caller, the others are the filters of ListTasksRequest; a filter
\* that is not set is {} or NoStamp.
AllRequests ==
    [owner : Owners, context : {{}} \cup {{c} : c \in Contexts},
     status : {{}} \cup {{s} : s \in States}, after : Stamps, size : Nat \ {0}]

ASSUME ListingAssumption ==
    /\ Ids \subseteq Nat \ {0} /\ IsFiniteSet(Ids) /\ Ids # {}
    /\ OwnerOf \in [Ids -> Owners]
    /\ ContextOf \in [Ids -> Contexts]
    /\ Instants \subseteq Nat \ {0, 1}
    /\ Requests \subseteq AllRequests /\ Requests # {}
    /\ Stores \subseteq {"memory", "database"}
    /\ MaxSaves \in Nat

VARIABLES
    rows,       \* what is stored of each task
    clock,      \* the latest instant a status was set at
    saves,      \* how many saves and deletions there were during the walk
    store,      \* the store behind the listing
    phase,      \* of the walk: "idle", "list", "select", "done", "rejected"
    req,        \* the filters and the page size of the walk
    token,      \* page_token of its next request
    from,       \* database: the row the token named when it was looked up
    got,        \* how often each task was returned
    untouched,  \* tasks that matched at the start and did not change since
    sank        \* whether the task a token named moved back in the order, or was
                \* deleted, before the token was used

storeVars == <<rows, clock, saves>>
walkVars  == <<phase, req, token, from, got>>
history   == <<untouched, sank>>
vars == <<storeVars, store, walkVars, history>>

NoToken == 0

Row == [state : States, stamp : Stamps]
Absent == [state |-> "absent", stamp |-> NoStamp]
Stored == {i \in Ids : rows[i].state # "absent"}

TypeOK ==
    /\ rows \in [Ids -> Row \cup {Absent}]
    /\ clock \in Stamps
    /\ saves \in Nat
    /\ store \in Stores
    /\ phase \in {"idle", "list", "select", "done", "rejected"}
    /\ req \in Requests
    /\ token \in Ids \cup {NoToken}
    /\ from \in [id : Ids, stamp : Stamps]
    /\ got \in [Ids -> Nat]
    /\ untouched \in SUBSET Ids
    /\ sank \in BOOLEAN

Init ==
    /\ rows \in [Ids -> Row \cup {Absent}]
    /\ clock \in Stamps
    /\ \A i \in Ids : rows[i].stamp <= clock
    /\ clock = NoStamp \/ \E i \in Ids : rows[i].stamp = clock
    /\ saves = 0
    /\ store \in Stores
    /\ phase = "idle"
    /\ req = CHOOSE r \in Requests : TRUE
    /\ token = NoToken
    /\ from = [id |-> CHOOSE i \in Ids : TRUE, stamp |-> NoStamp]
    /\ got = [i \in Ids |-> 0]
    /\ untouched = {}
    /\ sank = FALSE

-----------------------------------------------------------------------------
(* The listing                                                             *)

\* ToJsonString() writes a whole second without a fraction, and "Z" sorts after
\* ".": within one second the whole one comes last.
JsonRank(t) == IF t = NoStamp THEN 0 ELSE IF t % 2 = 0 THEN t + 1 ELSE t - 1

Rank(s, t) == IF s = "memory" THEN JsonRank(t) ELSE t

\* Newest first, no timestamp last, ties by descending id.
Before(s, i, j) ==
    \/ Rank(s, rows[i].stamp) > Rank(s, rows[j].stamp)
    \/ Rank(s, rows[i].stamp) = Rank(s, rows[j].stamp) /\ i > j

\* The tasks of the owner that pass the filters.
Matching(s, r) ==
    {i \in Stored :
        /\ OwnerOf[i] = r.owner
        /\ r.context \subseteq {ContextOf[i]}
        /\ r.status \subseteq {rows[i].state}
        /\ r.after # NoStamp =>
            /\ rows[i].stamp # NoStamp
            /\ Rank(s, rows[i].stamp) >= Rank(s, r.after)}

\* What is left to list, from the task of the token on.
RestInMemory(r, tok) == {i \in Matching("memory", r) : ~Before("memory", i, tok)}

\* Mutant: tasks without a timestamp are not selected after one that has one.
RestWithoutNulls(r, start) ==
    {i \in Matching("database", r) :
        \/ rows[i].stamp = start.stamp /\ i <= start.id
        \/ start.stamp # NoStamp /\ rows[i].stamp # NoStamp
           /\ rows[i].stamp < start.stamp}

\* Mutant: the task of the token is not part of its page.
RestAfterStart(r, start) ==
    {i \in Matching("database", r) :
        \/ rows[i].stamp = start.stamp /\ i < start.id
        \/ start.stamp # NoStamp /\ rows[i].stamp # NoStamp
           /\ rows[i].stamp < start.stamp
        \/ start.stamp # NoStamp /\ rows[i].stamp = NoStamp}

\* The where clauses of the database query for the row of the token.
RestInDatabase(r, start) ==
    {i \in Matching("database", r) :
        \/ rows[i].stamp = start.stamp /\ i <= start.id
        \/ start.stamp # NoStamp /\ rows[i].stamp # NoStamp
           /\ rows[i].stamp < start.stamp
        \/ start.stamp # NoStamp /\ rows[i].stamp = NoStamp}

\* How many of rest are listed before a task.
Position(s, rest, i) == Cardinality({j \in rest : Before(s, j, i)})

PageOf(s, rest, size) == {i \in rest : Position(s, rest, i) < size}

\* Mutant: the token is the last task of the page instead of the one after it.
LastOfPage(s, rest, size) ==
    IF \E i \in rest : Position(s, rest, i) = size
    THEN CHOOSE i \in rest : Position(s, rest, i) = size - 1
    ELSE NoToken

\* Mutant: the token is the index of the next page.
IndexOfNext(s, rest, size) ==
    IF \E i \in rest : Position(s, rest, i) = size THEN size ELSE NoToken

\* The first task that is not on the page any more.
NextToken(s, rest, size) ==
    LET later == rest \ PageOf(s, rest, size)
    IN  IF later = {} THEN NoToken
        ELSE CHOOSE i \in later : \A j \in later : ~Before(s, j, i)

-----------------------------------------------------------------------------
(* The tasks                                                               *)

\* A change of one task while the walk is under way; others are left out.
Touch(i) ==
    /\ phase \in {"list", "select"}
    /\ saves < MaxSaves
    /\ saves' = saves + 1
    /\ untouched' = untouched \ {i}

\* save(): a new row, or one that replaces the row of the task.  The status may
\* be set now, be an older one (an artifact was added), or have no timestamp.
Save(i, state, stamp) ==
    /\ \/ stamp \in Instants /\ stamp >= clock /\ clock' = stamp
       \/ stamp \in {NoStamp, rows[i].stamp} /\ clock' = clock
    /\ rows' = [rows EXCEPT ![i] = [state |-> state, stamp |-> stamp]]
    /\ Touch(i)
    /\ sank' = (sank \/ (phase = "list" /\ i = token
                         /\ Rank(store, stamp) < Rank(store, rows[i].stamp)))
    /\ UNCHANGED <<store, walkVars>>

\* delete(): of a task that is not there nothing happens.
Delete(i) ==
    /\ i \in Stored
    /\ rows' = [rows EXCEPT ![i] = Absent]
    /\ Touch(i)
    /\ sank' = (sank \/ (phase = "list" /\ i = token))
    /\ UNCHANGED <<clock, store, walkVars>>

-----------------------------------------------------------------------------
(* The client's walk through the pages                                     *)

StartWalk(r) ==
    /\ phase = "idle"
    /\ phase' = "list"
    /\ req' = r
    /\ untouched' = Matching(store, r)
    /\ UNCHANGED <<storeVars, store, token, from, got, sank>>

\* The response: its tasks, and the token for the next page if there is more.
Respond(rest) ==
    /\ got' = [i \in Ids |->
            IF i \in PageOf(store, rest, req.size) THEN got[i] + 1 ELSE got[i]]
    /\ token' = NextToken(store, rest, req.size)
    /\ phase' = IF token' = NoToken THEN "done" ELSE "list"
    /\ UNCHANGED <<req, from, history>>

\* The first page of either store.
FirstPage ==
    /\ phase = "list" /\ token = NoToken
    /\ Respond(Matching(store, req))
    /\ UNCHANGED <<storeVars, store>>

\* "Invalid page token": the walk cannot go on.
Reject ==
    /\ phase' = "rejected"
    /\ UNCHANGED <<storeVars, store, req, token, from, got, history>>

\* In memory the task of the token has to be one of those that match.
NextPageInMemory ==
    /\ phase = "list" /\ token # NoToken /\ store = "memory"
    /\ token \in Matching("memory", req)
    /\ Respond(RestInMemory(req, token))
    /\ UNCHANGED <<storeVars, store>>

RejectInMemory ==
    /\ phase = "list" /\ token # NoToken /\ store = "memory"
    /\ token \notin Matching("memory", req)
    /\ Reject

\* In the database it is enough that the owner still has it.
LookUpToken ==
    /\ phase = "list" /\ token # NoToken /\ store = "database"
    /\ token \in Stored /\ OwnerOf[token] = req.owner
    /\ from' = [id |-> token, stamp |-> rows[token].stamp]
    /\ phase' = "select"
    /\ UNCHANGED <<storeVars, store, req, token, got, history>>

RejectInDatabase ==
    /\ phase = "list" /\ token # NoToken /\ store = "database"
    /\ ~(token \in Stored /\ OwnerOf[token] = req.owner)
    /\ Reject

SelectPage ==
    /\ phase = "select"
    /\ Respond(RestInDatabase(req, from))
    /\ UNCHANGED <<storeVars, store>>

WalkNext ==
    \/ FirstPage
    \/ NextPageInMemory \/ RejectInMemory
    \/ LookUpToken \/ RejectInDatabase \/ SelectPage

Next ==
    \/ \E i \in Ids, state \in States, stamp \in Stamps : Save(i, state, stamp)
    \/ \E i \in Ids : Delete(i)
    \/ \E r \in Requests : StartWalk(r)
    \/ WalkNext

Spec == Init /\ [][Next]_vars

-----------------------------------------------------------------------------
(* What must hold                                                          *)

\* While nothing changes, the pages contain every matching task exactly once.
QuietWalkIsExact ==
    phase = "done" /\ saves = 0 =>
        \A i \in Ids : got[i] = IF i \in Matching(store, req) THEN 1 ELSE 0

\* Changes to other tasks never make the client miss a task: whatever is saved and
\* deleted between two pages, or between the two statements of the database store,
\* a task that matched and did not change was returned when the last page was.
\* Except that a task named by a token may have moved back in the order, over the
\* tasks in between (inmemory_task_store.py:110-134, database_task_store.py:255-296).
UntouchedAreListed ==
    phase = "done" /\ ~sank => \A i \in untouched : got[i] >= 1

\* What a request with this token is answered with if nothing happens meanwhile.
Rest(s, r, tok) ==
    IF tok = NoToken THEN Matching(s, r)
    ELSE IF s = "memory" THEN RestInMemory(r, tok)
    ELSE RestInDatabase(r, [id |-> tok, stamp |-> rows[tok].stamp])

\* All timestamps, that of the request included, are written with equally many digits.
SameForm(r) ==
    \E p \in {0, 1} : \A t \in {rows[i].stamp : i \in Ids} \cup {r.after} :
        t # NoStamp => t % 2 = p

\* The two stores can be exchanged: the same rows and the same request give the
\* same page and the same next token, whatever the filters
\* (inmemory_task_store.py:86-146, database_task_store.py:223-304).  Except that only
\* the database takes a token whose task no longer passes the filters.
StoresAgree ==
    phase = "list" /\ SameForm(req) /\ token \in Matching("memory", req) \cup {NoToken} =>
        LET memory   == Rest("memory", req, token)
            database == Rest("database", req, token)
        IN  /\ PageOf("memory", memory, req.size) = PageOf("database", database, req.size)
            /\ NextToken("memory", memory, req.size) =
                    NextToken("database", database, req.size)

=============================================================================
