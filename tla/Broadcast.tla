------------------------------ MODULE Broadcast ------------------------------
(***************************************************************************)
(* What an event queue with several readers promises, without queues,      *)
(* dispatcher or locks.  Events are published in an order; a reader that   *)
(* attaches gets a consecutive part of that order, from some event on; the *)
(* readers that were there from the start get it from the first event; and *)
(* after the stream has been shut a reader that did not leave is released  *)
(* only when it got everything.                                            *)
(***************************************************************************)
EXTENDS Naturals, Sequences

CONSTANTS
    Readers,    \* the readers that can ever attach
    Founders    \* the readers attached from the start

VARIABLES
    published,  \* number of events published, numbered from 1
    open,       \* whether events and readers are still accepted
    attached,   \* the readers that still get events
    left,       \* the readers that left, or were made to leave, before the end
    seen        \* what each reader was given

bvars == <<published, open, attached, left, seen>>

Start ==
    /\ published = 0
    /\ open = TRUE
    /\ attached = Founders
    /\ left = {}
    /\ seen = [r \in Readers |-> <<>>]

Publish ==
    /\ open
    /\ published' = published + 1
    /\ UNCHANGED <<open, attached, left, seen>>

Attach(r) ==
    /\ open
    /\ seen[r] = <<>>
    /\ attached' = attached \cup {r}
    /\ UNCHANGED <<published, open, left, seen>>

\* The next event, the first one for a founder, any published one for a reader
\* that came later.
NextFor(r, e) ==
    IF seen[r] = <<>>
    THEN e \in 1 .. published /\ (r \in Founders => e = 1)
    ELSE e = seen[r][Len(seen[r])] + 1 /\ e <= published

Give(r) ==
    /\ r \in attached
    /\ \E e \in 1 .. published :
        /\ NextFor(r, e)
        /\ seen' = [seen EXCEPT ![r] = Append(@, e)]
    /\ UNCHANGED <<published, open, attached, left>>

\* Leaving takes no longer than one step, and can be repeated; the readers may
\* have been released already.
Leave(r) ==
    /\ attached' = attached \ {r}
    /\ left' = left \cup {r}
    /\ UNCHANGED <<published, open, seen>>

UpToDate(r) ==
    IF seen[r] = <<>>
    THEN r \in Founders => published = 0
    ELSE seen[r][Len(seen[r])] = published

Release(r) ==
    /\ ~open
    /\ r \in attached
    /\ UpToDate(r)
    /\ attached' = attached \ {r}
    /\ UNCHANGED <<published, open, left, seen>>

Shut ==
    /\ open' = FALSE
    /\ UNCHANGED <<published, attached, left, seen>>

BNext ==
    \/ Publish
    \/ Shut
    \/ \E r \in Readers : Attach(r) \/ Give(r) \/ Leave(r) \/ Release(r)

BSpec == Start /\ [][BNext]_bvars
=============================================================================
