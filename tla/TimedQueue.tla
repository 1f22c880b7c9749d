---------------------------- MODULE TimedQueue -----------------------------
(***************************************************************************)
(* What the queue of a peer promises (MsgQueue implements it): it hands    *)
(* out each element once, when its time has come, the earliest first, and  *)
(* elements with the same time in the order in which they were inserted.   *)
(* Until it is canceled it loses none.                                     *)
(***************************************************************************)
EXTENDS Integers

CONSTANTS Times

VARIABLES
    now,        \* the clock
    last,       \* the number of the last element that was inserted
    pending,    \* the elements that wait: [n, time]
    hand,       \* the number of the element being handed out, 0 if none
    out,        \* the numbers of those that were handed out
    canceled

vars == <<now, last, pending, hand, out, canceled>>

Init ==
    /\ now = 0
    /\ last = 0
    /\ pending = {}
    /\ hand = 0
    /\ out = {}
    /\ canceled = FALSE

Insert(time) ==
    /\ last' = last + 1
    /\ pending' = pending \cup {[n |-> last + 1, time |-> time]}
    /\ UNCHANGED <<now, hand, out, canceled>>

Before(e, f) == e.time < f.time \/ (e.time = f.time /\ e.n < f.n)

\* The first element, whose time has come, is taken out.
Take(e) ==
    /\ hand = 0
    /\ e.time < now
    /\ \A f \in pending \ {e} : Before(e, f)
    /\ pending' = pending \ {e}
    /\ hand' = e.n
    /\ UNCHANGED <<now, last, out, canceled>>

HandOut ==
    /\ hand # 0
    /\ out' = out \cup {hand}
    /\ hand' = 0
    /\ UNCHANGED <<now, last, pending, canceled>>

\* Nobody receives any more.
Drop ==
    /\ hand # 0
    /\ canceled
    /\ hand' = 0
    /\ UNCHANGED <<now, last, pending, out, canceled>>

Tick ==
    /\ now' = now + 1
    /\ UNCHANGED <<last, pending, hand, out, canceled>>

Cancel ==
    /\ canceled' = TRUE
    /\ UNCHANGED <<now, last, pending, hand, out>>

Next ==
    \/ \E time \in Times : Insert(time)
    \/ \E e \in pending : Take(e)
    \/ HandOut
    \/ Drop
    \/ Tick
    \/ Cancel

Spec == Init /\ [][Next]_vars
=============================================================================
