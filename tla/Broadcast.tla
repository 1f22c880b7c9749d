----------------------------- MODULE Broadcast -----------------------------
(***************************************************************************)
(* What the notifier of a node promises (PubSub implements it): messages   *)
(* get one order, and who subscribes receives all the later ones, once, in *)
(* that order and without a gap, until it leaves or the notifier stops.    *)
(* After the stop, and while somebody is leaving, there may be gaps, but   *)
(* no message comes twice or out of order, and none to somebody who had    *)
(* left before it was published.                                           *)
(***************************************************************************)
EXTENDS Integers, Sequences

CONSTANTS
    Members,    \* those who may subscribe
    Msgs

VARIABLES
    log,        \* the messages in their order
    in,         \* the subscribers
    leaving,    \* those who are leaving
    from,       \* from[c]: the length of log when c subscribed
    got,        \* got[c]: what c has received
    stopped

Init ==
    /\ log = << >>
    /\ in = {}
    /\ leaving = {}
    /\ from = [c \in Members |-> 0]
    /\ got = [c \in Members |-> << >>]
    /\ stopped = FALSE

\* Who is leaving receives nothing that is published later.
Publish(m) ==
    /\ leaving = {}
    /\ log' = Append(log, m)
    /\ UNCHANGED <<in, leaving, from, got, stopped>>

Join(c) ==
    /\ c \notin in
    /\ got[c] = << >>
    /\ in' = in \cup {c}
    /\ from' = [from EXCEPT ![c] = Len(log)]
    /\ UNCHANGED <<log, leaving, got, stopped>>

\* Some leave: at once, or slowly.
Leave(some, slowly) ==
    /\ some \subseteq in
    /\ slowly \subseteq some
    /\ in' = in \ some
    /\ leaving' = leaving \cup slowly
    /\ UNCHANGED <<log, from, got, stopped>>

HasLeft(c) ==
    /\ c \in leaving
    /\ leaving' = leaving \ {c}
    /\ UNCHANGED <<log, in, from, got, stopped>>

\* The places in log of what c may receive next.
NextFor(c) ==
    LET done == {k \in DOMAIN log : k <= from[c] \/ \E i \in DOMAIN got[c] : got[c][i] = log[k]}
        left == {k \in DOMAIN log : \A d \in done : d < k}
    IN  {k \in left : stopped \/ c \in leaving \/ \A j \in left : k <= j}

Deliver(c) ==
    /\ c \in in \cup leaving \/ stopped
    /\ \E k \in NextFor(c) : got' = [got EXCEPT ![c] = Append(@, log[k])]
    /\ UNCHANGED <<log, in, leaving, from, stopped>>

Stop ==
    /\ stopped' = TRUE
    /\ UNCHANGED <<log, in, leaving, from, got>>

Next ==
    \/ \E m \in Msgs : Publish(m)
    \/ \E c \in Members : Join(c) \/ Deliver(c) \/ HasLeft(c)
    \/ \E some, slowly \in SUBSET Members : Leave(some, slowly)
    \/ Stop

Spec == Init /\ [][Next]_<<log, in, leaving, from, got, stopped>>
=============================================================================
