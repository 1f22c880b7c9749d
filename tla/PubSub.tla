------------------------------- MODULE PubSub ------------------------------
(***************************************************************************)
(* internal/pubsub.go: the notifier of a node.  Publishers hand messages   *)
(* over to readLoop, which puts each of them in the buffered channel of    *)
(* every subscriber while it holds mu.  Sub and Unsub need mu too; a       *)
(* receiver does not, so it may take messages from a channel that Unsub    *)
(* has closed and is draining.                                             *)
(*                                                                         *)
(* Publishers are the Push handlers and local senders; subscribers are the *)
(* subLoop of every active peer and the loops of the chat and robot apps.  *)
(* The latter (Echo) may publish a message from the goroutine that         *)
(* receives, before they receive the next one: the answer to a message, or *)
(* to one of the history that chat's loop handles after Sub.               *)
(***************************************************************************)
EXTENDS Integers, Sequences, FiniteSets

CONSTANTS
    Publishers, \* goroutines that only publish
    Chans,      \* channels that Sub returns, and their receiving goroutines
    Echo,       \* those of them that may publish as well
    BufCap,     \* BufCap[c]: the capacity of channel c (10 for all in the code)
    MaxPubs     \* bound: the number of calls of Pub

ASSUME PubSubAssumption ==
    /\ Echo \subseteq Chans
    /\ Publishers \cap Chans = {}
    /\ BufCap \in [Chans -> Nat]
    /\ MaxPubs \in Nat

VARIABLES
    pmsg,       \* pmsg[a]: the message a is in Pub with, 0 if it is not
    pubs,       \* the calls of Pub so far; message n is the nth of them
    out,        \* the map out
    closed,     \* the channels that were closed
    buf,        \* buf[c]: what is in channel c
    draining,   \* the channel whose Unsub is in progress, and holds mu
    lpc,        \* where readLoop is; it holds mu in "fanout"
    lmsg,       \* the message it has received
    ltodo,      \* the channels it still has to visit
    canceled,   \* ps.ctx is done
    (* History. *)
    log,        \* the messages in the order readLoop took them
    start,      \* start[c]: the length of log when c subscribed
    got         \* got[c]: what c's goroutine has received

vars == <<pmsg, pubs, out, closed, buf, draining, lpc, lmsg, ltodo, canceled, log,
          start, got>>

Actors == Publishers \cup Echo

TypeOK ==
    /\ pmsg \in [Actors -> 0 .. MaxPubs]
    /\ pubs \in 0 .. MaxPubs
    /\ out \in SUBSET Chans
    /\ closed \in SUBSET Chans
    /\ out \cap closed = {}
    /\ buf \in [Chans -> Seq(1 .. MaxPubs)]
    /\ \A c \in Chans : Len(buf[c]) <= BufCap[c]
    /\ draining \in SUBSET closed
    /\ lpc \in {"select", "lock", "fanout", "stop", "done"}
    /\ lmsg \in 0 .. MaxPubs
    /\ ltodo \in SUBSET Chans
    /\ canceled \in BOOLEAN
    /\ log \in Seq(1 .. MaxPubs)
    /\ start \in [Chans -> Nat]
    /\ got \in [Chans -> Seq(1 .. MaxPubs)]

Init ==
    /\ pmsg = [a \in Actors |-> 0]
    /\ pubs = 0
    /\ out = {}
    /\ closed = {}
    /\ buf = [c \in Chans |-> << >>]
    /\ draining = {}
    /\ lpc = "select"
    /\ lmsg = 0
    /\ ltodo = {}
    /\ canceled = FALSE
    /\ log = << >>
    /\ start = [c \in Chans |-> 0]
    /\ got = [c \in Chans |-> << >>]

-----------------------------------------------------------------------------
(* Pub.                                                                    *)

\* a calls Pub, and waits until readLoop takes the message.
Pub(a) ==
    /\ pmsg[a] = 0
    /\ a \in Echo => a \in out \cup closed
    /\ pubs < MaxPubs
    /\ pubs' = pubs + 1
    /\ pmsg' = [pmsg EXCEPT ![a] = pubs + 1]
    /\ UNCHANGED <<out, closed, buf, draining, lpc, lmsg, ltodo, canceled, log,
                   start, got>>

\* A plausible slip: Pub does not watch the context.
PubCanceled_Never(a) == FALSE /\ pmsg[a] # 0 /\ UNCHANGED vars

\* Pub returns because the context is done.
PubCanceled(a) ==
    /\ pmsg[a] # 0
    /\ canceled
    /\ pmsg' = [pmsg EXCEPT ![a] = 0]
    /\ UNCHANGED <<pubs, out, closed, buf, draining, lpc, lmsg, ltodo,
                   canceled, log, start, got>>

-----------------------------------------------------------------------------
(* Sub and Unsub, under mu.                                                *)

Locked == lpc = "fanout" \/ draining # {}

\* The channel is new: it was never subscribed before.
Sub(c) ==
    /\ ~ Locked
    /\ c \notin out \cup closed
    /\ out' = out \cup {c}
    /\ start' = [start EXCEPT ![c] = Len(log)]
    /\ UNCHANGED <<pmsg, pubs, closed, buf, draining, lpc, lmsg, ltodo, canceled,
                   log, got>>

\* Unsub locks mu, deletes the channel from out and closes it.
Unsub(c) ==
    /\ ~ Locked
    /\ c \in out
    /\ out' = out \ {c}
    /\ closed' = closed \cup {c}
    /\ draining' = {c}
    /\ UNCHANGED <<pmsg, pubs, buf, lpc, lmsg, ltodo, canceled, log,
                   start, got>>

\* Unsub takes a message that was in the channel, and drops it.
UnsubDrains(c) ==
    /\ c \in draining
    /\ buf[c] # << >>
    /\ buf' = [buf EXCEPT ![c] = Tail(@)]
    /\ UNCHANGED <<pmsg, pubs, out, closed, draining, lpc, lmsg, ltodo, canceled,
                   log, start, got>>

\* The channel is empty: Unsub unlocks mu and returns.
UnsubReturns(c) ==
    /\ c \in draining
    /\ buf[c] = << >>
    /\ draining' = draining \ {c}
    /\ UNCHANGED <<pmsg, pubs, out, closed, buf, lpc, lmsg, ltodo,
                   canceled, log, start, got>>

\* c's goroutine receives, unless it is in Pub.
Receive(c) ==
    /\ c \in Echo => pmsg[c] = 0
    /\ buf[c] # << >>
    /\ got' = [got EXCEPT ![c] = Append(@, Head(buf[c]))]
    /\ buf' = [buf EXCEPT ![c] = Tail(@)]
    /\ UNCHANGED <<pmsg, pubs, out, closed, draining, lpc, lmsg, ltodo,
                   canceled, log, start>>

-----------------------------------------------------------------------------
(* readLoop.                                                               *)

\* It takes a message from a publisher, whose Pub returns.
LoopTakes(a) ==
    /\ lpc = "select"
    /\ pmsg[a] # 0
    /\ lmsg' = pmsg[a]
    /\ pmsg' = [pmsg EXCEPT ![a] = 0]
    /\ lpc' = "lock"
    /\ UNCHANGED <<pubs, out, closed, buf, draining, ltodo, canceled, log,
                   start, got>>

\* It locks mu and starts to range over out.
LoopLocks ==
    /\ lpc = "lock"
    /\ ~ Locked
    /\ lpc' = "fanout"
    /\ ltodo' = out
    /\ log' = Append(log, lmsg)
    /\ UNCHANGED <<pmsg, pubs, out, closed, buf, draining, lmsg, canceled,
                   start, got>>

\* A plausible slip: a full channel is skipped.
LoopDelivers_SkipsFull(c) ==
    /\ lpc = "fanout"
    /\ c \in ltodo
    /\ buf' = IF Len(buf[c]) < BufCap[c] THEN [buf EXCEPT ![c] = Append(@, lmsg)]
              ELSE buf
    /\ ltodo' = ltodo \ {c}
    /\ UNCHANGED <<pmsg, pubs, out, closed, draining, lpc, lmsg, canceled, log,
                   start, got>>

\* It sends to a channel that has room, holding mu.
LoopDelivers(c) ==
    /\ lpc = "fanout"
    /\ c \in ltodo
    /\ Len(buf[c]) < BufCap[c]
    /\ buf' = [buf EXCEPT ![c] = Append(@, lmsg)]
    /\ ltodo' = ltodo \ {c}
    /\ UNCHANGED <<pmsg, pubs, out, closed, draining, lpc, lmsg, canceled, log,
                   start, got>>

\* A plausible slip: the send does not watch the context.
LoopSkips_Never(c) == FALSE /\ c \in ltodo /\ UNCHANGED vars

\* The context is done: it does not wait for c.
LoopSkips(c) ==
    /\ lpc = "fanout"
    /\ c \in ltodo
    /\ canceled
    /\ ltodo' = ltodo \ {c}
    /\ UNCHANGED <<pmsg, pubs, out, closed, buf, draining, lpc, lmsg, canceled,
                   log, start, got>>

LoopUnlocks ==
    /\ lpc = "fanout"
    /\ ltodo = {}
    /\ lpc' = "select"
    /\ lmsg' = 0
    /\ UNCHANGED <<pmsg, pubs, out, closed, buf, draining, ltodo, canceled,
                   log, start, got>>

LoopCanceled ==
    /\ lpc = "select"
    /\ canceled
    /\ lpc' = "stop"
    /\ UNCHANGED <<pmsg, pubs, out, closed, buf, draining, lmsg, ltodo,
                   canceled, log, start, got>>

\* It closes every channel (receivers still get what is buffered), then done.
LoopStops ==
    /\ lpc = "stop"
    /\ ~ Locked
    /\ closed' = closed \cup out
    /\ out' = {}
    /\ lpc' = "done"
    /\ UNCHANGED <<pmsg, pubs, buf, draining, lmsg, ltodo, canceled, log,
                   start, got>>

Cancel ==
    /\ ~ canceled
    /\ canceled' = TRUE
    /\ UNCHANGED <<pmsg, pubs, out, closed, buf, draining, lpc, lmsg, ltodo,
                   log, start, got>>

-----------------------------------------------------------------------------
readLoop ==
    \/ \E a \in Actors : LoopTakes(a)
    \/ LoopLocks
    \/ \E c \in Chans : LoopDelivers(c) \/ LoopSkips(c)
    \/ LoopUnlocks
    \/ LoopCanceled
    \/ LoopStops

Next ==
    \/ \E a \in Actors : Pub(a) \/ PubCanceled(a)
    \/ \E c \in Chans : \/ Sub(c)
                        \/ Unsub(c) \/ UnsubDrains(c) \/ UnsubReturns(c)
                        \/ Receive(c)
    \/ readLoop
    \/ Cancel

Spec == Init /\ [][Next]_vars

\* readLoop runs, and so does an Unsub that has the lock; a subscriber that is
\* not in Pub receives until the context is done (subLoop returns then, without
\* Unsub); a publisher that waits in the select of readLoop is not passed over for
\* ever.
Fairness ==
    /\ WF_vars(readLoop)
    /\ \A a \in Actors : WF_vars(PubCanceled(a)) /\ SF_vars(LoopTakes(a))
    /\ \A c \in Chans : WF_vars(~ canceled /\ Receive(c))
    /\ \A c \in Chans : WF_vars(UnsubDrains(c) \/ UnsubReturns(c))

FairSpec == Spec /\ Fairness

-----------------------------------------------------------------------------
(* Properties.                                                             *)

\* The contract of the notifier, whoever is slow and whoever comes and goes: "will
\* receive all the new message ids" (pubsub.go:44-45).
Contract ==
    INSTANCE Broadcast WITH Members <- Chans, Msgs <- 1 .. MaxPubs,
                            in <- out, leaving <- draining, from <- start,
                            stopped <- canceled

\* The mutex, the channels and readLoop implement Broadcast.  It follows that
\* readLoop never sends on a channel that Unsub has closed, which would panic: the
\* message would reach somebody who has left.  Only while Unsub is draining the
\* channel may its receiver still get messages, and miss some of them.
ImplementsBroadcast == Contract!Spec

\* Every call of Pub returns: no Push handler hangs in the notifier.  The one
\* exception is a subscriber that publishes itself while its own channel is full
\* and readLoop has a message for it: then everybody waits for everybody.  The
\* buffer only delays that, although the comment of Sub says that it is there "to
\* allow publishing messages from the same goroutine that subscribes to new
\* messages" (pubsub.go:49-50).
PubReturns ==
    \A a \in Actors : pmsg[a] # 0 ~>
        \/ pmsg[a] = 0
        \/ \E c \in Echo \cap ltodo : pmsg[c] # 0 /\ Len(buf[c]) = BufCap[c]

\* After Stop, readLoop ends, whatever is buffered and whoever is slow, and
\* closes the channels of those who had subscribed.
StopEnds ==
    /\ canceled ~> lpc = "done"
    /\ \A c \in Chans : canceled /\ c \in out /\ lpc # "done" ~> c \in closed
=============================================================================
