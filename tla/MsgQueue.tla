------------------------------ MODULE MsgQueue -----------------------------
(***************************************************************************)
(* internal/queue.go: the queue of the messages for a peer, each with the  *)
(* time when it is to be sent.  subLoop and msgLoop insert; the goroutine  *)
(* that Pop starts sleeps until the first element is due, or is woken      *)
(* through recheckChan, and hands the element over to msgLoop.             *)
(*                                                                         *)
(* Elements are numbered in the order of insertion.                        *)
(***************************************************************************)
EXTENDS Integers, Sequences, FiniteSets

CONSTANTS
    Inserters,  \* goroutines that call Insert
    Minute,     \* how long the goroutine sleeps when the queue is empty
    MaxTime,    \* bound: the last moment of the clock
    MaxDue,     \* bound: the latest time an element is inserted with
    MaxInserts  \* bound: the number of elements

ASSUME MsgQueueAssumption ==
    /\ Minute \in Nat
    /\ MaxTime \in Nat
    /\ MaxDue \in Nat /\ MaxDue < MaxTime
    /\ MaxInserts \in Nat

VARIABLES
    now,        \* the clock
    l,          \* the list: the numbers of the elements
    t,          \* t[n]: the time of element n
    inserted,   \* the number of elements inserted
    ipc,        \* ipc[i]: "idle", or "signal" when i still has to signal
    recheck,    \* recheckChan, of capacity 1, holds a token
    qpc,        \* where the goroutine of Pop is
    delay,      \* its delay, then the moment its timer fires
    hand,       \* the element it has removed, 0 if none
    popped,     \* the elements that msgLoop has received
    canceled    \* q.ctx is done

vars == <<now, l, t, inserted, ipc, recheck, qpc, delay, hand, popped, canceled>>

Elems == 1 .. MaxInserts

\* The values of the variables; the goroutine is sending exactly when it has an
\* element in its hand.
TypeOK ==
    /\ now \in 0 .. MaxTime
    /\ l \in Seq(Elems)
    /\ t \in [Elems -> 0 .. MaxDue]
    /\ inserted \in 0 .. MaxInserts
    /\ ipc \in [Inserters -> {"idle", "signal"}]
    /\ recheck \in BOOLEAN
    /\ qpc \in {"top", "arm", "wait", "check", "send", "end"}
    /\ delay \in Int
    /\ hand \in 0 .. MaxInserts
    /\ hand # 0 <=> qpc = "send"
    /\ popped \in SUBSET Elems
    /\ canceled \in BOOLEAN

Init ==
    /\ now = 0
    /\ l = << >>
    /\ t = [n \in Elems |-> 0]
    /\ inserted = 0
    /\ ipc = [i \in Inserters |-> "idle"]
    /\ recheck = FALSE
    /\ qpc = "top"
    /\ delay = 0
    /\ hand = 0
    /\ popped = {}
    /\ canceled = FALSE

-----------------------------------------------------------------------------
(* Insert: the element goes before the first one that is due later; the    *)
(* deferred signal comes after the mutex is unlocked.                      *)

\* A plausible slip: the element goes before those that are due at its time.
Position_BeforeEqual(time) ==
    CHOOSE k \in 1 .. Len(l) + 1 :
        /\ k <= Len(l) => t[l[k]] >= time
        /\ \A j \in 1 .. k - 1 : ~ t[l[j]] >= time

Position(time) ==
    CHOOSE k \in 1 .. Len(l) + 1 :
        /\ k <= Len(l) => t[l[k]] > time
        /\ \A j \in 1 .. k - 1 : ~ t[l[j]] > time

InsertAt(k, n) == SubSeq(l, 1, k - 1) \o <<n>> \o SubSeq(l, k, Len(l))

Insert(i, time) ==
    /\ ipc[i] = "idle"
    /\ inserted < MaxInserts
    /\ inserted' = inserted + 1
    /\ t' = [t EXCEPT ![inserted + 1] = time]
    /\ l' = InsertAt(Position(time), inserted + 1)
    /\ ipc' = [ipc EXCEPT ![i] = "signal"]
    /\ UNCHANGED <<now, recheck, qpc, delay, hand, popped, canceled>>

\* A plausible slip: recheckChan has no buffer.
Signal_Unbuffered(i) ==
    /\ ipc[i] = "signal"
    /\ ipc' = [ipc EXCEPT ![i] = "idle"]
    /\ recheck' = (qpc = "wait")
    /\ UNCHANGED <<now, l, t, inserted, qpc, delay, hand, popped, canceled>>

Signal(i) ==
    /\ ipc[i] = "signal"
    /\ ipc' = [ipc EXCEPT ![i] = "idle"]
    /\ recheck' = TRUE
    /\ UNCHANGED <<now, l, t, inserted, qpc, delay, hand, popped, canceled>>

-----------------------------------------------------------------------------
(* The goroutine of Pop.                                                   *)

\* It computes how long to sleep.
Look ==
    /\ qpc = "top"
    /\ delay' = IF l = << >> THEN Minute ELSE t[Head(l)] - now
    /\ qpc' = "arm"
    /\ UNCHANGED <<now, l, t, inserted, ipc, recheck, hand, popped, canceled>>

\* time.After starts the timer.
Arm ==
    /\ qpc = "arm"
    /\ delay' = now + delay
    /\ qpc' = "wait"
    /\ UNCHANGED <<now, l, t, inserted, ipc, recheck, hand, popped, canceled>>

Timer ==
    /\ qpc = "wait"
    /\ now >= delay
    /\ delay' = 0
    /\ qpc' = "check"
    /\ UNCHANGED <<now, l, t, inserted, ipc, recheck, hand, popped, canceled>>

Recheck ==
    /\ qpc = "wait"
    /\ recheck
    /\ recheck' = FALSE
    /\ delay' = 0
    /\ qpc' = "check"
    /\ UNCHANGED <<now, l, t, inserted, ipc, hand, popped, canceled>>

Due == l # << >> /\ now > t[Head(l)]

\* The first element is due, and is removed.
Remove ==
    /\ qpc = "check"
    /\ Due
    /\ hand' = Head(l)
    /\ l' = Tail(l)
    /\ qpc' = "send"
    /\ UNCHANGED <<now, t, inserted, ipc, recheck, delay, popped, canceled>>

\* Nothing is due: another round.
NothingDue ==
    /\ qpc = "check"
    /\ ~ Due
    /\ qpc' = "top"
    /\ UNCHANGED <<now, l, t, inserted, ipc, recheck, delay, hand, popped, canceled>>

\* msgLoop receives the element.
Receive ==
    /\ qpc = "send"
    /\ popped' = popped \cup {hand}
    /\ hand' = 0
    /\ qpc' = "top"
    /\ UNCHANGED <<now, l, t, inserted, ipc, recheck, delay, canceled>>

\* A plausible slip: the goroutine waits for a receiver only.
GiveUp_Never == FALSE /\ UNCHANGED vars

\* The context is done: the element is dropped.
GiveUp ==
    /\ qpc = "send"
    /\ canceled
    /\ hand' = 0
    /\ qpc' = "top"
    /\ UNCHANGED <<now, l, t, inserted, ipc, recheck, delay, popped, canceled>>

Return ==
    /\ qpc = "wait"
    /\ canceled
    /\ qpc' = "end"
    /\ UNCHANGED <<now, l, t, inserted, ipc, recheck, delay, hand, popped, canceled>>

-----------------------------------------------------------------------------
\* Time passes, but not between the computation of the delay and its use, which
\* would only make the timer late.
Tick ==
    /\ now < MaxTime
    /\ qpc # "arm"
    /\ now' = now + 1
    /\ UNCHANGED <<l, t, inserted, ipc, recheck, qpc, delay, hand, popped, canceled>>

Cancel ==
    /\ ~ canceled
    /\ canceled' = TRUE
    /\ UNCHANGED <<now, l, t, inserted, ipc, recheck, qpc, delay, hand, popped>>

Pop == Look \/ Arm \/ Timer \/ Recheck \/ Remove \/ NothingDue \/ GiveUp \/ Return

Next ==
    \/ \E i \in Inserters : (\E time \in 0 .. MaxDue : Insert(i, time)) \/ Signal(i)
    \/ Pop
    \/ Receive
    \/ Tick
    \/ Cancel

Spec == Init /\ [][Next]_vars

\* The clock and the goroutines run; until the context is done, msgLoop comes
\* back to receive; the goroutine that sleeps with its context done returns.
Fairness ==
    /\ SF_vars(Tick)
    /\ \A i \in Inserters : WF_vars(Signal(i))
    /\ WF_vars(Look) /\ WF_vars(Arm) /\ WF_vars(Timer) /\ WF_vars(Recheck)
    /\ WF_vars(Remove) /\ WF_vars(NothingDue)
    /\ WF_vars(~ canceled /\ Receive)
    /\ WF_vars(GiveUp)
    /\ SF_vars(Return)

FairSpec == Spec /\ Fairness

-----------------------------------------------------------------------------
(* Properties.                                                             *)

\* The contract of the queue: what it holds is in the list.
Contract ==
    INSTANCE TimedQueue WITH Times <- 0 .. MaxDue, last <- inserted, out <- popped,
        pending <- {[n |-> l[k], time |-> t[l[k]]] : k \in DOMAIN l}

\* The sorted list and the goroutine of Pop implement TimedQueue, whoever inserts
\* while the goroutine sleeps, looks at the list or waits for the receiver.
ImplementsTimedQueue == Contract!Spec

\* Every element is handed over, whenever it was inserted and whatever the
\* goroutine was doing then: no wake-up is lost (the timer may be far in the
\* future).
EveryElementIsPopped ==
    \A n \in Elems : n <= inserted ~> n \in popped \/ canceled

\* The goroutine of Pop ends after the context is done, also when nobody
\* receives any more.
PopEnds == canceled ~> qpc = "end"
=============================================================================
