---------------------------- MODULE PubSubProofs ---------------------------
(***************************************************************************)
(* The notifier implements Broadcast, for any number of publishers and     *)
(* subscribers and any capacity of the channels.                           *)
(***************************************************************************)
EXTENDS PubSub, SequenceTheorems, TLAPS

-----------------------------------------------------------------------------
(* The inductive invariant.                                                *)

\* m is in the sequence s.
In(m, s) == \E k \in DOMAIN s : s[k] = m

\* A message is in one place only, with a publisher, with readLoop or in log, and
\* once.
MessagesAreUnique ==
    /\ \A j, k \in DOMAIN log : log[j] = log[k] => j = k
    /\ \A k \in DOMAIN log : log[k] <= pubs
    /\ \A a \in Actors : pmsg[a] # 0 => /\ pmsg[a] <= pubs
                                        /\ ~ In(pmsg[a], log)
                                        /\ \A b \in Actors : pmsg[b] = pmsg[a] => a = b
    /\ lpc = "lock" => /\ lmsg \in 1 .. pubs
                       /\ ~ In(lmsg, log)
                       /\ \A a \in Actors : pmsg[a] # lmsg

\* With mu locked, readLoop hands out the last message of log to subscribers.  It
\* stops when the context is done.
LoopKnows ==
    /\ lpc = "fanout" => /\ log # << >> /\ log[Len(log)] = lmsg
                         /\ ltodo \subseteq out
    /\ lpc # "fanout" => ltodo = {}
    /\ lpc \in {"stop", "done"} => canceled

\* The messages that readLoop has offered to c: all but the one in its hand.
Offered(c) == IF c \in ltodo THEN Len(log) - 1 ELSE Len(log)

\* What c received, and what is in its channel, comes from the log, after c has
\* subscribed, in its order.
InOrder(c) ==
    /\ start[c] <= Len(log)
    /\ c \in ltodo => start[c] < Len(log)
    /\ \A i \in DOMAIN got[c] : \E k \in start[c] + 1 .. Offered(c) : log[k] = got[c][i]
    /\ \A i \in DOMAIN buf[c] : \E k \in start[c] + 1 .. Offered(c) : log[k] = buf[c][i]
    /\ \A i \in DOMAIN got[c], j \in DOMAIN buf[c], k, n \in DOMAIN log :
         log[k] = got[c][i] /\ log[n] = buf[c][j] => k < n
    /\ \A i, j \in DOMAIN buf[c], k, n \in DOMAIN log :
         log[k] = buf[c][i] /\ log[n] = buf[c][j] /\ i < j => k < n

\* Before the stop nothing is left out, and who has left has nothing to receive.
NoGaps(c) ==
    /\ ~ canceled /\ c \in out =>
         \A k \in start[c] + 1 .. Offered(c) : In(log[k], got[c]) \/ In(log[k], buf[c])
    /\ ~ canceled /\ c \notin out \cup draining => buf[c] = << >>
    /\ c \notin out \cup closed => got[c] = << >> /\ buf[c] = << >>

IInv ==
    /\ TypeOK
    /\ MessagesAreUnique
    /\ LoopKnows
    /\ \A c \in Chans : InOrder(c) /\ NoGaps(c)

-----------------------------------------------------------------------------
(* The invariant holds initially, and every step keeps it.                 *)

\* NewPubSub: nothing is published, and nobody subscribes.
LEMMA InitIInv == Init => IInv
<1> SUFFICES ASSUME Init PROVE IInv
  OBVIOUS
<1> USE PubSubAssumption DEF Init
<1>1. TypeOK
  <2>1. << >> \in Seq(1 .. MaxPubs) /\ Len(<< >>) = 0
    OBVIOUS
  <2>2. /\ buf \in [Chans -> Seq(1 .. MaxPubs)] /\ \A c \in Chans : Len(buf[c]) <= BufCap[c]
        /\ got \in [Chans -> Seq(1 .. MaxPubs)] /\ log \in Seq(1 .. MaxPubs)
    BY <2>1
  <2>3. pmsg \in [Actors -> 0 .. MaxPubs] /\ pubs \in 0 .. MaxPubs /\ lmsg \in 0 .. MaxPubs
    OBVIOUS
  <2>4. canceled \in BOOLEAN
    OBVIOUS
  <2> QED BY <2>2, <2>3, <2>4 DEF TypeOK
<1>2. MessagesAreUnique /\ LoopKnows
  BY DEF MessagesAreUnique, LoopKnows
<1>3. ASSUME NEW c \in Chans PROVE InOrder(c) /\ NoGaps(c)
  BY DEF InOrder, NoGaps, Offered
<1> QED BY <1>1, <1>2, <1>3 DEF IInv

\* Every step keeps the types and the capacity of the channels.
LEMMA TypeStep == IInv /\ [Next]_vars => TypeOK'
<1> SUFFICES ASSUME IInv, [Next]_vars PROVE TypeOK'
  OBVIOUS
<1> USE PubSubAssumption
<1>0. TypeOK
  BY DEF IInv
<1>1. ASSUME NEW a \in Actors, Pub(a) \/ PubCanceled(a) \/ LoopTakes(a) PROVE TypeOK'
  <2>1. CASE Pub(a)
    BY <1>0, <2>1 DEF TypeOK, Pub
  <2>2. CASE PubCanceled(a)
    BY <1>0, <2>2 DEF TypeOK, PubCanceled
  <2>3. CASE LoopTakes(a)
    BY <1>0, <2>3 DEF TypeOK, LoopTakes
  <2> QED BY <1>1, <2>1, <2>2, <2>3
<1>2. ASSUME NEW c \in Chans, Sub(c) PROVE TypeOK'
  <2>1. Len(log) \in Nat
    BY <1>0 DEF TypeOK
  <2> QED BY <1>0, <1>2, <2>1 DEF TypeOK, Sub
<1>3. ASSUME NEW c \in Chans, Unsub(c) \/ UnsubDrains(c) \/ UnsubReturns(c)
      PROVE  TypeOK'
  <2>1. CASE Unsub(c)
    BY <1>0, <2>1 DEF TypeOK, Unsub
  <2>2. CASE UnsubDrains(c)
    <3>1. /\ Tail(buf[c]) \in Seq(1 .. MaxPubs)
          /\ Len(Tail(buf[c])) = Len(buf[c]) - 1 /\ Len(buf[c]) \in Nat
      BY <1>0, <2>2, HeadTailProperties DEF TypeOK, UnsubDrains
    <3>2. /\ buf' \in [Chans -> Seq(1 .. MaxPubs)]
          /\ \A d \in Chans : Len(buf'[d]) <= BufCap[d]
      BY <1>0, <2>2, <3>1, SMTT(30) DEF TypeOK, UnsubDrains
    <3> QED BY <1>0, <2>2, <3>2 DEF TypeOK, UnsubDrains
  <2>3. CASE UnsubReturns(c)
    BY <1>0, <2>3 DEF TypeOK, UnsubReturns
  <2> QED BY <1>3, <2>1, <2>2, <2>3
<1>4. ASSUME NEW c \in Chans, Receive(c) PROVE TypeOK'
  <2>1. /\ Head(buf[c]) \in 1 .. MaxPubs /\ Tail(buf[c]) \in Seq(1 .. MaxPubs)
        /\ Len(Tail(buf[c])) = Len(buf[c]) - 1 /\ Len(buf[c]) \in Nat
    BY <1>0, <1>4, HeadTailProperties DEF TypeOK, Receive
  <2>2. Append(got[c], Head(buf[c])) \in Seq(1 .. MaxPubs)
    BY <1>0, <2>1 DEF TypeOK
  <2>3. got' \in [Chans -> Seq(1 .. MaxPubs)]
    BY <1>0, <1>4, <2>2 DEF TypeOK, Receive
  <2>4. /\ buf' \in [Chans -> Seq(1 .. MaxPubs)]
        /\ \A d \in Chans : Len(buf'[d]) <= BufCap[d]
    BY <1>0, <1>4, <2>1, SMTT(30) DEF TypeOK, Receive
  <2> QED BY <1>0, <1>4, <2>3, <2>4 DEF TypeOK, Receive
<1>5. ASSUME LoopLocks PROVE TypeOK'
  <2>1. lmsg \in 1 .. MaxPubs
    BY <1>0, <1>5 DEF IInv, MessagesAreUnique, LoopLocks, TypeOK
  <2>2. Append(log, lmsg) \in Seq(1 .. MaxPubs)
    BY <1>0, <2>1 DEF TypeOK
  <2> QED BY <1>0, <1>5, <2>2 DEF TypeOK, LoopLocks
<1>6. ASSUME NEW c \in Chans, LoopDelivers(c) PROVE TypeOK'
  <2>1. lmsg \in 1 .. MaxPubs
    <3>1. log \in Seq(1 .. MaxPubs) /\ log # << >> /\ log[Len(log)] = lmsg
      BY <1>0, <1>6 DEF IInv, LoopKnows, LoopDelivers, TypeOK
    <3> QED BY <3>1
  <2>2. /\ Append(buf[c], lmsg) \in Seq(1 .. MaxPubs)
        /\ Len(Append(buf[c], lmsg)) = Len(buf[c]) + 1
    BY <1>0, <2>1 DEF TypeOK
  <2>3. /\ buf' \in [Chans -> Seq(1 .. MaxPubs)]
        /\ \A d \in Chans : Len(buf'[d]) <= BufCap[d]
    BY <1>0, <1>6, <2>2 DEF TypeOK, LoopDelivers
  <2> QED BY <1>0, <1>6, <2>3 DEF TypeOK, LoopDelivers
<1>7. ASSUME NEW c \in Chans, LoopSkips(c) PROVE TypeOK'
  BY <1>0, <1>7 DEF TypeOK, LoopSkips
<1>8. CASE LoopUnlocks \/ LoopCanceled \/ LoopStops \/ Cancel
  <2>1. CASE LoopUnlocks
    BY <1>0, <2>1 DEF TypeOK, LoopUnlocks
  <2>2. CASE LoopCanceled
    BY <1>0, <2>2 DEF TypeOK, LoopCanceled
  <2>3. CASE LoopStops
    BY <1>0, <2>3 DEF TypeOK, LoopStops
  <2>4. CASE Cancel
    BY <1>0, <2>4 DEF TypeOK, Cancel
  <2> QED BY <1>8, <2>1, <2>2, <2>3, <2>4
<1>9. CASE UNCHANGED vars
  BY <1>0, <1>9 DEF TypeOK, vars
<1> QED BY <1>1, <1>2, <1>3, <1>4, <1>5, <1>6, <1>7, <1>8, <1>9 DEF Next, readLoop

\* What a message is in after it was appended to a sequence.
LEMMA InAppend ==
    ASSUME NEW S, NEW s \in Seq(S), NEW e \in S, NEW m
    PROVE  In(m, Append(s, e)) <=> In(m, s) \/ m = e
<1>1. /\ DOMAIN s = 1 .. Len(s) /\ DOMAIN Append(s, e) = 1 .. Len(s) + 1
      /\ Len(s) \in Nat
      /\ \A i \in 1 .. Len(s) : Append(s, e)[i] = s[i]
      /\ Append(s, e)[Len(s) + 1] = e
  BY AppendProperties, LenProperties
<1> QED BY <1>1 DEF In

\* A message moves from its publisher to readLoop to the log, and is never copied.
LEMMA UniqueStep == IInv /\ [Next]_vars => MessagesAreUnique'
<1> SUFFICES ASSUME IInv, [Next]_vars PROVE MessagesAreUnique'
  OBVIOUS
<1> USE PubSubAssumption
<1>0. TypeOK /\ MessagesAreUnique
  BY DEF IInv
<1>t. log \in Seq(1 .. MaxPubs) /\ DOMAIN log = 1 .. Len(log) /\ Len(log) \in Nat
      /\ \A k \in DOMAIN log : log[k] \in 1 .. MaxPubs
  BY <1>0 DEF TypeOK
<1>1. ASSUME NEW a \in Actors, Pub(a) PROVE MessagesAreUnique'
  BY <1>0, <1>1, <1>t DEF TypeOK, Pub, MessagesAreUnique, In
<1>2. ASSUME NEW a \in Actors, PubCanceled(a) PROVE MessagesAreUnique'
  BY <1>0, <1>2, <1>t DEF TypeOK, PubCanceled, MessagesAreUnique, In
<1>3. ASSUME NEW a \in Actors, LoopTakes(a) PROVE MessagesAreUnique'
  BY <1>0, <1>3, <1>t DEF TypeOK, LoopTakes, MessagesAreUnique, In
<1>4. CASE LoopLocks
  <2>1. lmsg \in 1 .. pubs /\ ~ In(lmsg, log) /\ lmsg \in 1 .. MaxPubs
    BY <1>0, <1>4 DEF MessagesAreUnique, LoopLocks, TypeOK
  <2>2. /\ log' = Append(log, lmsg)
        /\ DOMAIN log' = 1 .. Len(log) + 1
        /\ \A i \in 1 .. Len(log) : log'[i] = log[i]
        /\ log'[Len(log) + 1] = lmsg
    BY <1>4, <1>t, <2>1, AppendProperties, LenProperties DEF LoopLocks
  <2>3. \A m : In(m, log') <=> In(m, log) \/ m = lmsg
    BY <1>t, <2>1, <2>2, InAppend
  <2>4. \A j, k \in DOMAIN log' : log'[j] = log'[k] => j = k
    BY <1>0, <1>t, <2>1, <2>2 DEF MessagesAreUnique, In
  <2>5. \A k \in DOMAIN log' : log'[k] <= pubs
    BY <1>0, <1>t, <2>1, <2>2 DEF MessagesAreUnique
  <2> QED BY <1>0, <1>4, <2>3, <2>4, <2>5 DEF MessagesAreUnique, LoopLocks
<1>5. CASE \/ \E c \in Chans : \/ Sub(c) \/ Receive(c)
                               \/ Unsub(c) \/ UnsubDrains(c) \/ UnsubReturns(c)
                               \/ LoopDelivers(c) \/ LoopSkips(c)
           \/ LoopUnlocks \/ LoopCanceled \/ LoopStops \/ Cancel
           \/ UNCHANGED vars
  <2>1. /\ UNCHANGED <<pmsg, pubs, log>>
        /\ lpc' = "lock" => lpc = "lock" /\ lmsg' = lmsg
    BY <1>5 DEF Sub, Unsub, UnsubDrains, UnsubReturns, Receive, LoopDelivers, LoopSkips,
       LoopUnlocks, LoopCanceled, LoopStops, Cancel, vars
  <2> QED BY <1>0, <2>1 DEF MessagesAreUnique
<1> QED BY <1>1, <1>2, <1>3, <1>4, <1>5 DEF Next, readLoop

\* readLoop hands out the last message of the log, to subscribers only, as long as
\* it has mu locked.
LEMMA LoopStep == IInv /\ [Next]_vars => LoopKnows'
<1> SUFFICES ASSUME IInv, [Next]_vars PROVE LoopKnows'
  OBVIOUS
<1> USE PubSubAssumption
<1>0. TypeOK /\ LoopKnows
  BY DEF IInv
<1>1. CASE LoopLocks
  <2>1. lmsg \in 1 .. MaxPubs
    BY <1>1, <1>0 DEF IInv, MessagesAreUnique, LoopLocks, TypeOK
  <2>2. log \in Seq(1 .. MaxPubs) /\ log' = Append(log, lmsg)
    BY <1>0, <1>1 DEF TypeOK, LoopLocks
  <2>3. log' # << >> /\ log'[Len(log')] = lmsg
    <3>1. /\ Append(log, lmsg) # << >> /\ Len(Append(log, lmsg)) = Len(log) + 1
          /\ Append(log, lmsg)[Len(log) + 1] = lmsg
      BY <2>1, <2>2, AppendProperties
    <3> QED BY <2>2, <3>1
  <2> QED BY <1>1, <2>3 DEF LoopKnows, LoopLocks
<1>2. ASSUME NEW c \in Chans, LoopDelivers(c) \/ LoopSkips(c) PROVE LoopKnows'
  BY <1>0, <1>2 DEF LoopKnows, LoopDelivers, LoopSkips
<1>3. CASE LoopUnlocks \/ LoopCanceled \/ LoopStops \/ Cancel
  BY <1>0, <1>3 DEF LoopKnows, LoopUnlocks, LoopCanceled, LoopStops, Cancel
<1>4. ASSUME NEW c \in Chans,
             Sub(c) \/ Unsub(c) \/ UnsubDrains(c) \/ UnsubReturns(c) \/ Receive(c)
      PROVE  LoopKnows'
  BY <1>0, <1>4 DEF LoopKnows, Sub, Unsub, UnsubDrains, UnsubReturns, Receive, Locked
<1>5. ASSUME NEW a \in Actors, Pub(a) \/ PubCanceled(a) \/ LoopTakes(a) PROVE LoopKnows'
  BY <1>0, <1>5 DEF LoopKnows, Pub, PubCanceled, LoopTakes
<1>6. CASE UNCHANGED vars
  BY <1>0, <1>6 DEF LoopKnows, vars
<1> QED BY <1>1, <1>2, <1>3, <1>4, <1>5, <1>6 DEF Next, readLoop

\* A step that leaves the log and everything of c alone keeps what is known of c.
LEMMA Keep ==
    ASSUME NEW c \in Chans, InOrder(c), NoGaps(c), log' = log,
           start'[c] = start[c], got'[c] = got[c], buf'[c] = buf[c],
           c \in ltodo' <=> c \in ltodo, c \in out' <=> c \in out,
           c \in closed' <=> c \in closed, c \in draining' <=> c \in draining,
           canceled => canceled'
    PROVE  InOrder(c)' /\ NoGaps(c)'
<1>1. Offered(c)' = Offered(c)
  BY DEF Offered
<1>2. InOrder(c)'
  BY <1>1 DEF InOrder
<1>3. NoGaps(c)'
  BY <1>1 DEF NoGaps, In
<1> QED BY <1>2, <1>3

\* Sub and Unsub: who comes has missed nothing, who goes has nothing more to come
\* than what is in its channel.
LEMMA SubUnsubStep ==
    ASSUME IInv, NEW c \in Chans, NEW d \in Chans, Sub(d) \/ Unsub(d)
    PROVE  InOrder(c)' /\ NoGaps(c)'
<1>0. TypeOK /\ LoopKnows /\ InOrder(c) /\ NoGaps(c)
  BY DEF IInv
<1>1. ltodo = {} /\ ltodo' = {} /\ log' = log /\ canceled' = canceled /\ got' = got
  BY <1>0 DEF Sub, Unsub, Locked, LoopKnows
<1>2. CASE d # c
  BY <1>0, <1>1, <1>2, Keep DEF TypeOK, Sub, Unsub, Locked
<1>3. CASE d = c /\ Sub(d)
  <2>1. got'[c] = << >> /\ buf'[c] = << >> /\ start'[c] = Len(log) /\ c \in out'
    BY <1>0, <1>3 DEF Sub, NoGaps, TypeOK
  <2>2. Len(log) \in Nat
    BY <1>0 DEF TypeOK
  <2>3. Offered(c)' = Len(log)
    BY <1>1 DEF Offered
  <2> QED BY <1>1, <2>1, <2>2, <2>3 DEF InOrder, NoGaps
<1>4. CASE d = c /\ Unsub(d)
  <2>1. /\ got'[c] = got[c] /\ buf'[c] = buf[c] /\ start'[c] = start[c]
        /\ c \notin out' /\ c \in closed' /\ c \in draining'
    BY <1>0, <1>4 DEF Unsub, TypeOK
  <2>2. Offered(c)' = Offered(c)
    BY <1>1 DEF Offered
  <2> QED BY <1>0, <1>1, <2>1, <2>2 DEF InOrder, NoGaps
<1> QED BY <1>2, <1>3, <1>4

\* The drain of Unsub takes the head of the channel; when it is empty, nobody has
\* anything to receive from it any more.
LEMMA DrainStep ==
    ASSUME IInv, NEW c \in Chans, NEW d \in Chans, UnsubDrains(d) \/ UnsubReturns(d)
    PROVE  InOrder(c)' /\ NoGaps(c)'
<1>0. TypeOK /\ LoopKnows /\ InOrder(c) /\ NoGaps(c)
  BY DEF IInv
<1>1. CASE d # c
  BY <1>0, <1>1, Keep DEF TypeOK, UnsubDrains, UnsubReturns
<1>2. CASE d = c /\ UnsubReturns(d)
  <2>1. /\ buf[c] = << >> /\ c \notin out /\ c \in closed
        /\ UNCHANGED <<log, start, got, buf, ltodo, out, closed, canceled>>
    BY <1>0, <1>2 DEF TypeOK, UnsubReturns
  <2>2. Offered(c)' = Offered(c)
    BY <2>1 DEF Offered
  <2> QED BY <1>0, <2>1, <2>2 DEF InOrder, NoGaps
<1>3. CASE d = c /\ UnsubDrains(d)
  <2> DEFINE b == buf[c]
  <2>1. /\ b \in Seq(1 .. MaxPubs) /\ b # << >> /\ buf'[c] = Tail(b)
        /\ c \notin out /\ c \in closed /\ c \in draining
        /\ UNCHANGED <<log, start, got, ltodo, out, closed, draining, canceled>>
    BY <1>0, <1>3 DEF TypeOK, UnsubDrains
  <2>2. /\ Len(b) \in Nat /\ Len(b) >= 1 /\ DOMAIN b = 1 .. Len(b)
        /\ DOMAIN buf'[c] = 1 .. Len(b) - 1
        /\ \A i \in 1 .. Len(b) - 1 : buf'[c][i] = b[i + 1]
    BY <2>1, HeadTailProperties, LenProperties, EmptySeq
  <2>3. Offered(c)' = Offered(c)
    BY <2>1 DEF Offered
  <2>4. InOrder(c) /\ NoGaps(c) /\ b = buf[c]
    BY <1>0
  <2> HIDE DEF b
  <2>5. \A i \in DOMAIN buf'[c] : i + 1 \in DOMAIN b /\ buf'[c][i] = b[i + 1]
    BY <2>2
  <2>6. \A i, j \in DOMAIN buf'[c] : i < j => i + 1 < j + 1
    BY <2>2
  <2>7. InOrder(c)'
    <3>1. \A i \in DOMAIN buf'[c] : \E k \in start[c] + 1 .. Offered(c) : log[k] = buf'[c][i]
      BY <2>4, <2>5 DEF InOrder
    <3>2. \A i \in DOMAIN got[c], j \in DOMAIN buf'[c], k, n \in DOMAIN log :
            log[k] = got[c][i] /\ log[n] = buf'[c][j] => k < n
      BY <2>4, <2>5 DEF InOrder
    <3>3. \A i, j \in DOMAIN buf'[c], k, n \in DOMAIN log :
            log[k] = buf'[c][i] /\ log[n] = buf'[c][j] /\ i < j => k < n
      BY <2>4, <2>5, <2>6 DEF InOrder
    <3> QED BY <2>1, <2>3, <2>4, <3>1, <3>2, <3>3 DEF InOrder
  <2>8. NoGaps(c)'
    BY <2>1 DEF NoGaps
  <2> QED BY <2>7, <2>8
<1> QED BY <1>1, <1>2, <1>3

\* Receive moves the head of the channel behind what c has received.
LEMMA ReceiveStep ==
    ASSUME IInv, NEW c \in Chans, NEW d \in Chans, Receive(d)
    PROVE  InOrder(c)' /\ NoGaps(c)'
<1>0. TypeOK /\ LoopKnows /\ InOrder(c) /\ NoGaps(c)
  BY DEF IInv
<1>1. CASE d # c
  BY <1>0, <1>1, Keep DEF TypeOK, Receive
<1>2. CASE d = c
  <2> DEFINE b == buf[c]
             g == got[c]
  <2>1. /\ b \in Seq(1 .. MaxPubs) /\ g \in Seq(1 .. MaxPubs) /\ b # << >>
        /\ got'[c] = Append(g, Head(b)) /\ buf'[c] = Tail(b)
        /\ UNCHANGED <<log, start, ltodo, out, closed, draining, canceled>>
    BY <1>0, <1>2 DEF TypeOK, Receive
  <2>2. /\ Len(b) \in Nat /\ Len(b) >= 1 /\ DOMAIN b = 1 .. Len(b) /\ Head(b) = b[1]
        /\ DOMAIN buf'[c] = 1 .. Len(b) - 1
        /\ \A i \in 1 .. Len(b) - 1 : buf'[c][i] = b[i + 1]
    BY <2>1, HeadTailProperties, LenProperties, EmptySeq
  <2>3. Head(b) \in 1 .. MaxPubs
    BY <2>1, HeadTailProperties
  <2>4. /\ Len(g) \in Nat /\ DOMAIN g = 1 .. Len(g) /\ DOMAIN got'[c] = 1 .. Len(g) + 1
        /\ \A i \in 1 .. Len(g) : got'[c][i] = g[i]
        /\ got'[c][Len(g) + 1] = b[1]
    BY <2>1, <2>2, <2>3, AppendProperties, LenProperties
  <2>5. Offered(c)' = Offered(c)
    BY <2>1 DEF Offered
  <2>6. InOrder(c) /\ NoGaps(c) /\ b = buf[c] /\ g = got[c]
    BY <1>0
  <2> HIDE DEF b, g
  <2>7. InOrder(c)'
    <3>1. \A i \in DOMAIN got'[c] : \E k \in start[c] + 1 .. Offered(c) : log[k] = got'[c][i]
      <4>1. \A i \in DOMAIN g : \E k \in start[c] + 1 .. Offered(c) : log[k] = g[i]
        BY <2>6 DEF InOrder
      <4>2. 1 \in DOMAIN b /\ \E k \in start[c] + 1 .. Offered(c) : log[k] = b[1]
        BY <2>2, <2>6 DEF InOrder
      <4>3. \A i \in DOMAIN got'[c] : i \in DOMAIN g \/ i = Len(g) + 1
        BY <2>4
      <4> QED BY <2>4, <4>1, <4>2, <4>3
    <3>2. \A i \in DOMAIN buf'[c] : \E k \in start[c] + 1 .. Offered(c) : log[k] = buf'[c][i]
      BY <2>2, <2>6 DEF InOrder
    <3>3. ASSUME NEW i \in DOMAIN got'[c], NEW j \in DOMAIN buf'[c],
                 NEW k \in DOMAIN log, NEW n \in DOMAIN log,
                 log[k] = got'[c][i], log[n] = buf'[c][j]
          PROVE  k < n
      <4>1. j + 1 \in DOMAIN b /\ log[n] = b[j + 1] /\ 1 \in DOMAIN b /\ 1 < j + 1
        BY <2>2, <3>3
      <4>2. CASE i = Len(g) + 1
        BY <2>4, <2>6, <3>3, <4>1, <4>2 DEF InOrder
      <4>3. CASE i \in DOMAIN g
        BY <2>4, <2>6, <3>3, <4>1, <4>3 DEF InOrder
      <4> QED BY <2>4, <4>2, <4>3
    <3>4. \A i, j \in DOMAIN buf'[c], k, n \in DOMAIN log :
            log[k] = buf'[c][i] /\ log[n] = buf'[c][j] /\ i < j => k < n
      <4>1. ASSUME NEW i \in DOMAIN buf'[c], NEW j \in DOMAIN buf'[c],
                   NEW k \in DOMAIN log, NEW n \in DOMAIN log,
                   log[k] = buf'[c][i], log[n] = buf'[c][j], i < j
            PROVE  k < n
        <5>1. i + 1 \in DOMAIN b /\ j + 1 \in DOMAIN b /\ i + 1 < j + 1
          BY <2>2, <4>1
        <5>2. log[k] = b[i + 1] /\ log[n] = b[j + 1]
          BY <2>2, <4>1
        <5> QED BY <2>6, <5>1, <5>2 DEF InOrder
      <4> QED BY <4>1
    <3>5. start[c] <= Len(log) /\ (c \in ltodo => start[c] < Len(log))
      BY <2>6 DEF InOrder
    <3>6. \A i \in DOMAIN got'[c], j \in DOMAIN buf'[c], k, n \in DOMAIN log :
            log[k] = got'[c][i] /\ log[n] = buf'[c][j] => k < n
      BY <3>3
    <3>7. start' = start /\ log' = log /\ ltodo' = ltodo
      BY <2>1
    <3> QED BY <2>5, <3>1, <3>2, <3>4, <3>5, <3>6, <3>7, Zenon DEF InOrder
  <2>8. NoGaps(c)'
    <3>1. \A m : In(m, g) \/ In(m, b) => In(m, got'[c]) \/ In(m, buf'[c])
      <4>1. ASSUME NEW i \in DOMAIN b PROVE In(b[i], got'[c]) \/ In(b[i], buf'[c])
        <5>1. CASE i = 1
          BY <2>4, <5>1 DEF In
        <5>2. CASE i # 1
          <6>1. i - 1 \in 1 .. Len(b) - 1 /\ (i - 1) + 1 = i
            BY <2>2, <5>2
          <6>2. buf'[c][i - 1] = b[i]
            BY <2>2, <6>1
          <6> QED BY <2>2, <6>1, <6>2 DEF In
        <5> QED BY <5>1, <5>2
      <4>2. ASSUME NEW i \in DOMAIN g PROVE In(g[i], got'[c])
        BY <2>4 DEF In
      <4> QED BY <4>1, <4>2 DEF In
    <3>2. c \in out \cup closed
      BY <2>1, <2>6 DEF NoGaps
    <3>3. canceled \/ c \in out \cup draining
      BY <2>1, <2>6 DEF NoGaps
    <3> QED BY <2>1, <2>5, <2>6, <3>1, <3>2, <3>3 DEF NoGaps
  <2> QED BY <2>7, <2>8
<1> QED BY <1>1, <1>2

\* readLoop takes the next message in its hand: the log grows by one that nobody has.
LEMMA LocksStep ==
    ASSUME IInv, NEW c \in Chans, LoopLocks
    PROVE  InOrder(c)' /\ NoGaps(c)'
<1>0. TypeOK /\ LoopKnows /\ MessagesAreUnique /\ InOrder(c) /\ NoGaps(c)
  BY DEF IInv
<1>1. /\ ltodo = {} /\ ltodo' = out /\ log' = Append(log, lmsg)
      /\ UNCHANGED <<start, got, buf, out, closed, draining, canceled>>
      /\ ~ In(lmsg, log) /\ lmsg \in 1 .. MaxPubs
  BY <1>0 DEF LoopLocks, LoopKnows, MessagesAreUnique, TypeOK
<1>2. log \in Seq(1 .. MaxPubs) /\ start[c] \in Nat
  BY <1>0 DEF TypeOK
<1>3. /\ Len(log) \in Nat /\ DOMAIN log = 1 .. Len(log)
      /\ Len(log') = Len(log) + 1 /\ DOMAIN log' = 1 .. Len(log) + 1
      /\ \A i \in 1 .. Len(log) : log'[i] = log[i]
      /\ log'[Len(log) + 1] = lmsg
  BY <1>1, <1>2, AppendProperties, LenProperties
<1>4. Offered(c) = Len(log) /\ start[c] <= Len(log)
  BY <1>0, <1>1 DEF Offered, InOrder
<1>5. /\ c \in ltodo' => Offered(c)' = Len(log)
      /\ c \notin ltodo' => Offered(c)' = Len(log) + 1
  <2>1. Offered(c)' = IF c \in ltodo' THEN Len(log') - 1 ELSE Len(log')
    BY DEF Offered
  <2>2. Len(log') = Len(log) + 1 /\ Len(log) \in Nat /\ Len(log') - 1 = Len(log)
    BY <1>3
  <2> QED BY <2>1, <2>2
<1>6. /\ \A i \in DOMAIN got[c] : \E k \in start[c] + 1 .. Len(log) : log[k] = got[c][i]
      /\ \A i \in DOMAIN buf[c] : \E k \in start[c] + 1 .. Len(log) : log[k] = buf[c][i]
  BY <1>0, <1>4 DEF InOrder
<1>7. /\ \A i \in DOMAIN got[c] : got[c][i] # lmsg
      /\ \A i \in DOMAIN buf[c] : buf[c][i] # lmsg
  BY <1>1, <1>2, <1>3, <1>6 DEF In
<1>8. InOrder(c)'
  <2>1. /\ \A i \in DOMAIN got[c] : \E k \in start[c] + 1 .. Offered(c)' : log'[k] = got[c][i]
        /\ \A i \in DOMAIN buf[c] : \E k \in start[c] + 1 .. Offered(c)' : log'[k] = buf[c][i]
    BY <1>2, <1>3, <1>5, <1>6
  <2>2. ASSUME NEW k \in DOMAIN log',
               \/ \E i \in DOMAIN got[c] : log'[k] = got[c][i]
               \/ \E i \in DOMAIN buf[c] : log'[k] = buf[c][i]
        PROVE  k \in DOMAIN log /\ log[k] = log'[k]
    <3>1. k # Len(log) + 1
      BY <1>3, <1>7, <2>2
    <3> QED BY <1>3, <3>1
  <2>3. \A i \in DOMAIN got[c], j \in DOMAIN buf[c], k, n \in DOMAIN log' :
          log'[k] = got[c][i] /\ log'[n] = buf[c][j] => k < n
    BY <1>0, <2>2 DEF InOrder
  <2>4. \A i, j \in DOMAIN buf[c], k, n \in DOMAIN log' :
          log'[k] = buf[c][i] /\ log'[n] = buf[c][j] /\ i < j => k < n
    BY <1>0, <2>2 DEF InOrder
  <2>5. start[c] <= Len(log') /\ start[c] < Len(log')
    BY <1>2, <1>3, <1>4
  <2>6. start' = start /\ got' = got /\ buf' = buf
    BY <1>1
  <2> QED BY <2>1, <2>3, <2>4, <2>5, <2>6 DEF InOrder
<1>9. NoGaps(c)'
  <2>1. ASSUME ~ canceled, c \in out, NEW k \in start[c] + 1 .. Offered(c)'
        PROVE  In(log'[k], got[c]) \/ In(log'[k], buf[c])
    <3>1. k \in start[c] + 1 .. Offered(c) /\ k \in 1 .. Len(log)
      BY <1>1, <1>2, <1>3, <1>4, <1>5, <2>1
    <3>2. In(log[k], got[c]) \/ In(log[k], buf[c])
      BY <1>0, <2>1, <3>1 DEF NoGaps
    <3> QED BY <1>3, <3>1, <3>2
  <2> QED BY <1>0, <1>1, <2>1 DEF NoGaps
<1> QED BY <1>8, <1>9

\* readLoop sends to c, or skips it because the context is done.
LEMMA DeliversStep ==
    ASSUME IInv, NEW c \in Chans, NEW d \in Chans, LoopDelivers(d) \/ LoopSkips(d)
    PROVE  InOrder(c)' /\ NoGaps(c)'
<1>0. TypeOK /\ LoopKnows /\ MessagesAreUnique /\ InOrder(c) /\ NoGaps(c)
  BY DEF IInv
<1>1. CASE d # c
  BY <1>0, <1>1, Keep DEF TypeOK, LoopDelivers, LoopSkips
<1> SUFFICES ASSUME d = c PROVE InOrder(c)' /\ NoGaps(c)'
  BY <1>1
<1>2. /\ c \in ltodo /\ c \notin ltodo' /\ c \in out
      /\ UNCHANGED <<log, start, got, out, closed, canceled>>
      /\ log # << >> /\ log[Len(log)] = lmsg
  BY <1>0 DEF LoopDelivers, LoopSkips, LoopKnows
<1>3. /\ log \in Seq(1 .. MaxPubs) /\ start[c] \in Nat /\ buf[c] \in Seq(1 .. MaxPubs)
      /\ got[c] \in Seq(1 .. MaxPubs)
  BY <1>0 DEF TypeOK
<1>4. /\ Len(log) \in Nat /\ Len(log) >= 1 /\ DOMAIN log = 1 .. Len(log)
      /\ lmsg \in 1 .. MaxPubs
  <2>1. Len(log) \in Nat \ {0} /\ DOMAIN log = 1 .. Len(log)
    BY <1>2, <1>3, EmptySeq, LenProperties
  <2>2. Len(log) \in DOMAIN log
    BY <2>1
  <2>3. log[Len(log)] \in 1 .. MaxPubs
    BY <1>3, <2>1, <2>2, LenProperties
  <2> QED BY <1>2, <2>1, <2>3
<1>5. Offered(c) = Len(log) - 1 /\ Offered(c)' = Len(log) /\ start[c] < Len(log)
  BY <1>0, <1>2 DEF Offered, InOrder
<1>6. /\ \A i \in DOMAIN got[c] : \E k \in start[c] + 1 .. Len(log) - 1 : log[k] = got[c][i]
      /\ \A i \in DOMAIN buf[c] : \E k \in start[c] + 1 .. Len(log) - 1 : log[k] = buf[c][i]
  BY <1>0, <1>5 DEF InOrder
<1>7. /\ \A i \in DOMAIN got[c] : \E k \in start[c] + 1 .. Len(log) : log[k] = got[c][i]
      /\ \A i \in DOMAIN buf[c] : \E k \in start[c] + 1 .. Len(log) : log[k] = buf[c][i]
  BY <1>3, <1>4, <1>6
<1>8. CASE LoopSkips(c)
  <2>1. canceled /\ buf' = buf
    BY <1>8 DEF LoopSkips
  <2> QED BY <1>0, <1>2, <1>3, <1>4, <1>5, <1>7, <2>1 DEF InOrder, NoGaps
<1>9. CASE LoopDelivers(c)
  <2> DEFINE b == buf[c]
  <2>1. buf'[c] = Append(b, lmsg) /\ b \in Seq(1 .. MaxPubs)
    BY <1>0, <1>9 DEF LoopDelivers, TypeOK
  <2>2. /\ Len(b) \in Nat /\ DOMAIN b = 1 .. Len(b) /\ DOMAIN buf'[c] = 1 .. Len(b) + 1
        /\ \A i \in 1 .. Len(b) : buf'[c][i] = b[i]
        /\ buf'[c][Len(b) + 1] = lmsg
    BY <1>4, <2>1, AppendProperties, LenProperties
  <2>3. /\ \A k \in DOMAIN log : log[k] = lmsg => k = Len(log)
        /\ \A i \in DOMAIN got[c], k \in DOMAIN log : log[k] = got[c][i] => k < Len(log)
        /\ \A i \in DOMAIN b, k \in DOMAIN log : log[k] = b[i] => k < Len(log)
    <3>1. \A j, k \in DOMAIN log : log[j] = log[k] => j = k
      BY <1>0 DEF MessagesAreUnique
    <3>2. \A k \in DOMAIN log : log[k] = lmsg => k = Len(log)
      BY <1>2, <1>4, <3>1
    <3>3. \A k \in start[c] + 1 .. Len(log) - 1 : k \in DOMAIN log /\ k < Len(log)
      BY <1>3, <1>4
    <3> QED BY <1>6, <3>1, <3>2, <3>3
  <2>4. b = buf[c]
    OBVIOUS
  <2> HIDE DEF b
  <2>5. InOrder(c)'
    <3>1. \A i \in DOMAIN buf'[c] : \E k \in start[c] + 1 .. Len(log) : log[k] = buf'[c][i]
      <4>1. Len(log) \in start[c] + 1 .. Len(log)
        BY <1>3, <1>4, <1>5
      <4>2. \A i \in DOMAIN buf'[c] : i \in DOMAIN b \/ i = Len(b) + 1
        BY <2>2
      <4> QED BY <1>2, <1>7, <2>2, <2>4, <4>1, <4>2
    <3>2. ASSUME NEW i \in DOMAIN got[c], NEW j \in DOMAIN buf'[c],
                 NEW k \in DOMAIN log, NEW n \in DOMAIN log,
                 log[k] = got[c][i], log[n] = buf'[c][j]
          PROVE  k < n
      <4>1. CASE j = Len(b) + 1
        BY <2>2, <2>3, <3>2, <4>1
      <4>2. CASE j \in DOMAIN b
        BY <1>0, <2>2, <2>4, <3>2, <4>2 DEF InOrder
      <4> QED BY <2>2, <4>1, <4>2
    <3>3. ASSUME NEW i \in DOMAIN buf'[c], NEW j \in DOMAIN buf'[c],
                 NEW k \in DOMAIN log, NEW n \in DOMAIN log,
                 log[k] = buf'[c][i], log[n] = buf'[c][j], i < j
          PROVE  k < n
      <4>1. i \in DOMAIN b /\ log[k] = b[i]
        BY <2>2, <3>3
      <4>2. CASE j = Len(b) + 1
        BY <2>2, <2>3, <3>3, <4>1, <4>2
      <4>3. CASE j \in DOMAIN b
        BY <1>0, <2>2, <2>4, <3>3, <4>1, <4>3 DEF InOrder
      <4> QED BY <2>2, <4>2, <4>3
    <3>4. start[c] <= Len(log)
      BY <1>3, <1>4, <1>5
    <3> QED BY <1>2, <1>5, <1>7, <3>1, <3>2, <3>3, <3>4 DEF InOrder
  <2>6. NoGaps(c)'
    <3>1. \A m : In(m, b) \/ m = lmsg => In(m, buf'[c])
      <4>1. \A m : In(m, Append(b, lmsg)) <=> In(m, b) \/ m = lmsg
        BY <1>4, <2>1, InAppend
      <4> QED BY <2>1, <4>1
    <3>2. ASSUME ~ canceled, NEW k \in start[c] + 1 .. Len(log)
          PROVE  In(log[k], got[c]) \/ In(log[k], buf'[c])
      <4>1. CASE k = Len(log)
        BY <1>2, <3>1, <4>1
      <4>2. CASE k # Len(log)
        <5>1. k \in start[c] + 1 .. Len(log) - 1
          <6>1. start[c] \in Nat /\ Len(log) \in Nat
            BY <1>3, <1>4
          <6> QED BY <3>2, <4>2, <6>1
        <5> QED BY <1>0, <1>2, <1>5, <2>4, <3>1, <3>2, <5>1 DEF NoGaps
      <4> QED BY <4>1, <4>2
    <3> QED BY <1>2, <1>5, <3>2 DEF NoGaps
  <2> QED BY <2>5, <2>6
<1> QED BY <1>8, <1>9

\* Every step keeps the order in which a subscriber receives, and leaves no gap.
LEMMA ChanStep ==
    ASSUME IInv, [Next]_vars, NEW c \in Chans
    PROVE  InOrder(c)' /\ NoGaps(c)'
<1>0. TypeOK /\ LoopKnows /\ InOrder(c) /\ NoGaps(c)
  BY DEF IInv
<1>1. ASSUME NEW a \in Actors, Pub(a) \/ PubCanceled(a) \/ LoopTakes(a)
      PROVE  InOrder(c)' /\ NoGaps(c)'
  BY <1>0, <1>1, Keep DEF Pub, PubCanceled, LoopTakes
<1>2. CASE LoopUnlocks \/ LoopCanceled \/ Cancel \/ UNCHANGED vars
  BY <1>0, <1>2, Keep DEF LoopUnlocks, LoopCanceled, Cancel, vars
<1>3. CASE LoopStops
  <2>1. /\ canceled /\ ltodo = {} /\ ltodo' = {} /\ c \notin out'
        /\ c \in out \cup closed => c \in closed'
        /\ UNCHANGED <<log, start, got, buf, canceled>>
    BY <1>0, <1>3 DEF LoopStops, LoopKnows
  <2>2. Offered(c)' = Offered(c)
    BY <2>1 DEF Offered
  <2> QED BY <1>0, <2>1, <2>2 DEF InOrder, NoGaps
<1> QED BY <1>1, <1>2, <1>3, SubUnsubStep, DrainStep, ReceiveStep, LocksStep,
           DeliversStep DEF Next, readLoop

\* The invariant is inductive.
THEOREM Invariance == Spec => []IInv
<1>1. IInv /\ [Next]_vars => IInv'
  BY TypeStep, UniqueStep, LoopStep, ChanStep DEF IInv
<1> QED BY InitIInv, <1>1, PTL DEF Spec

-----------------------------------------------------------------------------
(* The refinement.                                                         *)

\* The head of c's channel is a message that the contract lets c receive next.
LEMMA HeadIsNext ==
    ASSUME IInv, NEW c \in Chans, buf[c] # << >>
    PROVE  /\ c \in out \cup draining \/ canceled
           /\ \E k \in Contract!NextFor(c) : log[k] = Head(buf[c])
<1>0. TypeOK /\ MessagesAreUnique /\ LoopKnows /\ InOrder(c) /\ NoGaps(c)
  BY DEF IInv
<1>1. /\ log \in Seq(1 .. MaxPubs) /\ buf[c] \in Seq(1 .. MaxPubs) /\ start[c] \in Nat
  BY <1>0 DEF TypeOK
<1>2. /\ Len(log) \in Nat /\ DOMAIN log = 1 .. Len(log) /\ DOMAIN buf[c] = 1 .. Len(buf[c])
      /\ Len(buf[c]) \in Nat \ {0}
  BY <1>1, LenProperties, EmptySeq
<1>3. 1 \in DOMAIN buf[c] /\ Head(buf[c]) = buf[c][1]
  BY <1>1, <1>2
<1>4. Offered(c) \in Int /\ Offered(c) <= Len(log)
  BY <1>2 DEF Offered
<1>5. PICK k \in start[c] + 1 .. Offered(c) : log[k] = buf[c][1]
  BY <1>0, <1>3 DEF InOrder
<1>6. k \in DOMAIN log /\ start[c] < k /\ k \in Int
  BY <1>1, <1>2, <1>4
<1>7. c \in out \cup draining \/ canceled
  BY <1>0 DEF NoGaps
<1> DEFINE done == {d \in DOMAIN log : \/ d <= start[c]
                                       \/ \E i \in DOMAIN got[c] : got[c][i] = log[d]}
           left == {d \in DOMAIN log : \A e \in done : e < d}
<1>8. k \in left
  <2>1. ASSUME NEW d \in done PROVE d < k
    <3>1. d \in DOMAIN log /\ d \in Int
      BY <1>2
    <3>2. CASE d <= start[c]
      BY <1>1, <1>6, <3>1, <3>2
    <3>3. CASE \E i \in DOMAIN got[c] : got[c][i] = log[d]
      BY <1>0, <1>3, <1>5, <1>6, <3>1, <3>3 DEF InOrder
    <3> QED BY <3>2, <3>3
  <2> QED BY <1>6, <2>1
<1>9. ASSUME ~ canceled, c \notin draining, NEW j \in left PROVE k <= j
  <2>1. j \in DOMAIN log /\ j \in Int /\ j \notin done
    BY <1>2
  <2>2. SUFFICES ASSUME j < k PROVE FALSE
    BY <1>6, <2>1
  <2>3. j \in start[c] + 1 .. Offered(c) /\ ~ In(log[j], got[c])
    <3>1. ~ (j <= start[c]) /\ \A i \in DOMAIN got[c] : got[c][i] # log[j]
      BY <2>1
    <3>2. j \in start[c] + 1 .. Offered(c)
      BY <1>1, <1>4, <1>5, <1>6, <2>1, <2>2, <3>1
    <3> QED BY <3>1, <3>2 DEF In
  <2> HIDE DEF left, done
  <2>4. PICK i \in DOMAIN buf[c] : buf[c][i] = log[j]
    BY <1>0, <1>7, <1>9, <2>3 DEF NoGaps, In
  <2>5. CASE i = 1
    BY <1>0, <1>5, <1>6, <2>1, <2>2, <2>4, <2>5 DEF MessagesAreUnique
  <2>6. CASE i # 1
    <3>1. 1 < i
      BY <1>2, <2>6
    <3>2. k < j
      BY <1>0, <1>3, <1>5, <1>6, <2>1, <2>4, <3>1 DEF InOrder
    <3> QED BY <1>6, <2>1, <2>2, <3>2
  <2> QED BY <2>5, <2>6
<1>10. Contract!NextFor(c) = {d \in left : \/ canceled \/ c \in draining
                                             \/ \A j \in left : d <= j}
  BY DEF Contract!NextFor
<1>11. k \in Contract!NextFor(c)
  <2> HIDE DEF left, done
  <2> QED BY <1>8, <1>9, <1>10
<1> QED BY <1>3, <1>5, <1>7, <1>11

\* Every step of the notifier is a step of the contract, or changes nothing of it.
LEMMA ContractStep ==
    ASSUME IInv, [Next]_vars
    PROVE  [Contract!Next]_<<log, out, draining, start, got, canceled>>
<1>0. TypeOK /\ LoopKnows
  BY DEF IInv
<1> USE DEF Contract!Next
<1>1. CASE LoopLocks
  <2>1. lmsg \in 1 .. MaxPubs
    BY <1>0, <1>1 DEF IInv, MessagesAreUnique, LoopLocks, TypeOK
  <2>2. Contract!Publish(lmsg)
    BY <1>1 DEF LoopLocks, Locked, Contract!Publish
  <2> QED BY <2>1, <2>2
<1>2. ASSUME NEW c \in Chans, Sub(c) PROVE Contract!Next
  <2>1. got[c] = << >>
    BY <1>2 DEF IInv, NoGaps, Sub
  <2>2. Contract!Join(c)
    BY <1>2, <2>1 DEF Sub, Contract!Join
  <2> QED BY <2>2
<1>3. ASSUME NEW c \in Chans, Unsub(c) \/ UnsubReturns(c) PROVE Contract!Next
  <2>1. CASE Unsub(c)
    <3>1. Contract!Leave({c}, {c})
      BY <2>1 DEF Unsub, Locked, Contract!Leave
    <3>2. {c} \in SUBSET Chans
      OBVIOUS
    <3> QED BY <3>1, <3>2
  <2>2. CASE UnsubReturns(c)
    BY <2>2 DEF UnsubReturns, Contract!HasLeft
  <2> QED BY <1>3, <2>1, <2>2
<1>4. ASSUME NEW c \in Chans, Receive(c) PROVE Contract!Next
  <2>1. /\ buf[c] # << >> /\ got' = [got EXCEPT ![c] = Append(@, Head(buf[c]))]
        /\ UNCHANGED <<log, out, draining, start, canceled>>
    BY <1>4 DEF Receive
  <2>2. PICK k \in Contract!NextFor(c) : log[k] = Head(buf[c])
    BY <2>1, HeadIsNext
  <2>3. c \in out \cup draining \/ canceled
    BY <2>1, HeadIsNext
  <2>4. got' = [got EXCEPT ![c] = Append(@, log[k])]
    BY <2>1, <2>2
  <2>5. Contract!Deliver(c)
    BY <2>1, <2>3, <2>4 DEF Contract!Deliver
  <2> QED BY <2>5
<1>5. CASE LoopStops
  <2>1. Contract!Leave(out, {})
    BY <1>5 DEF LoopStops, Contract!Leave
  <2>2. out \in SUBSET Chans /\ {} \in SUBSET Chans
    BY <1>0 DEF TypeOK
  <2> QED BY <2>1, <2>2
<1>6. CASE Cancel
  BY <1>6 DEF Cancel, Contract!Stop
<1>7. ASSUME NEW a \in Actors, Pub(a) \/ PubCanceled(a) \/ LoopTakes(a)
      PROVE  UNCHANGED <<log, out, draining, start, got, canceled>>
  BY <1>7 DEF Pub, PubCanceled, LoopTakes
<1>8. ASSUME NEW c \in Chans, LoopDelivers(c) \/ LoopSkips(c) \/ UnsubDrains(c)
      PROVE  UNCHANGED <<log, out, draining, start, got, canceled>>
  BY <1>8 DEF LoopDelivers, LoopSkips, UnsubDrains
<1>9. CASE LoopUnlocks \/ LoopCanceled \/ UNCHANGED vars
  BY <1>9 DEF LoopUnlocks, LoopCanceled, vars
<1> HIDE DEF Contract!Next
<1> QED BY <1>1, <1>2, <1>3, <1>4, <1>5, <1>6, <1>7, <1>8, <1>9 DEF Next, readLoop

\* The notifier keeps its promise: every subscriber receives the messages that
\* readLoop takes after Sub, once, in their order and without a gap, until it calls
\* Unsub or the context is done (pubsub.go:44-45), whatever the capacity of the
\* channels and whoever is slow, publishes from its own loop, or leaves; while Unsub
\* drains its channel, and after the stop, in their order and once; after Unsub,
\* nothing.
THEOREM NotifierBroadcasts == Spec => ImplementsBroadcast
<1>1. Init => Contract!Init
  BY DEF Init, Contract!Init
<1>2. IInv /\ [Next]_vars => [Contract!Next]_<<log, out, draining, start, got, canceled>>
  BY ContractStep
<1> QED BY <1>1, <1>2, Invariance, PTL DEF Spec, ImplementsBroadcast, Contract!Spec
=============================================================================
