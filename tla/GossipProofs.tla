---------------------------- MODULE GossipProofs ---------------------------
(***************************************************************************)
(* Proofs about the Hops of a message (Gossip), for any number of nodes,   *)
(* any limits and any choice of active peers: the argument uses nothing of *)
(* the ring algorithm.                                                     *)
(***************************************************************************)
EXTENDS Gossip, SequenceTheorems, TLAPS

-----------------------------------------------------------------------------
(* The inductive invariant.                                                *)

\* The part of the types that the journeys depend on.
HopsType ==
    /\ hops \in [Nodes -> Seq(Nodes) \cup {NoHops}]
    /\ has \in SUBSET Nodes
    /\ queue = [u \in Nodes |-> queue[u]]
    /\ origin \in Nodes
    /\ MaxHops \in [Nodes -> Nat]

\* The message starts at its origin, with no hops, and stays there; who has all
\* of it has stored its Hops.
Holders ==
    /\ origin \in has
    /\ hops[origin] = << >>
    /\ \A n \in has : hops[n] # NoHops

\* What a node has queued, it may still send, or other Hops than the stored ones
\* were checked.
MayOffer ==
    \A u \in has : queue[u] # {} =>
        u \in resumed \/ MaxHops[u] = 0 \/ Len(hops[u]) < MaxHops[u]

IInv == HopsType /\ Holders /\ MayOffer /\ HopsAreAJourney

-----------------------------------------------------------------------------
(* The lemmas.                                                             *)

\* A prefix of a sequence is a prefix of the longer sequence, too.
LEMMA PrefixOfAppend ==
    ASSUME NEW S, NEW s \in Seq(S), NEW e \in S, NEW k \in 0 .. Len(s)
    PROVE  SubSeq(Append(s, e), 1, k) = SubSeq(s, 1, k)
<1>1. CASE k = 0
  BY <1>1, SubSeqEmpty
<1>2. CASE k # 0
  <2>1. Append(s, e) = s \o <<e>> /\ <<e>> \in Seq(S)
    OBVIOUS
  <2>2. 1 \in 1 .. Len(s) /\ k \in 1 .. Len(s)
    BY <1>2
  <2> QED BY <2>1, <2>2, SubSeqOfConcat1
<1> QED BY <1>1, <1>2

\* What a transfer, interrupted or not, does to the Hops.
Transfer(n, p) ==
    /\ Queued(n, p)
    /\ ~ Refused(n, p)
    /\ hops' = [hops EXCEPT ![p] = HopsStored(n, p)]
    /\ has \subseteq has'
    /\ resumed \subseteq resumed'
    /\ origin' = origin
    /\ MaxHops' = MaxHops

\* A journey stays one as long as the Hops of the nodes on it do.
LEMMA JourneyStays ==
    ASSUME HopsType, NEW m \in Nodes, hops[m] # NoHops, Journey(m),
           has \subseteq has', resumed \subseteq resumed',
           origin' = origin, MaxHops' = MaxHops, hops'[m] = hops[m],
           \A u \in has : hops'[u] = hops[u]
    PROVE  Journey(m)'
<1>1. hops[m] \in Seq(Nodes)
  BY DEF HopsType
<1>2. ASSUME NEW i \in DOMAIN hops[m]
      PROVE  /\ hops[m][i] # m
             /\ hops[m][i] \in has'
             /\ hops'[hops[m][i]] = SubSeq(hops[m], 1, i - 1)
             /\ WithinLimit(hops[m][i], i)'
  BY <1>1, <1>2 DEF Journey, WithinLimit, TooMany
<1> QED BY <1>2 DEF Journey, TooMany

\* A transfer extends the journey of the sender by one hop, unless the receiver
\* has stored Hops already, and leaves the others.
LEMMA TransferExtends ==
    ASSUME IInv, NEW n \in Nodes, NEW p \in Nodes, Transfer(n, p)
    PROVE  HopsAreAJourney'
<1> USE GossipAssumption
<1>1. /\ hops \in [Nodes -> Seq(Nodes) \cup {NoHops}]
      /\ MaxHops \in [Nodes -> Nat] /\ MaxHops' = MaxHops
      /\ origin \in Nodes /\ origin' = origin
      /\ has \in SUBSET Nodes /\ has \subseteq has' /\ resumed \subseteq resumed'
  BY DEF IInv, HopsType, Transfer
<1>2. /\ hops[n] \in Seq(Nodes) /\ n \in has /\ p \notin has /\ n # p /\ p # origin
      /\ Len(hops[n]) \in Nat /\ DOMAIN hops[n] = 1 .. Len(hops[n])
  <2>1. n \in has /\ p \notin has
    BY DEF Transfer, Queued
  <2>2. hops[n] \in Seq(Nodes) /\ p # origin
    BY <1>1, <2>1 DEF IInv, Holders
  <2>3. Len(hops[n]) \in Nat /\ DOMAIN hops[n] = 1 .. Len(hops[n])
    BY <2>2, LenProperties
  <2> QED BY <2>1, <2>2, <2>3
<1>3. \A u \in has : hops'[u] = hops[u]
  BY <1>1, <1>2 DEF Transfer
<1>4. ASSUME NEW m \in Nodes, hops[m] # NoHops, hops'[m] = hops[m]
      PROVE  Journey(m)'
  <2>1. HopsType /\ Journey(m)
    BY <1>4 DEF IInv, HopsAreAJourney
  <2> QED BY <1>1, <1>3, <1>4, <2>1, JourneyStays
<1>5. CASE hops[p] # NoHops
  <2>1. hops' = hops
    BY <1>1, <1>5 DEF Transfer, HopsStored
  <2> QED BY <1>4, <2>1 DEF HopsAreAJourney
<1>6. CASE hops[p] = NoHops
  <2>0. PICK h \in Seq(Nodes) : h = Append(hops[n], n)
    BY <1>2, AppendProperties
  <2>1. /\ hops' = [hops EXCEPT ![p] = h]
        /\ h = Append(hops[n], n)
        /\ h \in Seq(Nodes)
        /\ Len(h) = Len(hops[n]) + 1
        /\ DOMAIN h = 1 .. Len(hops[n]) + 1
        /\ \A i \in 1 .. Len(hops[n]) : h[i] = hops[n][i]
        /\ h[Len(hops[n]) + 1] = n
    <3>1. hops' = [hops EXCEPT ![p] = h]
      BY <1>6, <2>0 DEF Transfer, HopsStored, SentHops
    <3>2. /\ Len(h) = Len(hops[n]) + 1
          /\ \A i \in 1 .. Len(hops[n]) : h[i] = hops[n][i]
          /\ h[Len(hops[n]) + 1] = n
      BY <1>2, <2>0, AppendProperties
    <3>3. DOMAIN h = 1 .. Len(h)
      BY LenProperties
    <3> QED BY <2>0, <3>1, <3>2, <3>3
  <2>2. hops'[p] = h
    BY <1>1, <2>1
  <2>j. Journey(n)
    BY <1>2 DEF IInv, Holders, HopsAreAJourney
  <2>3. ASSUME NEW i \in DOMAIN h, NEW j \in DOMAIN h, i # j PROVE h[i] # h[j]
    <3>1. ASSUME NEW k \in 1 .. Len(hops[n]) PROVE h[k] = hops[n][k] /\ h[k] # n
      BY <1>2, <2>1, <2>j, <3>1 DEF Journey
    <3>2. CASE i \in 1 .. Len(hops[n]) /\ j \in 1 .. Len(hops[n])
      BY <1>2, <2>3, <2>j, <3>1, <3>2 DEF Journey
    <3>3. CASE i = Len(hops[n]) + 1 \/ j = Len(hops[n]) + 1
      BY <1>2, <2>1, <2>3, <3>1, <3>3
    <3> QED BY <1>2, <2>1, <3>2, <3>3
  <2>4. ASSUME NEW i \in 1 .. Len(hops[n])
        PROVE  /\ h[i] # p /\ h[i] \in has'
               /\ hops'[h[i]] = SubSeq(h, 1, i - 1)
               /\ WithinLimit(h[i], i)'
    <3>1. /\ h[i] = hops[n][i] /\ h[i] \in has
          /\ hops[h[i]] = SubSeq(hops[n], 1, i - 1)
          /\ WithinLimit(h[i], i)
      <4>1. i \in DOMAIN hops[n] /\ h[i] = hops[n][i]
        BY <1>2, <2>1, <2>4
      <4> QED BY <2>j, <4>1 DEF Journey
    <3>2. i - 1 \in 0 .. Len(hops[n])
      BY <1>2
    <3>3. SubSeq(h, 1, i - 1) = SubSeq(hops[n], 1, i - 1)
      BY <1>2, <2>1, <3>2, PrefixOfAppend
    <3>4. WithinLimit(h[i], i)'
      BY <1>1, <3>1 DEF WithinLimit, TooMany
    <3> QED BY <1>1, <1>2, <1>3, <3>1, <3>3, <3>4
  <2>5. ASSUME NEW i, i = Len(hops[n]) + 1
        PROVE  /\ h[i] # p /\ h[i] \in has'
               /\ hops'[h[i]] = SubSeq(h, 1, i - 1)
               /\ WithinLimit(h[i], i)'
    <3>1. SubSeq(h, 1, Len(hops[n])) = hops[n]
      BY <1>2, <2>0, <2>1, PrefixOfAppend, SubSeqFull
    <3>2. \/ n \in resumed
          \/ MaxHops[n] = 0
          \/ Len(hops[n]) < MaxHops[n]
      BY <1>2 DEF IInv, MayOffer, Transfer, Queued
    <3>3. ~ TooMany(MaxHops[n], Len(hops[n]))
      BY <2>j DEF Journey
    <3>4. MaxHops[n] \in Nat /\ Len(hops[n]) \in Nat
      BY <1>1, <1>2
    <3>5. \/ ~ TooMany(MaxHops[n], i)
          \/ n \in resumed /\ i = MaxHops[n] + 1
      BY <2>5, <3>2, <3>3, <3>4 DEF TooMany
    <3>6. h[i] = n /\ i - 1 = Len(hops[n])
      BY <2>1, <2>5, <3>4
    <3>7. hops'[n] = hops[n] /\ n # p /\ n \in has'
      BY <1>1, <1>2, <1>3
    <3>8. WithinLimit(h[i], i)'
      BY <1>1, <3>5, <3>6 DEF WithinLimit, TooMany
    <3> QED BY <3>1, <3>6, <3>7, <3>8
  <2>6. ASSUME NEW i \in DOMAIN h
        PROVE  /\ h[i] # p /\ h[i] \in has'
               /\ hops'[h[i]] = SubSeq(h, 1, i - 1)
               /\ WithinLimit(h[i], i)'
    <3>1. i \in 1 .. Len(hops[n]) \/ i = Len(hops[n]) + 1
      BY <1>2, <2>1, <2>6
    <3>2. CASE i \in 1 .. Len(hops[n])
      BY <2>4, <3>2
    <3>3. CASE i = Len(hops[n]) + 1
      BY <2>5, <3>3
    <3> QED BY <3>1, <3>2, <3>3
  <2>7. ~ TooMany(MaxHops[p], Len(h))
    BY <2>1 DEF Transfer, Refused, SentHops
  <2>8. h # << >> /\ h[1] = origin
    <3>1. CASE n = origin
      BY <1>2, <2>1, <3>1 DEF IInv, Holders
    <3>2. CASE n # origin
      BY <1>2, <2>1, <2>j, <3>2 DEF Journey
    <3> QED BY <3>1, <3>2
  <2>9. Journey(p)'
    BY <1>1, <2>2, <2>3, <2>6, <2>7, <2>8 DEF Journey
  <2>10. \A m \in Nodes : m # p => hops'[m] = hops[m]
    BY <1>1, <2>1
  <2> QED BY <1>4, <2>9, <2>10 DEF HopsAreAJourney
<1> QED BY <1>5, <1>6

\* A complete transfer keeps the invariant: the receiver queues the message after
\* a check of the Hops that it stored, or is marked as resumed.
LEMMA PushKeeps ==
    ASSUME IInv, NEW n \in Nodes, NEW p \in Nodes, Push(n, p)
    PROVE  IInv'
<1> USE GossipAssumption
<1>1. HopsAreAJourney'
  <2>1. Transfer(n, p)
    BY DEF Push, Transfer, params
  <2> QED BY <2>1, TransferExtends
<1>2. /\ hops[n] \in Seq(Nodes) /\ n \in has /\ p \notin has /\ n # p
      /\ SentHops(n) \in Seq(Nodes)
  BY DEF IInv, HopsType, Holders, Push, Queued, SentHops
<1>3. HopsStored(n, p) \in Seq(Nodes) /\ HopsStored(n, p) # NoHops
  BY <1>2 DEF IInv, HopsType, HopsStored
<1>4. HopsType'
  BY <1>3 DEF IInv, HopsType, Push, params
<1>5. Holders'
  BY <1>2, <1>3 DEF IInv, HopsType, Holders, Push
<1>6. MayOffer'
  <2> SUFFICES ASSUME NEW u \in has', queue'[u] # {}
               PROVE  \/ u \in resumed' \/ MaxHops'[u] = 0
                      \/ Len(hops'[u]) < MaxHops'[u]
    BY DEF MayOffer
  <2>1. MaxHops' = MaxHops /\ u \in has \cup {p} /\ u \in Nodes /\ resumed \subseteq resumed'
    BY DEF Push, params, IInv, HopsType
  <2>2. CASE u = p
    <3>1. CASE HopsStored(n, p) = SentHops(n)
      <4>1. hops'[p] = SentHops(n)
        BY <3>1 DEF Push, IInv, HopsType
      <4>2. PICK q \in active[p] : checkHops(p, q, SentHops(n))
        BY <1>2, <2>2 DEF Push, IInv, HopsType
      <4>3. Len(SentHops(n)) \in Nat /\ MaxHops[p] \in Nat
        BY <1>2, LenProperties DEF IInv, HopsType
      <4> QED BY <2>1, <2>2, <4>1, <4>2, <4>3 DEF checkHops
    <3>2. CASE HopsStored(n, p) # SentHops(n)
      BY <2>2, <3>2 DEF Push
    <3> QED BY <3>1, <3>2
  <2>3. CASE u # p
    <3>1. u \in has /\ hops'[u] = hops[u] /\ queue'[u] \subseteq queue[u]
      BY <1>2, <2>1, <2>3 DEF Push, IInv, HopsType
    <3> QED BY <2>1, <3>1 DEF IInv, MayOffer
  <2> QED BY <2>2, <2>3
<1> QED BY <1>1, <1>4, <1>5, <1>6 DEF IInv

\* An interrupted transfer gives Hops to nobody who sends.
LEMMA InterruptedKeeps ==
    ASSUME IInv, NEW n \in Nodes, NEW p \in Nodes, PushInterrupted(n, p)
    PROVE  IInv'
<1> USE GossipAssumption
<1>1. HopsAreAJourney'
  <2>1. Transfer(n, p)
    BY DEF PushInterrupted, Transfer, params
  <2> QED BY <2>1, TransferExtends
<1>2. /\ hops[n] \in Seq(Nodes) /\ n \in has /\ p \notin has
      /\ SentHops(n) \in Seq(Nodes)
  BY DEF IInv, HopsType, Holders, PushInterrupted, Queued, SentHops
<1>3. HopsStored(n, p) \in Seq(Nodes)
  BY <1>2 DEF IInv, HopsType, HopsStored
<1>4. HopsType'
  BY <1>3 DEF IInv, HopsType, PushInterrupted, params
<1>5. \A u \in has : hops'[u] = hops[u]
  BY <1>2 DEF IInv, HopsType, PushInterrupted
<1>6. UNCHANGED <<has, queue, resumed, origin, MaxHops>>
  BY DEF PushInterrupted, params
<1>7. Holders' /\ MayOffer'
  BY <1>5, <1>6 DEF IInv, HopsType, Holders, MayOffer
<1> QED BY <1>1, <1>4, <1>7 DEF IInv

\* A node that starts a peer queues the message after a check of its own Hops.
LEMMA CheckKeeps ==
    ASSUME IInv, NEW n \in Nodes, CheckActivePeers(n)
    PROVE  IInv'
<1>1. UNCHANGED <<hops, has, resumed, origin, MaxHops>>
  BY DEF CheckActivePeers, store, params
<1>2. queue' = [u \in Nodes |-> queue'[u]]
  BY DEF CheckActivePeers, IInv, HopsType
<1>3. MayOffer'
  <2> SUFFICES ASSUME NEW u \in has, queue'[u] # {}
               PROVE  \/ u \in resumed \/ MaxHops[u] = 0
                      \/ Len(hops[u]) < MaxHops[u]
    BY <1>1 DEF MayOffer
  <2>1. CASE queue[u] # {}
    BY <2>1 DEF IInv, MayOffer
  <2>2. CASE queue[u] = {}
    <3>1. u = n
      BY <2>2 DEF CheckActivePeers, IInv, HopsType
    <3>2. PICK p : checkHops(n, p, hops[n])
      BY <2>2, <3>1 DEF CheckActivePeers, IInv, HopsType
    <3>3. hops[n] \in Seq(Nodes) /\ MaxHops[n] \in Nat
      BY <3>1 DEF IInv, HopsType, Holders
    <3>4. Len(hops[n]) \in Nat
      BY <3>3, LenProperties
    <3> QED BY <3>1, <3>2, <3>3, <3>4 DEF checkHops
  <2> QED BY <2>1, <2>2
<1>4. HopsType' /\ Holders'
  BY <1>1, <1>2 DEF IInv, HopsType, Holders
<1>5. HopsAreAJourney'
  BY <1>1 DEF IInv, HopsAreAJourney, Journey, WithinLimit, TooMany
<1> QED BY <1>3, <1>4, <1>5 DEF IInv

\* The other steps leave the Hops alone, and queue nothing.
LEMMA OthersKeep ==
    ASSUME IInv,
           \/ \E n \in Nodes : Found(n) \/ Lost(n)
           \/ \E n, p \in Nodes : PushTooManyHops(n, p)
           \/ UNCHANGED vars
    PROVE  IInv'
<1>1. UNCHANGED <<hops, has, resumed, origin, MaxHops>>
  BY DEF Found, Lost, PushTooManyHops, vars, store, params
<1>2. queue' = [u \in Nodes |-> queue'[u]] /\ \A u \in Nodes : queue'[u] \subseteq queue[u]
  BY DEF Found, Lost, PushTooManyHops, vars, IInv, HopsType
<1>3. HopsType' /\ Holders' /\ MayOffer'
  BY <1>1, <1>2 DEF IInv, HopsType, Holders, MayOffer
<1>4. HopsAreAJourney'
  BY <1>1 DEF IInv, HopsAreAJourney, Journey, WithinLimit, TooMany
<1> QED BY <1>3, <1>4 DEF IInv

-----------------------------------------------------------------------------
(* The theorem.                                                            *)

\* Whatever the limits of the nodes are, whoever comes and goes and however the
\* transfers are interrupted, the Hops of a stored message are a journey from its
\* origin, without a node that comes twice, within the limit of the node that
\* stores it and within the limits of all the nodes on it; a node whose transfer
\* another sender resumed may have gone beyond its own by one (peers.go, checkHops
\* and pushMessage; messenger.go, Push; storage.go, OpenWrite).
THEOREM HopsAreJourneys == Spec => []HopsAreAJourney
<1>1. Init => IInv
  <2> SUFFICES ASSUME Init PROVE IInv
    OBVIOUS
  <2>0. origin \in Nodes
    BY DEF Init
  <2>1. HopsType /\ Holders /\ MayOffer
    <3>1. HopsType
      BY <2>0, GossipAssumption DEF Init, HopsType
    <3>2. Holders
      <4>1. has = {origin} /\ hops[origin] = << >>
        BY <2>0 DEF Init
      <4>2. << >> \in Seq(Nodes)
        OBVIOUS
      <4>3. << >> # NoHops
        BY <4>2, GossipAssumption
      <4> QED BY <4>1, <4>3 DEF Holders
    <3>3. MayOffer
      BY <2>0 DEF Init, MayOffer
    <3> QED BY <3>1, <3>2, <3>3
  <2>2. \A n \in Nodes : hops[n] # NoHops => n = origin
    BY GossipAssumption DEF Init
  <2>3. Journey(origin)
    BY <2>1, GossipAssumption DEF Holders, HopsType, Journey, TooMany
  <2> QED BY <2>1, <2>2, <2>3 DEF IInv, HopsAreAJourney
<1>2. IInv /\ [Next]_vars => IInv'
  BY PushKeeps, InterruptedKeeps, CheckKeeps, OthersKeep DEF Next
<1>3. IInv => HopsAreAJourney
  BY DEF IInv
<1> QED BY <1>1, <1>2, <1>3, PTL DEF Spec
=============================================================================
