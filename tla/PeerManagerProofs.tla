------------------------- MODULE PeerManagerProofs -------------------------
(* Proofs about PeerManager and ActivePeers, for every set of ids and every *)
(* MaxActivePeers.                                                         *)
EXTENDS PeerManager, FiniteSetTheorems, WellFoundedInduction, TLAPS

-----------------------------------------------------------------------------
(* The inductive invariant.                                                *)

\* An id has at most one object in the list, and only an object in the list, or
\* that was, has ever been started.
OnePerId ==
    /\ IsFiniteSet(peers)
    /\ \A p, q \in peers : p[1] = q[1] => p = q
    /\ \A p \in Objs \ made : cur[p] = 0

\* What loop has left to do, depending on where it is.
LoopKnows ==
    /\ lpc \in {"select", "end"} => toStop = {} /\ toStart = {} /\ ~ leaving
    /\ leaving => toStart = {}
    /\ toStart \subseteq peers
    /\ \A p \in toStart : cur[p] = 0
    /\ IsFiniteSet(toStart) /\ starts + Cardinality(toStart) <= MaxStarts

\* The peers in the list that are started and stay so, and those that will be.
Active == {p \in peers : cur[p] # 0}
Due == (Active \ (IF leaving THEN {} ELSE toStop)) \cup toStart

\* There is room for all of them, at every step of checkActivePeers.
RoomForAll == MaxActivePeers > 0 => Cardinality(Due) <= MaxActivePeers

IInv == TypeOK /\ OnePerId /\ LoopKnows /\ RoomForAll


-----------------------------------------------------------------------------
(* The peers that checkActivePeers chooses.                                *)

\* A set of natural numbers that is not empty has a least element.
LEMMA LeastNatural ==
    ASSUME NEW T, T \subseteq Nat, T # {}
    PROVE  \E x \in T : \A y \in T : x <= y
<1> DEFINE R == OpToRel(<, Nat)
<1>1. IsWellFoundedOn(R, Nat)
  BY NatLessThanWellFounded
<1>2. \A x, y \in Nat : x < y => <<x, y>> \in R
  BY Zenon DEF OpToRel
<1> HIDE DEF R
<1>3. PICK x \in T : \A y \in T : ~ (<<y, x>> \in R)
  BY <1>1, WFMin
<1>4. \A y \in T : ~ (y < x)
  BY <1>2, <1>3
<1> QED BY <1>4

\* The ith search adds a position to the active ones.
Search(off, bads, n, i, S) == S \cup {NextFree(Target(off, i - 1, n), S, bads, n)}

\* g[i] is what is active after i searches.
Searches(g, off, bads, n, k) ==
    g = [i \in 0 .. k |-> IF i = 0 THEN {} ELSE Search(off, bads, n, i, g[i - 1])]

\* The recursion of ActivePositions has a solution: the first k searches extend
\* the first k - 1.
LEMMA SearchesExist ==
    ASSUME NEW off, NEW bads, NEW n, NEW k \in Nat
    PROVE  \E g : Searches(g, off, bads, n, k)
<1> DEFINE T == {j \in Nat : ~ \E g : Searches(g, off, bads, n, j)}
<1> SUFFICES ASSUME T # {} PROVE FALSE
  OBVIOUS
<1>1. PICK j \in T : \A y \in T : j <= y
  BY LeastNatural
<1>2. CASE j = 0
  <2> DEFINE g == [i \in 0 .. 0 |-> {}]
  <2>1. Searches(g, off, bads, n, 0)
    BY DEF Searches
  <2> QED BY <1>1, <1>2, <2>1
<1>3. CASE j # 0
  <2>1. j \in Nat /\ j - 1 \in Nat /\ j - 1 \notin T
    BY <1>1, <1>3
  <2>2. PICK h : Searches(h, off, bads, n, j - 1)
    BY <2>1
  <2> DEFINE g == [i \in 0 .. j |-> IF i < j THEN h[i]
                                    ELSE Search(off, bads, n, j, h[j - 1])]
  <2>3. \A i \in 0 .. j - 1 :
          h[i] = IF i = 0 THEN {} ELSE Search(off, bads, n, i, h[i - 1])
    BY <2>2 DEF Searches
  <2>4. \A i \in 0 .. j :
          g[i] = IF i = 0 THEN {} ELSE Search(off, bads, n, i, g[i - 1])
    <3> SUFFICES ASSUME NEW i \in 0 .. j
                 PROVE  g[i] = IF i = 0 THEN {} ELSE Search(off, bads, n, i, g[i - 1])
      OBVIOUS
    <3>1. CASE i < j
      <4>1. g[i] = h[i] /\ (i # 0 => g[i - 1] = h[i - 1])
        BY <2>1, <3>1
      <4>2. i \in 0 .. j - 1
        BY <2>1, <3>1
      <4> QED BY <2>3, <4>1, <4>2
    <3>2. CASE i = j
      <4>1. g[i] = Search(off, bads, n, j, h[j - 1]) /\ g[j - 1] = h[j - 1]
        BY <2>1, <3>2
      <4> QED BY <1>3, <3>2, <4>1
    <3> QED BY <2>1, <3>1, <3>2
  <2>5. g = [i \in 0 .. j |-> g[i]]
    OBVIOUS
  <2>6. Searches(g, off, bads, n, j)
    <3>1. [i \in 0 .. j |-> g[i]]
          = [i \in 0 .. j |-> IF i = 0 THEN {} ELSE Search(off, bads, n, i, g[i - 1])]
      BY <2>4
    <3> HIDE DEF g
    <3> QED BY <2>5, <3>1 DEF Searches
  <2> HIDE DEF g
  <2> QED BY <1>1, <2>6
<1> QED BY <1>2, <1>3

\* After k searches at most k positions are active.
LEMMA SearchesBounded ==
    ASSUME NEW off, NEW bads, NEW n, NEW k \in Nat, NEW g, Searches(g, off, bads, n, k)
    PROVE  IsFiniteSet(g[k]) /\ Cardinality(g[k]) <= k
<1> DEFINE Ok(i) == IsFiniteSet(g[i]) /\ Cardinality(g[i]) <= i
           T == {i \in 0 .. k : ~ Ok(i)}
<1>0. \A i \in 0 .. k : g[i] = IF i = 0 THEN {} ELSE Search(off, bads, n, i, g[i - 1])
  BY DEF Searches
<1> SUFFICES ASSUME T # {} PROVE FALSE
  OBVIOUS
<1>1. PICK i \in T : \A y \in T : i <= y
  <2>1. T \subseteq Nat
    OBVIOUS
  <2> HIDE DEF T
  <2> QED BY <2>1, LeastNatural
<1>2. CASE i = 0
  <2>1. g[i] = {}
    BY <1>0, <1>1, <1>2
  <2> QED BY <1>1, <1>2, <2>1, FS_EmptySet
<1>3. CASE i # 0
  <2>1. i \in Nat /\ i - 1 \in 0 .. k /\ i - 1 \notin T
    BY <1>1, <1>3
  <2>2. IsFiniteSet(g[i - 1]) /\ Cardinality(g[i - 1]) <= i - 1
    BY <2>1
  <2>3. PICK x : g[i] = g[i - 1] \cup {x}
    BY <1>0, <1>1, <1>3 DEF Search
  <2>4. /\ IsFiniteSet(g[i]) /\ Cardinality(g[i - 1]) \in Nat
        /\ Cardinality(g[i]) <= Cardinality(g[i - 1]) + 1
    <3>1. Cardinality(g[i - 1]) \in Nat
      BY <2>2, FS_CardinalityType
    <3>2. /\ IsFiniteSet(g[i - 1] \cup {x})
          /\ Cardinality(g[i - 1] \cup {x}) = IF x \in g[i - 1] THEN Cardinality(g[i - 1])
                                             ELSE Cardinality(g[i - 1]) + 1
      BY <2>2, FS_AddElement
    <3> QED BY <2>3, <3>1, <3>2
  <2>5. Cardinality(g[i]) \in Nat
    BY <2>4, FS_CardinalityType
  <2> QED BY <1>1, <2>1, <2>2, <2>4, <2>5
<1> QED BY <1>2, <1>3

\* So many positions are active at most.
LEMMA PositionsBounded ==
    ASSUME NEW off, NEW bads, NEW n, NEW k \in Nat
    PROVE  /\ IsFiniteSet(ActivePositions(off, bads, n, k))
           /\ Cardinality(ActivePositions(off, bads, n, k)) <= k
<1> DEFINE g == CHOOSE g : Searches(g, off, bads, n, k)
<1>1. Searches(g, off, bads, n, k)
  BY SearchesExist
<1>2. ActivePositions(off, bads, n, k) = g[k]
  BY DEF ActivePositions, Searches, Search
<1> HIDE DEF g
<1> QED BY <1>1, <1>2, SearchesBounded


\* An image of a finite set is finite, and no larger.
LEMMA ImageBounded ==
    ASSUME NEW S, IsFiniteSet(S), NEW f, DOMAIN f = S, NEW T, T = {f[x] : x \in S}
    PROVE  IsFiniteSet(T) /\ Cardinality(T) <= Cardinality(S)
<1> DEFINE h == [x \in S |-> f[x]]
<1>1. h \in Surjection(S, T)
  BY DEF Surjection
<1> HIDE DEF h
<1> QED BY <1>1, FS_Surjection

\* checkActivePeers chooses at most max peers, if there is a limit.
LEMMA ActiveBounded ==
    ASSUME NEW self, NEW ids, IsFiniteSet(ids), NEW badIds, NEW max \in Nat \ {0}
    PROVE  /\ IsFiniteSet(ActivePeers(self, ids, badIds, max))
           /\ Cardinality(ActivePeers(self, ids, badIds, max)) <= max
<1> DEFINE n == Cardinality(ids)
           bads == {i \in 0 .. n - 1 : sortedPeers(ids, i) \in badIds}
           k == IF n < max THEN n ELSE max
           Pos == ActivePositions(offset(self, ids), bads, n, k)
           Sel == {sortedPeers(ids, i) : i \in Pos}
<1>1. n \in Nat /\ k \in Nat /\ k <= max
  BY FS_CardinalityType
<1>2. ActivePeers(self, ids, badIds, max) = IF n <= max THEN ids ELSE Sel
  BY DEF ActivePeers
<1>3. IsFiniteSet(Pos) /\ Cardinality(Pos) <= k
  <2> HIDE DEF n, bads, k
  <2> QED BY <1>1, PositionsBounded
<1> HIDE DEF Pos
<1>4. IsFiniteSet(Sel) /\ Cardinality(Sel) <= Cardinality(Pos)
  <2> DEFINE f == [i \in Pos |-> sortedPeers(ids, i)]
  <2>1. DOMAIN f = Pos /\ Sel = {f[i] : i \in Pos}
    OBVIOUS
  <2> HIDE DEF f, Sel
  <2> QED BY <1>3, <2>1, ImageBounded
<1>5. Cardinality(Sel) \in Nat /\ Cardinality(Pos) \in Nat
  BY <1>3, <1>4, FS_CardinalityType
<1> HIDE DEF Sel, k
<1> QED BY <1>1, <1>2, <1>3, <1>4, <1>5

\* The objects that it chooses are not more than their ids.
LEMMA ChosenBounded ==
    ASSUME OnePerId, MaxActivePeers > 0
    PROVE  /\ IsFiniteSet(Chosen) /\ Chosen \subseteq peers
           /\ Cardinality(Chosen) <= MaxActivePeers
<1> DEFINE ids == {p[1] : p \in peers}
           badIds == {p[1] : p \in peers \cap bad}
           sel == ActivePeers(Self, ids, badIds, MaxActivePeers)
<1>1. IsFiniteSet(ids)
  <2> DEFINE f == [p \in peers |-> p[1]]
  <2>1. DOMAIN f = peers /\ ids = {f[p] : p \in peers} /\ IsFiniteSet(peers)
    BY DEF OnePerId
  <2> HIDE DEF f, ids
  <2> QED BY <2>1, ImageBounded
<1>2. MaxActivePeers \in Nat \ {0}
  BY PeerManagerAssumption
<1>3. IsFiniteSet(sel) /\ Cardinality(sel) <= MaxActivePeers
  <2> HIDE DEF ids, badIds
  <2> QED BY <1>1, <1>2, ActiveBounded
<1>4. Chosen = {p \in peers : p[1] \in sel}
  BY DEF Chosen
<1>5. Chosen \subseteq peers /\ IsFiniteSet(Chosen)
  <2>1. Chosen \subseteq peers /\ IsFiniteSet(peers)
    BY <1>4 DEF OnePerId
  <2> QED BY <2>1, FS_Subset
<1>6. Cardinality(Chosen) <= Cardinality(sel)
  <2> DEFINE h == [p \in Chosen |-> p[1]]
  <2> HIDE DEF sel
  <2>1. h \in [Chosen -> sel]
    BY <1>4
  <2>2. \A p, q \in Chosen : h[p] = h[q] => p = q
    BY <1>5 DEF OnePerId
  <2>3. h \in Injection(Chosen, sel)
    BY <2>1, <2>2 DEF Injection, IsInjective
  <2> HIDE DEF h
  <2> QED BY <1>3, <2>3, FS_Injection
<1>7. Cardinality(Chosen) \in Nat /\ Cardinality(sel) \in Nat
  BY <1>3, <1>5, FS_CardinalityType
<1> HIDE DEF sel
<1> QED BY <1>2, <1>3, <1>5, <1>6, <1>7


-----------------------------------------------------------------------------
(* The types.                                                              *)

\* The loop of the peer manager keeps them.
LEMMA LoopTypes ==
    ASSUME TypeOK, OnePerId, LoopKnows,
           \/ \E id \in Ids : Found(id) \/ Lost(id)
           \/ ContextDone \/ Closed
           \/ loop
    PROVE  TypeOK'
<1> USE PeerManagerAssumption DEF TypeOK
<1>1. ASSUME NEW id \in Ids, Found(id) PROVE TypeOK'
  <2>1. CASE Listed(id) = {} /\ \E k \in 1 .. MaxObjs :
               /\ peers' = peers \cup {<<id, k>>}
               /\ made' = made \cup {<<id, k>>}
    BY <1>1, <2>1 DEF Found, peerVars, Objs
  <2>2. CASE UNCHANGED <<peers, made, numPeers>>
    BY <1>1, <2>2 DEF Found, peerVars
  <2> QED BY <1>1, <2>1, <2>2 DEF Found
<1>2. ASSUME NEW id \in Ids, Lost(id) PROVE TypeOK'
  BY <1>2 DEF Lost, RemoveVisits, peerVars
<1>3. CASE ContextDone
  <2>1. 1 .. starts \subseteq Starts
    BY DEF Starts
  <2> QED BY <1>3, <2>1 DEF ContextDone
<1>10. CASE Closed
  BY <1>10 DEF Closed, peerVars
<1>4. CASE CheckActivePeers
  <2>1. toStart' \subseteq peers /\ toStop' \subseteq peers
    BY <1>4 DEF CheckActivePeers, Chosen
  <2> QED BY <1>4, <2>1 DEF CheckActivePeers, peerVars
<1>5. ASSUME NEW p \in Objs, StopPeer(p) PROVE TypeOK'
  <2>1. cur[p] \in Starts
    BY <1>5 DEF StopPeer, Starts
  <2> QED BY <1>5, <2>1 DEF StopPeer
<1>6. ASSUME NEW p \in Objs, StopPeerEnds(p) PROVE TypeOK'
  <2>1. cur' \in [Objs -> 0 .. MaxStarts] /\ \A q \in Objs : q # p => cur'[q] = cur[q]
    BY <1>6 DEF StopPeerEnds
  <2>2. \A n \in msgLoop : \E q \in made : cur'[q] = n
    BY <1>6, <2>1 DEF StopPeerEnds
  <2>3. numPeers' \in Int
    BY <1>6 DEF StopPeerEnds, Counted
  <2> QED BY <1>6, <2>1, <2>2, <2>3 DEF StopPeerEnds
<1>7. ASSUME NEW p \in Objs, StopPeerIdle(p) PROVE TypeOK'
  <2>1. numPeers' \in Int
    BY <1>7 DEF StopPeerIdle, Counted
  <2> QED BY <1>7, <2>1 DEF StopPeerIdle, peerVars
<1>8. ASSUME NEW p \in Objs, StartPeer(p) PROVE TypeOK'
  <2>0. p \in made /\ cur[p] = 0 /\ p \in toStart
    BY <1>8 DEF StartPeer, LoopKnows
  <2>1. starts + 1 \in Starts /\ starts + 1 \in 0 .. MaxStarts
    <3>1. Cardinality(toStart) \in Nat /\ Cardinality(toStart) # 0
      BY <2>0, FS_CardinalityType, FS_EmptySet DEF LoopKnows
    <3> QED BY <3>1 DEF LoopKnows, Starts
  <2>2. /\ cur' \in [Objs -> 0 .. MaxStarts] /\ cur'[p] = starts + 1
        /\ \A q \in Objs : q # p => cur'[q] = cur[q]
    BY <1>8, <2>1 DEF StartPeer
  <2>3. \A n \in msgLoop' : \E q \in made : cur'[q] = n
    <3> SUFFICES ASSUME NEW n \in msgLoop' PROVE \E q \in made : cur'[q] = n
      OBVIOUS
    <3>1. CASE n = starts + 1
      BY <2>0, <2>2, <3>1
    <3>2. CASE n \in msgLoop
      <4>1. PICK q \in made : cur[q] = n
        BY <3>2
      <4>2. q # p
        BY <2>0, <3>2, <4>1 DEF Starts
      <4> QED BY <2>2, <4>1, <4>2
    <3> QED BY <1>8, <3>1, <3>2 DEF StartPeer
  <2>4. /\ spc' \in [Starts -> {"off", "starting", "select", "insert", "end"}]
        /\ DOMAIN sobj' = Starts
        /\ \A n \in 1 .. starts + 1 : sobj'[n] \in Objs
    <3>1. spc' \in [Starts -> {"off", "starting", "select", "insert", "end"}]
      BY <1>8, <2>1 DEF StartPeer
    <3>2. DOMAIN sobj' = Starts /\ sobj'[starts + 1] = p
      BY <1>8, <2>1 DEF StartPeer
    <3>3. \A n \in 1 .. starts : n \in Starts /\ n # starts + 1
      BY <2>1 DEF Starts
    <3>4. \A n \in 1 .. starts : sobj'[n] = sobj[n]
      BY <1>8, <3>3 DEF StartPeer
    <3>5. \A n \in 1 .. starts + 1 : n \in 1 .. starts \/ n = starts + 1
      OBVIOUS
    <3> QED BY <3>1, <3>2, <3>4, <3>5
  <2>5. \A n \in Starts : n <= starts + 1 \/ spc'[n] = "off"
    <3> SUFFICES ASSUME NEW n \in Starts, ~ (n <= starts + 1) PROVE spc'[n] = "off"
      OBVIOUS
    <3>1. n # starts + 1 /\ ~ (n <= starts)
      BY DEF Starts
    <3> QED BY <1>8, <3>1 DEF StartPeer
  <2>6. /\ starts' = starts + 1 /\ msgLoop' \in SUBSET Starts
        /\ toStart' \in SUBSET Objs /\ canceled' \in SUBSET Starts
    BY <1>8, <2>1 DEF StartPeer
  <2> QED BY <1>8, <2>1, <2>2, <2>3, <2>4, <2>5, <2>6 DEF StartPeer
<1>9. CASE VisitedAll
  BY <1>9 DEF VisitedAll, peerVars
<1> QED BY <1>1, <1>2, <1>3, <1>4, <1>5, <1>6, <1>7, <1>8, <1>9, <1>10 DEF loop

\* The goroutines of the peers keep them.
LEMMA PeerTypes ==
    ASSUME TypeOK, \/ \E n \in Starts : MsgLoopEnds(n) \/ subLoop(n)
                   \/ \E p \in Objs : Errors(p)
    PROVE  TypeOK'
<1> USE PeerManagerAssumption DEF TypeOK
<1>1. ASSUME NEW n \in Starts, MsgLoopEnds(n) PROVE TypeOK'
  BY <1>1 DEF MsgLoopEnds, loopVars
<1>2. ASSUME NEW n \in Starts, spc[n] # "off", EnterSelect(n)
      PROVE  /\ spc' \in [Starts -> {"off", "starting", "select", "insert", "end"}]
             /\ schan' \in [Starts -> 0 .. MaxStarts]
             /\ cur[sobj[n]] \in 0 .. MaxStarts
             /\ \A m \in Starts : m <= starts \/ spc'[m] = "off"
  <2>1. n <= starts /\ n \in 1 .. starts
    BY <1>2 DEF Starts
  <2>2. cur[sobj[n]] \in 0 .. MaxStarts
    BY <2>1
  <2> QED BY <1>2, <2>1, <2>2 DEF EnterSelect
<1>3. ASSUME NEW n \in Starts, SubLoopBegins(n) PROVE TypeOK'
  <2>1. CASE cur[sobj[n]] = 0
    BY <1>3, <2>1 DEF SubLoopBegins, Panic, loopVars
  <2>2. CASE cur[sobj[n]] # 0
    <3>1. spc[n] # "off" /\ EnterSelect(n) /\ sctx' = [sctx EXCEPT ![n] = cur[sobj[n]]]
      BY <1>3, <2>2 DEF SubLoopBegins
    <3> QED BY <1>2, <1>3, <2>2, <3>1 DEF SubLoopBegins, loopVars
  <2> QED BY <2>1, <2>2
<1>4. ASSUME NEW n \in Starts, SubLoopReceives(n) PROVE TypeOK'
  BY <1>4 DEF SubLoopReceives, loopVars
<1>5. ASSUME NEW n \in Starts, SubLoopInserts(n) \/ SubLoopSkips(n) PROVE TypeOK'
  <2>1. CASE EnterSelect(n) /\ UNCHANGED <<sctx, panicked>>
    <3>1. spc[n] # "off"
      BY <1>5 DEF SubLoopInserts, SubLoopSkips
    <3> QED BY <1>2, <1>5, <2>1, <3>1 DEF SubLoopInserts, SubLoopSkips, loopVars
  <2>2. CASE Panic
    BY <1>5, <2>2 DEF SubLoopInserts, SubLoopSkips, Panic, loopVars
  <2> QED BY <1>5, <2>1, <2>2 DEF SubLoopInserts, SubLoopSkips
<1>6. ASSUME NEW n \in Starts, SubLoopEnds(n) PROVE TypeOK'
  BY <1>6 DEF SubLoopEnds, loopVars
<1>7. ASSUME NEW p \in Objs, Errors(p) PROVE TypeOK'
  BY <1>7 DEF Errors, loopVars, peerVars
<1> QED BY <1>1, <1>3, <1>4, <1>5, <1>6, <1>7 DEF subLoop


-----------------------------------------------------------------------------
(* The invariant.                                                          *)

\* Who is due can be counted, and no part of it is larger.
LEMMA DueIsFinite ==
    ASSUME OnePerId, toStart \subseteq peers
    PROVE  /\ IsFiniteSet(Due) /\ Cardinality(Due) \in Nat
           /\ \A S \in SUBSET Due : Cardinality(S) \in Nat /\ Cardinality(S) <= Cardinality(Due)
<1>1. Due \subseteq peers /\ IsFiniteSet(peers)
  BY DEF Due, Active, OnePerId
<1>2. IsFiniteSet(Due)
  BY <1>1, FS_Subset
<1> QED BY <1>2, FS_Subset, FS_CardinalityType

\* When nobody more is due, there is room.
LEMMA RoomKept ==
    ASSUME OnePerId, toStart \subseteq peers, RoomForAll, Due' \subseteq Due
    PROVE  RoomForAll'
<1>1. Cardinality(Due') \in Nat /\ Cardinality(Due) \in Nat
      /\ Cardinality(Due') <= Cardinality(Due)
  BY DueIsFinite
<1> QED BY <1>1, PeerManagerAssumption DEF RoomForAll

\* An update of discovery brings a new object, that is not started, or none.
LEMMA FoundKeeps ==
    ASSUME TypeOK, OnePerId, LoopKnows, RoomForAll, NEW id \in Ids, Found(id)
    PROVE  OnePerId' /\ LoopKnows' /\ RoomForAll'
<1>1. /\ UNCHANGED <<lpc, toStop, toStart, leaving, cur, starts>>
      /\ peers \subseteq peers'
  BY DEF Found, peerVars
<1>2. LoopKnows'
  BY <1>1 DEF LoopKnows
<1>3. CASE UNCHANGED <<peers, made>>
  BY <1>1, <1>2, <1>3 DEF OnePerId, RoomForAll, Due, Active
<1>4. CASE Listed(id) = {} /\ \E k \in 1 .. MaxObjs :
             /\ {j \in 1 .. MaxObjs : <<id, j>> \in made} = 1 .. k - 1
             /\ peers' = peers \cup {<<id, k>>}
             /\ made' = made \cup {<<id, k>>}
  <2>1. PICK k \in 1 .. MaxObjs :
             /\ {j \in 1 .. MaxObjs : <<id, j>> \in made} = 1 .. k - 1
             /\ peers' = peers \cup {<<id, k>>}
             /\ made' = made \cup {<<id, k>>}
    BY <1>4
  <2>2. <<id, k>> \in Objs \ made
    <3>1. k \notin 1 .. k - 1
      BY PeerManagerAssumption
    <3> QED BY <2>1, <3>1 DEF Objs
  <2>3. cur[<<id, k>>] = 0
    BY <2>2 DEF OnePerId
  <2>4. IsFiniteSet(peers')
    BY <2>1, FS_AddElement DEF OnePerId
  <2>5. \A p \in peers : p[1] # id
    BY <1>4 DEF Listed
  <2>6. OnePerId'
    BY <1>1, <2>1, <2>4, <2>5 DEF OnePerId
  <2>7. Due' \subseteq Due
    BY <1>1, <2>1, <2>3 DEF Due, Active
  <2> QED BY <1>2, <2>6, <2>7, RoomKept DEF LoopKnows
<1> QED BY <1>3, <1>4 DEF Found

\* removePeer: whoever is lost is no longer due.
LEMMA LeavingKeeps ==
    ASSUME TypeOK, OnePerId, LoopKnows, RoomForAll,
           Closed \/ \E id \in Ids : Lost(id)
    PROVE  OnePerId' /\ LoopKnows' /\ RoomForAll'
<1>1. /\ lpc = "select" /\ lpc' = "visit" /\ leaving'
      /\ UNCHANGED <<made, toStart, cur, starts>>
      /\ peers' \subseteq peers
  BY DEF Closed, Lost, peerVars
<1>2. toStart = {} /\ toStop = {} /\ ~ leaving
  BY <1>1 DEF LoopKnows
<1>3. OnePerId'
  <2>1. IsFiniteSet(peers')
    BY <1>1, FS_Subset DEF OnePerId
  <2> QED BY <1>1, <2>1 DEF OnePerId
<1>4. LoopKnows'
  BY <1>1, <1>2 DEF LoopKnows
<1>5. Due' \subseteq Due
  BY <1>1, <1>2 DEF Due, Active
<1> QED BY <1>2, <1>3, <1>4, <1>5, RoomKept DEF LoopKnows

\* checkActivePeers: only those that are chosen are due.
LEMMA CheckKeeps ==
    ASSUME TypeOK, OnePerId, LoopKnows, CheckActivePeers
    PROVE  OnePerId' /\ LoopKnows' /\ RoomForAll'
<1>1. /\ lpc' = "visit" /\ ~ leaving' /\ UNCHANGED <<peers, made, cur, starts>>
      /\ toStart' = {p \in Chosen : cur[p] = 0}
      /\ toStop' = {p \in peers \ Chosen : cur[p] # 0}
      /\ starts + Cardinality(toStart') <= MaxStarts
      /\ leaving' \in BOOLEAN
  BY DEF CheckActivePeers, peerVars
<1>2. Chosen \subseteq peers
  BY DEF Chosen
<1>3. OnePerId'
  BY <1>1 DEF OnePerId
<1>4. LoopKnows'
  <2>1. toStart' \subseteq peers' /\ \A p \in toStart' : cur'[p] = 0
    BY <1>1, <1>2
  <2>2. IsFiniteSet(toStart')
    BY <1>1, <2>1, FS_Subset DEF OnePerId
  <2> QED BY <1>1, <2>1, <2>2 DEF LoopKnows
<1>5. Due' \subseteq Chosen
  BY <1>1, <1>2 DEF Due, Active
<1>6. RoomForAll'
  <2> SUFFICES ASSUME MaxActivePeers > 0 PROVE Cardinality(Due') <= MaxActivePeers
    BY DEF RoomForAll
  <2>1. IsFiniteSet(Chosen) /\ Cardinality(Chosen) <= MaxActivePeers
    BY ChosenBounded
  <2>2. /\ Cardinality(Due') \in Nat /\ Cardinality(Chosen) \in Nat
        /\ Cardinality(Due') <= Cardinality(Chosen)
    BY <1>5, <2>1, FS_Subset, FS_CardinalityType
  <2> QED BY <2>1, <2>2, PeerManagerAssumption
<1> QED BY <1>3, <1>4, <1>6

\* Stopping and starting the peers, one by one.
LEMMA StopStartKeeps ==
    ASSUME TypeOK, OnePerId, LoopKnows, RoomForAll,
           \/ \E p \in Objs : \/ StopPeer(p) \/ StopPeerEnds(p)
                              \/ StopPeerIdle(p) \/ StartPeer(p)
           \/ VisitedAll
    PROVE  OnePerId' /\ LoopKnows' /\ RoomForAll'
<1>0. cur \in [Objs -> 0 .. MaxStarts] /\ peers \subseteq Objs /\ peers \subseteq made
      /\ starts \in Nat /\ MaxStarts \in Nat
  BY PeerManagerAssumption DEF TypeOK
<1>1. ASSUME NEW p \in Objs, StopPeer(p) PROVE OnePerId' /\ LoopKnows' /\ RoomForAll'
  BY <1>1 DEF StopPeer, OnePerId, LoopKnows, RoomForAll, Due, Active
<1>2. ASSUME NEW p \in Objs, StopPeerEnds(p) PROVE OnePerId' /\ LoopKnows' /\ RoomForAll'
  <2>1. /\ lpc = "wait" /\ lpc' = "visit" /\ toStop' = toStop \ {p}
        /\ UNCHANGED <<peers, made, toStart, leaving, starts>>
    BY <1>2 DEF StopPeerEnds
  <2>2. cur'[p] = 0 /\ \A q \in Objs : q # p => cur'[q] = cur[q]
    BY <1>0, <1>2 DEF StopPeerEnds
  <2>3. OnePerId' /\ LoopKnows'
    BY <1>0, <2>1, <2>2 DEF OnePerId, LoopKnows
  <2>4. Due' \subseteq Due
    BY <1>0, <2>1, <2>2 DEF Due, Active
  <2> QED BY <2>3, <2>4, RoomKept DEF LoopKnows
<1>3. ASSUME NEW p \in Objs, StopPeerIdle(p) PROVE OnePerId' /\ LoopKnows' /\ RoomForAll'
  <2>1. /\ lpc = "visit" /\ lpc' = lpc /\ toStop' = toStop \ {p} /\ cur[p] = 0
        /\ UNCHANGED <<peers, made, toStart, leaving, starts, cur>>
    BY <1>3 DEF StopPeerIdle, peerVars
  <2>2. OnePerId' /\ LoopKnows'
    BY <2>1 DEF OnePerId, LoopKnows
  <2>3. Due' \subseteq Due
    BY <2>1 DEF Due, Active
  <2> QED BY <2>2, <2>3, RoomKept DEF LoopKnows
<1>4. ASSUME NEW p \in Objs, StartPeer(p) PROVE OnePerId' /\ LoopKnows' /\ RoomForAll'
  <2>1. /\ lpc = "visit" /\ p \in toStart /\ toStart' = toStart \ {p} /\ starts' = starts + 1
        /\ UNCHANGED <<peers, made, lpc, toStop, leaving>>
    BY <1>4 DEF StartPeer
  <2>2. \A q \in Objs : q # p => cur'[q] = cur[q]
    BY <1>0, <1>4 DEF StartPeer
  <2>3. ~ leaving /\ p \in peers
    BY <2>1 DEF LoopKnows
  <2>4. OnePerId'
    BY <1>0, <2>1, <2>2, <2>3 DEF OnePerId
  <2>5. IsFiniteSet(toStart') /\ starts' + Cardinality(toStart') <= MaxStarts
    <3>1. /\ IsFiniteSet(toStart \ {p})
          /\ Cardinality(toStart \ {p}) = Cardinality(toStart) - 1
          /\ Cardinality(toStart) \in Nat
      BY <2>1, FS_RemoveElement, FS_CardinalityType DEF LoopKnows
    <3> QED BY <1>0, <2>1, <3>1 DEF LoopKnows
  <2>6. LoopKnows'
    BY <1>0, <2>1, <2>2, <2>3, <2>5 DEF LoopKnows
  <2>7. Due' \subseteq Due
    BY <1>0, <2>1, <2>2, <2>3 DEF Due, Active
  <2> QED BY <2>4, <2>6, <2>7, RoomKept DEF LoopKnows
<1>5. CASE VisitedAll
  <2>1. /\ lpc = "visit" /\ toStop = {} /\ toStart = {} /\ ~ leaving'
        /\ lpc' \in {"select", "end"}
        /\ UNCHANGED <<peers, made, toStop, toStart, cur, starts>>
    BY <1>5 DEF VisitedAll, peerVars
  <2>2. OnePerId' /\ LoopKnows'
    BY <2>1 DEF OnePerId, LoopKnows
  <2>3. Due' \subseteq Due
    BY <2>1 DEF Due, Active
  <2> QED BY <2>2, <2>3, RoomKept DEF LoopKnows
<1> QED BY <1>1, <1>2, <1>3, <1>4, <1>5

\* Nothing else touches the list of the peers.
LEMMA OthersKeep ==
    ASSUME OnePerId, LoopKnows, RoomForAll,
           \/ UNCHANGED vars
           \/ ContextDone
           \/ \E n \in Starts : MsgLoopEnds(n) \/ subLoop(n)
           \/ \E p \in Objs : Errors(p)
    PROVE  OnePerId' /\ LoopKnows' /\ RoomForAll'
<1>1. UNCHANGED <<peers, made, lpc, toStop, toStart, leaving, cur, starts>>
  BY DEF vars, loopVars, ContextDone, MsgLoopEnds, subLoop, SubLoopBegins, SubLoopReceives, SubLoopInserts,
     SubLoopSkips, SubLoopEnds, Errors, peerVars
<1> QED BY <1>1 DEF OnePerId, LoopKnows, RoomForAll, Due, Active

\* The peer manager begins without peers.
LEMMA ManagerBegins ==
    ASSUME Init
    PROVE  IInv
<1>1. TypeOK
  <2>1. /\ cur \in [Objs -> 0 .. MaxStarts]
        /\ sctx \in [Starts -> 0 .. MaxStarts] /\ schan \in [Starts -> 0 .. MaxStarts]
        /\ starts \in 0 .. MaxStarts /\ updates \in 0 .. MaxUpdates
    BY PeerManagerAssumption DEF Init
  <2>2. /\ spc \in [Starts -> {"off", "starting", "select", "insert", "end"}]
        /\ \A n \in Starts : spc[n] = "off"
        /\ DOMAIN sobj = Starts /\ \A n \in 1 .. starts : FALSE
    BY DEF Init
  <2>3. /\ peers \subseteq made /\ made \in SUBSET Objs /\ numPeers \in Int
        /\ lpc \in {"select", "visit", "wait", "end"}
        /\ toStop \in SUBSET Objs /\ toStart \in SUBSET Objs /\ bad \in SUBSET Objs
        /\ canceled \in SUBSET Starts /\ unsubbed \in SUBSET Starts /\ msgLoop \in SUBSET Starts
        /\ \A n \in msgLoop : \E p \in made : cur[p] = n
    BY DEF Init
  <2>4. /\ leaving \in BOOLEAN /\ ctxDone \in BOOLEAN
        /\ open \in BOOLEAN /\ panicked \in BOOLEAN
    BY DEF Init
  <2>5. /\ \A n \in 1 .. starts : sobj[n] \in Objs
        /\ \A n \in Starts : n <= starts \/ spc[n] = "off"
    BY <2>2
  <2> QED BY <2>1, <2>2, <2>3, <2>4, <2>5 DEF TypeOK
<1>2. OnePerId
  BY FS_EmptySet DEF Init, OnePerId
<1>3. LoopKnows
  BY FS_EmptySet, PeerManagerAssumption DEF Init, LoopKnows
<1>4. RoomForAll
  <2>1. Due = {}
    BY DEF Init, Due, Active
  <2>2. Cardinality(Due) = 0 /\ MaxActivePeers \in Nat
    BY <2>1, FS_EmptySet, PeerManagerAssumption
  <2> QED BY <2>2 DEF RoomForAll
<1> QED BY <1>1, <1>2, <1>3, <1>4 DEF IInv

\* Every step keeps the invariant.
LEMMA ManagerStep ==
    ASSUME IInv, [Next]_vars
    PROVE  IInv'
<1>1. CASE UNCHANGED vars
  <2>1. TypeOK'
    BY <1>1 DEF vars, loopVars, peerVars, IInv, TypeOK
  <2> QED BY <1>1, <2>1, OthersKeep DEF IInv
<1>2. ASSUME NEW id \in Ids, Found(id) PROVE IInv'
  BY <1>2, LoopTypes, FoundKeeps DEF IInv
<1>3. CASE Closed \/ \E id \in Ids : Lost(id)
  BY <1>3, LoopTypes, LeavingKeeps DEF IInv
<1>4. CASE loop
  <2>1. TypeOK'
    BY <1>4, LoopTypes DEF IInv
  <2> QED BY <1>4, <2>1, CheckKeeps, StopStartKeeps DEF IInv, loop
<1>6. CASE ContextDone
  BY <1>6, LoopTypes, OthersKeep DEF IInv
<1>5. CASE \/ \E n \in Starts : MsgLoopEnds(n) \/ subLoop(n)
           \/ \E p \in Objs : Errors(p)
  BY <1>5, PeerTypes, OthersKeep DEF IInv
<1> QED BY <1>1, <1>2, <1>3, <1>4, <1>5, <1>6 DEF Next

-----------------------------------------------------------------------------
(* The end of loop.                                                        *)

\* A msgLoop that is running is that of the last start of its peer, and after
\* updateChan is closed loop still has to stop every started peer of the list.
Ending ==
    /\ \A n \in msgLoop : n \in 1 .. starts /\ cur[sobj[n]] = n
    /\ lpc = "end" => ~ open
    /\ ~ open => /\ lpc # "select" /\ (leaving \/ lpc = "end")
                /\ \A p \in peers : cur[p] # 0 => p \in toStop

\* Every step keeps this.
LEMMA EndingStep ==
    ASSUME IInv, Ending, [Next]_vars
    PROVE  Ending'
<1>0. /\ cur \in [Objs -> 0 .. MaxStarts] /\ peers \subseteq Objs
      /\ \A n \in 1 .. starts : sobj[n] \in Objs
      /\ msgLoop \subseteq 1 .. starts /\ starts \in Nat
      /\ leaving => toStart = {}
      /\ lpc \in {"select", "end"} => toStart = {} /\ toStop = {}
  BY PeerManagerAssumption DEF IInv, TypeOK, LoopKnows, Ending
<1>1. CASE \/ UNCHANGED vars \/ ContextDone
           \/ \E n \in Starts : MsgLoopEnds(n) \/ subLoop(n)
           \/ \E p \in Objs : Errors(p)
  <2>1. /\ UNCHANGED <<peers, lpc, toStop, leaving, open, cur, starts, sobj>>
        /\ msgLoop' \subseteq msgLoop
    BY <1>1 DEF vars, loopVars, peerVars, ContextDone, MsgLoopEnds, subLoop, SubLoopBegins,
       SubLoopReceives, SubLoopInserts, SubLoopSkips, SubLoopEnds, Errors
  <2> QED BY <2>1 DEF Ending
<1>2. ASSUME NEW id \in Ids, Found(id) \/ Lost(id) PROVE Ending'
  BY <1>2 DEF Found, Lost, peerVars, Ending
<1>3. CASE Closed \/ CheckActivePeers
  BY <1>3 DEF Closed, CheckActivePeers, peerVars, Ending
<1>4. ASSUME NEW p \in Objs, StopPeer(p) \/ StopPeerIdle(p) PROVE Ending'
  BY <1>4 DEF StopPeer, StopPeerIdle, peerVars, Ending
<1>5. ASSUME NEW p \in Objs, StopPeerEnds(p) PROVE Ending'
  <2>1. cur'[p] = 0 /\ (\A q \in Objs : q # p => cur'[q] = cur[q])
    BY <1>0, <1>5 DEF StopPeerEnds
  <2>2. \A n \in msgLoop : sobj[n] # p
    BY <1>5 DEF StopPeerEnds, Ending
  <2>3. /\ toStop' = toStop \ {p} /\ lpc = "wait" /\ lpc' = "visit"
        /\ UNCHANGED <<peers, leaving, open, starts, msgLoop, sobj>>
    BY <1>5 DEF StopPeerEnds
  <2> QED BY <1>0, <2>1, <2>2, <2>3 DEF Ending
<1>6. ASSUME NEW p \in Objs, StartPeer(p) PROVE Ending'
  <2>1. /\ p \in toStart /\ cur[p] = 0 /\ ~ leaving /\ lpc = "visit" /\ lpc' = lpc
        /\ open /\ open' = open
    BY <1>0, <1>6 DEF StartPeer, IInv, LoopKnows, Ending
  <2>2. starts + 1 \in Starts /\ DOMAIN sobj = Starts /\ 1 .. starts \subseteq Starts
    <3>1. TypeOK'
      BY <1>6, LoopTypes DEF IInv, loop
    <3>2. starts' = starts + 1 /\ starts' \in 0 .. MaxStarts
      BY <1>6, <3>1 DEF StartPeer, TypeOK
    <3> QED BY <1>0, <3>2, PeerManagerAssumption DEF Starts, IInv, TypeOK
  <2>3. /\ cur'[p] = starts + 1 /\ (\A q \in Objs : q # p => cur'[q] = cur[q])
        /\ sobj'[starts + 1] = p /\ starts' = starts + 1
        /\ msgLoop' = msgLoop \cup {starts + 1}
        /\ \A n \in 1 .. starts : sobj'[n] = sobj[n]
    BY <1>0, <1>6, <2>2 DEF StartPeer
  <2>4. \A n \in msgLoop : sobj[n] # p
    BY <1>0, <2>1 DEF Ending
  <2>5. \A n \in msgLoop' : n \in 1 .. starts' /\ cur'[sobj'[n]] = n
    BY <1>0, <2>3, <2>4 DEF Ending
  <2> QED BY <2>1, <2>5 DEF Ending
<1>7. CASE VisitedAll
  BY <1>7 DEF VisitedAll, peerVars, Ending
<1> QED BY <1>1, <1>2, <1>3, <1>4, <1>5, <1>6, <1>7 DEF Next, loop

-----------------------------------------------------------------------------
(* The theorems.                                                           *)

\* The invariant holds in every behaviour of the peer manager.
THEOREM ManagerInvariance == Spec => []IInv
<1>1. Init => IInv
  BY ManagerBegins
<1>2. IInv /\ [Next]_vars => IInv'
  BY ManagerStep
<1> QED BY <1>1, <1>2, PTL DEF Spec

\* The variables have their types: a msgLoop that is running is that of a peer
\* whose fields are still set, so stopPeer does not forget one (peers.go:236).
THEOREM ManagerTypes == Spec => []TypeOK
<1>1. IInv => TypeOK
  BY DEF IInv
<1> QED BY <1>1, ManagerInvariance, PTL

\* Between two updates of discovery at most MaxActivePeers of the peers in the list
\* are started, whatever ids there are and wherever the searches of
\* checkActivePeers lead (peers.go:151-211).
THEOREM NeverTooManyPeers == Spec => []AtMostMaxActive
<1>1. ASSUME IInv PROVE AtMostMaxActive
  <2> SUFFICES ASSUME MaxActivePeers > 0, lpc = "select"
               PROVE  Cardinality({p \in peers : cur[p] # 0}) <= MaxActivePeers
    BY DEF AtMostMaxActive
  <2>1. toStop = {} /\ toStart = {}
    BY <1>1 DEF IInv, LoopKnows
  <2>2. Due = {p \in peers : cur[p] # 0}
    BY <2>1 DEF Due, Active
  <2> QED BY <1>1, <2>2 DEF IInv, RoomForAll
<1> QED BY <1>1, ManagerInvariance, PTL

\* loop closes done only when no msgLoop is running for a peer in the list, also if
\* it has started some after the end of the node's context (peers.go:74-78,
\* 225-239).
THEOREM LoopEndsLast == Spec => []EndsAfterPeers
<1>1. Init => Ending
  BY DEF Init, Ending
<1>2. IInv /\ Ending /\ [Next]_vars => Ending'
  BY EndingStep
<1>3. IInv /\ Ending => EndsAfterPeers
  <2> SUFFICES ASSUME IInv, Ending, lpc = "end", NEW n \in msgLoop, sobj[n] \in peers
               PROVE  FALSE
    BY DEF EndsAfterPeers
  <2>1. toStop = {} /\ cur[sobj[n]] = n /\ n # 0
    BY DEF IInv, LoopKnows, Ending
  <2> QED BY <2>1 DEF Ending
<1> QED BY <1>1, <1>2, <1>3, ManagerInvariance, PTL DEF Spec
=============================================================================
