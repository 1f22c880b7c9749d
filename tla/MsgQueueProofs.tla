--------------------------- MODULE MsgQueueProofs --------------------------
(***************************************************************************)
(* The queue of a peer implements TimedQueue, for any number of inserters  *)
(* and of elements, and whenever they are due.                             *)
(***************************************************************************)
EXTENDS MsgQueue, SequenceTheorems, WellFoundedInduction, TLAPS

-----------------------------------------------------------------------------
(* The inductive invariant.                                                *)

\* m is to be handed out before n.
Earlier(m, n) == t[m] < t[n] \/ (t[m] = t[n] /\ m < n)

\* The list has elements that were inserted, in the order in which they are to be
\* handed out (so none is in it twice).
Sorted ==
    /\ \A k \in DOMAIN l : l[k] <= inserted
    /\ \A j, k \in DOMAIN l : j < k => Earlier(l[j], l[k])

IInv == TypeOK /\ Sorted

-----------------------------------------------------------------------------
(* Where Insert puts an element.                                           *)

\* A set of natural numbers that is not empty has a least element.
LEMMA LeastNatural ==
    ASSUME NEW T, T \subseteq Nat, T # {}
    PROVE  \E x \in T : \A y \in T : x <= y
<1> DEFINE R == OpToRel(<, Nat)
<1>1. IsWellFoundedOn(R, Nat)
  BY NatLessThanWellFounded
<1>2. \A x, y \in Nat : x < y => <<x, y>> \in R
  BY Zenon DEF OpToRel
<1> HIDE DEF R
<1>3. PICK x \in T : \A y \in T : ~ (<<y, x>> \in R)
  BY <1>1, WFMin
<1>4. \A y \in T : ~ (y < x)
  BY <1>2, <1>3
<1>5. \A y \in T : x <= y
  BY <1>4
<1> QED BY <1>5

\* The loop of Insert ends at a position, also at the end of the list.
LEMMA PositionFound ==
    ASSUME TypeOK, NEW time \in 0 .. MaxDue
    PROVE  /\ Position(time) \in 1 .. Len(l) + 1
           /\ Position(time) <= Len(l) => t[l[Position(time)]] > time
           /\ \A j \in 1 .. Position(time) - 1 : t[l[j]] <= time
<1>1. /\ Len(l) \in Nat /\ \A k \in 1 .. Len(l) : t[l[k]] \in Nat
  <2>1. l \in Seq(Elems) /\ Len(l) \in Nat /\ \A k \in 1 .. Len(l) : l[k] \in Elems
    BY LenProperties DEF TypeOK
  <2> QED BY <2>1, MsgQueueAssumption DEF TypeOK
<1> DEFINE T == {k \in 1 .. Len(l) + 1 : k <= Len(l) => t[l[k]] > time}
<1>2. T \subseteq Nat /\ Len(l) + 1 \in T
  BY <1>1
<1>3. PICK k \in T : \A y \in T : k <= y
  BY <1>2, LeastNatural
<1>4. k \in 1 .. Len(l) + 1 /\ (k <= Len(l) => t[l[k]] > time)
  OBVIOUS
<1>5. ASSUME NEW j \in 1 .. k - 1 PROVE ~ t[l[j]] > time
  <2>1. j \in 1 .. Len(l) + 1 /\ j < k /\ j <= Len(l)
    BY <1>1, <1>4
  <2>2. j \notin T
    BY <1>3, <1>4, <2>1
  <2> QED BY <2>1, <2>2
<1> HIDE DEF T
<1>6. \E p \in 1 .. Len(l) + 1 : /\ p <= Len(l) => t[l[p]] > time
                                 /\ \A j \in 1 .. p - 1 : ~ t[l[j]] > time
  BY <1>4, <1>5
<1>7. /\ Position(time) \in 1 .. Len(l) + 1
      /\ Position(time) <= Len(l) => t[l[Position(time)]] > time
      /\ \A j \in 1 .. Position(time) - 1 : ~ t[l[j]] > time
  BY <1>6 DEF Position
<1>8. \A j \in 1 .. Position(time) - 1 : t[l[j]] <= time
  <2>1. \A j \in 1 .. Position(time) - 1 : j \in 1 .. Len(l)
    BY <1>1, <1>7
  <2> QED BY <1>1, <1>7, <2>1
<1> QED BY <1>7, <1>8

\* What the list is after an insertion at k.
LEMMA Inserted ==
    ASSUME TypeOK, NEW k \in 1 .. Len(l) + 1, NEW n \in Elems
    PROVE  /\ InsertAt(k, n) \in Seq(Elems)
           /\ Len(InsertAt(k, n)) = Len(l) + 1
           /\ \A j \in 1 .. Len(l) + 1 :
                InsertAt(k, n)[j] = IF j < k THEN l[j] ELSE IF j = k THEN n ELSE l[j - 1]
<1>1. l \in Seq(Elems) /\ Len(l) \in Nat
  BY LenProperties DEF TypeOK
<1> DEFINE a == SubSeq(l, 1, k - 1)
           z == SubSeq(l, k, Len(l))
<1>2. /\ a \in Seq(Elems) /\ Len(a) = k - 1 /\ \A j \in 1 .. k - 1 : a[j] = l[j]
  BY <1>1
<1>3. /\ z \in Seq(Elems) /\ Len(z) = Len(l) - k + 1
      /\ \A j \in 1 .. Len(l) - k + 1 : z[j] = l[k + j - 1]
  BY <1>1
<1>4. <<n>> \in Seq(Elems) /\ Len(<<n>>) = 1 /\ <<n>>[1] = n
  OBVIOUS
<1>5. InsertAt(k, n) = (a \o <<n>>) \o z
  BY DEF InsertAt
<1> HIDE DEF a, z
<1>6. /\ a \o <<n>> \in Seq(Elems) /\ Len(a \o <<n>>) = k
      /\ \A j \in 1 .. k : (a \o <<n>>)[j] = IF j < k THEN l[j] ELSE n
  <2> DEFINE o == <<n>>
  <2>1. o \in Seq(Elems) /\ Len(o) = 1 /\ o[1] = n
    BY <1>4
  <2> HIDE DEF o
  <2>2. /\ a \o o \in Seq(Elems) /\ Len(a \o o) = k
        /\ \A j \in 1 .. k : (a \o o)[j] = IF j <= k - 1 THEN a[j] ELSE o[j - (k - 1)]
    <3>1. /\ a \o o \in Seq(Elems) /\ Len(a \o o) = Len(a) + Len(o)
          /\ \A j \in 1 .. Len(a) + Len(o) :
               (a \o o)[j] = IF j <= Len(a) THEN a[j] ELSE o[j - Len(a)]
      BY <1>2, <2>1, ConcatProperties
    <3>2. Len(a) = k - 1 /\ Len(a) + Len(o) = k
      BY <1>1, <1>2, <2>1
    <3> QED BY <3>1, <3>2
  <2>3. \A j \in 1 .. k : (a \o o)[j] = IF j < k THEN l[j] ELSE n
    BY <1>2, <2>1, <2>2
  <2> QED BY <2>2, <2>3 DEF o
<1> DEFINE b == a \o <<n>>
<1>7. b \in Seq(Elems) /\ Len(b) = k /\ \A j \in 1 .. k : b[j] = IF j < k THEN l[j] ELSE n
  BY <1>6
<1> HIDE DEF b
<1>8. /\ b \o z \in Seq(Elems) /\ Len(b \o z) = Len(l) + 1
      /\ \A j \in 1 .. Len(l) + 1 : (b \o z)[j] = IF j <= k THEN b[j] ELSE z[j - k]
  <2>1. /\ b \o z \in Seq(Elems) /\ Len(b \o z) = Len(b) + Len(z)
        /\ \A j \in 1 .. Len(b) + Len(z) :
             (b \o z)[j] = IF j <= Len(b) THEN b[j] ELSE z[j - Len(b)]
    BY <1>3, <1>7, ConcatProperties
  <2>2. Len(b) = k /\ Len(b) + Len(z) = Len(l) + 1
    BY <1>1, <1>3, <1>7
  <2> QED BY <2>1, <2>2
<1>9. \A j \in 1 .. Len(l) + 1 : j > k => z[j - k] = l[j - 1]
  BY <1>1, <1>3, SMTT(30)
<1>10. InsertAt(k, n) = b \o z
  BY <1>5 DEF b
<1> QED BY <1>1, <1>7, <1>8, <1>9, <1>10

-----------------------------------------------------------------------------
(* The invariant is inductive.                                             *)

\* The empty list is sorted.
LEMMA InitIInv == Init => IInv
<1> SUFFICES ASSUME Init PROVE IInv
  OBVIOUS
<1>1. << >> \in Seq(Elems)
  OBVIOUS
<1>2. TypeOK
  <2>1. recheck \in BOOLEAN /\ canceled \in BOOLEAN
    BY DEF Init
  <2>2. t \in [Elems -> 0 .. MaxDue] /\ now \in 0 .. MaxTime /\ inserted \in 0 .. MaxInserts
    BY MsgQueueAssumption DEF Init
  <2> QED BY <1>1, <2>1, <2>2 DEF Init, TypeOK
<1>3. Sorted
  BY DEF Init, Sorted
<1> QED BY <1>2, <1>3 DEF IInv

\* Insert keeps the list sorted: the new element is behind those of the same time.
LEMMA InsertStep ==
    ASSUME IInv, NEW i \in Inserters, NEW time \in 0 .. MaxDue, Insert(i, time)
    PROVE  IInv'
<1> DEFINE n == inserted + 1
           p == Position(time)
<1>0. TypeOK /\ Sorted
  BY DEF IInv
<1>1. inserted \in Nat /\ n \in Elems /\ n \in Nat
  BY <1>0, MsgQueueAssumption DEF TypeOK, Insert, Elems
<1>2. /\ l \in Seq(Elems) /\ Len(l) \in Nat /\ DOMAIN l = 1 .. Len(l)
      /\ \A k \in 1 .. Len(l) : l[k] \in Elems /\ l[k] \in Nat /\ l[k] <= inserted
  <2>1. l \in Seq(Elems) /\ Len(l) \in Nat /\ DOMAIN l = 1 .. Len(l)
    BY <1>0, LenProperties DEF TypeOK
  <2>2. \A k \in 1 .. Len(l) : l[k] \in Elems
    BY <2>1, LenProperties
  <2> QED BY <1>0, <2>1, <2>2 DEF Sorted, Elems
<1>3. /\ p \in 1 .. Len(l) + 1
      /\ p <= Len(l) => t[l[p]] > time
      /\ \A j \in 1 .. p - 1 : t[l[j]] <= time
  BY <1>0, PositionFound
<1>4. l' = InsertAt(p, n) /\ t' = [t EXCEPT ![n] = time] /\ inserted' = n
  BY DEF Insert
<1> HIDE DEF p, n
<1>5. /\ l' \in Seq(Elems) /\ DOMAIN l' = 1 .. Len(l) + 1
      /\ \A j \in 1 .. Len(l) + 1 :
           l'[j] = IF j < p THEN l[j] ELSE IF j = p THEN n ELSE l[j - 1]
  BY <1>0, <1>1, <1>3, <1>4, Inserted, LenProperties
<1>6. /\ t'[n] = time /\ \A k \in 1 .. Len(l) : t'[l[k]] = t[l[k]]
      /\ \A k \in 1 .. Len(l) : l[k] < n
      /\ \A k \in 1 .. Len(l) : t[l[k]] \in Nat
  <2>1. \A k \in 1 .. Len(l) : l[k] < n
    BY <1>1, <1>2 DEF n
  <2>2. t \in [Elems -> 0 .. MaxDue]
    BY <1>0 DEF TypeOK
  <2>3. \A k \in 1 .. Len(l) : l[k] # n
    BY <1>1, <1>2, <2>1
  <2>4. \A k \in 1 .. Len(l) : t[l[k]] \in Nat
    BY <1>2, <2>2, MsgQueueAssumption
  <2> QED BY <1>1, <1>2, <1>4, <2>1, <2>2, <2>3, <2>4
<1>7. TypeOK'
  <2>1. t' \in [Elems -> 0 .. MaxDue] /\ inserted' \in 0 .. MaxInserts
    BY <1>0, <1>1, <1>4 DEF TypeOK, Elems
  <2>2. ipc' \in [Inserters -> {"idle", "signal"}]
    BY <1>0 DEF TypeOK, Insert
  <2> QED BY <1>0, <1>5, <2>1, <2>2 DEF TypeOK, Insert
<1>8. \A k \in DOMAIN l' : l'[k] <= inserted'
  <2>1. ASSUME NEW k \in DOMAIN l' PROVE l'[k] <= n
    <3>1. CASE k < p
      BY <1>1, <1>2, <1>3, <1>5, <1>6, <3>1
    <3>2. CASE k = p
      BY <1>1, <1>5, <3>2
    <3>3. CASE k > p
      <4>1. k - 1 \in 1 .. Len(l) /\ l'[k] = l[k - 1]
        BY <1>2, <1>3, <1>5, <3>3
      <4> QED BY <1>1, <1>2, <1>6, <4>1
    <3> QED BY <1>2, <1>3, <1>5, <3>1, <3>2, <3>3
  <2> QED BY <1>4, <2>1
<1>9. ASSUME NEW j \in DOMAIN l', NEW k \in DOMAIN l', j < k
      PROVE  Earlier(l[j], l[k])'
  <2>1. \A x, y \in 1 .. Len(l) : x < y => /\ t[l[x]] <= t[l[y]]
                                           /\ t[l[x]] = t[l[y]] => l[x] < l[y]
    <3>1. ASSUME NEW x \in 1 .. Len(l), NEW y \in 1 .. Len(l), x < y
          PROVE  t[l[x]] < t[l[y]] \/ (t[l[x]] = t[l[y]] /\ l[x] < l[y])
      BY <1>0, <1>2, <3>1 DEF Sorted, Earlier
    <3>2. \A x \in 1 .. Len(l) : t[l[x]] \in Nat
      BY <1>6
    <3> QED BY <3>1, <3>2
  <2>2. ASSUME NEW x \in 1 .. Len(l), NEW y \in 1 .. Len(l), x < y,
               l'[j] = l[x], l'[k] = l[y]
        PROVE  Earlier(l[j], l[k])'
    <3>1. t'[l'[j]] = t[l[x]] /\ t'[l'[k]] = t[l[y]]
      BY <1>6, <2>2
    <3>2. t[l[x]] < t[l[y]] \/ (t[l[x]] = t[l[y]] /\ l[x] < l[y])
      <4>1. t[l[x]] \in Nat /\ t[l[y]] \in Nat
        BY <1>6
      <4>2. t[l[x]] <= t[l[y]] /\ (t[l[x]] = t[l[y]] => l[x] < l[y])
        BY <1>2, <2>1, <2>2
      <4> QED BY <4>1, <4>2
    <3> QED BY <2>2, <3>1, <3>2 DEF Earlier
  <2>3. CASE k < p
    BY <1>2, <1>3, <1>5, <1>9, <2>2, <2>3
  <2>4. CASE k = p
    <3>1. j \in 1 .. Len(l) /\ l'[j] = l[j] /\ l'[k] = n /\ t[l[j]] <= time
      BY <1>2, <1>3, <1>5, <1>9, <2>4
    <3> QED BY <1>1, <1>2, <1>6, <3>1 DEF Earlier
  <2>5. CASE k > p
    <3>1. k - 1 \in 1 .. Len(l) /\ l'[k] = l[k - 1]
      BY <1>2, <1>3, <1>5, <2>5
    <3>2. CASE j < p
      BY <1>2, <1>3, <1>5, <2>2, <2>5, <3>1, <3>2
    <3>3. CASE j = p
      <4>1. p \in 1 .. Len(l) /\ t[l[p]] > time /\ l'[j] = n
        BY <1>2, <1>3, <1>5, <2>5, <3>3
      <4>2. t[l[p]] <= t[l[k - 1]]
        <5>1. p = k - 1 \/ p < k - 1
          BY <1>2, <1>3, <1>5, <2>5
        <5>2. CASE p = k - 1
          <6>1. t[l[p]] \in Nat
            BY <1>6, <4>1
          <6> QED BY <5>2, <6>1
        <5>3. CASE p < k - 1
          BY <1>2, <2>1, <3>1, <4>1, <5>3
        <5> QED BY <5>1, <5>2, <5>3
      <4>3. time < t[l[k - 1]]
        BY <1>6, <3>1, <4>1, <4>2
      <4> QED BY <1>6, <3>1, <4>1, <4>3 DEF Earlier
    <3>4. CASE j > p
      <4>1. j - 1 \in 1 .. Len(l) /\ l'[j] = l[j - 1] /\ j - 1 < k - 1
        BY <1>2, <1>3, <1>5, <1>9, <3>4
      <4> QED BY <2>2, <3>1, <4>1
    <3> QED BY <1>2, <1>3, <1>5, <3>2, <3>3, <3>4
  <2> QED BY <1>2, <1>3, <1>5, <2>3, <2>4, <2>5
<1> QED BY <1>7, <1>8, <1>9 DEF IInv, Sorted

\* Remove takes the head, and the rest is sorted as before.
LEMMA RemoveStep ==
    ASSUME IInv, Remove
    PROVE  IInv'
<1>0. TypeOK /\ Sorted /\ l # << >> /\ l' = Tail(l) /\ UNCHANGED <<t, inserted>>
  BY DEF IInv, Remove, Due
<1>1. /\ l \in Seq(Elems) /\ l' \in Seq(Elems) /\ Len(l) \in Nat /\ DOMAIN l = 1 .. Len(l)
      /\ Head(l) \in Elems
      /\ DOMAIN l' = 1 .. Len(l) - 1 /\ \A k \in 1 .. Len(l) - 1 : l'[k] = l[k + 1]
  <2>1. l \in Seq(Elems)
    BY <1>0 DEF TypeOK
  <2> QED BY <1>0, <2>1, HeadTailProperties, LenProperties
<1>2. \A k \in DOMAIN l' : k + 1 \in DOMAIN l /\ l'[k] = l[k + 1]
  BY <1>1
<1>3. TypeOK'
  BY <1>0, <1>1, MsgQueueAssumption, SMTT(30) DEF TypeOK, Remove, Elems
<1>4. Sorted'
  <2>1. \A j, k \in DOMAIN l' : j < k => j + 1 < k + 1
    BY <1>1
  <2> QED BY <1>0, <1>2, <2>1 DEF Sorted, Earlier
<1> QED BY <1>3, <1>4 DEF IInv

\* The invariant is inductive.
THEOREM Invariance == Spec => []IInv
<1>1. ASSUME IInv, [Next]_vars PROVE IInv'
  <2>0. TypeOK /\ Sorted
    BY <1>1 DEF IInv
  <2>1. ASSUME NEW i \in Inserters, Signal(i) PROVE IInv'
    BY <2>0, <2>1 DEF IInv, TypeOK, Sorted, Earlier, Signal
  <2>2. CASE Look
    <3>1. delay' \in Int
      <4>1. l # << >> => Head(l) \in Elems
        BY <2>0, HeadTailProperties DEF TypeOK
      <4> QED BY <2>0, <2>2, <4>1, MsgQueueAssumption DEF TypeOK, Look
    <3> QED BY <2>0, <2>2, <3>1 DEF IInv, TypeOK, Sorted, Earlier, Look
  <2>3. CASE Arm
    BY <2>0, <2>3 DEF IInv, TypeOK, Sorted, Earlier, Arm
  <2>4. CASE Timer
    BY <2>0, <2>4 DEF IInv, TypeOK, Sorted, Earlier, Timer
  <2>5. CASE Recheck
    <3>1. recheck' \in BOOLEAN
      BY <2>5 DEF Recheck
    <3>2. TypeOK'
      BY <2>0, <2>5, <3>1 DEF TypeOK, Recheck
    <3> QED BY <2>0, <2>5, <3>2 DEF IInv, Sorted, Earlier, Recheck
  <2>6. CASE NothingDue
    BY <2>0, <2>6 DEF IInv, TypeOK, Sorted, Earlier, NothingDue
  <2>7. CASE Receive
    <3>1. hand \in Elems
      BY <2>0, <2>7, MsgQueueAssumption DEF TypeOK, Receive, Elems
    <3>2. TypeOK'
      BY <2>0, <2>7, <3>1, MsgQueueAssumption DEF TypeOK, Receive
    <3> QED BY <2>0, <2>7, <3>2 DEF IInv, Sorted, Earlier, Receive
  <2>8. CASE GiveUp
    BY <2>0, <2>8, MsgQueueAssumption DEF IInv, TypeOK, Sorted, Earlier, GiveUp
  <2>9. CASE Return
    BY <2>0, <2>9 DEF IInv, TypeOK, Sorted, Earlier, Return
  <2>10. CASE Tick
    BY <2>0, <2>10, MsgQueueAssumption DEF IInv, TypeOK, Sorted, Earlier, Tick
  <2>11. CASE Cancel
    BY <2>0, <2>11 DEF IInv, TypeOK, Sorted, Earlier, Cancel
  <2>12. CASE UNCHANGED vars
    BY <2>0, <2>12 DEF IInv, TypeOK, Sorted, Earlier, vars
  <2> QED BY <1>1, <2>1, <2>2, <2>3, <2>4, <2>5, <2>6, <2>7, <2>8, <2>9, <2>10, <2>11, <2>12,
             InsertStep, RemoveStep DEF Next, Pop
<1> QED BY InitIInv, <1>1, PTL DEF Spec

-----------------------------------------------------------------------------
(* The refinement.                                                         *)

\* What the queue holds, for the contract.
Pending == {[n |-> l[k], time |-> t[l[k]]] : k \in DOMAIN l}

\* Insert of the contract.
LEMMA InsertRefines ==
    ASSUME IInv, NEW i \in Inserters, NEW time \in 0 .. MaxDue, Insert(i, time)
    PROVE  Contract!Insert(time)
<1> DEFINE n == inserted + 1
           p == Position(time)
<1>0. TypeOK /\ Sorted
  BY DEF IInv
<1>1. inserted \in Nat /\ n \in Elems
  BY <1>0, MsgQueueAssumption DEF TypeOK, Insert, Elems
<1>2. /\ Len(l) \in Nat /\ DOMAIN l = 1 .. Len(l)
      /\ \A k \in 1 .. Len(l) : l[k] \in Elems /\ l[k] <= inserted
  <2>1. l \in Seq(Elems) /\ Len(l) \in Nat /\ DOMAIN l = 1 .. Len(l)
    BY <1>0, LenProperties DEF TypeOK
  <2>2. \A k \in 1 .. Len(l) : l[k] \in Elems
    BY <2>1, LenProperties
  <2> QED BY <1>0, <2>1, <2>2 DEF Sorted
<1>3. p \in 1 .. Len(l) + 1
  BY <1>0, PositionFound
<1>4. l' = InsertAt(p, n) /\ t' = [t EXCEPT ![n] = time] /\ inserted' = n
  BY DEF Insert
<1> HIDE DEF p
<1>5. /\ DOMAIN l' = 1 .. Len(l) + 1
      /\ \A j \in 1 .. Len(l) + 1 :
           l'[j] = IF j < p THEN l[j] ELSE IF j = p THEN n ELSE l[j - 1]
  BY <1>0, <1>1, <1>3, <1>4, Inserted, LenProperties, SMTT(30)
<1>6. t'[n] = time /\ \A k \in 1 .. Len(l) : t'[l[k]] = t[l[k]]
  <2>1. \A k \in 1 .. Len(l) : l[k] # n
    BY <1>1, <1>2 DEF Elems
  <2>2. t \in [Elems -> 0 .. MaxDue]
    BY <1>0 DEF TypeOK
  <2> QED BY <1>1, <1>2, <1>4, <2>1, <2>2
<1> DEFINE e == [n |-> n, time |-> time]
<1>7. Pending' = {[n |-> l'[k], time |-> t'[l'[k]]] : k \in DOMAIN l'}
  BY DEF Pending
<1>8. Pending' = Pending \cup {e}
  <2>1. ASSUME NEW k \in DOMAIN l PROVE [n |-> l[k], time |-> t[l[k]]] \in Pending'
    <3>1. PICK j \in DOMAIN l' : l'[j] = l[k]
      <4>1. CASE k < p
        <5>1. k \in DOMAIN l' /\ l'[k] = l[k]
          BY <1>2, <1>5, <4>1
        <5> QED BY <5>1
      <4>2. CASE k >= p
        <5>1. k + 1 \in DOMAIN l' /\ l'[k + 1] = l[k]
          BY <1>2, <1>3, <1>5, <4>2
        <5> QED BY <5>1
      <4> QED BY <1>2, <1>3, <4>1, <4>2
    <3>2. t'[l'[j]] = t[l[k]]
      BY <1>2, <1>6, <3>1
    <3> QED BY <1>7, <3>1, <3>2
  <2>2. e \in Pending'
    <3>1. p \in DOMAIN l' /\ l'[p] = n
      BY <1>2, <1>3, <1>5
    <3> QED BY <1>6, <1>7, <3>1
  <2>3. ASSUME NEW j \in DOMAIN l'
        PROVE  [n |-> l'[j], time |-> t'[l'[j]]] \in Pending \cup {e}
    <3>1. CASE j = p
      BY <1>5, <1>6, <3>1
    <3>2. CASE j # p
      <4>1. \E k \in DOMAIN l : l'[j] = l[k]
        <5>1. CASE j < p
          <6>1. j \in DOMAIN l /\ l'[j] = l[j]
            BY <1>2, <1>3, <1>5, <5>1
          <6> QED BY <6>1
        <5>2. CASE j > p
          <6>1. j - 1 \in DOMAIN l /\ l'[j] = l[j - 1]
            BY <1>2, <1>3, <1>5, <5>2
          <6> QED BY <6>1
        <5> QED BY <1>2, <1>3, <1>5, <3>2, <5>1, <5>2
      <4> QED BY <1>2, <1>6, <4>1 DEF Pending
    <3> QED BY <3>1, <3>2
  <2> HIDE DEF e
  <2> QED BY <1>7, <2>1, <2>2, <2>3 DEF Pending
<1> QED BY <1>4, <1>8 DEF Contract!Insert, Insert, Pending

\* Remove takes the first of what the contract has.
LEMMA RemoveRefines ==
    ASSUME IInv, Remove
    PROVE  \E e \in Pending : Contract!Take(e)
<1>0. /\ TypeOK /\ Sorted /\ l # << >> /\ l' = Tail(l) /\ hand' = Head(l) /\ hand = 0
      /\ now > t[Head(l)] /\ UNCHANGED <<now, t, inserted, popped, canceled>>
  BY DEF IInv, Remove, Due, TypeOK
<1>1. /\ Len(l) \in Nat \ {0} /\ DOMAIN l = 1 .. Len(l) /\ Head(l) = l[1]
      /\ DOMAIN l' = 1 .. Len(l) - 1 /\ \A k \in 1 .. Len(l) - 1 : l'[k] = l[k + 1]
      /\ \A k \in 1 .. Len(l) : l[k] \in Elems
  <2>1. l \in Seq(Elems)
    BY <1>0 DEF TypeOK
  <2> QED BY <1>0, <2>1, HeadTailProperties, LenProperties, EmptySeq
<1>e. PICK e : e = [n |-> l[1], time |-> t[l[1]]]
  OBVIOUS
<1> DEFINE at(k) == [n |-> l[k], time |-> t[l[k]]]
<1>2. \A k \in DOMAIN l : k # 1 => Earlier(l[1], l[k])
  BY <1>0, <1>1 DEF Sorted
<1>3. \A k \in DOMAIN l : k # 1 => at(k) # e /\ Contract!Before(e, at(k))
  <2>1. t[l[1]] \in Nat /\ l[1] \in Nat
    BY <1>0, <1>1, MsgQueueAssumption DEF TypeOK, Elems
  <2>2. ASSUME NEW k \in DOMAIN l, k # 1 PROVE at(k) # e /\ Contract!Before(e, at(k))
    <3>1. t[l[1]] < t[l[k]] \/ (t[l[1]] = t[l[k]] /\ l[1] < l[k])
      BY <1>2, <2>2 DEF Earlier
    <3>2. e.n = l[1] /\ e.time = t[l[1]] /\ at(k).n = l[k] /\ at(k).time = t[l[k]]
      BY <1>e
    <3> QED BY <2>1, <3>1, <3>2 DEF Contract!Before
  <2> QED BY <2>2
<1>4. Pending = {at(k) : k \in DOMAIN l} /\ e \in Pending /\ e = at(1)
  BY <1>1, <1>e DEF Pending
<1>5. Pending' = {at(k) : k \in DOMAIN l \ {1}}
  <2>1. Pending' = {[n |-> l'[k], time |-> t[l'[k]]] : k \in DOMAIN l'}
    BY <1>0 DEF Pending
  <2>2. \A k \in DOMAIN l' : k + 1 \in DOMAIN l \ {1} /\ l'[k] = l[k + 1]
    BY <1>1
  <2>3. \A k \in DOMAIN l \ {1} : k - 1 \in DOMAIN l' /\ l'[k - 1] = l[k]
    BY <1>1
  <2> QED BY <2>1, <2>2, <2>3
<1>6. e.n = l[1] /\ e.time = t[l[1]]
  BY <1>e
<1> HIDE DEF at
<1>7. Pending' = Pending \ {e}
  BY <1>1, <1>3, <1>4, <1>5
<1>8. \A f \in Pending \ {e} : Contract!Before(e, f)
  BY <1>3, <1>4
<1>9. e.time < now
  <2>1. t[l[1]] \in Nat /\ now \in Nat
    BY <1>0, <1>1, MsgQueueAssumption DEF TypeOK
  <2> QED BY <1>0, <1>1, <1>6, <2>1
<1>10. Contract!Take(e)
  <2>1. Contract!Take(e) <=>
          /\ hand = 0 /\ e.time < now
          /\ \A f \in Pending \ {e} : Contract!Before(e, f)
          /\ Pending' = Pending \ {e} /\ hand' = e.n
          /\ UNCHANGED <<now, inserted, popped, canceled>>
    BY DEF Contract!Take, Pending
  <2> QED BY <1>0, <1>1, <1>6, <1>7, <1>8, <1>9, <2>1
<1> QED BY <1>4, <1>10

\* The queue keeps its promise: it hands out each element once, when its time has
\* come, the earliest first and those of the same time in the order of their
\* insertion, and loses none before the context is done, whoever inserts while the
\* goroutine of Pop sleeps, looks at the list or waits for the receiver.
THEOREM QueueIsTimed == Spec => ImplementsTimedQueue
<1>1. Init => Contract!Init
  BY DEF Init, Contract!Init
<1>2. ASSUME IInv, [Next]_vars PROVE [Contract!Next]_(Contract!vars)
  <2>0. TypeOK
    BY <1>2 DEF IInv
  <2> USE DEF Contract!Next
  <2>1. ASSUME NEW i \in Inserters, NEW time \in 0 .. MaxDue, Insert(i, time)
        PROVE  Contract!Next
    BY <1>2, <2>1, InsertRefines
  <2>2. CASE Remove
    BY <1>2, <2>2, RemoveRefines DEF Pending
  <2>3. CASE Receive
    BY <2>0, <2>3 DEF TypeOK, Receive, Contract!HandOut
  <2>4. CASE GiveUp
    BY <2>0, <2>4 DEF TypeOK, GiveUp, Contract!Drop
  <2>5. CASE Tick
    BY <2>5 DEF Tick, Contract!Tick
  <2>6. CASE Cancel
    BY <2>6 DEF Cancel, Contract!Cancel
  <2> HIDE DEF Contract!Next
  <2>7. ASSUME NEW i \in Inserters, Signal(i) PROVE UNCHANGED Contract!vars
    BY <2>7 DEF Signal, Contract!vars
  <2>8. CASE \/ Look \/ Arm \/ Timer \/ Recheck \/ NothingDue \/ Return \/ UNCHANGED vars
    BY <2>8 DEF Look, Arm, Timer, Recheck, NothingDue, Return, vars, Contract!vars
  <2> QED BY <1>2, <2>1, <2>2, <2>3, <2>4, <2>5, <2>6, <2>7, <2>8 DEF Next, Pop
<1> QED BY <1>1, <1>2, Invariance, PTL DEF Spec, ImplementsTimedQueue, Contract!Spec
=============================================================================
