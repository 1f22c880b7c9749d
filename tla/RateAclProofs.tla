---------------------------- MODULE RateAclProofs --------------------------
(***************************************************************************)
(* The overshoot of a rate limit is bounded, for any lists, limits and     *)
(* windows, and any number of calls at the same time.                      *)
(***************************************************************************)
EXTENDS RateAcl, FiniteSetTheorems, SequenceTheorems, WellFoundedInduction, TLAPS

-----------------------------------------------------------------------------
(* The inductive invariant.                                                *)

\* The part of the types that the counters depend on.
RateType ==
    /\ pc \in [Callers -> {"idle", "ask", "incr", "wait", "admitted", "denied"}]
    /\ list \in [Callers -> Lists]
    /\ DOMAIN recent = Lists
    /\ \A j \in Lists : recent[j] \in [DOMAIN Acl[j] -> Seq(Nat)]

\* Only a Push asks the second list, and only a caller that the list permits, and
\* that is not the node itself, comes to Incr.
OnTheWay ==
    \A c \in Callers :
        /\ pc[c] \in {"ask", "incr"} /\ list[c] = 2 => c \in Pushers
        /\ pc[c] = "incr" => c \notin Owner[list[c]] /\ Permits(list[c], c)

IInv == RateType /\ OnTheWay /\ BoundedOvershoot

-----------------------------------------------------------------------------
(* The lemmas.                                                             *)

\* A set of natural numbers that is not empty has a least element.
LEMMA LeastNatural ==
    ASSUME NEW T, T \subseteq Nat, T # {}
    PROVE  \E x \in T : \A y \in T : x <= y
<1> DEFINE R == OpToRel(<, Nat)
<1>1. IsWellFoundedOn(R, Nat)
  BY NatLessThanWellFounded
<1>2. \A x, y \in Nat : x < y => <<x, y>> \in R
  BY Zenon DEF OpToRel
<1> HIDE DEF R
<1>3. PICK x \in T : \A y \in T : ~ (<<y, x>> \in R)
  BY <1>1, WFMin
<1>4. \A y \in T : ~ (y < x)
  BY <1>2, <1>3
<1>5. \A y \in T : x <= y
  BY <1>4
<1> QED BY <1>5

\* The entry that decides about a caller is one of the list.
LEMMA EntryExists ==
    ASSUME NEW j \in Lists, NEW c, Permits(j, c)
    PROVE  Entry(j, c) \in DOMAIN Acl[j]
<1>1. Acl[j] \in Seq([who : SUBSET Callers, limit : Nat])
  BY RateAclAssumption DEF Lists
<1>2. DOMAIN Acl[j] \subseteq Nat
  BY <1>1, LenProperties
<1>3. Includes(j, c) \subseteq Nat /\ Includes(j, c) # {}
  BY <1>2 DEF Includes, Permits
<1>4. \E i \in Includes(j, c) : \A k \in Includes(j, c) : i <= k
  BY <1>3, LeastNatural
<1>5. Entry(j, c) \in Includes(j, c)
  BY <1>4 DEF Entry
<1> QED BY <1>5 DEF Includes

\* The callers of an entry are finitely many, and so are those on their way.
LEMMA Finite ==
    ASSUME NEW j, NEW i
    PROVE  /\ IsFiniteSet(May(j, i)) /\ Cardinality(May(j, i)) \in Nat
           /\ IsFiniteSet(Passing(j, i)) /\ Cardinality(Passing(j, i)) \in Nat
<1>1. May(j, i) \in SUBSET Callers /\ Passing(j, i) \in SUBSET Callers
  BY DEF May, Passing
<1>2. IsFiniteSet(May(j, i)) /\ IsFiniteSet(Passing(j, i))
  BY <1>1, FS_Subset, RateAclAssumption
<1> QED BY <1>2, FS_CardinalityType

\* A counter is a natural number, and so is a limit.
LEMMA CountIsNat ==
    ASSUME RateType, NEW j \in Lists, NEW i \in DOMAIN Acl[j]
    PROVE  recent[j][i] \in Seq(Nat) /\ Count(j, i) \in Nat /\ Acl[j][i].limit \in Nat
<1>1. Acl[j] \in Seq([who : SUBSET Callers, limit : Nat])
  BY RateAclAssumption DEF Lists
<1>2. Acl[j][i] \in [who : SUBSET Callers, limit : Nat]
  <2>1. i \in 1 .. Len(Acl[j])
    BY <1>1, LenProperties
  <2> QED BY <1>1, <2>1, ElementOfSeq
<1>3. recent[j][i] \in Seq(Nat)
  BY DEF RateType
<1> QED BY <1>2, <1>3, LenProperties DEF Count

\* Multiplication keeps the order.
LEMMA TimesMonotone ==
    ASSUME NEW a \in Nat, NEW b \in Nat, NEW k \in Nat, a <= b
    PROVE  a * k \in Nat /\ b * k \in Nat /\ a * k <= b * k
<1>1. a * k \in Nat /\ b * k \in Nat
  OBVIOUS
<1>2. PICK d \in Nat : b = a + d
  <2>1. b - a \in Nat /\ b = a + (b - a)
    OBVIOUS
  <2> QED BY <2>1
<1>3. d * k \in Nat
  OBVIOUS
<1>4. (a + d) * k = a * k + d * k
  OBVIOUS
<1>5. b * k = a * k + d * k
  BY <1>2, <1>4
<1> QED BY <1>1, <1>3, <1>5

\* A smaller number of calls is within the bound too.
LEMMA FewerAreWithin ==
    ASSUME NEW j \in Lists, NEW i \in DOMAIN Acl[j], NEW a \in Nat, NEW b \in Nat,
           Acl[j][i].limit \in Nat, a <= b, Within(j, i, b)
    PROVE  Within(j, i, a)
<1>1. Scale \in Nat /\ Steps \in Nat
  BY RateAclAssumption
<1>2. a * Scale \in Nat /\ b * Scale \in Nat /\ a * Scale <= b * Scale
  BY <1>1, TimesMonotone
<1>3. Acl[j][i].limit * Steps \in Nat /\ Cardinality(May(j, i)) * Scale \in Nat
  <2>1. Cardinality(May(j, i)) \in Nat
    BY Finite
  <2> QED BY <1>1, <2>1
<1>4. b * Scale < Acl[j][i].limit * Steps + Cardinality(May(j, i)) * Scale
  BY DEF Within
<1>5. a * Scale < Acl[j][i].limit * Steps + Cardinality(May(j, i)) * Scale
  BY <1>2, <1>3, <1>4
<1> QED BY <1>5 DEF Within

\* Below the limit there is room for one call of each caller of the entry.
LEMMA BelowLimit ==
    ASSUME NEW j \in Lists, NEW i \in DOMAIN Acl[j], NEW n \in Nat, NEW p \in Nat,
           Acl[j][i].limit \in Nat, n * Scale < Acl[j][i].limit * Steps,
           p <= Cardinality(May(j, i))
    PROVE  Within(j, i, n + p)
<1>1. Scale \in Nat /\ Steps \in Nat /\ Cardinality(May(j, i)) \in Nat
  BY RateAclAssumption, Finite
<1>2. /\ p * Scale \in Nat /\ Cardinality(May(j, i)) * Scale \in Nat
      /\ p * Scale <= Cardinality(May(j, i)) * Scale
  BY <1>1, TimesMonotone
<1>3. n * Scale \in Nat /\ Acl[j][i].limit * Steps \in Nat
  BY <1>1
<1>4. (n + p) * Scale = n * Scale + p * Scale
  BY <1>1
<1>5. (n + p) * Scale < Acl[j][i].limit * Steps + Cardinality(May(j, i)) * Scale
  BY <1>2, <1>3, <1>4
<1> QED BY <1>5 DEF Within

\* A counter never counts more because time passes.
LEMMA OlderIsShorter ==
    ASSUME NEW ages \in Seq(Nat)
    PROVE  Older(ages) \in Seq(Nat) /\ Len(Older(ages)) <= Len(ages)
<1> DEFINE kept == {n \in DOMAIN ages : ages[n] < Steps}
<1>1. Len(ages) \in Nat /\ DOMAIN ages = 1 .. Len(ages)
      /\ \A n \in 1 .. Len(ages) : ages[n] \in Nat
  BY LenProperties, ElementOfSeq
<1>2. /\ IsFiniteSet(1 .. Len(ages))
      /\ Cardinality(1 .. Len(ages)) = IF 1 > Len(ages) THEN 0 ELSE Len(ages) - 1 + 1
  BY <1>1, FS_Interval, SMTT(30)
<1>3. Cardinality(1 .. Len(ages)) = Len(ages)
  BY <1>1, <1>2
<1>4. IsFiniteSet(kept) /\ Cardinality(kept) <= Cardinality(1 .. Len(ages))
  <2>1. kept \in SUBSET (1 .. Len(ages))
    BY <1>1
  <2> HIDE DEF kept
  <2> QED BY <2>1, <1>2, FS_Subset
<1>5. Cardinality(kept) \in Nat
  BY <1>4, FS_CardinalityType
<1>6. Older(ages) = [n \in 1 .. Cardinality(kept) |-> ages[n] + 1]
  BY DEF Older
<1> DEFINE k == Cardinality(kept)
<1>7. k \in Nat /\ k <= Len(ages)
  BY <1>3, <1>4, <1>5
<1>8. Older(ages) = [n \in 1 .. k |-> ages[n] + 1]
  BY <1>6
<1> HIDE DEF k, kept
<1>9. \A n \in 1 .. k : ages[n] + 1 \in Nat
  BY <1>1, <1>7
<1>10. Older(ages) \in Seq(Nat) /\ Len(Older(ages)) = k
  BY <1>7, <1>8, <1>9
<1> QED BY <1>7, <1>10

-----------------------------------------------------------------------------
(* The steps.                                                              *)

\* No call has been made: the counters are 0, and nobody is on the way.
LEMMA InitIInv == Init => IInv
<1> SUFFICES ASSUME Init PROVE IInv
  OBVIOUS
<1>1. << >> \in Seq(Nat) /\ Len(<< >>) = 0
  BY EmptySeq
<1>2. RateType
  BY <1>1 DEF Init, RateType, Lists
<1>3. OnTheWay
  BY DEF Init, OnTheWay
<1>4. ASSUME NEW j \in Lists, NEW i \in DOMAIN Acl[j], Acl[j][i].limit > 0
      PROVE  Within(j, i, Count(j, i) + Cardinality(Passing(j, i)))
  <2>1. Passing(j, i) = {}
    BY DEF Init, Passing, May
  <2>2. Cardinality(Passing(j, i)) = 0
    BY <2>1, FS_EmptySet
  <2>3. Count(j, i) = 0
    BY <1>1, <1>4 DEF Init, Count
  <2>4. Cardinality(May(j, i)) \in Nat /\ Acl[j][i].limit \in Nat
    BY <1>2, <1>4, Finite, CountIsNat
  <2>5. 0 * Scale < Acl[j][i].limit * Steps
    <3>1. 0 * Scale = 0
      BY RateAclAssumption
    <3>2. Acl[j][i].limit * Steps > 0
      <4>1. Steps \in Nat /\ 1 <= Steps /\ 1 <= Acl[j][i].limit
        BY <1>4, <2>4, RateAclAssumption
      <4>2. 1 * Steps <= Acl[j][i].limit * Steps /\ Acl[j][i].limit * Steps \in Nat
        BY <4>1, <2>4, TimesMonotone
      <4>3. 1 * Steps = Steps
        BY <4>1
      <4> QED BY <4>1, <4>2, <4>3
    <3> QED BY <3>1, <3>2
  <2>6. Within(j, i, 0 + 0)
    BY <2>4, <2>5, BelowLimit
  <2> QED BY <2>2, <2>3, <2>6
<1> QED BY <1>2, <1>3, <1>4 DEF IInv, BoundedOvershoot

\* Every step keeps the types, and who comes to Incr.
LEMMA WayStep ==
    ASSUME IInv, [Next]_vars
    PROVE  RateType' /\ OnTheWay'
<1>t. RateType /\ OnTheWay
  BY DEF IInv
<1>1. CASE UNCHANGED vars
  BY <1>1, <1>t DEF vars, RateType, OnTheWay
<1>2. CASE Tick
  <2>1. UNCHANGED <<pc, list>>
    BY <1>2 DEF Tick
  <2>2. ASSUME NEW j \in Lists PROVE recent'[j] \in [DOMAIN Acl[j] -> Seq(Nat)]
    <3>1. recent'[j] = [i \in DOMAIN Acl[j] |-> Older(recent[j][i])]
      BY <1>2 DEF Tick
    <3>2. ASSUME NEW i \in DOMAIN Acl[j] PROVE Older(recent[j][i]) \in Seq(Nat)
      BY <1>t, CountIsNat, OlderIsShorter
    <3> QED BY <3>1, <3>2
  <2>3. DOMAIN recent' = Lists
    BY <1>2 DEF Tick
  <2> QED BY <1>t, <2>1, <2>2, <2>3 DEF RateType, OnTheWay
<1>l. 1 \in Lists /\ 2 \in Lists /\ 1 # 2
  BY DEF Lists
<1>w. ASSUME NEW c \in Callers, \A d \in Callers \ {c} : pc'[d] = pc[d] /\ list'[d] = list[d],
             pc'[c] \in {"ask", "incr"} /\ list'[c] = 2 => c \in Pushers,
             pc'[c] = "incr" => c \notin Owner[list'[c]] /\ Permits(list'[c], c)
      PROVE  OnTheWay'
  <2>1. ASSUME NEW d \in Callers
        PROVE  /\ pc'[d] \in {"ask", "incr"} /\ list'[d] = 2 => d \in Pushers
               /\ pc'[d] = "incr" => d \notin Owner[list'[d]] /\ Permits(list'[d], d)
    <3>1. CASE d = c
      BY <1>w, <3>1
    <3>2. CASE d # c
      <4>1. pc'[d] = pc[d] /\ list'[d] = list[d]
        BY <1>w, <3>2
      <4> QED BY <4>1, <1>t DEF OnTheWay
    <3> QED BY <3>1, <3>2
  <2> QED BY <2>1 DEF OnTheWay
<1>3. ASSUME NEW c \in Callers,
             \/ AuthorizeOwner(c) \/ AuthorizeDenies(c) \/ AuthorizeRate(c)
             \/ Call(c) \/ Retry(c)
      PROVE  RateType' /\ OnTheWay'
  <2>1. recent' = recent
    BY <1>3 DEF AuthorizeOwner, AuthorizeDenies, AuthorizeRate, Call, Retry
  <2>2. /\ pc' \in [Callers -> {"idle", "ask", "incr", "wait", "admitted", "denied"}]
        /\ list' \in [Callers -> Lists]
        /\ \A d \in Callers \ {c} : pc'[d] = pc[d] /\ list'[d] = list[d]
    BY <1>3, <1>t, <1>l DEF AuthorizeOwner, AuthorizeDenies, AuthorizeRate, Passes, Call,
       Retry, RateType
  <2>3. /\ pc'[c] \in {"ask", "incr"} /\ list'[c] = 2 => c \in Pushers
        /\ pc'[c] = "incr" => c \notin Owner[list'[c]] /\ Permits(list'[c], c)
    BY <1>3, <1>t, <1>l DEF AuthorizeOwner, AuthorizeDenies, AuthorizeRate, Passes, Call,
       Retry, RateType, OnTheWay
  <2> QED BY <2>1, <2>2, <2>3, <1>t, <1>w DEF RateType
<1>4. ASSUME NEW c \in Callers, Incr(c) PROVE RateType' /\ OnTheWay'
  <2> DEFINE j == list[c]
             e == Entry(j, c)
  <2>1. j \in Lists /\ e \in DOMAIN Acl[j]
    BY <1>4, <1>t, EntryExists DEF Incr, RateType, OnTheWay
  <2>2. recent[j][e] \in Seq(Nat) /\ <<1>> \o recent[j][e] \in Seq(Nat)
    <3>1. recent[j][e] \in Seq(Nat)
      BY <2>1, <1>t, CountIsNat
    <3>2. <<1>> \in Seq(Nat)
      OBVIOUS
    <3> QED BY <3>1, <3>2, ConcatProperties
  <2>3. recent' = [recent EXCEPT ![j][e] = <<1>> \o recent[j][e]]
    BY <1>4 DEF Incr
  <2>4. DOMAIN recent' = Lists /\ \A n \in Lists : recent'[n] \in [DOMAIN Acl[n] -> Seq(Nat)]
    <3> HIDE DEF e, j
    <3> QED BY <2>1, <2>2, <2>3, <1>t DEF RateType
  <2>5. /\ pc' \in [Callers -> {"idle", "ask", "incr", "wait", "admitted", "denied"}]
        /\ list' \in [Callers -> Lists]
        /\ \A d \in Callers \ {c} : pc'[d] = pc[d] /\ list'[d] = list[d]
    BY <1>4, <1>t, <1>l DEF Incr, Passes, RateType
  <2>6. /\ pc'[c] \in {"ask", "incr"} /\ list'[c] = 2 => c \in Pushers
        /\ pc'[c] # "incr"
    BY <1>4, <1>t, <1>l DEF Incr, Passes, RateType, OnTheWay
  <2> QED BY <2>4, <2>5, <2>6, <1>w DEF RateType
<1> QED BY <1>1, <1>2, <1>3, <1>4 DEF Next, Authorize

\* The bound is kept by a step after which the entry counts no more, and no more
\* calls are on their way to it.
LEMMA BoundFrame ==
    ASSUME IInv, RateType', NEW j \in Lists, NEW i \in DOMAIN Acl[j], Acl[j][i].limit > 0,
           Count(j, i)' <= Count(j, i), Passing(j, i)' \subseteq Passing(j, i)
    PROVE  Within(j, i, Count(j, i)' + Cardinality(Passing(j, i)'))
<1>1. Within(j, i, Count(j, i) + Cardinality(Passing(j, i)))
  BY DEF IInv, BoundedOvershoot
<1>2. /\ Count(j, i) \in Nat /\ Acl[j][i].limit \in Nat
      /\ Cardinality(May(j, i)) \in Nat /\ Cardinality(Passing(j, i)) \in Nat
      /\ IsFiniteSet(Passing(j, i))
  BY CountIsNat, Finite DEF IInv
<1>3. Count(j, i)' \in Nat
  <2>1. recent'[j][i] \in Seq(Nat)
    BY DEF RateType
  <2> QED BY <2>1, LenProperties DEF Count
<1>4. /\ Cardinality(Passing(j, i)') <= Cardinality(Passing(j, i))
      /\ IsFiniteSet(Passing(j, i)')
  BY <1>2, FS_Subset
<1>5. Cardinality(Passing(j, i)') \in Nat
  BY <1>4, FS_CardinalityType
<1>6. /\ Count(j, i)' + Cardinality(Passing(j, i)') \in Nat
      /\ Count(j, i) + Cardinality(Passing(j, i)) \in Nat
      /\ Count(j, i)' + Cardinality(Passing(j, i)') <= Count(j, i) + Cardinality(Passing(j, i))
  BY <1>2, <1>3, <1>4, <1>5
<1> QED BY <1>1, <1>2, <1>6, FewerAreWithin

\* Every step keeps the bound: a call joins those on their way only when the rate
\* is below the limit, and Incr moves it from there into the counter.
LEMMA BoundStep ==
    ASSUME IInv, [Next]_vars, RateType'
    PROVE  BoundedOvershoot'
<1> SUFFICES ASSUME NEW j \in Lists, NEW i \in DOMAIN Acl[j], Acl[j][i].limit > 0
             PROVE  Within(j, i, Count(j, i)' + Cardinality(Passing(j, i)'))
  <2>1. \A j \in Lists : \A i \in DOMAIN Acl[j] : May(j, i)' = May(j, i)
    BY DEF May, Permits, Includes, Entry
  <2> QED BY <2>1 DEF BoundedOvershoot, Within
<1>t. RateType /\ OnTheWay
  BY DEF IInv
<1>n. /\ Count(j, i) \in Nat /\ Acl[j][i].limit \in Nat
      /\ Cardinality(May(j, i)) \in Nat /\ Cardinality(Passing(j, i)) \in Nat
      /\ IsFiniteSet(Passing(j, i)) /\ IsFiniteSet(May(j, i))
  BY <1>t, CountIsNat, Finite
<1>m. Passing(j, i)' = {c \in May(j, i) : pc'[c] = "incr" /\ list'[c] = j}
  BY DEF Passing, May, Permits, Includes, Entry
<1>k. ASSUME recent' = recent, \A c \in Callers : pc'[c] = "incr" => pc[c] = "incr" /\ list'[c] = list[c]
      PROVE  Within(j, i, Count(j, i)' + Cardinality(Passing(j, i)'))
  <2>1. Count(j, i)' = Count(j, i) /\ Passing(j, i)' \subseteq Passing(j, i)
    BY <1>k, <1>m DEF Count, Passing, May
  <2> QED BY <2>1, <1>n, BoundFrame
<1>1. CASE UNCHANGED vars
  BY <1>1, <1>k DEF vars
<1>2. CASE Tick
  <2>1. Count(j, i)' <= Count(j, i)
    <3>1. recent'[j][i] = Older(recent[j][i])
      BY <1>2 DEF Tick
    <3> QED BY <3>1, <1>t, CountIsNat, OlderIsShorter DEF Count
  <2>2. Passing(j, i)' \subseteq Passing(j, i)
    BY <1>2, <1>m DEF Tick, Passing
  <2> QED BY <2>1, <2>2, BoundFrame
<1>3. ASSUME NEW c \in Callers,
             AuthorizeOwner(c) \/ AuthorizeDenies(c) \/ Call(c) \/ Retry(c)
      PROVE  Within(j, i, Count(j, i)' + Cardinality(Passing(j, i)'))
  <2>1. recent' = recent
    BY <1>3 DEF AuthorizeOwner, AuthorizeDenies, Call, Retry
  <2>2. \A d \in Callers : pc'[d] = "incr" => pc[d] = "incr" /\ list'[d] = list[d]
    BY <1>3, <1>t DEF AuthorizeOwner, AuthorizeDenies, Passes, Call, Retry, RateType
  <2> QED BY <2>1, <2>2, <1>k
<1>4. ASSUME NEW c \in Callers, AuthorizeRate(c)
      PROVE  Within(j, i, Count(j, i)' + Cardinality(Passing(j, i)'))
  <2>1. recent' = recent /\ list' = list
    BY <1>4 DEF AuthorizeRate
  <2>2. CASE c \notin May(j, i) \/ list[c] # j \/ Exceeded(list[c], Entry(list[c], c))
    <3>1. Passing(j, i)' \subseteq Passing(j, i)
      BY <1>4, <2>1, <2>2, <1>m, <1>t DEF AuthorizeRate, Passing, May, RateType
    <3>2. Count(j, i)' = Count(j, i)
      BY <2>1 DEF Count
    <3> QED BY <3>1, <3>2, <1>n, BoundFrame
  <2>3. CASE c \in May(j, i) /\ list[c] = j /\ ~ Exceeded(list[c], Entry(list[c], c))
    <3>1. Entry(j, c) = i
      BY <2>3 DEF May
    <3>2. Count(j, i) * Scale < Acl[j][i].limit * Steps
      <4>1. Count(j, i) * Scale \in Nat /\ Acl[j][i].limit * Steps \in Nat
        BY <1>n, RateAclAssumption
      <4> QED BY <4>1, <2>3, <3>1 DEF Exceeded
    <3>3. Count(j, i)' = Count(j, i)
      BY <2>1 DEF Count
    <3>4. Passing(j, i)' \in SUBSET May(j, i)
      BY <1>m
    <3>5. /\ Cardinality(Passing(j, i)') <= Cardinality(May(j, i))
          /\ Cardinality(Passing(j, i)') \in Nat
      BY <3>4, <1>n, FS_Subset, FS_CardinalityType
    <3> QED BY <3>2, <3>3, <3>5, <1>n, BelowLimit
  <2> QED BY <2>2, <2>3
<1>5. ASSUME NEW c \in Callers, Incr(c)
      PROVE  Within(j, i, Count(j, i)' + Cardinality(Passing(j, i)'))
  <2> DEFINE n == list[c]
             e == Entry(n, c)
  <2>1. n \in Lists /\ e \in DOMAIN Acl[n] /\ pc[c] = "incr"
    BY <1>5, <1>t, EntryExists DEF Incr, RateType, OnTheWay
  <2>2. recent' = [recent EXCEPT ![n][e] = <<1>> \o recent[n][e]]
    BY <1>5 DEF Incr
  <2>3. /\ pc'[c] # "incr"
        /\ \A d \in Callers \ {c} : pc'[d] = pc[d] /\ list'[d] = list[d]
    BY <1>5, <1>t DEF Incr, Passes, RateType
  <2>4. Passing(j, i)' = Passing(j, i) \ {c}
    BY <2>3, <1>m DEF Passing, May
  <2>5. CASE n = j /\ e = i
    <3>1. c \in Passing(j, i)
      BY <1>5, <2>1, <2>5, <1>t DEF Passing, May, OnTheWay
    <3>2. Cardinality(Passing(j, i)') = Cardinality(Passing(j, i)) - 1
      BY <2>4, <3>1, <1>n, FS_RemoveElement
    <3>3. recent[j][i] \in Seq(Nat)
      BY <1>t, CountIsNat
    <3>4. recent'[j][i] = <<1>> \o recent[j][i]
      <4> HIDE DEF n, e
      <4> QED BY <2>1, <2>2, <2>5, <1>t DEF RateType
    <3>5. Count(j, i)' = Count(j, i) + 1
      <4>1. <<1>> \in Seq(Nat) /\ Len(<<1>>) = 1
        OBVIOUS
      <4>2. Len(<<1>> \o recent[j][i]) = 1 + Len(recent[j][i])
        BY <4>1, <3>3, ConcatProperties
      <4> QED BY <3>4, <4>2, <1>n DEF Count
    <3>6. Within(j, i, Count(j, i) + Cardinality(Passing(j, i)))
      BY DEF IInv, BoundedOvershoot
    <3>7. Count(j, i)' + Cardinality(Passing(j, i)') = Count(j, i) + Cardinality(Passing(j, i))
      BY <3>2, <3>5, <1>n
    <3> QED BY <3>6, <3>7
  <2>6. CASE ~ (n = j /\ e = i)
    <3>1. recent'[j][i] = recent[j][i]
      <4> HIDE DEF n, e
      <4> QED BY <2>1, <2>2, <2>6, <1>t DEF RateType
    <3>2. Count(j, i)' <= Count(j, i)
      BY <3>1, <1>n DEF Count
    <3>3. Passing(j, i)' \subseteq Passing(j, i)
      BY <2>4
    <3> QED BY <3>2, <3>3, BoundFrame
  <2> QED BY <2>5, <2>6
<1> QED BY <1>1, <1>2, <1>3, <1>4, <1>5 DEF Next, Authorize

-----------------------------------------------------------------------------
\* However many calls are in progress together, a window of an entry never counts as
\* many as its limit per second allows for all the seconds, and one for each caller it
\* includes: the comparison and the Incr of Authorize are two steps
\* (rateacl.go:53-57), but each caller is between them at most once.
THEOREM OvershootIsBounded == Spec => []BoundedOvershoot
<1>1. IInv /\ [Next]_vars => IInv'
  BY WayStep, BoundStep DEF IInv
<1>2. IInv => BoundedOvershoot
  BY DEF IInv
<1> QED BY InitIInv, <1>1, <1>2, PTL DEF Spec
=============================================================================
