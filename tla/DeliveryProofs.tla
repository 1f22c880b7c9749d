--------------------------- MODULE DeliveryProofs --------------------------
(***************************************************************************)
(* What a node does with its messages for one peer is right for any number *)
(* of messages, loops and faults, and any size of a batch.                 *)
(***************************************************************************)
EXTENDS Delivery, FiniteSetTheorems, TLAPS

-----------------------------------------------------------------------------
(* The inductive invariant.                                                *)

\* A batch is finite, a loop out of the scope never starts, and where msgLoop is
\* says what is left of diffAndEnqueue.
LoopState ==
    \A l \in Loops :
        /\ IsFiniteSet(batch[l])
        /\ l \notin scope.loops => pc[l] = "off"
        /\ pc[l] \in {"off", "finish", "pop", "push"} => batch[l] = {}
        /\ pc[l] \in {"collect", "exchange", "answer"} => ~ hollow[l]
        /\ held[l] \subseteq batch[l] \cap has

\* A message in the hands of the notifier or of a loop has been in the storage.
Known ==
    /\ \A m \in Msgs : toPub[m] > 0 => file[m] # "absent"
    /\ \A l \in Loops : \A m \in Msgs :
         m \in batch[l] \/ Copies(l, m) > 0 => file[m] # "absent"
    /\ \A m \in Msgs : file[m] = "partial" => m \in early

\* Why the verdicts are true: FatalError survives the completion of a message only
\* if the message was published before it was complete.
Verdicts ==
    \A m \in Msgs :
        /\ info[m].verdict = "sent" => m \in has \cup mistaken
        /\ info[m].verdict = "fatal" => \/ m \in refuses \cup early
                                        \/ file[m] \in {"expired", "removed"}

\* With one loop, what it has in hand has no verdict.
NoVerdictYet ==
    \A l \in Loops : \A m \in Msgs :
        scope.loops = {l} /\ (m \in batch[l] \/ cur[l] = m) => info[m].verdict = "none"

\* With one loop, a message that is owed to the peer is on its way, at every point of
\* diffAndEnqueue and after it.
OnItsWay ==
    \A l \in Loops : \A m \in Msgs :
        /\ scope.loops = {l} /\ pc[l] \notin {"off", "open"} /\ ~ hollow[l]
        /\ Owed(m)
        => \/ Copies(l, m) > 0
           \/ /\ pc[l] \in {"collect", "exchange", "answer"}
              /\ m \in todo[l] \cup batch[l]

IInv == TypeOK /\ LoopState /\ Known /\ Verdicts /\ NoVerdictYet /\ OnItsWay

-----------------------------------------------------------------------------
(* Types.                                                                  *)

\* Before any loop starts nothing is recorded, queued or collected.
LEMMA InitIInv == Init => IInv
<1> SUFFICES ASSUME Init PROVE IInv
  OBVIOUS
<1> USE DeliveryAssumption DEF Init
<1>1. EmptyQueue \in [Msgs -> Nat] /\ \A m \in Msgs : EmptyQueue[m] = 0
  BY DEF EmptyQueue
<1>2. IsFiniteSet({}) /\ Cardinality({}) = 0
  BY FS_EmptySet
<1>3. scope.faults \in Nat /\ scope.msgs \subseteq Msgs
  OBVIOUS
<1>4. info \in [Msgs -> PeerInfo] /\ \A m \in Msgs : info[m].verdict = "none"
  BY DEF ZeroInfo, PeerInfo
<1>5. /\ due \in [Loops -> [Msgs -> Nat]] /\ later \in [Loops -> [Msgs -> Nat]]
      /\ \A l \in Loops, m \in Msgs : due[l][m] = 0 /\ later[l][m] = 0
  BY <1>1
<1>6. \A l \in Loops : /\ pc[l] = "off" /\ batch[l] = {} /\ held[l] = {} /\ cur[l] = NoMsg
                       /\ hollow[l] = FALSE /\ called[l] = FALSE /\ count[l] = 0
  OBVIOUS
<1>7. TypeOK
  <2>1. /\ file \in [Msgs -> {"absent", "partial", "complete", "expired", "removed"}]
        /\ toPub \in [Msgs -> Nat]
        /\ blocked \subseteq Msgs /\ has \subseteq Msgs /\ refuses \subseteq Msgs
    BY <1>1, <1>3
  <2>2. /\ pc \in [Loops -> {"off", "open", "collect", "exchange", "answer", "finish",
                     "pop", "push"}]
        /\ todo \in [Loops -> SUBSET Msgs] /\ count \in [Loops -> 0 .. BatchSize]
        /\ batch \in [Loops -> SUBSET Msgs] /\ held \in [Loops -> SUBSET Msgs]
        /\ cur \in [Loops -> Msgs \cup {NoMsg}]
    OBVIOUS
  <2>3. called \in [Loops -> BOOLEAN] /\ hollow \in [Loops -> BOOLEAN]
    OBVIOUS
  <2>4. \A l \in Loops : Cardinality(batch[l]) <= count[l]
    BY <1>2, <1>6
  <2> QED BY <1>3, <1>4, <1>5, <1>6, <2>1, <2>2, <2>3, <2>4 DEF TypeOK
<1>8. LoopState
  BY <1>2, <1>6 DEF LoopState
<1>9. Known
  BY <1>1, <1>5, <1>6 DEF Known, Copies
<1>10. Verdicts /\ NoVerdictYet
  BY <1>4 DEF Verdicts, NoVerdictYet
<1>11. OnItsWay
  BY <1>6 DEF OnItsWay
<1> QED BY <1>7, <1>8, <1>9, <1>10, <1>11 DEF IInv

\* What SetPeerInfo may do: the PeerInfo of m becomes pi, or the zero value, or stays;
\* the others do not change.
LEMMA SetPeerInfoDoes ==
    ASSUME TypeOK, NEW m \in Msgs, NEW pi \in PeerInfo, NEW n \in {0, 1},
           SetPeerInfo(m, pi, n)
    PROVE  /\ info' \in [Msgs -> PeerInfo]
           /\ info'[m] \in {info[m], pi, ZeroInfo}
           /\ \A o \in Msgs : o # m => info'[o] = info[o]
           /\ scope' = scope /\ faults' \in 0 .. scope.faults
<1>1. ZeroInfo \in PeerInfo
  BY DEF ZeroInfo, PeerInfo
<1>2. scope.faults \in Nat
  BY DeliveryAssumption DEF TypeOK
<1> QED BY <1>1, <1>2, SMTT(30) DEF TypeOK, SetPeerInfo

\* What Enqueue does: one copy more.
LEMMA EnqueueDoes ==
    ASSUME TypeOK, NEW l \in Loops, NEW m \in Msgs, NEW next, Enqueue(l, m, next)
    PROVE  /\ due' \in [Loops -> [Msgs -> Nat]] /\ later' \in [Loops -> [Msgs -> Nat]]
           /\ due'[l][m] + later'[l][m] = due[l][m] + later[l][m] + 1
           /\ \A k \in Loops, o \in Msgs : k # l \/ o # m =>
                due'[k][o] = due[k][o] /\ later'[k][o] = later[k][o]
<1>1. /\ due \in [Loops -> [Msgs -> Nat]] /\ later \in [Loops -> [Msgs -> Nat]]
      /\ due[l][m] \in Nat /\ later[l][m] \in Nat
  BY DEF TypeOK
<1>2. CASE next = "future"
  <2>1. later' = [later EXCEPT ![l][m] = @ + 1] /\ due' = due
    BY <1>2 DEF Enqueue
  <2>2. later'[l][m] = later[l][m] + 1 /\ later' \in [Loops -> [Msgs -> Nat]]
    BY <1>1, <2>1
  <2>3. due'[l][m] + later'[l][m] = due[l][m] + later[l][m] + 1
    BY <1>1, <2>1, <2>2
  <2>4. \A k \in Loops, o \in Msgs : k # l \/ o # m => later'[k][o] = later[k][o]
    BY <1>1, <2>1
  <2> QED BY <1>1, <2>1, <2>2, <2>3, <2>4
<1>3. CASE next # "future"
  <2>1. due' = [due EXCEPT ![l][m] = @ + 1] /\ later' = later
    BY <1>3 DEF Enqueue
  <2> QED BY <1>1, <2>1
<1> QED BY <1>2, <1>3

\* The rest of the node and the peer keep the types.
LEMMA EnvironmentTypes ==
    ASSUME TypeOK, NEW m \in Msgs, Environment(m) \/ Publish(m) \/ Wake(m)
    PROVE  TypeOK'
<1> USE DeliveryAssumption DEF store, peer, diff, queue, bounds
<1>0. scope \in Scopes /\ scope.faults \in Nat /\ faults \in 0 .. scope.faults
  BY DEF TypeOK
<1>1. CASE Partial(m)
  BY <1>0, <1>1 DEF TypeOK, Partial, Fault
<1>2. CASE Receive(m)
  BY <1>2 DEF TypeOK, Receive
<1>3. CASE Expire(m)
  BY <1>3 DEF TypeOK, Expire
<1>4. CASE Janitor(m)
  <2>1. info' \in [Msgs -> PeerInfo]
    BY <1>4 DEF TypeOK, Janitor, ZeroInfo, PeerInfo
  <2> QED BY <1>4, <2>1 DEF TypeOK, Janitor
<1>5. CASE Elsewhere(m)
  BY <1>5 DEF TypeOK, Elsewhere
<1>6. CASE Publish(m)
  <2>1. toPub' \in [Msgs -> Nat]
    BY <1>6 DEF TypeOK, Publish
  <2>2. ASSUME NEW l \in Loops
        PROVE  /\ due'[l] \in [Msgs -> Nat]
               /\ pc[l] = "off" => due'[l] = due[l]
    BY <1>6 DEF TypeOK, Publish, Subscribed
  <2>3. due' \in [Loops -> [Msgs -> Nat]]
    BY <1>6, <2>2 DEF Publish
  <2> QED BY <1>6, <2>1, <2>2, <2>3 DEF TypeOK, Publish
<1>7. CASE Wake(m)
  <2>1. info' \in [Msgs -> PeerInfo]
    <3>1. info[m] \in PeerInfo
      BY DEF TypeOK
    <3>2. info' = [info EXCEPT ![m] = [info[m] EXCEPT !.next =
                     IF info[m].next = "future" THEN "past" ELSE info[m].next]]
      BY <1>7 DEF Wake
    <3>3. [info[m] EXCEPT !.next =
             IF info[m].next = "future" THEN "past" ELSE info[m].next] \in PeerInfo
      BY <3>1 DEF PeerInfo
    <3> QED BY <3>2, <3>3 DEF TypeOK
  <2>2. ASSUME NEW l \in Loops
        PROVE  /\ due'[l] \in [Msgs -> Nat] /\ later'[l] \in [Msgs -> Nat]
               /\ \A o \in Msgs : due'[l][o] + later'[l][o] = due[l][o] + later[l][o]
    BY <1>7 DEF TypeOK, Wake
  <2>3. due' \in [Loops -> [Msgs -> Nat]] /\ later' \in [Loops -> [Msgs -> Nat]]
    BY <1>7, <2>2 DEF Wake
  <2> QED BY <1>7, <2>1, <2>2, <2>3 DEF TypeOK, Wake
<1> QED BY <1>1, <1>2, <1>3, <1>4, <1>5, <1>6, <1>7 DEF Environment

\* startPeer, stopPeer and diffAndEnqueue keep the types.
LEMMA DiffTypes ==
    ASSUME TypeOK, LoopState, NEW l \in Loops,
           \/ Start(l) \/ Stop(l) \/ Open(l) \/ EndBatch(l) \/ Respond(l) \/ Finish(l)
           \/ DiffFails(l) \/ \E m \in Msgs : Collect(l, m) \/ Answer(l, m)
    PROVE  TypeOK'
<1> USE DeliveryAssumption DEF store, peer, diff, queue, bounds
<1>0. scope \in Scopes /\ scope.faults \in Nat /\ faults \in 0 .. scope.faults
  BY DEF TypeOK
<1>e. IsFiniteSet({}) /\ Cardinality({}) = 0
  BY FS_EmptySet
<1>1. CASE Start(l)
  BY <1>1 DEF TypeOK, Start
<1>2. CASE Stop(l)
  <2>1. due' \in [Loops -> [Msgs -> Nat]] /\ later' \in [Loops -> [Msgs -> Nat]]
    BY <1>2 DEF TypeOK, Stop, EmptyQueue
  <2>2. \A m \in Msgs : due'[l][m] + later'[l][m] = 0
    BY <1>2 DEF TypeOK, Stop, EmptyQueue
  <2>3. called' \in [Loops -> BOOLEAN] /\ hollow' \in [Loops -> BOOLEAN]
    BY <1>2 DEF TypeOK, Stop
  <2>4. faults' \in 0 .. scope.faults /\ scope' = scope
    BY <1>0, <1>2 DEF Stop, Fault
  <2> QED BY <1>2, <1>e, <2>1, <2>2, <2>3, <2>4 DEF TypeOK, Stop
<1>3. CASE Open(l)
  <2>1. todo' \in [Loops -> SUBSET Msgs]
    BY <1>3 DEF TypeOK, Open
  <2>2. called' \in [Loops -> BOOLEAN] /\ hollow' \in [Loops -> BOOLEAN]
    BY <1>3 DEF TypeOK, Open
  <2> QED BY <1>3, <1>e, <2>1, <2>2 DEF TypeOK, Open
<1>4. CASE EndBatch(l)
  <2>1. hollow' \in [Loops -> BOOLEAN]
    BY <1>4 DEF TypeOK, EndBatch
  <2>2. /\ pc' = [pc EXCEPT ![l] = pc'[l]] /\ pc'[l] \in {"exchange", "finish", "pop"}
        /\ pc[l] = "collect"
    BY <1>4 DEF TypeOK, EndBatch
  <2> QED BY <1>4, <2>1, <2>2 DEF TypeOK, EndBatch
<1>5. CASE Respond(l)
  <2>1. called' \in [Loops -> BOOLEAN]
    BY <1>5 DEF TypeOK, Respond
  <2>2. held' \in [Loops -> SUBSET Msgs]
    BY <1>5 DEF TypeOK, Respond
  <2> QED BY <1>5, <2>1, <2>2 DEF TypeOK, Respond
<1>6. CASE Finish(l)
  BY <1>6 DEF TypeOK, Finish
<1>7. CASE DiffFails(l)
  <2>1. faults' \in 0 .. scope.faults /\ scope' = scope
    BY <1>0, <1>7 DEF DiffFails, Fault
  <2> QED BY <1>7, <2>1 DEF TypeOK, DiffFails
<1>8. ASSUME NEW m \in Msgs, Collect(l, m) PROVE TypeOK'
  <2>1. IsFiniteSet(batch[l]) /\ Cardinality(batch[l]) \in Nat
    BY FS_CardinalityType DEF LoopState
  <2>2. Cardinality(batch[l] \cup {m}) <= Cardinality(batch[l]) + 1
    <3>1. Cardinality(batch[l] \cup {m}) =
            IF m \in batch[l] THEN Cardinality(batch[l]) ELSE Cardinality(batch[l]) + 1
      BY <2>1, FS_AddElement
    <3> QED BY <2>1, <3>1
  <2>3. /\ count' \in [Loops -> 0 .. BatchSize]
        /\ batch' \in [Loops -> SUBSET Msgs]
        /\ todo' \in [Loops -> SUBSET Msgs]
    <3>1. CASE file[m] = "complete"
      <4>1. /\ count' = [count EXCEPT ![l] = @ + 1] /\ count[l] < BatchSize
            /\ batch' \in {batch, [batch EXCEPT ![l] = @ \cup {m}]}
            /\ todo' = [todo EXCEPT ![l] = @ \ {m}]
        BY <1>8, <3>1 DEF TypeOK, Collect
      <4>2. count' \in [Loops -> 0 .. BatchSize]
        BY <4>1 DEF TypeOK
      <4>3. batch' \in [Loops -> SUBSET Msgs]
        <5>1. batch \in [Loops -> SUBSET Msgs]
          BY DEF TypeOK
        <5>2. [batch EXCEPT ![l] = @ \cup {m}] \in [Loops -> SUBSET Msgs]
          BY <5>1
        <5> QED BY <4>1, <5>1, <5>2
      <4>4. todo' \in [Loops -> SUBSET Msgs]
        BY <4>1 DEF TypeOK
      <4> QED BY <4>2, <4>3, <4>4
    <3>2. CASE file[m] # "complete"
      BY <1>8, <3>2 DEF TypeOK, Collect
    <3> QED BY <3>1, <3>2
  <2>4. /\ \A k \in Loops \ {l} : count'[k] = count[k] /\ batch'[k] = batch[k]
        /\ \/ count'[l] = count[l] /\ batch'[l] = batch[l]
           \/ count'[l] = count[l] + 1 /\ batch'[l] \in {batch[l], batch[l] \cup {m}}
    BY <1>8 DEF TypeOK, Collect
  <2>5. \A k \in Loops : Cardinality(batch'[k]) <= count'[k]
    <3>1. \A k \in Loops : Cardinality(batch[k]) <= count[k] /\ count[k] \in Nat
      BY DEF TypeOK
    <3>2. Cardinality(batch'[l]) <= count'[l]
      <4>1. CASE count'[l] = count[l] /\ batch'[l] = batch[l]
        BY <3>1, <4>1
      <4>2. CASE count'[l] = count[l] + 1 /\ batch'[l] = batch[l]
        BY <2>1, <3>1, <4>2
      <4>3. CASE count'[l] = count[l] + 1 /\ batch'[l] = batch[l] \cup {m}
        <5>1. IsFiniteSet(batch[l] \cup {m})
          BY <2>1, FS_AddElement
        <5>2. Cardinality(batch[l] \cup {m}) \in Nat
          BY <5>1, FS_CardinalityType
        <5> QED BY <2>1, <2>2, <3>1, <4>3, <5>2
      <4> QED BY <2>4, <4>1, <4>2, <4>3
    <3> QED BY <2>4, <3>1, <3>2
  <2> QED BY <1>8, <2>3, <2>5 DEF TypeOK, Collect
<1>9. ASSUME NEW m \in Msgs, Answer(l, m) PROVE TypeOK'
  <2>1. IsFiniteSet(batch[l]) /\ Cardinality(batch[l]) \in Nat
    BY FS_CardinalityType DEF LoopState
  <2>2. /\ Cardinality(batch[l] \ {m}) <= Cardinality(batch[l])
        /\ batch[l] = {m} => Cardinality(batch[l] \ {m}) = 0
    <3>1. m \in batch[l] => Cardinality(batch[l] \ {m}) = Cardinality(batch[l]) - 1
      BY <2>1, FS_RemoveElement
    <3>2. batch[l] = {m} => batch[l] \ {m} = {}
      OBVIOUS
    <3>3. m \in batch[l]
      BY <1>9 DEF Answer
    <3>4. Cardinality(batch[l] \ {m}) <= Cardinality(batch[l])
      BY <2>1, <3>1, <3>3
    <3> QED BY <1>e, <3>2, <3>4
  <2>3. /\ batch' = [batch EXCEPT ![l] = @ \ {m}] /\ held' = [held EXCEPT ![l] = @ \ {m}]
        /\ IF batch[l] = {m}
           THEN pc' = [pc EXCEPT ![l] = "collect"] /\ count' = [count EXCEPT ![l] = 0]
           ELSE pc' = pc /\ count' = count
        /\ pc[l] = "answer"
    BY <1>9 DEF Answer
  <2>4. /\ batch' \in [Loops -> SUBSET Msgs] /\ held' \in [Loops -> SUBSET Msgs]
        /\ count' \in [Loops -> 0 .. BatchSize]
        /\ pc' \in [Loops -> {"off", "open", "collect", "exchange", "answer", "finish",
                     "pop", "push"}]
        /\ \A k \in Loops : /\ Cardinality(batch'[k]) <= count'[k]
                            /\ pc'[k] = "push" <=> pc[k] = "push"
                            /\ pc'[k] = "off" <=> pc[k] = "off"
    <3>1. \A k \in Loops : Cardinality(batch[k]) <= count[k] /\ count[k] \in Nat
      BY DEF TypeOK
    <3>2. count' \in [Loops -> 0 .. BatchSize] /\ batch' \in [Loops -> SUBSET Msgs]
      <4>1. count \in [Loops -> 0 .. BatchSize] /\ batch \in [Loops -> SUBSET Msgs]
        BY DEF TypeOK
      <4>2. batch' \in [Loops -> SUBSET Msgs]
        BY <2>3, <4>1
      <4>3. 0 \in 0 .. BatchSize
        OBVIOUS
      <4> QED BY <2>3, <4>1, <4>2, <4>3
    <3>3. Cardinality(batch'[l]) <= count'[l]
      <4>1. batch'[l] = batch[l] \ {m} /\ count'[l] = IF batch[l] = {m} THEN 0 ELSE count[l]
        BY <2>3 DEF TypeOK
      <4>2. Cardinality(batch[l] \ {m}) \in Nat
        BY <2>1, FS_RemoveElement, FS_CardinalityType
      <4> QED BY <2>1, <2>2, <3>1, <4>1, <4>2
    <3>4. \A k \in Loops \ {l} : Cardinality(batch'[k]) <= count'[k]
      BY <2>3, <3>1 DEF TypeOK
    <3> QED BY <2>3, <3>2, <3>3, <3>4, SMTT(30) DEF TypeOK
  <2>5. /\ info' \in [Msgs -> PeerInfo] /\ scope' = scope /\ faults' \in 0 .. scope.faults
        /\ due' \in [Loops -> [Msgs -> Nat]] /\ later' \in [Loops -> [Msgs -> Nat]]
        /\ \A k \in Loops \ {l} : due'[k] = due[k] /\ later'[k] = later[k]
    <3>1. CASE m \in held[l]
      <4>1. [info[m] EXCEPT !.verdict = "sent"] \in PeerInfo
        <5>1. info[m] \in PeerInfo
          BY DEF TypeOK
        <5> QED BY <5>1 DEF PeerInfo
      <4>2. SetPeerInfo(m, [info[m] EXCEPT !.verdict = "sent"], 0) /\ due' = due /\ later' = later
        BY <1>9, <3>1 DEF Answer
      <4> QED BY <4>1, <4>2, SetPeerInfoDoes DEF TypeOK
    <3>2. CASE m \notin held[l]
      <4>1. /\ Enqueue(l, m, info[m].next) /\ info' = info /\ scope' = scope
            /\ faults' = faults
        BY <1>9, <3>2 DEF Answer
      <4>2. /\ due' \in [Loops -> [Msgs -> Nat]] /\ later' \in [Loops -> [Msgs -> Nat]]
        BY <4>1, EnqueueDoes
      <4>3. \A k \in Loops \ {l} : due'[k] = due[k] /\ later'[k] = later[k]
        BY <4>1 DEF Enqueue, TypeOK
      <4> QED BY <4>1, <4>2, <4>3 DEF TypeOK
    <3> QED BY <3>1, <3>2
  <2>6. \A k \in Loops : pc'[k] = "off" => \A o \in Msgs : due'[k][o] + later'[k][o] = 0
    <3>1. ASSUME NEW k \in Loops, pc'[k] = "off" PROVE k # l /\ pc[k] = "off"
      BY <2>3, <2>4, <3>1
    <3>2. \A k \in Loops : pc[k] = "off" => \A o \in Msgs : due[k][o] + later[k][o] = 0
      BY DEF TypeOK
    <3> QED BY <2>5, <3>1, <3>2
  <2>7. \A k \in Loops : cur'[k] # NoMsg <=> pc'[k] = "push"
    BY <1>9, <2>4 DEF Answer, TypeOK
  <2> QED BY <1>9, <2>4, <2>5, <2>6, <2>7 DEF TypeOK, Answer
<1> QED BY <1>1, <1>2, <1>3, <1>4, <1>5, <1>6, <1>7, <1>8, <1>9

\* The rest of msgLoop keeps the types.
LEMMA PushTypes ==
    ASSUME TypeOK, NEW l \in Loops,
           \/ Sent(l) \/ Fatal(l) \/ Transient(l) \/ \E m \in Msgs : Pop(l, m)
    PROVE  TypeOK'
<1> USE DeliveryAssumption DEF store, peer, diff, queue, bounds
<1>0. scope \in Scopes /\ scope.faults \in Nat /\ faults \in 0 .. scope.faults
  BY DEF TypeOK
<1>1. ASSUME NEW m \in Msgs, Pop(l, m) PROVE TypeOK'
  <2>1. /\ due' \in [Loops -> [Msgs -> Nat]] /\ later' \in [Loops -> [Msgs -> Nat]]
        /\ \A k \in Loops \ {l} : due'[k] = due[k] /\ later'[k] = later[k]
    <3>1. due' = [due EXCEPT ![l][m] = @ - 1] /\ due[l][m] > 0
      BY <1>1 DEF Pop
    <3>2. later' = later \/ later' = [later EXCEPT ![l][m] = @ + 1]
      BY <1>1 DEF Pop
    <3>3. due[l][m] - 1 \in Nat
      BY <3>1 DEF TypeOK
    <3>4. due' \in [Loops -> [Msgs -> Nat]] /\ \A k \in Loops \ {l} : due'[k] = due[k]
      <4>1. due \in [Loops -> [Msgs -> Nat]]
        BY DEF TypeOK
      <4> QED BY <3>1, <3>3, <4>1
    <3>5. later' \in [Loops -> [Msgs -> Nat]] /\ \A k \in Loops \ {l} : later'[k] = later[k]
      <4>1. later \in [Loops -> [Msgs -> Nat]]
        BY DEF TypeOK
      <4> QED BY <3>2, <4>1
    <3> QED BY <3>4, <3>5
  <2>2. pc[l] = "pop" /\ cur[l] = NoMsg
    BY <1>1 DEF TypeOK, Pop
  <2>3. \/ pc' = pc /\ cur' = cur
        \/ pc' = [pc EXCEPT ![l] = "push"] /\ cur' = [cur EXCEPT ![l] = m]
    BY <1>1 DEF Pop
  <2>4. /\ pc' \in [Loops -> {"off", "open", "collect", "exchange", "answer", "finish",
                     "pop", "push"}]
        /\ cur' \in [Loops -> Msgs \cup {NoMsg}]
        /\ \A k \in Loops : cur'[k] # NoMsg <=> pc'[k] = "push"
        /\ \A k \in Loops : pc'[k] = "off" => k # l /\ pc[k] = "off"
    <3>1. CASE pc' = pc /\ cur' = cur
      BY <2>2, <3>1 DEF TypeOK
    <3>2. CASE pc' = [pc EXCEPT ![l] = "push"] /\ cur' = [cur EXCEPT ![l] = m]
      BY <3>2 DEF TypeOK
    <3> QED BY <2>3, <3>1, <3>2
  <2> QED BY <1>1, <2>1, <2>4 DEF TypeOK, Pop
<1>2. ASSUME NEW pi \in PeerInfo, NEW n \in {0, 1}, Record(l, pi, n), pc[l] = "push",
             has' \in SUBSET Msgs, mistaken' \in SUBSET Msgs,
             due' \in [Loops -> [Msgs -> Nat]], later' \in [Loops -> [Msgs -> Nat]],
             \A k \in Loops \ {l} : due'[k] = due[k] /\ later'[k] = later[k]
      PROVE  TypeOK'
  <2>1. cur[l] \in Msgs
    BY <1>2 DEF TypeOK
  <2>2. info' \in [Msgs -> PeerInfo] /\ scope' = scope /\ faults' \in 0 .. scope.faults
    BY <1>2, <2>1, SetPeerInfoDoes DEF Record
  <2> QED BY <1>2, <2>1, <2>2 DEF TypeOK, Record
<1>3. pc[l] = "push" => cur[l] \in Msgs /\ info[cur[l]] \in PeerInfo
  BY DEF TypeOK
<1>4. CASE Sent(l)
  <2>1. [verdict |-> "sent", next |-> info[cur[l]].next] \in PeerInfo
    BY <1>3, <1>4 DEF Sent, PeerInfo
  <2>2. /\ has' \in SUBSET Msgs /\ mistaken' \in SUBSET Msgs
        /\ pc[l] = "push" /\ due' = due /\ later' = later
    BY <1>3, <1>4 DEF Sent, TypeOK
  <2>3. \E n \in {0, 1} : Record(l, [verdict |-> "sent", next |-> info[cur[l]].next], n)
    BY <1>4 DEF Sent
  <2>4. due \in [Loops -> [Msgs -> Nat]] /\ later \in [Loops -> [Msgs -> Nat]]
    BY DEF TypeOK
  <2> QED BY <1>2, <2>1, <2>2, <2>3, <2>4
<1>5. CASE Fatal(l)
  <2>1. [verdict |-> "fatal", next |-> info[cur[l]].next] \in PeerInfo
    BY <1>3, <1>5 DEF Fatal, PeerInfo
  <2> QED BY <1>2, <1>3, <1>5, <2>1 DEF Fatal, TypeOK
<1>6. CASE Transient(l)
  <2>1. [verdict |-> "none", next |-> "future"] \in PeerInfo
    BY DEF PeerInfo
  <2>2. /\ due' \in [Loops -> [Msgs -> Nat]] /\ later' \in [Loops -> [Msgs -> Nat]]
    BY <1>3, <1>6, EnqueueDoes DEF Transient
  <2>3. \A k \in Loops \ {l} : due'[k] = due[k] /\ later'[k] = later[k]
    BY <1>6 DEF Transient, Enqueue, TypeOK
  <2>4. has' \in SUBSET Msgs /\ mistaken' \in SUBSET Msgs
    BY <1>3, <1>6 DEF Transient, TypeOK
  <2> QED BY <1>2, <1>6, <2>1, <2>2, <2>3, <2>4 DEF Transient
<1> QED BY <1>1, <1>4, <1>5, <1>6

-----------------------------------------------------------------------------
(* What the steps do to the copies of a message in a queue or in hand.     *)

\* The notifier adds a copy for every subscriber that checkHops lets have it.
LEMMA PublishCopies ==
    ASSUME TypeOK, NEW m \in Msgs, Publish(m), NEW k \in Loops, NEW o \in Msgs
    PROVE  Copies(k, o)' = IF o = m /\ pc[k] # "off" /\ m \notin blocked
                           THEN Copies(k, o) + 1 ELSE Copies(k, o)
<1>1. /\ due[k] \in [Msgs -> Nat] /\ due[k][o] \in Nat /\ later[k][o] \in Nat
      /\ later' = later /\ cur' = cur
      /\ due'[k] = IF pc[k] # "off" /\ m \notin blocked
                   THEN [due[k] EXCEPT ![m] = @ + 1] ELSE due[k]
  BY DEF TypeOK, Publish, Subscribed
<1>2. due'[k][o] = IF o = m /\ pc[k] # "off" /\ m \notin blocked
                   THEN due[k][o] + 1 ELSE due[k][o]
  BY <1>1
<1> QED BY <1>1, <1>2 DEF Copies

\* What leaves the queue and the hand of msgLoop alone, or moves a copy within them.
LEMMA QuietCopies ==
    ASSUME TypeOK, NEW k \in Loops, NEW o \in Msgs,
           \/ \E m \in Msgs : Environment(m) \/ Wake(m)
           \/ \E l \in Loops : \/ Start(l) \/ Open(l) \/ EndBatch(l) \/ Respond(l)
                               \/ Finish(l) \/ DiffFails(l) \/ Transient(l)
                               \/ \E m \in Msgs : Collect(l, m)
    PROVE  Copies(k, o)' = Copies(k, o)
<1>1. ASSUME NEW m \in Msgs, Environment(m) PROVE Copies(k, o)' = Copies(k, o)
  BY <1>1 DEF Environment, Partial, Receive, Expire, Janitor, Elsewhere, queue, Copies
<1>2. ASSUME NEW m \in Msgs, Wake(m) PROVE Copies(k, o)' = Copies(k, o)
  <2>1. /\ due[k] \in [Msgs -> Nat] /\ later[k] \in [Msgs -> Nat] /\ cur' = cur
        /\ due'[k] = [due[k] EXCEPT ![m] = @ + later[k][m]]
        /\ later'[k] = [later[k] EXCEPT ![m] = 0]
    BY <1>2 DEF TypeOK, Wake
  <2>2. due'[k][o] + later'[k][o] = due[k][o] + later[k][o]
    BY <2>1
  <2> QED BY <2>1, <2>2 DEF Copies
<1>3. ASSUME NEW l \in Loops,
             \/ Start(l) \/ Open(l) \/ EndBatch(l) \/ Respond(l) \/ Finish(l) \/ DiffFails(l)
             \/ \E m \in Msgs : Collect(l, m)
      PROVE  Copies(k, o)' = Copies(k, o)
  BY <1>3 DEF Start, Open, EndBatch, Respond, Finish, DiffFails, Collect, queue, Copies
<1>4. ASSUME NEW l \in Loops, Transient(l) PROVE Copies(k, o)' = Copies(k, o)
  <2>1. /\ pc[l] = "push" /\ Enqueue(l, cur[l], "future") /\ cur' = [cur EXCEPT ![l] = NoMsg]
    BY <1>4 DEF Transient, Record
  <2>2. cur[l] \in Msgs
    BY <2>1 DEF TypeOK
  <2>3. /\ due[k][o] \in Nat /\ later[k][o] \in Nat
        /\ due' \in [Loops -> [Msgs -> Nat]] /\ later' \in [Loops -> [Msgs -> Nat]]
    BY <2>1, <2>2, EnqueueDoes DEF TypeOK
  <2>4. CASE k = l /\ o = cur[l]
    <3>1. due'[k][o] + later'[k][o] = due[k][o] + later[k][o] + 1
      BY <2>1, <2>2, <2>4, EnqueueDoes
    <3>2. cur'[k] # o /\ cur[k] = o
      BY <2>1, <2>2, <2>4, DeliveryAssumption DEF TypeOK
    <3> QED BY <2>3, <3>1, <3>2 DEF Copies
  <2>5. CASE ~ (k = l /\ o = cur[l])
    <3>1. due'[k][o] = due[k][o] /\ later'[k][o] = later[k][o]
      BY <2>1, <2>2, <2>5, EnqueueDoes
    <3>2. cur'[k] = o <=> cur[k] = o
      BY <2>1, <2>5, DeliveryAssumption DEF TypeOK
    <3> QED BY <3>1, <3>2 DEF Copies
  <2> QED BY <2>4, <2>5
<1> QED BY <1>1, <1>2, <1>3, <1>4

\* A stop drops the queue.
LEMMA StopCopies ==
    ASSUME TypeOK, NEW l \in Loops, Stop(l), NEW k \in Loops, NEW o \in Msgs
    PROVE  Copies(k, o)' = IF k = l THEN 0 ELSE Copies(k, o)
<1>1. /\ due'[k] = (IF k = l THEN EmptyQueue ELSE due[k])
      /\ later'[k] = (IF k = l THEN EmptyQueue ELSE later[k])
      /\ cur' = cur /\ cur[l] = NoMsg
  BY DEF TypeOK, Stop
<1>2. EmptyQueue[o] = 0 /\ NoMsg # o
  BY DeliveryAssumption DEF EmptyQueue
<1> QED BY <1>1, <1>2 DEF Copies

\* An answer adds a copy of a message that the peer does not have.
LEMMA AnswerCopies ==
    ASSUME TypeOK, NEW l \in Loops, NEW m \in Msgs, Answer(l, m),
           NEW k \in Loops, NEW o \in Msgs
    PROVE  Copies(k, o)' = IF k = l /\ o = m /\ m \notin held[l]
                           THEN Copies(k, o) + 1 ELSE Copies(k, o)
<1>0. due[k][o] \in Nat /\ later[k][o] \in Nat /\ cur' = cur
  BY DEF TypeOK, Answer
<1>1. CASE m \in held[l]
  BY <1>0, <1>1 DEF Answer, queue, Copies
<1>2. CASE m \notin held[l]
  <2>1. Enqueue(l, m, info[m].next)
    BY <1>2 DEF Answer
  <2>2. /\ due'[k][o] \in Nat /\ later'[k][o] \in Nat
        /\ due'[k][o] + later'[k][o] =
             IF k = l /\ o = m THEN due[k][o] + later[k][o] + 1 ELSE due[k][o] + later[k][o]
    BY <1>0, <2>1, EnqueueDoes
  <2> QED BY <1>0, <1>2, <2>2 DEF Copies
<1> QED BY <1>1, <1>2

\* A message that comes out of the queue stays with msgLoop, unless it has a verdict.
LEMMA PopCopies ==
    ASSUME TypeOK, NEW l \in Loops, NEW m \in Msgs, Pop(l, m),
           NEW k \in Loops, NEW o \in Msgs
    PROVE  Copies(k, o)' = IF k = l /\ o = m /\ info[m].verdict # "none"
                           THEN Copies(k, o) - 1 ELSE Copies(k, o)
<1>0. /\ due[k][o] \in Nat /\ later[k][o] \in Nat
      /\ due'[k][o] = IF k = l /\ o = m THEN due[k][o] - 1 ELSE due[k][o]
      /\ cur[l] = NoMsg /\ NoMsg # m /\ NoMsg # o
  BY DeliveryAssumption DEF TypeOK, Pop
<1>1. CASE info[m].verdict # "none"
  BY <1>0, <1>1 DEF Pop, Copies
<1>2. CASE info[m].verdict = "none" /\ info[m].next = "future"
  <2>1. /\ later'[k][o] = IF k = l /\ o = m THEN later[k][o] + 1 ELSE later[k][o]
        /\ cur' = cur
    BY <1>2 DEF Pop, TypeOK
  <2> QED BY <1>0, <1>2, <2>1 DEF Copies
<1>3. CASE info[m].verdict = "none" /\ info[m].next # "future"
  <2>1. later' = later /\ cur' = [cur EXCEPT ![l] = m]
    BY <1>3 DEF Pop
  <2>2. cur'[k] = IF k = l THEN m ELSE cur[k]
    BY <2>1 DEF TypeOK
  <2> QED BY <1>0, <1>3, <2>1, <2>2 DEF Copies
<1> QED BY <1>1, <1>2, <1>3

\* A push that ends for good takes the message out of the hand.
LEMMA EndCopies ==
    ASSUME TypeOK, NEW l \in Loops, Sent(l) \/ Fatal(l), NEW k \in Loops, NEW o \in Msgs
    PROVE  Copies(k, o)' = IF k = l /\ o = cur[l] THEN Copies(k, o) - 1 ELSE Copies(k, o)
<1>1. /\ due' = due /\ later' = later /\ cur' = [cur EXCEPT ![l] = NoMsg]
      /\ due[k][o] \in Nat /\ later[k][o] \in Nat /\ NoMsg # o
  BY DeliveryAssumption DEF TypeOK, Sent, Fatal, Record, queue
<1>2. cur'[k] = IF k = l THEN NoMsg ELSE cur[k]
  BY <1>1 DEF TypeOK
<1> QED BY <1>1, <1>2 DEF Copies

-----------------------------------------------------------------------------
(* The parts of the invariant, one after the other.                        *)

\* Every step keeps the batches finite and the progress of diffAndEnqueue.
LEMMA LoopStep ==
    ASSUME TypeOK, LoopState, Next
    PROVE  LoopState'
<1> USE DEF store, peer, diff, queue, bounds
<1>1. ASSUME NEW m \in Msgs, Environment(m) \/ Publish(m) \/ Wake(m) PROVE LoopState'
  <2>1. UNCHANGED <<batch, held, hollow, pc, scope>> /\ has \subseteq has'
    BY <1>1 DEF Environment, Partial, Receive, Expire, Janitor, Elsewhere, Publish, Wake, Fault
  <2> QED BY <2>1 DEF LoopState
<1>2. ASSUME NEW l \in scope.loops,
             Start(l) \/ Stop(l) \/ Open(l) \/ EndBatch(l) \/ Respond(l) \/ Finish(l) \/ DiffFails(l)
      PROVE  LoopState'
  <2>0. l \in Loops
    BY DeliveryAssumption DEF TypeOK
  <2>e. IsFiniteSet({})
    BY FS_EmptySet
  <2>1. CASE Start(l)
    BY <2>0, <2>1 DEF TypeOK, LoopState, Start
  <2>2. CASE Stop(l)
    BY <2>0, <2>2, <2>e DEF TypeOK, LoopState, Stop, Fault
  <2>3. CASE Open(l)
    BY <2>0, <2>3, <2>e DEF TypeOK, LoopState, Open
  <2>4. CASE EndBatch(l)
    <3>1. /\ batch[l] # {} => pc'[l] = "exchange"
          /\ batch[l] = {} => pc'[l] \in {"finish", "pop"}
          /\ \A k \in Loops \ {l} : pc'[k] = pc[k] /\ hollow'[k] = hollow[k]
          /\ UNCHANGED <<batch, held, has, scope>>
      BY <2>0, <2>4 DEF TypeOK, EndBatch
    <3>2. batch[l] # {} => ~ hollow'[l]
      BY <2>0, <2>4 DEF TypeOK, EndBatch
    <3> QED BY <2>0, <3>1, <3>2 DEF LoopState
  <2>5. CASE Respond(l)
    BY <2>0, <2>5 DEF TypeOK, LoopState, Respond
  <2>6. CASE Finish(l)
    BY <2>0, <2>6 DEF TypeOK, LoopState, Finish
  <2>7. CASE DiffFails(l)
    BY <2>0, <2>7 DEF TypeOK, LoopState, DiffFails, Fault
  <2> QED BY <1>2, <2>1, <2>2, <2>3, <2>4, <2>5, <2>6, <2>7
<1>3. ASSUME NEW l \in scope.loops, NEW m \in Msgs, Collect(l, m) PROVE LoopState'
  <2>0. l \in Loops
    BY DeliveryAssumption DEF TypeOK
  <2>1. IsFiniteSet(batch[l] \cup {m})
    BY <2>0, FS_AddElement DEF LoopState
  <2>2. /\ \A k \in Loops \ {l} : batch'[k] = batch[k]
        /\ batch'[l] \in {batch[l], batch[l] \cup {m}}
        /\ UNCHANGED <<held, has, hollow, pc, scope>> /\ pc[l] = "collect"
    BY <1>3, <2>0 DEF TypeOK, Collect
  <2> QED BY <2>0, <2>1, <2>2 DEF LoopState
<1>4. ASSUME NEW l \in scope.loops, NEW m \in Msgs, Answer(l, m) PROVE LoopState'
  <2>0. l \in Loops
    BY DeliveryAssumption DEF TypeOK
  <2>1. IsFiniteSet(batch[l] \ {m})
    BY <2>0, FS_RemoveElement DEF LoopState
  <2>2. /\ \A k \in Loops \ {l} : batch'[k] = batch[k] /\ held'[k] = held[k] /\ pc'[k] = pc[k]
        /\ batch'[l] = batch[l] \ {m} /\ held'[l] = held[l] \ {m}
        /\ UNCHANGED <<has, hollow>> /\ pc[l] = "answer" /\ pc'[l] \in {"answer", "collect"}
    BY <1>4, <2>0 DEF TypeOK, Answer
  <2>3. scope' = scope
    BY <1>4 DEF Answer, SetPeerInfo
  <2> QED BY <2>0, <2>1, <2>2, <2>3 DEF LoopState
<1>5. ASSUME NEW l \in scope.loops,
             \/ Sent(l) \/ Fatal(l) \/ Transient(l) \/ \E m \in Msgs : Pop(l, m)
      PROVE  LoopState'
  <2>0. l \in Loops
    BY DeliveryAssumption DEF TypeOK
  <2>1. /\ UNCHANGED <<batch, held, hollow, scope>> /\ has \subseteq has'
        /\ \A k \in Loops \ {l} : pc'[k] = pc[k]
        /\ pc[l] \in {"pop", "push"} /\ pc'[l] \in {"pop", "push"}
    BY <1>5, <2>0 DEF TypeOK, Sent, Fatal, Transient, Pop, Record, SetPeerInfo
  <2> QED BY <2>0, <2>1 DEF LoopState
<1> QED BY <1>1, <1>2, <1>3, <1>4, <1>5 DEF Next, MsgLoop

\* Loops and notifier only get hold of messages that the storage has had.
LEMMA KnownStep ==
    ASSUME TypeOK, Known, Next
    PROVE  Known'
<1> USE DEF store, peer, diff, queue, bounds
<1>1. ASSUME NEW m \in Msgs, Environment(m) \/ Wake(m) PROVE Known'
  <2>1. \A k \in Loops, o \in Msgs : Copies(k, o)' = Copies(k, o)
    BY <1>1, QuietCopies
  <2>2. /\ batch' = batch
        /\ \A o \in Msgs : /\ file[o] # "absent" => file'[o] # "absent"
                           /\ toPub'[o] > 0 => toPub[o] > 0 \/ file'[o] # "absent"
                           /\ file'[o] = "partial" => file[o] = "partial" \/ o \in early'
        /\ early \subseteq early'
    <3>1. CASE Partial(m)
      BY <3>1 DEF TypeOK, Partial
    <3>2. CASE Receive(m)
      BY <3>2 DEF TypeOK, Receive
    <3>3. CASE Expire(m) \/ Janitor(m)
      BY <3>3 DEF TypeOK, Expire, Janitor
    <3>4. CASE Elsewhere(m) \/ Wake(m)
      BY <3>4 DEF Elsewhere, Wake
    <3> QED BY <1>1, <3>1, <3>2, <3>3, <3>4 DEF Environment
  <2> QED BY <2>1, <2>2 DEF Known
<1>2. ASSUME NEW m \in Msgs, Publish(m) PROVE Known'
  <2>1. /\ UNCHANGED <<batch, file, early>> /\ toPub[m] > 0
        /\ \A o \in Msgs : toPub'[o] > 0 => toPub[o] > 0
    BY <1>2 DEF TypeOK, Publish
  <2>2. \A k \in Loops, o \in Msgs : Copies(k, o)' > 0 => o = m \/ Copies(k, o) > 0
    BY <1>2, PublishCopies
  <2> QED BY <2>1, <2>2 DEF Known
<1>3. ASSUME NEW l \in scope.loops, \/ Start(l) \/ Stop(l) \/ MsgLoop(l)
                                    \/ DiffFails(l) \/ Transient(l)
      PROVE  Known'
  <2>0. l \in Loops
    BY DeliveryAssumption DEF TypeOK
  <2>1. UNCHANGED <<file, toPub, early>>
    BY <1>3 DEF Start, Stop, MsgLoop, DiffFails, Transient, Open, EndBatch, Respond, Finish,
       Sent, Fatal, Collect, Answer, Pop, Record
  <2>2. ASSUME NEW k \in Loops, NEW o \in Msgs, o \in batch'[k]
        PROVE  o \in batch[k] \/ file[o] = "complete"
    <3>1. CASE \E m \in Msgs : Collect(l, m)
      <4>1. PICK m \in Msgs : Collect(l, m)
        BY <3>1
      <4>2. /\ batch'[k] \in {batch[k], batch[k] \cup {m}}
            /\ file[m] # "complete" => batch' = batch
        BY <2>0, <4>1 DEF TypeOK, Collect
      <4> QED BY <2>2, <4>2
    <3>2. CASE \E m \in Msgs : Answer(l, m)
      BY <2>0, <2>2, <3>2 DEF TypeOK, Answer
    <3>3. CASE Stop(l) \/ Open(l)
      BY <2>0, <2>2, <3>3 DEF TypeOK, Stop, Open
    <3>4. CASE \/ Start(l) \/ EndBatch(l) \/ Respond(l) \/ Finish(l) \/ DiffFails(l)
               \/ Sent(l) \/ Fatal(l) \/ Transient(l) \/ \E m \in Msgs : Pop(l, m)
      BY <2>2, <3>4 DEF Start, EndBatch, Respond, Finish, DiffFails, Sent, Fatal, Transient,
         Pop, Record
    <3> QED BY <1>3, <3>1, <3>2, <3>3, <3>4 DEF MsgLoop
  <2>3. ASSUME NEW k \in Loops, NEW o \in Msgs, Copies(k, o)' > 0
        PROVE  o \in batch[k] \/ Copies(k, o) > 0
    <3>0. Copies(k, o) \in Nat
      BY DEF Copies, TypeOK
    <3>1. CASE \/ Start(l) \/ Open(l) \/ EndBatch(l) \/ Respond(l) \/ Finish(l)
               \/ DiffFails(l) \/ Transient(l) \/ \E m \in Msgs : Collect(l, m)
      BY <2>0, <2>3, <3>1, QuietCopies
    <3>2. CASE Stop(l)
      BY <2>0, <2>3, <3>2, StopCopies
    <3>3. ASSUME NEW m \in Msgs, Answer(l, m) PROVE o \in batch[k] \/ Copies(k, o) > 0
      BY <2>0, <2>3, <3>3, AnswerCopies DEF Answer
    <3>4. ASSUME NEW m \in Msgs, Pop(l, m) PROVE Copies(k, o) > 0
      BY <2>0, <2>3, <3>0, <3>4, PopCopies
    <3>5. CASE Sent(l) \/ Fatal(l)
      BY <2>0, <2>3, <3>0, <3>5, EndCopies
    <3> QED BY <1>3, <3>1, <3>2, <3>3, <3>4, <3>5 DEF MsgLoop
  <2> QED BY <2>1, <2>2, <2>3 DEF Known
<1> QED BY <1>1, <1>2, <1>3 DEF Next

\* What a step of a loop does to the PeerInfo of a message: nothing, except for the
\* one that it answers for or pushes.
LEMMA InfoStep ==
    ASSUME TypeOK, LoopState, NEW l \in Loops,
           Start(l) \/ Stop(l) \/ MsgLoop(l) \/ DiffFails(l) \/ Transient(l)
    PROVE  \A o \in Msgs :
             \/ info'[o] = info[o]
             \/ /\ o \in batch[l] \/ cur[l] = o
                /\ \/ info'[o].verdict = "none"
                   \/ info'[o].verdict = "sent" /\ o \in has' \cup mistaken'
                   \/ /\ info'[o].verdict = "fatal"
                      /\ o \in refuses \/ file[o] # "complete"
<1> USE DEF store, peer, diff, queue, bounds
<1>z. ZeroInfo.verdict = "none"
  BY DEF ZeroInfo
<1>1. CASE \/ Start(l) \/ Stop(l) \/ Open(l) \/ EndBatch(l) \/ Respond(l) \/ Finish(l)
           \/ DiffFails(l) \/ \E m \in Msgs : Collect(l, m) \/ Pop(l, m)
  BY <1>1 DEF Start, Stop, Open, EndBatch, Respond, Finish, DiffFails, Collect, Pop
<1>2. ASSUME NEW m \in Msgs, Answer(l, m), m \in held[l]
      PROVE  /\ \A o \in Msgs : o # m => info'[o] = info[o]
             /\ m \in batch[l] /\ m \in has'
             /\ \/ info'[m] = info[m] \/ info'[m].verdict = "none"
                \/ info'[m].verdict = "sent"
  <2> DEFINE pi == [info[m] EXCEPT !.verdict = "sent"]
  <2>1. info[m] \in PeerInfo
    BY DEF TypeOK
  <2>2. pi \in PeerInfo /\ pi.verdict = "sent"
    BY <2>1 DEF PeerInfo
  <2>3. SetPeerInfo(m, pi, 0) /\ m \in batch[l] /\ has' = has
    BY <1>2 DEF Answer
  <2>4. m \in has
    BY <1>2 DEF LoopState
  <2>5. info'[m] \in {info[m], pi, ZeroInfo} /\ \A o \in Msgs : o # m => info'[o] = info[o]
    BY <2>2, <2>3, SetPeerInfoDoes
  <2> HIDE DEF pi
  <2> QED BY <1>z, <2>2, <2>3, <2>4, <2>5
<1>3. ASSUME NEW m \in Msgs, Answer(l, m), m \notin held[l] PROVE info' = info
  BY <1>3 DEF Answer
<1>4. ASSUME NEW pi \in PeerInfo, NEW n \in {0, 1}, Record(l, pi, n), pc[l] = "push"
      PROVE  /\ \A o \in Msgs : o # cur[l] => info'[o] = info[o]
             /\ info'[cur[l]] = info[cur[l]] \/ info'[cur[l]].verdict \in {"none", pi.verdict}
  <2>1. cur[l] \in Msgs
    BY <1>4 DEF TypeOK
  <2>2. /\ info'[cur[l]] \in {info[cur[l]], pi, ZeroInfo}
        /\ \A o \in Msgs : o # cur[l] => info'[o] = info[o]
    BY <1>4, <2>1, SetPeerInfoDoes DEF Record
  <2> QED BY <1>z, <2>2
<1>5. pc[l] = "push" => cur[l] \in Msgs /\ info[cur[l]] \in PeerInfo
  BY DEF TypeOK
<1>6. ASSUME Sent(l)
      PROVE  /\ \A o \in Msgs : o # cur[l] => info'[o] = info[o]
             /\ \/ info'[cur[l]] = info[cur[l]] \/ info'[cur[l]].verdict = "none"
                \/ info'[cur[l]].verdict = "sent" /\ cur[l] \in has' \cup mistaken'
  <2> DEFINE pi == [verdict |-> "sent", next |-> info[cur[l]].next]
  <2>1. pi \in PeerInfo /\ pi.verdict = "sent"
    BY <1>5, <1>6 DEF Sent, PeerInfo
  <2>2. /\ \E n \in {0, 1} : Record(l, pi, n)
        /\ pc[l] = "push" /\ cur[l] \in has' \cup mistaken'
    BY <1>6 DEF Sent
  <2> HIDE DEF pi
  <2> QED BY <1>4, <2>1, <2>2
<1>7. ASSUME Fatal(l)
      PROVE  /\ \A o \in Msgs : o # cur[l] => info'[o] = info[o]
             /\ \/ info'[cur[l]] = info[cur[l]] \/ info'[cur[l]].verdict = "none"
                \/ /\ info'[cur[l]].verdict = "fatal"
                   /\ cur[l] \in refuses \/ file[cur[l]] # "complete"
  <2> DEFINE pi == [verdict |-> "fatal", next |-> info[cur[l]].next]
  <2>1. pi \in PeerInfo /\ pi.verdict = "fatal"
    BY <1>5, <1>7 DEF Fatal, PeerInfo
  <2>2. /\ Record(l, pi, 0) /\ pc[l] = "push"
        /\ cur[l] \in refuses \/ file[cur[l]] # "complete"
    BY <1>7 DEF Fatal
  <2> HIDE DEF pi
  <2> QED BY <1>4, <2>1, <2>2
<1>8. ASSUME Transient(l)
      PROVE  /\ \A o \in Msgs : o # cur[l] => info'[o] = info[o]
             /\ info'[cur[l]] = info[cur[l]] \/ info'[cur[l]].verdict = "none"
  <2> DEFINE pi == [verdict |-> "none", next |-> "future"]
  <2>1. pi \in PeerInfo /\ pi.verdict = "none"
    BY DEF PeerInfo
  <2>2. Record(l, pi, 1) /\ pc[l] = "push"
    BY <1>8 DEF Transient
  <2> HIDE DEF pi
  <2> QED BY <1>4, <2>1, <2>2
<1> QED BY <1>1, <1>2, <1>3, <1>6, <1>7, <1>8 DEF MsgLoop

\* What the rest of the node and the peer do to the verdicts: only the janitor takes
\* one away, with the message.
LEMMA EnvironmentInfo ==
    ASSUME TypeOK, NEW m \in Msgs, Environment(m) \/ Publish(m) \/ Wake(m)
    PROVE  /\ UNCHANGED <<batch, cur, pc, todo, hollow, scope, refuses, blocked, mistaken>>
           /\ has \subseteq has' /\ early \subseteq early'
           /\ \A o \in Msgs :
                /\ \/ info'[o].verdict = info[o].verdict
                   \/ info'[o].verdict = "none" /\ file'[o] = "removed"
                /\ file[o] \in {"expired", "removed"} => file'[o] \in {"expired", "removed"}
<1> USE DEF store, peer, diff, queue, bounds
<1>1. CASE Partial(m) \/ Receive(m) \/ Expire(m) \/ Elsewhere(m)
  BY <1>1 DEF TypeOK, Partial, Receive, Expire, Elsewhere, Fault
<1>2. CASE Janitor(m)
  BY <1>2 DEF TypeOK, Janitor, ZeroInfo
<1>3. CASE Publish(m)
  BY <1>3 DEF Publish
<1>4. CASE Wake(m)
  <2>1. \A o \in Msgs : info'[o].verdict = info[o].verdict
    <3>1. info[m] \in PeerInfo
      BY DEF TypeOK
    <3> QED BY <1>4, <3>1 DEF TypeOK, Wake, PeerInfo
  <2> QED BY <1>4, <2>1 DEF Wake
<1> QED BY <1>1, <1>2, <1>3, <1>4 DEF Environment

\* A step of a loop changes neither the storage of messages nor what the peer refuses.
LEMMA LoopFrame ==
    ASSUME NEW l, Start(l) \/ Stop(l) \/ MsgLoop(l) \/ DiffFails(l) \/ Transient(l)
    PROVE  /\ UNCHANGED <<file, toPub, early, blocked, refuses, scope>>
           /\ has \subseteq has' /\ mistaken \subseteq mistaken'
<1> USE DEF store, peer, diff, queue, bounds
<1>1. CASE \/ Start(l) \/ Stop(l) \/ Open(l) \/ EndBatch(l) \/ Respond(l) \/ Finish(l)
           \/ DiffFails(l) \/ \E m \in Msgs : Collect(l, m) \/ Pop(l, m)
  BY <1>1 DEF Start, Stop, Fault, Open, EndBatch, Respond, Finish, DiffFails, Collect, Pop
<1>2. CASE \E m \in Msgs : Answer(l, m)
  BY <1>2 DEF Answer, SetPeerInfo
<1>3. CASE Sent(l) \/ Fatal(l) \/ Transient(l)
  BY <1>3 DEF Sent, Fatal, Transient, Record, SetPeerInfo
<1> QED BY <1>1, <1>2, <1>3 DEF MsgLoop

\* Every step keeps the verdicts true: msgLoop records what the push has shown,
\* and what the peer has or refuses stays so.
LEMMA VerdictsStep ==
    ASSUME TypeOK, LoopState, Known, Verdicts, Next
    PROVE  Verdicts'
<1>1. ASSUME NEW m \in Msgs, Environment(m) \/ Publish(m) \/ Wake(m) PROVE Verdicts'
  BY <1>1, EnvironmentInfo DEF Verdicts
<1>2. ASSUME NEW l \in scope.loops,
             Start(l) \/ Stop(l) \/ MsgLoop(l) \/ DiffFails(l) \/ Transient(l)
      PROVE  Verdicts'
  <2>0. l \in Loops
    BY DeliveryAssumption DEF TypeOK
  <2>1. /\ UNCHANGED <<file, early, refuses>>
        /\ has \subseteq has' /\ mistaken \subseteq mistaken'
    BY <1>2, LoopFrame
  <2>2. ASSUME NEW o \in Msgs, o \in batch[l] \/ cur[l] = o, file[o] # "complete"
        PROVE  o \in early \/ file[o] \in {"expired", "removed"}
    <3>1. cur[l] = o => Copies(l, o) > 0
      BY <2>0 DEF Copies, TypeOK
    <3>2. file[o] # "absent"
      BY <2>0, <2>2, <3>1 DEF Known
    <3> QED BY <2>2, <3>2 DEF Known, TypeOK
  <2>3. ASSUME NEW o \in Msgs
        PROVE  \/ info'[o] = info[o]
               \/ info'[o].verdict = "none"
               \/ info'[o].verdict = "sent" /\ o \in has' \cup mistaken'
               \/ /\ info'[o].verdict = "fatal"
                  /\ o \in refuses \cup early \/ file[o] \in {"expired", "removed"}
    BY <1>2, <2>0, <2>2, InfoStep
  <2> QED BY <2>1, <2>3 DEF Verdicts
<1> QED BY <1>1, <1>2 DEF Next

\* With one loop, what it takes in hand has no verdict, and gets one only when it
\* leaves its hand.
LEMMA NoVerdictStep ==
    ASSUME TypeOK, LoopState, NoVerdictYet, Next
    PROVE  NoVerdictYet'
<1> USE DEF store, peer, diff, queue, bounds
<1>1. ASSUME NEW m \in Msgs, Environment(m) \/ Publish(m) \/ Wake(m) PROVE NoVerdictYet'
  BY <1>1, EnvironmentInfo DEF NoVerdictYet
<1>2. ASSUME NEW l \in scope.loops,
             Start(l) \/ Stop(l) \/ MsgLoop(l) \/ DiffFails(l) \/ Transient(l)
      PROVE  NoVerdictYet'
  <2>0. l \in Loops
    BY DeliveryAssumption DEF TypeOK
  <2>1. scope' = scope
    BY <1>2, LoopFrame
  <2>2. SUFFICES ASSUME NEW o \in Msgs, scope.loops = {l}, o \in batch'[l] \/ cur'[l] = o
                 PROVE  info'[o].verdict = "none"
    BY <2>1 DEF NoVerdictYet
  <2>3. \A m \in Msgs : m \in batch[l] \/ cur[l] = m => info[m].verdict = "none"
    BY <2>0, <2>2 DEF NoVerdictYet
  <2>4. CASE Stop(l) \/ Open(l)
    <3>1. batch'[l] = {} /\ cur' = cur /\ info' = info
      BY <2>0, <2>4 DEF Stop, Open, TypeOK
    <3> QED BY <2>2, <2>3, <3>1
  <2>5. CASE Start(l) \/ EndBatch(l) \/ Respond(l) \/ Finish(l) \/ DiffFails(l)
    <3>1. UNCHANGED <<batch, cur, info>>
      BY <2>5 DEF Start, EndBatch, Respond, Finish, DiffFails
    <3> QED BY <2>2, <2>3, <3>1
  <2>6. ASSUME NEW m \in Msgs, Collect(l, m) PROVE info'[o].verdict = "none"
    <3>1. /\ batch'[l] = batch[l] \/ (batch'[l] = batch[l] \cup {m} /\ Candidate(m))
          /\ cur' = cur /\ info' = info
      BY <2>0, <2>6 DEF TypeOK, Collect
    <3> QED BY <2>2, <2>3, <3>1 DEF Candidate
  <2>7. ASSUME NEW m \in Msgs, Pop(l, m) PROVE info'[o].verdict = "none"
    <3>1. /\ batch' = batch /\ info' = info
          /\ cur' = cur \/ (cur' = [cur EXCEPT ![l] = m] /\ info[m].verdict = "none")
      BY <2>7 DEF Pop
    <3> QED BY <2>0, <2>2, <2>3, <3>1 DEF TypeOK
  <2>8. ASSUME NEW m \in Msgs, Answer(l, m) PROVE info'[o].verdict = "none"
    <3>1. /\ batch'[l] = batch[l] \ {m} /\ cur' = cur /\ cur[l] = NoMsg /\ m \in batch[l]
      BY <2>0, <2>8 DEF Answer, TypeOK
    <3>2. o \in batch[l] /\ o # m
      BY <2>2, <3>1, DeliveryAssumption
    <3>3. info'[o] = info[o]
      BY <2>8, <3>2 DEF Answer, SetPeerInfo, TypeOK
    <3> QED BY <2>3, <3>2, <3>3
  <2>9. CASE Sent(l) \/ Fatal(l) \/ Transient(l)
    <3>1. batch' = batch /\ cur' = [cur EXCEPT ![l] = NoMsg] /\ pc[l] = "push"
      BY <2>9 DEF Sent, Fatal, Transient, Record
    <3>2. batch[l] = {} /\ cur'[l] = NoMsg
      BY <2>0, <3>1 DEF LoopState, TypeOK
    <3> QED BY <2>2, <3>1, <3>2, DeliveryAssumption
  <2> QED BY <1>2, <2>4, <2>5, <2>6, <2>7, <2>8, <2>9 DEF MsgLoop
<1> QED BY <1>1, <1>2 DEF Next

\* The rest of the node makes no message owed, except by publishing it to the loop.
LEMMA EnvironmentOnItsWay ==
    ASSUME TypeOK, OnItsWay, NEW m \in Msgs, Environment(m) \/ Publish(m) \/ Wake(m)
    PROVE  OnItsWay'
<1> USE DEF store, peer, diff, queue, bounds
<1>0. \A k \in Loops, o \in Msgs : Copies(k, o) \in Nat
  BY DEF Copies, TypeOK
<1>f. /\ UNCHANGED <<batch, pc, todo, hollow, scope, blocked, refuses, mistaken>>
      /\ has \subseteq has'
  BY EnvironmentInfo
<1>1. CASE Environment(m) \/ Wake(m)
  <2>1. \A k \in Loops, o \in Msgs : Copies(k, o)' = Copies(k, o)
    BY <1>1, QuietCopies
  <2>2. ASSUME NEW o \in Msgs, Owed(o)' PROVE Owed(o)
    <3>0. /\ file'[o] = "complete" /\ toPub'[o] = 0 /\ info'[o].verdict = "none"
          /\ o \notin blocked /\ o \notin has \cup refuses \cup mistaken
      BY <1>f, <2>2 DEF Owed, Candidate
    <3>1. info[o].verdict = "none"
      BY <3>0, EnvironmentInfo
    <3>2. file[o] = "complete" /\ toPub[o] = 0
      <4>1. CASE Partial(m)
        BY <3>0, <4>1 DEF Partial, TypeOK
      <4>2. CASE Receive(m)
        BY <3>0, <4>2 DEF Receive, TypeOK
      <4>3. CASE Expire(m) \/ Janitor(m)
        BY <3>0, <4>3 DEF Expire, Janitor, TypeOK
      <4>4. CASE Elsewhere(m) \/ Wake(m)
        BY <3>0, <4>4 DEF Elsewhere, Wake
      <4> QED BY <1>1, <4>1, <4>2, <4>3, <4>4 DEF Environment
    <3> QED BY <3>0, <3>1, <3>2 DEF Owed, Candidate
  <2> QED BY <1>f, <2>1, <2>2 DEF OnItsWay
<1>2. CASE Publish(m)
  <2>1. ASSUME NEW k \in Loops, NEW o \in Msgs, scope.loops = {k},
               pc[k] \notin {"off", "open"}, ~ hollow[k], Owed(o)'
        PROVE  \/ Copies(k, o)' > 0
               \/ pc[k] \in {"collect", "exchange", "answer"} /\ o \in todo[k] \cup batch[k]
    <3>1. CASE o = m
      <4>1. m \notin blocked
        BY <1>f, <2>1, <3>1 DEF Owed, Candidate
      <4>2. Copies(k, o)' = Copies(k, o) + 1
        BY <1>2, <2>1, <3>1, <4>1, PublishCopies
      <4> QED BY <1>0, <4>2
    <3>2. CASE o # m
      <4>1. Copies(k, o)' = Copies(k, o)
        BY <1>2, <3>2, PublishCopies
      <4>2. toPub'[o] = toPub[o] /\ UNCHANGED <<file, info, blocked, has, refuses, mistaken>>
        BY <1>2, <3>2 DEF Publish, TypeOK
      <4>3. Owed(o)
        BY <2>1, <4>2 DEF Owed, Candidate
      <4> QED BY <2>1, <4>1, <4>3 DEF OnItsWay
    <3> QED BY <3>1, <3>2
  <2> QED BY <1>f, <2>1 DEF OnItsWay
<1> QED BY <1>1, <1>2

\* The loop forgets no message that is owed.
LEMMA LoopOnItsWay ==
    ASSUME TypeOK, LoopState, OnItsWay, NEW l \in scope.loops,
           Start(l) \/ Stop(l) \/ MsgLoop(l) \/ DiffFails(l) \/ Transient(l)
    PROVE  OnItsWay'
<1> USE DEF store, peer, diff, queue, bounds
<1>0. l \in Loops
  BY DeliveryAssumption DEF TypeOK
<1>f. /\ UNCHANGED <<file, toPub, blocked, refuses, scope>>
      /\ has \subseteq has' /\ mistaken \subseteq mistaken'
  BY LoopFrame
<1> DEFINE Way(o) == /\ pc[l] \in {"collect", "exchange", "answer"}
                     /\ o \in todo[l] \cup batch[l]
           WayNext(o) == /\ pc'[l] \in {"collect", "exchange", "answer"}
                         /\ o \in todo'[l] \cup batch'[l]
<1>1. SUFFICES ASSUME NEW o \in Msgs, scope.loops = {l}, pc'[l] \notin {"off", "open"},
                      ~ hollow'[l], Owed(o)'
               PROVE  Copies(l, o)' > 0 \/ WayNext(o)
  BY <1>f DEF OnItsWay
<1>2. /\ file[o] = "complete" /\ toPub[o] = 0 /\ o \notin blocked
      /\ o \notin has' \cup refuses \cup mistaken' /\ o \notin has \cup mistaken
      /\ info'[o].verdict = "none"
  BY <1>1, <1>f DEF Owed, Candidate
<1>3. info[o].verdict = "none" => Owed(o)
  BY <1>2 DEF Owed, Candidate
<1>4. /\ pc[l] \notin {"off", "open"} /\ ~ hollow[l] /\ Owed(o)
      => Copies(l, o) > 0 \/ Way(o)
  BY <1>0, <1>1 DEF OnItsWay
<1>5. Copies(l, o) \in Nat
  BY <1>0 DEF Copies, TypeOK
<1> HIDE DEF Way, WayNext
<1>6. CASE Start(l) \/ Stop(l) \/ DiffFails(l)
  <2>1. pc'[l] \in {"off", "open"}
    BY <1>0, <1>6 DEF Start, Stop, DiffFails, TypeOK
  <2> QED BY <1>1, <2>1
<1>7. CASE Open(l)
  <2>1. pc'[l] = "collect" /\ o \in todo'[l]
    BY <1>0, <1>2, <1>7 DEF Open, TypeOK
  <2> QED BY <2>1 DEF WayNext
<1>8. ASSUME NEW m \in Msgs, Collect(l, m) PROVE Copies(l, o)' > 0 \/ WayNext(o)
  <2>1. Copies(l, o)' = Copies(l, o)
    BY <1>0, <1>8, QuietCopies
  <2>2. /\ pc' = pc /\ pc[l] = "collect" /\ hollow' = hollow /\ info' = info
        /\ todo'[l] = todo[l] \ {m} /\ batch[l] \subseteq batch'[l]
        /\ file[m] = "complete" /\ Candidate(m) => m \in batch'[l]
    BY <1>0, <1>8 DEF Collect, TypeOK
  <2>3. Copies(l, o) > 0 \/ Way(o)
    BY <1>1, <1>2, <1>3, <1>4, <2>2
  <2>4. Candidate(o)
    BY <1>2, <2>2 DEF Candidate
  <2> QED BY <1>2, <2>1, <2>2, <2>3, <2>4 DEF Way, WayNext
<1>9. CASE EndBatch(l)
  <2>1. Copies(l, o)' = Copies(l, o)
    BY <1>0, <1>9, QuietCopies
  <2>2. /\ pc[l] = "collect" /\ info' = info /\ todo' = todo /\ batch' = batch
        /\ batch[l] # {} => pc'[l] = "exchange"
    BY <1>0, <1>9 DEF EndBatch, TypeOK
  <2>3. batch[l] = {} => todo[l] = {}
    BY <1>0, <1>1, <1>9 DEF EndBatch, TypeOK
  <2>4. ~ hollow[l]
    BY <1>0, <2>2 DEF LoopState
  <2>5. Copies(l, o) > 0 \/ Way(o)
    BY <1>2, <1>3, <1>4, <2>2, <2>4
  <2> QED BY <2>1, <2>2, <2>3, <2>5 DEF Way, WayNext
<1>10. CASE Respond(l) \/ Finish(l)
  <2>1. Copies(l, o)' = Copies(l, o)
    BY <1>0, <1>10, QuietCopies
  <2>2. /\ info' = info /\ todo' = todo /\ batch' = batch /\ hollow' = hollow
        /\ \/ pc[l] = "exchange" /\ pc'[l] = "answer"
           \/ pc[l] = "finish" /\ pc'[l] = "pop"
    BY <1>0, <1>10 DEF Respond, Finish, TypeOK
  <2>3. Copies(l, o) > 0 \/ Way(o)
    BY <1>1, <1>2, <1>3, <1>4, <2>2
  <2> QED BY <2>1, <2>2, <2>3 DEF Way, WayNext
<1>11. ASSUME NEW m \in Msgs, Answer(l, m) PROVE Copies(l, o)' > 0 \/ WayNext(o)
  <2>1. /\ pc[l] = "answer" /\ pc'[l] \in {"answer", "collect"} /\ hollow' = hollow
        /\ todo' = todo /\ batch'[l] = batch[l] \ {m}
    BY <1>0, <1>11 DEF Answer, TypeOK
  <2>2. CASE o = m
    <3>1. o \notin held[l]
      BY <1>0, <1>2 DEF LoopState
    <3>2. Copies(l, o)' = Copies(l, o) + 1
      BY <1>0, <1>11, <2>2, <3>1, AnswerCopies
    <3> QED BY <1>5, <3>2
  <2>3. CASE o # m
    <3>1. Copies(l, o)' = Copies(l, o)
      BY <1>0, <1>11, <2>3, AnswerCopies
    <3>2. info'[o] = info[o]
      BY <1>11, <2>3 DEF Answer, SetPeerInfo, TypeOK
    <3>3. Copies(l, o) > 0 \/ Way(o)
      BY <1>1, <1>2, <1>3, <1>4, <2>1, <3>2
    <3> QED BY <2>1, <2>3, <3>1, <3>3 DEF Way, WayNext
  <2> QED BY <2>2, <2>3
<1>12. ASSUME NEW m \in Msgs, Pop(l, m) PROVE Copies(l, o)' > 0
  <2>1. info' = info /\ hollow' = hollow /\ pc[l] = "pop"
    BY <1>12 DEF Pop
  <2>2. Copies(l, o) > 0
    BY <1>1, <1>2, <1>3, <1>4, <2>1 DEF Way
  <2>3. Copies(l, o)' = Copies(l, o)
    BY <1>0, <1>2, <1>12, <2>1, PopCopies
  <2> QED BY <2>2, <2>3
<1>13. CASE Sent(l) \/ Fatal(l)
  <2>1. pc[l] = "push" /\ hollow' = hollow /\ cur[l] # o
    <3>1. CASE Sent(l)
      BY <1>2, <3>1 DEF Sent, Record
    <3>2. CASE Fatal(l)
      BY <1>2, <3>2 DEF Fatal, Record
    <3> QED BY <1>13, <3>1, <3>2
  <2>2. info'[o] = info[o]
    BY <1>13, <2>1 DEF Sent, Fatal, Record, SetPeerInfo, TypeOK
  <2>3. Copies(l, o) > 0
    BY <1>1, <1>2, <1>3, <1>4, <2>1, <2>2 DEF Way
  <2>4. Copies(l, o)' = Copies(l, o)
    BY <1>0, <1>13, <2>1, EndCopies
  <2> QED BY <2>3, <2>4
<1>14. CASE Transient(l)
  <2>1. pc[l] = "push" /\ hollow' = hollow
    BY <1>14 DEF Transient, Record
  <2>2. Copies(l, o)' = Copies(l, o)
    BY <1>0, <1>14, QuietCopies
  <2>3. CASE cur[l] = o
    <3>1. Copies(l, o) > 0
      BY <1>0, <2>3 DEF Copies, TypeOK
    <3> QED BY <2>2, <3>1
  <2>4. CASE cur[l] # o
    <3>1. info'[o] = info[o]
      BY <1>14, <2>4 DEF Transient, Record, SetPeerInfo, TypeOK
    <3>2. Copies(l, o) > 0
      BY <1>1, <1>2, <1>3, <1>4, <2>1, <3>1 DEF Way
    <3> QED BY <2>2, <3>2
  <2> QED BY <2>3, <2>4
<1> QED BY <1>6, <1>7, <1>8, <1>9, <1>10, <1>11, <1>12, <1>13, <1>14 DEF MsgLoop

-----------------------------------------------------------------------------
(* The theorems.                                                           *)

\* The invariant is inductive: the types, where a message may be in hand, why a
\* verdict is true, and where a message that is owed to the peer is.
THEOREM Invariance == Spec => []IInv
<1>1. ASSUME IInv, [Next]_vars PROVE IInv'
  <2>0. TypeOK /\ LoopState /\ Known /\ Verdicts /\ NoVerdictYet /\ OnItsWay
    BY <1>1 DEF IInv
  <2>1. CASE Next
    <3>0. scope.loops \subseteq Loops
      BY <2>0, DeliveryAssumption DEF TypeOK
    <3>1. TypeOK'
      BY <2>0, <2>1, <3>0, EnvironmentTypes, DiffTypes, PushTypes DEF Next, MsgLoop
    <3>2. OnItsWay'
      BY <2>0, <2>1, EnvironmentOnItsWay, LoopOnItsWay DEF Next
    <3> QED BY <2>0, <2>1, <3>1, <3>2, LoopStep, KnownStep, VerdictsStep, NoVerdictStep DEF IInv
  <2>2. CASE UNCHANGED vars
    BY <2>0, <2>2 DEF IInv, TypeOK, LoopState, Known, Verdicts, NoVerdictYet, OnItsWay, Copies,
       Owed, Candidate, vars, store, peer, diff, queue, bounds
  <2> QED BY <1>1, <2>1, <2>2
<1> QED BY InitIInv, <1>1, PTL DEF Spec

\* What msgLoop records in a PeerInfo file is so: a message recorded as sent is at the
\* peer, unless a call of Push was repeated without rewinding the reader
\* (peers.go:428-432, 359-360), and FatalError is recorded only for one that the peer
\* refuses, that has expired, or that was published before it was complete.
THEOREM VerdictsTrue == Spec => []VerdictsAreTrue
<1>1. IInv => VerdictsAreTrue
  BY DEF IInv, Verdicts, VerdictsAreTrue
<1> QED BY <1>1, Invariance, PTL

\* With one loop, after diffAndEnqueue, every message that is owed to the peer is in
\* the queue or being pushed, unless an empty batch has ended the comparison.
THEOREM NoneForgotten == Spec => []NothingIsForgotten
<1>1. IInv => NothingIsForgotten
  BY DEF IInv, OnItsWay, NothingIsForgotten
<1> QED BY <1>1, Invariance, PTL

\* With one loop, no later attempt overwrites a verdict while the message exists.
THEOREM VerdictsStay == Spec => VerdictStays
<1>1. ASSUME IInv, [Next]_vars, NEW l \in Loops, NEW m \in Msgs, scope.loops = {l},
             info[m].verdict # "none", file'[m] # "removed"
      PROVE  info'[m].verdict = info[m].verdict
  <2>1. ASSUME NEW o \in Msgs, Environment(o) \/ Publish(o) \/ Wake(o)
        PROVE  info'[m].verdict = info[m].verdict
    BY <1>1, <2>1, EnvironmentInfo DEF IInv
  <2>2. ASSUME Start(l) \/ Stop(l) \/ MsgLoop(l) \/ DiffFails(l) \/ Transient(l)
        PROVE  info'[m] = info[m]
    <3>1. m \notin batch[l] /\ cur[l] # m
      BY <1>1 DEF IInv, NoVerdictYet
    <3> QED BY <1>1, <2>2, <3>1, InfoStep DEF IInv
  <2>3. CASE UNCHANGED vars
    BY <2>3 DEF vars
  <2> QED BY <1>1, <2>1, <2>2, <2>3 DEF Next
<1>2. IInv /\ [Next]_vars =>
        [\A l \in Loops : \A m \in Msgs :
           /\ scope.loops = {l}
           /\ info[m].verdict # "none" /\ file'[m] # "removed"
           => info'[m].verdict = info[m].verdict]_vars
  BY <1>1
<1> QED BY <1>2, Invariance, PTL DEF Spec, VerdictStays
=============================================================================
