---------------------------- MODULE RobotProofs ----------------------------
(* Proofs about the process: Node, Chat and Robot.                         *)
EXTENDS Robot, FiniteSetTheorems, SequenceTheorems, TLAPS

-----------------------------------------------------------------------------
(* The inductive invariant.                                                *)

\* An advertisement is on the air only between Advertise and adDone.
OnlyWhileAdvertised ==
    \A d \in Discs :
        /\ onair[d] # {} => adv[d].pc \in {"select", "change", "exit"}
        /\ \E a \in Addrs : onair[d] \subseteq {a}

\* StartNode has started the discoveries in turn: nothing runs for those to come.
StartedInTurn ==
    \A d \in Discs :
        /\ adv[d].pc # "none" => d < next \/ (d = next /\ npc \in {"scan", "failed"})
        /\ pm[d] # "none" => d < next

\* Every message comes once: it is with one thread that sends it, with readLoop,
\* or at one place of the channel.
ComesOnce ==
    /\ \A t, u \in Threads : smsg[t] # 0 /\ smsg[t] = smsg[u] => t = u
    /\ \A t \in Threads : smsg[t] # 0 => smsg[t] # relay
    /\ \A t \in Threads, i \in 1 .. Len(chan) : chan[i] # smsg[t]
    /\ \A i \in 1 .. Len(chan) : chan[i] # relay
    /\ \A i, j \in 1 .. Len(chan) : chan[i] = chan[j] => i = j

\* What sendMessage knows of the storage: the message is not there before Close, and
\* not locked afterwards.
SenderKnows ==
    \A t \in Threads : /\ spc[t] = "copy" => smsg[t] \notin store
                       /\ spc[t] = "pub" => smsg[t] \notin busy

\* Who saves a file is alone, and has created it.
SaverIsAlone ==
    \A t \in Showers : cur[t] # 0 =>
        /\ saved = [of |-> cur[t], whole |-> FALSE]
        /\ \A u \in Showers : cur[u] # 0 => u = t

\* A talker that waits in its select is not in sendMessage.
WaitersAreSilent ==
    \A t \in Talkers : talker[t].pc = "wait" => spc[t] = "no"

\* Message n is about to be received, by the loop or not at all.
Coming(n) ==
    \/ \E t \in Threads : smsg[t] = n
    \/ relay = n
    \/ \E i \in 1 .. Len(chan) : chan[i] = n

\* The answers to n that may still come without another history.
One(b) == IF b THEN 1 ELSE 0
Owed(n) ==
    CASE msgs[n].kind = "ping" ->
           One(Coming(n)) + One(n \in todo["loop"]) + One(n \in todo["ui"])
      [] msgs[n].kind \in {"talk", "hush"} -> One(Coming(n))
      [] OTHER -> 0

Limit(n) ==
    CASE msgs[n].kind = "ping" -> 1 + histories
      [] msgs[n].kind \in {"talk", "hush"} -> 1
      [] OTHER -> 0

\* PongsAreBounded, with the answers still to come.
Limited(n) == Cardinality(Answers(n)) + Owed(n) <= Limit(n)
AnswersAreLimited == \A n \in 1 .. Len(msgs) : Limited(n)

NodeInv == NodeTypeOK /\ OnlyWhileAdvertised /\ StartedInTurn /\ StopWaits
ChatInv ==
    /\ ChatTypeOK
    /\ WaitersAreSilent
    /\ ComesOnce
    /\ SenderKnows
    /\ NothingLeftBehind
    /\ SaverIsAlone
    /\ FileIsWhole
    /\ AnswersAreLimited
RobotInv == RobotTypeOK /\ TalkersListen
IInv == NodeInv /\ ChatInv /\ RobotInv

-----------------------------------------------------------------------------
(* The node.                                                               *)

\* What the steps of the applications do to the node: they subscribe, and count
\* errors and events.
NodeIsStill ==
    /\ UNCHANGED <<config, npc, next, parent, canceled, addr, changes, adv, onair, pm, ps>>
    /\ sub' \in {sub, "late", "open"}
    /\ errors' \in {errors, errors + 1}
    /\ events' \in {events, events + 1}

\* A step of sendMessage or of handleMessage leaves the node alone.
LEMMA ChatFrame ==
    ASSUME \/ \E t \in Threads : sendMessage(t)
           \/ PeerPushes \/ chatLoop \/ UserSends \/ UserHistory
           \/ \E t \in Showers : history(t)
    PROVE  NodeIsStill
<1>1. ASSUME NEW t \in Threads, sendMessage(t) PROVE NodeIsStill
  BY <1>1 DEF sendMessage, SendStores, SendError, EncryptError, SendPublishes,
     SendCanceled, Takes, Error, Event, nodeVars, startVars, epVars, discVars, psVars,
     NodeIsStill
<1>2. ASSUME NEW t \in Showers, history(t) PROVE NodeIsStill
  BY <1>2 DEF history, ReadsManifest, ShowsNext, ShowsAll, Saves, Drops, NoError, Error,
     Event, nodeVars, startVars, epVars, discVars, psVars, NodeIsStill
<1>3. CASE chatLoop
  BY <1>3 DEF chatLoop, LoopStarts, LoopReceives, LoopEnds, Subscribe, Drops, NoError,
     Error, Event, nodeVars, startVars, epVars, discVars, psVars, NodeIsStill
<1>4. CASE PeerPushes \/ UserSends \/ UserHistory
  BY <1>4 DEF PeerPushes, UserSends, UserHistory, Input, Event, startVars, epVars,
     discVars, psVars, NodeIsStill
<1> QED BY <1>1, <1>2, <1>3, <1>4

\* Every step is one of the node's, or leaves it alone.
LEMMA NodeFrame ==
    ASSUME Next
    PROVE  NodeNext \/ Stop \/ NodeIsStill
<1>1. CASE ChatNext
  BY <1>1, ChatFrame DEF ChatNext, UserQuits
<1>2. CASE robotLoop
  BY <1>2 DEF robotLoop, RobotStarts, RobotReceives, RobotEnds, Subscribe, Drops, NoError,
     Error, Event, nodeVars, startVars, epVars, discVars, psVars, NodeIsStill
<1>3. ASSUME NEW t \in Talkers, talkerLoop(t) PROVE NodeIsStill
  BY <1>3 DEF talkerLoop, TalkerListens, TalkerSpeaks, TalkerEnds, Input, Event,
     nodeVars, startVars, epVars, discVars, psVars, NodeIsStill
<1>4. CASE Signal
  BY <1>4 DEF Signal
<1> QED BY <1>1, <1>2, <1>3, <1>4 DEF Next

\* Where a goroutine of advertise may be.
AdvPlaces == {"none", "status", "advertise", "retry", "select", "change", "exit", "end"}
Advertisers == [pc : AdvPlaces, seen : Nat, addr : Addrs]

\* A move of one goroutine of advertise leaves the others where they are.
LEMMA AdvMoves ==
    ASSUME adv \in [Discs -> Advertisers], NEW d \in Discs, NEW to \in AdvPlaces,
           adv' = [adv EXCEPT ![d].pc = to]
    PROVE  /\ adv' \in [Discs -> Advertisers]
           /\ adv'[d].pc = to
           /\ \A e \in Discs : e # d => adv'[e] = adv[e]
<1>1. [adv[d] EXCEPT !.pc = to] \in Advertisers /\ [adv[d] EXCEPT !.pc = to].pc = to
  BY DEF Advertisers
<1> QED BY <1>1

\* The types of the node's variables.
LEMMA NodeTypesKept ==
    ASSUME NodeTypeOK, NodeNext \/ Stop \/ NodeIsStill
    PROVE  NodeTypeOK'
<1>0. /\ config \in Configs /\ discs \in 0 .. MaxDiscs /\ MaxDiscs \in Nat
      /\ adv \in [Discs -> Advertisers]
  BY NodeAssumption DEF discs, NodeTypeOK, Advertisers, AdvPlaces
<1>1. CASE NodeIsStill
  BY <1>1 DEF NodeIsStill, discs, NodeTypeOK
<1>2. CASE Stop \/ StopReturns \/ ParentDone
  BY <1>2 DEF Stop, StopReturns, ParentDone, startVars, epVars, discVars, psVars, discs,
     NodeTypeOK
<1>3. CASE StartNode
  <2>1. CASE StartNotifier \/ NewDiscoveryError \/ Started
    BY <1>0, <2>1 DEF StartNotifier, NewDiscoveryError, Started, Error, Event, NoError,
       epVars, discVars, psVars, discs, NodeTypeOK
  <2>2. CASE StartAdvertise
    <3>1. next \in Discs
      BY <1>0, <2>2 DEF StartAdvertise, Discs, NodeTypeOK
    <3>2. adv' \in [Discs -> Advertisers]
      BY <1>0, <2>2, <3>1, AdvMoves DEF StartAdvertise, AdvPlaces
    <3> QED BY <2>2, <3>2 DEF StartAdvertise, epVars, psVars, discs, NodeTypeOK,
               Advertisers, AdvPlaces
  <2>3. CASE StartScan
    <3>1. /\ next' \in 1 .. discs + 1 /\ pm' \in [Discs -> {"none", "running", "done"}]
          /\ npc' \in {"disc", "failed"}
      BY <1>0, <2>3 DEF StartScan, NodeTypeOK
    <3>2. errors' \in Nat /\ events' \in Nat
      BY <2>3 DEF StartScan, Error, Event, NoError, NodeTypeOK
    <3> QED BY <2>3, <3>1, <3>2 DEF StartScan, epVars, psVars, discs, NodeTypeOK
  <2> QED BY <1>3, <2>1, <2>2, <2>3 DEF StartNode
<1>4. CASE EndpointsChange
  BY <1>4 DEF EndpointsChange, Event, startVars, discVars, psVars, discs, NodeTypeOK
<1>5. ASSUME NEW d \in Discs, advertise(d) PROVE NodeTypeOK'
  <2>1. adv' \in [Discs -> Advertisers]
    <3>1. CASE \E from, to \in AdvPlaces : AdvGoes(d, from, to)
      BY <1>0, <3>1, AdvMoves DEF AdvGoes
    <3>2. CASE AdvStatus(d) \/ AdvDirty(d)
      BY <1>0, <3>2 DEF AdvStatus, AdvDirty, NodeTypeOK, Advertisers, AdvPlaces
    <3> QED BY <1>5, <3>1, <3>2 DEF advertise, Advertise, AdvertiseError, AdvRetry,
               AdvCanceled, AdvWithdrawn, AdvPlaces
  <2>2. onair' \in [Discs -> SUBSET Addrs]
    BY <1>0, <1>5 DEF advertise, AdvStatus, Advertise, AdvertiseError, AdvRetry,
       AdvCanceled, AdvDirty, AdvWithdrawn, Advertisers, NodeTypeOK
  <2>3. errors' \in Nat /\ events' \in Nat
    BY <1>5 DEF advertise, AdvStatus, Advertise, AdvertiseError, AdvRetry, AdvCanceled,
       AdvDirty, AdvWithdrawn, Error, Event, NoError, NodeTypeOK
  <2>4. UNCHANGED <<config, npc, next, parent, canceled, addr, changes, pm, ps, sub>>
    BY <1>5 DEF advertise, AdvStatus, Advertise, AdvertiseError, AdvRetry, AdvCanceled,
       AdvDirty, AdvWithdrawn, startVars, epVars, psVars
  <2> QED BY <2>1, <2>2, <2>3, <2>4 DEF NodeTypeOK, Advertisers, AdvPlaces, discs
<1>6. ASSUME NEW d \in Discs, Withdraw(d) \/ PeerManagerEnds(d) PROVE NodeTypeOK'
  BY <1>6 DEF Withdraw, PeerManagerEnds, startVars, epVars, psVars, discs, NodeTypeOK
<1>7. CASE readLoop
  BY <1>7 DEF readLoop, Relay, RelaySkips, NotifierEnds, startVars, epVars, discVars,
     discs, NodeTypeOK
<1> QED BY <1>1, <1>2, <1>3, <1>4, <1>5, <1>6, <1>7 DEF NodeNext

\* Advertisements and the order of the starts.
LEMMA AdvertisedKept ==
    ASSUME NodeTypeOK, OnlyWhileAdvertised, StartedInTurn,
           NodeNext \/ Stop \/ NodeIsStill
    PROVE  OnlyWhileAdvertised' /\ StartedInTurn'
<1>0. /\ discs \in 0 .. MaxDiscs /\ MaxDiscs \in Nat /\ next \in Nat
      /\ Discs \subseteq Nat /\ adv \in [Discs -> Advertisers]
  BY NodeAssumption DEF discs, Discs, NodeTypeOK, Advertisers, AdvPlaces
<1> USE DEF OnlyWhileAdvertised, StartedInTurn
<1>1. CASE NodeIsStill
  BY <1>1 DEF NodeIsStill
<1>2. CASE Stop \/ StopReturns \/ ParentDone
  BY <1>2 DEF Stop, StopReturns, ParentDone, startVars, discVars
<1>3. CASE StartNode
  <2>1. CASE StartNotifier \/ NewDiscoveryError \/ Started
    BY <1>0, <2>1 DEF StartNotifier, NewDiscoveryError, Started, discVars
  <2>2. CASE StartAdvertise
    <3>0. next \in Discs
      BY <1>0, <2>2 DEF StartAdvertise, Discs, NodeTypeOK
    <3>1. next \in Discs /\ onair[next] = {}
      BY <1>0, <2>2, <3>0 DEF StartAdvertise
    <3>2. adv'[next].pc = "status" /\ \A e \in Discs : e # next => adv'[e] = adv[e]
      BY <1>0, <2>2, <3>1, AdvMoves DEF StartAdvertise, AdvPlaces
    <3> QED BY <1>0, <2>2, <3>1, <3>2 DEF StartAdvertise
  <2>3. CASE StartScan
    BY <1>0, <2>3 DEF StartScan, NodeTypeOK
  <2> QED BY <1>3, <2>1, <2>2, <2>3 DEF StartNode
<1>4. CASE EndpointsChange \/ readLoop
  BY <1>4 DEF EndpointsChange, readLoop, Relay, RelaySkips, NotifierEnds, startVars,
     discVars
<1>g. ASSUME NEW d \in Discs, NEW from, NEW to \in AdvPlaces, AdvGoes(d, from, to)
      PROVE  /\ adv[d].pc = from /\ adv'[d].pc = to
             /\ \A e \in Discs : e # d => adv'[e] = adv[e]
  BY <1>0, <1>g, AdvMoves DEF AdvGoes
<1>5. ASSUME NEW d \in Discs, advertise(d) PROVE OnlyWhileAdvertised' /\ StartedInTurn'
  <2>1. adv[d].pc # "none"
    BY <1>5 DEF advertise, AdvStatus, Advertise, AdvertiseError, AdvRetry, AdvCanceled,
       AdvDirty, AdvWithdrawn, AdvGoes
  <2>2. /\ \A e \in Discs : e # d => adv'[e] = adv[e]
        /\ onair[d] # {} => adv'[d].pc \in {"select", "change", "exit"}
    <3>1. CASE AdvStatus(d) \/ AdvDirty(d)
      BY <1>0, <3>1 DEF AdvStatus, AdvDirty
    <3>2. CASE Advertise(d) \/ AdvertiseError(d) \/ AdvRetry(d) \/ AdvCanceled(d)
      BY <1>g, <3>2 DEF Advertise, AdvertiseError, AdvRetry, AdvCanceled, AdvPlaces
    <3>3. CASE AdvWithdrawn(d)
      BY <1>g, <3>3 DEF AdvWithdrawn, AdvPlaces
    <3> QED BY <1>5, <3>1, <3>2, <3>3 DEF advertise
  <2>3. /\ \A e \in Discs : e # d => onair'[e] = onair[e]
        /\ \/ onair'[d] = onair[d]
           \/ adv'[d].pc = "select" /\ onair'[d] = {adv[d].addr}
    <3>1. CASE Advertise(d)
      <4>1. onair[d] = {} /\ adv'[d].pc = "select"
        BY <1>g, <3>1 DEF Advertise, AdvPlaces
      <4> QED BY <3>1, <4>1 DEF Advertise, NodeTypeOK
    <3>2. CASE onair' = onair
      BY <3>2
    <3> QED BY <1>5, <3>1, <3>2 DEF advertise, AdvStatus, AdvertiseError, AdvRetry,
               AdvCanceled, AdvDirty, AdvWithdrawn
  <2>4. UNCHANGED <<npc, next, pm>>
    BY <1>5 DEF advertise, AdvStatus, Advertise, AdvertiseError, AdvRetry, AdvCanceled,
       AdvDirty, AdvWithdrawn, startVars
  <2>5. adv[d].addr \in Addrs
    BY <1>0 DEF Advertisers
  <2> QED BY <2>1, <2>2, <2>3, <2>4, <2>5
<1>6. ASSUME NEW d \in Discs, Withdraw(d) \/ PeerManagerEnds(d)
      PROVE  OnlyWhileAdvertised' /\ StartedInTurn'
  BY <1>6 DEF Withdraw, PeerManagerEnds, startVars, NodeTypeOK
<1> QED BY <1>1, <1>2, <1>3, <1>4, <1>5, <1>6 DEF NodeNext

\* Nothing that Stop has waited for comes back.
LEMMA StopKept ==
    ASSUME NodeTypeOK, OnlyWhileAdvertised, StartedInTurn, StopWaits,
           NodeNext \/ Stop \/ NodeIsStill
    PROVE  StopWaits'
<1> USE NodeAssumption DEF NodeTypeOK, StopWaits, NodeEnded
<1>1. CASE npc # "stopped" /\ ~ StopReturns
  BY <1>1 DEF NodeNext, StartNode, StartNotifier, NewDiscoveryError, StartAdvertise,
     StartScan, Started, ParentDone, EndpointsChange, advertise, AdvStatus, Advertise,
     AdvertiseError, AdvRetry, AdvCanceled, AdvDirty, AdvWithdrawn, Withdraw,
     PeerManagerEnds, readLoop, Relay, RelaySkips, NotifierEnds, Stop, NodeIsStill,
     startVars
<1>2. CASE StopReturns
  <2>1. \A d \in Discs : adv[d].pc \in {"none", "end"} /\ pm[d] # "running"
    <3> SUFFICES ASSUME NEW d \in Discs
                 PROVE  adv[d].pc \in {"none", "end"} /\ pm[d] # "running"
      OBVIOUS
    <3>1. d \in Nat /\ d >= 1 /\ discs \in Nat
      BY DEF Discs, discs
    <3>2. CASE d \in 1 .. discs
      BY <1>2, <3>2 DEF StopReturns, Done
    <3>3. CASE d \notin 1 .. discs
      BY <1>2, <3>1, <3>3 DEF StopReturns, StartedInTurn
    <3> QED BY <3>2, <3>3
  <2> QED BY <1>2, <2>1 DEF StopReturns, OnlyWhileAdvertised, discVars, psVars
<1>3. CASE npc = "stopped"
  <2>1. NodeEnded
    BY <1>3
  <2>2. ~ StartNode /\ ~ Stop /\ ~ StopReturns
    BY <1>3 DEF StartNode, StartNotifier, NewDiscoveryError, StartAdvertise, StartScan,
       Started, Stop, StopReturns
  <2>3. CASE NodeIsStill \/ ParentDone \/ EndpointsChange \/ readLoop
    BY <2>1, <2>3 DEF NodeIsStill, ParentDone, EndpointsChange, readLoop, Relay,
       RelaySkips, NotifierEnds, startVars, discVars, psVars
  <2>4. ASSUME NEW d \in Discs, advertise(d) \/ Withdraw(d) \/ PeerManagerEnds(d)
        PROVE  FALSE
    BY <2>1, <2>4 DEF advertise, AdvStatus, Advertise, AdvertiseError, AdvRetry,
       AdvCanceled, AdvDirty, AdvWithdrawn, AdvGoes, Withdraw, PeerManagerEnds
  <2> QED BY <2>2, <2>3, <2>4 DEF NodeNext
<1> QED BY <1>1, <1>2, <1>3

\* The node begins with nothing started.
LEMMA NodeBegins ==
    ASSUME NodeInit
    PROVE  NodeInv
<1> USE DEF NodeInit
<1>1. addr \in Addrs
  BY NodeAssumption
<1>2. discs \in Nat
  BY NodeAssumption DEF discs
<1>3. NodeTypeOK
  <2>1. adv \in [Discs -> [pc : {"none"}, seen : Nat, addr : Addrs]]
    BY <1>1 DEF NotStarted
  <2>2. next \in 1 .. discs + 1 /\ next \in Nat
    BY <1>2
  <2>3. onair \in [Discs -> SUBSET Addrs] /\ pm \in [Discs -> {"none", "running", "done"}]
    OBVIOUS
  <2> QED BY <1>1, <2>1, <2>2, <2>3 DEF NodeTypeOK
<1>4. OnlyWhileAdvertised /\ StartedInTurn /\ StopWaits
  <2>1. \A d \in Discs : adv[d].pc = "none" /\ onair[d] = {} /\ pm[d] = "none"
    BY DEF NotStarted
  <2> QED BY <1>1, <2>1 DEF OnlyWhileAdvertised, StartedInTurn, StopWaits
<1> QED BY <1>3, <1>4 DEF NodeInv

\* What the node keeps.
LEMMA NodeStep ==
    ASSUME NodeInv, [Next]_vars
    PROVE  NodeInv'
<1>1. CASE UNCHANGED vars
  <2>1. NodeIsStill
    BY <1>1 DEF vars, nodeVars, startVars, epVars, discVars, psVars, NodeIsStill
  <2> QED BY <2>1, NodeTypesKept, AdvertisedKept, StopKept DEF NodeInv
<1>2. CASE Next
  BY <1>2, NodeFrame, NodeTypesKept, AdvertisedKept, StopKept DEF NodeInv
<1> QED BY <1>1, <1>2

-----------------------------------------------------------------------------
(* The talkers.                                                            *)

\* talk and hush keep what the talkers listen to.
LEMMA TalkHushKeep ==
    ASSUME RobotInv, talk \/ hush
    PROVE  RobotInv'
<1> USE DEF RobotInv, RobotTypeOK, TalkersListen
<1>1. CASE hush
  BY <1>1 DEF hush
<1>2. CASE talk /\ talkChan # 0
  BY <1>2 DEF talk, robotVars
<1>3. CASE talk /\ talkChan = 0
  <2> PICK t \in Talkers : /\ chans' = chans + 1
                           /\ talkChan' = chans + 1
                           /\ talker' = [talker EXCEPT ![t].pc = "enter"]
                           /\ UNCHANGED closed
    BY <1>3 DEF talk
  <2>1. /\ [talker[t] EXCEPT !.pc = "enter"] \in [pc : {"enter"}, chan : 0 .. chans]
        /\ [talker[t] EXCEPT !.pc = "enter"].pc = "enter"
    OBVIOUS
  <2>2. /\ talker' \in [Talkers -> [pc : {"none", "enter", "wait", "end"},
                                    chan : 0 .. chans]]
        /\ \A u \in Talkers : talker'[u].pc = "wait" => talker'[u] = talker[u]
    BY <2>1
  <2>3. 0 .. chans \subseteq 0 .. chans'
    OBVIOUS
  <2>4. RobotTypeOK'
    BY <2>2, <2>3
  <2>5. TalkersListen'
    BY <1>3, <2>2
  <2> QED BY <2>4, <2>5
<1> QED BY <1>1, <1>2, <1>3

\* The step of a talker, or of anybody else.
LEMMA RobotStep ==
    ASSUME RobotInv, [Next]_vars
    PROVE  RobotInv'
<1>1. CASE UNCHANGED robotVars
  BY <1>1 DEF RobotInv, RobotTypeOK, TalkersListen, robotVars
<1>2. CASE UNCHANGED vars
  BY <1>1, <1>2 DEF vars
<1>3. CASE robotLoop
  <2>1. UNCHANGED robotVars \/ talk \/ hush
    <3>1. CASE RobotStarts
      BY <3>1 DEF RobotStarts
    <3>2. CASE RobotReceives
      BY <3>2 DEF RobotReceives, Obeys
    <3>3. CASE RobotEnds
      BY <3>3 DEF RobotEnds
    <3> QED BY <1>3, <3>1, <3>2, <3>3 DEF robotLoop
  <2> QED BY <1>1, <2>1, TalkHushKeep
<1>4. ASSUME NEW t \in Talkers, talkerLoop(t) PROVE RobotInv'
  <2> USE DEF RobotInv, RobotTypeOK, TalkersListen
  <2>1. CASE TalkerListens(t)
    BY <2>1 DEF TalkerListens
  <2>2. CASE TalkerSpeaks(t)
    BY <2>2 DEF TalkerSpeaks
  <2>3. CASE TalkerEnds(t)
    BY <2>3 DEF TalkerEnds
  <2> QED BY <1>4, <2>1, <2>2, <2>3 DEF talkerLoop
<1>5. CASE Signal
  BY <1>1, <1>5 DEF Signal
<1> QED BY <1>1, <1>2, <1>3, <1>4, <1>5 DEF Next

-----------------------------------------------------------------------------
(* The messages: what a step does to them.                                 *)

ShowSame == UNCHANGED <<cur, saved, shown>>
HistorySame == UNCHANGED <<todo, histories>>
ChanSame == UNCHANGED <<chan, relay>>
ErrorsSame == errors' = errors
ErrorsGrow == errors' \in {errors, errors + 1}

\* Nothing.
Quiet == UNCHANGED sendVars /\ ShowSame /\ HistorySame /\ ChanSame /\ ErrorsGrow

\* readLoop puts its message into the channel, or drops it.
Relays ==
    /\ UNCHANGED sendVars /\ ShowSame /\ HistorySame /\ ErrorsSame
    /\ relay # 0
    /\ relay' = 0
    /\ chan' = chan \/ (Len(chan) < BufCap /\ chan' = Append(chan, relay))

\* sendMessage makes the message complete, fails, or returns after Pub.
Stores(t) ==
    /\ ShowSame /\ HistorySame /\ ChanSame /\ ErrorsSame
    /\ spc[t] = "copy"
    /\ store' = store \cup {smsg[t]}
    /\ busy' = busy \ {smsg[t]}
    /\ spc' = [spc EXCEPT ![t] = "pub"]
    /\ UNCHANGED <<msgs, tmp, smsg>>

Fails(t) ==
    /\ ShowSame /\ HistorySame /\ ChanSame
    /\ errors' = errors + 1
    /\ spc[t] = "copy"
    /\ spc' = [spc EXCEPT ![t] = "no"]
    /\ smsg' = [smsg EXCEPT ![t] = 0]
    /\ tmp' \in {tmp, tmp \ {smsg[t]}}
    /\ busy' \in {busy, busy \ {smsg[t]}}
    /\ UNCHANGED <<msgs, store>>

Publishes(t) ==
    /\ ShowSame /\ HistorySame /\ ErrorsSame
    /\ spc[t] = "pub"
    /\ SendReturns(t)
    /\ UNCHANGED <<msgs, store, busy>>
    /\ \/ ChanSame
       \/ relay = 0 /\ Len(chan) < BufCap /\ chan' = Append(chan, smsg[t]) /\ UNCHANGED relay
       \/ relay = 0 /\ relay' = smsg[t] /\ UNCHANGED chan

\* There is a message more, of kind k and an answer to n: thread t begins to send
\* it, or it has come from a peer.
NewMessage(t, k, n) ==
    /\ spc[t] = "no"
    /\ msgs' = Append(msgs, Message(k, n))
    /\ smsg' = [smsg EXCEPT ![t] = Len(msgs) + 1]
    /\ \/ /\ spc' = [spc EXCEPT ![t] = "copy"]
          /\ tmp' = tmp \cup {Len(msgs) + 1}
          /\ busy' = busy \cup {Len(msgs) + 1}
          /\ UNCHANGED store
       \/ /\ spc' = [spc EXCEPT ![t] = "pub"]
          /\ store' = store \cup {Len(msgs) + 1}
          /\ UNCHANGED <<tmp, busy>>

Comes(t) ==
    /\ ShowSame /\ HistorySame /\ ChanSame /\ ErrorsSame
    /\ \E k \in MessageKinds : NewMessage(t, k, 0)

\* Thread t has seen message n: it has ignored or shown it, has begun to save its
\* file, or answers it, if its kind is in K.
Handled(t, n, K) ==
    /\ cur[t] = 0
    /\ \/ /\ UNCHANGED sendVars /\ UNCHANGED <<saved, cur>> /\ ErrorsGrow
          /\ shown' = shown \/ (msgs[n].kind # "file" /\ shown' = shown \cup {n})
       \/ /\ UNCHANGED sendVars /\ UNCHANGED shown /\ ErrorsSame
          /\ saved.of = 0
          /\ saved' = [of |-> n, whole |-> FALSE]
          /\ cur' = [cur EXCEPT ![t] = n]
       \/ /\ \E k \in MessageKinds : NewMessage(t, k, n)
          /\ msgs[n].kind \in K
          /\ UNCHANGED <<saved, cur>> /\ ErrorsSame
          /\ shown' = shown \/ (msgs[n].kind # "file" /\ shown' = shown \cup {n})

\* The loop handles what comes, a thread the next message of its history.
Receives ==
    /\ HistorySame
    /\ chan # << >>
    /\ chan' = Tail(chan) /\ UNCHANGED relay
    /\ Handled("loop", Head(chan), {"ping", "talk", "hush"})

Reviews(t) ==
    /\ ChanSame /\ UNCHANGED histories
    /\ \E n \in todo[t] : /\ todo' = [todo EXCEPT ![t] = @ \ {n}]
                          /\ Handled(t, n, {"ping"})

\* Thread t reads the manifest.
Lists(t) ==
    /\ UNCHANGED sendVars /\ ShowSame /\ ChanSame /\ ErrorsGrow
    /\ todo' \in {todo, [todo EXCEPT ![t] = store]}
    /\ histories' = histories + 1

\* Thread t has saved the file, and reported it or not.
SavesFile(t) ==
    /\ UNCHANGED sendVars /\ HistorySame /\ ChanSame /\ ErrorsGrow
    /\ cur[t] # 0
    /\ \/ /\ saved' = [saved EXCEPT !.whole = TRUE]
          /\ shown' \in {shown, shown \cup {cur[t]}}
       \/ UNCHANGED <<saved, shown>>
    /\ cur' = [cur EXCEPT ![t] = 0]

Effect ==
    \/ Quiet \/ Relays \/ Receives
    \/ \E t \in Threads : Stores(t) \/ Fails(t) \/ Publishes(t) \/ Comes(t)
    \/ \E t \in Showers : Reviews(t) \/ Lists(t) \/ SavesFile(t)

\* What handleMessage and the robot do with a message.
LEMMA HandlesDoes ==
    ASSUME NEW t, NEW n, Ready(t), (Handles(t, n) /\ NoError) \/ Drops
    PROVE  Handled(t, n, {"ping"})
<1>1. CASE Drops
  BY <1>1 DEF Drops, Error, Handled, Ready, ErrorsGrow, ErrorsSame
<1>2. CASE Handles(t, n) /\ NoError /\ msgs[n].kind = "file"
  BY <1>2 DEF Handles, Creates, NoError, Handled, Ready, ErrorsGrow, ErrorsSame
<1>3. CASE Handles(t, n) /\ NoError /\ msgs[n].kind # "file"
  <2>1. CASE IsPing(n)
    <3>1. NewMessage(t, "pong", n)
      BY <1>3, <2>1 DEF Handles, SendBegins, NewMessage, Ready
    <3> QED BY <1>3, <2>1, <3>1 DEF Handles, IsPing, NoError, Handled, Ready, ErrorsGrow,
               ErrorsSame, MessageKinds
  <2>2. CASE ~ IsPing(n)
    BY <1>3, <2>2 DEF Handles, NoError, Handled, Ready, ErrorsGrow, ErrorsSame
  <2> QED BY <2>1, <2>2
<1> QED BY <1>1, <1>2, <1>3

\* The loop of the robot answers pings and commands only, or drops the message.
LEMMA ObeysDoes ==
    ASSUME NEW n, Ready("loop"), (Obeys(n) /\ NoError /\ UNCHANGED shown) \/ Drops
    PROVE  Handled("loop", n, {"ping", "talk", "hush"})
<1>1. CASE Drops
  BY <1>1 DEF Drops, Error, Handled, Ready, ErrorsGrow, ErrorsSame
<1>2. CASE Obeys(n) /\ NoError /\ UNCHANGED shown
  <2>1. CASE msgs[n].kind = "file"
    BY <1>2, <2>1 DEF Obeys, IsPing, Creates, NoError, Handled, Ready, ErrorsGrow, ErrorsSame
  <2>2. CASE msgs[n].kind \in {"talk", "hush"}
    <3>1. NewMessage("loop", "text", n) /\ UNCHANGED <<saved, cur>>
      BY <1>2, <2>2 DEF Obeys, IsPing, SendBegins, NewMessage, Ready
    <3> QED BY <1>2, <2>2, <3>1 DEF NoError, Handled, Ready, ErrorsSame, MessageKinds
  <2>3. CASE msgs[n].kind = "ping"
    <3>1. NewMessage("loop", "pong", n) /\ UNCHANGED <<saved, cur>>
      BY <1>2, <2>3 DEF Obeys, IsPing, SendBegins, NewMessage, Ready
    <3> QED BY <1>2, <2>3, <3>1 DEF NoError, Handled, Ready, ErrorsSame, MessageKinds
  <2>4. CASE msgs[n].kind \notin {"file", "talk", "hush", "ping"}
    BY <1>2, <2>4 DEF Obeys, IsPing, NoError, Handled, Ready, ErrorsGrow
  <2> QED BY <2>1, <2>2, <2>3, <2>4
<1> QED BY <1>1, <1>2

\* Every step does one of these things.
LEMMA Effects ==
    ASSUME config \in Configs, WaitersAreSilent, [Next]_vars
    PROVE  Effect
<1> USE DEF Effect, ErrorsSame, ErrorsGrow, ShowSame, HistorySame, ChanSame
<1>q. ASSUME UNCHANGED chatVars, ChanSame, ErrorsGrow PROVE Effect
  BY <1>q DEF Quiet, chatVars, showVars
<1>0. "loop" \in Threads /\ "ui" \in Threads /\ "peer" \in Threads
      /\ config.inputs \subseteq MessageKinds
  BY NodeAssumption DEF Threads, Showers
<1>1. CASE UNCHANGED vars
  BY <1>q, <1>1 DEF vars, nodeVars, psVars
<1>2. CASE NodeNext /\ UNCHANGED chatVars
  <2>1. CASE Relay \/ RelaySkips
    BY <1>2, <2>1 DEF Relay, RelaySkips, Relays, chatVars, showVars
  <2>2. CASE ~ (Relay \/ RelaySkips)
    <3>1. ChanSame /\ ErrorsGrow
      BY <1>2, <2>2 DEF NodeNext, StartNode, StartNotifier, NewDiscoveryError,
         StartAdvertise, StartScan, Started, StopReturns, ParentDone, EndpointsChange,
         advertise, AdvStatus, Advertise, AdvertiseError, AdvRetry, AdvCanceled, AdvDirty,
         AdvWithdrawn, Withdraw, PeerManagerEnds, readLoop, NotifierEnds, Error, Event,
         NoError, psVars
    <3> QED BY <1>q, <1>2, <3>1
  <2> QED BY <2>1, <2>2
<1>3. ASSUME NEW t \in Threads, sendMessage(t) PROVE Effect
  <2>1. CASE SendStores(t)
    BY <2>1 DEF SendStores, Stores, nodeVars, psVars, showVars
  <2>2. CASE SendError(t)
    BY <2>2 DEF SendError, SendReturns, Fails, Error, psVars, showVars
  <2>3. CASE EncryptError(t)
    BY <2>3 DEF EncryptError, Fails, Error, psVars, showVars
  <2>4. CASE SendPublishes(t)
    BY <2>4 DEF SendPublishes, Takes, Publishes, showVars
  <2>5. CASE SendCanceled(t)
    BY <2>5 DEF SendCanceled, Publishes, nodeVars, psVars, showVars
  <2> QED BY <1>3, <2>1, <2>2, <2>3, <2>4, <2>5 DEF sendMessage
<1>4. CASE PeerPushes
  <2>1. Comes("peer")
    BY <1>0, <1>4 DEF PeerPushes, Input, Comes, NewMessage, psVars
  <2> QED BY <1>0, <2>1
<1>5. CASE UserSends
  <2>1. Comes("ui")
    BY <1>0, <1>5 DEF UserSends, UserIdle, Ready, Input, Comes, NewMessage, SendBegins,
       psVars
  <2> QED BY <1>0, <2>1
<1>6. CASE LoopReceives
  <2>1. Handled("loop", Head(chan), {"ping"})
    BY <1>6, HandlesDoes DEF LoopReceives
  <2>2. Handled("loop", Head(chan), {"ping", "talk", "hush"})
    BY <2>1 DEF Handled
  <2> QED BY <1>6, <2>2 DEF LoopReceives, Receives
<1>7. CASE RobotReceives
  <2>1. Handled("loop", Head(chan), {"ping", "talk", "hush"})
    BY <1>7, ObeysDoes DEF RobotReceives
  <2> QED BY <1>7, <2>1 DEF RobotReceives, Receives
<1>8. CASE LoopStarts \/ LoopEnds \/ UserHistory \/ UserQuits \/ RobotStarts \/ RobotEnds
           \/ Signal
  BY <1>8 DEF LoopStarts, LoopEnds, UserHistory, UserQuits, RobotStarts, RobotEnds, Signal,
     Stop, Input, Quiet, nodeVars, psVars, chatVars, showVars
<1>9. ASSUME NEW t \in Showers, history(t) PROVE Effect
  <2>1. CASE ReadsManifest(t)
    BY <2>1 DEF ReadsManifest, Lists, NoError, Error, psVars
  <2>2. CASE ShowsNext(t)
    <3> PICK n \in todo[t] : /\ todo' = [todo EXCEPT ![t] = @ \ {n}]
                             /\ (Handles(t, n) /\ NoError) \/ Drops
      BY <2>2 DEF ShowsNext
    <3>1. Handled(t, n, {"ping"})
      BY <2>2, HandlesDoes DEF ShowsNext
    <3> QED BY <2>2, <3>1 DEF ShowsNext, Reviews, psVars
  <2>3. CASE ShowsAll(t)
    BY <2>3 DEF ShowsAll, Quiet, nodeVars, psVars
  <2>4. CASE Saves(t)
    BY <2>4 DEF Saves, SavesFile, NoError, Error, psVars
  <2> QED BY <1>9, <2>1, <2>2, <2>3, <2>4 DEF history
<1>10. ASSUME NEW t \in Talkers, talkerLoop(t) PROVE Effect
  <2>1. CASE TalkerSpeaks(t)
    <3>1. t \in Threads /\ spc[t] = "no"
      BY <2>1 DEF TalkerSpeaks, WaitersAreSilent, Threads
    <3>2. Comes(t)
      BY <2>1, <3>1 DEF TalkerSpeaks, Input, Comes, NewMessage, SendBegins, psVars,
         MessageKinds
    <3> QED BY <3>1, <3>2
  <2>2. CASE TalkerListens(t) \/ TalkerEnds(t)
    BY <1>q, <2>2 DEF TalkerListens, TalkerEnds, nodeVars, psVars
  <2> QED BY <1>10, <2>1, <2>2 DEF talkerLoop
<1> QED BY <1>1, <1>2, <1>3, <1>4, <1>5, <1>6, <1>7, <1>8, <1>9, <1>10
        DEF Next, ChatNext, chatLoop, robotLoop

-----------------------------------------------------------------------------
(* The messages: their types.                                              *)

\* Where the threads that show messages are.
LEMMA PlacesKept ==
    ASSUME hpc \in [Showers -> {"new", "history", "show", "recv", "end"}], [Next]_vars
    PROVE  hpc' \in [Showers -> {"new", "history", "show", "recv", "end"}]
<1>1. CASE UNCHANGED hpc
  BY <1>1
<1>2. CASE UNCHANGED vars \/ (NodeNext /\ UNCHANGED chatVars) \/ Signal
  BY <1>1, <1>2 DEF vars, Signal, chatVars, showVars
<1>3. ASSUME NEW t \in Threads, sendMessage(t) PROVE UNCHANGED hpc
  BY <1>3 DEF sendMessage, SendStores, SendError, EncryptError, SendPublishes,
     SendCanceled, showVars
<1>4. CASE PeerPushes \/ chatLoop \/ UserSends \/ UserHistory \/ UserQuits
  BY <1>4 DEF PeerPushes, chatLoop, LoopStarts, LoopReceives, LoopEnds, UserSends,
     UserHistory, UserQuits, chatVars, showVars
<1>5. ASSUME NEW t \in Showers, history(t)
      PROVE  hpc' \in [Showers -> {"new", "history", "show", "recv", "end"}]
  BY <1>5 DEF history, ReadsManifest, ShowsNext, ShowsAll, Saves
<1>6. CASE robotLoop
  BY <1>6 DEF robotLoop, RobotStarts, RobotReceives, RobotEnds
<1>7. ASSUME NEW t \in Talkers, talkerLoop(t) PROVE UNCHANGED hpc
  BY <1>7 DEF talkerLoop, TalkerListens, TalkerSpeaks, TalkerEnds, chatVars, showVars
<1> QED BY <1>1, <1>2, <1>3, <1>4, <1>5, <1>6, <1>7 DEF Next, ChatNext

\* A message more: the others are what they were.
LEMMA NewMessageDoes ==
    ASSUME ChatTypeOK, NEW t \in Threads, NEW k \in MessageKinds, NEW n \in 0 .. Len(msgs),
           NewMessage(t, k, n)
    PROVE  /\ Len(msgs) \in Nat /\ Len(msgs') = Len(msgs) + 1
           /\ \A i \in 1 .. Len(msgs) : msgs'[i] = msgs[i]
           /\ msgs'[Len(msgs) + 1].kind = k /\ msgs'[Len(msgs) + 1].to = n
           /\ msgs' \in Seq([kind : MessageKinds, to : Nat])
           /\ \A i \in 1 .. Len(msgs') : msgs'[i].to <= Len(msgs')
           /\ smsg[t] = 0 /\ smsg'[t] = Len(msgs) + 1 /\ spc'[t] \in {"copy", "pub"}
           /\ \A u \in Threads : u # t => smsg'[u] = smsg[u] /\ spc'[u] = spc[u]
<1>1. msgs \in Seq([kind : MessageKinds, to : Nat]) /\ Len(msgs) \in Nat
  BY DEF ChatTypeOK
<1>2. Message(k, n) \in [kind : MessageKinds, to : Nat]
      /\ Message(k, n).kind = k /\ Message(k, n).to = n
  BY <1>1 DEF Message
<1>3. /\ Len(msgs') = Len(msgs) + 1
      /\ \A i \in 1 .. Len(msgs) : msgs'[i] = msgs[i]
      /\ msgs'[Len(msgs) + 1] = Message(k, n)
      /\ msgs' \in Seq([kind : MessageKinds, to : Nat])
  BY <1>1, <1>2 DEF NewMessage
<1>4. \A i \in 1 .. Len(msgs') : msgs'[i].to <= Len(msgs')
  <2> SUFFICES ASSUME NEW i \in 1 .. Len(msgs') PROVE msgs'[i].to <= Len(msgs')
    OBVIOUS
  <2>1. CASE i = Len(msgs) + 1
    BY <1>1, <1>2, <1>3, <2>1
  <2>2. CASE i \in 1 .. Len(msgs)
    <3>1. msgs[i] \in [kind : MessageKinds, to : Nat]
      BY <1>1, <2>2, ElementOfSeq
    <3>2. msgs[i].to <= Len(msgs)
      BY <2>2 DEF ChatTypeOK
    <3> QED BY <1>1, <1>3, <2>2, <3>1, <3>2
  <2> QED BY <1>1, <1>3, <2>1, <2>2
<1>5. /\ smsg[t] = 0 /\ smsg'[t] = Len(msgs) + 1 /\ spc'[t] \in {"copy", "pub"}
      /\ \A u \in Threads : u # t => smsg'[u] = smsg[u] /\ spc'[u] = spc[u]
  BY DEF NewMessage, ChatTypeOK
<1> QED BY <1>1, <1>2, <1>3, <1>4, <1>5

\* The types of what a new message changes.
LEMMA NewMessageTypes ==
    ASSUME ChatTypeOK, NEW t \in Threads, NEW k \in MessageKinds, NEW n \in 0 .. Len(msgs),
           NewMessage(t, k, n)
    PROVE  /\ 1 .. Len(msgs) \subseteq 1 .. Len(msgs')
           /\ 0 .. Len(msgs) \subseteq 0 .. Len(msgs')
           /\ store' \subseteq 1 .. Len(msgs')
           /\ busy' \subseteq 1 .. Len(msgs')
           /\ tmp' \subseteq 1 .. Len(msgs')
           /\ spc' \in [Threads -> {"no", "copy", "pub"}]
           /\ smsg' \in [Threads -> 0 .. Len(msgs')]
           /\ \A u \in Threads : smsg'[u] = 0 <=> spc'[u] = "no"
<1>1. /\ Len(msgs) \in Nat /\ Len(msgs') = Len(msgs) + 1
      /\ smsg'[t] = Len(msgs) + 1 /\ spc'[t] \in {"copy", "pub"}
      /\ \A u \in Threads : u # t => smsg'[u] = smsg[u] /\ spc'[u] = spc[u]
  BY NewMessageDoes
<1>2. /\ 1 .. Len(msgs) \subseteq 1 .. Len(msgs') /\ 0 .. Len(msgs) \subseteq 0 .. Len(msgs')
      /\ Len(msgs) + 1 \in 1 .. Len(msgs') /\ Len(msgs) + 1 \in 0 .. Len(msgs')
  BY <1>1
<1>3. store' \subseteq 1 .. Len(msgs') /\ busy' \subseteq 1 .. Len(msgs')
      /\ tmp' \subseteq 1 .. Len(msgs')
  BY <1>2 DEF NewMessage, ChatTypeOK
<1>4. spc' \in [Threads -> {"no", "copy", "pub"}] /\ smsg' \in [Threads -> 0 .. Len(msgs')]
  BY <1>2 DEF NewMessage, ChatTypeOK
<1>5. \A u \in Threads : smsg'[u] = 0 <=> spc'[u] = "no"
  BY <1>1 DEF ChatTypeOK
<1> QED BY <1>2, <1>3, <1>4, <1>5

\* The types of everything, after the message was handled.
Wider ==
    /\ Len(msgs') >= Len(msgs) /\ Len(msgs) \in Nat /\ Len(msgs') \in Nat
    /\ 1 .. Len(msgs) \subseteq 1 .. Len(msgs')
    /\ msgs' \in Seq([kind : MessageKinds, to : Nat])
    /\ \A i \in 1 .. Len(msgs') : msgs'[i].to <= Len(msgs')
    /\ store' \subseteq 1 .. Len(msgs')
    /\ busy' \subseteq 1 .. Len(msgs')
    /\ tmp' \subseteq 1 .. Len(msgs')
    /\ spc' \in [Threads -> {"no", "copy", "pub"}]
    /\ smsg' \in [Threads -> 0 .. Len(msgs')]
    /\ \A u \in Threads : smsg'[u] = 0 <=> spc'[u] = "no"
    /\ cur' \in [Showers -> 0 .. Len(msgs')]
    /\ saved' \in [of : 0 .. Len(msgs'), whole : BOOLEAN]
    /\ shown' \subseteq 1 .. Len(msgs')

\* Handling a message keeps the types, with room for the answer it may send.
LEMMA HandledTypes ==
    ASSUME ChatTypeOK, NEW t \in Showers, NEW n \in 1 .. Len(msgs), NEW K, Handled(t, n, K)
    PROVE  Wider
<1>1. t \in Threads /\ n \in 0 .. Len(msgs) /\ Len(msgs) \in Nat
  BY DEF Threads, ChatTypeOK
<1>2. CASE \E k \in MessageKinds : NewMessage(t, k, n)
  <2>1. /\ Len(msgs') = Len(msgs) + 1
        /\ msgs' \in Seq([kind : MessageKinds, to : Nat])
        /\ \A i \in 1 .. Len(msgs') : msgs'[i].to <= Len(msgs')
    BY <1>1, <1>2, NewMessageDoes
  <2>2. /\ 1 .. Len(msgs) \subseteq 1 .. Len(msgs')
        /\ 0 .. Len(msgs) \subseteq 0 .. Len(msgs')
        /\ store' \subseteq 1 .. Len(msgs')
        /\ busy' \subseteq 1 .. Len(msgs')
        /\ tmp' \subseteq 1 .. Len(msgs')
        /\ spc' \in [Threads -> {"no", "copy", "pub"}]
        /\ smsg' \in [Threads -> 0 .. Len(msgs')]
        /\ \A u \in Threads : smsg'[u] = 0 <=> spc'[u] = "no"
    BY <1>1, <1>2, NewMessageTypes
  <2>3. UNCHANGED <<saved, cur>> /\ shown' \subseteq shown \cup {n}
    <3>1. spc' # spc
      <4>1. spc[t] = "no" /\ spc'[t] # "no"
        BY <1>1, <1>2, NewMessageDoes DEF NewMessage
      <4> QED BY <4>1
    <3> QED BY <3>1 DEF Handled, sendVars
  <2>4. /\ cur' \in [Showers -> 0 .. Len(msgs')]
        /\ saved' \in [of : 0 .. Len(msgs'), whole : BOOLEAN]
        /\ shown' \subseteq 1 .. Len(msgs')
    BY <2>2, <2>3 DEF ChatTypeOK
  <2>5. Len(msgs') >= Len(msgs) /\ Len(msgs') \in Nat
    BY <1>1, <2>1
  <2> QED BY <1>1, <2>1, <2>2, <2>4, <2>5, Zenon DEF Wider
<1>3. CASE UNCHANGED sendVars
  <2>1. cur' \in [Showers -> 0 .. Len(msgs)]
    BY <1>1 DEF Handled, ChatTypeOK
  <2>2. saved' \in [of : 0 .. Len(msgs), whole : BOOLEAN]
    <3>1. CASE saved' = saved
      BY <3>1 DEF ChatTypeOK
    <3>2. CASE saved' = [of |-> n, whole |-> FALSE]
      BY <1>1, <3>2
    <3> QED BY <3>1, <3>2 DEF Handled
  <2>3. shown' \subseteq 1 .. Len(msgs)
    BY <1>1 DEF Handled, ChatTypeOK
  <2>4. msgs' = msgs /\ Len(msgs') = Len(msgs)
    BY <1>3 DEF sendVars
  <2>5. Len(msgs) >= Len(msgs)
    BY <1>1
  <2>6. UNCHANGED <<store, busy, tmp, spc, smsg>>
    BY <1>3 DEF sendVars
  <2> QED BY <1>1, <2>1, <2>2, <2>3, <2>4, <2>5, <2>6 DEF ChatTypeOK, Wider
<1> QED BY <1>2, <1>3 DEF Handled

\* A sequence of few messages is one of many.
LEMMA SeqWidens ==
    ASSUME NEW S, NEW T, S \subseteq T, NEW s \in Seq(S)
    PROVE  s \in Seq(T)
<1>1. Len(s) \in Nat /\ s \in [1 .. Len(s) -> S]
  BY LenProperties
<1>2. s \in [1 .. Len(s) -> T]
  BY <1>1
<1> QED BY <1>1, <1>2, SeqDef

\* The channel, when a message comes in or goes out.
LEMMA ChanDoes ==
    ASSUME NEW N \in Nat, chan \in Seq(1 .. N)
    PROVE  /\ \A m \in 1 .. N : /\ Append(chan, m) \in Seq(1 .. N)
                                /\ Len(Append(chan, m)) = Len(chan) + 1
                                /\ \A i \in 1 .. Len(chan) : Append(chan, m)[i] = chan[i]
                                /\ Append(chan, m)[Len(chan) + 1] = m
           /\ chan # << >> =>
                /\ Head(chan) \in 1 .. N /\ Head(chan) = chan[1] /\ Len(chan) >= 1
                /\ Tail(chan) \in Seq(1 .. N)
                /\ Len(Tail(chan)) = Len(chan) - 1
                /\ \A i \in 1 .. Len(chan) - 1 : Tail(chan)[i] = chan[i + 1]
           /\ Len(chan) \in Nat
<1>1. Len(chan) \in Nat /\ \A i \in 1 .. Len(chan) : chan[i] \in 1 .. N
  BY ElementOfSeq, LenProperties
<1>2. ASSUME NEW m \in 1 .. N
      PROVE  /\ Append(chan, m) \in Seq(1 .. N)
             /\ Len(Append(chan, m)) = Len(chan) + 1
             /\ \A i \in 1 .. Len(chan) : Append(chan, m)[i] = chan[i]
             /\ Append(chan, m)[Len(chan) + 1] = m
  BY AppendProperties
<1>3. ASSUME chan # << >>
      PROVE  /\ Head(chan) \in 1 .. N /\ Head(chan) = chan[1] /\ Len(chan) >= 1
             /\ Tail(chan) \in Seq(1 .. N)
             /\ Len(Tail(chan)) = Len(chan) - 1
             /\ \A i \in 1 .. Len(chan) - 1 : Tail(chan)[i] = chan[i + 1]
  <2>1. Len(chan) >= 1
    BY <1>1, <1>3, EmptySeq
  <2> QED BY <1>1, <1>3, <2>1, HeadTailProperties
<1> QED BY <1>1, <1>2, <1>3

\* The types of the messages and of what is done with them.
LEMMA ChatTypesKept ==
    ASSUME ChatTypeOK, Effect,
           hpc' \in [Showers -> {"new", "history", "show", "recv", "end"}]
    PROVE  ChatTypeOK'
<1>0. /\ Len(msgs) \in Nat /\ "loop" \in Showers /\ BufCap \in Nat
      /\ chan \in Seq(1 .. Len(msgs)) /\ Len(chan) <= BufCap /\ Len(chan) \in Nat
  BY NodeAssumption DEF ChatTypeOK, Showers
<1>w. \A t \in Showers, n \in 1 .. Len(msgs) : \A K : Handled(t, n, K) => Wider
  BY HandledTypes
<1> USE DEF ShowSame, HistorySame, ChanSame
<1>1. CASE Quiet
  BY <1>1 DEF Quiet, sendVars, ChatTypeOK
<1>2. CASE Relays
  <2>1. chan' \in Seq(1 .. Len(msgs)) /\ Len(chan') <= BufCap /\ relay' \in 0 .. Len(msgs)
    <3>1. relay \in 1 .. Len(msgs)
      BY <1>0, <1>2 DEF Relays, ChatTypeOK
    <3>2. CASE chan' = chan
      BY <1>0, <1>2, <3>2 DEF Relays
    <3>3. CASE Len(chan) < BufCap /\ chan' = Append(chan, relay)
      BY <1>0, <1>2, <3>1, <3>3, ChanDoes DEF Relays
    <3> QED BY <1>2, <3>2, <3>3 DEF Relays
  <2> QED BY <1>2, <2>1 DEF Relays, sendVars, ChatTypeOK
<1>3. ASSUME NEW t \in Threads, Stores(t) \/ Fails(t) PROVE ChatTypeOK'
  <2>1. smsg[t] \in 1 .. Len(msgs)
    BY <1>0, <1>3 DEF Stores, Fails, ChatTypeOK
  <2>2. UNCHANGED <<msgs, todo, cur, saved, shown, histories, chan, relay>>
    BY <1>3 DEF Stores, Fails
  <2>3. /\ store' \subseteq 1 .. Len(msgs)
        /\ busy' \subseteq 1 .. Len(msgs)
        /\ tmp' \subseteq 1 .. Len(msgs)
    BY <1>3, <2>1 DEF Stores, Fails, ChatTypeOK
  <2>4. /\ spc' \in [Threads -> {"no", "copy", "pub"}]
        /\ smsg' \in [Threads -> 0 .. Len(msgs)]
        /\ \A u \in Threads : smsg'[u] = 0 <=> spc'[u] = "no"
    <3>1. CASE Stores(t)
      BY <2>1, <3>1 DEF Stores, ChatTypeOK
    <3>2. CASE Fails(t)
      BY <1>0, <3>2 DEF Fails, ChatTypeOK
    <3> QED BY <1>3, <3>1, <3>2
  <2> QED BY <2>2, <2>3, <2>4 DEF ChatTypeOK
<1>4. ASSUME NEW t \in Threads, Publishes(t) PROVE ChatTypeOK'
  <2>1. smsg[t] \in 1 .. Len(msgs)
    BY <1>0, <1>4 DEF Publishes, ChatTypeOK
  <2>2. chan' \in Seq(1 .. Len(msgs)) /\ Len(chan') <= BufCap /\ relay' \in 0 .. Len(msgs)
    <3>1. CASE Len(chan) < BufCap /\ chan' = Append(chan, smsg[t])
      BY <1>0, <1>4, <2>1, <3>1, ChanDoes DEF Publishes, ChatTypeOK
    <3>2. CASE UNCHANGED chan
      BY <1>0, <1>4, <2>1, <3>2 DEF Publishes, ChatTypeOK
    <3> QED BY <1>4, <3>1, <3>2 DEF Publishes
  <2>3. UNCHANGED <<msgs, store, busy, todo, cur, saved, shown, histories>>
    BY <1>4 DEF Publishes
  <2>4. /\ spc' \in [Threads -> {"no", "copy", "pub"}]
        /\ smsg' \in [Threads -> 0 .. Len(msgs)]
        /\ tmp' \subseteq 1 .. Len(msgs)
        /\ \A u \in Threads : smsg'[u] = 0 <=> spc'[u] = "no"
    <3>1. SendReturns(t)
      BY <1>4 DEF Publishes
    <3>2. /\ spc \in [Threads -> {"no", "copy", "pub"}]
          /\ smsg \in [Threads -> 0 .. Len(msgs)] /\ 0 \in 0 .. Len(msgs)
          /\ \A u \in Threads : smsg[u] = 0 <=> spc[u] = "no"
          /\ tmp \subseteq 1 .. Len(msgs)
      BY <1>0 DEF ChatTypeOK
    <3> QED BY <3>1, <3>2 DEF SendReturns
  <2> QED BY <2>2, <2>3, <2>4 DEF ChatTypeOK
<1>5. ASSUME NEW t \in Threads, Comes(t) PROVE ChatTypeOK'
  <2> PICK k \in MessageKinds : NewMessage(t, k, 0)
    BY <1>5 DEF Comes
  <2>0. 0 \in 0 .. Len(msgs)
    BY <1>0
  <2>1. /\ msgs' \in Seq([kind : MessageKinds, to : Nat])
        /\ \A i \in 1 .. Len(msgs') : msgs'[i].to <= Len(msgs')
    BY <2>0, NewMessageDoes
  <2>2. /\ 1 .. Len(msgs) \subseteq 1 .. Len(msgs')
        /\ 0 .. Len(msgs) \subseteq 0 .. Len(msgs')
        /\ store' \subseteq 1 .. Len(msgs')
        /\ busy' \subseteq 1 .. Len(msgs')
        /\ tmp' \subseteq 1 .. Len(msgs')
        /\ spc' \in [Threads -> {"no", "copy", "pub"}]
        /\ smsg' \in [Threads -> 0 .. Len(msgs')]
        /\ \A u \in Threads : smsg'[u] = 0 <=> spc'[u] = "no"
    BY <2>0, NewMessageTypes
  <2>3. UNCHANGED <<todo, cur, saved, shown, histories, chan, relay>>
    BY <1>5 DEF Comes
  <2>4. chan' \in Seq(1 .. Len(msgs'))
    BY <1>0, <2>2, <2>3, SeqWidens
  <2>5. /\ todo' \in [Showers -> SUBSET (1 .. Len(msgs'))]
        /\ cur' \in [Showers -> 0 .. Len(msgs')]
        /\ saved' \in [of : 0 .. Len(msgs'), whole : BOOLEAN]
        /\ shown' \subseteq 1 .. Len(msgs')
        /\ relay' \in 0 .. Len(msgs')
    BY <2>2, <2>3 DEF ChatTypeOK
  <2> QED BY <1>0, <2>1, <2>2, <2>3, <2>4, <2>5 DEF ChatTypeOK
<1>6. CASE Receives
  <2>1. /\ Head(chan) \in 1 .. Len(msgs) /\ chan' \in Seq(1 .. Len(msgs))
        /\ Len(chan') = Len(chan) - 1
    BY <1>0, <1>6, ChanDoes DEF Receives
  <2>2. Handled("loop", Head(chan), {"ping", "talk", "hush"})
    BY <1>6 DEF Receives
  <2>3. Wider
    BY <1>0, <2>1, <2>2, <1>w
  <2>4. chan' \in Seq(1 .. Len(msgs'))
    BY <2>1, <2>3, SeqWidens DEF Wider
  <2>5. Len(chan') <= BufCap
    BY <1>0, <2>1
  <2>6. relay' \in 0 .. Len(msgs')
    BY <1>0, <1>6, <2>3 DEF Receives, ChatTypeOK, Wider
  <2>7. todo' \in [Showers -> SUBSET (1 .. Len(msgs'))] /\ histories' \in Nat
    BY <1>6, <2>3 DEF Receives, ChatTypeOK, Wider
  <2> QED BY <2>3, <2>4, <2>5, <2>6, <2>7 DEF ChatTypeOK, Wider
<1>7. ASSUME NEW t \in Showers, Reviews(t) PROVE ChatTypeOK'
  <2> PICK n \in todo[t] : /\ todo' = [todo EXCEPT ![t] = @ \ {n}]
                           /\ Handled(t, n, {"ping"})
    BY <1>7 DEF Reviews
  <2>1. n \in 1 .. Len(msgs)
    BY DEF ChatTypeOK
  <2>2. Wider
    BY <2>1, <1>w
  <2>3. chan' \in Seq(1 .. Len(msgs'))
    BY <1>0, <1>7, <2>2, SeqWidens DEF Reviews, Wider
  <2>4. Len(chan') <= BufCap
    BY <1>0, <1>7 DEF Reviews
  <2>5. relay' \in 0 .. Len(msgs')
    BY <1>0, <1>7, <2>2 DEF Reviews, ChatTypeOK, Wider
  <2>6. todo' \in [Showers -> SUBSET (1 .. Len(msgs'))] /\ histories' \in Nat
    BY <1>7, <2>2 DEF Reviews, ChatTypeOK, Wider
  <2> QED BY <2>2, <2>3, <2>4, <2>5, <2>6 DEF ChatTypeOK, Wider
<1>8. ASSUME NEW t \in Showers, Lists(t) PROVE ChatTypeOK'
  <2>1. todo' \in [Showers -> SUBSET (1 .. Len(msgs))]
    <3>1. store \in SUBSET (1 .. Len(msgs)) /\ todo \in [Showers -> SUBSET (1 .. Len(msgs))]
      BY DEF ChatTypeOK
    <3>2. todo' = todo \/ todo' = [todo EXCEPT ![t] = store]
      BY <1>8 DEF Lists
    <3> QED BY <3>1, <3>2
  <2>2. histories' \in Nat
    BY <1>8 DEF Lists, ChatTypeOK
  <2> QED BY <1>8, <2>1, <2>2 DEF Lists, sendVars, ChatTypeOK
<1>9. ASSUME NEW t \in Showers, SavesFile(t) PROVE ChatTypeOK'
  <2>1. shown' \subseteq 1 .. Len(msgs) /\ cur' \in [Showers -> 0 .. Len(msgs)]
    <3>1. cur[t] \in 1 .. Len(msgs)
      BY <1>0, <1>9 DEF SavesFile, ChatTypeOK
    <3> QED BY <1>0, <1>9, <3>1 DEF SavesFile, ChatTypeOK
  <2>2. saved' \in [of : 0 .. Len(msgs), whole : BOOLEAN]
    <3>1. CASE saved' = saved
      BY <3>1 DEF ChatTypeOK
    <3>2. CASE saved' = [saved EXCEPT !.whole = TRUE]
      BY <3>2 DEF ChatTypeOK
    <3> QED BY <1>9, <3>1, <3>2 DEF SavesFile
  <2> QED BY <1>9, <2>1, <2>2 DEF SavesFile, sendVars, ChatTypeOK
<1> QED BY <1>1, <1>2, <1>3, <1>4, <1>5, <1>6, <1>7, <1>8, <1>9 DEF Effect

-----------------------------------------------------------------------------
(* The messages: who sends them.                                           *)

\* A talker that waits does not begin to send, except as it leaves the select.
LEMMA SilentKept ==
    ASSUME ChatTypeOK, RobotTypeOK, WaitersAreSilent, [Next]_vars
    PROVE  WaitersAreSilent'
<1> USE DEF WaitersAreSilent
<1>0. /\ spc \in [Threads -> {"no", "copy", "pub"}] /\ Talkers \subseteq Threads
      /\ \A t \in Talkers : t \notin {"loop", "ui", "peer"}
  BY ChatAssumption DEF ChatTypeOK, Threads
<1>1. ASSUME UNCHANGED talker,
             \/ UNCHANGED spc
             \/ \E u \in {"loop", "ui", "peer"} : \E x : spc' = [spc EXCEPT ![u] = x]
      PROVE  WaitersAreSilent'
  BY <1>0, <1>1
<1>b. ASSUME NEW t, NEW k, NEW n, SendBegins(t, k, n)
      PROVE  spc' = [spc EXCEPT ![t] = "copy"]
  BY <1>b DEF SendBegins
<1>2. CASE UNCHANGED vars \/ (NodeNext /\ UNCHANGED <<chatVars, robotVars>>) \/ Signal
  BY <1>1, <1>2 DEF vars, Signal, chatVars, sendVars, robotVars
<1>3. ASSUME NEW t \in Threads, sendMessage(t), UNCHANGED robotVars PROVE WaitersAreSilent'
  <2>1. spc[t] # "no" /\ \E x : spc' = [spc EXCEPT ![t] = x]
    BY <1>3 DEF sendMessage, SendStores, SendError, EncryptError, SendPublishes,
       SendCanceled, SendReturns
  <2> QED BY <1>0, <1>3, <2>1 DEF robotVars
<1>4. ASSUME PeerPushes \/ UserSends \/ UserHistory \/ UserQuits, UNCHANGED robotVars
      PROVE  WaitersAreSilent'
  <2>1. CASE PeerPushes
    BY <1>1, <1>4, <2>1 DEF PeerPushes, robotVars
  <2>2. CASE UserSends
    BY <1>1, <1>b, <1>4, <2>2 DEF UserSends, robotVars
  <2>3. CASE UserHistory \/ UserQuits
    BY <1>1, <1>4, <2>3 DEF UserHistory, UserQuits, chatVars, sendVars, robotVars
  <2> QED BY <1>4, <2>1, <2>2, <2>3
<1>h. ASSUME NEW t \in {"loop", "ui"}, NEW n, Handles(t, n) \/ Drops
      PROVE  UNCHANGED spc \/ spc' = [spc EXCEPT ![t] = "copy"]
  BY <1>b, <1>h DEF Handles, Drops, sendVars
<1>5. ASSUME chatLoop, UNCHANGED robotVars PROVE WaitersAreSilent'
  <2>1. CASE LoopReceives
    BY <1>1, <1>h, <1>5, <2>1 DEF LoopReceives, robotVars
  <2>2. CASE LoopStarts \/ LoopEnds
    BY <1>1, <1>5, <2>2 DEF LoopStarts, LoopEnds, sendVars, robotVars
  <2> QED BY <1>5, <2>1, <2>2 DEF chatLoop
<1>6. ASSUME NEW t \in Showers, history(t), UNCHANGED robotVars PROVE WaitersAreSilent'
  <2>1. CASE ShowsNext(t)
    <3>1. t \in {"loop", "ui"}
      BY DEF Showers
    <3> QED BY <1>1, <1>h, <1>6, <2>1, <3>1 DEF ShowsNext, robotVars
  <2>2. CASE ReadsManifest(t) \/ ShowsAll(t) \/ Saves(t)
    BY <1>1, <1>6, <2>2 DEF ReadsManifest, ShowsAll, Saves, sendVars, robotVars
  <2> QED BY <1>6, <2>1, <2>2 DEF history
<1>7. CASE robotLoop
  <2>1. UNCHANGED spc \/ spc' = [spc EXCEPT !["loop"] = "copy"]
    <3>1. CASE RobotReceives
      <4>1. CASE Drops
        BY <4>1 DEF Drops, sendVars
      <4>2. CASE Obeys(Head(chan))
        <5>1. \/ UNCHANGED sendVars
              \/ SendBegins("loop", "text", Head(chan))
              \/ SendBegins("loop", "pong", Head(chan))
          BY <4>2 DEF Obeys, IsPing
        <5> QED BY <1>b, <5>1 DEF sendVars
      <4> QED BY <3>1, <4>1, <4>2 DEF RobotReceives
    <3>2. CASE RobotStarts \/ RobotEnds
      BY <3>2 DEF RobotStarts, RobotEnds, sendVars
    <3> QED BY <1>7, <3>1, <3>2 DEF robotLoop
  <2>2. UNCHANGED talker \/ \E t \in Talkers : talker' = [talker EXCEPT ![t].pc = "enter"]
    <3>1. UNCHANGED robotVars \/ talk \/ hush
      <4>1. CASE RobotStarts
        BY <4>1 DEF RobotStarts
      <4>2. CASE RobotReceives
        BY <4>2 DEF RobotReceives, Obeys
      <4>3. CASE RobotEnds
        BY <4>3 DEF RobotEnds
      <4> QED BY <1>7, <4>1, <4>2, <4>3 DEF robotLoop
    <3> QED BY <3>1 DEF robotVars, talk, hush
  <2>3. \A t \in Talkers : talker'[t].pc = "wait" => talker[t].pc = "wait"
    <3>1. ASSUME NEW t \in Talkers, talker' = [talker EXCEPT ![t].pc = "enter"]
          PROVE  \A u \in Talkers : talker'[u].pc = "wait" => talker[u].pc = "wait"
      <4>1. [talker[t] EXCEPT !.pc = "enter"].pc = "enter"
        BY DEF RobotTypeOK
      <4> QED BY <3>1, <4>1 DEF RobotTypeOK
    <3> QED BY <2>2, <3>1
  <2> QED BY <1>0, <2>1, <2>3
<1>8. ASSUME NEW t \in Talkers, talkerLoop(t) PROVE WaitersAreSilent'
  <2>1. CASE TalkerListens(t)
    BY <1>0, <2>1 DEF TalkerListens, chatVars, sendVars, RobotTypeOK
  <2>2. CASE TalkerSpeaks(t)
    <3>1. spc' = [spc EXCEPT ![t] = "copy"]
      BY <1>b, <2>2 DEF TalkerSpeaks
    <3> QED BY <1>0, <2>2, <3>1 DEF TalkerSpeaks, RobotTypeOK
  <2>3. CASE TalkerEnds(t)
    BY <1>0, <2>3 DEF TalkerEnds, chatVars, sendVars, RobotTypeOK
  <2> QED BY <1>8, <2>1, <2>2, <2>3 DEF talkerLoop
<1> QED BY <1>2, <1>3, <1>4, <1>5, <1>6, <1>7, <1>8 DEF Next, ChatNext

\* A new message is nowhere yet.
LEMMA NewIsNew ==
    ASSUME ChatTypeOK, ComesOnce, NEW t \in Threads, NEW k \in MessageKinds,
           NEW n \in 0 .. Len(msgs), NewMessage(t, k, n),
           relay' = relay, Len(chan') \in Nat,
           \A i \in 1 .. Len(chan') : \E j \in 1 .. Len(chan) : chan'[i] = chan[j],
           \A i, j \in 1 .. Len(chan') : chan'[i] = chan'[j] => i = j
    PROVE  ComesOnce'
<1>1. /\ Len(msgs) \in Nat
      /\ smsg[t] = 0 /\ smsg'[t] = Len(msgs) + 1
      /\ \A u \in Threads : u # t => smsg'[u] = smsg[u]
  BY NewMessageDoes
<1>2. /\ \A u \in Threads : smsg[u] \in 0 .. Len(msgs)
      /\ relay \in 0 .. Len(msgs)
      /\ \A i \in 1 .. Len(chan) : chan[i] \in 1 .. Len(msgs)
  BY ElementOfSeq DEF ChatTypeOK
<1>3. /\ \A u \in Threads : smsg[u] # Len(msgs) + 1
      /\ relay # Len(msgs) + 1 /\ Len(msgs) + 1 # 0
      /\ \A i \in 1 .. Len(chan) : chan[i] # Len(msgs) + 1
  <2>1. /\ \A x \in 0 .. Len(msgs) : x # Len(msgs) + 1
        /\ \A x \in 1 .. Len(msgs) : x # Len(msgs) + 1
        /\ Len(msgs) + 1 # 0
    BY <1>1
  <2> QED BY <1>2, <2>1
<1>4. \A u, v \in Threads : smsg'[u] # 0 /\ smsg'[u] = smsg'[v] => u = v
  <2> SUFFICES ASSUME NEW u \in Threads, NEW v \in Threads,
                      smsg'[u] # 0, smsg'[u] = smsg'[v]
               PROVE  u = v
    OBVIOUS
  <2>1. CASE u = t \/ v = t
    BY <1>1, <1>3, <2>1
  <2>2. CASE u # t /\ v # t
    BY <1>1, <2>2 DEF ComesOnce
  <2> QED BY <2>1, <2>2
<1>5. \A u \in Threads : smsg'[u] # 0 => smsg'[u] # relay'
  BY <1>1, <1>3 DEF ComesOnce
<1>6. \A i \in 1 .. Len(chan') : chan'[i] # relay'
  BY DEF ComesOnce
<1>7. \A u \in Threads, i \in 1 .. Len(chan') : chan'[i] # smsg'[u]
  BY <1>1, <1>3 DEF ComesOnce
<1> QED BY <1>4, <1>5, <1>6, <1>7 DEF ComesOnce

\* Every message comes once.
LEMMA OnceKept ==
    ASSUME ChatTypeOK, ComesOnce, Effect
    PROVE  ComesOnce'
<1>0. /\ Len(msgs) \in Nat /\ Len(chan) \in Nat /\ chan \in Seq(1 .. Len(msgs))
      /\ smsg \in [Threads -> 0 .. Len(msgs)] /\ relay \in 0 .. Len(msgs)
  BY DEF ChatTypeOK
<1> USE DEF ShowSame, HistorySame, ChanSame
<1>1. ASSUME UNCHANGED sendVars, ChanSame PROVE ComesOnce'
  BY <1>1 DEF sendVars, ComesOnce
<1>2. CASE Relays
  <2>1. smsg' = smsg /\ relay' = 0 /\ relay \in 1 .. Len(msgs)
    BY <1>0, <1>2 DEF Relays, sendVars
  <2>0. \A i \in 1 .. Len(chan) : chan[i] # 0
    BY <1>0, ElementOfSeq
  <2>2. CASE chan' = chan
    BY <2>0, <2>1, <2>2 DEF ComesOnce
  <2>3. CASE chan' = Append(chan, relay)
    <3>1. /\ Len(chan') = Len(chan) + 1
          /\ \A i \in 1 .. Len(chan) : chan'[i] = chan[i]
          /\ chan'[Len(chan) + 1] = relay
      BY <1>0, <2>1, <2>3, ChanDoes
    <3>2. \A i \in 1 .. Len(chan') : i \in 1 .. Len(chan) \/ i = Len(chan) + 1
      BY <1>0, <3>1
    <3>3. \A i, j \in 1 .. Len(chan') : chan'[i] = chan'[j] => i = j
      BY <3>1, <3>2 DEF ComesOnce
    <3>4. \A t \in Threads, i \in 1 .. Len(chan') : chan'[i] # smsg'[t]
      BY <2>1, <3>1, <3>2 DEF ComesOnce
    <3>5. \A i \in 1 .. Len(chan') : chan'[i] # relay'
      BY <2>0, <2>1, <3>1, <3>2
    <3> QED BY <2>1, <3>3, <3>4, <3>5 DEF ComesOnce
  <2> QED BY <1>2, <2>2, <2>3 DEF Relays
<1>3. ASSUME NEW t \in Threads, Stores(t) PROVE ComesOnce'
  BY <1>3 DEF Stores, ComesOnce
<1>4. ASSUME NEW t \in Threads, Fails(t) PROVE ComesOnce'
  <2>1. smsg'[t] = 0 /\ \A u \in Threads : u # t => smsg'[u] = smsg[u]
    BY <1>0, <1>4 DEF Fails
  <2>2. \A i \in 1 .. Len(chan) : chan[i] # 0
    BY <1>0, ElementOfSeq
  <2>3. UNCHANGED <<chan, relay>>
    BY <1>4 DEF Fails
  <2> QED BY <2>1, <2>2, <2>3 DEF ComesOnce
<1>5. ASSUME NEW t \in Threads, Publishes(t) PROVE ComesOnce'
  <2>1. smsg'[t] = 0 /\ \A u \in Threads : u # t => smsg'[u] = smsg[u]
    BY <1>0, <1>5 DEF Publishes, SendReturns
  <2>2. \A i \in 1 .. Len(chan) : chan[i] # 0
    BY <1>0, ElementOfSeq
  <2>3. smsg[t] \in 1 .. Len(msgs)
    BY <1>0, <1>5 DEF Publishes, ChatTypeOK
  <2>4. CASE ChanSame
    BY <2>1, <2>2, <2>4 DEF ComesOnce
  <2>5. CASE relay = 0 /\ relay' = smsg[t] /\ UNCHANGED chan
    BY <2>1, <2>2, <2>3, <2>5 DEF ComesOnce
  <2>6. CASE chan' = Append(chan, smsg[t]) /\ relay = 0 /\ UNCHANGED relay
    <3>1. /\ Len(chan') = Len(chan) + 1
          /\ \A i \in 1 .. Len(chan) : chan'[i] = chan[i]
          /\ chan'[Len(chan) + 1] = smsg[t]
      BY <1>0, <2>3, <2>6, ChanDoes
    <3>2. \A i \in 1 .. Len(chan') : i \in 1 .. Len(chan) \/ i = Len(chan) + 1
      BY <1>0, <3>1
    <3>3. \A i, j \in 1 .. Len(chan') : chan'[i] = chan'[j] => i = j
      BY <3>1, <3>2 DEF ComesOnce
    <3>4. \A u \in Threads, i \in 1 .. Len(chan') : chan'[i] # smsg'[u]
      BY <2>1, <2>2, <2>3, <3>1, <3>2 DEF ComesOnce
    <3>5. \A i \in 1 .. Len(chan') : chan'[i] # relay'
      BY <2>2, <2>3, <2>6, <3>1, <3>2
    <3>6. /\ \A u, v \in Threads : smsg'[u] # 0 /\ smsg'[u] = smsg'[v] => u = v
          /\ \A u \in Threads : smsg'[u] # 0 => smsg'[u] # relay'
      BY <2>1, <2>6 DEF ComesOnce
    <3> QED BY <3>3, <3>4, <3>5, <3>6 DEF ComesOnce
  <2> QED BY <1>5, <2>4, <2>5, <2>6 DEF Publishes
<1>6. ASSUME NEW t \in Threads, Comes(t) PROVE ComesOnce'
  <2>1. 0 \in 0 .. Len(msgs) /\ UNCHANGED <<chan, relay>>
    BY <1>0, <1>6 DEF Comes
  <2>2. \A i, j \in 1 .. Len(chan') : chan'[i] = chan'[j] => i = j
    BY <2>1 DEF ComesOnce
  <2> QED BY <1>0, <1>6, <2>1, <2>2, NewIsNew DEF Comes
<1>7. CASE Receives
  <2>1. /\ Head(chan) \in 1 .. Len(msgs) /\ Len(chan) >= 1
        /\ Len(chan') = Len(chan) - 1
        /\ \A i \in 1 .. Len(chan) - 1 : chan'[i] = chan[i + 1]
        /\ relay' = relay
    BY <1>0, <1>7, ChanDoes DEF Receives
  <2>2. Len(chan') \in Nat /\ \A i \in 1 .. Len(chan') :
           i \in Nat /\ i + 1 \in 1 .. Len(chan) /\ chan'[i] = chan[i + 1]
    BY <1>0, <2>1
  <2>3. \A i, j \in 1 .. Len(chan') : chan'[i] = chan'[j] => i = j
    <3> SUFFICES ASSUME NEW i \in 1 .. Len(chan'), NEW j \in 1 .. Len(chan'),
                        chan'[i] = chan'[j]
                 PROVE  i = j
      OBVIOUS
    <3>1. i + 1 = j + 1
      BY <2>2 DEF ComesOnce
    <3> QED BY <2>2, <3>1
  <2>4. CASE UNCHANGED sendVars
    BY <2>1, <2>2, <2>3, <2>4 DEF sendVars, ComesOnce
  <2>5. CASE \E k \in MessageKinds : NewMessage("loop", k, Head(chan))
    <3>1. "loop" \in Threads /\ Head(chan) \in 0 .. Len(msgs)
      BY <1>0, <2>1 DEF Threads, Showers
    <3>2. \A i \in 1 .. Len(chan') : \E j \in 1 .. Len(chan) : chan'[i] = chan[j]
      BY <2>2
    <3> QED BY <2>1, <2>2, <2>3, <2>5, <3>1, <3>2, NewIsNew
  <2> QED BY <1>7, <2>4, <2>5 DEF Receives, Handled
<1>8. ASSUME NEW t \in Showers, Reviews(t) PROVE ComesOnce'
  <2> PICK n \in todo[t] : Handled(t, n, {"ping"})
    BY <1>8 DEF Reviews
  <2>1. UNCHANGED <<chan, relay>> /\ n \in 0 .. Len(msgs) /\ t \in Threads
    BY <1>0, <1>8 DEF Reviews, ChatTypeOK, Threads
  <2>2. CASE UNCHANGED sendVars
    BY <1>1, <2>1, <2>2
  <2>3. CASE \E k \in MessageKinds : NewMessage(t, k, n)
    <3>1. \A i, j \in 1 .. Len(chan') : chan'[i] = chan'[j] => i = j
      BY <2>1 DEF ComesOnce
    <3> QED BY <1>0, <2>1, <2>3, <3>1, NewIsNew
  <2> QED BY <2>2, <2>3 DEF Handled
<1>9. ASSUME NEW t \in Showers, Lists(t) \/ SavesFile(t) PROVE ComesOnce'
  BY <1>1, <1>9 DEF Lists, SavesFile
<1>10. CASE Quiet
  BY <1>1, <1>10 DEF Quiet
<1> QED BY <1>2, <1>3, <1>4, <1>5, <1>6, <1>7, <1>8, <1>9, <1>10 DEF Effect

-----------------------------------------------------------------------------
(* The messages: what sendMessage leaves behind.                           *)

\* What is left behind is a finite set of messages.
LEMMA LeftIsFinite ==
    ASSUME ChatTypeOK
    PROVE  /\ IsFiniteSet(Left) /\ Cardinality(Left) \in Nat
           /\ Left \subseteq 1 .. Len(msgs)
           /\ \A S \in SUBSET Left : Cardinality(S) <= Cardinality(Left)
           /\ \A x : /\ Cardinality(Left \cup {x}) \in Nat
                     /\ Cardinality(Left \cup {x}) <= Cardinality(Left) + 1
                     /\ \A S \in SUBSET (Left \cup {x}) :
                          /\ IsFiniteSet(S) /\ Cardinality(S) \in Nat
                          /\ Cardinality(S) <= Cardinality(Left \cup {x})
<1>1. Len(msgs) \in Nat /\ Left \subseteq 1 .. Len(msgs)
  <2>1. msgs \in Seq([kind : MessageKinds, to : Nat])
    BY DEF ChatTypeOK
  <2>2. Len(msgs) \in Nat
    BY <2>1
  <2>3. tmp \subseteq 1 .. Len(msgs) /\ busy \subseteq 1 .. Len(msgs)
    BY DEF ChatTypeOK
  <2> QED BY <2>2, <2>3 DEF Left
<1>2. IsFiniteSet(1 .. Len(msgs))
  BY <1>1, FS_Interval
<1>3. IsFiniteSet(Left)
  BY <1>1, <1>2, FS_Subset
<1>4. Cardinality(Left) \in Nat /\ \A S \in SUBSET Left : Cardinality(S) <= Cardinality(Left)
  BY <1>3, FS_CardinalityType, FS_Subset
<1>5. ASSUME NEW x
      PROVE  /\ Cardinality(Left \cup {x}) \in Nat
             /\ Cardinality(Left \cup {x}) <= Cardinality(Left) + 1
             /\ \A S \in SUBSET (Left \cup {x}) :
                  /\ IsFiniteSet(S) /\ Cardinality(S) \in Nat
                  /\ Cardinality(S) <= Cardinality(Left \cup {x})
  <2>1. /\ IsFiniteSet(Left \cup {x})
        /\ Cardinality(Left \cup {x}) = IF x \in Left THEN Cardinality(Left)
                                        ELSE Cardinality(Left) + 1
    BY <1>3, FS_AddElement
  <2> QED BY <1>4, <2>1, FS_CardinalityType, FS_Subset
<1> QED BY <1>1, <1>3, <1>4, <1>5

\* Nothing is left behind by a new message.
LEMMA NewLeavesNothing ==
    ASSUME ChatTypeOK, SenderKnows, NothingLeftBehind, errors \in Nat,
           NEW t \in Threads, NEW k \in MessageKinds, NEW n \in 0 .. Len(msgs),
           NewMessage(t, k, n), ErrorsSame
    PROVE  SenderKnows' /\ NothingLeftBehind'
<1>1. /\ Len(msgs) \in Nat
      /\ smsg[t] = 0 /\ smsg'[t] = Len(msgs) + 1
      /\ \A u \in Threads : u # t => smsg'[u] = smsg[u] /\ spc'[u] = spc[u]
  BY NewMessageDoes
<1>2. /\ \A x \in 0 .. Len(msgs) : x # Len(msgs) + 1
      /\ \A x \in 1 .. Len(msgs) : x # Len(msgs) + 1 /\ x # 0
  BY <1>1
<1>3. /\ \A u \in Threads : smsg[u] # Len(msgs) + 1
      /\ Len(msgs) + 1 \notin store \cup busy \cup tmp
      /\ 0 \notin store \cup busy \cup tmp
  BY <1>2 DEF ChatTypeOK
<1>4. SenderKnows'
  <2> SUFFICES ASSUME NEW u \in Threads
               PROVE  /\ spc'[u] = "copy" => smsg'[u] \notin store'
                      /\ spc'[u] = "pub" => smsg'[u] \notin busy'
    BY DEF SenderKnows
  <2>1. CASE u = t
    <3>1. spc \in [Threads -> {"no", "copy", "pub"}]
      BY DEF ChatTypeOK
    <3> QED BY <1>1, <1>3, <2>1, <3>1 DEF NewMessage
  <2>2. CASE u # t
    BY <1>1, <1>3, <2>2 DEF NewMessage, SenderKnows
  <2> QED BY <2>1, <2>2
<1>5. Left' \subseteq Left
  <2> SUFFICES ASSUME NEW x \in Left' PROVE x \in Left
    OBVIOUS
  <2>1. x \in tmp' \cup busy' /\ \A u \in Threads : x # smsg'[u]
    BY DEF Left
  <2>2. x \in tmp \cup busy /\ x # Len(msgs) + 1
    BY <1>1, <2>1 DEF NewMessage
  <2> QED BY <1>1, <1>3, <2>1, <2>2 DEF Left
<1>6. Cardinality(Left') <= errors'
  BY <1>5, LeftIsFinite, FS_CardinalityType, FS_Subset DEF NothingLeftBehind, ErrorsSame
<1>7. Left' \cap store' = {}
  <2>1. Len(msgs) + 1 \notin Left
    BY <1>3 DEF Left
  <2> QED BY <1>5, <2>1 DEF NothingLeftBehind, NewMessage
<1> QED BY <1>4, <1>6, <1>7 DEF NothingLeftBehind

\* A step of sendMessage leaves something behind only when it fails.
LEMMA SenderKept ==
    ASSUME ChatTypeOK, ComesOnce, SenderKnows, NothingLeftBehind, errors \in Nat, Effect
    PROVE  SenderKnows' /\ NothingLeftBehind'
<1>0. /\ Len(msgs) \in Nat /\ smsg \in [Threads -> 0 .. Len(msgs)]
      /\ spc \in [Threads -> {"no", "copy", "pub"}]
      /\ Showers \subseteq Threads
  BY DEF ChatTypeOK, Threads
<1>1. ASSUME UNCHANGED sendVars, ErrorsGrow PROVE SenderKnows' /\ NothingLeftBehind'
  <2>1. SenderKnows' /\ Left' = Left /\ store' = store
    BY <1>1 DEF sendVars, SenderKnows, Left
  <2>2. errors' \in Nat /\ errors' >= errors
    BY <1>1 DEF ErrorsGrow
  <2> QED BY <2>1, <2>2, LeftIsFinite DEF NothingLeftBehind
<1>2. ASSUME NEW t \in Threads, Stores(t) PROVE SenderKnows' /\ NothingLeftBehind'
  <2>0. smsg[t] # 0 /\ \A u \in Threads : u # t => smsg[u] # smsg[t]
    BY <1>2 DEF Stores, ChatTypeOK, ComesOnce
  <2>1. SenderKnows'
    BY <1>0, <1>2, <2>0 DEF Stores, SenderKnows
  <2>2. Left' \subseteq Left /\ smsg[t] \notin Left
    BY <1>2 DEF Stores, Left
  <2>3. Cardinality(Left') <= errors'
    BY <1>2, <2>2, LeftIsFinite, FS_CardinalityType, FS_Subset
       DEF Stores, NothingLeftBehind, ErrorsSame
  <2>4. Left' \cap store' = {}
    BY <1>2, <2>2 DEF Stores, NothingLeftBehind
  <2> QED BY <2>1, <2>3, <2>4 DEF NothingLeftBehind
<1>3. ASSUME NEW t \in Threads, Fails(t) PROVE SenderKnows' /\ NothingLeftBehind'
  <2>1. SenderKnows'
    BY <1>0, <1>3 DEF Fails, SenderKnows
  <2>2. \A u \in Threads : u # t => smsg'[u] = smsg[u]
    BY <1>0, <1>3 DEF Fails
  <2>3. tmp' \subseteq tmp /\ busy' \subseteq busy /\ store' = store
        /\ errors' = errors + 1 /\ smsg[t] \notin store
    BY <1>3 DEF Fails, SenderKnows
  <2>4. Left' \subseteq Left \cup {smsg[t]}
    BY <2>2, <2>3 DEF Left
  <2>5. Cardinality(Left') <= errors'
    <3>1. /\ Cardinality(Left') <= Cardinality(Left \cup {smsg[t]})
          /\ Cardinality(Left \cup {smsg[t]}) <= Cardinality(Left) + 1
          /\ Cardinality(Left) \in Nat /\ Cardinality(Left \cup {smsg[t]}) \in Nat
          /\ Cardinality(Left') \in Nat
      BY <2>4, LeftIsFinite
    <3> QED BY <2>3, <3>1 DEF NothingLeftBehind
  <2>6. Left' \cap store' = {}
    BY <2>3, <2>4 DEF NothingLeftBehind
  <2> QED BY <2>1, <2>5, <2>6 DEF NothingLeftBehind
<1>4. ASSUME NEW t \in Threads, Publishes(t) PROVE SenderKnows' /\ NothingLeftBehind'
  <2>0. SendReturns(t) /\ UNCHANGED <<store, busy>> /\ smsg[t] \notin busy /\ ErrorsSame
    BY <1>4 DEF Publishes, SenderKnows
  <2>1. SenderKnows'
    BY <1>0, <2>0 DEF SendReturns, SenderKnows
  <2>2. \A u \in Threads : u # t => smsg'[u] = smsg[u]
    BY <1>0, <2>0 DEF SendReturns
  <2>3. Left' \subseteq Left
    BY <2>0, <2>2 DEF Left, SendReturns
  <2>4. Cardinality(Left') <= errors'
    BY <2>0, <2>3, LeftIsFinite, FS_CardinalityType, FS_Subset
       DEF NothingLeftBehind, ErrorsSame
  <2> QED BY <2>0, <2>1, <2>3, <2>4 DEF NothingLeftBehind
<1>5. ASSUME NEW t \in Threads, Comes(t) PROVE SenderKnows' /\ NothingLeftBehind'
  BY <1>0, <1>5, NewLeavesNothing DEF Comes
<1>6. ASSUME NEW t \in Showers, NEW n \in 1 .. Len(msgs), NEW K, Handled(t, n, K)
      PROVE  SenderKnows' /\ NothingLeftBehind'
  <2>1. t \in Threads /\ n \in 0 .. Len(msgs)
    BY <1>0
  <2>2. CASE UNCHANGED sendVars
    BY <1>1, <1>6, <2>2 DEF Handled, ErrorsGrow, ErrorsSame
  <2>3. CASE ErrorsSame /\ \E k \in MessageKinds : NewMessage(t, k, n)
    BY <2>1, <2>3, NewLeavesNothing
  <2> QED BY <1>6, <2>2, <2>3 DEF Handled
<1>7. CASE Receives
  <2>1. Head(chan) \in 1 .. Len(msgs) /\ "loop" \in Showers
    BY <1>0, <1>7, ChanDoes DEF Receives, ChatTypeOK, Showers
  <2> QED BY <1>6, <1>7, <2>1 DEF Receives
<1>8. ASSUME NEW t \in Showers, Reviews(t) PROVE SenderKnows' /\ NothingLeftBehind'
  <2>1. todo[t] \subseteq 1 .. Len(msgs)
    BY DEF ChatTypeOK
  <2> QED BY <1>6, <1>8, <2>1 DEF Reviews
<1>9. ASSUME NEW t \in Showers, Lists(t) \/ SavesFile(t)
      PROVE  SenderKnows' /\ NothingLeftBehind'
  BY <1>1, <1>9 DEF Lists, SavesFile
<1>10. CASE Quiet \/ Relays
  BY <1>1, <1>10 DEF Quiet, Relays, ErrorsGrow, ErrorsSame
<1> QED BY <1>2, <1>3, <1>4, <1>5, <1>7, <1>8, <1>9, <1>10 DEF Effect


-----------------------------------------------------------------------------
(* The messages: the file.                                                 *)

\* A new message changes nothing about the messages that were shown.
LEMMA NewKeepsFile ==
    ASSUME ChatTypeOK, SaverIsAlone, FileIsWhole,
           NEW t \in Threads, NEW k \in MessageKinds, NEW n \in 0 .. Len(msgs),
           NewMessage(t, k, n), UNCHANGED <<saved, cur>>,
           shown' = shown \/ \E m \in 1 .. Len(msgs) :
                                 msgs[m].kind # "file" /\ shown' = shown \cup {m}
    PROVE  SaverIsAlone' /\ FileIsWhole'
<1>1. SaverIsAlone'
  BY DEF SaverIsAlone
<1>2. ASSUME NEW x \in shown', msgs'[x].kind = "file"
      PROVE  saved' = [of |-> x, whole |-> TRUE]
  <2>1. shown \subseteq 1 .. Len(msgs) /\ \A m \in 1 .. Len(msgs) : msgs'[m] = msgs[m]
    BY NewMessageDoes DEF ChatTypeOK
  <2>2. msgs[x].kind = "file"
    BY <1>2, <2>1
  <2>3. x \in shown
    BY <1>2, <2>2
  <2> QED BY <2>2, <2>3 DEF FileIsWhole
<1> QED BY <1>1, <1>2 DEF FileIsWhole

\* The file is saved by one thread, and reported when it is whole.
LEMMA SaverKept ==
    ASSUME ChatTypeOK, SaverIsAlone, FileIsWhole, Effect
    PROVE  SaverIsAlone' /\ FileIsWhole'
<1>0. /\ Len(msgs) \in Nat /\ Showers \subseteq Threads
      /\ cur \in [Showers -> 0 .. Len(msgs)]
      /\ shown \subseteq 1 .. Len(msgs)
      /\ \A x \in 1 .. Len(msgs) : x # 0
  BY DEF ChatTypeOK, Threads
<1>1. ASSUME msgs' = msgs, ShowSame PROVE SaverIsAlone' /\ FileIsWhole'
  BY <1>1 DEF ShowSame, SaverIsAlone, FileIsWhole
<1>2. ASSUME NEW t \in Threads, Stores(t) \/ Fails(t) \/ Publishes(t)
      PROVE  SaverIsAlone' /\ FileIsWhole'
  BY <1>1, <1>2 DEF Stores, Fails, Publishes
<1>3. ASSUME NEW t \in Threads, Comes(t) PROVE SaverIsAlone' /\ FileIsWhole'
  BY <1>0, <1>3, NewKeepsFile DEF Comes, ShowSame
<1>4. ASSUME NEW t \in Showers, NEW n \in 1 .. Len(msgs), NEW K, Handled(t, n, K)
      PROVE  SaverIsAlone' /\ FileIsWhole'
  <2>1. CASE /\ UNCHANGED sendVars /\ UNCHANGED <<saved, cur>>
             /\ shown' = shown \/ (msgs[n].kind # "file" /\ shown' = shown \cup {n})
    BY <2>1 DEF sendVars, SaverIsAlone, FileIsWhole
  <2>2. CASE /\ UNCHANGED sendVars /\ UNCHANGED shown
             /\ saved.of = 0
             /\ saved' = [of |-> n, whole |-> FALSE]
             /\ cur' = [cur EXCEPT ![t] = n]
    <3>1. \A u \in Showers : cur[u] = 0
      <4> SUFFICES ASSUME NEW u \in Showers, cur[u] # 0 PROVE FALSE
        OBVIOUS
      <4>1. saved.of = cur[u]
        BY DEF SaverIsAlone
      <4> QED BY <2>2, <4>1
    <3>2. \A u \in Showers : cur'[u] = IF u = t THEN n ELSE 0
      BY <1>0, <2>2, <3>1
    <3>3. SaverIsAlone'
      BY <1>0, <2>2, <3>2 DEF SaverIsAlone
    <3>4. ASSUME NEW x \in shown', msgs'[x].kind = "file" PROVE FALSE
      <4>1. x \in 1 .. Len(msgs) /\ saved = [of |-> x, whole |-> TRUE]
        BY <1>0, <2>2, <3>4 DEF sendVars, FileIsWhole
      <4>2. saved.of = x
        BY <4>1
      <4> QED BY <1>0, <2>2, <4>1, <4>2
    <3> QED BY <3>3, <3>4 DEF FileIsWhole
  <2>3. CASE /\ \E k \in MessageKinds : NewMessage(t, k, n)
             /\ UNCHANGED <<saved, cur>>
             /\ shown' = shown \/ (msgs[n].kind # "file" /\ shown' = shown \cup {n})
    <3>1. t \in Threads /\ n \in 0 .. Len(msgs)
      BY <1>0
    <3> QED BY <2>3, <3>1, NewKeepsFile
  <2> QED BY <1>4, <2>1, <2>2, <2>3 DEF Handled
<1>5. CASE Receives
  <2>1. Head(chan) \in 1 .. Len(msgs) /\ "loop" \in Showers
    BY <1>0, <1>5, ChanDoes DEF Receives, ChatTypeOK, Showers
  <2> QED BY <1>4, <1>5, <2>1 DEF Receives
<1>6. ASSUME NEW t \in Showers, Reviews(t) PROVE SaverIsAlone' /\ FileIsWhole'
  <2>1. todo[t] \subseteq 1 .. Len(msgs)
    BY DEF ChatTypeOK
  <2> QED BY <1>4, <1>6, <2>1 DEF Reviews
<1>7. ASSUME NEW t \in Showers, SavesFile(t) PROVE SaverIsAlone' /\ FileIsWhole'
  <2>1. /\ saved = [of |-> cur[t], whole |-> FALSE]
        /\ \A u \in Showers : cur[u] # 0 => u = t
    BY <1>7 DEF SavesFile, SaverIsAlone
  <2>2. \A u \in Showers : cur'[u] = 0
    BY <1>0, <1>7, <2>1 DEF SavesFile
  <2>3. SaverIsAlone'
    BY <2>2 DEF SaverIsAlone
  <2>4. msgs' = msgs
    BY <1>7 DEF SavesFile, sendVars
  <2>5. \A x \in shown : msgs[x].kind # "file"
    <3> SUFFICES ASSUME NEW x \in shown, msgs[x].kind = "file" PROVE FALSE
      OBVIOUS
    <3>1. saved.whole = TRUE
      BY DEF FileIsWhole
    <3>2. saved.whole = FALSE
      BY <2>1
    <3> QED BY <3>1, <3>2
  <2>6. CASE /\ saved' = [saved EXCEPT !.whole = TRUE]
             /\ shown' \in {shown, shown \cup {cur[t]}}
    <3>1. saved' = [of |-> cur[t], whole |-> TRUE]
      BY <2>1, <2>6
    <3> QED BY <2>3, <2>4, <2>5, <2>6, <3>1 DEF FileIsWhole
  <2>7. CASE UNCHANGED <<saved, shown>>
    BY <2>3, <2>4, <2>7 DEF FileIsWhole
  <2> QED BY <1>7, <2>6, <2>7 DEF SavesFile
<1>8. ASSUME NEW t \in Showers, Lists(t) PROVE SaverIsAlone' /\ FileIsWhole'
  BY <1>1, <1>8 DEF Lists, sendVars
<1>9. CASE Quiet \/ Relays
  BY <1>1, <1>9 DEF Quiet, Relays, sendVars
<1> QED BY <1>2, <1>3, <1>5, <1>6, <1>7, <1>8, <1>9 DEF Effect


-----------------------------------------------------------------------------
(* The messages: the answers.                                              *)

\* The answers to a message can be counted.
LEMMA AnswersCount ==
    ASSUME msgs \in Seq([kind : MessageKinds, to : Nat]), NEW m
    PROVE  /\ Answers(m) \subseteq 1 .. Len(msgs)
           /\ IsFiniteSet(Answers(m)) /\ Cardinality(Answers(m)) \in Nat
<1>1. Len(msgs) \in Nat /\ DOMAIN msgs = 1 .. Len(msgs)
  OBVIOUS
<1>2. IsFiniteSet(1 .. Len(msgs)) /\ Answers(m) \subseteq 1 .. Len(msgs)
  BY <1>1, FS_Interval DEF Answers
<1> QED BY <1>2, FS_Subset, FS_CardinalityType

\* A new message is one more answer to the one that it answers, and has none.
LEMMA AnswersGrow ==
    ASSUME ChatTypeOK, NEW t \in Threads, NEW k \in MessageKinds,
           NEW n \in 0 .. Len(msgs), NewMessage(t, k, n)
    PROVE  /\ \A m \in 1 .. Len(msgs) :
                Cardinality(Answers(m)') = Cardinality(Answers(m)) + One(m = n)
           /\ \A m : m = Len(msgs) + 1 => Cardinality(Answers(m)') = 0
<1>1. /\ msgs \in Seq([kind : MessageKinds, to : Nat])
      /\ Len(msgs) \in Nat /\ Len(msgs') = Len(msgs) + 1
      /\ DOMAIN msgs = 1 .. Len(msgs) /\ DOMAIN msgs' = 1 .. Len(msgs) + 1
      /\ \A i \in 1 .. Len(msgs) : msgs'[i] = msgs[i]
      /\ msgs'[Len(msgs) + 1].to = n
  <2>1. msgs \in Seq([kind : MessageKinds, to : Nat])
    BY DEF ChatTypeOK
  <2>2. msgs' \in Seq([kind : MessageKinds, to : Nat])
    BY NewMessageDoes
  <2> QED BY <2>1, <2>2, NewMessageDoes
<1>2. ASSUME NEW m \in 1 .. Len(msgs)
      PROVE  Cardinality(Answers(m)') = Cardinality(Answers(m)) + One(m = n)
  <2>1. /\ IsFiniteSet(Answers(m)) /\ Cardinality(Answers(m)) \in Nat
        /\ Len(msgs) + 1 \notin Answers(m)
    <3>1. Answers(m) \subseteq 1 .. Len(msgs) /\ Len(msgs) + 1 \notin 1 .. Len(msgs)
      BY <1>1, AnswersCount
    <3> QED BY <1>1, <3>1, AnswersCount
  <2>2. CASE m = n
    <3>1. Answers(m)' = Answers(m) \cup {Len(msgs) + 1}
      BY <1>1, <2>2 DEF Answers
    <3>2. Cardinality(Answers(m)') = Cardinality(Answers(m)) + 1
      BY <2>1, <3>1, FS_AddElement
    <3> QED BY <2>2, <3>2 DEF One
  <2>3. CASE m # n
    <3>1. Answers(m)' = Answers(m)
      BY <1>1, <2>3 DEF Answers
    <3> QED BY <2>1, <2>3, <3>1 DEF One
  <2> QED BY <2>2, <2>3
<1>3. ASSUME NEW m, m = Len(msgs) + 1 PROVE Cardinality(Answers(m)') = 0
  <2>1. Len(msgs) + 1 # n
    BY <1>1
  <2>2. \A i \in 1 .. Len(msgs) : msgs[i].to # Len(msgs) + 1
    <3> SUFFICES ASSUME NEW i \in 1 .. Len(msgs) PROVE msgs[i].to # Len(msgs) + 1
      OBVIOUS
    <3>1. msgs[i] \in [kind : MessageKinds, to : Nat]
      BY <1>1, ElementOfSeq
    <3>2. msgs[i].to <= Len(msgs)
      BY DEF ChatTypeOK
    <3> QED BY <1>1, <3>1, <3>2
  <2>3. Answers(m)' = {}
    <3> SUFFICES ASSUME NEW x \in DOMAIN msgs', msgs'[x].to = Len(msgs) + 1 PROVE FALSE
      BY <1>3 DEF Answers
    <3>1. x \in 1 .. Len(msgs) \/ x = Len(msgs) + 1
      BY <1>1
    <3> QED BY <1>1, <2>1, <2>2, <3>1
  <2> QED BY <2>3, FS_EmptySet
<1> QED BY <1>2, <1>3

\* How a message stays limited: an answer more is one less owed, and what history
\* adds it may add.
Budget(m, d) ==
    /\ msgs[m].kind = "ping" =>
         d + One(Coming(m)') + One(m \in todo'["loop"]) + One(m \in todo'["ui"]) + histories
         <= One(Coming(m)) + One(m \in todo["loop"]) + One(m \in todo["ui"]) + histories'
    /\ msgs[m].kind \in {"talk", "hush"} => d + One(Coming(m)') <= One(Coming(m))
    /\ msgs[m].kind \notin {"ping", "talk", "hush"} => d = 0

\* Within that budget a message stays limited.
LEMMA StillLimited ==
    ASSUME ChatTypeOK, NEW m \in 1 .. Len(msgs), Limited(m), msgs'[m] = msgs[m],
           histories' \in Nat, NEW d \in {0, 1}, Budget(m, d),
           Cardinality(Answers(m)') = Cardinality(Answers(m)) + d
    PROVE  Limited(m)'
<1>1. Cardinality(Answers(m)) \in Nat /\ histories \in Nat
  BY AnswersCount DEF ChatTypeOK
<1> DEFINE L == One(m \in todo["loop"])  L1 == One(m \in todo'["loop"])
           U == One(m \in todo["ui"])    U1 == One(m \in todo'["ui"])
           C == One(Coming(m))           C1 == One(Coming(m)')
<1>2. {L, L1, U, U1, C, C1} \subseteq {0, 1}
  BY DEF One
<1>3. CASE msgs[m].kind = "ping"
  <2>1. Owed(m) = C + L + U /\ Owed(m)' = C1 + L1 + U1
    BY <1>3 DEF Owed
  <2>2. Limit(m) = 1 + histories /\ Limit(m)' = 1 + histories'
    BY <1>3 DEF Limit
  <2>3. d + C1 + L1 + U1 + histories <= C + L + U + histories'
    BY <1>3 DEF Budget
  <2>4. \A a, h, h1 \in Nat : \A c, c1, l, l1, u, u1 \in {0, 1} :
          a + (c + l + u) <= 1 + h /\ d + c1 + l1 + u1 + h <= c + l + u + h1
          => (a + d) + (c1 + l1 + u1) <= 1 + h1
    OBVIOUS
  <2>5. Cardinality(Answers(m)) + (C + L + U) <= 1 + histories
    BY <2>1, <2>2 DEF Limited
  <2>6. (Cardinality(Answers(m)) + d) + (C1 + L1 + U1) <= 1 + histories'
    <3> HIDE DEF L, L1, U, U1, C, C1
    <3> QED BY <1>1, <1>2, <2>3, <2>4, <2>5
  <2> QED BY <2>1, <2>2, <2>6 DEF Limited
<1>4. CASE msgs[m].kind \in {"talk", "hush"}
  <2>1. Owed(m) = C /\ Owed(m)' = C1 /\ Limit(m) = 1 /\ Limit(m)' = 1
    BY <1>4 DEF Owed, Limit
  <2>2. d + C1 <= C
    BY <1>4 DEF Budget
  <2> HIDE DEF L, L1, U, U1, C, C1
  <2> QED BY <1>1, <1>2, <2>1, <2>2 DEF Limited
<1>5. CASE msgs[m].kind \notin {"ping", "talk", "hush"}
  <2>1. Owed(m) = 0 /\ Owed(m)' = 0 /\ Limit(m) = 0 /\ Limit(m)' = 0 /\ d = 0
    BY <1>5 DEF Owed, Limit, Budget
  <2> QED BY <1>1, <2>1 DEF Limited
<1> QED BY <1>3, <1>4, <1>5


\* Nothing is owed that was not owed before.
OwesNoMore(m) ==
    /\ histories' = histories
    /\ Coming(m)' => Coming(m)
    /\ \A t \in Showers : m \in todo'[t] => m \in todo[t]

\* Then the budget is kept, if there is no new answer.
LEMMA NoMoreIsEnough ==
    ASSUME NEW m, histories \in Nat, OwesNoMore(m)
    PROVE  Budget(m, 0)
<1> DEFINE L == One(m \in todo["loop"])  L1 == One(m \in todo'["loop"])
           U == One(m \in todo["ui"])    U1 == One(m \in todo'["ui"])
           C == One(Coming(m))           C1 == One(Coming(m)')
<1>1. {L, L1, U, U1, C, C1} \subseteq {0, 1}
  BY DEF One
<1>2. L1 <= L /\ U1 <= U /\ C1 <= C
  BY DEF One, OwesNoMore, Showers
<1>3. histories' = histories
  BY DEF OwesNoMore
<1>4. 0 + C1 + L1 + U1 + histories <= C + L + U + histories' /\ 0 + C1 <= C
  <2> HIDE DEF L, L1, U, U1, C, C1
  <2> QED BY <1>1, <1>2, <1>3
<1> QED BY <1>4 DEF Budget

\* Without a new message, all stay limited if nothing more is owed.
LEMMA NoAnswerKept ==
    ASSUME ChatTypeOK, AnswersAreLimited, msgs' = msgs,
           \A m \in 1 .. Len(msgs) : OwesNoMore(m)
    PROVE  AnswersAreLimited'
<1> SUFFICES ASSUME NEW m \in 1 .. Len(msgs) PROVE Limited(m)'
  BY DEF AnswersAreLimited
<1>1. Limited(m) /\ msgs'[m] = msgs[m]
  BY DEF AnswersAreLimited
<1>2. histories \in Nat /\ histories' \in Nat /\ OwesNoMore(m)
  BY DEF ChatTypeOK, OwesNoMore
<1>3. Budget(m, 0)
  BY <1>2, NoMoreIsEnough
<1>4. Cardinality(Answers(m)') = Cardinality(Answers(m)) + 0
  <2>1. msgs \in Seq([kind : MessageKinds, to : Nat]) /\ Answers(m)' = Answers(m)
    BY DEF Answers, ChatTypeOK
  <2>2. Cardinality(Answers(m)) \in Nat
    BY <2>1, AnswersCount
  <2> QED BY <2>1, <2>2
<1> QED BY <1>1, <1>2, <1>3, <1>4, StillLimited

\* With a new message, too, if the one that it answers can pay for it.
LEMMA AnswerKept ==
    ASSUME ChatTypeOK, AnswersAreLimited,
           NEW t \in Threads, NEW k \in MessageKinds, NEW n \in 0 .. Len(msgs),
           NewMessage(t, k, n), histories' = histories,
           relay' = relay, \A i \in 1 .. Len(chan') : \E j \in 1 .. Len(chan) : chan'[i] = chan[j],
           \A u \in Showers : todo'[u] \subseteq todo[u],
           n # 0 => Budget(n, 1)
    PROVE  AnswersAreLimited'
<1>0. /\ Len(msgs) \in Nat /\ Len(msgs') = Len(msgs) + 1 /\ histories \in Nat
      /\ \A m \in 1 .. Len(msgs) : msgs'[m] = msgs[m]
      /\ smsg'[t] = Len(msgs) + 1
      /\ \A u \in Threads : u # t => smsg'[u] = smsg[u]
  <2>1. histories \in Nat
    BY DEF ChatTypeOK
  <2> QED BY <2>1, NewMessageDoes
<1>1. ASSUME NEW m \in 1 .. Len(msgs) PROVE Limited(m)'
  <2>1. Limited(m)
    BY DEF AnswersAreLimited
  <2>2. Cardinality(Answers(m)') = Cardinality(Answers(m)) + One(m = n)
    BY AnswersGrow
  <2>3. OwesNoMore(m)
    <3>1. Len(msgs) + 1 # m
      BY <1>0
    <3>2. \A u \in Threads : smsg'[u] = m => smsg[u] = m
      BY <1>0, <3>1
    <3>3. Coming(m)' => Coming(m)
      BY <3>2 DEF Coming
    <3> QED BY <3>3 DEF OwesNoMore
  <2>4. Budget(m, One(m = n))
    <3>1. CASE m = n
      <4>1. n # 0
        BY <1>0, <3>1
      <4> QED BY <3>1, <4>1 DEF One
    <3>2. CASE m # n
      BY <1>0, <2>3, <3>2, NoMoreIsEnough DEF One
    <3> QED BY <3>1, <3>2
  <2>5. One(m = n) \in {0, 1} /\ histories' \in Nat
    BY <1>0 DEF One
  <2> QED BY <1>0, <2>1, <2>2, <2>4, <2>5, StillLimited
<1>2. ASSUME NEW m, m = Len(msgs) + 1 PROVE Limited(m)'
  <2>1. Cardinality(Answers(m)') = 0
    BY <1>2, AnswersGrow
  <2>2. m \notin todo'["loop"] /\ m \notin todo'["ui"]
    <3>1. todo'["loop"] \subseteq 1 .. Len(msgs) /\ todo'["ui"] \subseteq 1 .. Len(msgs)
      BY DEF ChatTypeOK, Showers
    <3>2. m \notin 1 .. Len(msgs)
      BY <1>0, <1>2
    <3> QED BY <3>1, <3>2
  <2>3. One(Coming(m)') \in {0, 1} /\ One(FALSE) = 0
    BY DEF One
  <2>4. CASE msgs'[m].kind = "ping"
    <3>1. One(m \in todo'["loop"]) = 0 /\ One(m \in todo'["ui"]) = 0
      BY <2>2 DEF One
    <3>2. Owed(m)' = One(Coming(m)') + One(m \in todo'["loop"]) + One(m \in todo'["ui"])
      BY <2>4 DEF Owed
    <3>3. Limit(m)' = 1 + histories'
      BY <2>4 DEF Limit
    <3> QED BY <1>0, <2>1, <2>3, <3>1, <3>2, <3>3 DEF Limited
  <2>5. CASE msgs'[m].kind \in {"talk", "hush"}
    <3>1. Owed(m)' = One(Coming(m)') /\ Limit(m)' = 1
      BY <2>5 DEF Owed, Limit
    <3> QED BY <2>1, <2>3, <3>1 DEF Limited
  <2>6. CASE msgs'[m].kind \notin {"ping", "talk", "hush"}
    <3>1. Owed(m)' = 0 /\ Limit(m)' = 0
      BY <2>6 DEF Owed, Limit
    <3> QED BY <2>1, <3>1 DEF Limited
  <2> QED BY <2>4, <2>5, <2>6
<1>3. \A m \in 1 .. Len(msgs') : m \in 1 .. Len(msgs) \/ m = Len(msgs) + 1
  BY <1>0
<1> QED BY <1>1, <1>2, <1>3 DEF AnswersAreLimited


\* A message that was owed an answer, and is no more, can pay for one.
LEMMA PaysForOne ==
    ASSUME NEW n, histories \in Nat, OwesNoMore(n),
           msgs[n].kind \in {"ping", "talk", "hush"},
           \/ Coming(n) /\ ~ Coming(n)'
           \/ msgs[n].kind = "ping" /\ \E s \in Showers : n \in todo[s] /\ n \notin todo'[s]
    PROVE  Budget(n, 1)
<1> DEFINE L == One(n \in todo["loop"])  L1 == One(n \in todo'["loop"])
           U == One(n \in todo["ui"])    U1 == One(n \in todo'["ui"])
           C == One(Coming(n))           C1 == One(Coming(n)')
<1>1. {L, L1, U, U1, C, C1} \subseteq {0, 1} /\ histories' = histories
  BY DEF One, OwesNoMore
<1>2. L1 <= L /\ U1 <= U /\ C1 <= C
  BY DEF One, OwesNoMore, Showers
<1>3. CASE Coming(n) /\ ~ Coming(n)'
  <2>1. C = 1 /\ C1 = 0
    BY <1>3 DEF One
  <2>2. 1 + C1 + L1 + U1 + histories <= C + L + U + histories' /\ 1 + C1 <= C
    <3> HIDE DEF L, L1, U, U1, C, C1
    <3> QED BY <1>1, <1>2, <2>1
  <2> QED BY <2>2 DEF Budget
<1>4. CASE msgs[n].kind = "ping" /\ \E s \in Showers : n \in todo[s] /\ n \notin todo'[s]
  <2>1. (L = 1 /\ L1 = 0) \/ (U = 1 /\ U1 = 0)
    BY <1>4 DEF One, Showers
  <2>2. 1 + C1 + L1 + U1 + histories <= C + L + U + histories'
    <3> HIDE DEF L, L1, U, U1, C, C1
    <3> QED BY <1>1, <1>2, <2>1
  <2> QED BY <1>4, <2>2 DEF Budget
<1> QED BY <1>3, <1>4

\* The manifest is read: every message of it is owed an answer, and every history
\* allows for one.
LEMMA ListsKept ==
    ASSUME ChatTypeOK, AnswersAreLimited, NEW t \in Showers, Lists(t)
    PROVE  AnswersAreLimited'
<1> SUFFICES ASSUME NEW m \in 1 .. Len(msgs) PROVE Limited(m)'
  BY DEF Lists, sendVars, AnswersAreLimited
<1>1. Limited(m) /\ msgs' = msgs /\ smsg' = smsg /\ chan' = chan /\ relay' = relay
  BY DEF Lists, sendVars, ChanSame, AnswersAreLimited
<1>2. histories \in Nat /\ histories' = histories + 1 /\ histories' \in Nat
  BY DEF Lists, ChatTypeOK
<1>3. Cardinality(Answers(m)') = Cardinality(Answers(m)) + 0
  <2>1. msgs \in Seq([kind : MessageKinds, to : Nat]) /\ Answers(m)' = Answers(m)
    BY <1>1 DEF Answers, ChatTypeOK
  <2>2. Cardinality(Answers(m)) \in Nat
    BY <2>1, AnswersCount
  <2> QED BY <2>1, <2>2
<1>4. Budget(m, 0)
  <2> DEFINE L == One(m \in todo["loop"])  L1 == One(m \in todo'["loop"])
             U == One(m \in todo["ui"])    U1 == One(m \in todo'["ui"])
             C == One(Coming(m))           C1 == One(Coming(m)')
  <2>1. {L, L1, U, U1, C, C1} \subseteq {0, 1}
    BY DEF One
  <2>2. C1 = C
    BY <1>1 DEF One, Coming
  <2>3. L1 = L \/ U1 = U
    <3>1. todo \in [Showers -> SUBSET (1 .. Len(msgs))]
      BY DEF ChatTypeOK
    <3>2. todo'["loop"] = todo["loop"] \/ todo'["ui"] = todo["ui"]
      BY <3>1 DEF Lists, Showers
    <3> QED BY <3>2
  <2>4. 0 + C1 + L1 + U1 + histories <= C + L + U + histories' /\ 0 + C1 <= C
    <3> HIDE DEF L, L1, U, U1, C, C1
    <3> QED BY <1>2, <2>1, <2>2, <2>3
  <2> QED BY <2>4 DEF Budget
<1> QED BY <1>1, <1>2, <1>3, <1>4, StillLimited

\* Every answer is one that was owed.
LEMMA AnswersKept ==
    ASSUME ChatTypeOK, ComesOnce, AnswersAreLimited, Effect
    PROVE  AnswersAreLimited'
<1>0. /\ Len(msgs) \in Nat /\ Showers \subseteq Threads /\ histories \in Nat
      /\ chan \in Seq(1 .. Len(msgs))
      /\ smsg \in [Threads -> 0 .. Len(msgs)]
      /\ todo \in [Showers -> SUBSET (1 .. Len(msgs))]
      /\ \A x \in 1 .. Len(msgs) : x # 0 /\ x # Len(msgs) + 1 /\ x \in 0 .. Len(msgs)
  <2>1. msgs \in Seq([kind : MessageKinds, to : Nat])
    BY DEF ChatTypeOK
  <2>2. Len(msgs) \in Nat
    BY <2>1
  <2> QED BY <2>2 DEF ChatTypeOK, Threads
<1>1. ASSUME UNCHANGED sendVars, ChanSame, HistorySame PROVE AnswersAreLimited'
  <2>1. \A m \in 1 .. Len(msgs) : OwesNoMore(m)
    BY <1>1 DEF sendVars, ChanSame, HistorySame, OwesNoMore, Coming
  <2> QED BY <1>1, <2>1, NoAnswerKept DEF sendVars
<1>2. CASE Relays
  <2>1. ASSUME NEW m \in 1 .. Len(msgs), Coming(m)' PROVE Coming(m)
    <3>1. smsg' = smsg /\ m # 0 /\ relay' = 0
      BY <1>0, <1>2 DEF Relays, sendVars
    <3>2. CASE chan' = chan
      BY <2>1, <3>1, <3>2 DEF Coming
    <3>3. CASE chan' = Append(chan, relay)
      <4>1. relay \in 1 .. Len(msgs)
        BY <1>0, <1>2 DEF Relays, ChatTypeOK
      <4>2. \A i \in 1 .. Len(chan') : i \in 1 .. Len(chan) \/ chan'[i] = relay
        BY <1>0, <3>3, <4>1, ChanDoes
      <4>3. \A i \in 1 .. Len(chan) : chan'[i] = chan[i]
        BY <1>0, <3>3, <4>1, ChanDoes
      <4> QED BY <2>1, <3>1, <4>2, <4>3 DEF Coming
    <3> QED BY <1>2, <3>2, <3>3 DEF Relays
  <2>2. \A m \in 1 .. Len(msgs) : OwesNoMore(m)
    BY <1>2, <2>1 DEF Relays, HistorySame, OwesNoMore
  <2> QED BY <1>2, <2>2, NoAnswerKept DEF Relays, sendVars
<1>3. ASSUME NEW t \in Threads, Stores(t) \/ Fails(t) PROVE AnswersAreLimited'
  <2>1. \A u \in Threads : smsg'[u] \in {0, smsg[u]}
    BY <1>0, <1>3 DEF Stores, Fails
  <2>2. \A m \in 1 .. Len(msgs) : OwesNoMore(m)
    BY <1>0, <1>3, <2>1 DEF Stores, Fails, ChanSame, HistorySame, OwesNoMore, Coming
  <2> QED BY <1>3, <2>2, NoAnswerKept DEF Stores, Fails
<1>4. ASSUME NEW t \in Threads, Publishes(t) PROVE AnswersAreLimited'
  <2>1. \A u \in Threads : smsg'[u] \in {0, smsg[u]}
    BY <1>0, <1>4 DEF Publishes, SendReturns
  <2>2. ASSUME NEW m \in 1 .. Len(msgs), Coming(m)' PROVE Coming(m)
    <3>1. CASE chan' = chan /\ relay' \in {relay, smsg[t]}
      BY <1>0, <2>1, <2>2, <3>1 DEF Coming
    <3>2. CASE chan' = Append(chan, smsg[t]) /\ relay' = relay
      <4>1. smsg[t] \in 1 .. Len(msgs)
        BY <1>0, <1>4 DEF Publishes, ChatTypeOK
      <4>2. \A i \in 1 .. Len(chan') : i \in 1 .. Len(chan) \/ chan'[i] = smsg[t]
        <5>1. /\ Len(chan) \in Nat /\ Len(chan') = Len(chan) + 1
              /\ chan'[Len(chan) + 1] = smsg[t]
          BY <1>0, <3>2, <4>1, ChanDoes
        <5>2. \A i \in 1 .. Len(chan') : i \in 1 .. Len(chan) \/ i = Len(chan) + 1
          BY <5>1
        <5> QED BY <5>1, <5>2
      <4>3. \A i \in 1 .. Len(chan) : chan'[i] = chan[i]
        BY <1>0, <3>2, <4>1, ChanDoes
      <4> QED BY <1>0, <2>1, <2>2, <3>2, <4>2, <4>3 DEF Coming
    <3> QED BY <1>4, <3>1, <3>2 DEF Publishes, ChanSame
  <2>3. \A m \in 1 .. Len(msgs) : OwesNoMore(m)
    BY <1>4, <2>2 DEF Publishes, HistorySame, OwesNoMore
  <2> QED BY <1>4, <2>3, NoAnswerKept DEF Publishes
<1>5. ASSUME NEW t \in Threads, Comes(t) PROVE AnswersAreLimited'
  <2> PICK k \in MessageKinds : NewMessage(t, k, 0)
    BY <1>5 DEF Comes
  <2>1. /\ histories' = histories /\ relay' = relay /\ 0 \in 0 .. Len(msgs)
        /\ \A i \in 1 .. Len(chan') : \E j \in 1 .. Len(chan) : chan'[i] = chan[j]
        /\ \A u \in Showers : todo'[u] \subseteq todo[u]
    BY <1>0, <1>5 DEF Comes, HistorySame, ChanSame
  <2> QED BY <2>1, AnswerKept

<1>6. ASSUME Receives, NEW k \in MessageKinds, NewMessage("loop", k, Head(chan)),
             msgs[Head(chan)].kind \in {"ping", "talk", "hush"}
      PROVE  AnswersAreLimited'
  <2> DEFINE n == Head(chan)
  <2>0. /\ "loop" \in Threads
        /\ n \in 1 .. Len(msgs) /\ n = chan[1] /\ 1 \in 1 .. Len(chan)
        /\ Len(chan) \in Nat /\ Len(chan') = Len(chan) - 1
        /\ \A i \in 1 .. Len(chan) - 1 : chan'[i] = chan[i + 1]
    BY <1>0, <1>6, ChanDoes DEF Receives, Threads, Showers
  <2>1. /\ histories' = histories /\ relay' = relay /\ todo' = todo
        /\ \A i \in 1 .. Len(chan') : \E j \in 1 .. Len(chan) : chan'[i] = chan[j]
    BY <1>6, <2>0 DEF Receives, HistorySame
  <2>2. smsg'["loop"] = Len(msgs) + 1
        /\ \A u \in Threads : u # "loop" => smsg'[u] = smsg[u]
    BY <1>0, <1>6, <2>0, NewMessageDoes
  <2>3. Coming(n)
    BY <2>0 DEF Coming
  <2>4. ~ \E x : x = n /\ Coming(x)'
    <3> SUFFICES ASSUME NEW x, x = n, Coming(x)' PROVE FALSE
      OBVIOUS
    <3>1. \A u \in Threads : smsg'[u] # x
      <4>1. \A u \in Threads : smsg[u] # x
        BY <2>0 DEF ComesOnce
      <4> QED BY <1>0, <2>0, <2>2, <4>1
    <3>2. relay' # x
      BY <2>0, <2>1 DEF ComesOnce
    <3>3. \A i \in 1 .. Len(chan') : chan'[i] # x
      <4> SUFFICES ASSUME NEW i \in 1 .. Len(chan'), chan'[i] = x PROVE FALSE
        OBVIOUS
      <4>1. i + 1 \in 1 .. Len(chan) /\ i + 1 # 1 /\ chan[i + 1] = chan[1]
        BY <2>0
      <4> QED BY <2>0, <4>1 DEF ComesOnce
    <3> QED BY <3>1, <3>2, <3>3 DEF Coming
  <2>5. ASSUME NEW x, x = n PROVE Budget(x, 1)
    <3>1. OwesNoMore(x) /\ Coming(x) /\ ~ Coming(x)'
      BY <2>1, <2>3, <2>4, <2>5 DEF OwesNoMore
    <3> QED BY <1>0, <1>6, <2>5, <3>1, PaysForOne
  <2>6. PICK x \in 0 .. Len(msgs) : x = n
    BY <1>0, <2>0
  <2>7. NewMessage("loop", k, x) /\ Budget(x, 1)
    BY <1>6, <2>5, <2>6
  <2>8. \A u \in Showers : todo'[u] \subseteq todo[u]
    BY <2>1
  <2> HIDE DEF n
  <2> QED BY <2>0, <2>1, <2>7, <2>8, AnswerKept
<1>7. CASE Receives
  <2>0. "loop" \in Threads /\ Head(chan) \in 1 .. Len(msgs)
    BY <1>0, <1>7, ChanDoes DEF Receives, Threads, Showers
  <2>1. CASE UNCHANGED sendVars
    <3>1. /\ Len(chan) \in Nat /\ Len(chan') = Len(chan) - 1
          /\ \A i \in 1 .. Len(chan) - 1 : chan'[i] = chan[i + 1]
      BY <1>0, <1>7, ChanDoes DEF Receives
    <3>2. \A i \in 1 .. Len(chan') : i + 1 \in 1 .. Len(chan) /\ chan'[i] = chan[i + 1]
      BY <3>1
    <3>3. \A m \in 1 .. Len(msgs) : Coming(m)' => Coming(m)
      BY <1>7, <2>1, <3>2 DEF Receives, sendVars, Coming
    <3>4. \A m \in 1 .. Len(msgs) : OwesNoMore(m)
      BY <1>7, <3>3 DEF Receives, HistorySame, OwesNoMore
    <3> QED BY <2>1, <3>4, NoAnswerKept DEF sendVars
  <2>2. CASE ~ UNCHANGED sendVars
    BY <1>6, <1>7, <2>2 DEF Receives, Handled
  <2> QED BY <2>1, <2>2
<1>8. ASSUME NEW t \in Showers, Reviews(t) PROVE AnswersAreLimited'
  <2>0. PICK n \in todo[t] : /\ todo' = [todo EXCEPT ![t] = @ \ {n}]
                             /\ Handled(t, n, {"ping"})
    BY <1>8 DEF Reviews
  <2>1. /\ n \in 1 .. Len(msgs) /\ n # 0 /\ n \in 0 .. Len(msgs) /\ t \in Threads
        /\ n \notin todo'[t]
        /\ \A u \in Showers : todo'[u] \subseteq todo[u]
    BY <1>0, <2>0
  <2>2. histories' = histories /\ chan' = chan /\ relay' = relay
    BY <1>8 DEF Reviews, ChanSame
  <2>3. CASE UNCHANGED sendVars
    <3>1. \A m \in 1 .. Len(msgs) : OwesNoMore(m)
      BY <2>1, <2>2, <2>3 DEF sendVars, OwesNoMore, Coming
    <3> QED BY <2>3, <3>1, NoAnswerKept DEF sendVars
  <2>4. ASSUME NEW k \in MessageKinds, NewMessage(t, k, n), msgs[n].kind = "ping"
        PROVE  AnswersAreLimited'
    <3>1. smsg'[t] = Len(msgs) + 1 /\ \A u \in Threads : u # t => smsg'[u] = smsg[u]
      BY <2>1, <2>4, NewMessageDoes
    <3>2. \A u \in Threads : smsg'[u] = n => smsg[u] = n
      BY <1>0, <2>1, <3>1
    <3>3. OwesNoMore(n)
      BY <2>1, <2>2, <3>2 DEF OwesNoMore, Coming
    <3>4. Budget(n, 1)
      BY <1>0, <2>0, <2>1, <2>4, <3>3, PaysForOne
    <3>5. \A i \in 1 .. Len(chan') : \E j \in 1 .. Len(chan) : chan'[i] = chan[j]
      BY <2>2
    <3> QED BY <2>1, <2>2, <2>4, <3>4, <3>5, AnswerKept
  <2> QED BY <2>0, <2>3, <2>4 DEF Handled
<1>9. ASSUME NEW t \in Showers, SavesFile(t) PROVE AnswersAreLimited'
  BY <1>1, <1>9 DEF SavesFile
<1>10. ASSUME NEW t \in Showers, Lists(t) PROVE AnswersAreLimited'
  BY <1>10, ListsKept
<1>11. CASE Quiet
  BY <1>1, <1>11 DEF Quiet
<1> QED BY <1>2, <1>3, <1>4, <1>5, <1>7, <1>8, <1>9, <1>10, <1>11 DEF Effect


-----------------------------------------------------------------------------
(* The process.                                                            *)

\* The process begins with the messages of the storage, and nobody does anything.
LEMMA ChatBegins ==
    ASSUME ChatInit
    PROVE  ChatTypeOK /\ ComesOnce /\ SenderKnows /\ NothingLeftBehind
           /\ SaverIsAlone /\ FileIsWhole /\ AnswersAreLimited
<1>1. /\ msgs = [n \in DOMAIN config.old |-> Message(config.old[n], 0)]
      /\ store = 1 .. Len(msgs) /\ busy = {} /\ tmp = {}
      /\ spc = [t \in Threads |-> "no"] /\ smsg = [t \in Threads |-> 0]
      /\ hpc = [t \in Showers |-> "new"] /\ todo = [t \in Showers |-> {}]
      /\ cur = [t \in Showers |-> 0] /\ saved = [of |-> 0, whole |-> FALSE]
      /\ shown = {} /\ histories = 0
      /\ relay = 0 /\ chan = << >> /\ errors = 0
      /\ config \in Configs
  BY DEF ChatInit, NodeInit
<1>2. /\ msgs \in Seq([kind : MessageKinds, to : Nat])
      /\ Len(msgs) \in Nat /\ DOMAIN msgs = 1 .. Len(msgs)
      /\ \A n \in 1 .. Len(msgs) : msgs[n].to = 0
  <2>1. config.old \in Seq(MessageKinds)
    BY <1>1, NodeAssumption
  <2>2. /\ DOMAIN config.old = 1 .. Len(config.old) /\ Len(config.old) \in Nat
        /\ \A n \in 1 .. Len(config.old) : config.old[n] \in MessageKinds
    BY <2>1, LenProperties, ElementOfSeq
  <2>3. \A n \in 1 .. Len(config.old) :
          Message(config.old[n], 0) \in [kind : MessageKinds, to : Nat]
    BY <2>2 DEF Message
  <2>4. msgs = [n \in 1 .. Len(config.old) |-> Message(config.old[n], 0)]
    BY <1>1, <2>2
  <2>5. msgs \in [1 .. Len(config.old) -> [kind : MessageKinds, to : Nat]]
    BY <2>3, <2>4
  <2>6. msgs \in Seq([kind : MessageKinds, to : Nat])
    BY <2>2, <2>5, SeqDef
  <2>7. Len(msgs) = Len(config.old)
    BY <2>2, <2>5, <2>6, LenProperties
  <2>8. \A n \in 1 .. Len(msgs) : msgs[n].to = 0
    BY <2>4, <2>7 DEF Message
  <2> QED BY <2>2, <2>5, <2>6, <2>7, <2>8
<1>3. ChatTypeOK
  <2>1. /\ chan \in Seq(1 .. Len(msgs)) /\ Len(chan) = 0 /\ BufCap \in Nat
        /\ 0 \in 0 .. Len(msgs)
    BY <1>1, <1>2, NodeAssumption
  <2>2. /\ \A n \in 1 .. Len(msgs) : msgs[n].to <= Len(msgs)
        /\ Len(chan) <= BufCap
    BY <1>2, <2>1
  <2>3. /\ store \subseteq 1 .. Len(msgs) /\ busy \subseteq 1 .. Len(msgs)
        /\ tmp \subseteq 1 .. Len(msgs) /\ shown \subseteq 1 .. Len(msgs)
        /\ histories \in Nat
    BY <1>1
  <2>4. /\ spc \in [Threads -> {"no", "copy", "pub"}]
        /\ smsg \in [Threads -> 0 .. Len(msgs)]
        /\ \A t \in Threads : smsg[t] = 0 <=> spc[t] = "no"
    BY <1>1, <2>1
  <2>5. /\ hpc \in [Showers -> {"new", "history", "show", "recv", "end"}]
        /\ todo \in [Showers -> SUBSET (1 .. Len(msgs))]
        /\ cur \in [Showers -> 0 .. Len(msgs)]
    BY <1>1, <2>1
  <2>6. saved \in [of : 0 .. Len(msgs), whole : BOOLEAN]
    BY <1>1, <2>1
  <2>7. relay \in 0 .. Len(msgs)
    BY <1>1, <2>1
  <2> QED BY <1>2, <2>1, <2>2, <2>3, <2>4, <2>5, <2>6, <2>7 DEF ChatTypeOK
<1>4. \A t \in Threads : smsg[t] = 0 /\ spc[t] = "no"
  BY <1>1
<1>5. Len(chan) = 0 /\ \A i \in 1 .. Len(chan) : FALSE
  <2>1. Len(chan) = 0
    BY <1>1
  <2> QED BY <2>1
<1>6. ComesOnce /\ SenderKnows
  BY <1>4, <1>5 DEF ComesOnce, SenderKnows
<1>7. NothingLeftBehind
  <2>1. Left = {}
    BY <1>1 DEF Left
  <2> QED BY <1>1, <2>1, FS_EmptySet DEF NothingLeftBehind
<1>8. SaverIsAlone /\ FileIsWhole
  BY <1>1 DEF SaverIsAlone, FileIsWhole
<1>9. ASSUME NEW n \in 1 .. Len(msgs) PROVE Limited(n)
  <2>1. n # 0 /\ \A i \in 1 .. Len(msgs) : msgs[i].to # n
    BY <1>2
  <2>2. Answers(n) = {}
    BY <1>2, <2>1 DEF Answers
  <2>3. Cardinality(Answers(n)) = 0
    BY <2>2, FS_EmptySet
  <2>4. ~ Coming(n)
    BY <1>1, <1>4, <1>5, <2>1 DEF Coming
  <2>5. n \notin todo["loop"] /\ n \notin todo["ui"]
    BY <1>1 DEF Showers
  <2>6. Owed(n) = 0
    BY <2>4, <2>5 DEF Owed, One
  <2>7. Limit(n) \in {0, 1}
    BY <1>1 DEF Limit
  <2> QED BY <2>3, <2>6, <2>7 DEF Limited
<1> QED BY <1>3, <1>6, <1>7, <1>8, <1>9 DEF AnswersAreLimited

\* The process begins as it goes on.
LEMMA ProcessBegins ==
    ASSUME Init
    PROVE  IInv
<1>1. NodeInv /\ ChatInit
  BY NodeBegins DEF Init, ChatInit
<1>2. WaitersAreSilent /\ RobotInv
  BY DEF Init, WaitersAreSilent, RobotInv, RobotTypeOK, TalkersListen
<1> QED BY <1>1, <1>2, ChatBegins DEF IInv, ChatInv

\* Every step of every goroutine keeps the invariant.
LEMMA ProcessStep ==
    ASSUME IInv, [Next]_vars
    PROVE  IInv'
<1>1. NodeInv' /\ RobotInv'
  BY NodeStep, RobotStep DEF IInv
<1>2. Effect
  BY Effects DEF IInv, NodeInv, NodeTypeOK, ChatInv
<1>3. ChatTypeOK'
  BY <1>2, PlacesKept, ChatTypesKept DEF IInv, ChatInv, ChatTypeOK
<1>4. WaitersAreSilent'
  BY SilentKept DEF IInv, ChatInv, RobotInv
<1>5. ComesOnce' /\ AnswersAreLimited'
  BY <1>2, OnceKept, AnswersKept DEF IInv, ChatInv
<1>6. SenderKnows' /\ NothingLeftBehind'
  BY <1>2, SenderKept DEF IInv, NodeInv, NodeTypeOK, ChatInv
<1>7. SaverIsAlone' /\ FileIsWhole'
  BY <1>2, SaverKept DEF IInv, ChatInv
<1> QED BY <1>1, <1>3, <1>4, <1>5, <1>6, <1>7 DEF IInv, ChatInv

\* The invariant holds in every behaviour of the process.
THEOREM ProcessInvariance == Spec => []IInv
<1>1. Init => IInv
  BY ProcessBegins
<1>2. IInv /\ [Next]_vars => IInv'
  BY ProcessStep
<1> QED BY <1>1, <1>2, PTL DEF Spec

\* The variables of node, chat and robot have their types: every number is that of
\* a message, and the channel of the loop never holds more than its buffer.
THEOREM ProcessTypes == Spec => []TypeOK
<1>1. IInv => TypeOK
  BY DEF IInv, NodeInv, ChatInv, RobotInv, TypeOK
<1> QED BY <1>1, ProcessInvariance, PTL

\* advertise never has two advertisements on the air, whatever changes while it
\* waits for the withdrawal of the last one (server.go:163-164).
THEOREM NeverTwoAdvertisements == Spec => []OneAdvertisement
<1>1. IInv => OneAdvertisement
  <2> SUFFICES ASSUME OnlyWhileAdvertised, NEW d \in Discs
               PROVE  Cardinality(onair[d]) <= 1
    BY DEF IInv, NodeInv, OneAdvertisement
  <2>1. PICK a \in Addrs : onair[d] \subseteq {a}
    BY DEF OnlyWhileAdvertised
  <2>2. onair[d] = {} \/ onair[d] = {a}
    BY <2>1
  <2>3. Cardinality({}) = 0 /\ Cardinality({a}) = 1
    BY FS_EmptySet, FS_Singleton
  <2> QED BY <2>2, <2>3
<1> QED BY <1>1, ProcessInvariance, PTL

\* When Stop has returned, the notifier, the peer managers and the goroutines of
\* advertise have ended, and nothing is advertised (server.go:197-203).
THEOREM StopHasWaited == Spec => []StopWaits
<1>1. IInv => StopWaits
  BY DEF IInv, NodeInv
<1> QED BY <1>1, ProcessInvariance, PTL

\* A file that the chat has reported as received is whole, and of the message that
\* was shown, whatever the loop and /history handle at the same time (chat.go:435).
THEOREM ReportedFilesAreWhole == Spec => []FileIsWhole
<1>1. IInv => FileIsWhole
  BY DEF IInv, ChatInv
<1> QED BY <1>1, ProcessInvariance, PTL

\* sendMessage leaves a file or a lock behind only when it fails, one for each
\* failure, and never for a message that is stored (chat.go:342-361).
THEOREM OnlyFailuresLeaveFiles == Spec => []NothingLeftBehind
<1>1. IInv => NothingLeftBehind
  BY DEF IInv, ChatInv
<1> QED BY <1>1, ProcessInvariance, PTL

\* A ping is answered once and once per history, a command of the robot once, and
\* an answer never (chat.go:278, 302).
THEOREM AnswersDoNotMultiply == Spec => []PongsAreBounded
<1>1. ASSUME IInv PROVE PongsAreBounded
  <2>1. ChatTypeOK /\ AnswersAreLimited
    BY <1>1 DEF IInv, ChatInv
  <2>2. msgs \in Seq([kind : MessageKinds, to : Nat]) /\ histories \in Nat
    BY <2>1 DEF ChatTypeOK
  <2> SUFFICES ASSUME NEW n \in DOMAIN msgs
               PROVE  Cardinality(Answers(n)) <= Limit(n)
    BY DEF PongsAreBounded, Limit
  <2>3. n \in 1 .. Len(msgs)
    BY <2>2
  <2>4. Cardinality(Answers(n)) + Owed(n) <= Limit(n)
    BY <2>1, <2>3 DEF AnswersAreLimited, Limited
  <2>5. Cardinality(Answers(n)) \in Nat
    BY <2>2, AnswersCount
  <2>6. Owed(n) \in Nat
    <3>1. \A a, b, c \in {0, 1} : a + b + c \in Nat
      OBVIOUS
    <3>2. /\ One(Coming(n)) \in {0, 1} /\ One(n \in todo["loop"]) \in {0, 1}
          /\ One(n \in todo["ui"]) \in {0, 1}
      BY DEF One
    <3> DEFINE C == One(Coming(n))
               L == One(n \in todo["loop"])
               U == One(n \in todo["ui"])
    <3>3. Owed(n) \in {C + L + U, C, 0}
      BY DEF Owed
    <3> HIDE DEF C, L, U
    <3>4. {C, L, U} \subseteq {0, 1}
      BY <3>2 DEF C, L, U
    <3> QED BY <3>1, <3>3, <3>4
  <2>7. Limit(n) \in Nat
    BY <2>2 DEF Limit
  <2> QED BY <2>4, <2>5, <2>6, <2>7
<1> QED BY <1>1, ProcessInvariance, PTL

\* A talker of the robot that waits is stopped by the next !hush, or has been told,
\* or has found talkChan nil (robot.go:61).
THEOREM TalkersAreHushed == Spec => []TalkersListen
<1>1. IInv => TalkersListen
  BY DEF IInv, RobotInv
<1> QED BY <1>1, ProcessInvariance, PTL
=============================================================================
