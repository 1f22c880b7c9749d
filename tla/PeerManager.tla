---------------------------- MODULE PeerManager ----------------------------
(***************************************************************************)
(* internal/peers.go: the life of the peers of a node.  The goroutine loop *)
(* takes the updates of discovery, and on a timer starts and stops peers   *)
(* (checkActivePeers).  A started peer has two goroutines: msgLoop, which  *)
(* stopPeer waits for, and subLoop, which it does not wait for.  Both use  *)
(* the fields of the peer that stopPeer sets to nil.                       *)
(*                                                                         *)
(* A peer that is lost and found again is a new peer object.  Every        *)
(* startPeer is numbered: n stands for the context, the queue, the psChan, *)
(* the msgLoop and the subLoop that the nth call has made.                 *)
(***************************************************************************)
EXTENDS Integers, FiniteSets, ActivePeers

CONSTANTS
    Self,           \* the id of this node
    Ids,            \* the ids of the others
    MaxActivePeers, \* Params.MaxActivePeers, 0 for no limit
    MaxObjs,        \* bound: the peer objects made for one id
    MaxStarts,      \* bound: the calls of startPeer that start a peer
    MaxUpdates      \* bound: the discovery updates

ASSUME PeerManagerAssumption ==
    /\ Ids \subseteq Nat
    /\ Self \in Nat \ Ids
    /\ MaxActivePeers \in Nat
    /\ MaxObjs \in Nat \ {0}
    /\ MaxStarts \in Nat
    /\ MaxUpdates \in Nat

Objs == Ids \X (1 .. MaxObjs)
Starts == 1 .. MaxStarts

VARIABLES
    (* The peer manager. *)
    peers,      \* pm.peers: the objects in the list
    made,       \* the objects made so far
    numPeers,   \* counters.numPeers
    lpc,        \* where loop is
    toStop,     \* the objects it still has to stop
    toStart,    \* and to start
    leaving,    \* it is in removePeer
    ctxDone,    \* the context of the node is done
    open,       \* updateChan is open
    (* The peers. *)
    cur,        \* cur[p]: the start whose fields p has, 0 if they are nil
    bad,        \* the objects with peerErrorThreshold errors in the last hour
    starts,     \* the number of starts
    canceled,   \* the starts whose context is done
    unsubbed,   \* those whose psChan is closed
    msgLoop,    \* the starts whose msgLoop is running
    spc,        \* spc[n]: where the subLoop of start n is
    sobj,       \* sobj[n]: its peer
    sctx,       \* sctx[n]: the start whose context it has
    schan,      \* schan[n]: the start whose psChan it waits for, 0 if nil
    panicked,   \* the process has died of a nil pointer
    updates

peerVars == <<cur, starts, canceled, unsubbed, msgLoop, spc, sobj, sctx, schan, panicked>>
loopVars == <<peers, made, numPeers, lpc, toStop, toStart, leaving, ctxDone, open>>
vars == <<loopVars, peerVars, bad, updates>>

\* The values of the variables; a goroutine subLoop belongs to a start, and a
\* peer that has a context is in use by the msgLoop of that start, until loop has
\* seen it end.
TypeOK ==
    /\ peers \subseteq made
    /\ made \in SUBSET Objs
    /\ numPeers \in Int
    /\ lpc \in {"select", "visit", "wait", "end"}
    /\ toStop \in SUBSET Objs
    /\ toStart \in SUBSET Objs
    /\ leaving \in BOOLEAN
    /\ ctxDone \in BOOLEAN
    /\ open \in BOOLEAN
    /\ cur \in [Objs -> 0 .. MaxStarts]
    /\ bad \in SUBSET Objs
    /\ starts \in 0 .. MaxStarts
    /\ canceled \in SUBSET Starts
    /\ unsubbed \in SUBSET Starts
    /\ msgLoop \in SUBSET Starts
    /\ spc \in [Starts -> {"off", "starting", "select", "insert", "end"}]
    /\ DOMAIN sobj = Starts /\ \A n \in 1 .. starts : sobj[n] \in Objs
    /\ \A n \in Starts : n <= starts \/ spc[n] = "off"
    /\ sctx \in [Starts -> 0 .. MaxStarts]
    /\ schan \in [Starts -> 0 .. MaxStarts]
    /\ panicked \in BOOLEAN
    /\ updates \in 0 .. MaxUpdates
    /\ \A n \in msgLoop : \E p \in made : cur[p] = n

Init ==
    /\ peers = {}
    /\ made = {}
    /\ numPeers = 0
    /\ lpc = "select"
    /\ toStop = {}
    /\ toStart = {}
    /\ leaving = FALSE
    /\ ctxDone = FALSE
    /\ open = TRUE
    /\ cur = [p \in Objs |-> 0]
    /\ bad = {}
    /\ starts = 0
    /\ canceled = {}
    /\ unsubbed = {}
    /\ msgLoop = {}
    /\ spc = [n \in Starts |-> "off"]
    /\ sobj = [n \in Starts |-> CHOOSE p \in Objs : TRUE]
    /\ sctx = [n \in Starts |-> 0]
    /\ schan = [n \in Starts |-> 0]
    /\ panicked = FALSE
    /\ updates = 0

Running == ~ panicked

Listed(id) == {p \in peers : p[1] = id}

-----------------------------------------------------------------------------
(* loop and what it calls.                                                 *)

\* processDiscoveryUpdate: the peer is new, or only its addresses change.
Found(id) ==
    /\ Running
    /\ lpc = "select" /\ open
    /\ updates < MaxUpdates
    /\ updates' = updates + 1
    /\ \/ /\ Listed(id) = {}
          /\ \E k \in 1 .. MaxObjs :
               /\ {j \in 1 .. MaxObjs : <<id, j>> \in made} = 1 .. k - 1
               /\ peers' = peers \cup {<<id, k>>}
               /\ made' = made \cup {<<id, k>>}
          /\ numPeers' = numPeers + 1
       \/ /\ Listed(id) # {}
          /\ UNCHANGED <<peers, made, numPeers>>
    /\ UNCHANGED <<lpc, toStop, toStart, leaving, ctxDone, open, peerVars, bad>>

\* removePeer ranges over the list and deletes id first thing: all the others
\* are visited, and the peer itself only if it happens to be the first.
RemoveVisits(id) ==
    IF peers = Listed(id) THEN {peers} ELSE {peers, peers \ Listed(id)}

\* processDiscoveryUpdate: the peer is lost, and removePeer called.
Lost(id) ==
    /\ Running
    /\ lpc = "select" /\ open
    /\ updates < MaxUpdates
    /\ updates' = updates + 1
    /\ toStop' \in RemoveVisits(id)
    /\ peers' = peers \ Listed(id)
    /\ leaving' = TRUE
    /\ lpc' = "visit"
    /\ UNCHANGED <<made, numPeers, toStart, ctxDone, open, peerVars, bad>>

\* The node is stopped: its context is done, and so is that of every peer.
ContextDone ==
    /\ Running
    /\ ~ ctxDone
    /\ ctxDone' = TRUE
    /\ canceled' = 1 .. starts
    /\ UNCHANGED <<peers, made, numPeers, lpc, toStop, toStart, leaving, open, cur,
                   starts, unsubbed, msgLoop, spc, sobj, sctx, schan, panicked,
                   bad, updates>>

\* A plausible slip: loop returns without stopping the peers.
Closed_NoStop ==
    /\ Running
    /\ ctxDone
    /\ lpc = "select" /\ open
    /\ open' = FALSE
    /\ lpc' = "end"
    /\ UNCHANGED <<peers, made, numPeers, toStop, toStart, leaving, ctxDone,
                   peerVars, bad, updates>>

\* Scan closes updateChan after the end of the context, and loop calls removePeer
\* with an id that no peer has.
Closed ==
    /\ Running
    /\ ctxDone
    /\ lpc = "select" /\ open
    /\ open' = FALSE
    /\ toStop' = peers
    /\ leaving' = TRUE
    /\ lpc' = "visit"
    /\ UNCHANGED <<peers, made, numPeers, toStart, ctxDone, peerVars, bad, updates>>

\* The peers that checkActivePeers starts; when there is no choice to be made,
\* it stops none.
Chosen ==
    LET ids == {p[1] : p \in peers}
        sel == ActivePeers(Self, ids, {p[1] : p \in peers \cap bad}, MaxActivePeers)
    IN  {p \in peers : p[1] \in sel}

\* A plausible slip: the peers that are no longer chosen go on.
CheckActivePeers_NoStop ==
    /\ Running
    /\ lpc = "select" /\ open
    /\ toStart' = {p \in Chosen : cur[p] = 0}
    /\ toStop' = {}
    /\ toStart' # {}
    /\ starts + Cardinality(toStart') <= MaxStarts
    /\ leaving' = FALSE
    /\ lpc' = "visit"
    /\ UNCHANGED <<peers, made, numPeers, ctxDone, open, peerVars, bad, updates>>

\* The timer: something changed, or a minute has passed.
CheckActivePeers ==
    /\ Running
    /\ lpc = "select" /\ open
    /\ toStart' = {p \in Chosen : cur[p] = 0}
    /\ toStop' = {p \in peers \ Chosen : cur[p] # 0}
    /\ toStart' \cup toStop' # {}
    /\ starts + Cardinality(toStart') <= MaxStarts
    /\ leaving' = FALSE
    /\ lpc' = "visit"
    /\ UNCHANGED <<peers, made, numPeers, ctxDone, open, peerVars, bad, updates>>

\* checkActivePeers visits the peers in the order of their ids, if it had to choose;
\* otherwise it, like removePeer, ranges over the map.
Turn(p) ==
    \/ leaving
    \/ MaxActivePeers = 0 \/ Cardinality(peers) <= MaxActivePeers
    \/ \A q \in toStop \cup toStart : p[1] <= q[1]

\* stopPeer: Unsub and cancel, then it waits for msgLoop.
StopPeer(p) ==
    /\ Running
    /\ lpc = "visit"
    /\ p \in toStop /\ Turn(p)
    /\ cur[p] # 0
    /\ unsubbed' = unsubbed \cup {cur[p]}
    /\ canceled' = canceled \cup {cur[p]}
    /\ lpc' = "wait"
    /\ UNCHANGED <<peers, made, numPeers, toStop, toStart, leaving, ctxDone, open, cur,
                   starts, msgLoop, spc, sobj, sctx, schan, panicked, bad,
                   updates>>

\* removePeer counts every peer it visits, whether it was started or not.
Counted == IF leaving THEN numPeers - 1 ELSE numPeers

\* stopPeer: msgLoop has closed done, and the fields become nil.
StopPeerEnds(p) ==
    /\ Running
    /\ lpc = "wait"
    /\ p \in toStop /\ Turn(p)
    /\ cur[p] \in canceled \ msgLoop
    /\ cur' = [cur EXCEPT ![p] = 0]
    /\ toStop' = toStop \ {p}
    /\ numPeers' = Counted
    /\ lpc' = "visit"
    /\ UNCHANGED <<peers, made, toStart, leaving, ctxDone, open, starts, canceled,
                   unsubbed, msgLoop, spc, sobj, sctx, schan, panicked, bad, updates>>

\* stopPeer of a peer that is not started.
StopPeerIdle(p) ==
    /\ Running
    /\ lpc = "visit"
    /\ p \in toStop /\ Turn(p)
    /\ cur[p] = 0
    /\ toStop' = toStop \ {p}
    /\ numPeers' = Counted
    /\ UNCHANGED <<peers, made, lpc, toStart, leaving, ctxDone, open, peerVars, bad,
                   updates>>

\* A plausible slip: a peer is started only once.
StartPeer_Once(p) ==
    /\ Running
    /\ lpc = "visit"
    /\ p \in toStart /\ Turn(p)
    /\ toStart' = toStart \ {p}
    /\ IF \E n \in 1 .. starts : sobj[n] = p
       THEN UNCHANGED <<starts, cur, msgLoop, spc, sobj>>
       ELSE /\ starts' = starts + 1
            /\ cur' = [cur EXCEPT ![p] = starts + 1]
            /\ msgLoop' = msgLoop \cup {starts + 1}
            /\ spc' = [spc EXCEPT ![starts + 1] = "starting"]
            /\ sobj' = [sobj EXCEPT ![starts + 1] = p]
    /\ canceled' = IF ctxDone THEN canceled \cup {starts'} ELSE canceled
    /\ UNCHANGED <<peers, made, numPeers, lpc, toStop, leaving, ctxDone, open,
                   unsubbed, sctx, schan, panicked, bad, updates>>

\* startPeer: the fields are set, and the goroutines started, with a context that
\* ends with that of the node.
StartPeer(p) ==
    /\ Running
    /\ lpc = "visit"
    /\ p \in toStart /\ Turn(p)
    /\ toStart' = toStart \ {p}
    /\ starts' = starts + 1
    /\ cur' = [cur EXCEPT ![p] = starts + 1]
    /\ msgLoop' = msgLoop \cup {starts + 1}
    /\ spc' = [spc EXCEPT ![starts + 1] = "starting"]
    /\ sobj' = [sobj EXCEPT ![starts + 1] = p]
    /\ canceled' = IF ctxDone THEN canceled \cup {starts + 1} ELSE canceled
    /\ UNCHANGED <<peers, made, numPeers, lpc, toStop, leaving, ctxDone, open,
                   unsubbed, sctx, schan, panicked, bad, updates>>

\* A plausible slip: loop goes on with its select after updateChan was closed.
VisitedAll_NoReturn ==
    /\ Running
    /\ lpc = "visit"
    /\ toStop \cup toStart = {}
    /\ lpc' = "select"
    /\ leaving' = FALSE
    /\ UNCHANGED <<peers, made, numPeers, toStop, toStart, ctxDone, open, peerVars, bad,
                   updates>>

\* All are visited: removePeer or checkActivePeers returns, and so does loop after
\* updateChan was closed.
VisitedAll ==
    /\ Running
    /\ lpc = "visit"
    /\ toStop \cup toStart = {}
    /\ lpc' = IF open THEN "select" ELSE "end"
    /\ leaving' = FALSE
    /\ UNCHANGED <<peers, made, numPeers, toStop, toStart, ctxDone, open, peerVars, bad,
                   updates>>

-----------------------------------------------------------------------------
(* The goroutines of a peer.                                               *)

\* msgLoop ends once its context is canceled: the calls it makes return then.
MsgLoopEnds(n) ==
    /\ Running
    /\ n \in msgLoop \cap canceled
    /\ msgLoop' = msgLoop \ {n}
    /\ UNCHANGED <<loopVars, cur, starts, canceled, unsubbed, spc, sobj, sctx, schan,
                   panicked, bad, updates>>

\* The select of subLoop evaluates p.psChan; the context is a local variable.
EnterSelect(n) ==
    /\ spc' = [spc EXCEPT ![n] = "select"]
    /\ schan' = [schan EXCEPT ![n] = cur[sobj[n]]]

\* The process dies.
Panic ==
    /\ panicked' = TRUE
    /\ UNCHANGED <<spc, sctx, schan>>

\* subLoop begins: ctx := p.ctx, which may be nil by now.
SubLoopBegins(n) ==
    /\ Running
    /\ spc[n] = "starting"
    /\ IF cur[sobj[n]] = 0
       THEN Panic
       ELSE /\ sctx' = [sctx EXCEPT ![n] = cur[sobj[n]]]
            /\ EnterSelect(n)
            /\ UNCHANGED panicked
    /\ UNCHANGED <<loopVars, cur, starts, canceled, unsubbed, msgLoop, sobj, bad, updates>>

\* subLoop receives a message.
SubLoopReceives(n) ==
    /\ Running
    /\ spc[n] = "select"
    /\ schan[n] \notin unsubbed \cup {0}
    /\ spc' = [spc EXCEPT ![n] = "insert"]
    /\ schan' = [schan EXCEPT ![n] = 0]
    /\ UNCHANGED <<loopVars, cur, starts, canceled, unsubbed, msgLoop, sobj, sctx,
                   panicked, bad, updates>>

\* It puts the message in p.queue, which may be nil by now.
SubLoopInserts(n) ==
    /\ Running
    /\ spc[n] = "insert"
    /\ IF cur[sobj[n]] = 0
       THEN Panic
       ELSE EnterSelect(n) /\ UNCHANGED <<sctx, panicked>>
    /\ UNCHANGED <<loopVars, cur, starts, canceled, unsubbed, msgLoop, sobj, bad, updates>>

\* checkHops does not want the message to be sent.
SubLoopSkips(n) ==
    /\ Running
    /\ spc[n] = "insert"
    /\ EnterSelect(n)
    /\ UNCHANGED <<loopVars, cur, starts, canceled, unsubbed, msgLoop, sobj, sctx,
                   panicked, bad, updates>>

\* Its context is done, or the channel is closed.
SubLoopEnds(n) ==
    /\ Running
    /\ spc[n] = "select"
    /\ sctx[n] \in canceled \/ schan[n] \in unsubbed
    /\ spc' = [spc EXCEPT ![n] = "end"]
    /\ sctx' = [sctx EXCEPT ![n] = 0]
    /\ schan' = [schan EXCEPT ![n] = 0]
    /\ UNCHANGED <<loopVars, cur, starts, canceled, unsubbed, msgLoop, sobj, panicked, bad,
                   updates>>

\* The error counter of p reaches the threshold, or an hour goes by.
Errors(p) ==
    /\ Running
    /\ bad' = IF p \in bad THEN bad \ {p} ELSE bad \cup {p}
    /\ p \in peers
    /\ UNCHANGED <<loopVars, peerVars, updates>>

-----------------------------------------------------------------------------
loop ==
    \/ CheckActivePeers
    \/ \E p \in Objs : \/ StopPeer(p)
                       \/ StopPeerEnds(p)
                       \/ StopPeerIdle(p)
                       \/ StartPeer(p)
    \/ VisitedAll

subLoop(n) ==
    \/ SubLoopBegins(n)
    \/ SubLoopReceives(n)
    \/ SubLoopInserts(n)
    \/ SubLoopSkips(n)
    \/ SubLoopEnds(n)

Next ==
    \/ \E id \in Ids : Found(id) \/ Lost(id)
    \/ ContextDone
    \/ Closed
    \/ loop
    \/ \E n \in Starts : MsgLoopEnds(n) \/ subLoop(n)
    \/ \E p \in Objs : Errors(p)

Spec == Init /\ [][Next]_vars

\* The goroutines run.  The timer fires: once the updates have stopped coming
\* for a second, and every minute.
Fairness ==
    /\ WF_vars(loop)
    /\ \A n \in Starts : WF_vars(MsgLoopEnds(n))

FairSpec == Spec /\ Fairness

-----------------------------------------------------------------------------
(* Properties.                                                             *)

\* The bound on the starts is not what keeps a peer from being started.
StartsLeft == starts + Cardinality(Chosen) <= MaxStarts

\* Between two updates, at most MaxActivePeers of the peers in the list are
\* started, whichever were chosen, stopped, lost and found again before.  (While
\* checkActivePeers visits them, there may be more: it starts some before it stops
\* others.)
AtMostMaxActive ==
    MaxActivePeers > 0 /\ lpc = "select" =>
        Cardinality({p \in peers : cur[p] # 0}) <= MaxActivePeers

\* A peer that is chosen for good is started for good, although every loss of
\* any peer stops all of them (unless the process dies).
ChosenIsStarted ==
    \A p \in Objs :
        <>[](open /\ p \in Chosen /\ StartsLeft /\ Running) => <>[](cur[p] # 0)

\* loop is done (server.go:199-202 waits for it) only when the msgLoop of every peer
\* in the list has ended, whatever was started, lost or stopped before, also after
\* the context of the node was done.
EndsAfterPeers == lpc = "end" => \A n \in msgLoop : sobj[n] \notin peers

\* After discovery ends, the node stops talking to its peers: loop ends, although it
\* waits for one msgLoop after the other, and so does every msgLoop, those of lost
\* peers too (unless the process dies).  That the calls of a msgLoop return once its
\* context is done is assumed.
StopEndsAll == ~ open ~> panicked \/ (lpc = "end" /\ msgLoop = {})

\* "removePeer removes the peer from the peer list, after stopping it."
\* (peers.go:241): no msgLoop is running for a peer that is not in the list.
LostIsStopped ==
    lpc = "select" => \A n \in msgLoop : sobj[n] \in peers
=============================================================================
