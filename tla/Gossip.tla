------------------------------- MODULE Gossip ------------------------------
(***************************************************************************)
(* How one message spreads over the nodes: each node talks to the active   *)
(* peers of the ring (peers.go, checkActivePeers), does not offer the      *)
(* message to a node in its Hops nor after MaxHops of them (checkHops),    *)
(* adds itself to the Hops (pushMessage), and refuses a message with too   *)
(* many (messenger.go, Push).  A transfer is one step here, or two with an *)
(* interruption between them; Push.tla has its inside.  The first transfer *)
(* stores the message with its Hops, and no later one replaces them; the   *)
(* transfer that completes it publishes its own.  Nodes appear and         *)
(* disappear, and keep their storage.                                      *)
(***************************************************************************)
EXTENDS Integers, Sequences, FiniteSets, ActivePeers

CONSTANTS
    Nodes,          \* the ids of the nodes
    ActiveLimits,   \* the values of Params.MaxActivePeers, 0 for no limit
    HopLimits,      \* the ways to give each node its Params.MaxHops, 0 for no limit
    NoHops,         \* the node has nothing of the message
    MaxUpdates,     \* bound: the number of discovery updates
    MaxBreaks       \* bound: the number of interrupted transfers

ASSUME GossipAssumption ==
    /\ Nodes \subseteq Nat
    /\ ActiveLimits \subseteq Nat
    /\ HopLimits \subseteq [Nodes -> Nat]
    /\ NoHops \notin Seq(Nodes)
    /\ MaxUpdates \in Nat
    /\ MaxBreaks \in Nat

VARIABLES
    up,         \* the nodes that are up and see each other
    active,     \* active[n]: the peers that n has started
    queue,      \* queue[n]: those for which n has the message in its queue
    hops,       \* hops[n]: the Hops in the metadata that n has stored
    has,        \* the nodes that have all of the message
    fatal,      \* fatal[n]: the peers for which n has recorded FatalError
    origin,     \* the node where the message was created
    (* Parameters, given once for all. *)
    MaxActivePeers,
    MaxHops,    \* MaxHops[n]: the Params.MaxHops of node n
    (* History and bounds. *)
    resumed,    \* the nodes that have stored other Hops than they published
    updates, breaks

params == <<MaxActivePeers, MaxHops>>
store  == <<hops, has, resumed>>
vars   == <<up, active, queue, store, fatal, origin, params, updates, breaks>>

\* The values of the variables; a node has started only peers that discovery
\* reports and that are not itself.
TypeOK ==
    /\ up \in SUBSET Nodes
    /\ active \in [Nodes -> SUBSET Nodes]
    /\ \A n \in Nodes : active[n] \subseteq (IF n \in up THEN up \ {n} ELSE {})
    /\ queue \in [Nodes -> SUBSET Nodes]
    /\ \A n \in Nodes : queue[n] \subseteq active[n]
    /\ hops \in [Nodes -> Seq(Nodes) \cup {NoHops}]
    /\ has \in SUBSET Nodes
    /\ resumed \in SUBSET has
    /\ fatal \in [Nodes -> SUBSET Nodes]
    /\ origin \in Nodes
    /\ MaxActivePeers \in ActiveLimits
    /\ MaxHops \in HopLimits
    /\ updates \in 0 .. MaxUpdates
    /\ breaks \in 0 .. MaxBreaks

Init ==
    /\ up \in SUBSET Nodes
    /\ active = [n \in Nodes |-> {}]
    /\ queue = [n \in Nodes |-> {}]
    /\ origin \in up
    /\ hops = [n \in Nodes |-> IF n = origin THEN << >> ELSE NoHops]
    /\ has = {origin}
    /\ resumed = {}
    /\ fatal = [n \in Nodes |-> {}]
    /\ MaxActivePeers \in ActiveLimits
    /\ MaxHops \in HopLimits
    /\ updates = 0
    /\ breaks = 0

-----------------------------------------------------------------------------
\* Node n comes or goes, and its neighbours hear of it.
Found(n) ==
    /\ n \notin up
    /\ updates < MaxUpdates
    /\ updates' = updates + 1
    /\ up' = up \cup {n}
    /\ UNCHANGED <<active, queue, store, fatal, origin, params, breaks>>

\* removePeer stops every peer, not only the lost one, until the timer fires;
\* the goroutines that it may leave behind are in PeerManager.tla.
Lost(n) ==
    /\ n \in up
    /\ updates < MaxUpdates
    /\ updates' = updates + 1
    /\ up' = up \ {n}
    /\ active' = [m \in Nodes |-> {}]
    /\ queue' = [m \in Nodes |-> {}]
    /\ UNCHANGED <<store, fatal, origin, params, breaks>>

\* Whom n talks to with the limit max when its peers are others, none of them bad.
Chosen ==
    [max \in ActiveLimits |-> [n \in Nodes |->
        [others \in SUBSET (Nodes \ {n}) |-> ActivePeers(n, others, {}, max)]]]

\* The limit of a node with MaxHops = 0 is none.
TooMany(limit, number) == limit > 0 /\ number > limit

\* A plausible slip: the hop about to be added is not counted.
checkHops_OneMore(n, p, h) ==
    /\ \A i \in DOMAIN h : h[i] # p
    /\ ~ TooMany(MaxHops[n], Len(h))

\* Whether n may offer a message with the Hops h to its peer p.
checkHops(n, p, h) ==
    /\ \A i \in DOMAIN h : h[i] # p
    /\ ~ (MaxHops[n] > 0 /\ Len(h) >= MaxHops[n])

\* The timer of loop: n starts and stops peers.  A peer that is stopped loses its
\* queue; for one that is started, diffAndEnqueue looks at the metadata.
CheckActivePeers(n) ==
    /\ n \in up
    /\ active' = [active EXCEPT ![n] = Chosen[MaxActivePeers][n][up \ {n}]]
    /\ queue' = [queue EXCEPT ![n] =
          (@ \cap active'[n]) \cup {p \in active'[n] \ active[n] :
              n \in has /\ p \notin fatal[n] \cup has /\ checkHops(n, p, hops[n])}]
    /\ UNCHANGED <<up, store, fatal, origin, params, updates, breaks>>

\* n pushes the message to p, which does not have it.
Queued(n, p) ==
    /\ n \in up
    /\ p \in queue[n] \cap up
    /\ n \in has
    /\ p \notin has

\* The Hops that n sends: those of the metadata, and itself.
SentHops(n) == Append(hops[n], n)

Refused(n, p) == TooMany(MaxHops[p], Len(SentHops(n)))

\* p stores the metadata, unless it has it from an earlier transfer.
HopsStored(n, p) == IF hops[p] = NoHops THEN SentHops(n) ELSE hops[p]

\* The transfer is interrupted: p keeps what it has received.
PushInterrupted(n, p) ==
    /\ Queued(n, p)
    /\ ~ Refused(n, p)
    /\ breaks < MaxBreaks
    /\ breaks' = breaks + 1
    /\ hops' = [hops EXCEPT ![p] = HopsStored(n, p)]
    /\ UNCHANGED <<up, active, queue, has, resumed, fatal, origin, params, updates>>

\* p has received all of the message.  It publishes it with the Hops of this
\* transfer, which are what subLoop checks.
Push(n, p) ==
    /\ Queued(n, p)
    /\ ~ Refused(n, p)
    /\ hops' = [hops EXCEPT ![p] = HopsStored(n, p)]
    /\ has' = has \cup {p}
    /\ resumed' = IF HopsStored(n, p) = SentHops(n) THEN resumed
                  ELSE resumed \cup {p}
    /\ queue' = [queue EXCEPT ![n] = @ \ {p},
                              ![p] = {q \in active[p] : checkHops(p, q, SentHops(n))}]
    /\ UNCHANGED <<up, active, fatal, origin, params, updates, breaks>>

\* p refuses it with TooManyHops, which is fatal for n.
PushTooManyHops(n, p) ==
    /\ Queued(n, p)
    /\ Refused(n, p)
    /\ fatal' = [fatal EXCEPT ![n] = @ \cup {p}]
    /\ queue' = [queue EXCEPT ![n] = @ \ {p}]
    /\ UNCHANGED <<up, active, store, origin, params, updates, breaks>>

Next ==
    \/ \E n \in Nodes : Found(n) \/ Lost(n) \/ CheckActivePeers(n)
    \/ \E n, p \in Nodes : Push(n, p) \/ PushInterrupted(n, p) \/ PushTooManyHops(n, p)

Spec == Init /\ [][Next]_vars

\* The timers fire, and what is queued for an active peer is sent.
Fairness ==
    /\ WF_vars(\E n \in Nodes : CheckActivePeers(n))
    /\ WF_vars(\E n, p \in Nodes : Push(n, p))

FairSpec == Spec /\ Fairness

-----------------------------------------------------------------------------
(* Properties.                                                             *)

\* Node u sent the message as the ith on its way, within its own limit, or beyond
\* it by one, if it had stored other Hops than it published.
WithinLimit(u, i) ==
    \/ ~ TooMany(MaxHops[u], i)
    \/ u \in resumed /\ i = MaxHops[u] + 1

\* The Hops that n has stored lead from the origin to n: each node on the way has
\* the message and sent it with the Hops before it, and none comes twice.
Journey(n) ==
    /\ \A i, j \in DOMAIN hops[n] : i # j => hops[n][i] # hops[n][j]
    /\ \A i \in DOMAIN hops[n] :
         /\ hops[n][i] # n
         /\ hops[n][i] \in has
         /\ hops[hops[n][i]] = SubSeq(hops[n], 1, i - 1)
         /\ WithinLimit(hops[n][i], i)
    /\ ~ TooMany(MaxHops[n], Len(hops[n]))
    /\ n # origin => hops[n] # << >> /\ hops[n][1] = origin

\* The Hops of a stored message, complete or not, are a journey from its origin:
\* every node on it has the message, none comes twice, the node itself is not on
\* it, and it is no longer than the node's own MaxHops and than the limit of any
\* node on the way, whatever the limits are, whoever comes and goes and however
\* the transfers are interrupted.  The exception is a node whose transfer was
\* resumed by another sender: subLoop checks the Hops that Push publishes, those
\* of the last transfer (messenger.go:100, peers.go:310), pushMessage sends those
\* of the first (storage.go:125-131, peers.go:411-420), and the node forwards the
\* message although MaxHops is reached; it goes beyond it by one hop, never more.
HopsAreAJourney == \A n \in Nodes : hops[n] # NoHops => Journey(n)

Unlimited == \A n \in Nodes : MaxHops[n] = 0

\* Without a limit on the hops, every node that stays gets the message, however
\* few peers each node talks to, if the origin stays too: "This continues until
\* all nodes have a copy of the message" (README.md:154-155).  A queued push is
\* assumed to succeed in the end, and to publish the message.
EveryoneGetsIt ==
    \A n \in Nodes :
        []<>(n \in has \/ ~ Unlimited \/ ~ ({origin, n} \subseteq up))
=============================================================================
