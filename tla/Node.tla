-------------------------------- MODULE Node -------------------------------
(***************************************************************************)
(* internal/server.go: the life of a node.  StartNode starts the notifier, *)
(* the server and, for every discovery it is configured with, a goroutine  *)
(* that advertises the endpoints of the server and a peer manager; it may  *)
(* fail at every step.  Stop cancels the context and waits for them.       *)
(*                                                                         *)
(* The notifier is what PubSub shows it to be, with one subscriber, the    *)
(* loop of the application.  Server, discovery and contexts are external.  *)
(***************************************************************************)
EXTENDS Integers, Sequences, FiniteSets

CONSTANTS
    Configs,    \* the ways to run the process, see config
    Addrs,      \* the addresses that the server may listen on
    BufCap,     \* the capacity of the channel of a subscriber (10 in the code)
    MaxDiscs    \* bound: the discoveries of a node

\* How the process is run: the command, the number of discoveries (the local one
\* and the global paths), the kinds of the messages in the storage and of those
\* that come, and a bound for errors, inputs and changes of endpoints together.
Config(app, discs, old, inputs, events) ==
    [app |-> app, discs |-> discs, old |-> old, inputs |-> inputs, events |-> events]

\* What a message is to the applications: commands, their answers, the rest.
MessageKinds == {"ping", "pong", "text", "file", "talk", "hush"}

ASSUME NodeAssumption ==
    /\ \A c \in Configs :
         /\ c = Config(c.app, c.discs, c.old, c.inputs, c.events)
         /\ c.app \in {"node", "robot", "chat"}
         /\ c.discs \in 0 .. MaxDiscs
         /\ c.old \in Seq(MessageKinds) /\ c.inputs \subseteq MessageKinds
         /\ c.events \in Nat
    /\ Addrs # {}
    /\ {BufCap, MaxDiscs} \subseteq Nat

VARIABLES
    config,     \* how the process is run
    npc,        \* where the goroutine is that calls StartNode and Stop
    next,       \* the discovery that StartNode is about to start
    parent,     \* the context that StartNode was given is done
    canceled,   \* the context of the node is done
    addr,       \* the addresses of the server
    changes,    \* how often they have changed: what closes status.Dirty
    adv,        \* adv[d]: [pc, seen, addr], the goroutine of advertise
    onair,      \* onair[d]: the addresses that discovery d is advertising
    pm,         \* pm[d]: the peer manager
    ps,         \* readLoop of the notifier
    relay,      \* the message for which it finds no room, 0 if none
    sub,        \* the subscription of the application
    chan,       \* its channel
    errors,     \* the errors so far
    events      \* the errors, inputs and changes of endpoints so far

startVars == <<config, npc, next>>
app == config.app
discs == config.discs
discVars == <<adv, onair, pm>>
epVars == <<addr, changes>>
psVars == <<ps, relay, sub, chan>>
nodeVars == <<startVars, parent, canceled, epVars, discVars, psVars, errors,
              events>>

Discs == 1 .. MaxDiscs

\* The state of a goroutine of advertise that was not started.
NotStarted == [pc |-> "none", seen |-> 0, addr |-> addr]

NodeInit ==
    /\ config \in Configs
    /\ npc = "start"
    /\ next = 1
    /\ parent = FALSE
    /\ canceled = FALSE
    /\ addr = CHOOSE a \in Addrs : TRUE
    /\ changes = 0
    /\ adv = [d \in Discs |-> NotStarted]
    /\ onair = [d \in Discs |-> {}]
    /\ pm = [d \in Discs |-> "none"]
    /\ ps = "none"
    /\ relay = 0
    /\ sub = "no"
    /\ chan = << >>
    /\ errors = 0
    /\ events = 0

Event ==
    /\ events < config.events
    /\ events' = events + 1

Error ==
    /\ Event
    /\ errors' = errors + 1

NoError == UNCHANGED <<errors, events>>

-----------------------------------------------------------------------------
(* StartNode.                                                              *)

\* newPubSub; then the id of the advertisement and the server, whose errors
\* return with the notifier running.
StartNotifier ==
    /\ npc = "start"
    /\ ps' = "running"
    /\ \/ npc' = "disc" /\ NoError
       \/ npc' = "failed" /\ Error
    /\ UNCHANGED <<config, next, parent, canceled, epVars, discVars, relay, sub,
                   chan>>

\* startDiscovery: the discovery cannot be created.
NewDiscoveryError ==
    /\ npc = "disc"
    /\ next <= discs
    /\ npc' = "failed"
    /\ Error
    /\ UNCHANGED <<config, next, parent, canceled, epVars, discVars, psVars>>

\* startDiscovery: advertise.
StartAdvertise ==
    /\ npc = "disc"
    /\ next <= discs
    /\ npc' = "scan"
    /\ adv' = [adv EXCEPT ![next].pc = "status"]
    /\ UNCHANGED <<config, next, parent, canceled, epVars, onair, pm, psVars,
                   errors, events>>

\* startDiscovery: Scan and the peer manager.
StartScan ==
    /\ npc = "scan"
    /\ \/ /\ npc' = "disc"
          /\ next' = next + 1
          /\ pm' = [pm EXCEPT ![next] = "running"]
          /\ NoError
       \/ /\ npc' = "failed"
          /\ Error
          /\ UNCHANGED <<next, pm>>
    /\ UNCHANGED <<config, parent, canceled, epVars, adv, onair, psVars>>

\* StartNode returns the node.
Started ==
    /\ npc = "disc"
    /\ next > discs
    /\ npc' = "run"
    /\ UNCHANGED <<config, next, parent, canceled, epVars, discVars, psVars,
                   errors, events>>

StartNode ==
    \/ StartNotifier
    \/ NewDiscoveryError
    \/ StartAdvertise
    \/ StartScan
    \/ Started

-----------------------------------------------------------------------------
(* Stop.                                                                   *)

\* Stop cancels the context.
Stop ==
    /\ npc = "run"
    /\ npc' = "stop"
    /\ canceled' = TRUE
    /\ UNCHANGED <<config, next, parent, epVars, discVars, psVars, errors, events>>

\* Everything that Stop waits for has ended.
Done(d) == adv[d].pc = "end" /\ pm[d] = "done"

\* It waits for the notifier, the advertisements and the peer managers.  The
\* order does not matter; nobody waits for the server.
StopReturns ==
    /\ npc = "stop"
    /\ ps = "done"
    /\ \A d \in 1 .. discs : Done(d)
    /\ npc' = "stopped"
    /\ UNCHANGED <<config, next, parent, canceled, epVars, discVars, psVars,
                   errors, events>>

\* The context that StartNode was given is done, and the node's with it.  That of
\* an application is done when its command has returned.
ParentDone ==
    /\ npc # "start"
    /\ ~ parent
    /\ app # "node" => npc \in {"failed", "stopped"}
    /\ parent' = TRUE
    /\ canceled' = TRUE
    /\ UNCHANGED <<startVars, epVars, discVars, psVars, errors, events>>

-----------------------------------------------------------------------------
(* The goroutine of advertise.                                             *)

AdvGoes(d, from, to) ==
    /\ adv[d].pc = from
    /\ adv' = [adv EXCEPT ![d].pc = to]

\* The first status; the advertisement is made from it.
AdvStatus(d) ==
    /\ adv[d].pc = "status"
    /\ adv' = [adv EXCEPT ![d] = [pc |-> "advertise", seen |-> changes, addr |-> addr]]
    /\ UNCHANGED <<startVars, parent, canceled, epVars, onair, pm, psVars, errors, events>>

\* disc.Advertise.
Advertise(d) ==
    /\ AdvGoes(d, "advertise", "select")
    /\ onair' = [onair EXCEPT ![d] = @ \cup {adv[d].addr}]
    /\ UNCHANGED <<startVars, parent, canceled, epVars, pm, psVars, errors, events>>

\* A plausible slip: the wait does not watch the context.
AdvertiseError_NoDone(d) ==
    /\ AdvGoes(d, "advertise", "retry")
    /\ IF canceled THEN NoError ELSE Error
    /\ UNCHANGED <<startVars, parent, canceled, epVars, onair, pm, psVars>>

\* disc.Advertise fails, as it always may once the context is done: then the
\* wait ends at once, and the loop with it.
AdvertiseError(d) ==
    /\ IF canceled THEN AdvGoes(d, "advertise", "end") /\ NoError
       ELSE AdvGoes(d, "advertise", "retry") /\ Error
    /\ UNCHANGED <<startVars, parent, canceled, epVars, onair, pm, psVars>>

\* Ten seconds later, or at the end of the context.
AdvRetry(d) ==
    /\ \/ AdvGoes(d, "retry", "advertise")
       \/ canceled /\ AdvGoes(d, "retry", "end")
    /\ UNCHANGED <<startVars, parent, canceled, epVars, onair, pm, psVars, errors, events>>

\* The select: the context is done.
AdvCanceled(d) ==
    /\ canceled
    /\ AdvGoes(d, "select", "exit")
    /\ UNCHANGED <<startVars, parent, canceled, epVars, onair, pm, psVars, errors, events>>

\* A plausible slip: the status is read before Dirty is waited for.
AdvDirty_Stale(d) ==
    /\ adv[d].pc = "select"
    /\ adv[d].seen < changes
    /\ adv' = [adv EXCEPT ![d].seen = changes]
    /\ UNCHANGED <<startVars, parent, canceled, epVars, onair, pm, psVars, errors, events>>

\* The select: the status that was read is dirty.  The advertisement is only
\* restarted when the addresses are others.
AdvDirty(d) ==
    /\ adv[d].pc = "select"
    /\ adv[d].seen < changes
    /\ adv' = [adv EXCEPT ![d] = [pc |-> IF addr = @.addr THEN "select" ELSE "change",
                                  seen |-> changes, addr |-> addr]]
    /\ UNCHANGED <<startVars, parent, canceled, epVars, onair, pm, psVars, errors, events>>

\* A plausible slip: the goroutine does not wait for adDone.
AdvWithdrawn_NoWait(d) ==
    /\ \/ AdvGoes(d, "change", "advertise")
       \/ AdvGoes(d, "exit", "end")
    /\ UNCHANGED <<startVars, parent, canceled, epVars, onair, pm, psVars, errors, events>>

\* adCancel was called; adDone is closed.
AdvWithdrawn(d) ==
    /\ onair[d] = {}
    /\ \/ AdvGoes(d, "change", "advertise")
       \/ AdvGoes(d, "exit", "end")
    /\ UNCHANGED <<startVars, parent, canceled, epVars, onair, pm, psVars, errors, events>>

advertise(d) ==
    \/ AdvStatus(d)
    \/ Advertise(d)
    \/ AdvertiseError(d)
    \/ AdvRetry(d)
    \/ AdvCanceled(d)
    \/ AdvDirty(d)
    \/ AdvWithdrawn(d)

-----------------------------------------------------------------------------
(* The environment: server, discovery, peer manager.                       *)

\* The server has other endpoints; their addresses may be the same.
EndpointsChange ==
    /\ Event
    /\ \E d \in Discs : adv[d].pc \notin {"none", "status"}
    /\ changes' = changes + 1
    /\ addr' \in Addrs
    /\ UNCHANGED <<startVars, parent, canceled, discVars, psVars, errors>>

\* The discovery stops an advertisement whose context is done, then adDone.
Withdraw(d) ==
    /\ onair[d] # {}
    /\ canceled \/ adv[d].pc \in {"change", "exit"}
    /\ onair' = [onair EXCEPT ![d] = {}]
    /\ UNCHANGED <<startVars, parent, canceled, epVars, adv, pm, psVars, errors, events>>

\* The scan ends with the context; so does the peer manager (PeerManager).
PeerManagerEnds(d) ==
    /\ pm[d] = "running"
    /\ canceled
    /\ pm' = [pm EXCEPT ![d] = "done"]
    /\ UNCHANGED <<startVars, parent, canceled, epVars, adv, onair, psVars, errors, events>>

-----------------------------------------------------------------------------
(* The notifier, as PubSub has it.                                         *)

\* readLoop takes message n from Pub, for those who have subscribed.
Takes(n) ==
    /\ ps = "running"
    /\ relay = 0
    /\ IF sub # "open" THEN UNCHANGED <<chan, relay>>
       ELSE IF Len(chan) < BufCap THEN chan' = Append(chan, n) /\ UNCHANGED relay
       ELSE relay' = n /\ UNCHANGED chan
    /\ UNCHANGED <<startVars, parent, canceled, epVars, discVars, ps, sub, errors, events>>

\* readLoop has found room in the channel of the application.
Relay ==
    /\ relay # 0
    /\ Len(chan) < BufCap
    /\ chan' = Append(chan, relay)
    /\ relay' = 0
    /\ UNCHANGED <<startVars, parent, canceled, epVars, discVars, ps, sub, errors, events>>

\* It does not wait for room once the context is done.
RelaySkips ==
    /\ relay # 0
    /\ canceled
    /\ relay' = 0
    /\ UNCHANGED <<startVars, parent, canceled, epVars, discVars, ps, sub, chan,
                   errors, events>>

\* It ends, and closes the channels of those who have subscribed.
NotifierEnds ==
    /\ ps = "running"
    /\ relay = 0
    /\ canceled
    /\ ps' = "done"
    /\ sub' = IF sub = "open" THEN "closed" ELSE sub
    /\ UNCHANGED <<startVars, parent, canceled, epVars, discVars, relay, chan, errors, events>>

readLoop == Relay \/ RelaySkips \/ NotifierEnds

NodeNext ==
    \/ StartNode
    \/ StopReturns
    \/ ParentDone
    \/ EndpointsChange
    \/ \E d \in Discs : advertise(d) \/ Withdraw(d) \/ PeerManagerEnds(d)
    \/ readLoop
=============================================================================
