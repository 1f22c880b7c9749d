------------------------------ MODULE Delivery -----------------------------
(***************************************************************************)
(* internal/peers.go: what a node does with its messages for one peer.     *)
(* startPeer subscribes to the notifications and starts subLoop and        *)
(* msgLoop; msgLoop compares the manifest with the peer batch by batch     *)
(* (diffAndEnqueue), then pops message after message, pushes it, and       *)
(* records the outcome in the storage (SetPeerInfo).                       *)
(*                                                                         *)
(* A loop is one startPeer of a peer with this id.  There may be two at    *)
(* once: PeerManager.tla shows that a lost peer can keep running when it   *)
(* is found again.  The inside of a push is in Push.tla, the order of the  *)
(* queue in MsgQueue.tla, the length of a delay in Backoff.tla.  A message *)
(* is its id here; Push.tla tells two messages with the same id apart.     *)
(***************************************************************************)
EXTENDS Integers, FiniteSets

CONSTANTS
    Loops,          \* the starts of the peer that may run at the same time
    Msgs,           \* the messages of the storage
    NoMsg,
    BatchSize,      \* batchSize of diffAndEnqueue
    Scopes          \* bounds, see scope

ASSUME DeliveryAssumption ==
    /\ NoMsg \notin Msgs
    /\ BatchSize \in Nat \ {0}
    /\ Scopes \subseteq [loops : SUBSET Loops, msgs : SUBSET Msgs, faults : Nat]

VARIABLES
    (* The storage of the node and its notifier. *)
    file,       \* file[m]: what the storage has of m
    info,       \* info[m]: the PeerInfo of m for the peer
    toPub,      \* toPub[m]: the calls of Pub in progress
    blocked,    \* the messages that do not pass checkHops for this peer
    (* The peer. *)
    has,        \* the complete messages that it has
    refuses,    \* the messages that it refuses for good
    (* The loops. *)
    pc,         \* pc[l]: where msgLoop is
    todo,       \* todo[l]: what the manifest has still to read
    count,      \* count[l]: the variable i of diffAndEnqueue
    batch,      \* batch[l]
    held,       \* held[l]: the messages that the peer says it has
    called,     \* called[l]: the Diff call is open
    due,        \* due[l][m]: the copies of m in the queue that are due
    later,      \* later[l][m]: those that become due at NextAttempt
    cur,        \* cur[l]: the message being pushed
    (* History and bounds. *)
    hollow,     \* hollow[l]: the manifest was left because of an empty batch
    early,      \* the messages that were published before they were complete
    mistaken,   \* those whose push ended without an error and without the message
    scope,      \* the loops and the messages of the behaviour, and how many faults:
                \* losses of the peer, failed calls, transient errors of pushes,
                \* pushes retried without rewinding, failures of SetPeerInfo,
                \* messages published before completion
    faults      \* the faults so far

store  == <<file, toPub, blocked, early>>
peer   == <<has, refuses, mistaken>>
diff   == <<todo, count, batch, held, called, hollow>>
queue  == <<due, later>>
bounds == <<scope, faults>>
vars   == <<store, info, peer, pc, diff, queue, cur, bounds>>

PeerInfo == [verdict : {"none", "sent", "fatal"}, next : {"zero", "future", "past"}]
ZeroInfo == [verdict |-> "none", next |-> "zero"]

\* The values of the variables; a message is in the hand of msgLoop exactly
\* while it is pushed, and a loop that is off has no queue.
TypeOK ==
    /\ file \in [Msgs -> {"absent", "partial", "complete", "expired", "removed"}]
    /\ info \in [Msgs -> PeerInfo]
    /\ toPub \in [Msgs -> Nat]
    /\ blocked \subseteq Msgs /\ has \subseteq Msgs /\ refuses \subseteq Msgs
    /\ pc \in [Loops -> {"off", "open", "collect", "exchange", "answer", "finish",
                     "pop", "push"}]
    /\ todo \in [Loops -> SUBSET Msgs]
    /\ count \in [Loops -> 0 .. BatchSize]
    /\ batch \in [Loops -> SUBSET Msgs]
    /\ held \in [Loops -> SUBSET Msgs]
    /\ called \in [Loops -> BOOLEAN]
    /\ due \in [Loops -> [Msgs -> Nat]]
    /\ later \in [Loops -> [Msgs -> Nat]]
    /\ cur \in [Loops -> Msgs \cup {NoMsg}]
    /\ hollow \in [Loops -> BOOLEAN]
    /\ early \subseteq Msgs /\ mistaken \subseteq Msgs
    /\ scope \in Scopes
    /\ faults \in 0 .. scope.faults
    /\ \A l \in Loops :
         /\ cur[l] # NoMsg <=> pc[l] = "push"
         /\ Cardinality(batch[l]) <= count[l]
         /\ pc[l] = "off" => \A m \in Msgs : due[l][m] + later[l][m] = 0

EmptyQueue == [m \in Msgs |-> 0]

\* Messages may be there, or at the peer, before the peer is found.  What the peer
\* does with a message that is blocked does not matter: it is never offered.
Init ==
    /\ scope \in Scopes
    /\ file \in [Msgs -> {"absent", "complete"}]
    /\ \A m \in Msgs \ scope.msgs : file[m] = "absent"
    /\ info = [m \in Msgs |-> ZeroInfo]
    /\ toPub = EmptyQueue
    /\ blocked \in SUBSET scope.msgs
    /\ has \in SUBSET (scope.msgs \ blocked)
    /\ refuses \in SUBSET (scope.msgs \ (has \cup blocked))
    /\ pc = [l \in Loops |-> "off"]
    /\ todo = [l \in Loops |-> {}]
    /\ count = [l \in Loops |-> 0]
    /\ batch = [l \in Loops |-> {}]
    /\ held = [l \in Loops |-> {}]
    /\ called = [l \in Loops |-> FALSE]
    /\ due = [l \in Loops |-> EmptyQueue]
    /\ later = [l \in Loops |-> EmptyQueue]
    /\ cur = [l \in Loops |-> NoMsg]
    /\ hollow = [l \in Loops |-> FALSE]
    /\ early = {}
    /\ mistaken = {}
    /\ faults = 0

Fault ==
    /\ faults < scope.faults
    /\ faults' = faults + 1
    /\ UNCHANGED scope

-----------------------------------------------------------------------------
(* The rest of the node, and the peer.                                     *)

\* Messenger.Push of this node closes an incomplete message without an error and
\* publishes it (see PublishedIsComplete of Push.tla).
Partial(m) ==
    /\ file[m] = "absent"
    /\ Fault
    /\ early' = early \cup {m}
    /\ file' = [file EXCEPT ![m] = "partial"]
    /\ toPub' = [toPub EXCEPT ![m] = @ + 1]
    /\ UNCHANGED <<blocked, info, peer, pc, diff, queue, cur>>

\* A message becomes complete, and is then published.
Receive(m) ==
    /\ file[m] \in {"absent", "partial"}
    /\ file' = [file EXCEPT ![m] = "complete"]
    /\ toPub' = [toPub EXCEPT ![m] = @ + 1]
    /\ UNCHANGED <<blocked, early, info, peer, pc, diff, queue, cur, bounds>>

\* The message expires; later the janitor removes its directory, the files of
\* SetPeerInfo included.
Expire(m) ==
    /\ file[m] \in {"partial", "complete"}
    /\ file' = [file EXCEPT ![m] = "expired"]
    /\ UNCHANGED <<toPub, blocked, early, info, peer, pc, diff, queue, cur, bounds>>

Janitor(m) ==
    /\ file[m] = "expired"
    /\ file' = [file EXCEPT ![m] = "removed"]
    /\ info' = [info EXCEPT ![m] = ZeroInfo]
    /\ UNCHANGED <<toPub, blocked, early, peer, pc, diff, queue, cur, bounds>>

\* The peer gets the message from someone else.
Elsewhere(m) ==
    /\ file[m] = "complete"
    /\ m \notin has \cup refuses \cup blocked
    /\ has' = has \cup {m}
    /\ UNCHANGED <<store, info, refuses, mistaken, pc, diff, queue, cur, bounds>>

\* NextAttempt of m is reached.
Wake(m) ==
    /\ info[m].next = "future" \/ \E l \in Loops : later[l][m] > 0
    /\ info' = [info EXCEPT ![m].next = IF @ = "future" THEN "past" ELSE @]
    /\ due' = [l \in Loops |-> [due[l] EXCEPT ![m] = @ + later[l][m]]]
    /\ later' = [l \in Loops |-> [later[l] EXCEPT ![m] = 0]]
    /\ UNCHANGED <<store, peer, pc, diff, cur, bounds>>

-----------------------------------------------------------------------------
(* startPeer, stopPeer and subLoop.                                        *)

\* Unsubscribed until the manifest has been read, a plausible slip.
Subscribed_AfterDiff(l) == pc[l] \in {"pop", "push"}

\* startPeer subscribes before it starts msgLoop.
Subscribed(l) == pc[l] # "off"

Start(l) ==
    /\ pc[l] = "off"
    /\ pc' = [pc EXCEPT ![l] = "open"]
    /\ UNCHANGED <<store, info, peer, diff, queue, cur, bounds>>

\* The peer is lost.  A push that is canceled ends with a transient error first.
Stop(l) ==
    /\ pc[l] \notin {"off", "push"}
    /\ Fault
    /\ pc' = [pc EXCEPT ![l] = "off"]
    /\ todo' = [todo EXCEPT ![l] = {}]
    /\ count' = [count EXCEPT ![l] = 0]
    /\ batch' = [batch EXCEPT ![l] = {}]
    /\ held' = [held EXCEPT ![l] = {}]
    /\ called' = [called EXCEPT ![l] = FALSE]
    /\ hollow' = [hollow EXCEPT ![l] = FALSE]
    /\ due' = [due EXCEPT ![l] = EmptyQueue]
    /\ later' = [later EXCEPT ![l] = EmptyQueue]
    /\ UNCHANGED <<store, info, peer, cur>>

\* Pub reaches every subscriber, and their subLoops insert m if it passes
\* checkHops.
Publish(m) ==
    /\ toPub[m] > 0
    /\ toPub' = [toPub EXCEPT ![m] = @ - 1]
    /\ due' = [l \in Loops |->
                 IF Subscribed(l) /\ m \notin blocked
                 THEN [due[l] EXCEPT ![m] = @ + 1] ELSE due[l]]
    /\ UNCHANGED <<file, blocked, early, info, peer, pc, diff, later, cur, bounds>>

-----------------------------------------------------------------------------
(* SetPeerInfo.  It fails when the directory is gone; or before it changes *)
(* the file, or after it has truncated it, which reads as the zero value.  *)
(* The step has met n faults before that.                                  *)

SetPeerInfo(m, pi, n) ==
    \/ /\ faults + n <= scope.faults
       /\ faults' = faults + n
       /\ info' = IF file[m] = "removed" THEN info ELSE [info EXCEPT ![m] = pi]
       /\ UNCHANGED scope
    \/ /\ file[m] # "removed"
       /\ faults + n < scope.faults
       /\ faults' = faults + n + 1
       /\ info' \in {info, [info EXCEPT ![m] = ZeroInfo]}
       /\ UNCHANGED scope

\* queue.Insert(next, m).
Enqueue(l, m, next) ==
    IF next = "future"
    THEN later' = [later EXCEPT ![l][m] = @ + 1] /\ UNCHANGED due
    ELSE due' = [due EXCEPT ![l][m] = @ + 1] /\ UNCHANGED later

-----------------------------------------------------------------------------
(* diffAndEnqueue.                                                         *)

\* store.Manifest: the directory has at least the messages that are there now.
Open(l) ==
    /\ pc[l] = "open"
    /\ pc' = [pc EXCEPT ![l] = "collect"]
    /\ \E more \in SUBSET {m \in Msgs : file[m] = "absent"} :
         todo' = [todo EXCEPT ![l] =
                    {m \in Msgs : file[m] \notin {"absent", "removed"}} \cup more]
    /\ count' = [count EXCEPT ![l] = 0]
    /\ batch' = [batch EXCEPT ![l] = {}]
    /\ held' = [held EXCEPT ![l] = {}]
    /\ called' = [called EXCEPT ![l] = FALSE]
    /\ hollow' = [hollow EXCEPT ![l] = FALSE]
    /\ UNCHANGED <<store, info, peer, queue, cur, bounds>>

\* A message of the batch: nothing says that the peer is done with it.
Candidate(m) == info[m].verdict = "none" /\ m \notin blocked

\* The manifest passes over what is not complete; what it yields counts, also
\* when it does not get into the batch.
Collect(l, m) ==
    /\ pc[l] = "collect"
    /\ m \in todo[l]
    /\ count[l] < BatchSize
    /\ todo' = [todo EXCEPT ![l] = @ \ {m}]
    /\ IF file[m] = "complete"
       THEN /\ count' = [count EXCEPT ![l] = @ + 1]
            /\ batch' = [batch EXCEPT ![l] = IF Candidate(m) THEN @ \cup {m} ELSE @]
       ELSE UNCHANGED <<count, batch>>
    /\ UNCHANGED <<store, info, peer, pc, held, called, hollow, queue, cur, bounds>>

\* The batch is full or the manifest is at its end: an empty batch ends the
\* loop.
EndBatch(l) ==
    /\ pc[l] = "collect"
    /\ count[l] = BatchSize \/ todo[l] = {}
    /\ pc' = [pc EXCEPT ![l] = IF batch[l] # {} THEN "exchange"
                               ELSE IF called[l] THEN "finish" ELSE "pop"]
    /\ hollow' = [hollow EXCEPT ![l] = batch[l] = {} /\ todo[l] # {}]
    /\ UNCHANGED <<store, info, peer, todo, count, batch, held, called, queue, cur, bounds>>

\* The peer answers with Exists of each message (Messenger.Diff).
Respond(l) ==
    /\ pc[l] = "exchange"
    /\ pc' = [pc EXCEPT ![l] = "answer"]
    /\ called' = [called EXCEPT ![l] = TRUE]
    /\ held' = [held EXCEPT ![l] = batch[l] \cap has]
    /\ UNCHANGED <<store, info, peer, todo, count, batch, hollow, queue, cur, bounds>>

\* The answer for m: what the peer has is recorded as sent, the rest goes into
\* the queue.
Answer(l, m) ==
    /\ pc[l] = "answer"
    /\ m \in batch[l]
    /\ batch' = [batch EXCEPT ![l] = @ \ {m}]
    /\ held' = [held EXCEPT ![l] = @ \ {m}]
    /\ IF m \in held[l]
       THEN /\ SetPeerInfo(m, [info[m] EXCEPT !.verdict = "sent"], 0)
            /\ UNCHANGED queue
       ELSE /\ Enqueue(l, m, info[m].next)
            /\ UNCHANGED <<info, bounds>>
    /\ IF batch[l] = {m}
       THEN pc' = [pc EXCEPT ![l] = "collect"] /\ count' = [count EXCEPT ![l] = 0]
       ELSE UNCHANGED <<pc, count>>
    /\ UNCHANGED <<store, peer, todo, called, hollow, cur>>

Finish(l) ==
    /\ pc[l] = "finish"
    /\ pc' = [pc EXCEPT ![l] = "pop"]
    /\ UNCHANGED <<store, info, peer, diff, queue, cur, bounds>>

\* A plausible slip: msgLoop does not try again.
DiffFails_GivesUp(l) ==
    /\ pc[l] \in {"open", "exchange", "finish"}
    /\ Fault
    /\ pc' = [pc EXCEPT ![l] = "pop"]
    /\ UNCHANGED <<store, info, peer, diff, queue, cur>>

\* Manifest or the Diff call fails, and msgLoop tries again; what was inserted
\* stays in the queue.
DiffFails(l) ==
    /\ pc[l] \in {"open", "exchange", "finish"}
    /\ Fault
    /\ pc' = [pc EXCEPT ![l] = "open"]
    /\ UNCHANGED <<store, info, peer, diff, queue, cur>>

-----------------------------------------------------------------------------
(* The rest of msgLoop.                                                    *)

\* A plausible slip: the PeerInfo is not read again.
Pop_Trusting(l, m) ==
    /\ pc[l] = "pop"
    /\ due[l][m] > 0
    /\ pc' = [pc EXCEPT ![l] = "push"]
    /\ cur' = [cur EXCEPT ![l] = m]
    /\ due' = [due EXCEPT ![l][m] = @ - 1]
    /\ UNCHANGED <<store, info, peer, diff, later, bounds>>

\* A message comes out of the queue.  It is dropped if there is nothing to do,
\* and goes back if it has to wait.
Pop(l, m) ==
    /\ pc[l] = "pop"
    /\ due[l][m] > 0
    /\ due' = [due EXCEPT ![l][m] = @ - 1]
    /\ \/ /\ info[m].verdict # "none"
          /\ UNCHANGED <<pc, cur, later>>
       \/ /\ info[m].verdict = "none" /\ info[m].next = "future"
          /\ later' = [later EXCEPT ![l][m] = @ + 1]
          /\ UNCHANGED <<pc, cur>>
       \/ /\ info[m].verdict = "none" /\ info[m].next # "future"
          /\ pc' = [pc EXCEPT ![l] = "push"]
          /\ cur' = [cur EXCEPT ![l] = m]
          /\ UNCHANGED later
    /\ UNCHANGED <<store, info, peer, diff, bounds>>

\* msgLoop goes on with pi as the new PeerInfo, after n faults.
Record(l, pi, n) ==
    /\ SetPeerInfo(cur[l], pi, n)
    /\ pc' = [pc EXCEPT ![l] = "pop"]
    /\ cur' = [cur EXCEPT ![l] = NoMsg]
    /\ UNCHANGED <<store, refuses, diff>>

\* The push ends without an error, or the peer has the message already
\* (ErrAlreadySeen).  After a call that backoff repeats, the reader is not rewound:
\* the second one sends what the first has left, and the peer may take it without
\* an error although it does not get the message (see SentIsStored of Push.tla).
Sent(l) ==
    /\ pc[l] = "push"
    /\ file[cur[l]] = "complete"
    /\ cur[l] \notin refuses
    /\ \/ /\ has' = has \cup {cur[l]}
          /\ UNCHANGED mistaken
          /\ Record(l, [verdict |-> "sent", next |-> info[cur[l]].next], 0)
       \/ /\ cur[l] \notin has
          /\ mistaken' = mistaken \cup {cur[l]}
          /\ UNCHANGED has
          /\ Record(l, [verdict |-> "sent", next |-> info[cur[l]].next], 1)
    /\ UNCHANGED queue

\* A plausible slip: an error that is not in the list is taken for a fatal one.
Fatal_Always(l) ==
    /\ pc[l] = "push"
    /\ Record(l, [verdict |-> "fatal", next |-> info[cur[l]].next], 0)
    /\ UNCHANGED <<has, mistaken, queue>>

\* One of the errors that msgLoop does not retry: the peer refuses the message,
\* or it is not complete, or not there any more, or expired.
Fatal(l) ==
    /\ pc[l] = "push"
    /\ cur[l] \in refuses \/ file[cur[l]] # "complete"
    /\ Record(l, [verdict |-> "fatal", next |-> info[cur[l]].next], 0)
    /\ UNCHANGED <<has, mistaken, queue>>

\* Any other error; the peer may have got the message all the same.  The
\* message is to be sent again after the backoff.
Transient(l) ==
    /\ pc[l] = "push"
    /\ has' \in {has} \cup
                (IF file[cur[l]] = "complete" /\ cur[l] \notin refuses
                 THEN {has \cup {cur[l]}} ELSE {})
    /\ Enqueue(l, cur[l], "future")
    /\ Record(l, [verdict |-> "none", next |-> "future"], 1)
    /\ UNCHANGED mistaken

-----------------------------------------------------------------------------
Environment(m) ==
    /\ m \in scope.msgs
    /\ Partial(m) \/ Receive(m) \/ Expire(m) \/ Janitor(m) \/ Elsewhere(m)

MsgLoop(l) ==
    \/ Open(l) \/ EndBatch(l) \/ Respond(l) \/ Finish(l)
    \/ Sent(l) \/ Fatal(l)
    \/ \E m \in Msgs : Collect(l, m) \/ Answer(l, m) \/ Pop(l, m)

Next ==
    \/ \E m \in Msgs : Environment(m) \/ Publish(m) \/ Wake(m)
    \/ \E l \in scope.loops : Start(l) \/ Stop(l) \/ MsgLoop(l) \/ DiffFails(l) \/ Transient(l)

Spec == Init /\ [][Next]_vars

\* Go runs the goroutines; time passes; a push ends with some result.  A peer
\* that is selected and was stopped is started again (checkActivePeers).
FairSpec ==
    /\ Spec
    /\ WF_vars(\E m \in Msgs : Publish(m) \/ Wake(m))
    /\ \A l \in Loops : WF_vars(l \in scope.loops /\ (Start(l) \/ MsgLoop(l)))

-----------------------------------------------------------------------------
\* What the loop has still to do for m.
Copies(l, m) == due[l][m] + later[l][m] + (IF cur[l] = m THEN 1 ELSE 0)

\* A message that the peer should get: it is complete, its publication is over,
\* and neither the peer nor the PeerInfo has settled it, nor a push that ended
\* without an error.
Owed(m) ==
    /\ file[m] = "complete" /\ toPub[m] = 0
    /\ Candidate(m)
    /\ m \notin has \cup refuses \cup mistaken

\* With one loop, after diffAndEnqueue, every message that is owed to the peer is in
\* the queue or being pushed, whether it was there before the peer, or came while the
\* manifest was read, or failed before.  One case is left out: a whole batch of
\* the manifest that has nothing for the peer ends the comparison
\* (peers.go:538), and what is behind it is not offered until the next start,
\* although "all the existing messages are added to the send queue of this
\* peer" (README.md:134-135).
NothingIsForgotten ==
    \A l \in Loops : \A m \in Msgs :
        scope.loops = {l} /\ pc[l] \in {"pop", "push"} /\ ~ hollow[l] /\ Owed(m)
          => Copies(l, m) > 0

\* What msgLoop records is so, also when answers are lost, PeerInfo files are
\* damaged and two loops push the same message: a message that is recorded as
\* sent is at the peer, and FatalError is recorded only for one that the peer
\* refuses or that has expired.  There are two exceptions, and no others.  Sent is
\* recorded without the message when a call of Push was repeated without rewinding
\* the reader (peers.go:428-432, 359-360).  FatalError is recorded for a message
\* that was published before it was complete: it outlives the completion of the
\* message (peers.go:388-389), and the peer never gets it from here.
VerdictsAreTrue ==
    \A m \in Msgs :
        /\ info[m].verdict = "sent" => m \in has \cup mistaken
        /\ info[m].verdict = "fatal" /\ file[m] = "complete" => m \in refuses \cup early

\* With one loop, a verdict stays as long as the message does: no later attempt,
\* of a second copy in the queue or after a restart, overwrites it.
VerdictStays ==
    [][\A l \in Loops : \A m \in Msgs :
         /\ scope.loops = {l}
         /\ info[m].verdict # "none" /\ file'[m] # "removed"
         => info'[m].verdict = info[m].verdict]_vars

\* Every complete message reaches the peer, or is refused, or expires, while the
\* peer is lost and found, calls fail and PeerInfo files are damaged; unless one
\* of the three cases above has come up: an empty batch, a publication before
\* completion, a push repeated without rewinding.
EveryMessageIsDelivered ==
    \A m \in Msgs :
        file[m] = "complete"
          ~> \/ m \in has \cup refuses \cup blocked \cup early \cup mistaken
             \/ file[m] # "complete"
             \/ \E l \in Loops : hollow[l]
=============================================================================
