# Verification of the Vanadium messenger

TLA+ specifications of the messenger in `src/` (Go): a store-and-forward
network in which every node keeps messages in a directory, finds peers through
discovery, and pushes every message to the peers it has chosen. The modules
are checked with TLC on small instances; the safety of all of them, from the
storage and the transfer to the peer manager and the process of the
applications, is also proved with TLAPS for every instance.

Paths below are relative to `src/`; `peers.go`, `storage.go`, `messenger.go`,
`pubsub.go`, `queue.go`, `server.go` and `rateacl.go` are in `internal/`;
`chat.go`, `robot.go` and `main.go` are in `vmsg/`.

## 1. Inventory

| Component | State | Operations | Interacts with | What makes it correct |
|---|---|---|---|---|
| Messenger storage (`storage.go`) | one directory per message: `message`, `content`, `done`, `peer-*`; `busy` in memory | OpenWrite, Write, Close, OpenRead, Offset, Exists, Manifest, SetPeerInfo, PeerInfo; the janitor goroutine | used by all others; shared with every RPC handler and every peer | `done` means the content was verified; one writer per id; a transfer that is resumed continues what is on disk |
| Messenger service (`messenger.go`) | none of its own | Push, ResumeOffset, Diff; Manifest, Pull | storage; notifier | a message is reported as received exactly when it is complete |
| Push client (`peers.go`: pushMessage, doPush, backoff) | reader `r`, `offset` | push, resume, retry | RPC to the service of a peer | "sent" means stored by the peer; progress after failures |
| Delivery (`peers.go`: msgLoop, subLoop, diffAndEnqueue) | queue, PeerInfo on disk | compare, enqueue, pop, record | storage, notifier, queue, push client | no message is forgotten; verdicts are true and final |
| Message queue (`queue.go`) | sorted list, `recheckChan` | Insert, Pop, Len | subLoop and msgLoop | order, no loss, no lost wake-up |
| Notifier (`pubsub.go`) | subscriber channels, mutex | Pub, Sub, Unsub, readLoop | service, peers, chat, robot | all subscribers see the same messages; nobody blocks for ever |
| Peer Manager (`peers.go`: peerManager) | `peers`, the fields of each peer | loop, processDiscoveryUpdate, checkActivePeers, startPeer, stopPeer, removePeer | discovery; starts the goroutines of delivery | what runs is what is listed; limits; shutdown |
| Peer selection (`peers.go`: checkActivePeers) | - | the ring algorithm | Peer Manager | bounded, and everybody is reached |
| Propagation (the network) | `Hops` of the copies | checkHops, pushMessage, Push | all nodes | Hops are a path; limits hold, also after resumed transfers; the message reaches everyone |
| Node (`server.go`) | contexts, the channels `done`, the status of the server | StartNode, startDiscovery, advertise, Stop | all of the above; discovery | what was started ends, also after an error; the advertisement follows the endpoints |
| Access lists (`rateacl.go`) | one counter per entry | Authorize | service and client | the limit, a rate in calls per second taken over the last minute, although calls are concurrent; a peer that is refused gets in later |
| Message (`ifc/message.go`) | immutable | Hash, Validate, Expired | service, storage | - |
| Chat (`chat.go`) | the loop of the app, the user interface; a temporary file per message sent; the incoming files | sendMessage, handleMessage, history, loop, handleInput | storage, notifier, node | every message is shown; files are whole; nothing is left behind |
| Robot (`robot.go`) | `talkChan`, the talkers | talk, hush, the loop | chat, notifier, node | `!hush` stops the talkers; no answers to answers |
| Command line (`main.go`), encryption | flags, keys | runNode, runChat, runRobot | node | - |
| Generated code (`*.vdl.go`), scripts | - | - | - | - |

What is hard to test here: the storage is used without its lock by readers and
by the janitor, and must survive crashes between any two file operations; RPC
streams break while the handler at the other end goes on; retries repeat what
was half done; goroutines share channels and pointers that other goroutines
close or set to nil; a message travels through the manifest, the notifier and
the retries at the same time; an application publishes from the goroutine that
receives; endpoints change while they are being advertised. `PROJECT.json` lists
the hazards at their lines.

## 2. Modules

| Module | Models | Extends |
|---|---|---|
| `FileStorage` | `storage.go`, one step per file operation, with I/O errors and crashes | - |
| `Push` | the transfer of a message: `peers.go` 409-490 against `messenger.go` 42-111 | `FileStorage` (composition) |
| `Delivery` | msgLoop, subLoop, diffAndEnqueue; Diff, Manifest and PeerInfo as they use them | - |
| `TimedQueue` | abstract: what a queue of messages with times promises | - |
| `MsgQueue` | `queue.go`; implements `TimedQueue` | instance of `TimedQueue` |
| `Broadcast` | abstract: what the notifier promises its subscribers | - |
| `PubSub` | `pubsub.go`; implements `Broadcast` | instance of `Broadcast` |
| `ActivePeers` | the ring algorithm of checkActivePeers, as operators | - |
| `PeerManager` | peerManager and the life of the goroutines of a peer | `ActivePeers` |
| `Gossip` | one message among many nodes | `ActivePeers` |
| `Backoff` | the three delays of `peers.go`, in machine arithmetic, as operators | - |
| `RateAcl` | `rateacl.go`: both lists of Push, with concurrent calls and retries | `Backoff` |
| `Node` | `server.go`: StartNode, advertise, Stop | - |
| `Chat` | `chat.go` on a node | `Node` (composition) |
| `Robot` | `robot.go`; with `Chat` and `Node`, the whole process | `Chat` (composition) |
| `StorageProofs` | the proofs about `FileStorage` and `Push` | `Push` |
| `RobotProofs` | the proofs about the process: `Node`, `Chat` and `Robot` | `Robot` |
| `DeliveryProofs`, `MsgQueueProofs`, `PubSubProofs`, `GossipProofs`, `RateAclProofs`, `PeerManagerProofs` | the proofs about the module of the name | that module |
| `MC*` | definitions for TLC | the module of the name |

**FileStorage.** `dir`, `files`, `content`, `synced`, `meta` and `info` are the
disk, `busy` is the map of the lock. A handler (`pc`, `hm`, `hfile`, `hlink`,
`hsum`) is a goroutine between OpenWrite and Close; the steps of OpenWrite,
Close and OpenRead are separate actions wherever another goroutine, the janitor
or a crash can come in between. `hlink` tells whether the open file is still
the one in the directory (the janitor may have unlinked it). Contents are
sequences of chunks; the hash is the sequence that was hashed (`hsum`), and
Hash of a message is its identity, that is, SHA-256 has no collisions.
`Crash` keeps of each content at least what was synced, and may empty the
metadata and the delivery records, which are never synced. It keeps the names
in a directory: that a file which was created, `done` among them, is still there
after a crash is an assumption about the filesystem, since `storage.go` syncs no
directory. The handlers in `Local` are local senders (sendMessage of the chat),
which may return without Close (`Abandon`, to `leaked`). `expired` grows with
time.

**Push.** Senders run pushMessage with its reader position, offset and result;
a handler serves one call with the chunks on their way (`hin`) and the end of
the stream (`hend`). `Break` cuts a connection at any moment: the sender learns
it at once, the handler when it reads. Refusals (ACL, rate limit, I/O errors)
and crashes of the server are bounded. `ImplementsFileStorage` says that every
step of the composition is a step of `FileStorage` or leaves it alone, so what
is proved of `FileStorage` holds of the node that serves Push.

**Delivery.** One peer. `file[m]` is what the storage has of a message, `info`
the PeerInfo on disk, `pc` the place of msgLoop; the queue is a count of copies
that are due and of copies that wait for NextAttempt (their order is the
business of `MsgQueue`). A message is its id here: that the peer has it means
that it has a complete message with the id (`Push` tells them apart). `scope`,
chosen at the start, says which loops and messages take part and how many faults
there may be in all (a loss of the peer, a failed call, a push without an
answer, a damaged PeerInfo, an early publication, a push repeated without
rewinding), so that one run has a few instances of different shapes. A push is
one step with one of the three outcomes that msgLoop distinguishes; one without
an error may leave the peer without the message (`mistaken`), as `Push` shows.
SetPeerInfo may fail before or after it truncates its file. NumAttempts only
determines the delay (`Backoff`) and the error counter (an input of
`PeerManager`).

**PeerManager.** A peer object is a pair of an id and a number, since a peer
that is lost and found is a new object. Every startPeer has a number that
stands for the context, the queue, the channel and the two goroutines it makes;
`cur[p]` is the number whose fields the object holds. `loop` is one goroutine:
stopPeer is two steps, the cancel and the wait for `done`. checkActivePeers
visits the peers once, in the order of their ids, and starts or stops each in
its turn, so that some may be started before others are stopped. removePeer
visits the peers in any order, as Go's `range` does. The end of the node's
context (`ContextDone`) cancels every start, also those that loop makes
afterwards; loop itself only stops the peers, when discovery closes its channel
(`Closed`).

**PubSub**, **MsgQueue**: one action per statement at which another goroutine
may run; the mutex is held across the fan-out of readLoop. `Echo` subscribers
publish from the goroutine that receives, as the robot and the chat do. Unsub
holds the mutex while it deletes, closes and drains the channel (`draining`);
the receiver needs no mutex and takes elements between those that the drain
takes.

**Gossip**: a push is one step, or an interrupted transfer and a later one. The
first transfer stores the metadata with its Hops, and no later one replaces them
(Hash leaves the Hops out); the one that completes the message publishes its
own, and subLoop checks those. Nodes appear and disappear with their storage.

**RateAcl, Backoff.** A call asks RateAclIn, and a Push then RateAclSender.
Authorize reads the rate in one step and increments in another. The counter is a
library: `recent` has the ages of the calls in its window, and `Tick` makes them
older and drops those that leave the window. Rate1m is a rate per second, so the
number of calls in the window (`Count`) by its seconds (`Steps`), and is compared
with a limit in calls per second (`limit / Scale`, since it may be a fraction);
`Exceeded` does so without the division. The window is taken as full from the
start; a library that divides by the shorter time since its start would refuse
earlier. A caller that is refused for the rate
is in `wait` until backoff is over and then makes the whole call again. The
length of the delays is a function of the attempt (`Delay`), with a word of four
limbs of 16 bits, because TLC's integers have 32; it is compared with what the
comments announce (`Announced`).

**Node.** `npc` is the goroutine that calls StartNode and Stop; every call in
StartNode that may fail has an alternative that ends in `failed`, with what has
been started left running. `adv[d]` is the goroutine of advertise for one
discovery: `seen` tells which status it has read (so whether its Dirty channel
is closed), `onair[d]` what the discovery advertises. `parent` is the context of
the caller, `canceled` that of the node. The notifier has one subscriber here:
`chan` is its channel, `relay` the message for which readLoop waits, with the
mutex held.

**Chat, Robot.** A message is its number, with a kind (text, ping, pong, file,
and the commands of the robot) and the message it answers. Each thread (the loop
of the app, the user interface, the talkers of the robot, a handler of Push) has
its own place in sendMessage (`spc`): the message is locked and copied, then
published. Of encryptChatMessage, NewMessageFromFile, Sign and OpenWrite the
model keeps the file, the lock and the errors. All attachments have one name in
the directory of incoming files (`saved`), since other names do not interfere.
A talker reads the shared `talkChan` anew each time it enters its select.

## 3. Runs

| Run | Instance | Shows |
|---|---|---|
| `storage_safety` | 2 messages with one id, 2 handlers, 1 reader, 1 peer record, 1 crash; handlers may be local senders | LockDiscipline, DoneMeansVerified, ReadersSeeVerifiedContent, CompleteIsFinal, TransferOnlyAppends |
| `storage_progress` | 2 messages with one id, 2 handlers, of which one is a local sender, 1 crash, contents that may be too long | LockIsReleased, ExpiredIsRemoved |
| `push_safety` | 2 senders of different messages with one id, 2 handlers, 1 break, 1 error, 1 crash | SentIsStored, PublishedIsComplete, CompleteIsPublished, ContentIsPrefix, ImplementsFileStorage |
| `push_progress` | 1 sender, 2 handlers (a broken call leaves one behind with the same message), 2 breaks, 2 errors, 1 crash | EventuallyStored |
| `pubsub` | 1 publisher, 2 channels of capacities 1 and 2, of which the first publishes too, 3 messages | ImplementsBroadcast, PubReturns, StopEnds |
| `queue` | 2 inserters, 3 elements; the sleep of a minute is longer than the run, so progress comes from the signal | ImplementsTimedQueue, EveryElementIsPopped, PopEnds |
| `peers` | 2 ids, 2 objects each, 1 active peer, 3 starts, 3 updates | AtMostMaxActive, EndsAfterPeers, ChosenIsStarted, StopEndsAll |
| `gossip` | 4 nodes, 1 or 2 active peers each, no limit on the hops or limits 1, 2, 2 and none, any initial subset and any origin, 1 update, 1 interrupted transfer | HopsAreAJourney, EveryoneGetsIt |
| `delivery` | batches of 1, and three scopes: 2 messages, 1 fault; 1 message, 3 faults; 1 message, 2 loops of the same peer, 1 fault | NothingIsForgotten, VerdictsAreTrue, VerdictStays, EveryMessageIsDelivered |
| `admission` | 2 peers that push (one of them counted for its attempts), the node itself, a stranger; limits of 0, of 1 call per second and of 1 in 3 seconds, a window of 2 seconds, 3 calls of the others; delays for ints of 64 and of 32 bits, every random value, attempts up to 40 | BoundedOvershoot, AdmittedInTheEnd, DelayAsAnnounced |
| `process` | a node with 1 discovery and 3 events, or 2 discoveries and 1 event; the robot with 2 talkers; the chat with and without stored messages (events: errors, inputs, changes of the endpoints); a channel of capacity 1 | EverythingEnds, OneAdvertisement, AdvertisedIsCurrent, EveryMessageIsShown, FileIsWhole, NothingLeftBehind, PongsAreBounded, TalkersListen |
| `lost_is_stopped` | 2 ids, 2 objects each, no limit of active peers | a violation: removePeer may leave the lost peer running, and stops the others (`peers.go:243`, under `findings` in `PROJECT.json`) |

Each module has one `TypeOK`, which documents the values of its variables. No run
checks it for its own sake; where an inductive invariant needs it, as most do,
it is proved as a part of that.

**Refinement.** Three runs check a detailed specification against an abstract
one:

- `ImplementsBroadcast`: the notifier, with its mutex, its channels and the
  steps of readLoop, is a `Broadcast`: messages have one order, a subscriber
  receives the later ones once, in that order and without a gap; nothing is sent
  to a channel that was closed. While Unsub drains a channel, its receiver may
  still get some of what was in it, with gaps, but nothing published later.
  Messages are ordered when readLoop takes them.
- `ImplementsTimedQueue`: the sorted list with the goroutine of Pop hands out
  the earliest element, equal times in the order of insertion, none before its
  time and none twice, and loses none before it is canceled.
- `ImplementsFileStorage`: see `Push`.

**Exceptions.** Some properties are stated around a case in which the code does
not do what a comment or the README of the repository says. The comment of the
property names the case, and the property shows that nothing else goes wrong:

| Property | Except for | Where |
|---|---|---|
| SentIsStored, PublishedIsComplete | after Busy or a rate limit, backoff repeats doPush with the reader at its end: an empty stream, a normal end, and the message is published, and recorded as sent (`rewound`) | `peers.go:428`, `messenger.go:95` |
| SentIsStored | AlreadySeen is answered before the hashes are compared: Sent is recorded for a message although the peer has another one with its id (`SomeStored`) | `storage.go:118`, `storage.go:225` |
| VerdictsAreTrue, NothingIsForgotten, EveryMessageIsDelivered | the repeated push again: Sent is recorded, all attempts end, and the peer does not get the message from here (`mistaken`) | `peers.go:428`, `peers.go:359` |
| VerdictsAreTrue, EveryMessageIsDelivered | ... and each running peer that hears of the incomplete message records FatalError for it, for good (`early`) | `peers.go:388` |
| DoneMeansVerified, CompleteIsFinal | a message of the id has expired: the janitor works without the lock (`Fresh`) | `storage.go:91` |
| LockIsReleased | a local sender that fails between OpenWrite and Close never closes: the id is Busy until the process ends (`leaked`) | `chat.go:342` |
| ContentIsPrefix | after a crash that lost the unsynced metadata, two messages with one id may be mixed; Close finds it out | `storage.go:126` |
| HopsAreAJourney | a transfer that another sender resumed: the published Hops are checked and the stored ones sent, and the node forwards the message one hop beyond its MaxHops (`resumed`) | `storage.go:125`, `messenger.go:100`, `peers.go:310` |
| ImplementsBroadcast | a receiver may get messages, with gaps, while Unsub drains its channel (`leaving`) | `pubsub.go:61` |
| CompleteIsPublished | a resumed transfer that breaks after its last byte completes the message, which is never published | `messenger.go:89` |
| ReadersSeeVerifiedContent | OpenRead against the janitor: an empty content, no error (`Fresh`) | `storage.go:213` |
| PubReturns | a subscriber that publishes from its own goroutine deadlocks with readLoop once its buffer is full | `pubsub.go:51` |
| ChosenIsStarted, StopEndsAll | a subLoop that outlives stopPeer uses fields that are nil by then, and the process dies (`panicked`) | `peers.go:313` |
| NothingIsForgotten, EveryMessageIsDelivered | a batch of the manifest with nothing for the peer ends the comparison; what is behind it is not offered (`hollow`) | `peers.go:538` |
| DelayAsAnnounced | the delay overflows before it is limited: from the 29th attempt of a push on it may be negative, and at last it is zero (`LastSafe`) | `peers.go:393` |
| VerdictStays, NothingIsForgotten | with two loops for one peer, one may overwrite the verdict of the other, and a message may be in the queue of the other only; stated for one | `peers.go:243` |
| BoundedOvershoot | what the limit allows in a window may be exceeded, by fewer than the calls in progress together | `rateacl.go:53` |
| EverythingEnds | a loop that subscribes after the notifier has ended waits for ever (`late`); what a failed StartNode has started ends with the caller's context only | `pubsub.go:46`, `server.go:187` |
| EveryMessageIsShown | a loop that answers more pings than its channel can hold deadlocks with readLoop (`Stuck`); a file whose name is taken is not saved (`NameTaken`) | `chat.go:302`, `pubsub.go:51`, `chat.go:435` |
| NothingLeftBehind | one temporary file or lock per error of sendMessage | `chat.go:342`, `chat.go:361` |
| TalkersListen | a talker that enters its select after `!hush` finds `talkChan` nil, and goes on after its next message | `robot.go:61` |

**Bounds.** Every bound is a constant whose name begins with `Max` (or `BufCap`,
`BatchSize`, which are constants of the code made small). Two handlers are
enough for every conflict over the lock; contents of two chunks have every
relation of size and offset, and where a third chunk fits, of size and length
too (short, exact, too long). In `push_safety` one of the two messages has one
chunk, so that an offset may lie beyond its end. A channel of capacity 1 is full
at once, and three messages are the fewest with which the echoing subscriber can
block itself: one in its channel, one with readLoop, one of its own. A channel
of capacity 2 can be drained in part. One interrupted transfer among four nodes
is enough for a node that stores two hops, publishes one and has a limit of 2.
Two ids around the node's own give both directions of the ring; with four nodes,
the second of two active peers is not the first neighbour, and one node stays
inactive. A batch of one with two messages has a full batch before the end of
the manifest. Three stored pings and a channel of capacity 1 are more than
enough for the loop of the chat to block itself; two messages with a file of the
same name, handled by two goroutines, have every order of the creation of the
file and its use. Two talkers are needed for a talker that missed `!hush` next
to its successor. Two pushing callers pass together below a limit; a limit of 1
call in 3 seconds is reached by a single call in a window of 2 seconds, and one
of 1 per second by two. Deadlock is not checked where the bounds, or the work,
come to an end.

**Symmetry** is used in safety runs only, over handlers and
messages that the definitions do not tell apart.

## 4. Fairness

Weak fairness of the steps of goroutines: Go's scheduler runs what can run.
Beyond that:

- `FileStorage`: strong fairness of the janitor's visit of an id, since it
  visits every directory every minute, and of its unlinking of each file, since
  os.RemoveAll lists the directory until it is empty. None for clients: a
  handler need only be driven from OpenWrite to Close, and a local sender may
  leave without Close.
- `Push`: a sender whose call is refused or broken tries again (backoff), and
  strong fairness finds a free handler; breaks, errors and crashes are bounded.
- `PubSub`: strong fairness for a publisher in the select of readLoop (Go's
  select chooses at random); a subscriber receives only while the context is not
  done, because subLoop returns then; an Unsub that has the mutex goes on.
- `MsgQueue`: strong fairness of the clock and of the return, once the context
  is done, among the ready cases of a select; msgLoop receives until then.
- `PeerManager`: loop runs, and msgLoop ends once it is canceled. The latter is
  assumed, not shown: its RPCs and its wait for the queue end with its context.
  Nothing is assumed of a msgLoop that nobody cancels.
- `Gossip`: some timer fires again and again; some queued message is sent, and
  published, in the end (`Delivery` and `Push` justify it for each peer).
- `Delivery`: publications end and time passes, jointly over the messages; each
  loop goes on, so its calls and pushes end with some result; a stopped peer
  that is selected is started again. Faults are not fair.
- `RateAcl`: time passes, calls go on, a delay comes to its end. Nobody has to
  call, and the calls of the others are bounded: if they used up the limit in
  every window, a peer could be refused for ever.
- `Robot` (with `Chat` and `Node`): every goroutine goes on by itself, and the
  discovery and the peer managers end what is canceled. The timer of a talker,
  the user, the signal and the end of the caller's context are not fair.

## 5. Proofs

Everything here holds for every value of the constants: any sets of ids,
messages, nodes, peers, handlers and goroutines, any contents, any capacities,
limits and numbers of faults. TLC has checked each inductive invariant on the
instance of the run of its module.

| Module | Theorem | States |
|---|---|---|
| `StorageProofs` | `TypeCorrectness` | `Spec => []TypeOK` |
| | `Locking` | `Spec => []LockDiscipline`: `busy` is exactly the set of ids of the handlers between lock and unlock, and no two share one |
| | `DoneIsCertificate` | `Spec => []DoneMeansVerified`: `done` certifies the content of a message with this id, all of it synced |
| | `ReadersAreSafe` | `Spec => []ReadersSeeVerifiedContent` |
| | `CompleteStaysComplete` | `Spec => CompleteIsFinal` |
| | `OffsetsStayValid` | `Spec => TransferOnlyAppends` |
| | `UsesStorage` | `PushSpec => ImplementsFileStorage` |
| | `ServedStorageIsSafe` | so `LockDiscipline`, `DoneMeansVerified` and `CompleteIsFinal` hold of a node that serves Push |
| | `PrefixAlways` | `PushSpec => []ContentIsPrefix` |
| | `SentMeansStored` | `PushSpec => []SentIsStored`: after a Push without error the peer has all of that message, after AlreadySeen all of one with its id |
| | `PublishedMeansComplete` | `PushSpec => []PublishedIsComplete`, of the published message itself |
| | `CompleteMeansPublished` | `PushSpec => []CompleteIsPublished` |
| `PubSubProofs` | `NotifierBroadcasts` | `Spec => ImplementsBroadcast` |
| `MsgQueueProofs` | `QueueIsTimed` | `Spec => ImplementsTimedQueue` |
| `DeliveryProofs` | `VerdictsTrue` | `Spec => []VerdictsAreTrue` |
| | `NoneForgotten` | `Spec => []NothingIsForgotten` |
| | `VerdictsStay` | `Spec => VerdictStays` |
| `GossipProofs` | `HopsAreJourneys` | `Spec => []HopsAreAJourney` |
| `RateAclProofs` | `OvershootIsBounded` | `Spec => []BoundedOvershoot` |
| `PeerManagerProofs` | `ManagerTypes` | `Spec => []TypeOK` |
| | `NeverTooManyPeers` | `Spec => []AtMostMaxActive` |
| | `LoopEndsLast` | `Spec => []EndsAfterPeers`: loop ends after the msgLoops of its peers |
| `RobotProofs` | `ProcessTypes` | `Spec => []TypeOK` |
| | `NeverTwoAdvertisements` | `Spec => []OneAdvertisement` |
| | `StopHasWaited` | `Spec => []StopWaits`: when Stop has returned, everything that StartNode started has ended (the safety part of `EverythingEnds`) |
| | `ReportedFilesAreWhole` | `Spec => []FileIsWhole` |
| | `OnlyFailuresLeaveFiles` | `Spec => []NothingLeftBehind` |
| | `AnswersDoNotMultiply` | `Spec => []PongsAreBounded` |
| | `TalkersAreHushed` | `Spec => []TalkersListen` |

Each module has an inductive invariant (`IInv`, in `StorageProofs` also `PIInv`),
the proof that it holds initially and is kept by every step, one lemma per part,
and the theorems as its consequences. The exceptions of section 3 are part of
the properties that are proved.

**Storage.** None of the properties is inductive by itself: that Close writes
`done` for the right content depends on what the handler has hashed since
OpenWrite, which depends on nobody else having touched the file, which depends
on the lock; and the janitor does not take the lock at all. `IInv` says what
each goroutine knows wherever it may be interrupted: a handler that is not idle
holds the lock of its id, the message is not complete, the metadata is its own
or lost, its file is the one in the directory, and its hash is of what it wrote,
or one chunk ahead after a failed Write (`HandlerKnows`); the metadata of a
directory has its id (`MetaHasId`); the janitor is only where something has
expired (`JanitorHasReason`); a reader has the content that was verified
(`ReadersKnow`). What handlers and readers know holds while no message of the id
has expired (`Fresh`): the janitor really does pull files from under them
afterwards (section 3, exceptions). The proof of each part goes by the kind of
step: a handler's own step (`OwnStep`), the step of another handler, which
`HandlerFrame` shows to leave it alone because the lock keeps their ids apart, a
reader's, a peer's or the janitor's (`OtherFrame`), and a crash
(`CrashKeepsPrefix`).

**Push.** `PIInv` adds to the invariant of the storage what the two ends of a
call know of each other. `Serving` and `Linked` tie the place of a handler in
the storage to the call it serves, and the sender to the handler; a sender that
has left is not linked, and its handler goes on alone. `AtOffset`: the reader is
where the offset says, or at its end, or beyond it. `Stream`: the chunks on
their way are those that follow what the handler has, or will have if OpenWrite
accepts the offset, and they reach as far as the sender has read. From this
alone the refinement of `FileStorage` follows (`UsesStorage`): the handler's
arguments are those that the storage admits, and no path leaves the lock behind.
`Holds` says what a handler knows of the metadata, and that Close removes a
directory only after messages were mixed; `Failing`, why a call is going to
fail; `Prefixes`, the generalisation of ContentIsPrefix to directories whose
metadata is lost; `Truthful`, that a success which has not been looked at is
one. The step from `Prefixes` to the properties: when the stream of a call that
was started at its offset has ended, the content has the announced length, it is
a prefix, hence the whole, hence Close wrote `done`. A message becomes complete
only at the end of such a call, which also publishes it, unless its connection
broke.

This proof corrected the model: after a crash that loses the metadata, the
server may hold more of another message with the same id than the sender's
message has; ResumeOffset then moves the reader beyond its end. Read returns EOF at
once in this case too, and `Finish` now says so.

**Notifier.** The refinement maps the log of the messages that readLoop has
taken, and what each subscriber has received, to `Broadcast`. The invariant
places every message: with a publisher, with readLoop or in the log, and once
(`MessagesAreUnique`); readLoop hands out the last one (`LoopKnows`); what a
subscriber has received and has in its channel is, in order (`InOrder`) and
without a gap (`NoGaps`), the part of the log between its subscription and the
last message that readLoop has offered it. While Unsub drains a channel only the
order is left, and no message joins the log, since readLoop needs the mutex. The
order of what is in the channel cannot be left out: it becomes the order of what
is received.

**Queue.** The list is sorted by time and, for equal times, by insertion
(`Sorted`). That the loop of Insert stops at the right place is an induction; it
is done with the least position at which the loop could stop (`LeastNatural`,
from the well-foundedness of the naturals), because the induction rules
themselves cannot be used.

**Delivery.** VerdictsAreTrue needs to know why a FatalError outlives the
completion of a message (`Verdicts`, `Known`: only if it was published early), and
that a Sent without the message at the peer comes from a mistaken push only.
NothingIsForgotten says nothing of the loop before the comparison has ended;
`OnItsWay` follows a message through the collection of the manifest, the
exchange and the answer. VerdictStays needs that what a single loop has in its
hand has no verdict yet (`NoVerdictYet`).

**Propagation.** HopsAreAJourney needs that the origin keeps its copy without
hops and that who has the message has its Hops (`Holders`), and that a node with
something in its queue has stored fewer hops than its limit, unless it has
published others (`MayOffer`). A transfer adds the sender to the journey of the
sender's copy, and Hops that are stored never change, so journeys that pass
through a node stay journeys. Nothing is used of the ring algorithm, so it holds
whichever peers are chosen. That the excess of a resumed node is one hop follows
from the limit that its own stored Hops have passed.

**Access lists.** BoundedOvershoot bounds the calls counted in the window together
with those that have seen the rate below the limit and have not counted
themselves yet. A call joins these only when the rate is below the limit; its
Incr moves it from them into the counter, which leaves the sum alone; and time
only shortens the counter. Rate and limit have different units, so the bound is
on products (`Within`), and the order of products is a lemma (`TimesMonotone`). The
invariant adds that only callers the list permits come to Incr, and that only a
Push asks the second list (`OnTheWay`). The sum is of a length and of the
cardinality of a set of callers; that there are finitely many callers is assumed
(`RateAclAssumption`), as it must be for their number to be one.

**Peer manager.** `AtMostMaxActive` is a fact about the moments between two
updates; during checkActivePeers more peers than the limit may be started for a
while. What holds at every step is that there is room for the peers that are
`Due`: those that are started and are not going to be stopped, and those that
are going to be started (`RoomForAll`). Counting them as objects is right because
an id has at most one object in the list, and an object that was never listed was
never started (`OnePerId`); `LoopKnows` says what loop has left to do wherever it
is. The other half is the ring algorithm, a recursive function over the searches:
that the function exists (`SearchesExist`) and that i searches find at most i
peers (`SearchesBounded`) are inductions, done with the least search that would be
the counterexample.

`LoopEndsLast` needs that a running msgLoop is that of the last start of its peer,
and that after discovery has ended every started peer of the list is among those
that loop has still to stop (`Ending`).

This proof corrected the model, which stopped all peers before it started the
first; the code goes through the sorted list once.

**The process.** The invariant has a part for each of node, chat and robot.
An advertisement is on the air only between Advertise and the closing of its
channel (`OnlyWhileAdvertised`), so the next one never meets it; discoveries are
started in turn (`StartedInTurn`), so Stop waits for all that there are. Every
message comes to the loop once: it is with one thread that sends it, with
readLoop, or at one place of the channel (`ComesOnce`). What sendMessage knows of
the storage (`SenderKnows`) and that who saves a file is alone with it
(`SaverIsAlone`) give `NothingLeftBehind` and `FileIsWhole`. `PongsAreBounded` is
not inductive: a ping may be in the channel and in two histories at once. The
answers that exist and those still owed (`Owed`) are within the limit together
(`AnswersAreLimited`); handling a message turns one that is owed into one that
exists, and a new history raises both sides. For the talkers, one that waits is
not in sendMessage (`WaitersAreSilent`). The three modules have many actions; the
lemma `Effects` reduces each to what it does to messages, channel, storage and
files, and every part of the invariant is proved for these effects.

Assumptions: those named in the modules (`ConstantsAssumption`,
`PushAssumption`, `PubSubAssumption`, `MsgQueueAssumption`,
`DeliveryAssumption`, `RateAclAssumption`, `NodeAssumption`, ...), which only give the constants
their types, make the callers of an access list finite and keep the values that
stand for "none" out of the sets; TLC evaluates them in the runs.

Checked with TLC only: liveness (the prover has neither fairness nor ENABLED),
and that the ring reaches everybody, which is part of it (`EveryoneGetsIt`); and
the table of delays (`DelayAsAnnounced`). The table depends on no constant but
the last attempt, and says something only up to the attempt before the
arithmetic overflows, the 35th at most: a run up to the 40th attempt, with every
random value and both sizes of an int, is exhaustive.

## 6. Not modelled

- The generated RPC stubs and encodings (`*.vdl.go`): they hold no decisions of
  this program. They are two fifths of the repository's lines.
- SHA-256, signatures and the AES stream of a chat message are ideal; their
  failures are errors of the callers. Hash and Validate therefore are identities
  of a message, or a refusal.
- Flags, names and paths of the command line; the layout of the user interface;
  the text of log and error messages; statistics.
- The discovery library: updates arrive in any order, an advertisement may fail.
- Manifest and Pull of the service, which only read what OpenRead and the
  manifest give them; Len, Empty, Exists and the other readers.
- Three hazards have no property, and others only with an exception
  (`PROJECT.json` gives the reasons): the
  unsynced metadata of a complete message (`storage.go:361`), a subLoop that
  reads fields that were set to nil (`peers.go:236`; it is modelled, and ends in
  `panicked`), and updates that starve checkActivePeers (`peers.go:81`).

## 7. State of the project

All modules, and the proofs of section 5, are done: every invariant that a run
checks is proved, but for the table of delays. What could be added:

1. Properties for the hazards of section 6 that have none.
2. Proofs of liveness, once the prover supports fairness.
