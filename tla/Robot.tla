------------------------------- MODULE Robot -------------------------------
(***************************************************************************)
(* vmsg/robot.go: the robot answers commands, and on !talk starts a        *)
(* goroutine that sends messages until !hush closes the channel talkChan.  *)
(* The variable talkChan is shared without a lock: a talker reads it each  *)
(* time that it enters its select.                                         *)
(*                                                                         *)
(* With Node and Chat, this is the whole process, for each of the three    *)
(* commands of vmsg.                                                       *)
(***************************************************************************)
EXTENDS Chat

VARIABLES
    talkChan,   \* the channel, 0 if it is nil
    chans,      \* how many channels were made
    closed,     \* those that were closed
    talker      \* talker[t]: [pc, chan], where it is and what it listens to

robotVars == <<talkChan, chans, closed, talker>>
vars == <<nodeVars, chatVars, robotVars>>

Init ==
    /\ ChatInit
    /\ talkChan = 0
    /\ chans = 0
    /\ closed = {}
    /\ talker = [t \in Talkers |-> [pc |-> "none", chan |-> 0]]

-----------------------------------------------------------------------------
(* talk and hush.                                                          *)

\* talk: a new channel and a new talker, unless there is a channel.
talk ==
    IF talkChan # 0 THEN UNCHANGED robotVars
    ELSE \E t \in Talkers :
            /\ talker[t].pc \in {"none", "end"}
            /\ chans' = chans + 1
            /\ talkChan' = chans + 1
            /\ talker' = [talker EXCEPT ![t].pc = "enter"]
            /\ UNCHANGED closed

\* A plausible slip: the channel is not closed.
hush_NoClose ==
    /\ talkChan' = 0
    /\ UNCHANGED <<chans, closed, talker>>

hush ==
    /\ closed' = IF talkChan # 0 THEN closed \cup {talkChan} ELSE closed
    /\ talkChan' = 0
    /\ UNCHANGED <<chans, talker>>

\* A talker (re)enters its select: it reads talkChan.
TalkerListens(t) ==
    /\ talker[t].pc = "enter"
    /\ spc[t] = "no"
    /\ talker' = [talker EXCEPT ![t] = [pc |-> "wait", chan |-> talkChan]]
    /\ UNCHANGED <<nodeVars, chatVars, talkChan, chans, closed>>

\* The timer fires first, even if the channel is closed.
TalkerSpeaks(t) ==
    /\ talker[t].pc = "wait"
    /\ ~ parent
    /\ Input
    /\ SendBegins(t, "text", 0)
    /\ talker' = [talker EXCEPT ![t] = [pc |-> "enter", chan |-> 0]]
    /\ UNCHANGED <<hpc, todo, cur, saved, shown, histories, talkChan, chans,
                   closed>>

\* The channel is closed, or the context of the command is done.
TalkerEnds(t) ==
    /\ talker[t].pc = "wait"
    /\ talker[t].chan \in closed \/ parent
    /\ talker' = [talker EXCEPT ![t] = [pc |-> "end", chan |-> 0]]
    /\ UNCHANGED <<nodeVars, chatVars, talkChan, chans, closed>>

-----------------------------------------------------------------------------
(* The loop of the robot.                                                  *)

RobotStarts ==
    /\ app = "robot"
    /\ Alive
    /\ hpc["loop"] = "new"
    /\ Subscribe
    /\ hpc' = [hpc EXCEPT !["loop"] = "recv"]
    /\ UNCHANGED <<startVars, parent, canceled, epVars, discVars, ps, relay, chan,
                   errors, events, sendVars, todo, cur, saved, shown, histories,
                   robotVars>>

\* It obeys a command, and answers (!debug as a ping, which stands for both).
Obeys(n) ==
    LET k == msgs[n].kind IN
    /\ CASE k = "talk" -> talk
         [] k = "hush" -> hush
         [] OTHER -> UNCHANGED robotVars
    /\ CASE k = "file" -> Creates("loop", n) /\ UNCHANGED sendVars
         [] k \in {"talk", "hush"} ->
              SendBegins("loop", "text", n) /\ UNCHANGED <<saved, cur>>
         [] IsPing(n) -> SendBegins("loop", "pong", n) /\ UNCHANGED <<saved, cur>>
         [] OTHER -> UNCHANGED <<sendVars, saved, cur>>

RobotReceives ==
    /\ app = "robot"
    /\ hpc["loop"] = "recv"
    /\ Ready("loop")
    /\ chan # << >>
    /\ chan' = Tail(chan)
    /\ \/ Obeys(Head(chan)) /\ NoError /\ UNCHANGED shown
       \/ Drops /\ UNCHANGED robotVars
    /\ UNCHANGED <<startVars, parent, canceled, epVars, discVars, ps, relay, sub, hpc,
                   todo, histories>>

\* The channel is closed and empty: hush.
RobotEnds ==
    /\ app = "robot"
    /\ hpc["loop"] = "recv"
    /\ Ready("loop")
    /\ sub = "closed"
    /\ chan = << >>
    /\ hpc' = [hpc EXCEPT !["loop"] = "end"]
    /\ hush
    /\ UNCHANGED <<nodeVars, sendVars, todo, cur, saved, shown, histories>>

\* The signal for which runNode and runRobot wait; they stop the node.
Signal ==
    /\ app # "chat"
    /\ Stop
    /\ UNCHANGED <<chatVars, robotVars>>

robotLoop == RobotStarts \/ RobotReceives \/ RobotEnds

talkerLoop(t) == TalkerListens(t) \/ TalkerSpeaks(t) \/ TalkerEnds(t)

Next ==
    \/ ChatNext /\ UNCHANGED robotVars
    \/ robotLoop
    \/ \E t \in Talkers : talkerLoop(t)
    \/ Signal

Spec == Init /\ [][Next]_vars

-----------------------------------------------------------------------------
\* Every goroutine runs, and what is canceled ends.  Only the timer of a talker
\* may be late for ever.
nodeStep(A) == A /\ UNCHANGED <<chatVars, robotVars>>

loopStep ==
    \/ (sendMessage("loop") \/ history("loop") \/ chatLoop) /\ UNCHANGED robotVars
    \/ robotLoop

uiStep == (sendMessage("ui") \/ history("ui")) /\ UNCHANGED robotVars

talkerStep(t) ==
    \/ sendMessage(t) /\ UNCHANGED robotVars
    \/ TalkerListens(t)
    \/ TalkerEnds(t)

Fairness ==
    /\ WF_vars(nodeStep(StartNode \/ StopReturns))
    /\ WF_vars(nodeStep(readLoop))
    /\ \A d \in Discs : /\ WF_vars(nodeStep(advertise(d)))
                        /\ WF_vars(nodeStep(Withdraw(d) \/ PeerManagerEnds(d)))
    /\ WF_vars(sendMessage("peer") /\ UNCHANGED robotVars)
    /\ WF_vars(loopStep)
    /\ WF_vars(uiStep)
    /\ \A t \in Talkers : WF_vars(talkerStep(t))

FairSpec == Spec /\ Fairness

-----------------------------------------------------------------------------
(* Properties.                                                             *)

\* What StartNode started has ended.
NodeEnded ==
    /\ ps = "done"
    /\ \A d \in Discs : /\ adv[d].pc \in {"none", "end"}
                        /\ onair[d] = {}
                        /\ pm[d] # "running"

\* The loop of the application has ended or will never begin.  One that subscribes
\* after the notifier has ended waits for ever on a channel that nobody closes
\* (pubsub.go:46).
LoopEnded == hpc["loop"] \in {"new", "end"} \/ sub = "late"

\* Stop returns only when the notifier, the peer managers and the goroutines of
\* advertise have ended and nothing is advertised any more, whatever they were
\* doing (server.go:197-203).
StopWaits == npc = "stopped" => NodeEnded

\* Stop waits for everything that was started, and everything ends.  Once the
\* node's context is done, so does what was started before StartNode returned an
\* error: it does not call cancel then (server.go:187), so only the end of the
\* context it was given helps.  The loop of the application ends as well, even if
\* everybody waits for everybody in the notifier; the talkers end with the context
\* of the command.
EverythingEnds ==
    /\ []StopWaits
    /\ canceled ~> [](NodeEnded /\ LoopEnded)
    /\ parent ~> [](\A t \in Talkers : talker[t].pc \in {"none", "end"})

\* A discovery never advertises the node at two addresses: advertise waits for
\* adDone before it calls Advertise again (server.go:163-164).
OneAdvertisement == \A d \in Discs : Cardinality(onair[d]) <= 1

\* When the endpoints have changed for the last time, every discovery will
\* advertise the last addresses, for good: no change is lost between Status,
\* Advertise, the wait after an error and the wait for adDone.
AdvertisedIsCurrent ==
    \A d \in Discs :
        <>[](~ canceled /\ adv[d].pc # "none") => <>[](onair[d] = {addr})

\* The loop waits in Pub for readLoop, which waits for room in the loop's channel.
Stuck == spc["loop"] = "pub" /\ relay # 0 /\ Len(chan) = BufCap

\* There is a file of that name already, of another message.
NameTaken(n) == msgs[n].kind = "file" /\ saved.of \notin {0, n}

\* The chat shows every message, whether it was stored before or comes while the
\* loop subscribes and reads the history, and saves every shared file.  The
\* exceptions: I/O errors; a file whose name was used before; and the deadlock of
\* a loop that answers more pings, of the history or of peers, than its channel
\* can hold, although the channel "is buffered to allow publishing messages from
\* the same goroutine that subscribes to new messages" (pubsub.go:49-50).
EveryMessageIsShown ==
    app = "chat" =>
        <>[](\/ canceled \/ errors > 0 \/ Stuck
            \/ \A n \in store : n \in shown \/ NameTaken(n))

\* A file that was reported as received is there, whole and unchanged: a second
\* message with that file name, or the same message in /history, handled by
\* another goroutine at the same time, does not touch it (chat.go:435).
FileIsWhole ==
    \A n \in shown : msgs[n].kind = "file" => saved = [of |-> n, whole |-> TRUE]

\* Temporary files and locks of which no sendMessage takes care any more.
Left == (tmp \cup busy) \ {smsg[t] : t \in Threads}

\* sendMessage leaves a temporary file or a lock behind only when it fails, one
\* per failure: an error in encryptChatMessage leaves the file (chat.go:361), one
\* between OpenWrite and Close leaves the id Busy for ever (chat.go:342-351).
NothingLeftBehind == Cardinality(Left) <= errors /\ Left \cap store = {}

\* The messages that answer n.
Answers(n) == {m \in DOMAIN msgs : msgs[m].to = n}

\* The applications do not answer answers, so the traffic stops when the users
\* do.  The robot answers a command once; the chat answers a ping when it comes
\* and again in every history that it is in (chat.go:278, 302).
PongsAreBounded ==
    \A n \in DOMAIN msgs :
        Cardinality(Answers(n)) <= CASE msgs[n].kind = "ping" -> 1 + histories
                                     [] msgs[n].kind \in {"talk", "hush"} -> 1
                                     [] OTHER -> 0

\* "!hush   The robot stops talking." (robot.go:35): a talker that waits will be
\* stopped by the !hush that comes next, or has been told already.  The exception
\* is a talker that was about to wait when !hush came: it finds talkChan nil
\* (robot.go:61), and nothing stops it before its next message, if then.
TalkersListen ==
    \A t \in Talkers :
        talker[t].pc = "wait" => talker[t].chan \in {0, talkChan} \cup closed

NodeTypeOK ==
    /\ config \in Configs
    /\ npc \in {"start", "disc", "scan", "run", "failed", "stop", "stopped"}
    /\ next \in 1 .. discs + 1
    /\ npc = "scan" => next <= discs
    /\ parent \in BOOLEAN /\ canceled \in BOOLEAN
    /\ addr \in Addrs
    /\ changes \in Nat
    /\ adv \in [Discs -> [pc : {"none", "status", "advertise", "retry", "select",
                                "change", "exit", "end"},
                          seen : Nat, addr : Addrs]]
    /\ onair \in [Discs -> SUBSET Addrs]
    /\ pm \in [Discs -> {"none", "running", "done"}]
    /\ ps \in {"none", "running", "done"}
    /\ sub \in {"no", "open", "closed", "late"}
    /\ errors \in Nat /\ events \in Nat

ChatTypeOK ==
    /\ msgs \in Seq([kind : MessageKinds, to : Nat])
    /\ \A n \in 1 .. Len(msgs) : msgs[n].to <= Len(msgs)
    /\ chan \in Seq(1 .. Len(msgs)) /\ Len(chan) <= BufCap
    /\ relay \in 0 .. Len(msgs)
    /\ store \subseteq 1 .. Len(msgs)
    /\ busy \subseteq 1 .. Len(msgs)
    /\ tmp \subseteq 1 .. Len(msgs)
    /\ spc \in [Threads -> {"no", "copy", "pub"}]
    /\ smsg \in [Threads -> 0 .. Len(msgs)]
    /\ \A t \in Threads : smsg[t] = 0 <=> spc[t] = "no"
    /\ hpc \in [Showers -> {"new", "history", "show", "recv", "end"}]
    /\ todo \in [Showers -> SUBSET (1 .. Len(msgs))]
    /\ cur \in [Showers -> 0 .. Len(msgs)]
    /\ saved \in [of : 0 .. Len(msgs), whole : BOOLEAN]
    /\ shown \subseteq 1 .. Len(msgs)
    /\ histories \in Nat

RobotTypeOK ==
    /\ chans \in Nat
    /\ talkChan \in 0 .. chans
    /\ closed \subseteq 1 .. chans
    /\ talker \in [Talkers -> [pc : {"none", "enter", "wait", "end"}, chan : 0 .. chans]]

\* The values of the variables: messages are numbered as they come, and every
\* number is that of a message.
TypeOK == NodeTypeOK /\ ChatTypeOK /\ RobotTypeOK
=============================================================================
