-------------------------------- MODULE Chat -------------------------------
(***************************************************************************)
(* vmsg/chat.go: the chat application on top of a node.  Two goroutines    *)
(* show messages, the loop of the app and that of the user interface (for  *)
(* /history), and several send them: these two, the talkers of the robot   *)
(* (Robot) and the Push handlers of the node (thread "peer").              *)
(***************************************************************************)
EXTENDS Node

CONSTANTS
    Talkers     \* the goroutines of the robot that talk

ASSUME ChatAssumption == Talkers \cap {"loop", "ui", "peer"} = {}

VARIABLES
    (* The messages and sendMessage. *)
    msgs,       \* msgs[n]: the nth message, its kind and the one that it answers
    store,      \* the messages that are complete in the storage
    busy,       \* those that are locked there
    tmp,        \* those that have a temporary file
    spc,        \* spc[t]: where thread t is in sendMessage
    smsg,       \* smsg[t]: the message that it sends
    (* The threads that show messages. *)
    hpc,        \* hpc[t]: where t is
    todo,       \* todo[t]: what is left of the manifest in history
    cur,        \* cur[t]: the message whose file it is saving
    saved,      \* the file in incomingDir: of which message, and all of it?
    shown,      \* the messages that were shown
    histories   \* the calls of history so far

sendVars == <<msgs, store, busy, tmp, spc, smsg>>
showVars == <<hpc, todo, cur, saved, shown, histories>>
chatVars == <<sendVars, showVars>>

Showers == {"loop", "ui"}
Threads == Showers \cup {"peer"} \cup Talkers

\* Shared files all have one name.
Message(k, n) == [kind |-> k, to |-> n]

ChatInit ==
    /\ NodeInit
    /\ msgs = [n \in DOMAIN config.old |-> Message(config.old[n], 0)]
    /\ store = 1 .. Len(msgs)
    /\ busy = {}
    /\ tmp = {}
    /\ spc = [t \in Threads |-> "no"]
    /\ smsg = [t \in Threads |-> 0]
    /\ hpc = [t \in Showers |-> "new"]
    /\ todo = [t \in Showers |-> {}]
    /\ cur = [t \in Showers |-> 0]
    /\ saved = [of |-> 0, whole |-> FALSE]
    /\ shown = {}
    /\ histories = 0

\* A goroutine that was started runs on until the process is gone.
Alive == npc \in {"run", "stop", "stopped"} /\ ~ parent

\* A message from a peer, the user or a talker.
Input ==
    /\ Event
    /\ UNCHANGED <<startVars, parent, canceled, epVars, discVars, psVars, errors>>

-----------------------------------------------------------------------------
(* sendMessage.                                                            *)

\* Thread t calls sendMessage with a message of kind k, an answer to n:
\* encryptChatMessage, NewMessageFromFile, Sign, OpenWrite.
SendBegins(t, k, n) ==
    /\ spc' = [spc EXCEPT ![t] = "copy"]
    /\ smsg' = [smsg EXCEPT ![t] = Len(msgs) + 1]
    /\ msgs' = Append(msgs, Message(k, n))
    /\ tmp' = tmp \cup {Len(msgs) + 1}
    /\ busy' = busy \cup {Len(msgs) + 1}
    /\ UNCHANGED store

\* A plausible slip: the temporary file is not removed.
SendReturns_NoRemove(t) ==
    /\ spc' = [spc EXCEPT ![t] = "no"]
    /\ smsg' = [smsg EXCEPT ![t] = 0]
    /\ UNCHANGED tmp

\* It returns; the temporary file is removed (defer).
SendReturns(t) ==
    /\ spc' = [spc EXCEPT ![t] = "no"]
    /\ smsg' = [smsg EXCEPT ![t] = 0]
    /\ tmp' = tmp \ {smsg[t]}

\* The file is copied into the storage, and Close makes the message complete.
SendStores(t) ==
    /\ spc[t] = "copy"
    /\ store' = store \cup {smsg[t]}
    /\ busy' = busy \ {smsg[t]}
    /\ spc' = [spc EXCEPT ![t] = "pub"]
    /\ UNCHANGED <<nodeVars, msgs, tmp, smsg, showVars>>

\* An error before Close leaves the lock, any other does not.
SendError(t) ==
    /\ spc[t] = "copy"
    /\ Error
    /\ SendReturns(t)
    /\ busy' \in {busy, busy \ {smsg[t]}}
    /\ UNCHANGED <<startVars, parent, canceled, epVars, discVars, psVars, msgs, store,
                   showVars>>

\* An error in encryptChatMessage, before OpenWrite: its file is left behind.
EncryptError(t) ==
    /\ spc[t] = "copy"
    /\ Error
    /\ spc' = [spc EXCEPT ![t] = "no"]
    /\ smsg' = [smsg EXCEPT ![t] = 0]
    /\ busy' = busy \ {smsg[t]}
    /\ UNCHANGED <<startVars, parent, canceled, epVars, discVars, psVars, msgs, store,
                   tmp, showVars>>

\* Pub: readLoop takes the message.
SendPublishes(t) ==
    /\ spc[t] = "pub"
    /\ Takes(smsg[t])
    /\ SendReturns(t)
    /\ UNCHANGED <<msgs, store, busy, showVars>>

\* Pub: the context is done.
SendCanceled(t) ==
    /\ spc[t] = "pub"
    /\ canceled
    /\ SendReturns(t)
    /\ UNCHANGED <<nodeVars, msgs, store, busy, showVars>>

sendMessage(t) ==
    \/ SendStores(t)
    \/ SendError(t)
    \/ EncryptError(t)
    \/ SendPublishes(t)
    \/ SendCanceled(t)

\* A peer pushes a message: it is complete, and about to be published.
PeerPushes ==
    /\ app # "node"
    /\ Alive
    /\ spc["peer"] = "no"
    /\ Input
    /\ \E k \in config.inputs : msgs' = Append(msgs, Message(k, 0))
    /\ store' = store \cup {Len(msgs) + 1}
    /\ spc' = [spc EXCEPT !["peer"] = "pub"]
    /\ smsg' = [smsg EXCEPT !["peer"] = Len(msgs) + 1]
    /\ UNCHANGED <<busy, tmp, hpc, todo, cur, saved, shown, histories>>

-----------------------------------------------------------------------------
(* handleMessage.                                                          *)

\* Thread t is not in the middle of handleMessage or of sendMessage.
Ready(t) == spc[t] = "no" /\ cur[t] = 0

\* A plausible slip: the file is truncated, not created.
Creates_Truncates(t, n) ==
    /\ saved' = [of |-> n, whole |-> FALSE]
    /\ cur' = [cur EXCEPT ![t] = n]

\* decryptChatMessage creates the file of the attachment, if there is none.
Creates(t, n) ==
    IF saved.of = 0
    THEN /\ saved' = [of |-> n, whole |-> FALSE]
         /\ cur' = [cur EXCEPT ![t] = n]
    ELSE UNCHANGED <<saved, cur>>

\* A plausible slip: a reply to a ping is taken for a ping.
IsPing_Prefix(n) == msgs[n].kind \in {"ping", "pong"}

IsPing(n) == msgs[n].kind = "ping"

\* handleMessage: a ping is shown and answered, a file is saved first.  (A pong
\* counts as shown, although the answer to another node's ping is not printed.)
Handles(t, n) ==
    IF msgs[n].kind = "file"
    THEN Creates(t, n) /\ UNCHANGED <<sendVars, shown>>
    ELSE /\ shown' = shown \cup {n}
         /\ IF IsPing(n) THEN SendBegins(t, "pong", n) ELSE UNCHANGED sendVars
         /\ UNCHANGED <<saved, cur>>

\* OpenRead or decryptChatMessage fails: the message is dropped.
Drops == Error /\ UNCHANGED <<sendVars, saved, cur, shown>>

\* The attachment is copied; the thread that does so has nothing else to do.
Saves(t) ==
    /\ cur[t] # 0
    /\ \/ /\ saved' = [saved EXCEPT !.whole = TRUE]
          /\ shown' = IF app = "chat" THEN shown \cup {cur[t]} ELSE shown
          /\ NoError
       \/ Error /\ UNCHANGED <<saved, shown>>
    /\ cur' = [cur EXCEPT ![t] = 0]
    /\ UNCHANGED <<startVars, parent, canceled, epVars, discVars, psVars, sendVars,
                   hpc, todo, histories>>

-----------------------------------------------------------------------------
(* The threads.                                                            *)

\* Sub, which needs the mutex.  After the end nobody will close the channel.
Subscribe ==
    /\ relay = 0
    /\ sub' = IF ps = "done" THEN "late" ELSE "open"

\* app.loop subscribes, and calls history.
LoopStarts ==
    /\ app = "chat"
    /\ Alive
    /\ hpc["loop"] = "new"
    /\ Subscribe
    /\ hpc' = [hpc EXCEPT !["loop"] = "history"]
    /\ UNCHANGED <<startVars, parent, canceled, epVars, discVars, ps, relay, chan,
                   errors, events, sendVars, todo, cur, saved, shown, histories>>

\* history: the manifest.  What becomes complete while the manifest is read comes
\* through the channel in any case.
ReadsManifest(t) ==
    /\ hpc[t] = "history"
    /\ hpc' = [hpc EXCEPT ![t] = "show"]
    /\ \/ todo' = [todo EXCEPT ![t] = store] /\ NoError
       \/ Error /\ UNCHANGED todo
    /\ histories' = histories + 1
    /\ UNCHANGED <<startVars, parent, canceled, epVars, discVars, psVars, sendVars,
                   cur, saved, shown>>

\* history: the next message, in the order of creation.
ShowsNext(t) ==
    /\ hpc[t] = "show"
    /\ Ready(t)
    /\ \E n \in todo[t] :
         /\ \A m \in todo[t] : n <= m
         /\ todo' = [todo EXCEPT ![t] = @ \ {n}]
         /\ \/ Handles(t, n) /\ NoError
            \/ Drops
    /\ UNCHANGED <<startVars, parent, canceled, epVars, discVars, psVars, hpc, histories>>

\* history returns.
ShowsAll(t) ==
    /\ hpc[t] = "show"
    /\ Ready(t)
    /\ todo[t] = {}
    /\ hpc' = [hpc EXCEPT ![t] = IF t = "ui" THEN "new" ELSE "recv"]
    /\ UNCHANGED <<nodeVars, sendVars, todo, cur, saved, shown, histories>>

\* app.loop handles a message of its channel.
LoopReceives ==
    /\ app = "chat"
    /\ hpc["loop"] = "recv"
    /\ Ready("loop")
    /\ chan # << >>
    /\ chan' = Tail(chan)
    /\ \/ Handles("loop", Head(chan)) /\ NoError
       \/ Drops
    /\ UNCHANGED <<startVars, parent, canceled, epVars, discVars, ps, relay, sub, hpc,
                   todo, histories>>

\* The channel is closed and empty.
LoopEnds ==
    /\ app = "chat"
    /\ hpc["loop"] = "recv"
    /\ Ready("loop")
    /\ sub = "closed"
    /\ chan = << >>
    /\ hpc' = [hpc EXCEPT !["loop"] = "end"]
    /\ UNCHANGED <<nodeVars, sendVars, todo, cur, saved, shown, histories>>

\* handleInput: a text, /ping, /share or /history.
UserIdle == app = "chat" /\ npc = "run" /\ hpc["ui"] = "new" /\ Ready("ui")

UserSends ==
    /\ UserIdle
    /\ Input
    /\ \E k \in config.inputs : SendBegins("ui", k, 0)
    /\ UNCHANGED <<hpc, todo, cur, saved, shown, histories>>

UserHistory ==
    /\ UserIdle
    /\ Input
    /\ hpc' = [hpc EXCEPT !["ui"] = "history"]
    /\ UNCHANGED <<sendVars, todo, cur, saved, shown, histories>>

\* /quit, Ctrl-C: MainLoop returns, and runChat stops the node.
UserQuits ==
    /\ UserIdle
    /\ Stop
    /\ UNCHANGED chatVars

\* A plausible slip: the loop reads the history before it subscribes.
chatLoop_HistoryFirst ==
    \/ /\ app = "chat"
       /\ Alive
       /\ \/ /\ hpc["loop"] = "new"
             /\ hpc' = [hpc EXCEPT !["loop"] = "history"]
             /\ UNCHANGED sub
          \/ /\ hpc["loop"] = "recv"
             /\ sub = "no"
             /\ Subscribe
             /\ UNCHANGED hpc
       /\ UNCHANGED <<startVars, parent, canceled, epVars, discVars, ps, relay, chan,
                      errors, events, sendVars, todo, cur, saved, shown, histories>>
    \/ LoopReceives
    \/ LoopEnds

\* app.loop.
chatLoop == LoopStarts \/ LoopReceives \/ LoopEnds
history(t) == ReadsManifest(t) \/ ShowsNext(t) \/ ShowsAll(t) \/ Saves(t)

ChatNext ==
    \/ NodeNext /\ UNCHANGED chatVars
    \/ \E t \in Threads : sendMessage(t)
    \/ PeerPushes
    \/ chatLoop
    \/ \E t \in Showers : history(t)
    \/ UserSends
    \/ UserHistory
    \/ UserQuits
=============================================================================
