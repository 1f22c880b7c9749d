------------------------------- MODULE Push --------------------------------
(***************************************************************************)
(* The transfer of a message from peers to a node: the client side of      *)
(* internal/peers.go (pushMessage, backoff, doPush) and the server side of *)
(* internal/messenger.go (Push, ResumeOffset), on top of FileStorage.      *)
(*                                                                         *)
(* A sender streams the content from its reader r, at r's current          *)
(* position, to a handler of the server, and then waits for the result.    *)
(* The connection may break at any moment: the sender then starts over,    *)
(* while the handler keeps the lock until it notices.  The server may      *)
(* crash.  A result of the kind RetryBackoff (Busy, RateLimitExceeded)     *)
(* makes backoff call doPush again.                                        *)
(*                                                                         *)
(* No message expires here: the janitor and its races are in FileStorage,  *)
(* whose Spec this specification implements.                               *)
(***************************************************************************)
EXTENDS FileStorage

CONSTANTS
    Senders,    \* pushMessage calls, of one peer or of several
    Sends,      \* Sends[s]: the message that s pushes
    NoCall,     \* the sender has no call in progress
    MaxBreaks,  \* bound: the number of broken connections
    MaxErrors   \* bound: the number of refusals and I/O errors of the server,
                \* and of Sends that fail

ASSUME PushAssumption ==
    /\ Sends \in [Senders -> Msgs]
    /\ NoCall \notin Handlers \cup Senders
    /\ MaxBreaks \in Nat
    /\ MaxErrors \in Nat

VARIABLES
    (* The sender. *)
    cpc,        \* cpc[s]: where s is in pushMessage
    spos,       \* spos[s]: the position of r
    soff,       \* soff[s]: the variable offset
    scall,      \* scall[s]: the handler that serves its call
    sres,       \* sres[s]: the result of the call, "none" until it arrives
    (* The call that a handler serves. *)
    hcall,      \* hcall[h]: what the handler is doing
    hs,         \* hs[h]: whose call it is, NoCall if the handler is free
    hoff,       \* hoff[h]: the argument offset
    hin,        \* hin[h]: the chunks on their way
    hend,       \* hend[h]: how the stream ends: "open", "eof" or "broken"
    pub,        \* the messages given to Notifier.Pub
    (* History and bounds. *)
    rewound,    \* rewound[s]: r was at offset when Push was last called
    hgood,      \* hgood[h]: the same, for the call that h serves
    doneFailed, \* a write of the file "done" failed
    breaks, errors

sender    == <<cpc, spos, soff, scall, sres, rewound>>
call      == <<hcall, hs, hoff, hin, hend, hgood>>
others    == <<readers, janitor, setting, expired>>
storage   == <<disk, handlers, crashes, others>>
tally     == <<doneFailed, breaks, errors>>
pushVars  == <<vars, sender, call, pub, tally>>

Results == {"none", "ok", "seen", "retry", "offset", "fatal", "error"}

PushTypeOK ==
    /\ TypeOK
    /\ cpc \in [Senders -> {"idle", "push", "send", "finish", "offset",
                            "sent", "seen", "fatal"}]
    /\ spos \in [Senders -> Nat]
    /\ soff \in [Senders -> Nat]
    /\ scall \in [Senders -> Handlers \cup {NoCall}]
    /\ sres \in [Senders -> Results]
    /\ hcall \in [Handlers -> {"free", "push", "recv", "fail", "offset"}]
    /\ hs \in [Handlers -> Senders \cup {NoCall}]
    /\ hoff \in [Handlers -> Nat]
    /\ hin \in [Handlers -> Seq(Chunks)]
    /\ hend \in [Handlers -> {"open", "eof", "broken"}]
    /\ pub \in SUBSET (Msgs \X BOOLEAN)
    /\ rewound \in [Senders -> BOOLEAN]
    /\ doneFailed \in BOOLEAN
    /\ hgood \in [Handlers -> BOOLEAN]
    /\ breaks \in 0 .. MaxBreaks
    /\ errors \in 0 .. MaxErrors

PushInit ==
    /\ Init
    /\ cpc = [s \in Senders |-> "idle"]
    /\ spos = [s \in Senders |-> 0]
    /\ soff = [s \in Senders |-> 0]
    /\ scall = [s \in Senders |-> NoCall]
    /\ sres = [s \in Senders |-> "none"]
    /\ rewound = [s \in Senders |-> TRUE]
    /\ hcall = [h \in Handlers |-> "free"]
    /\ hs = [h \in Handlers |-> NoCall]
    /\ hoff = [h \in Handlers |-> 0]
    /\ hin = [h \in Handlers |-> << >>]
    /\ hend = [h \in Handlers |-> "open"]
    /\ hgood = [h \in Handlers |-> TRUE]
    /\ pub = {}
    /\ doneFailed = FALSE
    /\ breaks = 0
    /\ errors = 0

-----------------------------------------------------------------------------
(* The sender.                                                             *)

SetSender(s, to, pos, off, res) ==
    /\ cpc' = [cpc EXCEPT ![s] = to]
    /\ spos' = [spos EXCEPT ![s] = pos]
    /\ soff' = [soff EXCEPT ![s] = off]
    /\ sres' = [sres EXCEPT ![s] = res]

\* pushMessage returns: r is closed, and to says what msgLoop does next.
Leave(s, to) == SetSender(s, to, 0, 0, "none")

\* pushMessage: OpenRead, r at the beginning, offset 0.
PushMessage(s) ==
    /\ cpc[s] = "idle"
    /\ SetSender(s, "push", 0, 0, "none")
    /\ UNCHANGED <<storage, scall, rewound, call, pub, tally>>

\* A new call, served by a goroutine of the server.
StartCall(s, h, kind) ==
    /\ hcall[h] = "free"
    /\ hcall' = [hcall EXCEPT ![h] = kind]
    /\ hs' = [hs EXCEPT ![h] = s]
    /\ hoff' = [hoff EXCEPT ![h] = soff[s]]
    /\ scall' = [scall EXCEPT ![s] = h]
    /\ UNCHANGED <<hin, hend>>

\* doPush: the call of Push.
DoPush(s, h) ==
    /\ cpc[s] = "push"
    /\ StartCall(s, h, "push")
    /\ SetSender(s, "send", spos[s], soff[s], "none")
    /\ rewound' = [rewound EXCEPT ![s] = spos[s] = soff[s]]
    /\ hgood' = [hgood EXCEPT ![h] = spos[s] = soff[s]]
    /\ UNCHANGED <<storage, pub, tally>>

\* doPush: a chunk is read and sent.  It is dropped when the call has ended.
Send(s) ==
    /\ cpc[s] = "send"
    /\ spos[s] < Length(Sends[s])
    /\ SetSender(s, "send", spos[s] + 1, soff[s], sres[s])
    /\ hin' = IF scall[s] = NoCall THEN hin
              ELSE [hin EXCEPT ![scall[s]] =
                      Append(@, Content[Sends[s]][spos[s] + 1])]
    /\ UNCHANGED <<storage, scall, rewound, hcall, hs, hoff, hend, hgood, pub, tally>>

\* doPush: Send fails because the call has ended; a transient error, and the
\* result of the call is never looked at.
SendError(s) ==
    /\ cpc[s] = "send"
    /\ sres[s] # "none"
    /\ errors < MaxErrors
    /\ errors' = errors + 1
    /\ Leave(s, "idle")
    /\ UNCHANGED <<storage, scall, rewound, call, pub, doneFailed, breaks>>

\* doPush: r is at its end, or was moved beyond it (the server holds more of
\* another message with this id); Finish closes the stream and waits.
Finish(s) ==
    /\ cpc[s] = "send"
    /\ spos[s] >= Length(Sends[s])
    /\ SetSender(s, "finish", spos[s], soff[s], sres[s])
    /\ hend' = IF scall[s] = NoCall THEN hend
               ELSE [hend EXCEPT ![scall[s]] = "eof"]
    /\ UNCHANGED <<storage, scall, rewound, hcall, hs, hoff, hin, hgood, pub, tally>>

\* A plausible slip: IncorrectOffset is an error like any other.
PushResult_OffsetIsError(s) ==
    /\ cpc[s] = "finish"
    /\ sres[s] # "none"
    /\ \/ sres[s] = "ok" /\ Leave(s, "sent")
       \/ sres[s] = "seen" /\ Leave(s, "seen")
       \/ sres[s] = "retry" /\ SetSender(s, "push", spos[s], soff[s], "none")
       \/ sres[s] = "fatal" /\ Leave(s, "fatal")
       \/ sres[s] \in {"offset", "error"} /\ Leave(s, "idle")
    /\ UNCHANGED <<storage, scall, rewound, call, pub, tally>>

\* What pushMessage and msgLoop do with the result of Push.  backoff calls
\* doPush again, and nothing rewinds r; any other error but IncorrectOffset
\* ends pushMessage, and is fatal or makes msgLoop start it again later.  Both
\* "sent" (no error) and "seen" (AlreadySeen) are recorded as Sent.
PushResult(s) ==
    /\ cpc[s] = "finish"
    /\ sres[s] # "none"
    /\ \/ sres[s] = "ok" /\ Leave(s, "sent")
       \/ sres[s] = "seen" /\ Leave(s, "seen")
       \/ sres[s] = "retry" /\ SetSender(s, "push", spos[s], soff[s], "none")
       \/ sres[s] = "offset" /\ SetSender(s, "offset", spos[s], soff[s], "none")
       \/ sres[s] = "fatal" /\ Leave(s, "fatal")
       \/ sres[s] = "error" /\ Leave(s, "idle")
    /\ UNCHANGED <<storage, scall, rewound, call, pub, tally>>

\* A plausible slip: r is rewound to its beginning.
ResumeOffsetReply_SeekStart(s, off) ==
    SetSender(s, "push", 0, off, "none")

\* The new offset arrives, and r.Seek goes there.
ResumeOffsetReply(s, off) ==
    SetSender(s, "push", off, off, "none")

\* pushMessage: the call of ResumeOffset.
CallResumeOffset(s, h) ==
    /\ cpc[s] = "offset"
    /\ scall[s] = NoCall
    /\ sres[s] = "none"
    /\ StartCall(s, h, "offset")
    /\ UNCHANGED <<storage, cpc, spos, soff, sres, rewound, hgood, pub, tally>>

\* ... and an error as its result: backoff repeats it, AlreadySeen counts as
\* sent, and anything else is retried later.
ResumeOffsetResult(s) ==
    /\ cpc[s] = "offset"
    /\ sres[s] # "none"
    /\ \/ sres[s] = "retry" /\ SetSender(s, "offset", spos[s], soff[s], "none")
       \/ sres[s] = "seen" /\ Leave(s, "seen")
       \/ sres[s] = "fatal" /\ Leave(s, "fatal")
       \/ sres[s] = "error" /\ Leave(s, "idle")
    /\ UNCHANGED <<storage, scall, rewound, call, pub, tally>>

\* The connection breaks, or the sender crashes: pushMessage starts over later,
\* and the handler receives no more than what has arrived.
Break(s) ==
    /\ breaks < MaxBreaks
    /\ cpc[s] \in {"send", "finish", "offset"}
    /\ breaks' = breaks + 1
    /\ Leave(s, "idle")
    /\ scall' = [scall EXCEPT ![s] = NoCall]
    /\ IF scall[s] = NoCall THEN UNCHANGED <<hin, hend>>
       ELSE \E n \in 0 .. Len(hin[scall[s]]) :
              /\ hin' = [hin EXCEPT ![scall[s]] = SubSeq(@, 1, n)]
              /\ hend' = [hend EXCEPT ![scall[s]] = "broken"]
    /\ UNCHANGED <<storage, rewound, hcall, hs, hoff, hgood, doneFailed, pub, errors>>

-----------------------------------------------------------------------------
(* The server.                                                             *)

\* The handler is done with its call.
EndCall(h) ==
    /\ hcall' = [hcall EXCEPT ![h] = "free"]
    /\ hs' = [hs EXCEPT ![h] = NoCall]
    /\ hoff' = [hoff EXCEPT ![h] = 0]
    /\ hin' = [hin EXCEPT ![h] = << >>]
    /\ hend' = [hend EXCEPT ![h] = "open"]
    /\ hgood' = [hgood EXCEPT ![h] = TRUE]

\* h returns res, which reaches the sender if it is still there.
Reply(h, res) ==
    /\ EndCall(h)
    /\ IF scall[hs[h]] = h
       THEN /\ scall' = [scall EXCEPT ![hs[h]] = NoCall]
            /\ sres' = [sres EXCEPT ![hs[h]] = res]
       ELSE UNCHANGED <<scall, sres>>
    /\ UNCHANGED <<cpc, spos, soff, rewound>>

Msg(h) == Sends[hs[h]]

\* Authorize, Validate or one of the limits refuses the call: the rate limit,
\* or for good.
Refuse(h, res) ==
    /\ hcall[h] \in {"push", "offset"}
    /\ pc[h] = "idle"
    /\ errors < MaxErrors
    /\ errors' = errors + 1
    /\ Reply(h, res)
    /\ UNCHANGED <<storage, pub, doneFailed, breaks>>

\* A plausible slip: a message that is being received counts as received.
PushRefused_BusyIsSeen(h) ==
    /\ hcall[h] = "push"
    /\ \/ OpenWriteBusy(h, Msg(h)) /\ Reply(h, "seen")
       \/ OpenWriteAlreadySeen(h, Msg(h)) /\ Reply(h, "seen")
       \/ OpenWriteCollision(h, Msg(h)) /\ Reply(h, "fatal")
    /\ UNCHANGED <<pub, tally>>

\* OpenWrite returns an error at once.
PushRefused(h) ==
    /\ hcall[h] = "push"
    /\ \/ OpenWriteBusy(h, Msg(h)) /\ Reply(h, "retry")
       \/ OpenWriteAlreadySeen(h, Msg(h)) /\ Reply(h, "seen")
       \/ OpenWriteCollision(h, Msg(h)) /\ Reply(h, "fatal")
    /\ UNCHANGED <<pub, tally>>

\* OpenWrite goes on.
PushOpens(h) ==
    /\ hcall[h] = "push"
    /\ \/ OpenWrite(h, Msg(h)) \/ CreateMessage(h) \/ EncodeMessage(h)
    /\ UNCHANGED <<sender, call, pub, tally>>

PushIncorrectOffset(h) ==
    /\ hcall[h] = "push"
    /\ OpenContentIncorrectOffset(h, hoff[h])
    /\ Reply(h, "offset")
    /\ UNCHANGED <<pub, tally>>

PushOpened(h) ==
    /\ hcall[h] = "push"
    /\ OpenContent(h, hoff[h])
    /\ hcall' = [hcall EXCEPT ![h] = "recv"]
    /\ UNCHANGED <<sender, hs, hoff, hin, hend, hgood, pub, tally>>

Receive(h) ==
    /\ hcall[h] = "recv"
    /\ hin[h] # << >>
    /\ Write(h, Head(hin[h]))
    /\ hin' = [hin EXCEPT ![h] = Tail(@)]
    /\ UNCHANGED <<sender, hcall, hs, hoff, hend, hgood, pub, tally>>

\* A plausible slip: the handler returns the error without w.Close().
ReceiveError_NoClose(h) ==
    /\ hcall[h] = "recv"
    /\ hin[h] # << >>
    /\ errors < MaxErrors
    /\ errors' = errors + 1
    /\ pc' = [pc EXCEPT ![h] = "idle"]
    /\ Reply(h, "error")
    /\ UNCHANGED <<disk, busy, hm, hfile, hlink, hsum, crashes, others, pub,
                   doneFailed, breaks>>

ReceiveError(h) ==
    /\ hcall[h] = "recv"
    /\ hin[h] # << >>
    /\ errors < MaxErrors
    /\ errors' = errors + 1
    /\ WriteError(h, Head(hin[h]))
    /\ hcall' = [hcall EXCEPT ![h] = "fail"]
    /\ UNCHANGED <<sender, hs, hoff, hin, hend, hgood, pub, doneFailed, breaks>>

\* The bytes received in this call.
size(h) == Len(hfile[h]) - hoff[h]

\* A plausible slip: an interrupted stream is not told from one that ended.
ReceiveEnd_IgnoresErr(h) ==
    /\ hcall[h] = "recv"
    /\ hin[h] = << >>
    /\ hend[h] # "open"
    /\ CloseBegin(h)
    /\ UNCHANGED <<sender, call, pub, tally>>

\* The stream has ended; when it was interrupted, and size differs from the
\* length of the message, what was received is kept and the error returned.
ReceiveEnd(h) ==
    /\ hcall[h] = "recv"
    /\ hin[h] = << >>
    /\ hend[h] # "open"
    /\ CloseBegin(h)
    /\ hcall' = IF hend[h] = "broken" /\ size(h) # Length(Msg(h))
                THEN [hcall EXCEPT ![h] = "fail"] ELSE hcall
    /\ UNCHANGED <<sender, hs, hoff, hin, hend, hgood, pub, tally>>

\* Steps of w.Close that do not end it.
CloseGoesOn(h) ==
    /\ hcall[h] \in {"recv", "fail"}
    /\ \/ Sync(h)
       \/ CloseMismatch(h)
       \/ \E f \in FileNames : MismatchUnlink(h, f)
       \/ MismatchListedEmpty(h)
    /\ UNCHANGED <<sender, call, pub, tally>>

\* A plausible slip: only a message that came in one call is published.
PushDone_WholeOnly(h) ==
    /\ hcall[h] \in {"recv", "fail"}
    /\ ClosePartial(h) \/ CloseDone(h)
    /\ pub' = IF hcall[h] = "recv" /\ size(h) = Length(Msg(h))
              THEN pub \cup {<<Msg(h), hgood[h]>>} ELSE pub
    /\ Reply(h, IF hcall[h] = "recv" THEN "ok" ELSE "error")
    /\ UNCHANGED tally

\* w.Close returns nil: the message is published, unless the call has failed.
PushDone(h) ==
    /\ hcall[h] \in {"recv", "fail"}
    /\ ClosePartial(h) \/ CloseDone(h)
    /\ pub' = IF hcall[h] = "recv" THEN pub \cup {<<Msg(h), hgood[h]>>} ELSE pub
    /\ Reply(h, IF hcall[h] = "recv" THEN "ok" ELSE "error")
    /\ UNCHANGED tally

\* w.Close returns ContentMismatch.
PushMismatch(h) ==
    /\ hcall[h] \in {"recv", "fail"}
    /\ MismatchRemoveDir(h)
    /\ Reply(h, IF hcall[h] = "recv" THEN "fatal" ELSE "error")
    /\ UNCHANGED <<pub, tally>>

\* An I/O error in OpenWrite, Close or Offset; Close ignores one of RemoveAll.
ServerError(h) ==
    /\ hcall[h] # "free"
    /\ errors < MaxErrors
    /\ errors' = errors + 1
    /\ IOError(h)
    /\ Reply(h, IF pc[h] = "unlink" /\ hcall[h] = "recv" THEN "fatal" ELSE "error")
    /\ UNCHANGED <<pub, doneFailed, breaks>>

\* WriteFile creates the file "done", and fails then.
DoneError(h) ==
    /\ hcall[h] \in {"recv", "fail"}
    /\ errors < MaxErrors
    /\ errors' = errors + 1
    /\ doneFailed' = TRUE
    /\ CloseDone(h)
    /\ Reply(h, "error")
    /\ UNCHANGED <<pub, breaks>>

\* ResumeOffset.
ResumeOffsetRefused(h) ==
    /\ hcall[h] = "offset"
    /\ \/ OffsetBusy(h, Msg(h)) /\ Reply(h, "retry")
       \/ OffsetAlreadySeen(h, Msg(h)) /\ Reply(h, "seen")
    /\ UNCHANGED <<pub, tally>>

ResumeOffsetLocks(h) ==
    /\ hcall[h] = "offset"
    /\ OffsetLock(h, Msg(h))
    /\ UNCHANGED <<sender, call, pub, tally>>

ResumeOffset(h) ==
    /\ hcall[h] = "offset"
    /\ OffsetReturn(h)
    /\ EndCall(h)
    /\ IF scall[hs[h]] = h
       THEN /\ scall' = [scall EXCEPT ![hs[h]] = NoCall]
            /\ ResumeOffsetReply(hs[h], OffsetResult(h))
       ELSE UNCHANGED <<cpc, spos, soff, scall, sres>>
    /\ UNCHANGED <<rewound, pub, tally>>

\* The server crashes: every call in progress fails.
ServerCrash ==
    /\ Crash
    /\ hcall' = [h \in Handlers |-> "free"]
    /\ hs' = [h \in Handlers |-> NoCall]
    /\ hoff' = [h \in Handlers |-> 0]
    /\ hin' = [h \in Handlers |-> << >>]
    /\ hend' = [h \in Handlers |-> "open"]
    /\ hgood' = [h \in Handlers |-> TRUE]
    /\ scall' = [s \in Senders |-> NoCall]
    /\ sres' = [s \in Senders |-> IF scall[s] # NoCall THEN "error" ELSE sres[s]]
    /\ UNCHANGED <<cpc, spos, soff, rewound, pub, tally>>

-----------------------------------------------------------------------------
SenderStep(s) ==
    \/ PushMessage(s)
    \/ \E h \in Handlers : DoPush(s, h) \/ CallResumeOffset(s, h)
    \/ Send(s)
    \/ SendError(s)
    \/ Finish(s)
    \/ PushResult(s)
    \/ ResumeOffsetResult(s)

ServerStep(h) ==
    \/ PushRefused(h)
    \/ PushOpens(h)
    \/ PushIncorrectOffset(h)
    \/ PushOpened(h)
    \/ Receive(h)
    \/ ReceiveEnd(h)
    \/ CloseGoesOn(h)
    \/ PushDone(h)
    \/ PushMismatch(h)
    \/ ResumeOffsetRefused(h)
    \/ ResumeOffsetLocks(h)
    \/ ResumeOffset(h)

PushNext ==
    \/ \E s \in Senders : SenderStep(s) \/ Break(s)
    \/ \E h \in Handlers : \/ ServerStep(h)
                           \/ \E res \in {"retry", "fatal"} : Refuse(h, res)
                           \/ ReceiveError(h)
                           \/ ServerError(h)
                           \/ DoneError(h)
    \/ ServerCrash

PushSpec == PushInit /\ [][PushNext]_pushVars

\* The goroutines run; breaks, errors and crashes are what they are.  A sender
\* that backs off tries again, and finds the server free now and then.
PushFairness ==
    /\ \A s \in Senders :
         /\ WF_pushVars(PushMessage(s) \/ Send(s) \/ Finish(s) \/ PushResult(s)
                        \/ ResumeOffsetResult(s))
         /\ SF_pushVars(\E h \in Handlers : DoPush(s, h))
         /\ SF_pushVars(\E h \in Handlers : CallResumeOffset(s, h))
    /\ \A h \in Handlers : WF_pushVars(ServerStep(h))

FairPushSpec == PushSpec /\ PushFairness

-----------------------------------------------------------------------------
(* Properties.                                                             *)

\* The storage is used as FileStorage says it is: whatever is proved of
\* FileStorage holds of the node that serves Push and ResumeOffset.
ImplementsFileStorage == Spec

Idle(id) == \A h \in Handlers : pc[h] # "idle" => Id(h) # id

\* The server has all of m, verified.
Stored(m) == isComplete(IdOf[m]) /\ content[IdOf[m]] = Content[m]

\* The server has all of a message with the id of m: of m itself, unless other
\* messages share its id.
SomeStored(m) == \E n \in Msgs : IdOf[n] = IdOf[m] /\ Stored(n)

\* msgLoop marks a message Sent because Push returned no error only when the peer
\* has all of that message, verified: through broken streams, resumed transfers,
\* concurrent senders, messages with the same id and crashes (peers.go:358-363).
\* It marks it Sent because of AlreadySeen only when the peer has all of a
\* message with that id, which need not be this one: OpenWrite and Offset look at
\* the file done before anything is compared (storage.go:118, 225).
\* The exception is a Push that backoff repeats after Busy or a rate limit:
\* nothing rewinds r (peers.go:428), the server receives an empty stream and
\* returns no error, and Sent is recorded although "Messages are removed from the
\* queue after being successfully transmitted or when a fatal error occurs"
\* (README.md:135-136).
SentIsStored ==
    \A s \in Senders :
        /\ cpc[s] = "sent" /\ rewound[s] => Stored(Sends[s])
        /\ cpc[s] = "seen" => SomeStored(Sends[s])

\* The server publishes a message only when its own content is complete and
\* verified (messenger.go:95-101), with the same exception: Close returns no
\* error for a content that is too short, although "Messages become visible for
\* sharing after they are fully copied" (README.md:128-129).
PublishedIsComplete ==
    \A m \in Msgs : <<m, TRUE>> \in pub => Stored(m)

Published(id) == \E m \in Msgs : IdOf[m] = id /\ pub \cap {<<m, TRUE>>, <<m, FALSE>>} # {}

\* A message that was completely received was published, however many calls it
\* took, when no connection broke, the file "done" could be written and the
\* server did not crash (messenger.go:89-101).  A resumed transfer whose
\* connection breaks after the last byte completes the message, and Push returns
\* the error without publishing it: size counts the bytes of that call only
\* (messenger.go:89).
CompleteIsPublished ==
    \A id \in Ids :
        /\ isComplete(id)
        /\ Idle(id)
        /\ breaks = 0 /\ crashes = 0 /\ ~ doneFailed
        => Published(id)

\* The content file of id holds a prefix of what m announces.
HoldsPrefix(id, m) ==
    /\ Len(content[id]) <= Length(m)
    /\ content[id] = SubSeq(Content[m], 1, Len(content[id]))

\* Different messages have this id.
Shared(id) == \E m, n \in Msgs : m # n /\ IdOf[m] = id /\ IdOf[n] = id

\* A transfer is resumed where it stopped, and what is stored is always a prefix
\* of what one message announces.  Only after a crash that lost the metadata may
\* the contents of two messages with the same id get mixed; Close finds that out.
ContentIsPrefix ==
    \A id \in {IdOf[m] : m \in Msgs} :
        \/ \E m \in Msgs : IdOf[m] = id /\ HoldsPrefix(id, m)
        \/ crashes > 0 /\ Shared(id)

\* Every message is transferred in the end, however often the connection
\* breaks and the server crashes, unless a sender was refused for good or
\* called Push without rewinding r.
EventuallyStored ==
    \A s \in Senders :
        <>(\/ isComplete(IdOf[Sends[s]])
           \/ cpc[s] = "fatal"
           \/ ~ rewound[s])
=============================================================================
