--------------------------- MODULE StorageProofs ---------------------------
(* Proofs about FileStorage and, in the second half, about Push, which     *)
(* extends it: for every set of messages, handlers, readers, peers and     *)
(* senders, every content and any number of broken connections, errors and *)
(* crashes.                                                                *)
EXTENDS Push, SequenceTheorems, TLAPS

USE DEF disk, handlers, readers, janitor, env, vars

-----------------------------------------------------------------------------
(* The content after a crash is a prefix of what it was, at least as long  *)
(* as what was synced.                                                     *)

\* A crash (no Sync before it) may cut the end of a content file, never what
\* Close had synced.
LEMMA CrashKeepsPrefix ==
    ASSUME TypeOK, Crash, NEW id \in Ids
    PROVE  /\ content'[id] \in Seq(Chunks)
           /\ synced'[id] \in Nat
           /\ synced[id] = Len(content[id]) =>
                content'[id] = content[id] /\ synced'[id] = synced[id]
<1>1. PICK keep \in [Ids -> 0 .. MaxSize] :
        /\ \A i \in Ids : keep[i] \in synced[i] .. Len(content[i])
        /\ content' = [i \in Ids |-> SubSeq(content[i], 1, keep[i])]
        /\ synced' = [i \in Ids |-> keep[i]]
  BY DEF Crash
<1>2. content[id] \in Seq(Chunks) /\ synced[id] \in Nat
  BY DEF TypeOK
<1>3. keep[id] \in 0 .. Len(content[id])
  BY <1>1, <1>2, ConstantsAssumption
<1>4. \A i \in 1 .. keep[id] : content[id][i] \in Chunks
  BY <1>2, <1>3, ElementOfSeq
<1>5. SubSeq(content[id], 1, keep[id]) \in Seq(Chunks)
  BY <1>3, <1>4, <1>2, SubSeqProperties
<1>6. synced[id] = Len(content[id]) =>
        SubSeq(content[id], 1, keep[id]) = content[id] /\ keep[id] = synced[id]
  <2>1. SubSeq(content[id], 1, Len(content[id])) = content[id]
    BY <1>2, SubSeqFull
  <2> QED BY <2>1, <1>1, <1>2, <1>3
<1> QED BY <1>1, <1>3, <1>5, <1>6, <1>2

-----------------------------------------------------------------------------
(* Type correctness.                                                       *)

\* Every step of OpenWrite, Write, Close and Offset keeps the types.
LEMMA TypeHandler ==
    ASSUME TypeOK, HandlersHaveMessages, NEW h \in Handlers,
           \/ OpenWriteStep(h) \/ WriteStep(h) \/ CloseStep(h)
           \/ OffsetStep(h) \/ IOError(h)
    PROVE  TypeOK'
<1> USE ConstantsAssumption DEF TypeOK, FileNames, HandlerPCs, ReaderPCs
<1>id. pc[h] # "idle" => hm[h] \in Msgs /\ Id(h) \in Ids
  BY DEF HandlersHaveMessages, Id
<1>a. ASSUME NEW m \in Msgs,
             \/ OpenWriteBusy(h, m) \/ OpenWriteAlreadySeen(h, m)
             \/ OpenWriteCollision(h, m)
             \/ OffsetBusy(h, m) \/ OffsetAlreadySeen(h, m)
      PROVE  TypeOK'
  BY <1>a DEF OpenWriteBusy, OpenWriteAlreadySeen, OpenWriteCollision,
     OffsetBusy, OffsetAlreadySeen
<1>b. ASSUME NEW m \in Msgs, OpenWrite(h, m) \/ OffsetLock(h, m) PROVE TypeOK'
  <2>1. IdOf[m] \in Ids
    OBVIOUS
  <2>2. CASE OpenWrite(h, m)
    BY <2>1, <2>2 DEF OpenWrite
  <2>3. CASE OffsetLock(h, m)
    BY <2>1, <2>3 DEF OffsetLock
  <2> QED BY <1>b, <2>2, <2>3
<1>c. CASE CreateMessage(h)
  BY <1>c, <1>id DEF CreateMessage, Goto
<1>d. CASE EncodeMessage(h)
  BY <1>d, <1>id DEF EncodeMessage, Goto
<1>e. ASSUME NEW offset \in 0 .. MaxSize, OpenContentIncorrectOffset(h, offset)
      PROVE  TypeOK'
  BY <1>e, <1>id, SMTT(30) DEF OpenContentIncorrectOffset, Return
<1>f. ASSUME NEW offset \in 0 .. MaxSize, OpenContent(h, offset) PROVE TypeOK'
  BY <1>f, <1>id DEF OpenContent
<1>g. ASSUME NEW c \in Chunks, Write(h, c) PROVE TypeOK'
  <2>1. Append(hfile[h], c) \in Seq(Chunks) /\ Append(hsum[h], c) \in Seq(Chunks)
    OBVIOUS
  <2>2. /\ hsum' = [hsum EXCEPT ![h] = Append(hsum[h], c)]
        /\ hfile' = [hfile EXCEPT ![h] = Append(hfile[h], c)]
        /\ \/ content' = content
           \/ content' = [content EXCEPT ![Id(h)] = Append(hfile[h], c)]
        /\ UNCHANGED <<dir, files, meta, synced, info, busy, pc, hm, hlink,
                       readers, janitor, setting, env>>
    BY <1>g DEF Write
  <2>3. Id(h) \in Ids
    BY <1>g, <1>id DEF Write
  <2>4. hsum' \in [Handlers -> Seq(Chunks)] /\ hfile' \in [Handlers -> Seq(Chunks)]
    BY <2>1, <2>2
  <2>5. content' \in [Ids -> Seq(Chunks)]
    BY <2>1, <2>2, <2>3
  <2> QED BY <2>2, <2>4, <2>5
<1>h. ASSUME NEW c \in Chunks, WriteError(h, c) PROVE TypeOK'
  BY <1>h, <1>id, SMTT(30) DEF WriteError
<1>i. CASE CloseBegin(h) \/ Abandon(h) \/ CloseMismatch(h) \/ MismatchListedEmpty(h)
  BY <1>i DEF CloseBegin, Abandon, CloseMismatch, MismatchListedEmpty, Goto
<1>j. CASE Sync(h)
  BY <1>j, <1>id, SMTT(30) DEF Sync, Goto
<1>k. CASE ClosePartial(h) \/ IOError(h) \/ OffsetReturn(h)
  <2>1. Return(h) /\ UNCHANGED <<disk, readers, janitor, setting, env>>
    BY <1>k DEF ClosePartial, IOError, OffsetReturn
  <2> QED BY <2>1 DEF Return
<1>l. CASE CloseDone(h)
  BY <1>l, <1>id DEF CloseDone, Return
<1>m. ASSUME NEW f \in FileNames, MismatchUnlink(h, f) PROVE TypeOK'
  BY <1>m, <1>id, SMTT(30) DEF MismatchUnlink, UnlinkFile
<1>n. CASE MismatchRemoveDir(h)
  BY <1>n, <1>id, SMTT(30) DEF MismatchRemoveDir, RemoveDir, Return
<1> QED BY <1>a, <1>b, <1>c, <1>d, <1>e, <1>f, <1>g, <1>h, <1>i, <1>j, <1>k,
           <1>l, <1>m, <1>n DEF OpenWriteStep, WriteStep, CloseStep, OffsetStep

\* OpenRead, SetPeerInfo, the janitor, the clock and a crash keep the types.
LEMMA TypeOther ==
    ASSUME TypeOK,
           \/ \E r \in Readers : ReadStep(r)
           \/ \E id \in Ids, p \in Peers : PeerInfoStep(id, p)
           \/ JanitorStep
           \/ \E m \in Msgs : Expire(m)
           \/ Crash
           \/ UNCHANGED vars
    PROVE  TypeOK'
<1> USE ConstantsAssumption DEF TypeOK, FileNames, HandlerPCs, ReaderPCs
<1>1. ASSUME NEW r \in Readers, ReadStep(r) PROVE TypeOK'
  <2>1. ASSUME NEW id \in Ids, OpenReadCheck(r, id) PROVE TypeOK'
    BY <2>1 DEF OpenReadCheck
  <2>2. CASE OpenReadMessage(r)
    BY <2>2 DEF OpenReadMessage
  <2>3. CASE OpenReadContent(r)
    BY <2>3 DEF OpenReadContent
  <2>4. CASE OpenReadEnd(r)
    BY <2>4, SMTT(30) DEF OpenReadEnd, ReaderReturn
  <2> QED BY <1>1, <2>1, <2>2, <2>3, <2>4 DEF ReadStep
<1>2. ASSUME NEW id \in Ids, NEW p \in Peers, PeerInfoStep(id, p) PROVE TypeOK'
  <2>1. CASE SetPeerInfoTruncate(id, p)
    BY <2>1 DEF SetPeerInfoTruncate
  <2>2. ASSUME NEW pi \in Infos, SetPeerInfoEncode(id, p, pi) PROVE TypeOK'
    BY <2>2 DEF SetPeerInfoEncode
  <2> QED BY <1>2, <2>1, <2>2 DEF PeerInfoStep
<1>3. CASE JanitorStep
  <2>1. ASSUME NEW id \in Ids, JanitorFinds(id) PROVE TypeOK'
    BY <2>1 DEF JanitorFinds
  <2>2. ASSUME NEW f \in FileNames, JanitorUnlink(f) PROVE TypeOK'
    BY <2>2 DEF JanitorUnlink, UnlinkFile
  <2>3. CASE JanitorError \/ JanitorListedEmpty
    BY <2>3 DEF JanitorError, JanitorListedEmpty
  <2>4. CASE JanitorRemoveDir
    BY <2>4 DEF JanitorRemoveDir, RemoveDir
  <2> QED BY <1>3, <2>1, <2>2, <2>3, <2>4 DEF JanitorStep
<1>4. ASSUME NEW m \in Msgs, Expire(m) PROVE TypeOK'
  BY <1>4 DEF Expire
<1>5. CASE Crash
  <2>1. content' \in [Ids -> Seq(Chunks)] /\ synced' \in [Ids -> Nat]
    <3>1. DOMAIN content' = Ids /\ DOMAIN synced' = Ids
          /\ content' = [id \in Ids |-> content'[id]]
          /\ synced' = [id \in Ids |-> synced'[id]]
      BY <1>5 DEF Crash
    <3> QED BY <3>1, <1>5, CrashKeepsPrefix
  <2>2. meta' \in [Ids -> Msgs \cup {NoMsg}]
    BY <1>5 DEF Crash
  <2>3. info' \in [Ids -> [Peers -> Infos]]
    BY <1>5 DEF Crash
  <2>4. /\ busy' = {}
        /\ pc' = [h \in Handlers |-> "idle"]
        /\ hm' = [h \in Handlers |-> NoMsg]
        /\ hfile' = [h \in Handlers |-> << >>]
        /\ hlink' = [h \in Handlers |-> FALSE]
        /\ hsum' = [h \in Handlers |-> << >>]
        /\ rpc' = [r \in Readers |-> "idle"]
        /\ rmsg' = [r \in Readers |-> NoMsg]
        /\ rdata' = [r \in Readers |-> << >>]
        /\ jpc' = "idle"
        /\ setting' = {}
        /\ crashes' \in 0 .. MaxCrashes
        /\ UNCHANGED <<dir, files, rid, jid, expired>>
    BY <1>5 DEF Crash
  <2> QED BY <2>1, <2>2, <2>3, <2>4
<1>6. CASE UNCHANGED vars
  BY <1>6
<1> QED BY <1>1, <1>2, <1>3, <1>4, <1>5, <1>6

-----------------------------------------------------------------------------
(* The lock.                                                               *)

Acquire(h, m) ==
    /\ pc[h] = "idle"
    /\ IdOf[m] \notin busy
    /\ busy' = busy \cup {IdOf[m]}
    /\ hm' = [hm EXCEPT ![h] = m]
    /\ \E to \in HandlerPCs \ {"idle"} : pc' = [pc EXCEPT ![h] = to]

Move(h) ==
    /\ pc[h] # "idle"
    /\ \E to \in HandlerPCs \ {"idle"} : pc' = [pc EXCEPT ![h] = to]
    /\ UNCHANGED <<busy, hm>>

Release(h) ==
    /\ pc[h] # "idle"
    /\ busy' = busy \ {Id(h)}
    /\ pc' = [pc EXCEPT ![h] = "idle"]
    /\ hm' = [hm EXCEPT ![h] = NoMsg]

Reset ==
    /\ busy' = {}
    /\ pc' = [h \in Handlers |-> "idle"]
    /\ hm' = [h \in Handlers |-> NoMsg]

\* To the lock, every step acquires it, releases it, moves its holder, or
\* leaves it alone; or it is a crash.
LEMMA LockEffect ==
    ASSUME TypeOK, [Next]_vars
    PROVE  \/ \E h \in Handlers, m \in Msgs : Acquire(h, m)
           \/ \E h \in Handlers : Move(h) \/ Release(h)
           \/ Reset
           \/ UNCHANGED <<busy, pc, hm>>
<1> USE DEF TypeOK, HandlerPCs
<1>1. ASSUME NEW h \in Handlers, OpenWriteStep(h)
      PROVE  \/ \E m \in Msgs : Acquire(h, m)
             \/ Move(h) \/ Release(h)
             \/ UNCHANGED <<busy, pc, hm>>
  <2>1. ASSUME NEW m \in Msgs, OpenWrite(h, m) PROVE Acquire(h, m)
    <3>1. \/ pc' = [pc EXCEPT ![h] = "open"]
          \/ pc' = [pc EXCEPT ![h] = "create"]
      BY <2>1 DEF OpenWrite
    <3> QED BY <2>1, <3>1 DEF OpenWrite, Acquire
  <2>2. CASE CreateMessage(h) \/ EncodeMessage(h)
    BY <2>2 DEF CreateMessage, EncodeMessage, Goto, Move
  <2>3. ASSUME NEW offset \in 0 .. MaxSize, OpenContent(h, offset) PROVE Move(h)
    BY <2>3 DEF OpenContent, Move
  <2>4. ASSUME NEW offset \in 0 .. MaxSize, OpenContentIncorrectOffset(h, offset)
        PROVE  Release(h)
    BY <2>4 DEF OpenContentIncorrectOffset, Return, Release
  <2> QED BY <1>1, <2>1, <2>2, <2>3, <2>4
          DEF OpenWriteStep, OpenWriteBusy, OpenWriteAlreadySeen,
              OpenWriteCollision
<1>2. ASSUME NEW h \in Handlers, WriteStep(h)
      PROVE  Move(h) \/ UNCHANGED <<busy, pc, hm>>
  BY <1>2 DEF WriteStep, Write, WriteError, Move
<1>3. ASSUME NEW h \in Handlers, CloseStep(h)
      PROVE  Move(h) \/ Release(h) \/ UNCHANGED <<busy, pc, hm>>
  <2>1. CASE CloseBegin(h) \/ Abandon(h) \/ Sync(h) \/ CloseMismatch(h) \/ MismatchListedEmpty(h)
    BY <2>1 DEF CloseBegin, Abandon, Sync, CloseMismatch, MismatchListedEmpty, Goto, Move
  <2>2. CASE ClosePartial(h) \/ CloseDone(h) \/ MismatchRemoveDir(h)
    BY <2>2 DEF ClosePartial, CloseDone, MismatchRemoveDir, Return, Release
  <2>3. ASSUME NEW f \in FileNames, MismatchUnlink(h, f)
        PROVE  UNCHANGED <<busy, pc, hm>>
    BY <2>3 DEF MismatchUnlink, UnlinkFile
  <2> QED BY <1>3, <2>1, <2>2, <2>3 DEF CloseStep
<1>4. ASSUME NEW h \in Handlers, OffsetStep(h)
      PROVE  \/ \E m \in Msgs : Acquire(h, m)
             \/ Release(h)
             \/ UNCHANGED <<busy, pc, hm>>
  <2>1. ASSUME NEW m \in Msgs, OffsetLock(h, m) PROVE Acquire(h, m)
    BY <2>1 DEF OffsetLock, Acquire
  <2>2. CASE OffsetReturn(h)
    BY <2>2 DEF OffsetReturn, Return, Release
  <2> QED BY <1>4, <2>1, <2>2 DEF OffsetStep, OffsetBusy, OffsetAlreadySeen
<1>5. ASSUME NEW h \in Handlers, IOError(h) PROVE Release(h)
  BY <1>5 DEF IOError, Return, Release
<1>6. ASSUME NEW r \in Readers, ReadStep(r) PROVE UNCHANGED <<busy, pc, hm>>
  BY <1>6 DEF ReadStep, OpenReadCheck, OpenReadMessage, OpenReadContent,
     OpenReadEnd
<1>7. ASSUME NEW id \in Ids, NEW p \in Peers, PeerInfoStep(id, p)
      PROVE  UNCHANGED <<busy, pc, hm>>
  BY <1>7 DEF PeerInfoStep, SetPeerInfoTruncate, SetPeerInfoEncode
<1>8. CASE JanitorStep
  BY <1>8 DEF JanitorStep, JanitorFinds, JanitorUnlink, JanitorError,
     JanitorListedEmpty, JanitorRemoveDir, UnlinkFile, RemoveDir
<1>9. ASSUME NEW m \in Msgs, Expire(m) PROVE UNCHANGED <<busy, pc, hm>>
  BY <1>9 DEF Expire
<1>10. CASE Crash
  BY <1>10 DEF Crash, Reset
<1>11. CASE UNCHANGED vars
  BY <1>11
<1> QED BY <1>1, <1>2, <1>3, <1>4, <1>5, <1>6, <1>7, <1>8, <1>9, <1>10, <1>11
        DEF Next

\* lock and unlock: every step keeps the handlers and the map busy in agreement.
LEMMA LockStep ==
    ASSUME TypeOK, HandlersHaveMessages, LockDiscipline, [Next]_vars
    PROVE  HandlersHaveMessages' /\ LockDiscipline'
<1>t. /\ pc \in [Handlers -> HandlerPCs]
      /\ hm \in [Handlers -> Msgs \cup {NoMsg}]
      /\ busy \in SUBSET Ids
      /\ IdOf \in [Msgs -> Ids]
  BY ConstantsAssumption DEF TypeOK
<1> USE <1>t DEF HandlersHaveMessages, LockDiscipline, Working, Id
<1>1. ASSUME NEW h \in Handlers, NEW m \in Msgs, Acquire(h, m)
      PROVE  HandlersHaveMessages' /\ LockDiscipline'
  <2>1. PICK to \in HandlerPCs \ {"idle"} : pc' = [pc EXCEPT ![h] = to]
    BY <1>1 DEF Acquire
  <2>2. /\ pc'[h] # "idle" /\ hm'[h] = m
        /\ \A k \in Handlers \ {h} : pc'[k] = pc[k] /\ hm'[k] = hm[k]
        /\ busy' = busy \cup {IdOf[m]} /\ IdOf[m] \notin busy /\ pc[h] = "idle"
    BY <1>1, <2>1 DEF Acquire
  <2>3. HandlersHaveMessages'
    BY <2>2
  <2>4. ASSUME NEW id \in Ids
        PROVE  (id \in busy <=> \E k \in Handlers : Working(k, id))'
    BY <2>2
  <2>5. ASSUME NEW k1 \in Handlers, NEW k2 \in Handlers,
               pc'[k1] # "idle", pc'[k2] # "idle", Id(k1)' = Id(k2)', k1 # k2
        PROVE  FALSE
    <3>1. \A k \in Handlers \ {h} : pc[k] # "idle" => IdOf[hm[k]] # IdOf[m]
      BY <2>2
    <3> QED BY <2>2, <2>5, <3>1
  <2> QED BY <2>3, <2>4, <2>5
<1>2. ASSUME NEW h \in Handlers, Move(h)
      PROVE  HandlersHaveMessages' /\ LockDiscipline'
  <2>1. \A k \in Handlers : (pc'[k] = "idle") = (pc[k] = "idle")
    BY <1>2 DEF Move
  <2> QED BY <1>2, <2>1 DEF Move
<1>3. ASSUME NEW h \in Handlers, Release(h)
      PROVE  HandlersHaveMessages' /\ LockDiscipline'
  <2>1. /\ pc'[h] = "idle" /\ pc[h] # "idle"
        /\ \A k \in Handlers \ {h} : pc'[k] = pc[k] /\ hm'[k] = hm[k]
        /\ busy' = busy \ {IdOf[hm[h]]}
    BY <1>3 DEF Release
  <2>2. HandlersHaveMessages'
    BY <2>1
  <2>3. ASSUME NEW id \in Ids
        PROVE  (id \in busy <=> \E k \in Handlers : Working(k, id))'
    BY <2>1
  <2>4. ASSUME NEW k1 \in Handlers, NEW k2 \in Handlers,
               pc'[k1] # "idle", pc'[k2] # "idle", Id(k1)' = Id(k2)'
        PROVE  k1 = k2
    BY <2>1, <2>4
  <2> QED BY <2>2, <2>3, <2>4
<1>4. CASE Reset
  BY <1>4 DEF Reset
<1>5. CASE UNCHANGED <<busy, pc, hm>>
  BY <1>5
<1> QED BY LockEffect, <1>1, <1>2, <1>3, <1>4, <1>5

-----------------------------------------------------------------------------
(* Frames: what a step leaves alone.                                       *)

\* What matters of the disk is the same for id.
DiskSame(id) ==
    /\ isComplete(id)' = isComplete(id)
    /\ meta'[id] = meta[id]
    /\ content'[id] = content[id]
    /\ synced'[id] = synced[id]

\* Handler k is where it was.
HandlerSame(k) ==
    /\ pc'[k] = pc[k]
    /\ hm'[k] = hm[k]
    /\ hfile'[k] = hfile[k]
    /\ hlink'[k] = hlink[k]
    /\ hsum'[k] = hsum[k]

HandlerStep(h) ==
    OpenWriteStep(h) \/ WriteStep(h) \/ CloseStep(h) \/ OffsetStep(h) \/ IOError(h)

\* Every step that is neither a handler's nor a crash.
OtherStep ==
    \/ \E r \in Readers : ReadStep(r)
    \/ \E id \in Ids, p \in Peers : PeerInfoStep(id, p)
    \/ JanitorStep
    \/ \E m \in Msgs : Expire(m)
    \/ UNCHANGED vars

\* A step is one of OpenWrite, Write, Close or Offset, or one that never takes
\* the lock, or a crash.
LEMMA NextCases ==
    ASSUME [Next]_vars
    PROVE  (\E h \in Handlers : HandlerStep(h)) \/ OtherStep \/ Crash
BY DEF Next, HandlerStep, OtherStep

\* Message.Expired never changes its mind: an expired message stays expired.
LEMMA FreshIsStable ==
    ASSUME [Next]_vars
    PROVE  expired \subseteq expired' /\ \A id : Fresh(id)' => Fresh(id)
<1>1. ASSUME NEW h \in Handlers, HandlerStep(h) PROVE expired' = expired
  BY <1>1 DEF HandlerStep, OpenWriteStep, OpenWriteBusy, OpenWriteAlreadySeen,
     OpenWriteCollision, OpenWrite, CreateMessage, EncodeMessage,
     OpenContentIncorrectOffset, OpenContent, WriteStep, Write, WriteError,
     CloseStep, CloseBegin, Abandon, Sync, ClosePartial, CloseDone, CloseMismatch,
     MismatchUnlink, MismatchListedEmpty, MismatchRemoveDir, UnlinkFile,
     RemoveDir, OffsetStep, OffsetBusy, OffsetAlreadySeen, OffsetLock,
     OffsetReturn, IOError
<1>2. ASSUME OtherStep PROVE expired \subseteq expired'
  BY <1>2 DEF OtherStep, ReadStep, OpenReadCheck, OpenReadMessage,
     OpenReadContent, OpenReadEnd, PeerInfoStep, SetPeerInfoTruncate,
     SetPeerInfoEncode, JanitorStep, JanitorFinds, JanitorUnlink, JanitorError,
     JanitorListedEmpty, JanitorRemoveDir, UnlinkFile, RemoveDir, Expire
<1>3. ASSUME Crash PROVE expired' = expired
  BY <1>3 DEF Crash
<1>4. expired \subseteq expired'
  BY <1>1, <1>2, <1>3, NextCases
<1> QED BY <1>4 DEF Fresh

\* A handler's step leaves alone the other messages and the other handlers.
LEMMA HandlerFrame ==
    ASSUME TypeOK, HandlersHaveMessages, NEW h \in Handlers, HandlerStep(h)
    PROVE  /\ \A id \in Ids : pc[h] = "idle" \/ id # Id(h) => DiskSame(id)
           /\ \A k \in Handlers \ {h} :
                pc[k] # "idle" /\ (pc[h] = "idle" \/ Id(k) # Id(h))
                  => HandlerSame(k)
           /\ UNCHANGED <<readers, janitor>>
<1> DEFINE P == /\ \A id \in Ids : pc[h] = "idle" \/ id # Id(h) => DiskSame(id)
                /\ \A k \in Handlers \ {h} :
                     pc[k] # "idle" /\ (pc[h] = "idle" \/ Id(k) # Id(h))
                       => HandlerSame(k)
                /\ UNCHANGED <<readers, janitor>>
<1> USE DEF DiskSame, HandlerSame, isComplete
<1>t. /\ files \in [Ids -> SUBSET FileNames]
      /\ DOMAIN meta = Ids /\ DOMAIN content = Ids /\ DOMAIN synced = Ids
      /\ pc \in [Handlers -> HandlerPCs]
      /\ DOMAIN hm = Handlers /\ DOMAIN hfile = Handlers
      /\ hlink \in [Handlers -> BOOLEAN] /\ DOMAIN hsum = Handlers
      /\ pc[h] # "idle" => Id(h) \in Ids
      /\ meta = [id \in Ids |-> meta[id]] /\ content = [id \in Ids |-> content[id]]
      /\ synced = [id \in Ids |-> synced[id]] /\ hm = [k \in Handlers |-> hm[k]]
      /\ hfile = [k \in Handlers |-> hfile[k]] /\ hsum = [k \in Handlers |-> hsum[k]]
  BY ConstantsAssumption DEF TypeOK, HandlersHaveMessages, Id
<1>1. CASE OpenWriteStep(h)
  BY <1>1, <1>t DEF OpenWriteStep, OpenWriteBusy, OpenWriteAlreadySeen,
     OpenWriteCollision, OpenWrite, CreateMessage, EncodeMessage,
     OpenContentIncorrectOffset, OpenContent, Return, Goto
<1>2. CASE WriteStep(h)
  BY <1>2, <1>t DEF WriteStep, Write, WriteError
<1>3. CASE CloseStep(h)
  <2>1. ASSUME NEW f \in FileNames, MismatchUnlink(h, f) PROVE P
    BY <2>1, <1>t DEF MismatchUnlink, UnlinkFile
  <2>2. CASE MismatchRemoveDir(h)
    BY <2>2, <1>t DEF MismatchRemoveDir, RemoveDir, Return
  <2>3. CASE CloseDone(h)
    BY <2>3, <1>t DEF CloseDone, Return
  <2>4. CASE \/ CloseBegin(h) \/ Abandon(h) \/ Sync(h) \/ ClosePartial(h) \/ CloseMismatch(h)
             \/ MismatchListedEmpty(h)
    BY <2>4, <1>t DEF CloseBegin, Abandon, Sync, ClosePartial, CloseMismatch,
       MismatchListedEmpty, Return, Goto
  <2> QED BY <1>3, <2>1, <2>2, <2>3, <2>4 DEF CloseStep
<1>4. CASE OffsetStep(h) \/ IOError(h)
  BY <1>4, <1>t DEF OffsetStep, OffsetBusy, OffsetAlreadySeen, OffsetLock,
     OffsetReturn, IOError, Return
<1> QED BY <1>1, <1>2, <1>3, <1>4 DEF HandlerStep

\* The others leave alone the messages that are not expired, and their handlers.
LEMMA OtherFrame ==
    ASSUME TypeOK, HandlersHaveMessages, JanitorHasReason, OtherStep
    PROVE  /\ \A id \in Ids : Fresh(id) => DiskSame(id)
           /\ \A k \in Handlers : pc[k] # "idle" /\ Fresh(Id(k)) => HandlerSame(k)
           /\ \A id \in Ids : meta'[id] \in {meta[id], NoMsg}
<1> DEFINE P == /\ \A id \in Ids : Fresh(id) => DiskSame(id)
                /\ \A k \in Handlers : pc[k] # "idle" /\ Fresh(Id(k)) => HandlerSame(k)
                /\ \A id \in Ids : meta'[id] \in {meta[id], NoMsg}
<1> USE DEF DiskSame, HandlerSame, isComplete
<1>t. /\ files \in [Ids -> SUBSET FileNames]
      /\ DOMAIN meta = Ids /\ DOMAIN content = Ids /\ DOMAIN synced = Ids
      /\ meta = [id \in Ids |-> meta[id]] /\ content = [id \in Ids |-> content[id]]
      /\ synced = [id \in Ids |-> synced[id]]
      /\ hlink \in [Handlers -> BOOLEAN]
      /\ jid \in Ids
      /\ "done" \notin Peers
  BY ConstantsAssumption DEF TypeOK
<1>1. ASSUME NEW r \in Readers, ReadStep(r) PROVE P
  BY <1>1, <1>t DEF ReadStep, OpenReadCheck, OpenReadMessage, OpenReadContent,
     OpenReadEnd
<1>2. ASSUME NEW id \in Ids, NEW p \in Peers, PeerInfoStep(id, p) PROVE P
  BY <1>2, <1>t DEF PeerInfoStep, SetPeerInfoTruncate, SetPeerInfoEncode
<1>3. CASE JanitorStep
  <2>1. ASSUME NEW f \in FileNames, JanitorUnlink(f) PROVE P
    <3>1. ~ Fresh(jid)
      BY <2>1 DEF JanitorUnlink, JanitorHasReason
    <3> QED BY <2>1, <3>1, <1>t DEF JanitorUnlink, UnlinkFile
  <2>2. CASE \/ \E id \in Ids : JanitorFinds(id)
             \/ JanitorError \/ JanitorListedEmpty \/ JanitorRemoveDir
    BY <2>2, <1>t DEF JanitorFinds, JanitorError, JanitorListedEmpty,
       JanitorRemoveDir, RemoveDir
  <2> QED BY <1>3, <2>1, <2>2 DEF JanitorStep
<1>4. ASSUME NEW m \in Msgs, Expire(m) PROVE P
  BY <1>4 DEF Expire
<1>5. CASE UNCHANGED vars
  BY <1>5
<1> QED BY <1>1, <1>2, <1>3, <1>4, <1>5 DEF OtherStep

-----------------------------------------------------------------------------
(* The metadata and the janitor.                                           *)

\* What a handler does to the metadata: only writeMessage puts a message there,
\* the one of the handler.
LEMMA MetaEffect ==
    ASSUME TypeOK, HandlersHaveMessages, NEW h \in Handlers, HandlerStep(h),
           NEW id \in Ids
    PROVE  \/ meta'[id] \in {meta[id], NoMsg}
           \/ pc[h] = "encode" /\ id = Id(h) /\ meta'[id] = hm[h]
<1>t. meta \in [Ids -> Msgs \cup {NoMsg}] /\ (pc[h] # "idle" => Id(h) \in Ids)
  BY ConstantsAssumption DEF TypeOK, HandlersHaveMessages, Id
<1>1. CASE EncodeMessage(h)
  BY <1>1, <1>t DEF EncodeMessage
<1>2. CASE CreateMessage(h)
  BY <1>2, <1>t DEF CreateMessage
<1>3. ASSUME NEW f \in FileNames, MismatchUnlink(h, f)
      PROVE  meta'[id] \in {meta[id], NoMsg}
  BY <1>3, <1>t DEF MismatchUnlink, UnlinkFile
<1>4. CASE HandlerStep(h) /\ ~ EncodeMessage(h) /\ ~ CreateMessage(h)
           /\ ~ \E f \in FileNames : MismatchUnlink(h, f)
  BY <1>4 DEF HandlerStep, OpenWriteStep, OpenWriteBusy, OpenWriteAlreadySeen,
     OpenWriteCollision, OpenWrite, OpenContentIncorrectOffset, OpenContent,
     WriteStep, Write, WriteError, CloseStep, CloseBegin, Abandon, Sync, ClosePartial,
     CloseDone, CloseMismatch, MismatchListedEmpty, MismatchRemoveDir,
     RemoveDir, OffsetStep, OffsetBusy, OffsetAlreadySeen, OffsetLock,
     OffsetReturn, IOError
<1> QED BY <1>1, <1>2, <1>3, <1>4

\* writeMessage stores a message in the directory of its own id.
LEMMA MetaStep ==
    ASSUME TypeOK, HandlersHaveMessages, MetaHasId, JanitorHasReason, [Next]_vars
    PROVE  MetaHasId'
<1> SUFFICES ASSUME NEW id \in Ids PROVE (meta[id] # NoMsg => IdOf[meta[id]] = id)'
  BY DEF MetaHasId
<1>0. meta[id] # NoMsg => IdOf[meta[id]] = id
  BY DEF MetaHasId
<1>1. ASSUME NEW h \in Handlers, HandlerStep(h)
      PROVE  (meta[id] # NoMsg => IdOf[meta[id]] = id)'
  BY <1>0, <1>1, MetaEffect DEF Id
<1>2. CASE OtherStep
  BY <1>0, <1>2, OtherFrame
<1>3. CASE Crash
  BY <1>0, <1>3 DEF Crash
<1> QED BY <1>1, <1>2, <1>3, NextCases

\* The janitor removes what it has seen to be expired.
LEMMA JanitorStepKeepsReason ==
    ASSUME TypeOK, HandlersHaveMessages, MetaHasId, JanitorHasReason, [Next]_vars
    PROVE  JanitorHasReason'
<1>0. \A id : ~ Fresh(id) => ~ Fresh(id)'
  BY FreshIsStable
<1>1. ASSUME NEW h \in Handlers, HandlerStep(h) PROVE UNCHANGED janitor
  BY <1>1, HandlerFrame
<1>2. ASSUME NEW id \in Ids, JanitorFinds(id) PROVE jid' = id /\ ~ Fresh(id)
  <2>1. meta[id] \in expired /\ jid' = id
    BY <1>2 DEF JanitorFinds
  <2>2. meta[id] # NoMsg
    BY <2>1, ConstantsAssumption DEF TypeOK
  <2> QED BY <2>1, <2>2 DEF MetaHasId, Fresh
<1>3. ASSUME OtherStep, ~ \E id \in Ids : JanitorFinds(id)
      PROVE  jpc' # "idle" => jpc # "idle" /\ jid' = jid
  BY <1>3 DEF OtherStep, ReadStep, OpenReadCheck, OpenReadMessage,
     OpenReadContent, OpenReadEnd, PeerInfoStep, SetPeerInfoTruncate,
     SetPeerInfoEncode, JanitorStep, JanitorUnlink, JanitorError,
     JanitorListedEmpty, JanitorRemoveDir, UnlinkFile, RemoveDir, Expire
<1>4. ASSUME Crash PROVE jpc' = "idle"
  BY <1>4 DEF Crash
<1> QED BY <1>0, <1>1, <1>2, <1>3, <1>4, NextCases DEF JanitorHasReason

-----------------------------------------------------------------------------
(* What handlers, the done file and readers know.                          *)

\* The step of h itself.
LEMMA OwnStep ==
    ASSUME IInv, NEW h \in Handlers, HandlerStep(h), pc'[h] # "idle",
           Fresh(Id(h)')
    PROVE  HandlerKnows(h)'
<1> USE ConstantsAssumption DEF HandlerKnows, isComplete, Id
<1>t. /\ files \in [Ids -> SUBSET FileNames]
      /\ meta \in [Ids -> Msgs \cup {NoMsg}]
      /\ content \in [Ids -> Seq(Chunks)]
      /\ synced \in [Ids -> Nat]
      /\ pc \in [Handlers -> HandlerPCs]
      /\ hm \in [Handlers -> Msgs \cup {NoMsg}]
      /\ hfile \in [Handlers -> Seq(Chunks)]
      /\ hlink \in [Handlers -> BOOLEAN]
      /\ hsum \in [Handlers -> Seq(Chunks)]
  BY DEF IInv, TypeOK
<1>k. pc[h] # "idle" /\ hm'[h] = hm[h] => hm[h] \in Msgs /\ HandlerKnows(h)
  BY DEF IInv, HandlersHaveMessages, HandlersKnow
<1>1. ASSUME NEW m \in Msgs, OpenWrite(h, m) PROVE HandlerKnows(h)'
  BY <1>1, <1>t DEF OpenWrite
<1>2. ASSUME NEW m \in Msgs, OffsetLock(h, m) PROVE HandlerKnows(h)'
  BY <1>2, <1>t DEF OffsetLock
<1>3. CASE CreateMessage(h)
  BY <1>3, <1>t, <1>k DEF CreateMessage, Goto
<1>4. CASE EncodeMessage(h)
  BY <1>4, <1>t, <1>k DEF EncodeMessage, Goto
<1>5. ASSUME NEW offset \in 0 .. MaxSize, OpenContent(h, offset)
      PROVE  HandlerKnows(h)'
  BY <1>5, <1>t, <1>k DEF OpenContent
<1>6. ASSUME NEW c \in Chunks, Write(h, c) PROVE HandlerKnows(h)'
  BY <1>6, <1>t, <1>k DEF Write
<1>7. ASSUME NEW c \in Chunks, WriteError(h, c) PROVE HandlerKnows(h)'
  BY <1>7, <1>t, <1>k DEF WriteError
<1>8. CASE CloseBegin(h) \/ Abandon(h)
  BY <1>8, <1>t, <1>k DEF CloseBegin, Abandon, Goto
<1>9. CASE Sync(h)
  BY <1>9, <1>t, <1>k DEF Sync, Goto
<1>10. CASE CloseMismatch(h) \/ MismatchListedEmpty(h)
  BY <1>10, <1>t, <1>k DEF CloseMismatch, MismatchListedEmpty, Goto
<1>11. ASSUME NEW f \in FileNames, MismatchUnlink(h, f) PROVE HandlerKnows(h)'
  BY <1>11, <1>t, <1>k DEF MismatchUnlink, UnlinkFile
<1>12. ASSUME Return(h) PROVE FALSE
  BY <1>12, <1>t DEF Return
<1>13. ASSUME NEW m \in Msgs,
              \/ OpenWriteBusy(h, m) \/ OpenWriteAlreadySeen(h, m)
              \/ OpenWriteCollision(h, m)
              \/ OffsetBusy(h, m) \/ OffsetAlreadySeen(h, m)
       PROVE  FALSE
  BY <1>13 DEF OpenWriteBusy, OpenWriteAlreadySeen, OpenWriteCollision,
     OffsetBusy, OffsetAlreadySeen
<1> QED BY <1>1, <1>2, <1>3, <1>4, <1>5, <1>6, <1>7, <1>8, <1>9, <1>10, <1>11,
           <1>12, <1>13
        DEF HandlerStep, OpenWriteStep, WriteStep, CloseStep, OffsetStep,
            OpenContentIncorrectOffset, ClosePartial, CloseDone,
            MismatchRemoveDir, OffsetReturn, IOError

\* A handler that was left alone, with its message, knows what it knew.
LEMMA SameKnows ==
    ASSUME NEW k \in Handlers, HandlerKnows(k), HandlerSame(k), DiskSame(Id(k))
    PROVE  HandlerKnows(k)'
BY DEF HandlerKnows, HandlerSame, DiskSame, Id, isComplete

\* Between lock and unlock of OpenWrite, Write and Close, a handler keeps its
\* knowledge whatever the others do.
LEMMA HandlersKnowStep ==
    ASSUME IInv, [Next]_vars
    PROVE  HandlersKnow'
<1> SUFFICES ASSUME NEW k \in Handlers, pc'[k] # "idle", Fresh(Id(k))'
             PROVE  HandlerKnows(k)'
  BY DEF HandlersKnow
<1>0. Fresh(Id(k)')
  BY FreshIsStable DEF Fresh
<1>i. TypeOK /\ HandlersHaveMessages /\ JanitorHasReason
  BY DEF IInv
<1>1. ASSUME NEW h \in Handlers, HandlerStep(h) PROVE HandlerKnows(k)'
  <2>1. CASE k = h
    BY <1>0, <1>1, <2>1, OwnStep
  <2>2. CASE k # h
    <3>1. pc[k] = "idle" => pc'[k] = "idle"
      <4>1. pc'[k] = pc[k]
        BY <1>1, <1>i, <2>2 DEF TypeOK, HandlerStep, OpenWriteStep,
           OpenWriteBusy, OpenWriteAlreadySeen, OpenWriteCollision, OpenWrite,
           CreateMessage, EncodeMessage, OpenContentIncorrectOffset,
           OpenContent, WriteStep, Write, WriteError, CloseStep, CloseBegin, Abandon,
           Sync, ClosePartial, CloseDone, CloseMismatch, MismatchUnlink,
           MismatchListedEmpty, MismatchRemoveDir, OffsetStep, OffsetBusy,
           OffsetAlreadySeen, OffsetLock, OffsetReturn, IOError, Return, Goto
      <4> QED BY <4>1
    <3>2. pc[k] # "idle"
      BY <3>1
    <3>3. pc[h] = "idle" \/ Id(k) # Id(h)
      BY <3>2, <2>2 DEF IInv, LockDiscipline
    <3>4. HandlerSame(k)
      BY <1>1, <1>i, <2>2, <3>2, <3>3, HandlerFrame
    <3>5. Id(k) \in Ids /\ Id(k)' = Id(k)
      BY <1>i, <3>2, <3>4, ConstantsAssumption
         DEF HandlersHaveMessages, HandlerSame, Id
    <3>6. DiskSame(Id(k))
      BY <1>1, <1>i, <3>3, <3>5, HandlerFrame
    <3>7. HandlerKnows(k)
      BY <1>0, <3>2, <3>5 DEF IInv, HandlersKnow
    <3> QED BY <3>4, <3>6, <3>7, SameKnows
  <2> QED BY <2>1, <2>2
<1>2. CASE OtherStep
  <2>1. UNCHANGED <<pc, hm>>
    BY <1>2 DEF OtherStep, ReadStep, OpenReadCheck, OpenReadMessage,
       OpenReadContent, OpenReadEnd, PeerInfoStep, SetPeerInfoTruncate,
       SetPeerInfoEncode, JanitorStep, JanitorFinds, JanitorUnlink,
       JanitorError, JanitorListedEmpty, JanitorRemoveDir, UnlinkFile,
       RemoveDir, Expire
  <2>2. pc[k] # "idle" /\ Fresh(Id(k))
    BY <1>0, <2>1 DEF Id
  <2>3. HandlerSame(k)
    BY <1>2, <1>i, <2>2, OtherFrame
  <2>4. Id(k) \in Ids
    BY <1>i, <2>2, ConstantsAssumption DEF HandlersHaveMessages, Id
  <2>5. DiskSame(Id(k))
    BY <1>2, <1>i, <2>2, <2>4, OtherFrame
  <2>6. HandlerKnows(k)
    BY <2>2 DEF IInv, HandlersKnow
  <2> QED BY <2>3, <2>5, <2>6, SameKnows
<1>3. CASE Crash
  BY <1>3 DEF Crash
<1> QED BY <1>1, <1>2, <1>3, NextCases

\* A complete message that is not expired is left alone by every step but a
\* crash.
LEMMA CompleteIsLeftAlone ==
    ASSUME IInv, [Next]_vars, NEW id \in Ids, isComplete(id), Fresh(id), ~ Crash
    PROVE  DiskSame(id)
<1>i. TypeOK /\ HandlersHaveMessages /\ JanitorHasReason
  BY DEF IInv
<1>1. ASSUME NEW h \in Handlers, HandlerStep(h) PROVE DiskSame(id)
  <2>1. pc[h] = "idle" \/ id # Id(h)
    BY DEF IInv, HandlersKnow, HandlerKnows
  <2> QED BY <1>1, <1>i, <2>1, HandlerFrame
<1>2. CASE OtherStep
  BY <1>2, <1>i, OtherFrame
<1> QED BY <1>1, <1>2, NextCases

\* Only Close, which has verified the content, completes a message.
LEMMA OnlyCloseCompletes ==
    ASSUME TypeOK, HandlersHaveMessages, NEW h \in Handlers, HandlerStep(h),
           NEW id \in Ids, isComplete(id)', ~ isComplete(id)
    PROVE  CloseDone(h) /\ pc[h] # "idle" /\ Id(h) = id
<1>t. files \in [Ids -> SUBSET FileNames] /\ (pc[h] # "idle" => Id(h) \in Ids)
  BY ConstantsAssumption DEF TypeOK, HandlersHaveMessages, Id
<1> USE <1>t DEF isComplete
<1>1. CASE CloseDone(h)
  BY <1>1 DEF CloseDone
<1>2. CASE HandlerStep(h) /\ ~ CloseDone(h)
  BY <1>2, SMTT(30) DEF HandlerStep, OpenWriteStep, OpenWriteBusy, OpenWriteAlreadySeen,
     OpenWriteCollision, OpenWrite, CreateMessage, EncodeMessage,
     OpenContentIncorrectOffset, OpenContent, WriteStep, Write, WriteError,
     CloseStep, CloseBegin, Abandon, Sync, ClosePartial, CloseMismatch, MismatchUnlink,
     MismatchListedEmpty, MismatchRemoveDir, UnlinkFile, RemoveDir, OffsetStep,
     OffsetBusy, OffsetAlreadySeen, OffsetLock, OffsetReturn, IOError
<1> QED BY <1>1, <1>2

\* The done file: Close writes it for a verified content only, and nothing but
\* the janitor touches the content afterwards.
LEMMA DoneStep ==
    ASSUME IInv, [Next]_vars
    PROVE  DoneMeansVerified'
<1> DEFINE Verified(id) == \E m \in Msgs : /\ IdOf[m] = id
                                           /\ meta[id] \in {m, NoMsg}
                                           /\ content[id] = Content[m]
                                           /\ synced[id] = Len(content[id])
<1> SUFFICES ASSUME NEW id \in Ids, isComplete(id)', Fresh(id)'
             PROVE  Verified(id)'
  BY DEF DoneMeansVerified
<1>0. Fresh(id)
  BY FreshIsStable
<1>i. TypeOK /\ HandlersHaveMessages /\ JanitorHasReason
  BY DEF IInv
<1>1. ASSUME isComplete(id), ~ Crash PROVE Verified(id)'
  <2>1. DiskSame(id)
    BY <1>0, <1>1, CompleteIsLeftAlone
  <2>2. Verified(id)
    BY <1>0, <1>1 DEF IInv, DoneMeansVerified
  <2> QED BY <2>1, <2>2 DEF DiskSame
<1>2. ASSUME NEW h \in Handlers, HandlerStep(h), ~ isComplete(id)
      PROVE  Verified(id)'
  <2>1. CloseDone(h) /\ pc[h] # "idle" /\ Id(h) = id
    BY <1>2, <1>i, OnlyCloseCompletes
  <2>2. HandlerKnows(h) /\ pc[h] = "finish"
    BY <1>0, <2>1 DEF IInv, HandlersKnow, CloseDone
  <2>3. hm[h] \in Msgs
    BY <1>i, <2>1 DEF HandlersHaveMessages
  <2>4. content[id] = Content[hm[h]]
    <3>1. hsum[h] = Content[hm[h]] /\ Len(hfile[h]) = Len(hsum[h])
      BY <2>1 DEF CloseDone, Length
    <3>2. hfile[h] \in Seq(Chunks)
      BY <1>i DEF TypeOK
    <3>3. Len(hfile[h]) # Len(hfile[h]) + 1
      BY <3>2
    <3> QED BY <2>1, <2>2, <3>1, <3>3 DEF HandlerKnows
  <2>5. /\ meta[id] \in {hm[h], NoMsg}
        /\ synced[id] = Len(content[id])
        /\ IdOf[hm[h]] = id
    BY <2>1, <2>2 DEF HandlerKnows, Id
  <2>6. UNCHANGED <<meta, content, synced>>
    BY <2>1 DEF CloseDone
  <2> QED BY <2>3, <2>4, <2>5, <2>6
<1>3. ASSUME OtherStep, ~ isComplete(id) PROVE FALSE
  BY <1>0, <1>3, <1>i, OtherFrame DEF DiskSame
<1>4. CASE Crash
  <2>1. isComplete(id) /\ meta'[id] \in {meta[id], NoMsg}
    BY <1>4 DEF Crash, isComplete
  <2>2. PICK m \in Msgs : /\ IdOf[m] = id
                          /\ meta[id] \in {m, NoMsg}
                          /\ content[id] = Content[m]
                          /\ synced[id] = Len(content[id])
    BY <1>0, <2>1 DEF IInv, DoneMeansVerified
  <2>3. content'[id] = content[id] /\ synced'[id] = synced[id]
    BY <1>4, <1>i, <2>2, CrashKeepsPrefix
  <2> QED BY <2>1, <2>2, <2>3
<1> QED BY <1>1, <1>2, <1>3, <1>4, NextCases

\* OpenRead without the lock: what isComplete said stays true until the message
\* expires.
LEMMA ReadersKnowStep ==
    ASSUME IInv, [Next]_vars
    PROVE  ReadersKnow'
<1> DEFINE Knows(r) == /\ isComplete(rid[r])
                       /\ rpc[r] = "opening" => content[rid[r]] = Content[rmsg[r]]
                       /\ rpc[r] = "open" => rdata[r] = Content[rmsg[r]]
<1> SUFFICES ASSUME NEW r \in Readers, rpc'[r] # "idle", Fresh(rid[r])'
             PROVE  Knows(r)'
  BY DEF ReadersKnow
<1>t. /\ rid \in [Readers -> Ids] /\ rmsg \in [Readers -> Msgs \cup {NoMsg}]
      /\ rpc \in [Readers -> ReaderPCs] /\ rdata \in [Readers -> Seq(Chunks)]
      /\ files \in [Ids -> SUBSET FileNames]
  BY DEF IInv, TypeOK
<1>0. Fresh(rid'[r])
  BY FreshIsStable DEF Fresh
<1>1. ASSUME rpc'[r] = rpc[r], rid'[r] = rid[r], rmsg'[r] = rmsg[r],
             rdata'[r] = rdata[r], ~ Crash
      PROVE  Knows(r)'
  <2>1. Knows(r)
    BY <1>0, <1>1 DEF IInv, ReadersKnow
  <2>2. DiskSame(rid[r])
    BY <1>0, <1>1, <1>t, <2>1, CompleteIsLeftAlone
  <2> QED BY <1>1, <2>1, <2>2 DEF DiskSame, isComplete
<1>2. ASSUME NEW id \in Ids, OpenReadCheck(r, id) PROVE Knows(r)'
  BY <1>2, <1>t DEF OpenReadCheck, isComplete
<1>3. CASE OpenReadMessage(r)
  <2>1. Knows(r) /\ rid'[r] = rid[r]
    BY <1>0, <1>3 DEF IInv, ReadersKnow, OpenReadMessage
  <2>2. content[rid[r]] = Content[meta[rid[r]]]
    BY <1>0, <1>3, <1>t, <2>1 DEF IInv, DoneMeansVerified, OpenReadMessage
  <2> QED BY <1>3, <1>t, <2>1, <2>2 DEF OpenReadMessage, isComplete
<1>4. CASE OpenReadContent(r)
  <2>1. Knows(r) /\ rid'[r] = rid[r]
    BY <1>0, <1>4 DEF IInv, ReadersKnow, OpenReadContent
  <2> QED BY <1>4, <1>t, <2>1 DEF OpenReadContent, isComplete
<1>5. ASSUME OpenReadEnd(r) PROVE FALSE
  BY <1>5, <1>t DEF OpenReadEnd, ReaderReturn
<1>6. ASSUME NEW q \in Readers, q # r, ReadStep(q)
      PROVE  /\ rpc'[r] = rpc[r] /\ rid'[r] = rid[r]
             /\ rmsg'[r] = rmsg[r] /\ rdata'[r] = rdata[r]
  BY <1>6, <1>t DEF ReadStep, OpenReadCheck, OpenReadMessage, OpenReadContent,
     OpenReadEnd, ReaderReturn
<1>7. ASSUME NEW h \in Handlers, HandlerStep(h) PROVE UNCHANGED readers
  BY <1>7, HandlerFrame DEF IInv
<1>8. ASSUME OtherStep, ~ \E q \in Readers : ReadStep(q) PROVE UNCHANGED readers
  BY <1>8 DEF OtherStep, PeerInfoStep, SetPeerInfoTruncate, SetPeerInfoEncode,
     JanitorStep, JanitorFinds, JanitorUnlink, JanitorError,
     JanitorListedEmpty, JanitorRemoveDir, UnlinkFile, RemoveDir, Expire
<1>9. ASSUME Crash PROVE FALSE
  BY <1>9 DEF Crash
<1>10. ASSUME NEW q \in Readers, ReadStep(q) PROVE Knows(r)'
  <2>1. CASE q = r
    BY <1>2, <1>3, <1>4, <1>5, <1>10, <2>1 DEF ReadStep
  <2>2. CASE q # r
    BY <1>1, <1>6, <1>9, <1>10, <2>2
  <2> QED BY <2>1, <2>2
<1>11. ASSUME UNCHANGED readers PROVE Knows(r)'
  BY <1>1, <1>9, <1>11
<1> QED BY <1>7, <1>8, <1>9, <1>10, <1>11, NextCases

-----------------------------------------------------------------------------
(* The theorems.                                                           *)

\* The empty directory of NewFileStorage satisfies the invariant.
LEMMA InitIInv == Init => IInv
<1> SUFFICES ASSUME Init PROVE IInv
  OBVIOUS
<1>1. TypeOK
  BY ConstantsAssumption DEF Init, TypeOK, FileNames, HandlerPCs, ReaderPCs
<1>2. HandlersHaveMessages /\ LockDiscipline /\ HandlersKnow
  BY DEF Init, HandlersHaveMessages, LockDiscipline, Working, HandlersKnow
<1>3. MetaHasId /\ JanitorHasReason /\ DoneMeansVerified /\ ReadersKnow
  BY DEF Init, MetaHasId, JanitorHasReason, DoneMeansVerified, ReadersKnow,
     isComplete
<1> QED BY <1>1, <1>2, <1>3 DEF IInv

\* Every step of the storage keeps the invariant.
LEMMA NextIInv == IInv /\ [Next]_vars => IInv'
<1> SUFFICES ASSUME IInv, [Next]_vars PROVE IInv'
  OBVIOUS
<1>i. /\ TypeOK /\ HandlersHaveMessages /\ LockDiscipline /\ MetaHasId
      /\ JanitorHasReason
  BY DEF IInv
<1>1. TypeOK'
  BY <1>i, TypeHandler, TypeOther DEF Next
<1>2. HandlersHaveMessages' /\ LockDiscipline'
  BY <1>i, LockStep
<1>3. MetaHasId'
  BY <1>i, MetaStep
<1>4. JanitorHasReason'
  BY <1>i, JanitorStepKeepsReason
<1>5. HandlersKnow' /\ DoneMeansVerified' /\ ReadersKnow'
  BY HandlersKnowStep, DoneStep, ReadersKnowStep
<1> QED BY <1>1, <1>2, <1>3, <1>4, <1>5 DEF IInv

\* The invariant of storage.go that all the properties below follow from.
THEOREM Invariance == Spec => []IInv
BY InitIInv, NextIInv, PTL DEF Spec

\* Every variable keeps its type, and no file outlives its directory.
THEOREM TypeCorrectness == Spec => []TypeOK
<1>1. IInv => TypeOK
  BY DEF IInv
<1> QED BY <1>1, Invariance, PTL

\* A message is never opened for writing twice at the same time, and no return
\* path of OpenWrite, Offset or Close leaks the lock.
THEOREM Locking == Spec => []LockDiscipline
<1>1. IInv => LockDiscipline
  BY DEF IInv
<1> QED BY <1>1, Invariance, PTL

\* The done file is a certificate: the content is the announced one, and durable.
THEOREM DoneIsCertificate == Spec => []DoneMeansVerified
<1>1. IInv => DoneMeansVerified
  BY DEF IInv
<1> QED BY <1>1, Invariance, PTL

\* OpenRead gives out verified content only (for messages that are not expired).
THEOREM ReadersAreSafe == Spec => []ReadersSeeVerifiedContent
<1>1. IInv => ReadersSeeVerifiedContent
  BY DEF IInv, ReadersKnow, ReadersSeeVerifiedContent
<1> QED BY <1>1, Invariance, PTL

\* A complete message is never changed or taken back before it expires.
THEOREM CompleteStaysComplete == Spec => CompleteIsFinal
<1> DEFINE A == \A id \in Ids : isComplete(id) /\ Fresh(id)' =>
                    /\ isComplete(id)'
                    /\ content'[id] = content[id]
                    /\ meta'[id] \in {meta[id], NoMsg}
<1>1. ASSUME IInv, [Next]_vars PROVE [A]_vars
  <2> SUFFICES ASSUME NEW id \in Ids, isComplete(id), Fresh(id)'
               PROVE  /\ isComplete(id)'
                      /\ content'[id] = content[id]
                      /\ meta'[id] \in {meta[id], NoMsg}
    OBVIOUS
  <2>0. Fresh(id)
    BY <1>1, FreshIsStable
  <2>1. CASE ~ Crash
    BY <1>1, <2>0, <2>1, CompleteIsLeftAlone DEF DiskSame
  <2>2. CASE Crash
    <3>1. isComplete(id)' /\ meta'[id] \in {meta[id], NoMsg}
      BY <2>2 DEF Crash, isComplete
    <3>2. synced[id] = Len(content[id])
      BY <1>1, <2>0 DEF IInv, DoneMeansVerified
    <3>3. content'[id] = content[id]
      BY <1>1, <2>2, <3>2, CrashKeepsPrefix DEF IInv
    <3> QED BY <3>1, <3>3
  <2> QED BY <2>1, <2>2
<1>2. IInv /\ [Next]_vars => [A]_vars
  BY <1>1
<1> QED BY <1>2, Invariance, PTL DEF Spec, CompleteIsFinal

\* The offset that a sender resumes from stays valid: a transfer only appends.
THEOREM OffsetsStayValid == Spec => TransferOnlyAppends
<1> DEFINE Appended(id) ==
             /\ Len(content[id]) <= Len(content'[id])
             /\ content[id] = SubSeq(content'[id], 1, Len(content[id]))
           A == \A id \in Ids :
                  \/ Appended(id)
                  \/ crashes' # crashes
                  \/ ~ Fresh(id)
                  \/ \E h \in Handlers : pc[h] = "unlink" /\ Id(h) = id
<1>1. ASSUME IInv, [Next]_vars PROVE A
  <2> SUFFICES ASSUME NEW id \in Ids, crashes' = crashes, Fresh(id),
                      \A h \in Handlers : ~ (pc[h] = "unlink" /\ Id(h) = id)
               PROVE  Appended(id)
    OBVIOUS
  <2>i. TypeOK /\ HandlersHaveMessages /\ JanitorHasReason
    BY <1>1 DEF IInv
  <2>t. content[id] \in Seq(Chunks) /\ content \in [Ids -> Seq(Chunks)]
    BY <2>i DEF TypeOK
  <2>0. ASSUME content'[id] = content[id] PROVE Appended(id)
    BY <2>0, <2>t, SubSeqFull
  <2>1. ASSUME NEW h \in Handlers, NEW c \in Chunks, Write(h, c) PROVE Appended(id)
    <3>1. hm[h] \in Msgs /\ Id(h) \in Ids /\ pc[h] = "write"
      BY <2>1, <2>i, ConstantsAssumption DEF HandlersHaveMessages, Id, Write
    <3>2. CASE Id(h) # id
      BY <2>0, <2>1, <2>t, <3>1, <3>2 DEF Write
    <3>3. CASE Id(h) = id
      <4>1. content[id] = hfile[h] /\ hlink[h]
        BY <1>1, <3>1, <3>3 DEF IInv, HandlersKnow, HandlerKnows
      <4>2. content'[id] = Append(content[id], c)
        BY <2>1, <2>t, <3>3, <4>1 DEF Write
      <4>3. Append(content[id], c) = content[id] \o <<c>>
        BY <2>t
      <4>4. SubSeq(Append(content[id], c), 1, Len(content[id])) = content[id]
        <5>1. CASE content[id] = << >>
          BY <5>1, SubSeqEmpty
        <5>2. CASE content[id] # << >>
          <6>1. Len(content[id]) \in 1 .. Len(content[id])
                /\ 1 \in 1 .. Len(content[id])
            BY <2>t, <5>2
          <6>2. SubSeq(content[id] \o <<c>>, 1, Len(content[id]))
                  = SubSeq(content[id], 1, Len(content[id]))
            BY <2>t, <6>1, SubSeqOfConcat1
          <6> QED BY <2>t, <4>3, <6>2, SubSeqFull
        <5> QED BY <5>1, <5>2
      <4> QED BY <2>t, <4>2, <4>4
    <3> QED BY <3>2, <3>3
  <2>2. ASSUME NEW h \in Handlers, HandlerStep(h), ~ \E c \in Chunks : Write(h, c)
        PROVE  content'[id] = content[id]
    <3>1. CASE pc[h] = "unlink"
      <4>1. id # Id(h)
        BY <3>1
      <4> QED BY <2>2, <2>i, <4>1, HandlerFrame DEF DiskSame
    <3>2. CASE pc[h] # "unlink"
      BY <2>2, <3>2 DEF HandlerStep, OpenWriteStep, OpenWriteBusy,
         OpenWriteAlreadySeen, OpenWriteCollision, OpenWrite, CreateMessage,
         EncodeMessage, OpenContentIncorrectOffset, OpenContent, WriteStep,
         WriteError, CloseStep, CloseBegin, Abandon, Sync, ClosePartial, CloseDone,
         CloseMismatch, MismatchUnlink, MismatchListedEmpty,
         MismatchRemoveDir, RemoveDir, OffsetStep, OffsetBusy,
         OffsetAlreadySeen, OffsetLock, OffsetReturn, IOError
    <3> QED BY <3>1, <3>2
  <2>3. ASSUME OtherStep PROVE content'[id] = content[id]
    BY <2>3, <2>i, OtherFrame DEF DiskSame
  <2>4. ASSUME Crash PROVE FALSE
    BY <2>4, <2>i DEF Crash, TypeOK
  <2> QED BY <1>1, <2>0, <2>1, <2>2, <2>3, <2>4, NextCases
<1>2. IInv /\ [Next]_vars => [A]_vars
  BY <1>1
<1> QED BY <1>2, Invariance, PTL DEF Spec, TransferOnlyAppends

-----------------------------------------------------------------------------
(* Push.                                                                   *)

USE DEF sender, call, others, storage, tally, pushVars

-----------------------------------------------------------------------------
(* The inductive invariant.                                                *)

\* No message expires here, so the janitor has nothing to do.
Quiet == expired = {} /\ jpc = "idle"

\* An offset is the size of a file, or was once.
Bounded ==
    /\ \A id \in Ids : Len(content[id]) <= MaxSize
    /\ \A h \in Handlers : Len(hfile[h]) <= MaxSize /\ hoff[h] <= MaxSize
    /\ \A s \in Senders : soff[s] <= MaxSize

Opening == {"idle", "create", "encode", "open"}
Closing == {"close", "finish", "unlink", "rmdir"}

\* Where a handler is in the storage, given the call that it serves.
Serving(h) ==
    /\ hcall[h] = "free" => pc[h] = "idle" /\ hin[h] = << >> /\ hend[h] = "open"
    /\ hcall[h] # "free" => hs[h] \in Senders
    /\ hcall[h] = "push" => pc[h] \in Opening
    /\ hcall[h] = "recv" => pc[h] \in {"write"} \cup Closing
    /\ hcall[h] = "fail" => pc[h] \in Closing
    /\ hcall[h] = "offset" => pc[h] \in {"idle", "offset"}
    /\ pc[h] # "idle" => hm[h] = Msg(h)

\* A sender whose call is served agrees with the handler on the call, on how far
\* the stream is, and on whether r was where it should be.
Linked(s) ==
    scall[s] # NoCall =>
        LET h == scall[s] IN
        /\ hs[h] = s
        /\ sres[s] = "none"
        /\ \/ cpc[s] = "send" /\ hend[h] = "open" /\ hcall[h] \in {"push", "recv", "fail"}
           \/ cpc[s] = "finish" /\ hend[h] = "eof" /\ hcall[h] \in {"push", "recv", "fail"}
           \/ cpc[s] = "offset" /\ hcall[h] = "offset"
        /\ hcall[h] # "offset" => rewound[s] = hgood[h]

\* Only a reader at its end is ever elsewhere than offset says.
AtOffset(s) ==
    /\ cpc[s] = "push" => spos[s] = soff[s] \/ spos[s] >= Length(Sends[s])
    /\ cpc[s] = "send" => rewound[s] \/ spos[s] >= Length(Sends[s])
    /\ cpc[s] = "finish" => spos[s] >= Length(Sends[s])

\* The size of the content when everything that was taken from the stream is
\* stored.
Taken(h) == IF hcall[h] = "push" THEN hoff[h] ELSE Len(hfile[h])

\* What is on its way continues what the handler has (or will find), and reaches
\* as far as the sender has read.
Stream(h) ==
    /\ hcall[h] \in {"push", "recv"} /\ pc[h] \notin Closing =>
         /\ ~ hgood[h] => hin[h] = << >>
         /\ \A i \in 1 .. Len(hin[h]) :
              /\ Taken(h) + i <= Length(Msg(h))
              /\ hin[h][i] = Content[Msg(h)][Taken(h) + i]
         /\ hgood[h] /\ scall[hs[h]] = h => spos[hs[h]] = Taken(h) + Len(hin[h])
         /\ hgood[h] /\ hend[h] = "eof" => Taken(h) + Len(hin[h]) >= Length(Msg(h))
    /\ hcall[h] = "recv" /\ pc[h] \in Closing /\ hgood[h] =>
         Len(hfile[h]) >= Length(Msg(h))

\* Messages that share this id may have been mixed up after a crash.
Mixed(id) == crashes > 0 /\ Shared(id)

\* What a handler knows of the files of its message.
Holds(h) ==
    /\ pc[h] = "create" => meta[Id(h)] = NoMsg
    /\ pc[h] = "encode" => "message" \in files[Id(h)]
    /\ pc[h] \in {"open", "write", "close", "finish"} => meta[Id(h)] = hm[h]
    /\ pc[h] \in {"close", "finish"} /\ hsum[h] # hfile[h] =>
         Len(hfile[h]) < Length(hm[h])
    /\ pc[h] \in {"unlink", "rmdir"} => Mixed(Id(h))

\* A call fails because its connection broke or because of an error of Write.
Failing(h) ==
    /\ hend[h] = "broken" => breaks > 0
    /\ hcall[h] = "fail" => breaks > 0 \/ hsum[h] # hfile[h]

\* The content of an id is a prefix of what its message announces; without
\* metadata, of what any message with that id announces.
Prefixes ==
    \A m \in Msgs :
        meta[IdOf[m]] \in {m, NoMsg} /\ ~ Mixed(IdOf[m]) => HoldsPrefix(IdOf[m], m)

\* A result that counts as success is one.
Truthful(s) ==
    /\ sres[s] = "seen" => SomeStored(Sends[s])
    /\ sres[s] = "ok" /\ rewound[s] => Stored(Sends[s])

\* What is recorded as Sent is.
Recorded(s) ==
    /\ cpc[s] = "sent" /\ rewound[s] => Stored(Sends[s])
    /\ cpc[s] = "seen" => SomeStored(Sends[s])

\* The invariant without what refers to the storage's own invariant.
CallInv ==
    /\ PushTypeOK
    /\ Quiet
    /\ Bounded
    /\ \A h \in Handlers : Serving(h)
    /\ \A s \in Senders : Linked(s) /\ AtOffset(s)

PIInv ==
    /\ IInv
    /\ CallInv
    /\ \A h \in Handlers : Stream(h) /\ Holds(h) /\ Failing(h)
    /\ Prefixes
    /\ \A s \in Senders : Truthful(s)
    /\ SentIsStored
    /\ PublishedIsComplete
    /\ \A id \in Ids : isComplete(id) /\ breaks = 0 /\ ~ doneFailed => Published(id)

-----------------------------------------------------------------------------
(* Push uses the storage as FileStorage says.                              *)

\* What a handler passes to the storage has the type that the storage expects:
\* the message and the offset of the call, and the next chunk of the stream.
LEMMA Arguments ==
    ASSUME CallInv, NEW h \in Handlers
    PROVE  /\ hcall[h] # "free" => hs[h] \in Senders /\ Msg(h) \in Msgs
           /\ hoff[h] \in 0 .. MaxSize
           /\ hin[h] # << >> => /\ Head(hin[h]) \in Chunks
                               /\ Head(hin[h]) = hin[h][1]
                               /\ Len(hin[h]) \in Nat \ {0}
           /\ pc[h] # "idle" => hcall[h] # "free" /\ hm[h] = Msg(h)
<1>1. /\ hcall[h] # "free" => hs[h] \in Senders
      /\ pc[h] # "idle" => hcall[h] # "free" /\ hm[h] = Msg(h)
  BY DEF CallInv, Serving
<1>2. hcall[h] # "free" => Msg(h) \in Msgs
  BY <1>1, PushAssumption DEF Msg
<1>3. hoff[h] \in 0 .. MaxSize
  BY ConstantsAssumption DEF CallInv, PushTypeOK, Bounded
<1>4. hin[h] \in Seq(Chunks)
  BY DEF CallInv, PushTypeOK
<1>5. hin[h] # << >> => /\ Head(hin[h]) \in Chunks
                        /\ Head(hin[h]) = hin[h][1]
                        /\ Len(hin[h]) \in Nat \ {0}
  BY <1>4, HeadTailProperties, EmptySeq, LenProperties
<1> QED BY <1>1, <1>2, <1>3, <1>5


\* Every step of a handler of Push and ResumeOffset is one of the storage, or
\* does not touch it.
LEMMA HandlerRefines ==
    ASSUME CallInv, NEW h \in Handlers,
           \/ ServerStep(h) \/ ReceiveError(h) \/ ServerError(h) \/ DoneError(h)
    PROVE  HandlerStep(h)
<1>a. /\ hcall[h] # "free" => Msg(h) \in Msgs
      /\ hoff[h] \in 0 .. MaxSize
      /\ hin[h] # << >> => Head(hin[h]) \in Chunks
  BY Arguments
<1>1. CASE PushRefused(h) \/ PushOpens(h)
  BY <1>1, <1>a DEF PushRefused, PushOpens, HandlerStep, OpenWriteStep
<1>2. CASE PushIncorrectOffset(h) \/ PushOpened(h)
  BY <1>2, <1>a DEF PushIncorrectOffset, PushOpened, HandlerStep, OpenWriteStep
<1>3. CASE Receive(h) \/ ReceiveError(h)
  BY <1>3, <1>a DEF Receive, ReceiveError, HandlerStep, WriteStep
<1>4. CASE \/ ReceiveEnd(h) \/ CloseGoesOn(h) \/ PushDone(h) \/ PushMismatch(h)
           \/ DoneError(h)
  BY <1>4 DEF ReceiveEnd, CloseGoesOn, PushDone, PushMismatch, DoneError,
     HandlerStep, CloseStep
<1>5. CASE ResumeOffsetRefused(h) \/ ResumeOffsetLocks(h) \/ ResumeOffset(h)
  BY <1>5, <1>a DEF ResumeOffsetRefused, ResumeOffsetLocks, ResumeOffset,
     HandlerStep, OffsetStep
<1>6. CASE ServerError(h)
  BY <1>6 DEF ServerError, HandlerStep
<1> QED BY <1>1, <1>2, <1>3, <1>4, <1>5, <1>6 DEF ServerStep

\* A sender's step, and a refusal before the storage is asked, leave it alone.
LEMMA SenderRefines ==
    ASSUME \/ \E s \in Senders : SenderStep(s) \/ Break(s)
           \/ \E h \in Handlers, res \in {"retry", "fatal"} : Refuse(h, res)
    PROVE  UNCHANGED vars
BY SMTT(30) DEF SenderStep, PushMessage, DoPush, CallResumeOffset, Send, SendError,
   Finish, PushResult, ResumeOffsetResult, Break, Refuse

\* Every step of Push is a step of FileStorage, or leaves it alone.
LEMMA StepRefines ==
    ASSUME CallInv, [PushNext]_pushVars
    PROVE  [Next]_vars
<1>1. ASSUME NEW h \in Handlers,
             \/ ServerStep(h) \/ ReceiveError(h) \/ ServerError(h) \/ DoneError(h)
      PROVE  Next
  BY <1>1, HandlerRefines DEF HandlerStep, Next
<1>2. CASE ServerCrash
  BY <1>2 DEF ServerCrash, Next
<1> QED BY <1>1, <1>2, SenderRefines DEF PushNext

-----------------------------------------------------------------------------
(* The calls: a step of a sender.                                          *)

CallOK ==
    /\ \A h \in Handlers : Serving(h) /\ Stream(h) /\ Failing(h)
    /\ \A s \in Senders : Linked(s) /\ AtOffset(s)

\* What no step of s in pushMessage, other than a new call, changes.
OnlySender(s) ==
    /\ UNCHANGED <<vars, hcall, hs, hoff, hgood>>
    /\ scall'[s] \in {scall[s], NoCall}
    /\ \A t \in Senders \ {s} :
         /\ cpc'[t] = cpc[t] /\ spos'[t] = spos[t] /\ scall'[t] = scall[t]
         /\ sres'[t] = sres[t] /\ soff'[t] = soff[t] /\ rewound'[t] = rewound[t]
    /\ \A k \in Handlers : scall[s] # k => hin'[k] = hin[k] /\ hend'[k] = hend[k]
    /\ breaks' \in Nat /\ breaks' >= breaks

\* Two senders are never served by the same handler, so what one does with its
\* stream concerns its own call only.
LEMMA SenderFrame ==
    ASSUME CallInv, CallOK, NEW s \in Senders, OnlySender(s)
    PROVE  /\ \A t \in Senders \ {s} : Linked(t)' /\ AtOffset(t)'
           /\ \A k \in Handlers : scall[s] # k => Serving(k)' /\ Stream(k)' /\ Failing(k)'
<1>t. /\ scall \in [Senders -> Handlers \cup {NoCall}]
      /\ NoCall \notin Handlers
      /\ hs \in [Handlers -> Senders \cup {NoCall}]
      /\ NoCall \notin Senders
      /\ breaks \in Nat
  BY PushAssumption DEF CallInv, PushTypeOK
<1>1. ASSUME NEW t \in Senders \ {s}
      PROVE  Linked(t)' /\ AtOffset(t)'
  <2>1. scall[t] # NoCall => scall[t] \in Handlers /\ scall[s] # scall[t]
    BY <1>1, <1>t DEF CallOK, Linked
  <2>2. Linked(t) /\ AtOffset(t)
    BY <1>1 DEF CallOK
  <2>3. Linked(t)'
    BY <1>1, <2>1, <2>2 DEF Linked, OnlySender
  <2>4. AtOffset(t)'
    BY <1>1, <2>2 DEF AtOffset, OnlySender
  <2> QED BY <2>3, <2>4
<1>2. ASSUME NEW k \in Handlers, scall[s] # k
      PROVE  Serving(k)' /\ Stream(k)' /\ Failing(k)'
  <2>1. Serving(k) /\ Stream(k) /\ Failing(k)
    BY <1>2 DEF CallOK
  <2>2. /\ hin'[k] = hin[k] /\ hend'[k] = hend[k]
        /\ UNCHANGED <<vars, hcall, hs, hoff, hgood>>
    BY <1>2 DEF OnlySender
  <2>3. Serving(k)'
    BY <2>1, <2>2 DEF Serving, Msg
  <2>4. Failing(k)'
    BY <2>1, <2>2, <1>t DEF Failing, OnlySender
  <2>5. ASSUME hcall[k] # "free", scall'[hs[k]] = k
        PROVE  scall[hs[k]] = k /\ spos'[hs[k]] = spos[hs[k]]
    <3>1. hs[k] \in Senders
      BY <2>1, <2>5 DEF Serving
    <3>2. CASE hs[k] = s
      BY <3>2, <1>2, <2>5, <1>t DEF OnlySender
    <3>3. CASE hs[k] # s
      BY <3>3, <3>1, <2>5 DEF OnlySender
    <3> QED BY <3>2, <3>3
  <2>6. Stream(k)'
    BY <2>1, <2>2, <2>5 DEF Stream, Taken, Msg, Length
  <2> QED BY <2>3, <2>4, <2>6
<1> QED BY <1>1, <1>2

\* A step of s in pushMessage keeps the invariant of the calls.
LEMMA SenderKeepsCalls ==
    ASSUME CallInv, CallOK, NEW s \in Senders,
           \/ PushMessage(s) \/ Send(s) \/ SendError(s) \/ Finish(s) \/ PushResult(s)
           \/ ResumeOffsetResult(s) \/ Break(s)
    PROVE  CallOK'
<1>t. /\ cpc \in [Senders -> {"idle", "push", "send", "finish", "offset",
                              "sent", "seen", "fatal"}]
      /\ spos \in [Senders -> Nat] /\ soff \in [Senders -> Nat]
      /\ scall \in [Senders -> Handlers \cup {NoCall}]
      /\ sres \in [Senders -> Results] /\ rewound \in [Senders -> BOOLEAN]
      /\ hin \in [Handlers -> Seq(Chunks)]
      /\ hend \in [Handlers -> {"open", "eof", "broken"}]
      /\ NoCall \notin Handlers
      /\ breaks \in Nat
      /\ DOMAIN Sends = Senders
      /\ hgood \in [Handlers -> BOOLEAN]
  BY PushAssumption DEF CallInv, PushTypeOK
<1>l. Linked(s) /\ AtOffset(s)
  BY DEF CallOK
<1>len. Length(Sends[s]) \in Nat
  BY PushAssumption, ConstantsAssumption DEF Length
<1>h. scall[s] # NoCall => /\ scall[s] \in Handlers
                           /\ hs[scall[s]] = s
                           /\ Serving(scall[s]) /\ Stream(scall[s]) /\ Failing(scall[s])
  BY <1>t, <1>l DEF CallOK, Linked
<1>f. ASSUME OnlySender(s), Linked(s)', AtOffset(s)',
             \A h \in Handlers : scall[s] = h => Serving(h)' /\ Stream(h)' /\ Failing(h)'
      PROVE  CallOK'
  <2>1. \A t \in Senders : Linked(t)' /\ AtOffset(t)'
    BY <1>f, SenderFrame
  <2>2. \A k \in Handlers : Serving(k)' /\ Stream(k)' /\ Failing(k)'
    BY <1>f, SenderFrame
  <2> QED BY <2>1, <2>2 DEF CallOK
<1>1. ASSUME PushMessage(s) \/ SendError(s) \/ PushResult(s) \/ ResumeOffsetResult(s)
      PROVE  CallOK'
  <2>1. scall[s] = NoCall
    BY <1>1, <1>l DEF PushMessage, SendError, PushResult, ResumeOffsetResult, Linked
  <2>2. OnlySender(s) /\ scall' = scall /\ rewound' = rewound
    BY <1>1, <1>t DEF PushMessage, SendError, PushResult, ResumeOffsetResult, Leave,
       SetSender, OnlySender
  <2>3. Linked(s)'
    BY <2>1, <2>2 DEF Linked
  <2>4. AtOffset(s)'
    BY <1>1, <1>l, <1>t, <1>len DEF PushMessage, SendError, PushResult,
       ResumeOffsetResult, Leave, SetSender, AtOffset, Length
  <2> QED BY <2>1, <2>2, <2>3, <2>4, <1>f, <1>t
<1>2. ASSUME Send(s) PROVE CallOK'
  <2>1. /\ cpc[s] = "send" /\ spos[s] < Length(Sends[s])
        /\ cpc'[s] = "send" /\ spos'[s] = spos[s] + 1 /\ sres'[s] = sres[s]
        /\ scall' = scall /\ rewound' = rewound /\ hend' = hend
    BY <1>2, <1>t DEF Send, SetSender
  <2>2. OnlySender(s)
    BY <1>2, <1>t DEF Send, SetSender, OnlySender
  <2>3. rewound[s] /\ AtOffset(s)'
    BY <2>1, <1>l, <1>t, <1>len DEF AtOffset
  <2>4. Linked(s)'
    BY <2>1, <2>2, <1>l DEF Linked, OnlySender
  <2>5. ASSUME NEW h \in Handlers, scall[s] = h
        PROVE  Serving(h)' /\ Stream(h)' /\ Failing(h)'
    <3>d. /\ hs[h] = s /\ Serving(h) /\ Stream(h) /\ Failing(h)
          /\ hgood[h] /\ hend[h] = "open" /\ hcall[h] \in {"push", "recv", "fail"}
      BY <1>t, <1>h, <1>l, <2>5, <2>1, <2>3 DEF Linked
    <3>c. PICK c : c = Content[Sends[s]][spos[s] + 1]
      OBVIOUS
    <3>e. /\ UNCHANGED <<vars, hcall, hs, hoff, hgood, hend>>
          /\ hin'[h] = Append(hin[h], c)
      BY <1>2, <3>c, <2>5, <1>t DEF Send
    <3>len. Content[Sends[s]] \in Seq(Chunks) /\ spos[s] + 1 \in 1 .. Len(Content[Sends[s]])
      BY <2>1, <1>t, <1>len, PushAssumption, ConstantsAssumption DEF Length
    <3>ch. c \in Chunks
      BY <3>len, <3>c, ElementOfSeq
    <3>q. hin[h] \in Seq(Chunks)
      BY <1>t
    <3>ap. /\ Len(Append(hin[h], c)) = Len(hin[h]) + 1
           /\ \A i \in 1 .. Len(hin[h]) : Append(hin[h], c)[i] = hin[h][i]
           /\ Append(hin[h], c)[Len(hin[h]) + 1] = c
           /\ Len(hin[h]) \in Nat
      BY <3>q, <3>ch, AppendProperties, LenProperties
    <3>1. Serving(h)'
      BY <3>d, <3>e DEF Serving, Msg
    <3>2. Failing(h)'
      BY <3>d, <3>e, <1>2 DEF Failing, Send
    <3>3. ASSUME hcall[h] \in {"push", "recv"}, pc[h] \notin Closing
          PROVE  /\ \A i \in 1 .. Len(hin'[h]) :
                       /\ Taken(h) + i <= Length(Sends[s])
                       /\ hin'[h][i] = Content[Sends[s]][Taken(h) + i]
                 /\ spos'[s] = Taken(h) + Len(hin'[h])
      <4>1. /\ \A i \in 1 .. Len(hin[h]) :
                   /\ Taken(h) + i <= Length(Sends[s])
                   /\ hin[h][i] = Content[Sends[s]][Taken(h) + i]
            /\ spos[s] = Taken(h) + Len(hin[h])
        BY <3>3, <3>d, <2>5 DEF Stream, Msg
      <4>2. Taken(h) \in Nat
        BY DEF Taken, CallInv, PushTypeOK, TypeOK
      <4>3. ASSUME NEW i \in 1 .. Len(hin'[h])
            PROVE  /\ Taken(h) + i <= Length(Sends[s])
                   /\ hin'[h][i] = Content[Sends[s]][Taken(h) + i]
        <5>1. CASE i \in 1 .. Len(hin[h])
          BY <5>1, <4>1, <3>ap, <3>e
        <5>2. CASE i = Len(hin[h]) + 1
          <6>1. Taken(h) + i = spos[s] + 1
            BY <5>2, <4>1, <4>2, <3>ap
          <6>2. hin'[h][i] = c
            BY <5>2, <3>ap, <3>e
          <6> QED BY <6>1, <6>2, <3>c, <2>1, <1>len, <1>t
        <5> QED BY <4>3, <5>1, <5>2, <3>ap, <3>e
      <4>4. spos'[s] = Taken(h) + Len(hin'[h])
        BY <4>1, <4>2, <2>1, <3>ap, <3>e
      <4> QED BY <4>3, <4>4
    <3>4. Stream(h)'
      <4>1. Taken(h)' = Taken(h) /\ Msg(h)' = Sends[s] /\ Msg(h) = Sends[s]
        BY <3>e, <3>d DEF Taken, Msg
      <4> QED BY <3>3, <3>d, <3>e, <4>1 DEF Stream, Length
    <3> QED BY <3>1, <3>2, <3>4
  <2> QED BY <2>2, <2>3, <2>4, <2>5, <1>f
<1>3. ASSUME Finish(s) PROVE CallOK'
  <2>1. /\ cpc[s] = "send" /\ spos[s] >= Length(Sends[s])
        /\ cpc'[s] = "finish" /\ spos' = spos /\ sres'[s] = sres[s]
        /\ scall' = scall /\ rewound' = rewound /\ hin' = hin
    BY <1>3, <1>t DEF Finish, SetSender
  <2>2. OnlySender(s)
    BY <1>3, <1>t DEF Finish, SetSender, OnlySender
  <2>3. AtOffset(s)'
    BY <2>1, <1>t, <1>len DEF AtOffset
  <2>4. \A h \in Handlers : scall[s] = h => hend'[h] = "eof"
    BY <1>3, <1>t DEF Finish
  <2>5. Linked(s)'
    BY <2>1, <2>2, <2>4, <1>l, <1>h DEF Linked, OnlySender
  <2>6. ASSUME NEW h \in Handlers, scall[s] = h
        PROVE  Serving(h)' /\ Stream(h)' /\ Failing(h)'
    <3>1. /\ hs[h] = s /\ Serving(h) /\ Stream(h) /\ Failing(h) /\ hcall[h] # "free"
          /\ UNCHANGED <<vars, hcall, hs, hoff, hgood>>
          /\ breaks' = breaks
      BY <1>3, <1>t, <1>h, <1>l, <2>6 DEF Linked, Finish
    <3>2. Serving(h)' /\ Failing(h)'
      BY <3>1, <2>1, <2>4, <2>6 DEF Serving, Failing, Msg
    <3>3. Stream(h)'
      BY <3>1, <2>1, <2>6 DEF Stream, Taken, Msg, Length
    <3> QED BY <3>2, <3>3
  <2> QED BY <2>2, <2>3, <2>5, <2>6, <1>f
<1>4. ASSUME Break(s) PROVE CallOK'
  <2>1. /\ cpc'[s] = "idle" /\ scall'[s] = NoCall /\ rewound' = rewound
        /\ breaks' = breaks + 1
        /\ UNCHANGED <<vars, hcall, hs, hoff, hgood>>
    BY <1>4, <1>t DEF Break, Leave, SetSender
  <2>2. OnlySender(s)
    BY <1>4, <1>t DEF Break, Leave, SetSender, OnlySender
  <2>3. AtOffset(s)' /\ Linked(s)'
    BY <2>1 DEF AtOffset, Linked
  <2>4. ASSUME NEW h \in Handlers, scall[s] = h
        PROVE  Serving(h)' /\ Stream(h)' /\ Failing(h)'
    <3>1. PICK n \in 0 .. Len(hin[h]) : hin'[h] = SubSeq(hin[h], 1, n) /\ hend'[h] = "broken"
      BY <1>4, <2>4, <1>t DEF Break
    <3>2. /\ hs[h] = s /\ Serving(h) /\ Stream(h) /\ Failing(h) /\ hcall[h] # "free"
      BY <1>t, <1>h, <1>l, <2>4 DEF Linked
    <3>3. /\ Len(hin'[h]) = n
          /\ \A i \in 1 .. n : hin'[h][i] = hin[h][i]
      <4>1. hin[h] \in Seq(Chunks) /\ Len(hin[h]) \in Nat
        BY <1>t, LenProperties
      <4>2. \A i \in 1 .. n : hin[h][i] \in Chunks
        BY <4>1, ElementOfSeq
      <4> QED BY <4>1, <4>2, <3>1, SubSeqProperties
    <3>4. hin[h] = << >> => hin'[h] = << >>
      <4>1. hin[h] \in Seq(Chunks)
        BY <1>t
      <4>2. n \in Nat
        BY <3>1, <4>1, LenProperties
      <4>3. hin[h] = << >> => n = 0
        BY <3>1, <4>1, EmptySeq
      <4>4. n = 0 => hin'[h] = << >>
        BY <3>1
      <4> QED BY <4>3, <4>4
    <3>5. Serving(h)' /\ Failing(h)'
      BY <3>1, <3>2, <2>1, <1>t DEF Serving, Failing, Msg
    <3>6. Len(hin[h]) \in Nat /\ n \in Nat /\ n <= Len(hin[h])
      <4>1. hin[h] \in Seq(Chunks)
        BY <1>t
      <4> QED BY <3>1, <4>1, LenProperties
    <3>7. scall'[hs'[h]] # h
      <4>1. hs'[h] = s
        BY <2>1, <3>2
      <4> QED BY <4>1, <2>1, <1>t
    <3>8. Taken(h)' = Taken(h) /\ Msg(h)' = Msg(h)
      BY <2>1 DEF Taken, Msg
    <3>9. Stream(h)'
      <4>1. ASSUME hcall[h] \in {"push", "recv"}, pc[h] \notin Closing,
                   NEW i \in 1 .. Len(hin'[h])
            PROVE  /\ Taken(h) + i <= Length(Msg(h))
                   /\ hin'[h][i] = Content[Msg(h)][Taken(h) + i]
        <5>1. i \in 1 .. n /\ i \in 1 .. Len(hin[h])
          BY <4>1, <3>3, <3>6
        <5> QED BY <4>1, <5>1, <3>2, <3>3 DEF Stream
      <4>2. /\ pc' = pc /\ hcall' = hcall /\ hgood' = hgood /\ hfile' = hfile
            /\ Length(Msg(h))' = Length(Msg(h)) /\ Content[Msg(h)]' = Content[Msg(h)]
            /\ hend'[h] = "broken"
        BY <2>1, <3>1, <3>8 DEF Length
      <4> QED BY <4>1, <4>2, <3>2, <3>4, <3>7, <3>8 DEF Stream
    <3> QED BY <3>5, <3>9
  <2> QED BY <2>2, <2>3, <2>4, <1>f
<1> QED BY <1>1, <1>2, <1>3, <1>4

-----------------------------------------------------------------------------
(* The calls: a new call, and a step of a handler.                         *)

\* A new call keeps the invariant of the calls.
LEMMA NewCallKeepsCalls ==
    ASSUME CallInv, CallOK, NEW s \in Senders, NEW h \in Handlers,
           DoPush(s, h) \/ CallResumeOffset(s, h)
    PROVE  CallOK'
<1>t. /\ cpc \in [Senders -> {"idle", "push", "send", "finish", "offset",
                              "sent", "seen", "fatal"}]
      /\ spos \in [Senders -> Nat] /\ soff \in [Senders -> Nat]
      /\ scall \in [Senders -> Handlers \cup {NoCall}]
      /\ sres \in [Senders -> Results] /\ rewound \in [Senders -> BOOLEAN]
      /\ hcall \in [Handlers -> {"free", "push", "recv", "fail", "offset"}]
      /\ hs \in [Handlers -> Senders \cup {NoCall}]
      /\ hoff \in [Handlers -> Nat]
      /\ hgood \in [Handlers -> BOOLEAN]
      /\ hin \in [Handlers -> Seq(Chunks)]
      /\ hend \in [Handlers -> {"open", "eof", "broken"}]
      /\ NoCall \notin Handlers
      /\ breaks \in Nat
      /\ DOMAIN Sends = Senders
  BY PushAssumption DEF CallInv, PushTypeOK
<1>len. Length(Sends[s]) \in Nat
  BY PushAssumption, ConstantsAssumption DEF Length
<1>l. Linked(s) /\ AtOffset(s) /\ Serving(h)
  BY DEF CallOK
<1>n. scall[s] = NoCall
  BY <1>l, <1>t DEF DoPush, CallResumeOffset, Linked
<1>c. /\ hcall[h] = "free" /\ hin[h] = << >> /\ hend[h] = "open" /\ pc[h] = "idle"
      /\ \A t \in Senders : scall[t] # h
  BY <1>l, <1>t DEF DoPush, CallResumeOffset, StartCall, Serving, CallOK, Linked
<1>e. /\ UNCHANGED <<vars, hin, hend, breaks>>
      /\ scall'[s] = h /\ hs'[h] = s /\ hoff'[h] = soff[s]
      /\ hcall'[h] \in {"push", "offset"}
      /\ \A t \in Senders \ {s} :
           /\ cpc'[t] = cpc[t] /\ spos'[t] = spos[t] /\ scall'[t] = scall[t]
           /\ sres'[t] = sres[t] /\ soff'[t] = soff[t] /\ rewound'[t] = rewound[t]
      /\ \A k \in Handlers \ {h} :
           /\ hcall'[k] = hcall[k] /\ hs'[k] = hs[k] /\ hoff'[k] = hoff[k]
           /\ hgood'[k] = hgood[k]
      /\ spos'[s] = spos[s] /\ soff'[s] = soff[s] /\ sres'[s] = "none"
  BY <1>t DEF DoPush, CallResumeOffset, StartCall, SetSender
<1>1. ASSUME NEW t \in Senders \ {s} PROVE Linked(t)' /\ AtOffset(t)'
  <2>1. Linked(t) /\ AtOffset(t) /\ scall[t] # h
    BY <1>c DEF CallOK
  <2>2. Linked(t)'
    BY <1>1, <2>1, <1>e, <1>t DEF Linked
  <2>3. AtOffset(t)'
    BY <1>1, <2>1, <1>e DEF AtOffset
  <2> QED BY <2>2, <2>3
<1>2. ASSUME NEW k \in Handlers \ {h} PROVE Serving(k)' /\ Stream(k)' /\ Failing(k)'
  <2>1. Serving(k) /\ Stream(k) /\ Failing(k)
    BY DEF CallOK
  <2>2. Serving(k)' /\ Failing(k)'
    BY <1>2, <2>1, <1>e DEF Serving, Failing, Msg
  <2>3. hcall[k] # "free" /\ scall'[hs[k]] = k =>
          scall[hs[k]] = k /\ spos'[hs[k]] = spos[hs[k]]
    BY <1>2, <2>1, <1>e DEF Serving
  <2>4. Stream(k)'
    BY <1>2, <2>1, <2>3, <1>e DEF Stream, Taken, Msg, Length
  <2> QED BY <2>2, <2>4
<1>3. CASE DoPush(s, h)
  <2>1. /\ cpc[s] = "push" /\ cpc'[s] = "send" /\ hcall'[h] = "push"
        /\ rewound'[s] = (spos[s] = soff[s]) /\ hgood'[h] = (spos[s] = soff[s])
    BY <1>3, <1>t DEF DoPush, StartCall, SetSender
  <2>2. AtOffset(s)'
    BY <2>1, <1>e, <1>l DEF AtOffset
  <2>3. Linked(s)'
    BY <2>1, <1>e, <1>c DEF Linked
  <2>4. Serving(h)' /\ Failing(h)'
    BY <2>1, <1>e, <1>c DEF Serving, Failing, Opening
  <2>5. Stream(h)'
    <3>1. Len(hin'[h]) = 0 /\ hin'[h] = << >> /\ hend'[h] = "open" /\ pc'[h] = "idle"
      BY <1>c, <1>e
    <3>2. Taken(h)' = soff[s] /\ soff[s] \in Nat
      BY <2>1, <1>e, <1>t DEF Taken
    <3>3. hgood'[h] => spos'[s] = soff[s]
      BY <2>1, <1>e
    <3> QED BY <2>1, <3>1, <3>2, <3>3, <1>e DEF Stream
  <2> QED BY <1>1, <1>2, <2>2, <2>3, <2>4, <2>5 DEF CallOK
<1>4. CASE CallResumeOffset(s, h)
  <2>1. cpc[s] = "offset" /\ cpc' = cpc /\ hcall'[h] = "offset"
    BY <1>4, <1>t DEF CallResumeOffset, StartCall
  <2>2. AtOffset(s)' /\ Linked(s)'
    BY <2>1, <1>e DEF AtOffset, Linked
  <2>3. Serving(h)' /\ Failing(h)'
    BY <2>1, <1>e, <1>c DEF Serving, Failing
  <2>4. Stream(h)'
    BY <2>1 DEF Stream
  <2> QED BY <1>1, <1>2, <2>2, <2>3, <2>4 DEF CallOK
<1> QED BY <1>3, <1>4

\* What a handler's step does not change: the calls and the open files of others.
OnlyHandler(h) ==
    \A k \in Handlers \ {h} :
        /\ pc'[k] = pc[k] /\ hm'[k] = hm[k] /\ hfile'[k] = hfile[k] /\ hsum'[k] = hsum[k]
        /\ hcall'[k] = hcall[k] /\ hs'[k] = hs[k] /\ hoff'[k] = hoff[k]
        /\ hin'[k] = hin[k] /\ hend'[k] = hend[k] /\ hgood'[k] = hgood[k]

\* A handler that uses the storage leaves the open files of others alone.
LEMMA StorageFrame ==
    ASSUME TypeOK, NEW h \in Handlers, HandlerStep(h)
    PROVE  /\ \A k \in Handlers \ {h} :
                /\ pc'[k] = pc[k] /\ hm'[k] = hm[k]
                /\ hfile'[k] = hfile[k] /\ hsum'[k] = hsum[k]
           /\ UNCHANGED <<expired, crashes, jpc>>
<1>t. /\ pc \in [Handlers -> HandlerPCs] /\ hm \in [Handlers -> Msgs \cup {NoMsg}]
      /\ hfile \in [Handlers -> Seq(Chunks)] /\ hsum \in [Handlers -> Seq(Chunks)]
  BY DEF TypeOK
<1>1. CASE OpenWriteStep(h)
  BY <1>1, <1>t DEF OpenWriteStep, OpenWriteBusy, OpenWriteAlreadySeen,
     OpenWriteCollision, OpenWrite, CreateMessage, EncodeMessage,
     OpenContentIncorrectOffset, OpenContent, Return, Goto
<1>2. CASE WriteStep(h)
  BY <1>2, <1>t DEF WriteStep, Write, WriteError
<1>3. CASE CloseStep(h)
  BY <1>3, <1>t DEF CloseStep, CloseBegin, Abandon, Sync, ClosePartial, CloseDone,
     CloseMismatch, MismatchUnlink, MismatchListedEmpty, MismatchRemoveDir,
     UnlinkFile, RemoveDir, Return, Goto
<1>4. CASE OffsetStep(h) \/ IOError(h)
  BY <1>4, <1>t DEF OffsetStep, OffsetBusy, OffsetAlreadySeen, OffsetLock,
     OffsetReturn, IOError, Return
<1> QED BY <1>1, <1>2, <1>3, <1>4 DEF HandlerStep

\* The call goes on: the sender and the ends of the stream do not change.
Continues(h) ==
    /\ OnlyHandler(h)
    /\ UNCHANGED <<sender, hs, hoff, hend, hgood, breaks>>
    /\ hcall[h] # "free" /\ hcall'[h] \in {"push", "recv", "fail", "offset"}
    /\ hcall[h] = "offset" <=> hcall'[h] = "offset"

\* The call ends, and its sender, if it is still there, learns how.
Ends(h) ==
    /\ OnlyHandler(h)
    /\ UNCHANGED <<rewound, breaks>>
    /\ pc'[h] = "idle" /\ EndCall(h)
    /\ \A t \in Senders :
         IF scall[t] = h
         THEN scall'[t] = NoCall /\ AtOffset(t)'
         ELSE /\ scall'[t] = scall[t] /\ cpc'[t] = cpc[t] /\ spos'[t] = spos[t]
              /\ soff'[t] = soff[t] /\ sres'[t] = sres[t]

\* A handler's step concerns its own call and sender only.
LEMMA HandlerCallFrame ==
    ASSUME CallInv, CallOK, NEW h \in Handlers,
           \/ Ends(h)
           \/ Continues(h) /\ Serving(h)' /\ Stream(h)' /\ Failing(h)'
    PROVE  CallOK'
<1>t. /\ scall \in [Senders -> Handlers \cup {NoCall}]
      /\ hs \in [Handlers -> Senders \cup {NoCall}]
      /\ hcall \in [Handlers -> {"free", "push", "recv", "fail", "offset"}]
      /\ hoff \in [Handlers -> Nat]
      /\ hgood \in [Handlers -> BOOLEAN]
      /\ hin \in [Handlers -> Seq(Chunks)]
      /\ hend \in [Handlers -> {"open", "eof", "broken"}]
      /\ NoCall \notin Handlers
  BY PushAssumption DEF CallInv, PushTypeOK
<1>1. ASSUME NEW t \in Senders PROVE Linked(t)' /\ AtOffset(t)'
  <2>1. Linked(t) /\ AtOffset(t)
    BY DEF CallOK
  <2>2. CASE Continues(h)
    <3>1. AtOffset(t)'
      BY <2>1, <2>2 DEF AtOffset, Continues
    <3>2. ASSUME scall[t] # NoCall
          PROVE  hcall'[scall[t]] = hcall[scall[t]] \/ scall[t] = h
      BY <3>2, <2>2, <1>t DEF Continues, OnlyHandler
    <3>3. hcall'[h] \in {"push", "recv", "fail", "offset"} \/ scall[t] # h
      BY <2>2 DEF Continues
    <3>4. Linked(t)'
      BY <2>1, <2>2, <3>2, <3>3 DEF Linked, Continues
    <3> QED BY <3>1, <3>4
  <2>3. CASE Ends(h)
    <3>1. CASE scall[t] = h
      BY <2>3, <3>1 DEF Ends, Linked
    <3>2. CASE scall[t] # h
      <4>1. /\ scall'[t] = scall[t] /\ cpc'[t] = cpc[t] /\ spos'[t] = spos[t]
            /\ soff'[t] = soff[t] /\ sres'[t] = sres[t] /\ rewound' = rewound
        BY <2>3, <3>2 DEF Ends
      <4>2. AtOffset(t)'
        BY <4>1, <2>1 DEF AtOffset
      <4>3. scall[t] # NoCall => scall[t] \in Handlers \ {h}
        BY <3>2, <1>t
      <4>4. Linked(t)'
        BY <4>1, <4>3, <2>1, <2>3 DEF Linked, Ends, OnlyHandler
      <4> QED BY <4>2, <4>4
    <3> QED BY <3>1, <3>2
  <2> QED BY <2>2, <2>3
<1>2. ASSUME NEW k \in Handlers \ {h} PROVE Serving(k)' /\ Stream(k)' /\ Failing(k)'
  <2>1. Serving(k) /\ Stream(k) /\ Failing(k)
    BY DEF CallOK
  <2>2. OnlyHandler(h) /\ breaks' = breaks
    BY DEF Continues, Ends
  <2>3. Serving(k)' /\ Failing(k)'
    BY <1>2, <2>1, <2>2 DEF Serving, Failing, Msg, OnlyHandler
  <2>4. hcall[k] # "free" /\ scall'[hs[k]] = k =>
          scall[hs[k]] = k /\ spos'[hs[k]] = spos[hs[k]]
    BY <1>2, <2>1, <1>t DEF Serving, Continues, Ends
  <2>5. Taken(k)' = Taken(k) /\ Msg(k)' = Msg(k)
    BY <1>2, <2>2 DEF OnlyHandler, Taken, Msg
  <2>6. Stream(k)'
    BY <1>2, <2>1, <2>2, <2>4, <2>5 DEF Stream, OnlyHandler, Length
  <2> QED BY <2>3, <2>6
<1>3. Serving(h)' /\ Stream(h)' /\ Failing(h)'
  <2>1. CASE Ends(h)
    <3>1. /\ hcall'[h] = "free" /\ hin'[h] = << >> /\ hend'[h] = "open" /\ pc'[h] = "idle"
      BY <2>1, <1>t DEF Ends, EndCall
    <3> QED BY <3>1 DEF Serving, Stream, Failing
  <2> QED BY <2>1
<1> QED BY <1>1, <1>2, <1>3 DEF CallOK

\* The storage's own invariant tells what a handler that writes has open: no
\* message expires here.
LEMMA WriterKnows ==
    ASSUME IInv, CallInv, NEW h \in Handlers, pc[h] # "idle"
    PROVE  /\ HandlerKnows(h) /\ hm[h] \in Msgs /\ Id(h) \in Ids
           /\ hfile[h] \in Seq(Chunks) /\ hsum[h] \in Seq(Chunks)
           /\ content[Id(h)] \in Seq(Chunks)
<1>1. hm[h] \in Msgs /\ Id(h) \in Ids
  BY ConstantsAssumption DEF IInv, HandlersHaveMessages, Id
<1>2. Fresh(Id(h))
  BY DEF CallInv, Quiet, Fresh
<1>3. HandlerKnows(h)
  BY <1>2 DEF IInv, HandlersKnow
<1> QED BY <1>1, <1>3 DEF IInv, TypeOK

\* A handler that opens, receives, closes or is asked for the offset keeps the
\* invariant of the calls.
LEMMA HandlerKeepsCalls ==
    ASSUME IInv, CallInv, CallOK, NEW h \in Handlers,
           \/ PushOpens(h) \/ PushOpened(h) \/ Receive(h) \/ ReceiveError(h)
           \/ ReceiveEnd(h) \/ CloseGoesOn(h) \/ ResumeOffsetLocks(h)
    PROVE  CallOK'
<1>t. /\ hcall \in [Handlers -> {"free", "push", "recv", "fail", "offset"}]
      /\ hin \in [Handlers -> Seq(Chunks)]
      /\ pc \in [Handlers -> HandlerPCs] /\ hm \in [Handlers -> Msgs \cup {NoMsg}]
      /\ hfile \in [Handlers -> Seq(Chunks)] /\ hsum \in [Handlers -> Seq(Chunks)]
      /\ hoff[h] \in Nat /\ breaks \in Nat
  BY DEF CallInv, PushTypeOK, TypeOK
<1>i. Serving(h) /\ Stream(h) /\ Failing(h)
  BY DEF CallOK
<1>s. HandlerStep(h)
  BY HandlerRefines DEF ServerStep
<1>o. OnlyHandler(h)
  <2>1. \A k \in Handlers \ {h} :
          /\ pc'[k] = pc[k] /\ hm'[k] = hm[k]
          /\ hfile'[k] = hfile[k] /\ hsum'[k] = hsum[k]
    BY <1>s, StorageFrame DEF IInv
  <2> QED BY <2>1, <1>t DEF OnlyHandler, PushOpens, PushOpened, Receive, ReceiveError,
          ReceiveEnd, CloseGoesOn, ResumeOffsetLocks
<1>c. Continues(h)
  BY <1>o, <1>t DEF Continues, PushOpens, PushOpened, Receive, ReceiveError,
     ReceiveEnd, CloseGoesOn, ResumeOffsetLocks
<1>m. hs'[h] = hs[h] /\ Msg(h)' = Msg(h) /\ hoff' = hoff /\ hend' = hend /\ hgood' = hgood
      /\ spos' = spos /\ scall' = scall /\ breaks' = breaks
  BY <1>c DEF Continues, Msg
<1>1. CASE PushOpens(h) \/ ResumeOffsetLocks(h)
  <2>1. /\ hcall'[h] = hcall[h] /\ hin'[h] = hin[h] /\ hfile'[h] = hfile[h]
        /\ hcall[h] \in {"push", "offset"}
    BY <1>1 DEF PushOpens, ResumeOffsetLocks, OpenWrite, CreateMessage, EncodeMessage,
       OffsetLock, Goto
  <2>2. /\ hcall[h] = "push" => pc'[h] \in {"create", "encode", "open"}
        /\ hcall[h] = "offset" => pc'[h] = "offset"
        /\ hm'[h] = Msg(h)
    BY <1>1, <1>t, <1>i DEF PushOpens, ResumeOffsetLocks, OpenWrite, CreateMessage,
       EncodeMessage, OffsetLock, Goto, Serving
  <2>3. Serving(h)' /\ Failing(h)'
    BY <1>i, <1>m, <2>1, <2>2 DEF Serving, Failing, Opening
  <2>4. pc[h] \notin Closing
    BY <2>1, <1>i DEF Serving, Opening, Closing
  <2>5. Taken(h)' = Taken(h)
    BY <2>1, <1>m DEF Taken
  <2>6. Stream(h)'
    BY <1>i, <1>m, <2>1, <2>2, <2>4, <2>5 DEF Stream, Closing, Length
  <2> QED BY <1>c, <2>3, <2>6, HandlerCallFrame
<1>2. CASE PushOpened(h)
  <2>1. /\ hcall'[h] = "recv" /\ hcall[h] = "push" /\ hin'[h] = hin[h] /\ pc[h] = "open"
        /\ pc'[h] = "write" /\ hm'[h] = hm[h] /\ Len(hfile'[h]) = hoff[h]
    BY <1>2, <1>t DEF PushOpened, OpenContent
  <2>2. Serving(h)' /\ Failing(h)'
    BY <1>i, <1>m, <2>1 DEF Serving, Failing
  <2>3. Taken(h)' = Taken(h)
    BY <2>1 DEF Taken
  <2>4. Stream(h)'
    BY <1>i, <1>m, <2>1, <2>3 DEF Stream, Closing, Length
  <2> QED BY <1>c, <2>2, <2>4, HandlerCallFrame
<1>3. CASE Receive(h)
  <2>1. /\ hcall[h] = "recv" /\ hcall'[h] = "recv" /\ pc[h] = "write" /\ pc'[h] = "write"
        /\ hin[h] # << >> /\ hin'[h] = Tail(hin[h]) /\ hm'[h] = hm[h]
        /\ hfile'[h] = Append(hfile[h], Head(hin[h]))
    BY <1>3, <1>t DEF Receive, Write
  <2>2. Serving(h)' /\ Failing(h)'
    BY <1>i, <1>m, <2>1 DEF Serving, Failing
  <2>3. Head(hin[h]) \in Chunks
    BY <2>1, Arguments
  <2>4. /\ Taken(h) = Len(hfile[h]) /\ Len(hfile[h]) \in Nat
        /\ Taken(h)' = Len(hfile[h]) + 1
    <3>1. hfile[h] \in Seq(Chunks)
      BY <1>t
    <3>2. Len(hfile'[h]) = Len(hfile[h]) + 1
      BY <3>1, <2>1, <2>3, AppendProperties
    <3> QED BY <3>1, <3>2, <2>1, LenProperties DEF Taken
  <2>5. /\ Len(hin[h]) \in Nat \ {0}
        /\ Len(hin'[h]) = Len(hin[h]) - 1
        /\ \A i \in 1 .. Len(hin'[h]) : hin'[h][i] = hin[h][i + 1]
    <3>1. hin[h] \in Seq(Chunks)
      BY <1>t
    <3>2. Len(hin[h]) \in Nat \ {0}
      BY <2>1, Arguments
    <3>3. /\ Len(Tail(hin[h])) = Len(hin[h]) - 1
          /\ \A i \in 1 .. Len(Tail(hin[h])) : Tail(hin[h])[i] = hin[h][i + 1]
      BY <3>1, <2>1, HeadTailProperties
    <3> QED BY <3>2, <3>3, <2>1
  <2>n. /\ Len(hfile[h]) \in Nat /\ Len(hin[h]) \in Nat /\ Len(hin'[h]) \in Nat
        /\ Len(hin'[h]) + 1 = Len(hin[h])
    BY <2>4, <2>5
  <2>6. hgood[h] /\ pc[h] \notin Closing /\ pc'[h] \notin Closing
    BY <2>1, <1>i, <1>t DEF Stream, Closing
  <2>7. ASSUME NEW i \in 1 .. Len(hin'[h])
        PROVE  /\ Len(hfile[h]) + 1 + i <= Length(Msg(h))
               /\ hin'[h][i] = Content[Msg(h)][Len(hfile[h]) + 1 + i]
    <3>1. i + 1 \in 1 .. Len(hin[h])
      BY <2>5, <2>7
    <3>2. /\ Len(hfile[h]) + (i + 1) <= Length(Msg(h))
          /\ hin[h][i + 1] = Content[Msg(h)][Len(hfile[h]) + (i + 1)]
      BY <3>1, <2>1, <2>4, <2>6, <1>i DEF Stream
    <3>3. i \in Nat /\ Len(hfile[h]) \in Nat
      BY <2>n, <2>7
    <3>4. \A a \in Nat : a + (i + 1) = a + 1 + i
      BY <3>3
    <3>5. Len(hfile[h]) + (i + 1) = Len(hfile[h]) + 1 + i
      BY <3>3, <3>4, Zenon
    <3> QED BY <3>2, <3>5, <2>5, <2>7
  <2>8. Len(hfile[h]) + 1 + Len(hin'[h]) = Len(hfile[h]) + Len(hin[h])
    <3>1. \A a, b, c \in Nat : b + 1 = c => a + 1 + b = a + c
      OBVIOUS
    <3> QED BY <2>n, <3>1, Zenon
  <2>9. Stream(h)'
    BY <1>i, <1>m, <2>1, <2>4, <2>6, <2>7, <2>8 DEF Stream, Length
  <2> QED BY <1>c, <2>2, <2>9, HandlerCallFrame
<1>4. CASE ReceiveError(h)
  <2>1. /\ hcall'[h] = "fail" /\ pc[h] = "write" /\ pc'[h] = "close" /\ hm'[h] = hm[h]
        /\ hin[h] # << >> /\ hfile'[h] = hfile[h]
        /\ hsum'[h] = Append(hsum[h], Head(hin[h]))
    BY <1>4, <1>t DEF ReceiveError, WriteError
  <2>2. hsum[h] = hfile[h] /\ hfile[h] \in Seq(Chunks)
    BY <2>1, WriterKnows DEF HandlerKnows
  <2>3. Head(hin[h]) \in Chunks
    BY <2>1, Arguments
  <2>4. hsum'[h] # hfile'[h]
    <3>1. Len(Append(hfile[h], Head(hin[h]))) = Len(hfile[h]) + 1 /\ Len(hfile[h]) \in Nat
      BY <2>2, <2>3, AppendProperties, LenProperties
    <3> QED BY <3>1, <2>1, <2>2
  <2>5. Serving(h)' /\ Failing(h)' /\ Stream(h)'
    BY <1>i, <1>m, <2>1, <2>4 DEF Serving, Failing, Stream, Closing
  <2> QED BY <1>c, <2>5, HandlerCallFrame
<1>5. CASE ReceiveEnd(h)
  <2>1. /\ hcall[h] = "recv" /\ hin[h] = << >> /\ hend[h] # "open"
        /\ pc[h] = "write" /\ pc'[h] = "close" /\ hm'[h] = hm[h]
        /\ hfile'[h] = hfile[h] /\ hsum'[h] = hsum[h]
        /\ \/ hend[h] = "broken" /\ hcall'[h] = "fail"
           \/ hcall'[h] = "recv" /\ (hend[h] = "broken" => size(h) = Length(Msg(h)))
    BY <1>5, <1>t DEF ReceiveEnd, CloseBegin, Goto
  <2>2. Serving(h)' /\ Failing(h)'
    BY <1>i, <1>m, <2>1 DEF Serving, Failing, Closing
  <2>3. hgood[h] /\ hcall'[h] = "recv" => Len(hfile[h]) >= Length(Msg(h))
    <3>1. Len(hfile[h]) \in Nat /\ Len(hin[h]) = 0
      BY <1>t, <2>1, LenProperties
    <3>2. Length(Msg(h)) \in Nat
      BY <2>1, Arguments, ConstantsAssumption DEF Length
    <3>3. CASE hend[h] = "broken"
      BY <3>1, <3>2, <3>3, <2>1, <1>t DEF size
    <3>4. CASE hend[h] # "broken"
      <4>1. hend[h] = "eof"
        BY <3>4, <2>1 DEF CallInv, PushTypeOK
      <4>2. hgood[h] => Len(hfile[h]) + Len(hin[h]) >= Length(Msg(h))
        BY <4>1, <2>1, <1>i DEF Stream, Taken, Closing
      <4> QED BY <4>2, <3>1, <3>2
    <3> QED BY <3>3, <3>4
  <2>4. Stream(h)'
    BY <1>m, <2>1, <2>3 DEF Stream, Closing, Length
  <2> QED BY <1>c, <2>2, <2>4, HandlerCallFrame
<1>6. CASE CloseGoesOn(h)
  <2>1. /\ hcall' = hcall /\ hcall[h] \in {"recv", "fail"}
        /\ pc[h] \in Closing /\ pc'[h] \in Closing /\ hm'[h] = hm[h]
        /\ hfile'[h] = hfile[h] /\ hsum'[h] = hsum[h] /\ hin' = hin
    BY <1>6, <1>t DEF CloseGoesOn, Sync, CloseMismatch, MismatchUnlink, UnlinkFile,
       MismatchListedEmpty, Goto, Closing
  <2>2. Serving(h)' /\ Failing(h)'
    BY <1>i, <1>m, <2>1 DEF Serving, Failing, Closing
  <2>3. Stream(h)'
    BY <1>i, <1>m, <2>1 DEF Stream, Length
  <2> QED BY <1>c, <2>2, <2>3, HandlerCallFrame
<1> QED BY <1>1, <1>2, <1>3, <1>4, <1>5, <1>6

\* Reply ends the call; its result goes to the sender that waits for it, and to
\* nobody else.
LEMMA ReplyEnds ==
    ASSUME CallInv, CallOK, NEW h \in Handlers, hcall[h] # "free", NEW res, Reply(h, res)
    PROVE  /\ EndCall(h) /\ UNCHANGED rewound
           /\ \A t \in Senders :
                IF scall[t] = h
                THEN /\ t = hs[h] /\ scall'[t] = NoCall /\ sres'[t] = res /\ cpc'[t] = cpc[t]
                     /\ AtOffset(t)'
                ELSE /\ scall'[t] = scall[t] /\ cpc'[t] = cpc[t] /\ spos'[t] = spos[t]
                     /\ soff'[t] = soff[t] /\ sres'[t] = sres[t]
<1>t. /\ scall \in [Senders -> Handlers \cup {NoCall}]
      /\ sres \in [Senders -> Results]
      /\ NoCall \notin Handlers
      /\ hs[h] \in Senders
  BY Arguments, PushAssumption DEF CallInv, PushTypeOK
<1>1. EndCall(h) /\ UNCHANGED <<rewound, cpc, spos, soff>>
  BY DEF Reply
<1>2. ASSUME NEW t \in Senders, scall[t] = h
      PROVE  t = hs[h] /\ scall'[t] = NoCall /\ sres'[t] = res /\ AtOffset(t)'
  <2>1. t = hs[h] /\ AtOffset(t)
    BY <1>2, <1>t DEF CallOK, Linked
  <2>2. scall'[t] = NoCall /\ sres'[t] = res
    BY <1>2, <2>1, <1>t DEF Reply
  <2>3. AtOffset(t)'
    BY <1>1, <2>1 DEF AtOffset
  <2> QED BY <2>1, <2>2, <2>3
<1>3. ASSUME NEW t \in Senders, scall[t] # h
      PROVE  scall'[t] = scall[t] /\ sres'[t] = sres[t]
  BY <1>3, <1>t DEF Reply
<1> QED BY <1>1, <1>2, <1>3

\* The handlers that return leave the storage: unlocked, on every path.
LEMMA EndsIdle ==
    ASSUME TypeOK, NEW h \in Handlers,
           \/ PushRefused(h) \/ PushIncorrectOffset(h) \/ PushDone(h) \/ PushMismatch(h)
           \/ ServerError(h) \/ DoneError(h) \/ ResumeOffsetRefused(h) \/ ResumeOffset(h)
           \/ \E res \in {"retry", "fatal"} : Refuse(h, res)
    PROVE  pc'[h] = "idle" /\ hcall[h] # "free" /\ breaks' = breaks
<1>t. pc \in [Handlers -> HandlerPCs]
  BY DEF TypeOK
<1>1. CASE \/ PushRefused(h) \/ ResumeOffsetRefused(h)
           \/ \E res \in {"retry", "fatal"} : Refuse(h, res)
  BY <1>1 DEF PushRefused, OpenWriteBusy, OpenWriteAlreadySeen, OpenWriteCollision,
     ResumeOffsetRefused, OffsetBusy, OffsetAlreadySeen, Refuse
<1>2. CASE PushIncorrectOffset(h) \/ PushDone(h) \/ PushMismatch(h)
  BY <1>2, <1>t DEF PushIncorrectOffset, OpenContentIncorrectOffset, PushDone,
     ClosePartial, CloseDone, PushMismatch, MismatchRemoveDir, Return
<1>3. CASE ServerError(h) \/ DoneError(h) \/ ResumeOffset(h)
  BY <1>3, <1>t DEF ServerError, IOError, DoneError, CloseDone, ResumeOffset,
     OffsetReturn, Return
<1> QED BY <1>1, <1>2, <1>3

\* A handler that returns keeps the invariant of the calls.
LEMMA ReturnKeepsCalls ==
    ASSUME IInv, CallInv, CallOK, NEW h \in Handlers,
           \/ PushRefused(h) \/ PushIncorrectOffset(h) \/ PushDone(h) \/ PushMismatch(h)
           \/ ServerError(h) \/ DoneError(h) \/ ResumeOffsetRefused(h) \/ ResumeOffset(h)
           \/ \E res \in {"retry", "fatal"} : Refuse(h, res)
    PROVE  CallOK'
<1>i. pc'[h] = "idle" /\ hcall[h] # "free" /\ breaks' = breaks
  BY EndsIdle DEF IInv
<1>t. /\ scall \in [Senders -> Handlers \cup {NoCall}]
      /\ cpc \in [Senders -> {"idle", "push", "send", "finish", "offset",
                              "sent", "seen", "fatal"}]
      /\ spos \in [Senders -> Nat] /\ soff \in [Senders -> Nat]
      /\ sres \in [Senders -> Results]
      /\ hcall \in [Handlers -> {"free", "push", "recv", "fail", "offset"}]
      /\ hs \in [Handlers -> Senders \cup {NoCall}]
      /\ hoff \in [Handlers -> Nat]
      /\ hgood \in [Handlers -> BOOLEAN]
      /\ hin \in [Handlers -> Seq(Chunks)]
      /\ hend \in [Handlers -> {"open", "eof", "broken"}]
      /\ NoCall \notin Handlers
      /\ hs[h] \in Senders
  BY <1>i, Arguments, PushAssumption DEF CallInv, PushTypeOK
<1>r. EndCall(h) /\ ((\E res : Reply(h, res)) \/ ResumeOffset(h))
  BY DEF PushRefused, PushIncorrectOffset, PushDone, PushMismatch, ServerError,
     DoneError, ResumeOffsetRefused, ResumeOffset, Refuse, Reply
<1>s. \A k \in Handlers \ {h} :
        /\ pc'[k] = pc[k] /\ hm'[k] = hm[k]
        /\ hfile'[k] = hfile[k] /\ hsum'[k] = hsum[k]
  <2>1. CASE \E res \in {"retry", "fatal"} : Refuse(h, res)
    BY <2>1 DEF Refuse
  <2>2. CASE ~ \E res \in {"retry", "fatal"} : Refuse(h, res)
    <3>1. HandlerStep(h)
      BY <2>2, HandlerRefines DEF ServerStep
    <3> QED BY <3>1, StorageFrame DEF IInv
  <2> QED BY <2>1, <2>2
<1>o. OnlyHandler(h)
  BY <1>s, <1>r, <1>t DEF OnlyHandler, EndCall
<1>1. CASE \E res : Reply(h, res)
  <2>1. PICK res : Reply(h, res)
    BY <1>1
  <2>2. Ends(h)
    BY <2>1, <1>i, <1>o, ReplyEnds DEF Ends
  <2> QED BY <2>2, HandlerCallFrame
<1>2. CASE ResumeOffset(h)
  <2>1. ASSUME NEW t \in Senders, scall[t] = h
        PROVE  scall'[t] = NoCall /\ AtOffset(t)'
    <3>1. t = hs[h]
      BY <2>1, <1>t DEF CallOK, Linked
    <3>2. scall'[t] = NoCall /\ cpc'[t] = "push" /\ spos'[t] = soff'[t]
      BY <1>2, <2>1, <3>1, <1>t DEF ResumeOffset, ResumeOffsetReply, SetSender
    <3> QED BY <3>2 DEF AtOffset
  <2>2. ASSUME NEW t \in Senders, scall[t] # h
        PROVE  /\ scall'[t] = scall[t] /\ cpc'[t] = cpc[t] /\ spos'[t] = spos[t]
               /\ soff'[t] = soff[t] /\ sres'[t] = sres[t]
    BY <1>2, <2>2, <1>t DEF ResumeOffset, ResumeOffsetReply, SetSender
  <2>3. rewound' = rewound
    BY <1>2 DEF ResumeOffset
  <2>4. Ends(h)
    BY <2>1, <2>2, <2>3, <1>i, <1>o, <1>r DEF Ends
  <2> QED BY <2>4, HandlerCallFrame
<1> QED BY <1>r, <1>1, <1>2

\* A crash ends every call.
LEMMA CrashKeepsCalls ==
    ASSUME CallInv, CallOK, ServerCrash
    PROVE  CallOK'
<1>1. ASSUME NEW h \in Handlers PROVE Serving(h)' /\ Stream(h)' /\ Failing(h)'
  <2>1. hcall'[h] = "free" /\ pc'[h] = "idle" /\ hin'[h] = << >> /\ hend'[h] = "open"
    BY DEF ServerCrash, Crash
  <2> QED BY <2>1 DEF Serving, Stream, Failing
<1>2. ASSUME NEW s \in Senders PROVE Linked(s)' /\ AtOffset(s)'
  <2>1. scall'[s] = NoCall /\ UNCHANGED <<cpc, spos, soff, rewound>> /\ AtOffset(s)
    BY DEF ServerCrash, CallOK
  <2> QED BY <2>1 DEF Linked, AtOffset
<1> QED BY <1>1, <1>2 DEF CallOK

\* Every step keeps the invariant of the calls.
LEMMA CallsStep ==
    ASSUME IInv, CallInv, CallOK, [PushNext]_pushVars
    PROVE  CallOK'
<1>1. CASE UNCHANGED pushVars
  BY <1>1 DEF CallOK, Serving, Stream, Failing, Linked, AtOffset, Taken, Msg, Length
<1>2. ASSUME NEW s \in Senders, SenderStep(s) \/ Break(s) PROVE CallOK'
  BY <1>2, SenderKeepsCalls, NewCallKeepsCalls DEF SenderStep
<1>3. ASSUME NEW h \in Handlers, ServerStep(h) PROVE CallOK'
  BY <1>3, HandlerKeepsCalls, ReturnKeepsCalls DEF ServerStep
<1>4. ASSUME NEW h \in Handlers,
             \/ \E res \in {"retry", "fatal"} : Refuse(h, res)
             \/ ReceiveError(h) \/ ServerError(h) \/ DoneError(h)
      PROVE  CallOK'
  BY <1>4, HandlerKeepsCalls, ReturnKeepsCalls
<1> QED BY <1>1, <1>2, <1>3, <1>4, CrashKeepsCalls DEF PushNext

-----------------------------------------------------------------------------
(* Types and bounds.                                                       *)

\* Every step keeps the types of the sender's and the calls' variables.
LEMMA PushTypeStep ==
    ASSUME CallInv, [PushNext]_pushVars, TypeOK'
    PROVE  PushTypeOK'
<1>t. /\ PushTypeOK /\ TypeOK /\ Sends \in [Senders -> Msgs]
      /\ MaxBreaks \in Nat /\ MaxErrors \in Nat
  BY PushAssumption DEF CallInv, PushTypeOK
<1>a. \A h \in Handlers : hcall[h] # "free" => hs[h] \in Senders /\ Msg(h) \in Msgs
  BY Arguments
<1>1. CASE UNCHANGED pushVars
  BY <1>1, <1>t DEF PushTypeOK
<1>v. ASSUME NEW s \in Senders,
             NEW to \in {"idle", "push", "send", "finish", "offset", "sent", "seen", "fatal"},
             NEW pos \in Nat, NEW off \in Nat, NEW res \in Results,
             SetSender(s, to, pos, off, res)
      PROVE  /\ cpc' \in [Senders -> {"idle", "push", "send", "finish", "offset",
                                      "sent", "seen", "fatal"}]
             /\ spos' \in [Senders -> Nat] /\ soff' \in [Senders -> Nat]
             /\ sres' \in [Senders -> Results]
  BY <1>v, <1>t DEF PushTypeOK, SetSender
<1>2. ASSUME NEW s \in Senders,
             \/ PushMessage(s) \/ SendError(s) \/ Finish(s) \/ PushResult(s)
             \/ ResumeOffsetResult(s)
      PROVE  PushTypeOK'
  <2>0. /\ spos[s] \in Nat /\ soff[s] \in Nat /\ 0 \in Nat
        /\ "none" \in Results
    BY <1>t DEF PushTypeOK, Results
  <2>a. CASE PushMessage(s)
    <3>1. SetSender(s, "push", 0, 0, "none")
      BY <2>a DEF PushMessage
    <3> QED BY <3>1, <2>a, <2>0, <1>v, <1>t DEF PushTypeOK, PushMessage
  <2>1. CASE SendError(s)
    <3>1. SetSender(s, "idle", 0, 0, "none") /\ errors' \in 0 .. MaxErrors
      BY <2>1, <1>t DEF SendError, Leave, PushTypeOK
    <3> QED BY <3>1, <2>1, <2>0, <1>v, <1>t DEF PushTypeOK, SendError
  <2>2. CASE Finish(s)
    BY <2>2, <1>t DEF PushTypeOK, Finish, SetSender
  <2>3. CASE PushResult(s)
    <3>1. \E to \in {"idle", "push", "offset", "sent", "seen", "fatal"}, pos \in {0, spos[s]},
             off \in {0, soff[s]} : SetSender(s, to, pos, off, "none")
      BY <2>3 DEF PushResult, Leave
    <3>2. PICK to \in {"idle", "push", "offset", "sent", "seen", "fatal"}, pos \in {0, spos[s]},
               off \in {0, soff[s]} : SetSender(s, to, pos, off, "none")
      BY <3>1
    <3>3. pos \in Nat /\ off \in Nat
      BY <3>2, <2>0
    <3>4. /\ cpc' \in [Senders -> {"idle", "push", "send", "finish", "offset",
                                   "sent", "seen", "fatal"}]
          /\ spos' \in [Senders -> Nat] /\ soff' \in [Senders -> Nat]
          /\ sres' \in [Senders -> Results]
      BY <3>2, <3>3, <2>0, <1>v
    <3> QED BY <3>4, <2>3, <1>t DEF PushTypeOK, PushResult
  <2>4. CASE ResumeOffsetResult(s)
    <3>1. \E to \in {"idle", "push", "offset", "sent", "seen", "fatal"}, pos \in {0, spos[s]},
             off \in {0, soff[s]} : SetSender(s, to, pos, off, "none")
      BY <2>4 DEF ResumeOffsetResult, Leave
    <3>2. PICK to \in {"idle", "push", "offset", "sent", "seen", "fatal"}, pos \in {0, spos[s]},
               off \in {0, soff[s]} : SetSender(s, to, pos, off, "none")
      BY <3>1
    <3>3. pos \in Nat /\ off \in Nat
      BY <3>2, <2>0
    <3>4. /\ cpc' \in [Senders -> {"idle", "push", "send", "finish", "offset",
                                   "sent", "seen", "fatal"}]
          /\ spos' \in [Senders -> Nat] /\ soff' \in [Senders -> Nat]
          /\ sres' \in [Senders -> Results]
      BY <3>2, <3>3, <2>0, <1>v
    <3> QED BY <3>4, <2>4, <1>t DEF PushTypeOK, ResumeOffsetResult
  <2> QED BY <1>2, <2>a, <2>1, <2>2, <2>3, <2>4
<1>3. ASSUME NEW s \in Senders, NEW h \in Handlers, DoPush(s, h) \/ CallResumeOffset(s, h)
      PROVE  PushTypeOK'
  <2>1. CASE DoPush(s, h)
    <3>1. PICK b \in BOOLEAN : b = (spos[s] = soff[s])
      OBVIOUS
    <3>2. /\ rewound' = [rewound EXCEPT ![s] = b]
          /\ hgood' = [hgood EXCEPT ![h] = b]
      BY <2>1, <3>1 DEF DoPush
    <3>3. rewound' \in [Senders -> BOOLEAN] /\ hgood' \in [Handlers -> BOOLEAN]
      BY <3>2, <1>t DEF PushTypeOK
    <3>4. /\ cpc' = [cpc EXCEPT ![s] = "send"] /\ spos' = [spos EXCEPT ![s] = spos[s]]
          /\ soff' = [soff EXCEPT ![s] = soff[s]] /\ sres' = [sres EXCEPT ![s] = "none"]
          /\ hcall' = [hcall EXCEPT ![h] = "push"] /\ hs' = [hs EXCEPT ![h] = s]
          /\ hoff' = [hoff EXCEPT ![h] = soff[s]] /\ scall' = [scall EXCEPT ![s] = h]
          /\ UNCHANGED <<hin, hend, pub, doneFailed, breaks, errors>>
      BY <2>1 DEF DoPush, StartCall, SetSender
    <3> QED BY <3>3, <3>4, <1>t DEF PushTypeOK, Results
  <2>2. CASE CallResumeOffset(s, h)
    BY <2>2, <1>t DEF PushTypeOK, CallResumeOffset, StartCall
  <2> QED BY <1>3, <2>1, <2>2
<1>4. ASSUME NEW s \in Senders, Send(s) PROVE PushTypeOK'
  <2>1. Content[Sends[s]] \in Seq(Chunks) /\ spos[s] + 1 \in 1 .. Len(Content[Sends[s]])
    BY <1>4, <1>t, ConstantsAssumption DEF Send, Length, PushTypeOK
  <2>2. Content[Sends[s]][spos[s] + 1] \in Chunks
    BY <2>1, ElementOfSeq
  <2>3. PICK c \in Chunks : c = Content[Sends[s]][spos[s] + 1]
    BY <2>2
  <2>4. \A h \in Handlers : Append(hin[h], c) \in Seq(Chunks)
    <3>1. \A h \in Handlers : hin[h] \in Seq(Chunks)
      BY <1>t DEF PushTypeOK
    <3> QED BY <3>1, <2>3, AppendProperties
  <2>5. scall[s] \in Handlers \cup {NoCall}
    BY <1>t DEF PushTypeOK
  <2>6. hin' \in [Handlers -> Seq(Chunks)]
    BY <1>4, <1>t, <2>3, <2>4, <2>5 DEF Send, PushTypeOK
  <2> QED BY <1>4, <1>t, <2>6 DEF Send, PushTypeOK, SetSender
<1>5. ASSUME NEW s \in Senders, Break(s) PROVE PushTypeOK'
  <2>1. \A h \in Handlers : \A n \in 0 .. Len(hin[h]) : SubSeq(hin[h], 1, n) \in Seq(Chunks)
    <3>1. ASSUME NEW h \in Handlers, NEW n \in 0 .. Len(hin[h])
          PROVE  SubSeq(hin[h], 1, n) \in Seq(Chunks)
      <4>1. hin[h] \in Seq(Chunks) /\ Len(hin[h]) \in Nat
        BY <1>t, LenProperties DEF PushTypeOK
      <4>2. \A i \in 1 .. n : hin[h][i] \in Chunks
        BY <4>1, ElementOfSeq
      <4> QED BY <4>1, <4>2, SubSeqProperties
    <3> QED BY <3>1
  <2>2. scall[s] \in Handlers \cup {NoCall}
    BY <1>t DEF PushTypeOK
  <2>3. /\ hin' \in [Handlers -> Seq(Chunks)]
        /\ hend' \in [Handlers -> {"open", "eof", "broken"}]
    <3>1. CASE scall[s] = NoCall
      BY <1>5, <1>t, <3>1 DEF Break, PushTypeOK
    <3>2. CASE scall[s] # NoCall
      <4>1. PICK n \in 0 .. Len(hin[scall[s]]) :
              /\ hin' = [hin EXCEPT ![scall[s]] = SubSeq(@, 1, n)]
              /\ hend' = [hend EXCEPT ![scall[s]] = "broken"]
        BY <1>5, <3>2 DEF Break
      <4> QED BY <4>1, <3>2, <2>1, <2>2, <1>t DEF PushTypeOK
    <3> QED BY <3>1, <3>2
  <2> QED BY <1>5, <1>t, <2>3 DEF Break, PushTypeOK, Leave, SetSender, Results
<1>r. ASSUME NEW h \in Handlers, hcall[h] # "free", NEW res \in Results, Reply(h, res)
      PROVE  /\ UNCHANGED <<cpc, spos, soff, rewound>>
             /\ scall' \in [Senders -> Handlers \cup {NoCall}]
             /\ sres' \in [Senders -> Results]
             /\ hcall' \in [Handlers -> {"free", "push", "recv", "fail", "offset"}]
             /\ hs' \in [Handlers -> Senders \cup {NoCall}]
             /\ hoff' \in [Handlers -> Nat]
             /\ hin' \in [Handlers -> Seq(Chunks)]
             /\ hend' \in [Handlers -> {"open", "eof", "broken"}]
             /\ hgood' \in [Handlers -> BOOLEAN]
  <2>1. << >> \in Seq(Chunks)
    BY EmptySeq
  <2> QED BY <1>r, <1>t, <1>a, <2>1 DEF PushTypeOK, Reply, EndCall
<1>6. ASSUME NEW h \in Handlers,
             \/ PushRefused(h) \/ PushIncorrectOffset(h) \/ PushMismatch(h)
             \/ ServerError(h) \/ ResumeOffsetRefused(h)
             \/ \E res \in {"retry", "fatal"} : Refuse(h, res)
      PROVE  PushTypeOK'
  <2>1. /\ \E res \in Results : Reply(h, res)
        /\ hcall[h] # "free"
        /\ UNCHANGED <<pub, doneFailed, breaks>>
        /\ errors' \in 0 .. MaxErrors
    BY <1>6, <1>t DEF PushRefused, PushIncorrectOffset, PushMismatch, ServerError,
       ResumeOffsetRefused, Refuse, Results, PushTypeOK
  <2> QED BY <2>1, <1>r, <1>t DEF PushTypeOK
<1>7. ASSUME NEW h \in Handlers, PushDone(h) \/ DoneError(h) PROVE PushTypeOK'
  <2>1. /\ \E res \in Results : Reply(h, res)
        /\ hcall[h] # "free"
        /\ breaks' = breaks
        /\ errors' \in 0 .. MaxErrors
    BY <1>7, <1>t DEF PushDone, DoneError, Results, PushTypeOK
  <2>b. doneFailed' \in {doneFailed, TRUE} /\ doneFailed \in BOOLEAN
    BY <1>7, <1>t DEF PushDone, DoneError, PushTypeOK
  <2>c. doneFailed' \in BOOLEAN
    BY <2>b, Zenon
  <2>2. hgood[h] \in BOOLEAN /\ Msg(h) \in Msgs
    BY <2>1, <1>t, <1>a DEF PushTypeOK
  <2>3. pub' \in SUBSET (Msgs \X BOOLEAN)
    <3>1. <<Msg(h), hgood[h]>> \in Msgs \X BOOLEAN
      BY <2>2
    <3>2. pub' \in {pub, pub \cup {<<Msg(h), hgood[h]>>}}
      BY <1>7 DEF PushDone, DoneError
    <3>3. pub \in SUBSET (Msgs \X BOOLEAN)
      BY <1>t DEF PushTypeOK
    <3> QED BY <3>1, <3>2, <3>3, Zenon
  <2> QED BY <2>1, <2>c, <2>3, <1>r, <1>t DEF PushTypeOK
<1>8. ASSUME NEW h \in Handlers,
             \/ PushOpens(h) \/ PushOpened(h) \/ ReceiveError(h) \/ ReceiveEnd(h)
             \/ CloseGoesOn(h) \/ ResumeOffsetLocks(h)
      PROVE  PushTypeOK'
  <2>1. CASE PushOpens(h) \/ CloseGoesOn(h) \/ ResumeOffsetLocks(h)
    <3>1. UNCHANGED <<sender, call, pub, tally>>
      BY <2>1 DEF PushOpens, CloseGoesOn, ResumeOffsetLocks
    <3> QED BY <3>1, <1>t DEF PushTypeOK
  <2>2. CASE PushOpened(h) \/ ReceiveError(h) \/ ReceiveEnd(h)
    <3>1. /\ UNCHANGED <<sender, hs, hoff, hin, hend, hgood, pub, doneFailed, breaks>>
          /\ hcall' = hcall \/ \E k \in {"recv", "fail"} : hcall' = [hcall EXCEPT ![h] = k]
          /\ errors' \in 0 .. MaxErrors
      BY <2>2, <1>t DEF PushOpened, ReceiveError, ReceiveEnd, PushTypeOK
    <3> QED BY <3>1, <1>t DEF PushTypeOK
  <2> QED BY <1>8, <2>1, <2>2
<1>9. ASSUME NEW h \in Handlers, Receive(h) PROVE PushTypeOK'
  <2>1. hin[h] # << >> /\ hin[h] \in Seq(Chunks)
    BY <1>9, <1>t DEF Receive, PushTypeOK
  <2>2. Tail(hin[h]) \in Seq(Chunks)
    BY <2>1, HeadTailProperties
  <2> QED BY <1>9, <1>t, <2>2 DEF PushTypeOK, Receive
<1>10. ASSUME NEW h \in Handlers, ResumeOffset(h) PROVE PushTypeOK'
  <2>1. hs[h] \in Senders /\ hm[h] \in Msgs
    BY <1>10, <1>a, Arguments DEF ResumeOffset, OffsetReturn
  <2>2. OffsetResult(h) \in Nat
    <3>1. content[Id(h)] \in Seq(Chunks)
      BY <2>1, <1>t, ConstantsAssumption DEF Id, TypeOK
    <3> QED BY <3>1, LenProperties DEF OffsetResult
  <2>3. << >> \in Seq(Chunks)
    BY EmptySeq
  <2>4. /\ hcall' \in [Handlers -> {"free", "push", "recv", "fail", "offset"}]
        /\ hs' \in [Handlers -> Senders \cup {NoCall}]
        /\ hoff' \in [Handlers -> Nat]
        /\ hin' \in [Handlers -> Seq(Chunks)]
        /\ hend' \in [Handlers -> {"open", "eof", "broken"}]
        /\ hgood' \in [Handlers -> BOOLEAN]
    BY <1>10, <1>t, <2>3 DEF PushTypeOK, ResumeOffset, EndCall
  <2>5. PICK off \in Nat : off = OffsetResult(h)
    BY <2>2
  <2>6. /\ \/ UNCHANGED <<cpc, spos, soff, scall, sres>>
           \/ \E s \in Senders :
                /\ cpc' = [cpc EXCEPT ![s] = "push"] /\ spos' = [spos EXCEPT ![s] = off]
                /\ soff' = [soff EXCEPT ![s] = off] /\ sres' = [sres EXCEPT ![s] = "none"]
                /\ scall' = [scall EXCEPT ![s] = NoCall]
        /\ UNCHANGED <<rewound, pub, doneFailed, breaks, errors>>
    BY <1>10, <2>1, <2>5 DEF ResumeOffset, ResumeOffsetReply, SetSender
  <2>7. "none" \in Results
    BY DEF Results
  <2>8. /\ cpc' \in [Senders -> {"idle", "push", "send", "finish", "offset",
                                 "sent", "seen", "fatal"}]
        /\ spos' \in [Senders -> Nat] /\ soff' \in [Senders -> Nat]
        /\ sres' \in [Senders -> Results]
        /\ scall' \in [Senders -> Handlers \cup {NoCall}]
    <3>1. CASE UNCHANGED <<cpc, spos, soff, scall, sres>>
      BY <1>t, <3>1 DEF PushTypeOK
    <3>2. ASSUME NEW s \in Senders, SetSender(s, "push", off, off, "none"),
                 scall' = [scall EXCEPT ![s] = NoCall]
          PROVE  /\ cpc' \in [Senders -> {"idle", "push", "send", "finish", "offset",
                                          "sent", "seen", "fatal"}]
                 /\ spos' \in [Senders -> Nat] /\ soff' \in [Senders -> Nat]
                 /\ sres' \in [Senders -> Results]
                 /\ scall' \in [Senders -> Handlers \cup {NoCall}]
      <4>1. scall' \in [Senders -> Handlers \cup {NoCall}]
        BY <3>2, <1>t DEF PushTypeOK
      <4> QED BY <4>1, <3>2, <2>7, <1>v
    <3> QED BY <3>1, <3>2, <2>6 DEF SetSender
  <2> QED BY <1>t, <2>4, <2>6, <2>8 DEF PushTypeOK
<1>11. CASE ServerCrash
  <2>1. << >> \in Seq(Chunks)
    BY EmptySeq
  <2> QED BY <1>11, <1>t, <2>1 DEF PushTypeOK, ServerCrash, Results
<1> QED BY <1>1, <1>2, <1>3, <1>4, <1>5, <1>6, <1>7, <1>8, <1>9, <1>10, <1>11
        DEF PushNext, SenderStep, ServerStep

\* Nothing expires, and no file, and so no offset, gets longer than MaxSize.
LEMMA BoundedStep ==
    ASSUME IInv, CallInv, [PushNext]_pushVars
    PROVE  Quiet' /\ Bounded'
<1>t. /\ hoff \in [Handlers -> Nat] /\ soff \in [Senders -> Nat]
      /\ content \in [Ids -> Seq(Chunks)] /\ hfile \in [Handlers -> Seq(Chunks)]
      /\ \A id \in Ids : Len(content[id]) \in Nat
      /\ \A h \in Handlers : Len(hfile[h]) \in Nat
      /\ MaxSize \in Nat
  BY ConstantsAssumption, LenProperties DEF CallInv, PushTypeOK, TypeOK
<1>b. Bounded /\ Quiet /\ TypeOK
  BY DEF CallInv, IInv
<1>e. Len(<< >>) = 0 /\ 0 <= MaxSize
  BY <1>t
<1>q. Quiet'
  <2>1. ASSUME NEW h \in Handlers, HandlerStep(h) PROVE Quiet'
    BY <2>1, <1>b, StorageFrame DEF Quiet
  <2>2. CASE UNCHANGED vars
    BY <2>2, <1>b DEF Quiet
  <2>3. CASE ServerCrash
    BY <2>3, <1>b DEF ServerCrash, Crash, Quiet
  <2> QED BY <2>1, <2>2, <2>3, HandlerRefines, SenderRefines DEF PushNext
<1>f. /\ \A id \in Ids : Len(content'[id]) <= MaxSize
      /\ \A h \in Handlers : Len(hfile'[h]) <= MaxSize
  <2>1. CASE UNCHANGED vars
    BY <2>1, <1>b DEF Bounded
  <2>2. CASE ServerCrash
    <3>1. \A h \in Handlers : Len(hfile'[h]) <= MaxSize
      BY <2>2, <1>e DEF ServerCrash, Crash
    <3>2. PICK keep \in [Ids -> 0 .. MaxSize] :
            /\ \A id \in Ids : keep[id] \in synced[id] .. Len(content[id])
            /\ content' = [id \in Ids |-> SubSeq(content[id], 1, keep[id])]
      BY <2>2 DEF ServerCrash, Crash
    <3>3. ASSUME NEW id \in Ids PROVE Len(content'[id]) <= MaxSize
      <4>1. keep[id] \in 0 .. Len(content[id]) /\ keep[id] <= MaxSize /\ keep[id] \in Nat
        BY <3>2, <1>t, <1>b DEF TypeOK
      <4>2. \A i \in 1 .. keep[id] : content[id][i] \in Chunks
        BY <4>1, <1>t, ElementOfSeq
      <4>3. Len(SubSeq(content[id], 1, keep[id])) = keep[id]
        BY <4>1, <4>2, <1>t, SubSeqProperties
      <4> QED BY <3>2, <4>1, <4>3
    <3> QED BY <3>1, <3>3
  <2>3. ASSUME NEW h \in Handlers, HandlerStep(h)
        PROVE  /\ \A id \in Ids : Len(content'[id]) <= MaxSize
               /\ \A k \in Handlers : Len(hfile'[k]) <= MaxSize
    <3>id. pc[h] # "idle" => Id(h) \in Ids
      BY WriterKnows
    <3>1. CASE OpenWriteStep(h)
      <4>1. /\ content' = content
            /\ \A k \in Handlers :
                 \/ hfile'[k] = hfile[k]
                 \/ hfile'[k] = << >>
                 \/ Id(h) \in Ids /\ hfile'[k] = content[Id(h)]
        <5>1. ASSUME NEW offset, OpenContent(h, offset)
              PROVE  /\ content' = content /\ Id(h) \in Ids
                     /\ \A k \in Handlers :
                          hfile'[k] = hfile[k] \/ hfile'[k] = content[Id(h)]
          BY <5>1, <3>id, <1>t DEF OpenContent
        <5>2. CASE ~ \E offset : OpenContent(h, offset)
          <6>1. /\ content' = content
                /\ \A k \in Handlers : hfile'[k] = hfile[k] \/ hfile'[k] = << >>
            BY <3>1, <5>2, <1>t DEF OpenWriteStep, OpenWriteBusy, OpenWriteAlreadySeen,
               OpenWriteCollision, OpenWrite, CreateMessage, EncodeMessage,
               OpenContentIncorrectOffset, Return, Goto
          <6> QED BY <6>1
        <5> QED BY <5>1, <5>2
      <4> QED BY <4>1, <1>b, <1>e DEF Bounded
    <3>2. CASE WriteStep(h)
      <4>1. PICK c \in Chunks : Write(h, c) \/ WriteError(h, c)
        BY <3>2 DEF WriteStep
      <4>2. Len(Append(hfile[h], c)) = Len(hfile[h]) + 1
        BY <1>t, AppendProperties
      <4>3. CASE Write(h, c)
        <5>1. Len(Append(hfile[h], c)) <= MaxSize
          BY <4>3, <4>2, <1>t DEF Write
        <5>2. /\ \A id \in Ids : content'[id] \in {content[id], Append(hfile[h], c)}
              /\ \A k \in Handlers : hfile'[k] \in {hfile[k], Append(hfile[h], c)}
          BY <4>3, <1>t, <3>id DEF Write
        <5> QED BY <5>1, <5>2, <1>b DEF Bounded
      <4>4. CASE WriteError(h, c)
        BY <4>4, <1>b DEF WriteError, Bounded
      <4> QED BY <4>1, <4>3, <4>4
    <3>3. CASE CloseStep(h) \/ OffsetStep(h) \/ IOError(h)
      <4>1. /\ \A id \in Ids : content'[id] \in {content[id], << >>}
            /\ \A k \in Handlers : hfile'[k] \in {hfile[k], << >>}
        <5>1. CASE CloseStep(h)
          BY <5>1, <1>t, <3>id DEF CloseStep, CloseBegin, Abandon, Sync, ClosePartial, CloseDone,
             CloseMismatch, MismatchUnlink, MismatchListedEmpty, MismatchRemoveDir,
             UnlinkFile, RemoveDir, Return, Goto
        <5>2. CASE OffsetStep(h) \/ IOError(h)
          BY <5>2, <1>t DEF OffsetStep, OffsetBusy, OffsetAlreadySeen, OffsetLock,
             OffsetReturn, IOError, Return
        <5> QED BY <3>3, <5>1, <5>2
      <4> QED BY <4>1, <1>b, <1>e DEF Bounded
    <3> QED BY <2>3, <3>1, <3>2, <3>3 DEF HandlerStep
  <2> QED BY <2>1, <2>2, <2>3, HandlerRefines, SenderRefines DEF PushNext
<1>o. /\ \A h \in Handlers : hoff'[h] <= MaxSize
      /\ \A s \in Senders : soff'[s] <= MaxSize
  <2>1. ASSUME NEW s \in Senders, NEW h \in Handlers, DoPush(s, h) \/ CallResumeOffset(s, h)
        PROVE  \A k \in Handlers : hoff'[k] \in {hoff[k], soff[s]}
    BY <2>1, <1>t DEF DoPush, CallResumeOffset, StartCall
  <2>2. ASSUME NEW s \in Senders, SenderStep(s) \/ Break(s)
        PROVE  /\ \A t \in Senders : soff'[t] \in {soff[t], 0}
               /\ \/ hoff' = hoff
                  \/ \E h \in Handlers : DoPush(s, h) \/ CallResumeOffset(s, h)
    BY <2>2, <1>t DEF SenderStep, PushMessage, DoPush, CallResumeOffset, Send, SendError,
       Finish, PushResult, ResumeOffsetResult, Break, Leave, SetSender
  <2>3. ASSUME NEW s \in Senders, SenderStep(s) \/ Break(s) 
        PROVE  /\ \A h \in Handlers : hoff'[h] <= MaxSize
               /\ \A t \in Senders : soff'[t] <= MaxSize
    BY <2>1, <2>2, <2>3, <1>b, <1>e DEF Bounded
  <2>4. ASSUME NEW h \in Handlers,
               \/ PushOpens(h) \/ PushOpened(h) \/ Receive(h) \/ ReceiveEnd(h)
               \/ CloseGoesOn(h) \/ ResumeOffsetLocks(h) \/ ReceiveError(h)
        PROVE  hoff' = hoff /\ soff' = soff
    BY <2>4 DEF PushOpens, PushOpened, Receive, ReceiveEnd, CloseGoesOn,
       ResumeOffsetLocks, ReceiveError
  <2>5. ASSUME NEW h \in Handlers,
               \/ PushRefused(h) \/ PushIncorrectOffset(h) \/ PushDone(h)
               \/ PushMismatch(h) \/ ServerError(h) \/ DoneError(h)
               \/ ResumeOffsetRefused(h)
               \/ \E res \in {"retry", "fatal"} : Refuse(h, res)
        PROVE  (\A k \in Handlers : hoff'[k] \in {hoff[k], 0}) /\ soff' = soff
    BY <2>5, <1>t DEF PushRefused, PushIncorrectOffset, PushDone, PushMismatch,
       ServerError, DoneError, ResumeOffsetRefused, Refuse, Reply, EndCall
  <2>6. ASSUME NEW h \in Handlers, ResumeOffset(h)
        PROVE  /\ \A k \in Handlers : hoff'[k] \in {hoff[k], 0}
               /\ \A t \in Senders : soff'[t] \in {soff[t], Len(content[Id(h)])}
               /\ Id(h) \in Ids
    <3>1. Id(h) \in Ids
      BY <2>6, WriterKnows DEF ResumeOffset, OffsetReturn
    <3> QED BY <2>6, <3>1, <1>t DEF ResumeOffset, EndCall, ResumeOffsetReply, SetSender,
            OffsetResult
  <2>7. CASE ServerCrash
    BY <2>7, <1>b, <1>e DEF ServerCrash, Bounded
  <2>8. CASE UNCHANGED pushVars
    BY <2>8, <1>b DEF Bounded
  <2> QED BY <2>3, <2>4, <2>5, <2>6, <2>7, <2>8, <1>b, <1>e DEF Bounded, PushNext, ServerStep
<1> QED BY <1>q, <1>f, <1>o DEF Bounded

\* Every step keeps the invariant of the calls, the types and the bounds.
LEMMA CallInvStep ==
    ASSUME IInv, IInv', CallInv, CallOK, [PushNext]_pushVars
    PROVE  CallInv' /\ CallOK'
<1>1. CallOK'
  BY CallsStep
<1>2. PushTypeOK'
  BY PushTypeStep DEF IInv
<1>3. Quiet' /\ Bounded'
  BY BoundedStep
<1> QED BY <1>1, <1>2, <1>3 DEF CallInv, CallOK

\* Initially there are no calls.
LEMMA InitCallInv ==
    ASSUME PushInit
    PROVE  CallInv /\ CallOK
<1>e. << >> \in Seq(Chunks) /\ Len(<< >>) = 0
  BY EmptySeq
<1>i. Init /\ TypeOK
  BY InitIInv DEF PushInit, IInv
<1>1. PushTypeOK
  <2>1. /\ spos \in [Senders -> Nat] /\ soff \in [Senders -> Nat]
        /\ hoff \in [Handlers -> Nat]
        /\ breaks \in 0 .. MaxBreaks /\ errors \in 0 .. MaxErrors
    BY PushAssumption DEF PushInit
  <2>2. /\ rewound \in [Senders -> BOOLEAN] /\ hgood \in [Handlers -> BOOLEAN]
        /\ doneFailed \in BOOLEAN
        /\ pub \in SUBSET (Msgs \X BOOLEAN)
    BY DEF PushInit
  <2>3. /\ cpc \in [Senders -> {"idle", "push", "send", "finish", "offset",
                                "sent", "seen", "fatal"}]
        /\ scall \in [Senders -> Handlers \cup {NoCall}]
        /\ sres \in [Senders -> Results]
        /\ hcall \in [Handlers -> {"free", "push", "recv", "fail", "offset"}]
        /\ hs \in [Handlers -> Senders \cup {NoCall}]
        /\ hin \in [Handlers -> Seq(Chunks)]
        /\ hend \in [Handlers -> {"open", "eof", "broken"}]
    BY <1>e DEF PushInit, Results
  <2> QED BY <2>1, <2>2, <2>3, <1>i DEF PushTypeOK
<1>2. Quiet /\ Bounded
  BY <1>i, <1>e, ConstantsAssumption DEF PushInit, Init, Quiet, Bounded
<1>3. ASSUME NEW h \in Handlers PROVE Serving(h) /\ Stream(h) /\ Failing(h)
  BY <1>i DEF PushInit, Init, Serving, Stream, Failing
<1>4. ASSUME NEW s \in Senders PROVE Linked(s) /\ AtOffset(s)
  BY DEF PushInit, Linked, AtOffset
<1> QED BY <1>1, <1>2, <1>3, <1>4 DEF CallInv, CallOK

-----------------------------------------------------------------------------
(* The refinement.                                                         *)

\* Whatever the calls do, the server uses the storage as FileStorage says it is
\* used: OpenWrite, Write, Close and Offset are called in that order, with a
\* message and an offset that FileStorage admits, and every call is closed.
THEOREM UsesStorage == PushSpec => ImplementsFileStorage
<1>1. PushInit => Init /\ IInv /\ CallInv /\ CallOK
  BY InitCallInv, InitIInv DEF PushInit
<1>2. IInv /\ CallInv /\ CallOK /\ [PushNext]_pushVars =>
        IInv' /\ CallInv' /\ CallOK' /\ [Next]_vars
  BY StepRefines, NextIInv, CallInvStep
<1> QED BY <1>1, <1>2, PTL DEF PushSpec, ImplementsFileStorage, Spec

\* So the theorems of the storage hold of the node that serves Push: the lock is
\* held by one call at a time and never leaked, done certifies the content, and
\* what is complete is not taken back.
THEOREM ServedStorageIsSafe ==
    PushSpec => [](LockDiscipline /\ DoneMeansVerified) /\ CompleteIsFinal
BY UsesStorage, Locking, DoneIsCertificate, CompleteStaysComplete, PTL
   DEF ImplementsFileStorage

-----------------------------------------------------------------------------
(* What a handler knows of its files, and the prefixes.                    *)

\* A content that is a prefix of another, element by element.
LEMMA PrefixElements ==
    ASSUME NEW S, NEW a \in Seq(S), NEW b \in Seq(S), Len(a) <= Len(b)
    PROVE  a = SubSeq(b, 1, Len(a)) <=> \A i \in 1 .. Len(a) : a[i] = b[i]
<1>1. Len(a) \in Nat /\ Len(b) \in Nat
  BY LenProperties
<1>2. \A i \in 1 .. Len(a) : b[i] \in S
  BY <1>1, ElementOfSeq
<1>3. /\ SubSeq(b, 1, Len(a)) \in Seq(S)
      /\ Len(SubSeq(b, 1, Len(a))) = Len(a)
      /\ \A i \in 1 .. Len(a) : SubSeq(b, 1, Len(a))[i] = b[i]
  BY <1>1, <1>2, SubSeqProperties
<1>4. ASSUME \A i \in 1 .. Len(a) : a[i] = b[i]
      PROVE  a = SubSeq(b, 1, Len(a))
  BY <1>3, <1>4, SeqEqual
<1> QED BY <1>3, <1>4

\* A handler that uses the storage leaves the directories of other ids alone.
LEMMA FilesFrame ==
    ASSUME TypeOK, HandlersHaveMessages, NEW h \in Handlers, HandlerStep(h),
           NEW id \in Ids, pc[h] = "idle" \/ id # Id(h)
    PROVE  files'[id] = files[id]
<1>t. files \in [Ids -> SUBSET FileNames] /\ (pc[h] # "idle" => Id(h) \in Ids)
  BY ConstantsAssumption DEF TypeOK, HandlersHaveMessages, Id
<1> QED BY <1>t DEF HandlerStep, OpenWriteStep, OpenWriteBusy, OpenWriteAlreadySeen,
     OpenWriteCollision, OpenWrite, CreateMessage, EncodeMessage,
     OpenContentIncorrectOffset, OpenContent, WriteStep, Write, WriteError,
     CloseStep, CloseBegin, Abandon, Sync, ClosePartial, CloseDone, CloseMismatch,
     MismatchUnlink, MismatchListedEmpty, MismatchRemoveDir, UnlinkFile, RemoveDir,
     OffsetStep, OffsetBusy, OffsetAlreadySeen, OffsetLock, OffsetReturn, IOError

\* Close never finds a content that does not match, unless the contents of
\* messages that share an id were mixed up after a crash: the writer's file is a
\* prefix of what its message announces, and shorter than that if Write failed.
LEMMA MismatchMeansMixed ==
    ASSUME IInv, CallInv, Prefixes, NEW h \in Handlers, Holds(h), CloseMismatch(h)
    PROVE  Mixed(Id(h))
<1>1. /\ pc[h] = "finish" /\ hm[h] \in Msgs
      /\ hfile[h] \in Seq(Chunks) /\ content[Id(h)] = hfile[h]
      /\ meta[Id(h)] = hm[h]
      /\ hsum[h] # hfile[h] => Len(hfile[h]) < Length(hm[h])
  BY WriterKnows DEF CloseMismatch, HandlerKnows, Holds
<1>2. Content[hm[h]] \in Seq(Chunks) /\ Length(hm[h]) \in Nat /\ Len(hfile[h]) \in Nat
  BY <1>1, ConstantsAssumption, LenProperties DEF Length
<1> SUFFICES ASSUME ~ Mixed(Id(h)) PROVE FALSE
  OBVIOUS
<1>3. HoldsPrefix(Id(h), hm[h])
  BY <1>1 DEF Prefixes, Id
<1>4. Len(hfile[h]) <= Length(hm[h])
  BY <1>1, <1>3 DEF HoldsPrefix
<1>5. Len(hfile[h]) = Length(hm[h]) /\ hsum[h] # Content[hm[h]]
  BY <1>4, <1>2 DEF CloseMismatch
<1>6. hfile[h] = Content[hm[h]]
  <2>1. hfile[h] = SubSeq(Content[hm[h]], 1, Len(Content[hm[h]]))
    BY <1>1, <1>3, <1>5 DEF HoldsPrefix, Length
  <2> QED BY <2>1, <1>2, SubSeqFull
<1> QED BY <1>1, <1>2, <1>5, <1>6

\* A chunk that arrives is the next one of the message.
LEMMA NextChunk ==
    ASSUME CallInv, NEW h \in Handlers, Stream(h), hcall[h] = "recv", pc[h] = "write",
           hin[h] # << >>
    PROVE  /\ Len(hfile[h]) + 1 <= Length(hm[h])
           /\ Head(hin[h]) = Content[hm[h]][Len(hfile[h]) + 1]
           /\ Head(hin[h]) \in Chunks
<1>1. /\ Head(hin[h]) \in Chunks /\ Head(hin[h]) = hin[h][1] /\ hm[h] = Msg(h)
      /\ 1 \in 1 .. Len(hin[h])
  BY Arguments
<1>2. /\ Taken(h) + 1 <= Length(Msg(h))
      /\ hin[h][1] = Content[Msg(h)][Taken(h) + 1]
  BY <1>1 DEF Stream, Closing
<1> QED BY <1>1, <1>2 DEF Taken

\* Every step of a handler keeps what it knows of its files.
LEMMA OwnHolds ==
    ASSUME IInv, CallInv, CallOK, Prefixes, NEW h \in Handlers, Holds(h),
           \/ ServerStep(h) \/ ReceiveError(h) \/ ServerError(h) \/ DoneError(h)
    PROVE  Holds(h)'
<1>t. /\ pc \in [Handlers -> HandlerPCs] /\ hm \in [Handlers -> Msgs \cup {NoMsg}]
      /\ hfile \in [Handlers -> Seq(Chunks)] /\ hsum \in [Handlers -> Seq(Chunks)]
      /\ files \in [Ids -> SUBSET FileNames] /\ meta \in [Ids -> Msgs \cup {NoMsg}]
  BY DEF IInv, TypeOK
<1>w. pc[h] # "idle" => HandlerKnows(h) /\ hm[h] \in Msgs /\ Id(h) \in Ids
  BY WriterKnows
<1>i. pc'[h] \in {"idle", "offset"} => Holds(h)'
  BY DEF Holds
<1>1. CASE \/ PushRefused(h) \/ PushIncorrectOffset(h) \/ PushDone(h) \/ PushMismatch(h)
           \/ ServerError(h) \/ DoneError(h) \/ ResumeOffsetRefused(h) \/ ResumeOffset(h)
  BY <1>1, <1>i, EndsIdle DEF IInv
<1>2. CASE ResumeOffsetLocks(h)
  BY <1>2, <1>i, <1>t DEF ResumeOffsetLocks, OffsetLock
<1>3. CASE PushOpens(h)
  <2>a. CASE OpenWrite(h, Msg(h))
    <3>1. /\ hm'[h] = Msg(h) /\ meta' = meta
          /\ IF meta[IdOf[Msg(h)]] = Msg(h) THEN pc'[h] = "open"
             ELSE pc'[h] = "create" /\ meta[IdOf[Msg(h)]] = NoMsg
      BY <2>a, <1>t DEF OpenWrite
    <3>2. Id(h)' = IdOf[Msg(h)]
      BY <3>1 DEF Id
    <3> QED BY <3>1, <3>2 DEF Holds
  <2>b. CASE CreateMessage(h)
    <3>1. pc'[h] = "encode" /\ Id(h)' = Id(h) /\ "message" \in files'[Id(h)]
      BY <2>b, <1>t, <1>w DEF CreateMessage, Goto, Id
    <3> QED BY <3>1 DEF Holds
  <2>c. CASE EncodeMessage(h)
    <3>1. pc[h] = "encode" /\ pc'[h] = "open" /\ Id(h)' = Id(h) /\ hm'[h] = hm[h]
      BY <2>c, <1>t DEF EncodeMessage, Goto, Id
    <3>2. "message" \in files[Id(h)]
      BY <3>1 DEF Holds
    <3>3. meta'[Id(h)] = hm[h]
      BY <2>c, <3>1, <3>2, <1>t, <1>w DEF EncodeMessage
    <3> QED BY <3>1, <3>3 DEF Holds
  <2> QED BY <1>3, <2>a, <2>b, <2>c DEF PushOpens
<1>4. CASE PushOpened(h) \/ Receive(h)
  <2>1. /\ pc[h] \in {"open", "write"} /\ pc'[h] = "write" /\ Id(h)' = Id(h)
        /\ hm'[h] = hm[h] /\ meta' = meta
    BY <1>4, <1>t DEF PushOpened, OpenContent, Receive, Write, Id
  <2> QED BY <2>1 DEF Holds
<1>5. CASE ReceiveError(h)
  <2>1. /\ pc[h] = "write" /\ pc'[h] = "close" /\ Id(h)' = Id(h) /\ hm'[h] = hm[h]
        /\ meta' = meta /\ hfile'[h] = hfile[h] /\ hcall[h] = "recv" /\ hin[h] # << >>
    BY <1>5, <1>t DEF ReceiveError, WriteError, Id
  <2>2. Len(hfile[h]) + 1 <= Length(hm[h])
    BY <2>1, NextChunk DEF CallOK
  <2>3. Len(hfile[h]) \in Nat /\ Length(hm[h]) \in Nat
    <3>1. hfile[h] \in Seq(Chunks) /\ Content[hm[h]] \in Seq(Chunks)
      BY <1>t, <1>w, <2>1, ConstantsAssumption
    <3> QED BY <3>1, LenProperties DEF Length
  <2>4. Len(hfile[h]) < Length(hm[h])
    BY <2>2, <2>3
  <2>5. Length(hm[h])' = Length(hm[h])
    BY <2>1 DEF Length
  <2> QED BY <2>1, <2>4, <2>5 DEF Holds
<1>6. CASE ReceiveEnd(h)
  <2>1. /\ pc[h] = "write" /\ pc'[h] = "close" /\ Id(h)' = Id(h) /\ hm'[h] = hm[h]
        /\ meta' = meta /\ hfile'[h] = hfile[h] /\ hsum'[h] = hsum[h]
    BY <1>6, <1>t DEF ReceiveEnd, CloseBegin, Goto, Id
  <2>2. hsum[h] = hfile[h]
    BY <2>1, <1>w DEF HandlerKnows
  <2> QED BY <2>1, <2>2 DEF Holds
<1>7. CASE CloseGoesOn(h)
  <2>0. crashes' = crashes
    BY <1>7 DEF CloseGoesOn, Sync, CloseMismatch, MismatchUnlink, UnlinkFile,
       MismatchListedEmpty
  <2>a. CASE Sync(h)
    <3>1. /\ pc[h] = "close" /\ pc'[h] = "finish" /\ Id(h)' = Id(h) /\ hm'[h] = hm[h]
          /\ meta' = meta /\ hfile'[h] = hfile[h] /\ hsum'[h] = hsum[h]
      BY <2>a, <1>t DEF Sync, Goto, Id
    <3>2. Length(hm[h])' = Length(hm[h])
      BY <3>1 DEF Length
    <3> QED BY <3>1, <3>2 DEF Holds
  <2>b. CASE CloseMismatch(h)
    <3>1. pc'[h] = "unlink" /\ Id(h)' = Id(h)
      BY <2>b, <1>t DEF CloseMismatch, Goto, Id
    <3>2. Mixed(Id(h))'
      BY <3>1, <2>0, <2>b, MismatchMeansMixed DEF Mixed, Shared
    <3> QED BY <3>1, <3>2 DEF Holds
  <2>c. CASE MismatchListedEmpty(h) \/ \E f \in FileNames : MismatchUnlink(h, f)
    <3>1. pc[h] = "unlink" /\ pc'[h] \in {"unlink", "rmdir"} /\ Id(h)' = Id(h)
      BY <2>c, <1>t DEF MismatchListedEmpty, MismatchUnlink, UnlinkFile, Goto, Id
    <3>2. Mixed(Id(h))'
      BY <3>1, <2>0 DEF Holds, Mixed, Shared
    <3> QED BY <3>1, <3>2 DEF Holds
  <2> QED BY <1>7, <2>a, <2>b, <2>c DEF CloseGoesOn
<1> QED BY <1>1, <1>2, <1>3, <1>4, <1>5, <1>6, <1>7 DEF ServerStep

\* Every step keeps what the handlers know of their files.
LEMMA HoldsStep ==
    ASSUME IInv, CallInv, CallOK, Prefixes, \A h \in Handlers : Holds(h),
           [PushNext]_pushVars
    PROVE  \A h \in Handlers : Holds(h)'
<1>1. ASSUME NEW h \in Handlers,
             \/ ServerStep(h) \/ ReceiveError(h) \/ ServerError(h) \/ DoneError(h),
             NEW k \in Handlers, k # h
      PROVE  Holds(k)'
  <2>1. HandlerStep(h)
    BY <1>1, HandlerRefines
  <2>2. /\ pc'[k] = pc[k] /\ hm'[k] = hm[k] /\ hfile'[k] = hfile[k] /\ hsum'[k] = hsum[k]
        /\ crashes' = crashes
    BY <2>1, <1>1, StorageFrame DEF IInv
  <2>3. Id(k)' = Id(k) /\ Length(hm[k])' = Length(hm[k])
    BY <2>2 DEF Id, Length
  <2>4. CASE pc[k] = "idle"
    BY <2>2, <2>4 DEF Holds
  <2>5. CASE pc[k] # "idle"
    <3>1. Id(k) \in Ids
      BY <2>5, WriterKnows
    <3>2. pc[h] = "idle" \/ Id(k) # Id(h)
      BY <1>1, <2>5 DEF IInv, LockDiscipline
    <3>3. files'[Id(k)] = files[Id(k)] /\ meta'[Id(k)] = meta[Id(k)]
      BY <2>1, <3>1, <3>2, FilesFrame, HandlerFrame DEF IInv, DiskSame
    <3>4. Mixed(Id(k))' = Mixed(Id(k))
      BY <2>2, <2>3 DEF Mixed, Shared
    <3> QED BY <2>2, <2>3, <3>3, <3>4 DEF Holds
  <2> QED BY <2>4, <2>5
<1>2. CASE UNCHANGED vars
  BY <1>2 DEF Holds, Mixed, Shared, Id, Length
<1>3. CASE ServerCrash
  BY <1>3 DEF ServerCrash, Crash, Holds
<1> QED BY <1>1, <1>2, <1>3, OwnHolds, SenderRefines DEF PushNext

\* A chunk that is received extends the prefix.
LEMMA PrefixGrows ==
    ASSUME IInv, CallInv, CallOK, NEW h \in Handlers, Receive(h),
           HoldsPrefix(Id(h), hm[h])
    PROVE  HoldsPrefix(Id(h), hm[h])'
<1>1. /\ pc[h] = "write" /\ hcall[h] = "recv" /\ hin[h] # << >>
      /\ Write(h, Head(hin[h]))
  BY DEF Receive, Write
<1>2. /\ hm[h] \in Msgs /\ Id(h) \in Ids /\ hfile[h] \in Seq(Chunks)
      /\ content[Id(h)] = hfile[h] /\ hlink[h] /\ content \in [Ids -> Seq(Chunks)]
  BY <1>1, WriterKnows DEF HandlerKnows, IInv, TypeOK
<1>3. PICK c \in Chunks : c = Head(hin[h])
  BY <1>1, NextChunk DEF CallOK
<1>4. Len(hfile[h]) + 1 <= Length(hm[h]) /\ c = Content[hm[h]][Len(hfile[h]) + 1]
  BY <1>1, <1>3, NextChunk DEF CallOK
<1>5. content'[Id(h)] = Append(hfile[h], c) /\ hm' = hm /\ Id(h)' = Id(h)
  BY <1>1, <1>2, <1>3 DEF Write, Id
<1>6. /\ Append(hfile[h], c) \in Seq(Chunks)
      /\ Len(Append(hfile[h], c)) = Len(hfile[h]) + 1
      /\ \A i \in 1 .. Len(hfile[h]) : Append(hfile[h], c)[i] = hfile[h][i]
      /\ Append(hfile[h], c)[Len(hfile[h]) + 1] = c
      /\ Len(hfile[h]) \in Nat
  BY <1>2, <1>3, AppendProperties, LenProperties
<1>7. Content[hm[h]] \in Seq(Chunks) /\ Length(hm[h]) = Len(Content[hm[h]])
      /\ Len(Content[hm[h]]) \in Nat
  BY <1>2, ConstantsAssumption, LenProperties DEF Length
<1>8. \A i \in 1 .. Len(hfile[h]) : hfile[h][i] = Content[hm[h]][i]
  <2>1. hfile[h] = SubSeq(Content[hm[h]], 1, Len(hfile[h])) /\ Len(hfile[h]) <= Len(Content[hm[h]])
    BY <1>2, <1>7 DEF HoldsPrefix
  <2> QED BY <2>1, <1>2, <1>7, PrefixElements
<1>9. \A i \in 1 .. Len(Append(hfile[h], c)) : Append(hfile[h], c)[i] = Content[hm[h]][i]
  <2>1. ASSUME NEW i \in 1 .. Len(Append(hfile[h], c))
        PROVE  Append(hfile[h], c)[i] = Content[hm[h]][i]
    <3>1. i \in 1 .. Len(hfile[h]) \/ i = Len(hfile[h]) + 1
      BY <2>1, <1>6
    <3> QED BY <3>1, <1>4, <1>6, <1>8
  <2> QED BY <2>1
<1>10. Len(Append(hfile[h], c)) <= Len(Content[hm[h]])
  BY <1>4, <1>6, <1>7
<1>11. Append(hfile[h], c) = SubSeq(Content[hm[h]], 1, Len(Append(hfile[h], c)))
  BY <1>6, <1>7, <1>9, <1>10, PrefixElements
<1> QED BY <1>5, <1>7, <1>10, <1>11 DEF HoldsPrefix, Length

\* A crash leaves a shorter prefix.
LEMMA CrashKeepsPrefixes ==
    ASSUME TypeOK, Crash, NEW m \in Msgs, NEW id \in Ids, HoldsPrefix(id, m)
    PROVE  HoldsPrefix(id, m)'
<1>1. PICK keep \in [Ids -> 0 .. MaxSize] :
        /\ \A i \in Ids : keep[i] \in synced[i] .. Len(content[i])
        /\ content' = [i \in Ids |-> SubSeq(content[i], 1, keep[i])]
  BY DEF Crash
<1>2. /\ content[id] \in Seq(Chunks) /\ Content[m] \in Seq(Chunks)
      /\ Length(m) = Len(Content[m])
  BY ConstantsAssumption DEF TypeOK, Length
<1>3. Len(content[id]) \in Nat /\ Len(Content[m]) \in Nat
  BY <1>2, LenProperties
<1>4. keep[id] \in 0 .. Len(content[id]) /\ keep[id] \in Nat
  BY <1>1, <1>3 DEF TypeOK
<1>5. \A i \in 1 .. keep[id] : content[id][i] \in Chunks
  BY <1>2, <1>4, ElementOfSeq
<1>s. SubSeq(content[id], 1, keep[id]) \in Seq(Chunks)
  BY <1>2, <1>4, <1>5, SubSeqProperties
<1>6. PICK a \in Seq(Chunks) : a = SubSeq(content[id], 1, keep[id])
  BY <1>s
<1>7. Len(a) = keep[id] /\ \A i \in 1 .. keep[id] : a[i] = content[id][i]
  BY <1>2, <1>4, <1>5, <1>6, SubSeqProperties
<1>8. Len(content[id]) <= Len(Content[m]) /\ content[id] = SubSeq(Content[m], 1, Len(content[id]))
  BY <1>2 DEF HoldsPrefix
<1>9. \A i \in 1 .. Len(content[id]) : content[id][i] = Content[m][i]
  BY <1>2, <1>8, PrefixElements
<1>10. Len(a) <= Len(Content[m]) /\ \A i \in 1 .. Len(a) : a[i] = Content[m][i]
  BY <1>3, <1>4, <1>7, <1>8, <1>9
<1>11. a = SubSeq(Content[m], 1, Len(a))
  BY <1>2, <1>10, PrefixElements
<1>12. content'[id] = a
  BY <1>1, <1>6
<1> QED BY <1>2, <1>10, <1>11, <1>12 DEF HoldsPrefix, Length

\* Every step keeps the prefixes.
LEMMA PrefixesStep ==
    ASSUME IInv, CallInv, CallOK, Prefixes, \A h \in Handlers : Holds(h),
           [PushNext]_pushVars
    PROVE  Prefixes'
<1> SUFFICES ASSUME NEW m \in Msgs, meta'[IdOf[m]] \in {m, NoMsg}, ~ Mixed(IdOf[m])'
             PROVE  HoldsPrefix(IdOf[m], m)'
  BY DEF Prefixes
<1>p. PICK id \in Ids : id = IdOf[m]
  BY ConstantsAssumption
<1>t. /\ meta \in [Ids -> Msgs \cup {NoMsg}] /\ NoMsg \notin Msgs
      /\ content \in [Ids -> Seq(Chunks)] /\ TypeOK /\ crashes \in Nat
      /\ HandlersHaveMessages /\ MetaHasId
  BY ConstantsAssumption DEF IInv, TypeOK
<1>s. ASSUME content'[id] = content[id], meta[id] \in {m, NoMsg}, ~ Mixed(id)
      PROVE  HoldsPrefix(IdOf[m], m)'
  BY <1>s, <1>p DEF Prefixes, HoldsPrefix, Length
<1>1. CASE UNCHANGED vars
  <2>1. ~ Mixed(id)
    BY <1>1, <1>p DEF Mixed, Shared
  <2> QED BY <1>1, <1>p, <1>s, <2>1
<1>2. ASSUME NEW h \in Handlers,
             \/ ServerStep(h) \/ ReceiveError(h) \/ ServerError(h) \/ DoneError(h)
      PROVE  HoldsPrefix(IdOf[m], m)'
  <2>1. HandlerStep(h)
    BY <1>2, HandlerRefines
  <2>2. ~ Mixed(id)
    <3>1. crashes' = crashes
      BY <2>1, <1>t, StorageFrame
    <3> QED BY <3>1, <1>p DEF Mixed, Shared
  <2>3. CASE pc[h] = "idle" \/ id # Id(h)
    <3>1. content'[id] = content[id] /\ meta'[id] = meta[id]
      BY <2>1, <2>3, <1>t, HandlerFrame DEF DiskSame
    <3> QED BY <3>1, <2>2, <1>p, <1>s
  <2>4. CASE pc[h] # "idle" /\ id = Id(h)
    <3>h. Holds(h) /\ hm[h] \in Msgs /\ HandlerKnows(h)
      BY <2>4, WriterKnows
    <3>u. pc[h] \notin {"unlink", "rmdir"}
      BY <2>2, <2>4, <3>h DEF Holds
    <3>1. CASE Receive(h)
      <4>1. meta' = meta /\ meta[id] = hm[h]
        BY <3>1, <2>4, <3>h DEF Receive, Write, Holds
      <4>2. m = hm[h]
        BY <4>1, <1>p, <3>h, <1>t
      <4>3. HoldsPrefix(Id(h), hm[h])
        BY <4>1, <4>2, <2>2, <2>4, <1>p DEF Prefixes
      <4>4. HoldsPrefix(Id(h), hm[h])'
        BY <3>1, <4>3, PrefixGrows
      <4>5. Id(h)' = IdOf[m] /\ hm'[h] = m
        BY <3>1, <4>2, <2>4, <1>p DEF Receive, Write, Id
      <4> QED BY <4>4, <4>5 DEF HoldsPrefix, Length
    <3>2. CASE PushOpens(h)
      <4>1. content'[id] = content[id]
        BY <3>2 DEF PushOpens, OpenWrite, CreateMessage, EncodeMessage
      <4>2. meta[id] \in {m, NoMsg}
        <5>1. CASE CreateMessage(h)
          BY <5>1, <2>4, <3>h DEF CreateMessage, Holds
        <5>2. CASE EncodeMessage(h)
          <6>1. "message" \in files[Id(h)] /\ pc[h] = "encode"
            BY <5>2, <3>h DEF EncodeMessage, Holds
          <6>2. meta'[id] = hm[h]
            BY <5>2, <6>1, <2>4, <1>t DEF EncodeMessage
          <6>3. m = hm[h]
            BY <6>2, <3>h, <1>p, <1>t
          <6> QED BY <6>1, <6>3, <3>h, <2>4 DEF HandlerKnows
        <5>3. CASE OpenWrite(h, Msg(h))
          BY <5>3, <2>4 DEF OpenWrite
        <5> QED BY <3>2, <5>1, <5>2, <5>3 DEF PushOpens
      <4> QED BY <4>1, <4>2, <2>2, <1>s
    <3>3. CASE ~ Receive(h) /\ ~ PushOpens(h)
      <4>1. content' = content /\ meta' = meta
        <5>1. CASE \/ PushRefused(h) \/ PushIncorrectOffset(h) \/ PushOpened(h)
                   \/ ReceiveEnd(h) \/ ReceiveError(h) \/ ServerError(h)
          BY <5>1 DEF PushRefused, OpenWriteBusy, OpenWriteAlreadySeen,
             OpenWriteCollision, PushIncorrectOffset, OpenContentIncorrectOffset,
             PushOpened, OpenContent, ReceiveEnd, CloseBegin, ReceiveError, WriteError,
             ServerError, IOError
        <5>2. CASE CloseGoesOn(h) \/ PushMismatch(h)
          BY <5>2, <3>u DEF CloseGoesOn, Sync, CloseMismatch, MismatchUnlink,
             MismatchListedEmpty, PushMismatch, MismatchRemoveDir
        <5>3. CASE \/ PushDone(h) \/ DoneError(h) \/ ResumeOffsetRefused(h)
                   \/ ResumeOffsetLocks(h) \/ ResumeOffset(h)
          BY <5>3 DEF PushDone, ClosePartial, CloseDone, DoneError, ResumeOffsetRefused,
             OffsetBusy, OffsetAlreadySeen, ResumeOffsetLocks, OffsetLock, ResumeOffset,
             OffsetReturn
        <5> QED BY <1>2, <3>3, <5>1, <5>2, <5>3 DEF ServerStep
      <4> QED BY <4>1, <2>2, <1>p, <1>s
    <3> QED BY <3>1, <3>2, <3>3
  <2> QED BY <2>3, <2>4
<1>3. CASE ServerCrash
  <2>0. Crash /\ crashes' = crashes + 1
    BY <1>3 DEF ServerCrash, Crash
  <2>1. Crash /\ crashes' > 0
    BY <2>0, <1>t
  <2>2. ~ Shared(id) /\ ~ Mixed(id)
    <3>1. Shared(IdOf[m])' = Shared(id)
      BY <1>p DEF Shared
    <3> QED BY <2>1, <3>1 DEF Mixed
  <2>3. meta[id] \in {m, NoMsg}
    BY <2>2, <1>p, <1>t DEF Shared, MetaHasId
  <2>4. HoldsPrefix(id, m)
    BY <2>2, <2>3, <1>p DEF Prefixes
  <2>5. HoldsPrefix(id, m)'
    BY <2>1, <2>4, <1>t, CrashKeepsPrefixes
  <2> QED BY <2>5, <1>p
<1> QED BY <1>1, <1>2, <1>3, SenderRefines DEF PushNext

-----------------------------------------------------------------------------
(* Results, and what is published.                                         *)

\* A complete message stays complete: nothing expires, and Close removes the
\* directory of a message only when it is not complete.
LEMMA StaysComplete ==
    ASSUME IInv, CallInv, [PushNext]_pushVars, NEW id \in Ids, isComplete(id)
    PROVE  isComplete(id)' /\ content'[id] = content[id]
<1>1. Fresh(id) /\ [Next]_vars
  BY StepRefines DEF CallInv, Quiet, Fresh
<1>2. CASE Crash
  <2>1. synced[id] = Len(content[id])
    BY <1>1 DEF IInv, DoneMeansVerified
  <2>2. content'[id] = content[id]
    BY <1>2, <2>1, CrashKeepsPrefix DEF IInv
  <2> QED BY <1>2, <2>2 DEF Crash, isComplete
<1>3. CASE ~ Crash
  BY <1>1, <1>3, CompleteIsLeftAlone DEF DiskSame
<1> QED BY <1>2, <1>3

\* So the server keeps a message that it has.
LEMMA StaysStored ==
    ASSUME IInv, CallInv, [PushNext]_pushVars, NEW m \in Msgs
    PROVE  (Stored(m) => Stored(m)') /\ (SomeStored(m) => SomeStored(m)')
<1>1. ASSUME NEW n \in Msgs, Stored(n) PROVE Stored(n)'
  <2>1. PICK id \in Ids : id = IdOf[n]
    BY ConstantsAssumption
  <2>2. isComplete(id)' /\ content'[id] = content[id]
    BY <1>1, <2>1, StaysComplete DEF Stored
  <2> QED BY <1>1, <2>1, <2>2 DEF Stored
<1>2. ASSUME SomeStored(m) PROVE SomeStored(m)'
  <2>1. PICK n \in Msgs : IdOf[n] = IdOf[m] /\ Stored(n)
    BY <1>2 DEF SomeStored
  <2>2. Stored(n)'
    BY <1>1, <2>1
  <2> QED BY <2>1, <2>2 DEF SomeStored
<1> QED BY <1>1, <1>2

\* AlreadySeen is the answer for a complete message, whose content is that of some
\* message with the id.
LEMMA CompleteIsSomeStored ==
    ASSUME IInv, CallInv, NEW m \in Msgs, isComplete(IdOf[m])
    PROVE  SomeStored(m)
<1>1. PICK id \in Ids : id = IdOf[m]
  BY ConstantsAssumption
<1>2. Fresh(id)
  BY DEF CallInv, Quiet, Fresh
<1>3. PICK n \in Msgs : IdOf[n] = id /\ content[id] = Content[n]
  BY <1>1, <1>2 DEF IInv, DoneMeansVerified
<1> QED BY <1>1, <1>3 DEF SomeStored, Stored

\* Push returns nil to a sender whose reader was at the offset only when the
\* message is complete: the whole stream has arrived, so Close does not find the
\* content too short.
LEMMA DoneWhenGood ==
    ASSUME IInv, CallInv, CallOK, NEW h \in Handlers, PushDone(h), hcall[h] = "recv",
           hgood[h], NEW m, m = Msg(h)
    PROVE  Stored(m)'
<1>1. pc[h] = "finish"
  BY DEF PushDone, ClosePartial, CloseDone
<1>2. /\ hm[h] = Msg(h) /\ hm[h] \in Msgs /\ Id(h) \in Ids /\ hfile[h] \in Seq(Chunks)
      /\ files \in [Ids -> SUBSET FileNames]
  BY <1>1, Arguments, WriterKnows DEF IInv, TypeOK
<1>3. Len(hfile[h]) \in Nat /\ Length(hm[h]) \in Nat
  BY <1>2, ConstantsAssumption, LenProperties DEF Length
<1>4. Len(hfile[h]) >= Length(Msg(h))
  BY <1>1 DEF CallOK, Stream, Closing
<1>5. CloseDone(h)
  BY <1>2, <1>3, <1>4 DEF PushDone, ClosePartial
<1>6. "done" \in files'[Id(h)]
  BY <1>2, <1>5 DEF CloseDone
<1>7. Id(h) = IdOf[m] /\ hm[h] = m
  BY <1>2 DEF Id
<1>8. content'[Id(h)] = Content[m]
  <2>1. Fresh(Id(h))
    BY DEF CallInv, Quiet, Fresh
  <2>2. content[Id(h)] = hfile[h] /\ (hsum[h] = hfile[h] \/ Len(hsum[h]) = Len(hfile[h]) + 1)
    BY <1>1, <2>1 DEF IInv, HandlersKnow, HandlerKnows
  <2>3. hsum[h] = Content[m] /\ Len(hfile[h]) = Len(Content[m]) /\ content' = content
    BY <1>5, <1>7 DEF CloseDone, Length
  <2> QED BY <2>2, <2>3, <1>3
<1> QED BY <1>6, <1>7, <1>8 DEF isComplete, Stored

Outcomes ==
    /\ \A s \in Senders : Truthful(s)
    /\ SentIsStored
    /\ PublishedIsComplete
    /\ \A id \in Ids : isComplete(id) /\ breaks = 0 /\ ~ doneFailed => Published(id)

\* A result that counts as success reaches a sender only if it is one.
LEMMA ResultsStep ==
    ASSUME IInv, CallInv, CallOK, Outcomes, [PushNext]_pushVars
    PROVE  (\A s \in Senders : Truthful(s)') /\ SentIsStored'
<1> SUFFICES ASSUME NEW t \in Senders
             PROVE  Truthful(t)' /\ Recorded(t)'
  BY DEF SentIsStored, Recorded
<1>t. /\ cpc \in [Senders -> {"idle", "push", "send", "finish", "offset",
                              "sent", "seen", "fatal"}]
      /\ sres \in [Senders -> Results] /\ rewound \in [Senders -> BOOLEAN]
      /\ scall \in [Senders -> Handlers \cup {NoCall}]
      /\ NoCall \notin Handlers
  BY PushAssumption DEF CallInv, PushTypeOK
<1>o. Truthful(t) /\ Recorded(t)
  BY DEF Outcomes, SentIsStored, Recorded
<1>p. PICK m \in Msgs : m = Sends[t]
  BY PushAssumption
<1>c. (Stored(m) => Stored(m)') /\ (SomeStored(m) => SomeStored(m)')
  BY StaysStored
<1>g. ASSUME sres'[t] = "seen" \/ cpc'[t] = "seen" => SomeStored(m)',
             sres'[t] = "ok" /\ rewound'[t] => Stored(m)',
             cpc'[t] = "sent" /\ rewound'[t] => Stored(m)'
      PROVE  Truthful(t)' /\ Recorded(t)'
  BY <1>g, <1>p DEF Truthful, Recorded
<1>k. ASSUME sres'[t] = sres[t] \/ sres'[t] \notin {"seen", "ok"},
             cpc'[t] = cpc[t] \/ cpc'[t] \notin {"sent", "seen"},
             rewound'[t] = rewound[t]
      PROVE  Truthful(t)' /\ Recorded(t)'
  BY <1>k, <1>g, <1>o, <1>c, <1>p DEF Truthful, Recorded
<1>1. CASE UNCHANGED pushVars
  BY <1>1, <1>k
<1>2. ASSUME NEW s \in Senders, SenderStep(s) \/ Break(s)
      PROVE  Truthful(t)' /\ Recorded(t)'
  <2>1. CASE s # t
    <3>1. sres'[t] = sres[t] /\ cpc'[t] = cpc[t] /\ rewound'[t] = rewound[t]
      BY <1>2, <2>1, <1>t DEF SenderStep, PushMessage, DoPush, CallResumeOffset, Send,
         SendError, Finish, PushResult, ResumeOffsetResult, Break, Leave, SetSender,
         StartCall
    <3> QED BY <3>1, <1>k
  <2>2. ASSUME s = t, NEW h \in Handlers, DoPush(s, h)
        PROVE  sres'[t] = "none" /\ cpc'[t] = "send"
    BY <2>2, <1>t DEF DoPush, SetSender
  <2>3. CASE s = t /\ (PushResult(s) \/ ResumeOffsetResult(s))
    <3>1. /\ sres'[t] = "none" /\ rewound' = rewound
          /\ cpc'[t] = "sent" => sres[t] = "ok"
          /\ cpc'[t] = "seen" => sres[t] = "seen"
      BY <2>3, <1>t DEF PushResult, ResumeOffsetResult, Leave, SetSender
    <3> QED BY <3>1, <1>g, <1>o, <1>c, <1>p DEF Truthful
  <2>4. CASE /\ s = t
             /\ \/ PushMessage(s) \/ Send(s) \/ SendError(s) \/ Finish(s) \/ Break(s)
                \/ \E h \in Handlers : CallResumeOffset(s, h)
    <3>1. /\ sres'[t] = sres[t] \/ sres'[t] = "none"
          /\ cpc'[t] = cpc[t] \/ cpc'[t] \notin {"sent", "seen"}
          /\ rewound' = rewound
      BY <2>4, <1>t DEF PushMessage, Send, SendError, Finish, Break, CallResumeOffset,
         Leave, SetSender
    <3> QED BY <3>1, <1>k
  <2> QED BY <1>2, <2>1, <2>2, <2>3, <2>4, <1>g DEF SenderStep
<1>3. ASSUME NEW h \in Handlers,
             \/ PushOpens(h) \/ PushOpened(h) \/ Receive(h) \/ ReceiveError(h)
             \/ ReceiveEnd(h) \/ CloseGoesOn(h) \/ ResumeOffsetLocks(h)
      PROVE  Truthful(t)' /\ Recorded(t)'
  <2>1. UNCHANGED sender
    BY <1>3 DEF PushOpens, PushOpened, Receive, ReceiveError, ReceiveEnd, CloseGoesOn,
       ResumeOffsetLocks
  <2> QED BY <2>1, <1>k
<1>4. ASSUME NEW h \in Handlers, NEW res, hcall[h] # "free", Reply(h, res),
             scall[t] = h => /\ res = "seen" => SomeStored(m)
                             /\ res = "ok" /\ rewound[t] => Stored(m)'
      PROVE  Truthful(t)' /\ Recorded(t)'
  <2>1. /\ rewound' = rewound
        /\ IF scall[t] = h THEN sres'[t] = res /\ cpc'[t] = cpc[t]
           ELSE sres'[t] = sres[t] /\ cpc'[t] = cpc[t]
    BY <1>4, ReplyEnds
  <2>2. CASE scall[t] # h
    BY <2>1, <2>2, <1>k
  <2>3. CASE scall[t] = h
    <3>1. /\ cpc'[t] = "sent" /\ rewound'[t] => Stored(m)'
          /\ cpc'[t] = "seen" => SomeStored(m)'
      BY <2>1, <2>3, <1>o, <1>c, <1>p DEF Recorded
    <3> QED BY <2>1, <2>3, <3>1, <1>4, <1>g, <1>c
  <2> QED BY <2>2, <2>3
<1>l. ASSUME NEW h \in Handlers, scall[t] = h
      PROVE  /\ hs[h] = t /\ Msg(h) = Sends[t]
             /\ hcall[h] # "offset" => rewound[t] = hgood[h]
  BY <1>l, <1>t DEF CallOK, Linked, Msg
<1>5. ASSUME NEW h \in Handlers,
             \/ PushRefused(h) \/ PushIncorrectOffset(h) \/ PushDone(h)
             \/ PushMismatch(h) \/ ServerError(h) \/ DoneError(h)
             \/ ResumeOffsetRefused(h)
             \/ \E res \in {"retry", "fatal"} : Refuse(h, res)
      PROVE  Truthful(t)' /\ Recorded(t)'
  <2>1. hcall[h] # "free"
    BY <1>5, EndsIdle DEF IInv
  <2>2. CASE PushDone(h)
    <3>1. CASE hcall[h] = "recv"
      <4>1. Reply(h, "ok")
        BY <2>2, <3>1 DEF PushDone
      <4>2. scall[t] = h /\ rewound[t] => Stored(m)'
        BY <2>2, <3>1, <1>l, <1>p, DoneWhenGood
      <4> QED BY <2>1, <4>1, <4>2, <1>4
    <3>2. CASE hcall[h] # "recv"
      BY <2>1, <2>2, <3>2, <1>4 DEF PushDone
    <3> QED BY <3>1, <3>2
  <2>3. CASE PushRefused(h) \/ ResumeOffsetRefused(h)
    <3>1. PICK res \in {"retry", "seen", "fatal"} :
            Reply(h, res) /\ (res = "seen" => isComplete(IdOf[Msg(h)]))
      BY <2>3 DEF PushRefused, OpenWriteAlreadySeen, ResumeOffsetRefused,
         OffsetAlreadySeen
    <3>2. scall[t] = h /\ res = "seen" => SomeStored(m)
      BY <3>1, <1>l, <1>p, CompleteIsSomeStored
    <3> QED BY <2>1, <3>1, <3>2, <1>4
  <2>4. CASE \/ PushIncorrectOffset(h) \/ PushMismatch(h) \/ ServerError(h)
             \/ DoneError(h) \/ \E res \in {"retry", "fatal"} : Refuse(h, res)
    <3>1. PICK res \in {"offset", "fatal", "error", "retry"} : Reply(h, res)
      BY <2>4 DEF PushIncorrectOffset, PushMismatch, ServerError, DoneError, Refuse
    <3> QED BY <2>1, <3>1, <1>4
  <2> QED BY <1>5, <2>2, <2>3, <2>4
<1>6. ASSUME NEW h \in Handlers, ResumeOffset(h)
      PROVE  Truthful(t)' /\ Recorded(t)'
  <2>1. hs[h] \in Senders
    BY <1>6, Arguments DEF ResumeOffset
  <2>2. /\ sres'[t] = sres[t] \/ sres'[t] = "none"
        /\ cpc'[t] = cpc[t] \/ cpc'[t] = "push"
        /\ rewound' = rewound
    BY <1>6, <2>1, <1>t DEF ResumeOffset, ResumeOffsetReply, SetSender
  <2> QED BY <2>2, <1>k
<1>7. CASE ServerCrash
  <2>1. /\ sres'[t] = sres[t] \/ sres'[t] = "error"
        /\ cpc' = cpc /\ rewound' = rewound
    BY <1>7 DEF ServerCrash
  <2> QED BY <2>1, <1>k
<1> QED BY <1>1, <1>2, <1>3, <1>5, <1>6, <1>7 DEF PushNext, ServerStep

\* Only a Push whose Close returns nil publishes; no connection is mended, and an
\* error of the file done is not forgotten.
LEMMA PubGrows ==
    ASSUME CallInv, [PushNext]_pushVars
    PROVE  /\ breaks' = 0 => breaks = 0
           /\ ~ doneFailed' => ~ doneFailed
           /\ \/ pub' = pub
              \/ \E h \in Handlers : /\ PushDone(h) /\ hcall[h] = "recv"
                                     /\ pub' = pub \cup {<<Msg(h), hgood[h]>>}
<1>t. breaks \in Nat
  BY PushAssumption DEF CallInv, PushTypeOK
<1>1. CASE UNCHANGED pushVars
  BY <1>1
<1>2. CASE \E s \in Senders : SenderStep(s) \/ Break(s)
  <2>1. pub' = pub /\ doneFailed' = doneFailed /\ (breaks' = breaks \/ breaks' = breaks + 1)
    BY <1>2 DEF SenderStep, PushMessage, DoPush, CallResumeOffset, Send, SendError,
       Finish, PushResult, ResumeOffsetResult, Break
  <2> QED BY <2>1, <1>t
<1>3. ASSUME NEW h \in Handlers,
             \/ PushRefused(h) \/ PushOpens(h) \/ PushIncorrectOffset(h) \/ PushOpened(h)
             \/ Receive(h) \/ ReceiveEnd(h) \/ CloseGoesOn(h) \/ PushMismatch(h)
             \/ ResumeOffsetRefused(h) \/ ResumeOffsetLocks(h) \/ ResumeOffset(h)
             \/ ReceiveError(h) \/ ServerError(h)
             \/ \E res \in {"retry", "fatal"} : Refuse(h, res)
      PROVE  pub' = pub /\ doneFailed' = doneFailed /\ breaks' = breaks
  BY <1>3 DEF PushRefused, PushOpens, PushIncorrectOffset, PushOpened, Receive,
     ReceiveEnd, CloseGoesOn, PushMismatch, ResumeOffsetRefused, ResumeOffsetLocks,
     ResumeOffset, ReceiveError, ServerError, Refuse
<1>4. ASSUME NEW h \in Handlers, DoneError(h)
      PROVE  pub' = pub /\ doneFailed' /\ breaks' = breaks
  BY <1>4 DEF DoneError
<1>5. ASSUME NEW h \in Handlers, PushDone(h)
      PROVE  /\ doneFailed' = doneFailed /\ breaks' = breaks
             /\ pub' = pub \/ (hcall[h] = "recv" /\ pub' = pub \cup {<<Msg(h), hgood[h]>>})
  BY <1>5 DEF PushDone
<1>6. CASE ServerCrash
  BY <1>6 DEF ServerCrash
<1> QED BY <1>1, <1>2, <1>3, <1>4, <1>5, <1>6 DEF PushNext, ServerStep

\* A message becomes complete at the end of a Push that publishes it, unless a
\* connection broke or the file done could not be written.
LEMMA NewlyComplete ==
    ASSUME IInv, CallInv, CallOK, \A h \in Handlers : Holds(h), [PushNext]_pushVars,
           NEW id \in Ids, isComplete(id)', ~ isComplete(id), breaks' = 0, ~ doneFailed'
    PROVE  \E h \in Handlers : /\ PushDone(h) /\ IdOf[Msg(h)] = id /\ Msg(h) \in Msgs
                               /\ pub' = pub \cup {<<Msg(h), hgood[h]>>}
<1>1. ~ UNCHANGED vars /\ ~ ServerCrash
  BY DEF isComplete, ServerCrash, Crash
<1>2. PICK h \in Handlers :
        ServerStep(h) \/ ReceiveError(h) \/ ServerError(h) \/ DoneError(h)
  BY <1>1, SenderRefines DEF PushNext
<1>3. HandlerStep(h)
  BY <1>2, HandlerRefines
<1>4. CloseDone(h) /\ pc[h] # "idle" /\ Id(h) = id
  BY <1>3, OnlyCloseCompletes DEF IInv
<1>5. pc[h] = "finish" /\ Len(hfile[h]) = Length(hm[h])
  BY <1>4 DEF CloseDone
<1>6. /\ hm[h] = Msg(h) /\ Msg(h) \in Msgs /\ hfile[h] \in Seq(Chunks)
      /\ files \in [Ids -> SUBSET FileNames]
  BY <1>5, Arguments, WriterKnows DEF IInv, TypeOK
<1>7. Len(hfile[h]) \in Nat
  BY <1>6, LenProperties
<1>8. files' # files
  BY DEF isComplete
<1>9. hcall[h] # "fail"
  <2>1. hsum[h] = hfile[h]
    BY <1>5, <1>7 DEF Holds
  <2>2. breaks = 0
    BY PubGrows
  <2> QED BY <2>1, <2>2 DEF CallOK, Failing
<1>10. PushDone(h)
  <2>1. ~ DoneError(h)
    BY DEF DoneError
  <2>2. ~ ReceiveError(h) /\ ~ ServerError(h)
    BY <1>8, <1>5 DEF ReceiveError, WriteError, ServerError, IOError
  <2>3. ServerStep(h) => PushDone(h)
    BY <1>4, <1>5, <1>8 DEF ServerStep, PushRefused, PushOpens, PushIncorrectOffset,
       PushOpened, Receive, ReceiveEnd, CloseGoesOn, PushMismatch, ResumeOffsetRefused,
       ResumeOffsetLocks, ResumeOffset, OpenWriteBusy, OpenWriteAlreadySeen,
       OpenWriteCollision, OpenWrite, CreateMessage, EncodeMessage,
       OpenContentIncorrectOffset, OpenContent, Write, CloseBegin, Sync, CloseMismatch,
       MismatchUnlink, MismatchListedEmpty, MismatchRemoveDir, OffsetBusy,
       OffsetAlreadySeen, OffsetLock, OffsetReturn
  <2> QED BY <1>2, <2>1, <2>2, <2>3
<1>11. pub' = pub \cup {<<Msg(h), hgood[h]>>}
  BY <1>9, <1>10 DEF PushDone
<1> QED BY <1>4, <1>6, <1>10, <1>11 DEF Id

\* Every step keeps what is said of the published messages.
LEMMA PublishedStep ==
    ASSUME IInv, CallInv, CallOK, Outcomes, \A h \in Handlers : Holds(h),
           [PushNext]_pushVars
    PROVE  /\ PublishedIsComplete'
           /\ (\A id \in Ids : isComplete(id) /\ breaks = 0 /\ ~ doneFailed
                                 => Published(id))'
<1>t. hgood \in [Handlers -> BOOLEAN] /\ IdOf \in [Msgs -> Ids]
  BY ConstantsAssumption DEF CallInv, PushTypeOK
<1>1. ASSUME NEW m \in Msgs, <<m, TRUE>> \in pub'
      PROVE  Stored(m)'
  <2>1. CASE <<m, TRUE>> \in pub
    BY <2>1, StaysStored DEF Outcomes, PublishedIsComplete
  <2>2. CASE <<m, TRUE>> \notin pub
    <3>1. PICK h \in Handlers : /\ PushDone(h) /\ hcall[h] = "recv"
                                /\ pub' = pub \cup {<<Msg(h), hgood[h]>>}
      BY <1>1, <2>2, PubGrows
    <3>2. m = Msg(h) /\ hgood[h] = TRUE
      BY <1>1, <2>2, <3>1
    <3> QED BY <3>1, <3>2, DoneWhenGood
  <2> QED BY <2>1, <2>2
<1>2. ASSUME NEW id \in Ids, isComplete(id)', breaks' = 0, ~ doneFailed'
      PROVE  Published(id)'
  <2>1. pub \subseteq pub'
    BY PubGrows
  <2>2. CASE isComplete(id)
    <3>1. Published(id)
      BY <1>2, <2>2, PubGrows DEF Outcomes
    <3> QED BY <3>1, <2>1 DEF Published
  <2>3. CASE ~ isComplete(id)
    <3>1. PICK h \in Handlers : /\ PushDone(h) /\ IdOf[Msg(h)] = id /\ Msg(h) \in Msgs
                                /\ pub' = pub \cup {<<Msg(h), hgood[h]>>}
      BY <1>2, <2>3, NewlyComplete
    <3>2. PICK m \in Msgs : m = Msg(h) /\ IdOf[m] = id
      BY <3>1
    <3>3. <<m, TRUE>> \in pub' \/ <<m, FALSE>> \in pub'
      <4>1. hgood[h] = TRUE \/ hgood[h] = FALSE
        BY <1>t
      <4> QED BY <3>1, <3>2, <4>1
    <3> QED BY <3>2, <3>3 DEF Published
  <2> QED BY <2>2, <2>3
<1> QED BY <1>1, <1>2 DEF PublishedIsComplete

-----------------------------------------------------------------------------
(* The theorems.                                                           *)

\* The invariant holds initially: nothing is stored, sent or published.
LEMMA InitPIInv == PushInit => PIInv
<1> SUFFICES ASSUME PushInit PROVE PIInv
  OBVIOUS
<1>1. Init /\ IInv /\ CallInv /\ CallOK
  BY InitCallInv, InitIInv DEF PushInit
<1>2. ASSUME NEW h \in Handlers PROVE Holds(h)
  BY <1>1 DEF Init, Holds
<1>3. Prefixes
  <2> SUFFICES ASSUME NEW m \in Msgs PROVE HoldsPrefix(IdOf[m], m)
    BY DEF Prefixes
  <2> DEFINE b == Content[m]
  <2>1. b \in Seq(Chunks) /\ IdOf[m] \in Ids
    BY ConstantsAssumption
  <2> HIDE DEF b
  <2>2. << >> \in Seq(Chunks) /\ Len(<< >>) = 0
    BY EmptySeq
  <2>3. Len(b) \in Nat
    BY <2>1, LenProperties
  <2>4. << >> = SubSeq(b, 1, 0)
    <3>1. Len(<< >>) <= Len(b)
      BY <2>2, <2>3
    <3>2. << >> = SubSeq(b, 1, Len(<< >>))
      BY <2>1, <2>2, <3>1, PrefixElements
    <3> QED BY <3>2, <2>2
  <2>5. content[IdOf[m]] = << >>
    BY <1>1, <2>1 DEF Init
  <2> QED BY <2>2, <2>3, <2>4, <2>5 DEF HoldsPrefix, Length, b
<1>4. ~ \E id \in Ids : isComplete(id)
  BY <1>1 DEF Init, isComplete
<1>5. Outcomes
  BY <1>4 DEF PushInit, Outcomes, Truthful, SentIsStored, PublishedIsComplete,
     Stored, SomeStored
<1> QED BY <1>1, <1>2, <1>3, <1>5 DEF PIInv, CallOK, Outcomes

\* Every step keeps the invariant.
LEMMA NextPIInv == PIInv /\ [PushNext]_pushVars => PIInv'
<1> SUFFICES ASSUME PIInv, [PushNext]_pushVars PROVE PIInv'
  OBVIOUS
<1>1. /\ IInv /\ CallInv /\ CallOK /\ Prefixes /\ Outcomes
      /\ \A h \in Handlers : Holds(h)
  BY DEF PIInv, CallInv, CallOK, Outcomes
<1>2. IInv'
  BY <1>1, StepRefines, NextIInv
<1>3. CallInv' /\ CallOK'
  BY <1>1, <1>2, CallInvStep
<1>4. (\A h \in Handlers : Holds(h)') /\ Prefixes'
  BY <1>1, HoldsStep, PrefixesStep
<1>5. (\A s \in Senders : Truthful(s)') /\ SentIsStored'
  BY <1>1, ResultsStep
<1>6. /\ PublishedIsComplete'
      /\ (\A id \in Ids : isComplete(id) /\ breaks = 0 /\ ~ doneFailed => Published(id))'
  BY <1>1, PublishedStep
<1> QED BY <1>2, <1>3, <1>4, <1>5, <1>6 DEF PIInv, CallOK

\* The invariant of Push, ResumeOffset and pushMessage that the properties below
\* follow from.
THEOREM PushInvariance == PushSpec => []PIInv
BY InitPIInv, NextPIInv, PTL DEF PushSpec

\* A message is recorded as Sent after a Push without an error only when the peer
\* has all of it, through broken streams, resumed transfers, concurrent senders,
\* other messages with its id and crashes, unless that Push was repeated without
\* rewinding r; and after AlreadySeen only when the peer has all of a message with
\* that id.
THEOREM SentMeansStored == PushSpec => []SentIsStored
<1>1. PIInv => SentIsStored
  BY DEF PIInv
<1> QED BY <1>1, PushInvariance, PTL

\* A message is given to Notifier.Pub only when all of its own content is stored
\* and verified, with the same exception.
THEOREM PublishedMeansComplete == PushSpec => []PublishedIsComplete
<1>1. PIInv => PublishedIsComplete
  BY DEF PIInv
<1> QED BY <1>1, PushInvariance, PTL

\* A message that is complete was given to Notifier.Pub, if no connection broke,
\* the file done could be written and the server did not crash.
THEOREM CompleteMeansPublished == PushSpec => []CompleteIsPublished
<1>1. PIInv => CompleteIsPublished
  BY DEF PIInv, CompleteIsPublished
<1> QED BY <1>1, PushInvariance, PTL

\* What is stored is always a prefix of what one message announces, unless a crash
\* lost the metadata of an id that different messages share.
THEOREM PrefixAlways == PushSpec => []ContentIsPrefix
<1>1. ASSUME PIInv PROVE ContentIsPrefix
  <2> SUFFICES ASSUME NEW m \in Msgs, ~ Mixed(IdOf[m])
               PROVE  \E n \in Msgs : IdOf[n] = IdOf[m] /\ HoldsPrefix(IdOf[m], n)
    BY DEF ContentIsPrefix, Mixed
  <2>1. PICK id \in Ids : id = IdOf[m]
    BY ConstantsAssumption
  <2>2. /\ Prefixes /\ MetaHasId
        /\ meta \in [Ids -> Msgs \cup {NoMsg}]
    BY <1>1 DEF PIInv, IInv, TypeOK
  <2>3. CASE meta[id] = NoMsg
    BY <2>1, <2>2, <2>3 DEF Prefixes
  <2>4. CASE meta[id] # NoMsg
    <3>1. PICK n \in Msgs : n = meta[id] /\ IdOf[n] = id
      BY <2>1, <2>2, <2>4 DEF MetaHasId
    <3> QED BY <2>1, <2>2, <3>1 DEF Prefixes
  <2> QED BY <2>3, <2>4
<1>2. PIInv => ContentIsPrefix
  BY <1>1
<1> QED BY <1>2, PushInvariance, PTL
=============================================================================
