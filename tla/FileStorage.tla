---------------------------- MODULE FileStorage ----------------------------
(***************************************************************************)
(* internal/storage.go: the FileStorage of a messenger node.               *)
(*                                                                         *)
(* Every message has a directory named after its id, which holds the file  *)
(* "message" (the metadata), "content", "done" (the content is complete    *)
(* and verified) and one file per peer with its delivery record.           *)
(* Concurrent actors work on it:                                           *)
(*   - RPC handlers (and local senders) store messages with OpenWrite,     *)
(*     Write and Close, serialised per message id by lock/unlock;          *)
(*   - readers open complete messages with OpenRead, WITHOUT the lock;     *)
(*   - peers record deliveries with SetPeerInfo, WITHOUT the lock;         *)
(*   - the goroutine started by NewFileStorage removes the directories of  *)
(*     expired messages, WITHOUT the lock, one file at a time;             *)
(*   - the machine may crash, which loses the memory and the file data     *)
(*     that was not synced.  That the names created in a directory survive *)
(*     is assumed of the filesystem: storage.go syncs no directory.        *)
(*                                                                         *)
(* Content is a sequence of chunks.  The sha256 of a content is the        *)
(* content itself (no two contents collide); a message's Hash is the       *)
(* message itself (Hops, which Hash leaves out, are not part of it here).  *)
(***************************************************************************)
EXTENDS Integers, Sequences, FiniteSets

CONSTANTS
    Ids,        \* message ids
    Msgs,       \* messages (metadata), several of which may share an id
    NoMsg,      \* what readMessage returns when it fails
    IdOf,       \* IdOf[m]: the id of m
    Chunks,     \* pieces of content
    Content,    \* Content[m]: the content that m.Length and m.Sha256 describe
    Handlers,   \* concurrent writers: Push handlers, local senders
    Local,      \* those of them that are local senders (sendMessage)
    Readers,    \* concurrent OpenRead callers
    Peers,      \* peers with a delivery record
    Infos,      \* values of PeerInfo
    ZeroInfo,   \* PeerInfo{}
    MaxSize,    \* bound: the longest content file
    MaxCrashes  \* bound: the number of crashes

ASSUME ConstantsAssumption ==
    /\ NoMsg \notin Msgs
    /\ IdOf \in [Msgs -> Ids]
    /\ DOMAIN Content = Msgs
    /\ \A m \in Msgs : Content[m] \in Seq(Chunks)
    /\ {"message", "content", "done"} \cap Peers = {}
    /\ Local \subseteq Handlers
    /\ ZeroInfo \in Infos
    /\ MaxSize \in Nat
    /\ MaxCrashes \in Nat

VARIABLES
    (* The disk. *)
    dir,        \* dir: the ids whose directory exists
    files,      \* files[id]: the names in the directory of id
    meta,       \* meta[id]: what readMessage(id) decodes, NoMsg if it fails
    content,    \* content[id]: the content file, << >> if there is none
    synced,     \* synced[id]: how much of it is certain to survive a crash
    info,       \* info[id][p]: the delivery record of p
    (* The memory: the busy map and the open fileWrappers. *)
    busy,       \* the ids that are locked
    pc,         \* pc[h]: where handler h is in OpenWrite, Write or Close
    hm,         \* hm[h]: the message h is storing
    hfile,      \* hfile[h]: the file h has open, which may be unlinked
    hlink,      \* hlink[h]: whether that file still is the content file
    hsum,       \* hsum[h]: what fileWrapper.h has hashed
    (* Readers, the janitor, SetPeerInfo calls. *)
    rpc, rid, rmsg, rdata,
    jpc, jid,
    setting,    \* <<id, p>>: p's file is truncated and not yet encoded
    (* The environment. *)
    expired,    \* the messages whose lifespan is over
    crashes

disk     == <<dir, files, meta, content, synced, info>>
handlers == <<busy, pc, hm, hfile, hlink, hsum>>
readers  == <<rpc, rid, rmsg, rdata>>
janitor  == <<jpc, jid>>
env      == <<expired, crashes>>
vars     == <<disk, handlers, readers, janitor, setting, env>>

FileNames == {"message", "content", "done"} \cup Peers
HandlerPCs == {"idle", "create", "encode", "open", "write", "close", "finish",
               "unlink", "rmdir", "offset", "leaked"}
ReaderPCs == {"idle", "checked", "opening", "open"}

\* The values of the variables, and what the filesystem enforces: a file lives
\* in an existing directory.
TypeOK ==
    /\ dir \in SUBSET Ids
    /\ files \in [Ids -> SUBSET FileNames]
    /\ meta \in [Ids -> Msgs \cup {NoMsg}]
    /\ content \in [Ids -> Seq(Chunks)]
    /\ synced \in [Ids -> Nat]
    /\ info \in [Ids -> [Peers -> Infos]]
    /\ busy \in SUBSET Ids
    /\ pc \in [Handlers -> HandlerPCs]
    /\ hm \in [Handlers -> Msgs \cup {NoMsg}]
    /\ hfile \in [Handlers -> Seq(Chunks)]
    /\ hlink \in [Handlers -> BOOLEAN]
    /\ hsum \in [Handlers -> Seq(Chunks)]
    /\ rpc \in [Readers -> ReaderPCs]
    /\ rid \in [Readers -> Ids]
    /\ rmsg \in [Readers -> Msgs \cup {NoMsg}]
    /\ rdata \in [Readers -> Seq(Chunks)]
    /\ jpc \in {"idle", "unlink", "rmdir"}
    /\ jid \in Ids
    /\ setting \in SUBSET (Ids \X Peers)
    /\ \A id \in Ids \ dir : files[id] = {}
    /\ expired \in SUBSET Msgs
    /\ crashes \in 0 .. MaxCrashes

Init ==
    /\ dir = {}
    /\ files = [id \in Ids |-> {}]
    /\ meta = [id \in Ids |-> NoMsg]
    /\ content = [id \in Ids |-> << >>]
    /\ synced = [id \in Ids |-> 0]
    /\ info = [id \in Ids |-> [p \in Peers |-> ZeroInfo]]
    /\ busy = {}
    /\ pc = [h \in Handlers |-> "idle"]
    /\ hm = [h \in Handlers |-> NoMsg]
    /\ hfile = [h \in Handlers |-> << >>]
    /\ hlink = [h \in Handlers |-> FALSE]
    /\ hsum = [h \in Handlers |-> << >>]
    /\ rpc = [r \in Readers |-> "idle"]
    /\ rid \in [Readers -> Ids]
    /\ rmsg = [r \in Readers |-> NoMsg]
    /\ rdata = [r \in Readers |-> << >>]
    /\ jpc = "idle"
    /\ jid \in Ids
    /\ setting = {}
    /\ expired = {}
    /\ crashes = 0

-----------------------------------------------------------------------------
(* Helpers of the code.                                                    *)

\* isComplete, and Exists, which returns it.
isComplete(id) == "done" \in files[id]

Length(m) == Len(Content[m])

\* The id h works on.
Id(h) == IdOf[hm[h]]

\* h returns from the storage: unlock, and the fileWrapper is forgotten.
Return(h) ==
    /\ busy' = busy \ {Id(h)}
    /\ pc' = [pc EXCEPT ![h] = "idle"]
    /\ hm' = [hm EXCEPT ![h] = NoMsg]
    /\ hfile' = [hfile EXCEPT ![h] = << >>]
    /\ hlink' = [hlink EXCEPT ![h] = FALSE]
    /\ hsum' = [hsum EXCEPT ![h] = << >>]

Goto(h, to) ==
    /\ pc' = [pc EXCEPT ![h] = to]
    /\ UNCHANGED <<busy, hm, hfile, hlink, hsum>>

-----------------------------------------------------------------------------
(* OpenWrite.  The lock, isComplete and readMessage are one step: only the *)
(* janitor can come between them, and whatever it removes then it could    *)
(* have removed before.                                                    *)

OpenWriteBusy(h, m) ==
    /\ pc[h] = "idle"
    /\ IdOf[m] \in busy
    /\ UNCHANGED vars

OpenWriteAlreadySeen(h, m) ==
    /\ pc[h] = "idle"
    /\ IdOf[m] \notin busy
    /\ isComplete(IdOf[m])
    /\ UNCHANGED vars

OpenWriteCollision(h, m) ==
    /\ pc[h] = "idle"
    /\ IdOf[m] \notin busy
    /\ ~ isComplete(IdOf[m])
    /\ meta[IdOf[m]] \notin {m, NoMsg}
    /\ UNCHANGED vars

\* A plausible slip: isComplete is not consulted.
OpenWrite_IgnoresDone(h, m) ==
    /\ pc[h] = "idle"
    /\ IdOf[m] \notin busy
    /\ meta[IdOf[m]] \in {m, NoMsg}
    /\ busy' = busy \cup {IdOf[m]}
    /\ hm' = [hm EXCEPT ![h] = m]
    /\ pc' = [pc EXCEPT ![h] = IF meta[IdOf[m]] = m THEN "open" ELSE "create"]
    /\ UNCHANGED <<disk, hfile, hlink, hsum, readers, janitor, setting, env>>

\* A plausible slip: the result of lock is not checked.
OpenWrite_IgnoresBusy(h, m) ==
    /\ pc[h] = "idle"
    /\ ~ isComplete(IdOf[m])
    /\ meta[IdOf[m]] \in {m, NoMsg}
    /\ busy' = busy \cup {IdOf[m]}
    /\ hm' = [hm EXCEPT ![h] = m]
    /\ pc' = [pc EXCEPT ![h] = IF meta[IdOf[m]] = m THEN "open" ELSE "create"]
    /\ UNCHANGED <<disk, hfile, hlink, hsum, readers, janitor, setting, env>>

\* The message is new (its metadata has to be written) or is resumed.
OpenWrite(h, m) ==
    /\ pc[h] = "idle"
    /\ IdOf[m] \notin busy
    /\ ~ isComplete(IdOf[m])
    /\ meta[IdOf[m]] \in {m, NoMsg}
    /\ busy' = busy \cup {IdOf[m]}
    /\ hm' = [hm EXCEPT ![h] = m]
    /\ pc' = [pc EXCEPT ![h] = IF meta[IdOf[m]] = m THEN "open" ELSE "create"]
    /\ UNCHANGED <<disk, hfile, hlink, hsum, readers, janitor, setting, env>>

\* writeMessage: the directory, and the file "message", created or truncated.
CreateMessage(h) ==
    /\ pc[h] = "create"
    /\ dir' = dir \cup {Id(h)}
    /\ files' = [files EXCEPT ![Id(h)] = @ \cup {"message"}]
    /\ meta' = [meta EXCEPT ![Id(h)] = NoMsg]
    /\ Goto(h, "encode")
    /\ UNCHANGED <<content, synced, info, readers, janitor, setting, env>>

\* writeMessage: Encode writes through the descriptor, so the metadata appears
\* only if the file was not removed meanwhile.
EncodeMessage(h) ==
    /\ pc[h] = "encode"
    /\ meta' = IF "message" \in files[Id(h)]
               THEN [meta EXCEPT ![Id(h)] = hm[h]] ELSE meta
    /\ Goto(h, "open")
    /\ UNCHANGED <<dir, files, content, synced, info, readers, janitor,
                   setting, env>>

\* A plausible slip: the early return forgets s.unlock.
OpenContentIncorrectOffset_KeepsLock(h, offset) ==
    /\ pc[h] = "open"
    /\ Id(h) \in dir
    /\ Len(content[Id(h)]) # offset
    /\ files' = [files EXCEPT ![Id(h)] = @ \cup {"content"}]
    /\ pc' = [pc EXCEPT ![h] = "idle"]
    /\ hm' = [hm EXCEPT ![h] = NoMsg]
    /\ UNCHANGED <<dir, meta, content, synced, info, busy, hfile, hlink, hsum,
                   readers, janitor, setting, env>>

\* The content file is opened, or created; its size is not the offset.
OpenContentIncorrectOffset(h, offset) ==
    /\ pc[h] = "open"
    /\ Id(h) \in dir
    /\ Len(content[Id(h)]) # offset
    /\ files' = [files EXCEPT ![Id(h)] = @ \cup {"content"}]
    /\ Return(h)
    /\ UNCHANGED <<dir, meta, content, synced, info, readers, janitor,
                   setting, env>>

\* Its size is the offset: what it holds is hashed, and the writer is ready.
OpenContent(h, offset) ==
    /\ pc[h] = "open"
    /\ Id(h) \in dir
    /\ Len(content[Id(h)]) = offset
    /\ files' = [files EXCEPT ![Id(h)] = @ \cup {"content"}]
    /\ pc' = [pc EXCEPT ![h] = "write"]
    /\ hfile' = [hfile EXCEPT ![h] = content[Id(h)]]
    /\ hsum' = [hsum EXCEPT ![h] = content[Id(h)]]
    /\ hlink' = [hlink EXCEPT ![h] = TRUE]
    /\ UNCHANGED <<dir, meta, content, synced, info, busy, hm, readers,
                   janitor, setting, env>>

\* An I/O error anywhere in OpenWrite, Offset or Close: unlock and return it
\* (Close ignores one of RemoveAll).  The content file cannot be opened when the
\* directory is gone.
IOError(h) ==
    /\ pc[h] \in {"create", "encode", "open", "close", "finish", "unlink",
                  "offset"}
    /\ Return(h)
    /\ UNCHANGED <<disk, readers, janitor, setting, env>>

-----------------------------------------------------------------------------
(* Write and Close.                                                        *)

\* The chunk is hashed and written, to a file that may be unlinked.
Write(h, c) ==
    /\ pc[h] = "write"
    /\ Len(hfile[h]) < MaxSize
    /\ hsum' = [hsum EXCEPT ![h] = Append(@, c)]
    /\ hfile' = [hfile EXCEPT ![h] = Append(@, c)]
    /\ content' = IF hlink[h]
                  THEN [content EXCEPT ![Id(h)] = Append(hfile[h], c)]
                  ELSE content
    /\ UNCHANGED <<dir, files, meta, synced, info, busy, pc, hm, hlink,
                   readers, janitor, setting, env>>

\* The chunk is hashed, but not written: Push closes the file.
WriteError(h, c) ==
    /\ pc[h] = "write"
    /\ hsum' = [hsum EXCEPT ![h] = Append(@, c)]
    /\ pc' = [pc EXCEPT ![h] = "close"]
    /\ UNCHANGED <<disk, busy, hm, hfile, hlink, readers, janitor, setting, env>>

\* The caller has nothing more to write.
CloseBegin(h) ==
    /\ pc[h] = "write"
    /\ Goto(h, "close")
    /\ UNCHANGED <<disk, readers, janitor, setting, env>>

\* sendMessage returns the error of os.Open, of io.Copy or of in.Close without
\* w.Close(): nobody will ever unlock the id in this process.
Abandon(h) ==
    /\ h \in Local
    /\ pc[h] = "write"
    /\ Goto(h, "leaked")
    /\ UNCHANGED <<disk, readers, janitor, setting, env>>

\* Close: f.Sync.
Sync(h) ==
    /\ pc[h] = "close"
    /\ synced' = IF hlink[h]
                 THEN [synced EXCEPT ![Id(h)] = Len(content[Id(h)])]
                 ELSE synced
    /\ Goto(h, "finish")
    /\ UNCHANGED <<dir, files, meta, content, info, readers, janitor,
                   setting, env>>

\* Close: the content is still incomplete and is kept for a later transfer.
ClosePartial(h) ==
    /\ pc[h] = "finish"
    /\ Len(hfile[h]) < Length(hm[h])
    /\ Return(h)
    /\ UNCHANGED <<disk, readers, janitor, setting, env>>

\* A plausible slip: only the size is compared.
CloseDone_SizeOnly(h) ==
    /\ pc[h] = "finish"
    /\ Len(hfile[h]) = Length(hm[h])
    /\ Id(h) \in dir
    /\ files' = [files EXCEPT ![Id(h)] = @ \cup {"done"}]
    /\ Return(h)
    /\ UNCHANGED <<dir, meta, content, synced, info, readers, janitor,
                   setting, env>>

\* A plausible slip: Close returns the ContentMismatch without unlocking.
CloseMismatch_KeepsLock(h) ==
    /\ pc[h] = "finish"
    /\ Len(hfile[h]) > Length(hm[h])
    /\ pc' = [pc EXCEPT ![h] = "idle"]
    /\ UNCHANGED <<disk, busy, hm, hfile, hlink, hsum, readers, janitor,
                   setting, env>>

\* Close: the content is verified and the message becomes visible.  WriteFile
\* fails when the directory is gone (IOError).
CloseDone(h) ==
    /\ pc[h] = "finish"
    /\ Len(hfile[h]) = Length(hm[h])
    /\ hsum[h] = Content[hm[h]]
    /\ Id(h) \in dir
    /\ files' = [files EXCEPT ![Id(h)] = @ \cup {"done"}]
    /\ Return(h)
    /\ UNCHANGED <<dir, meta, content, synced, info, readers, janitor,
                   setting, env>>

\* Close: the content is too long or not the announced one; RemoveAll starts.
CloseMismatch(h) ==
    /\ pc[h] = "finish"
    /\ \/ Len(hfile[h]) > Length(hm[h])
       \/ Len(hfile[h]) = Length(hm[h]) /\ hsum[h] # Content[hm[h]]
    /\ Goto(h, "unlink")
    /\ UNCHANGED <<disk, readers, janitor, setting, env>>

-----------------------------------------------------------------------------
(* os.RemoveAll: the files one by one, in any order, until the directory   *)
(* is listed empty; then the directory, unless a file was created since.   *)

UnlinkFile(id, f) ==
    /\ f \in files[id]
    /\ files' = [files EXCEPT ![id] = @ \ {f}]
    /\ meta' = IF f = "message" THEN [meta EXCEPT ![id] = NoMsg] ELSE meta
    /\ content' = IF f = "content" THEN [content EXCEPT ![id] = << >>]
                                   ELSE content
    /\ synced' = IF f = "content" THEN [synced EXCEPT ![id] = 0] ELSE synced
    /\ info' = IF f \in Peers THEN [info EXCEPT ![id][f] = ZeroInfo] ELSE info
    /\ hlink' = [h \in Handlers |->
                   hlink[h] /\ ~ (f = "content" /\ Id(h) = id)]
    /\ setting' = setting \ {<<id, f>>}
    /\ UNCHANGED <<dir, busy, hm, hfile, hsum, readers, env>>

RemoveDir(id) ==
    /\ dir' = IF files[id] = {} THEN dir \ {id} ELSE dir
    /\ UNCHANGED <<files, meta, content, synced, info, readers, setting, env>>

MismatchUnlink(h, f) ==
    /\ pc[h] = "unlink"
    /\ UnlinkFile(Id(h), f)
    /\ UNCHANGED <<pc, janitor>>

MismatchListedEmpty(h) ==
    /\ pc[h] = "unlink"
    /\ files[Id(h)] = {}
    /\ Goto(h, "rmdir")
    /\ UNCHANGED <<disk, readers, janitor, setting, env>>

\* The end of Close with ErrContentMismatch.
MismatchRemoveDir(h) ==
    /\ pc[h] = "rmdir"
    /\ RemoveDir(Id(h))
    /\ Return(h)
    /\ UNCHANGED janitor

-----------------------------------------------------------------------------
(* Offset: a locked look at the size of the content.                       *)

OffsetBusy(h, m) ==
    /\ pc[h] = "idle"
    /\ IdOf[m] \in busy
    /\ UNCHANGED vars

OffsetAlreadySeen(h, m) ==
    /\ pc[h] = "idle"
    /\ IdOf[m] \notin busy
    /\ isComplete(IdOf[m])
    /\ UNCHANGED vars

OffsetLock(h, m) ==
    /\ pc[h] = "idle"
    /\ IdOf[m] \notin busy
    /\ ~ isComplete(IdOf[m])
    /\ busy' = busy \cup {IdOf[m]}
    /\ hm' = [hm EXCEPT ![h] = m]
    /\ pc' = [pc EXCEPT ![h] = "offset"]
    /\ UNCHANGED <<disk, hfile, hlink, hsum, readers, janitor, setting, env>>

OffsetResult(h) == Len(content[Id(h)])

OffsetReturn(h) ==
    /\ pc[h] = "offset"
    /\ Return(h)
    /\ UNCHANGED <<disk, readers, janitor, setting, env>>

-----------------------------------------------------------------------------
(* OpenRead: isComplete, readMessage, then open the content, creating it   *)
(* if there is none (O_CREATE).                                            *)

\* A plausible slip: any message that has a directory can be read.
OpenReadCheck_AnyMessage(r, id) ==
    /\ rpc[r] = "idle"
    /\ id \in dir
    /\ rpc' = [rpc EXCEPT ![r] = "checked"]
    /\ rid' = [rid EXCEPT ![r] = id]
    /\ UNCHANGED <<disk, handlers, rmsg, rdata, janitor, setting, env>>

OpenReadCheck(r, id) ==
    /\ rpc[r] = "idle"
    /\ isComplete(id)
    /\ rpc' = [rpc EXCEPT ![r] = "checked"]
    /\ rid' = [rid EXCEPT ![r] = id]
    /\ UNCHANGED <<disk, handlers, rmsg, rdata, janitor, setting, env>>

ReaderReturn(r) ==
    /\ rpc' = [rpc EXCEPT ![r] = "idle"]
    /\ rmsg' = [rmsg EXCEPT ![r] = NoMsg]
    /\ rdata' = [rdata EXCEPT ![r] = << >>]
    /\ UNCHANGED rid

OpenReadMessage(r) ==
    /\ rpc[r] = "checked"
    /\ meta[rid[r]] # NoMsg
    /\ rmsg' = [rmsg EXCEPT ![r] = meta[rid[r]]]
    /\ rpc' = [rpc EXCEPT ![r] = "opening"]
    /\ UNCHANGED <<disk, handlers, rid, rdata, janitor, setting, env>>

OpenReadContent(r) ==
    /\ rpc[r] = "opening"
    /\ rid[r] \in dir
    /\ files' = [files EXCEPT ![rid[r]] = @ \cup {"content"}]
    /\ rdata' = [rdata EXCEPT ![r] = content[rid[r]]]
    /\ rpc' = [rpc EXCEPT ![r] = "open"]
    /\ UNCHANGED <<dir, meta, content, synced, info, handlers, rid, rmsg,
                   janitor, setting, env>>

\* An error of readMessage or of the open, or the reader closes the file.
OpenReadEnd(r) ==
    /\ \/ rpc[r] = "checked" /\ meta[rid[r]] = NoMsg
       \/ rpc[r] = "opening" /\ rid[r] \notin dir
       \/ rpc[r] = "open"
    /\ ReaderReturn(r)
    /\ UNCHANGED <<disk, handlers, janitor, setting, env>>

-----------------------------------------------------------------------------
(* SetPeerInfo: open with O_TRUNC, then encode through the descriptor.     *)
(* PeerInfo of an absent or truncated file is the zero value, which is     *)
(* also what an Encode that fails leaves.                                  *)

PeerInfo(id, p) == info[id][p]

SetPeerInfoTruncate(id, p) ==
    /\ id \in dir
    /\ <<id, p>> \notin setting
    /\ files' = [files EXCEPT ![id] = @ \cup {p}]
    /\ info' = [info EXCEPT ![id][p] = ZeroInfo]
    /\ setting' = setting \cup {<<id, p>>}
    /\ UNCHANGED <<dir, meta, content, synced, handlers, readers, janitor, env>>

SetPeerInfoEncode(id, p, pi) ==
    /\ <<id, p>> \in setting
    /\ info' = [info EXCEPT ![id][p] = pi]
    /\ setting' = setting \ {<<id, p>>}
    /\ UNCHANGED <<dir, files, meta, content, synced, handlers, readers,
                   janitor, env>>

-----------------------------------------------------------------------------
(* The goroutine of NewFileStorage.                                        *)

\* A plausible slip: the janitor looks at complete messages only.
JanitorFinds_CompleteOnly(id) ==
    /\ jpc = "idle"
    /\ isComplete(id)
    /\ meta[id] \in expired
    /\ jpc' = "unlink"
    /\ jid' = id
    /\ UNCHANGED <<disk, handlers, readers, setting, env>>

JanitorFinds(id) ==
    /\ jpc = "idle"
    /\ id \in dir
    /\ meta[id] \in expired
    /\ jpc' = "unlink"
    /\ jid' = id
    /\ UNCHANGED <<disk, handlers, readers, setting, env>>

JanitorUnlink(f) ==
    /\ jpc = "unlink"
    /\ UnlinkFile(jid, f)
    /\ UNCHANGED <<pc, janitor>>

\* RemoveAll fails: the error is logged.
JanitorError ==
    /\ jpc = "unlink"
    /\ jpc' = "idle"
    /\ UNCHANGED <<disk, handlers, readers, jid, setting, env>>

JanitorListedEmpty ==
    /\ jpc = "unlink"
    /\ files[jid] = {}
    /\ jpc' = "rmdir"
    /\ UNCHANGED <<disk, handlers, readers, jid, setting, env>>

JanitorRemoveDir ==
    /\ jpc = "rmdir"
    /\ RemoveDir(jid)
    /\ jpc' = "idle"
    /\ UNCHANGED <<handlers, jid>>

-----------------------------------------------------------------------------
(* The environment.                                                        *)

\* CreationTime + Lifespan of m is reached (Message.Expired).
Expire(m) ==
    /\ m \notin expired
    /\ expired' = expired \cup {m}
    /\ UNCHANGED <<disk, handlers, readers, janitor, setting, crashes>>

\* The node dies and is restarted on the same directory.  A content file keeps
\* what was synced and possibly more; the metadata and the delivery records are
\* never synced, so any of them may come back empty.  The environment is assumed
\* to keep every directory and every name that was created, "done" too, although
\* storage.go syncs no directory (a journaled filesystem orders its names).
Crash ==
    /\ crashes < MaxCrashes
    /\ crashes' = crashes + 1
    /\ \E keep \in [Ids -> 0 .. MaxSize] :
         /\ \A id \in Ids : keep[id] \in synced[id] .. Len(content[id])
         /\ content' = [id \in Ids |-> SubSeq(content[id], 1, keep[id])]
         /\ synced' = [id \in Ids |-> keep[id]]
    /\ \E lost \in SUBSET Ids :
         meta' = [id \in Ids |-> IF id \in lost THEN NoMsg ELSE meta[id]]
    /\ \E lost \in SUBSET (Ids \X Peers) :
         info' = [id \in Ids |-> [p \in Peers |->
                   IF <<id, p>> \in lost THEN ZeroInfo ELSE info[id][p]]]
    /\ busy' = {}
    /\ pc' = [h \in Handlers |-> "idle"]
    /\ hm' = [h \in Handlers |-> NoMsg]
    /\ hfile' = [h \in Handlers |-> << >>]
    /\ hlink' = [h \in Handlers |-> FALSE]
    /\ hsum' = [h \in Handlers |-> << >>]
    /\ rpc' = [r \in Readers |-> "idle"]
    /\ rmsg' = [r \in Readers |-> NoMsg]
    /\ rdata' = [r \in Readers |-> << >>]
    /\ jpc' = "idle"
    /\ setting' = {}
    /\ UNCHANGED <<dir, files, rid, jid, expired>>

-----------------------------------------------------------------------------
OpenWriteStep(h) ==
    \/ \E m \in Msgs : \/ OpenWriteBusy(h, m)
                       \/ OpenWriteAlreadySeen(h, m)
                       \/ OpenWriteCollision(h, m)
                       \/ OpenWrite(h, m)
    \/ CreateMessage(h)
    \/ EncodeMessage(h)
    \/ \E offset \in 0 .. MaxSize : \/ OpenContentIncorrectOffset(h, offset)
                                    \/ OpenContent(h, offset)

WriteStep(h) == \E c \in Chunks : Write(h, c) \/ WriteError(h, c)

CloseStep(h) ==
    \/ CloseBegin(h)
    \/ Abandon(h)
    \/ Sync(h)
    \/ ClosePartial(h)
    \/ CloseDone(h)
    \/ CloseMismatch(h)
    \/ \E f \in FileNames : MismatchUnlink(h, f)
    \/ MismatchListedEmpty(h)
    \/ MismatchRemoveDir(h)

OffsetStep(h) ==
    \/ \E m \in Msgs : \/ OffsetBusy(h, m)
                       \/ OffsetAlreadySeen(h, m)
                       \/ OffsetLock(h, m)
    \/ OffsetReturn(h)

ReadStep(r) ==
    \/ \E id \in Ids : OpenReadCheck(r, id)
    \/ OpenReadMessage(r)
    \/ OpenReadContent(r)
    \/ OpenReadEnd(r)

PeerInfoStep(id, p) ==
    \/ SetPeerInfoTruncate(id, p)
    \/ \E pi \in Infos : SetPeerInfoEncode(id, p, pi)

JanitorStep ==
    \/ \E id \in Ids : JanitorFinds(id)
    \/ \E f \in FileNames : JanitorUnlink(f)
    \/ JanitorError
    \/ JanitorListedEmpty
    \/ JanitorRemoveDir

Next ==
    \/ \E h \in Handlers : \/ OpenWriteStep(h)
                           \/ WriteStep(h)
                           \/ CloseStep(h)
                           \/ OffsetStep(h)
                           \/ IOError(h)
    \/ \E r \in Readers : ReadStep(r)
    \/ \E id \in Ids, p \in Peers : PeerInfoStep(id, p)
    \/ JanitorStep
    \/ \E m \in Msgs : Expire(m)
    \/ Crash

Spec == Init /\ [][Next]_vars

\* A handler that has the lock keeps going: the calls return, and the stream
\* that feeds Write ends or breaks; then Push closes the file (messenger.go:82-97),
\* and a local sender closes it or leaks it.  The janitor looks at every directory of
\* each pass, and os.Remove does not fail for ever.
HandlerProgress(h) ==
    \/ CreateMessage(h)
    \/ EncodeMessage(h)
    \/ \E offset \in 0 .. MaxSize : \/ OpenContentIncorrectOffset(h, offset)
                                    \/ OpenContent(h, offset)
    \/ IOError(h)
    \/ WriteStep(h)
    \/ CloseStep(h)
    \/ OffsetReturn(h)

Fairness ==
    /\ \A h \in Handlers : WF_vars(HandlerProgress(h))
    /\ \A id \in Ids : SF_vars(JanitorFinds(id))
    /\ \A f \in FileNames : SF_vars(JanitorUnlink(f))
    /\ WF_vars(JanitorListedEmpty)
    /\ WF_vars(JanitorRemoveDir)

FairSpec == Spec /\ Fairness

-----------------------------------------------------------------------------
(* Properties.                                                             *)

\* The janitor has no business with id: no message of that id is expired.
Fresh(id) == \A m \in expired : IdOf[m] # id

Working(h, id) == pc[h] # "idle" /\ Id(h) = id

\* An id is in the busy map exactly while one handler is storing it (or asking
\* for its offset), and never two: "A message cannot be opened for writing
\* concurrently" (storage.go:29), and no return path of OpenWrite, Offset or
\* Close forgets to unlock, after whatever error, mismatch or crash.  A local
\* sender that returned without Close still is a holder here.
LockDiscipline ==
    /\ \A id \in Ids : id \in busy <=> \E h \in Handlers : Working(h, id)
    /\ \A h1, h2 \in Handlers :
         pc[h1] # "idle" /\ pc[h2] # "idle" /\ Id(h1) = Id(h2) => h1 = h2

\* Once the done file is there, the content file is, byte for byte, what one
\* message of that id announced, all of it is synced, and the metadata is that
\* message's (or was lost in a crash): through resumed transfers by several
\* handlers, write errors, mismatches, id collisions and crashes.
DoneMeansVerified ==
    \A id \in Ids : isComplete(id) /\ Fresh(id) =>
        \E m \in Msgs : /\ IdOf[m] = id
                        /\ meta[id] \in {m, NoMsg}
                        /\ content[id] = Content[m]
                        /\ synced[id] = Len(content[id])

\* What OpenRead opens is the complete, verified content of the message it
\* returns (storage.go:33-34), as long as no message of that id is expired: the
\* content is opened with O_CREATE (storage.go:213), so OpenRead of a message that
\* the janitor is removing may succeed with an empty content.
ReadersSeeVerifiedContent ==
    \A r \in Readers :
        rpc[r] = "open" /\ Fresh(rid[r]) => rdata[r] = Content[rmsg[r]]

\* A complete message stays complete, and neither its content nor its metadata
\* is ever replaced (a crash may lose the metadata), until it expires.
CompleteIsFinal ==
    [][\A id \in Ids : isComplete(id) /\ Fresh(id)' =>
            /\ isComplete(id)'
            /\ content'[id] = content[id]
            /\ meta'[id] \in {meta[id], NoMsg}]_vars

\* The content of a message in transfer only grows, so that the offset a sender
\* was told stays valid: only a crash, the removal of a content that did not
\* match, or the removal of an expired message makes it shorter or different.
TransferOnlyAppends ==
    [][\A id \in Ids :
            \/ /\ Len(content[id]) <= Len(content'[id])
               /\ content[id] = SubSeq(content'[id], 1, Len(content[id]))
            \/ crashes' # crashes
            \/ ~ Fresh(id)
            \/ \E h \in Handlers : pc[h] = "unlink" /\ Id(h) = id]_vars

\* Every lock is released, after whatever error, mismatch, interrupted stream or
\* crash: no message stays Busy for ever.  The exception is a local sender that
\* failed between OpenWrite and Close: sendMessage returns without w.Close()
\* (chat.go:342-351), and the id is locked until the process ends.
LockIsReleased ==
    \A id \in Ids :
        id \in busy ~> \/ id \notin busy
                       \/ \E h \in Local : pc[h] = "leaked" /\ Id(h) = id

\* The metadata of an expired message, complete or not, is removed.
ExpiredIsRemoved ==
    \A id \in Ids : meta[id] \in expired ~> meta[id] \notin expired

-----------------------------------------------------------------------------
(* The inductive invariant that the proofs rest on.                        *)

\* A handler that is not idle stores a message.
HandlersHaveMessages == \A h \in Handlers : pc[h] # "idle" => hm[h] \in Msgs

\* The metadata in the directory of an id is of a message with that id.
MetaHasId == \A id \in Ids : meta[id] # NoMsg => IdOf[meta[id]] = id

\* The janitor removes directories of expired messages only.
JanitorHasReason == jpc # "idle" => ~ Fresh(jid)

\* What handler h knows of the message it stores, wherever it stopped, while the
\* janitor has no business with it: nobody completed it meanwhile, the metadata
\* is its own, the file it writes is the content file, and what it hashed is
\* what it wrote (or one chunk more, after an error of Write).
HandlerKnows(h) ==
    LET id == Id(h) IN
    /\ ~ isComplete(id)
    /\ pc[h] \in {"encode", "open", "write", "close", "finish"} =>
         meta[id] \in {hm[h], NoMsg}
    /\ pc[h] \in {"write", "close", "finish"} =>
         /\ hlink[h]
         /\ content[id] = hfile[h]
         /\ hsum[h] = hfile[h] \/ Len(hsum[h]) = Len(hfile[h]) + 1
    /\ pc[h] = "write" => hsum[h] = hfile[h]
    /\ pc[h] = "finish" => synced[id] = Len(content[id])

HandlersKnow ==
    \A h \in Handlers : pc[h] # "idle" /\ Fresh(Id(h)) => HandlerKnows(h)

\* What a reader knows while no message of the id it reads is expired.
ReadersKnow ==
    \A r \in Readers : rpc[r] # "idle" /\ Fresh(rid[r]) =>
        /\ isComplete(rid[r])
        /\ rpc[r] = "opening" => content[rid[r]] = Content[rmsg[r]]
        /\ rpc[r] = "open" => rdata[r] = Content[rmsg[r]]

IInv ==
    /\ TypeOK
    /\ HandlersHaveMessages
    /\ LockDiscipline
    /\ MetaHasId
    /\ JanitorHasReason
    /\ HandlersKnow
    /\ DoneMeansVerified
    /\ ReadersKnow
=============================================================================
