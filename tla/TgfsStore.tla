------------------------------ MODULE TgfsStore ------------------------------
(***************************************************************************)
(* tgfs_data, tgfs_inode and td_client_api: how a mount keeps inodes in    *)
(* the chat.  A mount holds the table ino -> message (messages_), caches   *)
(* inode objects (inodes_) and publishes a change by sending the data, the *)
(* inode and a whole new table, and pinning the table.                     *)
(*                                                                         *)
(* One step is local code followed by at most one request to the chat, so  *)
(* other mounts and crashes come in between any two requests.  A mount     *)
(* runs one operation at a time (fuse -s).  A request that the chat answers *)
(* with an error is an action of its own, named after the step it replaces *)
(* (ReadPinnedFails, PinTableFails, ...).  Simplifications: the key is     *)
(* right, so decrypting succeeds; getMessage and downloadFile of one file  *)
(* are one step, and so are sendMessage and the wait for its update: the   *)
(* client waits for ever when downloadFile or sendMessage fails, so these  *)
(* steps are just not taken; data_version_ is left out, being 0 whenever   *)
(* update_data reads it.                                                   *)
(***************************************************************************)
EXTENDS TgChat

CONSTANTS Mounts,       \* the running clients that share the chat
          MaxIno,       \* bound: inode numbers are 1..MaxIno
          Values,       \* what write_buf or a directory change may leave in a file
          Blank,        \* the contents of a new or emptied data_0
          Sizes,        \* what setattr and O_TRUNC may make of a size: TRUE is non-zero
          CrashPoints,  \* where a mount may be killed (labels of PCs)
          MaxCrashes,   \* bound: how many kills
          MaxErrors,    \* bound: how many requests are answered with an error
          MaxMsg        \* bound: no upload or removal begins after this many messages

VARIABLES table,    \* messages_: ino -> message id, 0 for none
          cur,      \* current_table_id_, 0 standing for -1
          lastIno,  \* last_ino_
          inodes,   \* the keys of inodes_
          local,    \* per inode: the cached object and the files under root_path_
          frame,    \* the operation a mount is in and its local variables
          crashes,  \* how many kills there were
          errors    \* how many requests were answered with an error

mountVars == <<table, cur, lastIno, inodes, local>>
counters == <<crashes, errors>>
vars == <<chatVars, mountVars, frame, counters>>

Ino == 1..MaxIno
Root == 1
Contents == Values \cup {Blank}
EmptyTable == [i \in Ino |-> 0]

\* version and dirty (need_datasync_) live in the object and die with the
\* process; full (st_size # 0) and data (data_msg_) are the mapped file
\* <ino>/inode and bytes is <ino>/data_0, which stay on disk.
NoFile == [version |-> 0, dirty |-> FALSE, full |-> FALSE, data |-> 0, bytes |-> Blank]

RefreshPCs == {"check", "pinned", "confirm", "fetch"}
UploadPCs  == {"msg", "update", "load", "data", "undata", "inode"}
PublishPCs == {"table", "swap", "unpin", "pin", "drop"}
PCs == {"idle", "down", "segv", "boot", "mount"}
         \cup RefreshPCs \cup UploadPCs \cup PublishPCs

\* Where update_table may return to.
ReturnPCs == {"idle", "boot", "mount", "msg", "update"}

NoFrame(l) == [pc |-> l, ret |-> "idle", op |-> "none", ino |-> Root,
               old |-> 0, hold |-> 0, new |-> 0]

ASSUME StoreAssumption ==
    /\ MaxIno \in Nat \ {0}
    /\ MaxCrashes \in Nat
    /\ MaxErrors \in Nat
    /\ MaxMsg \in Nat
    /\ Sizes \subseteq BOOLEAN
    /\ CrashPoints \subseteq PCs \ {"down", "segv"}

TableMsg == [kind : {"table"}, map : [Ino -> Nat]]
InodeMsg == [kind : {"inode"}, ino : Ino, full : BOOLEAN, data : Nat]
DataMsg  == [kind : {"data"}, bytes : Contents]
Payload  == TableMsg \cup InodeMsg \cup DataMsg

Init ==
    /\ EmptyChat
    /\ table = [m \in Mounts |-> EmptyTable]
    /\ cur = [m \in Mounts |-> 0]
    /\ lastIno = [m \in Mounts |-> 0]
    /\ inodes = [m \in Mounts |-> {}]
    /\ local = [m \in Mounts |-> [i \in Ino |-> NoFile]]
    /\ frame = [m \in Mounts |-> NoFrame("down")]
    /\ crashes = 0
    /\ errors = 0

-----------------------------------------------------------------------------
(* Control: labels, calls of update_table and returns.                     *)

At(m, l) == frame[m].pc = l
Goto(m, l) == frame' = [frame EXCEPT ![m].pc = l]
Return(m) == Goto(m, frame[m].ret)
Finish(m) == frame' = [frame EXCEPT ![m] = NoFrame("idle")]

\* Begin operation o on inode i: its first call is lookup_msg, which resumes at r.
Begin(m, o, i, r) ==
    frame' = [frame EXCEPT ![m] = [NoFrame("check") EXCEPT !.op = o, !.ino = i, !.ret = r]]

\* lookup_msg again, in the middle of an operation.
CallRefresh(m, r) == frame' = [frame EXCEPT ![m] = [@ EXCEPT !.pc = "check", !.ret = r]]

\* update has returned: lookup_inode is done, and so is a lookup operation.
EndUpdate(m) == IF frame[m].op = "upload" THEN Goto(m, "data") ELSE Finish(m)

HasRoom == lastId < MaxMsg

-----------------------------------------------------------------------------
(* update_table: is_up_to_date_table, then download_table until it returns *)
(* 0 or 2.                                                                 *)

\* Mutant: a chat without a pinned message matches current_table_id_ 0.
UpToDateWhenEmpty(m) == LastPinned = cur[m]

UpToDate(m) == LastPinned # 0 /\ LastPinned = cur[m]

CheckTable(m) ==
    /\ At(m, "check")
    /\ IF UpToDate(m) THEN Return(m) ELSE Goto(m, "pinned")
    /\ UNCHANGED <<chatVars, mountVars, counters>>

ReadPinned(m) ==
    /\ At(m, "pinned")
    /\ frame' = [frame EXCEPT ![m] = [@ EXCEPT !.pc = "confirm", !.hold = LastPinned]]
    /\ UNCHANGED <<chatVars, mountVars, counters>>

\* download_table returns 1, which the loop takes for an error.
TableIsCurrent(m) ==
    /\ At(m, "confirm")
    /\ UpToDate(m)
    /\ Goto(m, "pinned")
    /\ UNCHANGED <<chatVars, mountVars, counters>>

\* download_table returns 2: nothing was pinned, messages_ is made anew.
StartOver(m) ==
    /\ At(m, "confirm")
    /\ ~UpToDate(m)
    /\ frame[m].hold = 0
    /\ table' = [table EXCEPT ![m] = EmptyTable]
    /\ Return(m)
    /\ UNCHANGED <<chatVars, cur, lastIno, inodes, local, counters>>

AdoptTable(m) ==
    /\ At(m, "confirm")
    /\ ~UpToDate(m)
    /\ frame[m].hold # 0
    /\ cur' = [cur EXCEPT ![m] = frame[m].hold]
    /\ Goto(m, "fetch")
    /\ UNCHANGED <<chatVars, table, lastIno, inodes, local, counters>>

\* Mutant: the new table is downloaded beside the old one and not swapped in.
FetchTableUnused(m) ==
    /\ At(m, "fetch")
    /\ frame[m].hold \in DOMAIN chat
    /\ Return(m)
    /\ UNCHANGED <<chatVars, mountVars, counters>>

FetchTable(m) ==
    /\ At(m, "fetch")
    /\ frame[m].hold \in DOMAIN chat
    /\ table' = [table EXCEPT ![m] = chat[frame[m].hold].map]
    /\ Return(m)
    /\ UNCHANGED <<chatVars, cur, lastIno, inodes, local, counters>>

Refresh(m) == \/ CheckTable(m) \/ ReadPinned(m) \/ TableIsCurrent(m)
              \/ StartOver(m) \/ AdoptTable(m) \/ FetchTable(m)

-----------------------------------------------------------------------------
(* The constructor of tgfs_data.                                           *)

Boot(m) ==
    /\ frame[m].pc \in {"down", "segv"}
    /\ frame' = [frame EXCEPT ![m] = [NoFrame("pinned") EXCEPT !.op = "boot", !.ret = "boot"]]
    /\ UNCHANGED <<chatVars, mountVars, counters>>

LookupRoot(m) ==
    /\ At(m, "boot")
    /\ CallRefresh(m, "mount")
    /\ UNCHANGED <<chatVars, mountVars, counters>>

\* Mutant: last_ino_ is the greatest message id instead of the greatest inode.
MountExistingByMessage(m) ==
    /\ At(m, "mount")
    /\ table[m][Root] # 0
    /\ lastIno' = [lastIno EXCEPT ![m] = Max({table[m][i] : i \in Ino})]
    /\ Finish(m)
    /\ UNCHANGED <<chatVars, table, cur, inodes, local, counters>>

MountExisting(m) ==
    /\ At(m, "mount")
    /\ table[m][Root] # 0
    /\ lastIno' = [lastIno EXCEPT ![m] = Max({i \in Ino : table[m][i] # 0})]
    /\ Finish(m)
    /\ UNCHANGED <<chatVars, table, cur, inodes, local, counters>>

\* Leftover files of the root are removed first, so data_msg_ is 0.
MakeRoot(m) ==
    /\ At(m, "mount")
    /\ table[m][Root] = 0
    /\ lastIno' = [lastIno EXCEPT ![m] = Root]
    /\ inodes' = [inodes EXCEPT ![m] = @ \cup {Root}]
    /\ local' = [local EXCEPT ![m][Root] = [NoFile EXCEPT !.dirty = TRUE, !.full = TRUE]]
    /\ Begin(m, "upload", Root, "msg")
    /\ UNCHANGED <<chatVars, table, cur, counters>>

-----------------------------------------------------------------------------
(* lookup_inode and update.                                                *)

Lookup(m) == \E i \in Ino :
    /\ At(m, "idle")
    /\ i = Root \/ table[m][i] # 0 \/ i \in inodes[m]
    /\ Begin(m, "lookup", i, "update")
    /\ UNCHANGED <<chatVars, mountVars, counters>>

Cached(m) == LET i == frame[m].ino IN
    \/ table[m][i] = 0
    \/ i \in inodes[m] /\ local[m][i].version = table[m][i]

KeepObject(m) ==
    /\ At(m, "update")
    /\ Cached(m)
    /\ EndUpdate(m)
    /\ UNCHANGED <<chatVars, mountVars, counters>>

\* The cached object is deleted, dirty or not, and a new one made from the
\* message; need_datasync_ of a new object is true.
ReloadObject(m) == LET i == frame[m].ino  x == table[m][i] IN
    /\ At(m, "update")
    /\ ~Cached(m)
    /\ x \in DOMAIN chat
    /\ inodes' = [inodes EXCEPT ![m] = @ \cup {i}]
    /\ local' = [local EXCEPT ![m][i] =
                    [version |-> x, dirty |-> TRUE, full |-> chat[x].full,
                     data |-> chat[x].data, bytes |-> @.bytes]]
    /\ Goto(m, "load")
    /\ UNCHANGED <<chatVars, table, cur, lastIno, counters>>

\* update_data of the new object.
LoadBytes(m) == LET i == frame[m].ino  f == local[m][i] IN
    /\ At(m, "load")
    /\ \/ /\ ~f.full
          /\ local' = [local EXCEPT ![m][i].bytes = Blank]
       \/ /\ f.full /\ f.data = 0
          /\ UNCHANGED local
       \/ /\ f.full /\ f.data \in DOMAIN chat
          /\ local' = [local EXCEPT ![m][i] = [@ EXCEPT !.bytes = chat[f.data].bytes,
                                                      !.dirty = FALSE]]
    /\ EndUpdate(m)
    /\ UNCHANGED <<chatVars, table, cur, lastIno, inodes, counters>>

-----------------------------------------------------------------------------
(* Changes of a cached inode that stay local: write_buf, the set and       *)
(* remove of a directory, setattr of the size and open with O_TRUNC.       *)

\* Mutant: write_buf does not ask for a datasync.
OverwriteClean(f, v) == [f EXCEPT !.bytes = v, !.full = TRUE]

Overwrite(f, v) == [f EXCEPT !.bytes = v, !.full = TRUE, !.dirty = TRUE]

Write(m) == \E i \in inodes[m], v \in Values :
    /\ At(m, "idle")
    /\ local' = [local EXCEPT ![m][i] = Overwrite(@, v)]
    /\ UNCHANGED <<chatVars, table, cur, lastIno, inodes, frame, counters>>

\* open with O_TRUNC leaves need_datasync_ as it is.
Truncate(m) == \E i \in inodes[m] \ {Root} :
    /\ At(m, "idle")
    /\ FALSE \in Sizes
    /\ local' = [local EXCEPT ![m][i] = [@ EXCEPT !.full = FALSE, !.bytes = Blank]]
    /\ UNCHANGED <<chatVars, table, cur, lastIno, inodes, frame, counters>>

\* So does setattr of the size, which uploads.  The file itself is cut or
\* extended only when the caller has it open.
SetSize(m) == \E i \in inodes[m] \ {Root}, s \in Sizes : \E b \in Contents :
    /\ At(m, "idle")
    /\ HasRoom
    /\ b = local[m][i].bytes \/ (b = Blank <=> ~s)
    /\ local' = [local EXCEPT ![m][i] = [@ EXCEPT !.full = s, !.bytes = b]]
    /\ Begin(m, "upload", i, "msg")
    /\ UNCHANGED <<chatVars, table, cur, lastIno, inodes, counters>>

-----------------------------------------------------------------------------
(* upload.                                                                 *)

StartUpload(m) == \E i \in inodes[m] :
    /\ At(m, "idle")
    /\ HasRoom
    /\ Begin(m, "upload", i, "msg")
    /\ UNCHANGED <<chatVars, mountVars, counters>>

\* new_ino: last_ino_ goes up until it is not in messages_.
NewInos(m) == {i \in Ino : i > lastIno[m] /\ table[m][i] = 0}

\* mknod (size 0) or mkdir (size 666) of a new inode, up to its upload.  The
\* file <ino>/inode is opened, not truncated: an old data_msg_ stays.
Create(m) == \E full \in BOOLEAN :
    /\ At(m, "idle")
    /\ HasRoom
    /\ NewInos(m) # {}
    /\ LET i == Min(NewInos(m)) IN
          /\ lastIno' = [lastIno EXCEPT ![m] = i]
          /\ inodes' = [inodes EXCEPT ![m] = @ \cup {i}]
          /\ local' = [local EXCEPT ![m][i] =
                          [version |-> 0, dirty |-> TRUE, full |-> full,
                           data |-> @.data, bytes |-> Blank]]
          /\ Begin(m, "upload", i, "msg")
    /\ UNCHANGED <<chatVars, table, cur, counters>>

RememberMsg(m) ==
    /\ At(m, "msg")
    /\ frame' = [frame EXCEPT ![m] = [@ EXCEPT !.old = table[m][frame[m].ino],
                                              !.pc = "check", !.ret = "update"]]
    /\ UNCHANGED <<chatVars, mountVars, counters>>

NeedsData(f) == f.dirty /\ f.full

SkipData(m) ==
    /\ At(m, "data")
    /\ ~NeedsData(local[m][frame[m].ino])
    /\ Goto(m, "inode")
    /\ UNCHANGED <<chatVars, mountVars, counters>>

SendData(m) == LET f == local[m][frame[m].ino] IN
    /\ At(m, "data")
    /\ NeedsData(f)
    /\ Send([kind |-> "data", bytes |-> f.bytes])
    /\ frame' = [frame EXCEPT ![m] = [@ EXCEPT !.pc = "undata", !.new = NextId]]
    /\ UNCHANGED <<mountVars, counters>>

\* Mutant: data_msg_ is left at the message that was removed.
RemoveOldDataUnset(m) == LET i == frame[m].ino IN
    /\ At(m, "undata")
    /\ Delete(local[m][i].data)
    /\ local' = [local EXCEPT ![m][i].dirty = FALSE]
    /\ Goto(m, "inode")
    /\ UNCHANGED <<table, cur, lastIno, inodes, counters>>

\* remove_data of the old message, then data_msg_ is the new one.
RemoveOldData(m) == LET i == frame[m].ino IN
    /\ At(m, "undata")
    /\ Delete(local[m][i].data)
    /\ local' = [local EXCEPT ![m][i] = [@ EXCEPT !.data = frame[m].new, !.dirty = FALSE]]
    /\ Goto(m, "inode")
    /\ UNCHANGED <<table, cur, lastIno, inodes, counters>>

\* What is common to sending the inode and to the mutants below.
SendsInode(m) == LET i == frame[m].ino  f == local[m][i] IN
    /\ At(m, "inode")
    /\ Send([kind |-> "inode", ino |-> i, full |-> f.full, data |-> f.data])
    /\ Goto(m, "table")
    /\ UNCHANGED <<cur, lastIno, inodes, counters>>

\* Mutant: the old message is removed as soon as the new one is sent.
SendInodeEarlyDrop(m) == LET i == frame[m].ino  f == local[m][i] IN
    /\ At(m, "inode")
    /\ chat' = [x \in (DOMAIN chat \ {frame[m].old}) \cup {NextId} |->
                  IF x = NextId
                  THEN [kind |-> "inode", ino |-> i, full |-> f.full, data |-> f.data]
                  ELSE chat[x]]
    /\ lastId' = NextId
    /\ local' = [local EXCEPT ![m][i].version = NextId]
    /\ table' = [table EXCEPT ![m][i] = NextId]
    /\ Goto(m, "table")
    /\ UNCHANGED <<pins, cur, lastIno, inodes, counters>>

\* Mutant: the entry becomes the message of the data.
SendInodeMisfiled(m) ==
    /\ SendsInode(m)
    /\ local' = [local EXCEPT ![m][frame[m].ino].version = NextId]
    /\ table' = [table EXCEPT ![m][frame[m].ino] = frame[m].new]

\* Mutant: the version of the cached object is not changed.
SendInodeUnversioned(m) ==
    /\ SendsInode(m)
    /\ table' = [table EXCEPT ![m][frame[m].ino] = NextId]
    /\ UNCHANGED local

\* The new inode message also goes into version and into messages_.
SendInode(m) ==
    /\ SendsInode(m)
    /\ local' = [local EXCEPT ![m][frame[m].ino].version = NextId]
    /\ table' = [table EXCEPT ![m][frame[m].ino] = NextId]

-----------------------------------------------------------------------------
(* upload_table, and the last removal of upload and remove.                *)

SendTable(m) ==
    /\ At(m, "table")
    /\ Send([kind |-> "table", map |-> table[m]])
    /\ frame' = [frame EXCEPT ![m] = [@ EXCEPT !.pc = "swap", !.new = NextId]]
    /\ UNCHANGED <<mountVars, counters>>

FindPinned(m) ==
    /\ At(m, "swap")
    /\ frame' = [frame EXCEPT ![m] = [@ EXCEPT !.hold = LastPinned,
                                 !.pc = IF LastPinned = 0 THEN "pin" ELSE "unpin"]]
    /\ UNCHANGED <<chatVars, mountVars, counters>>

RemovePinned(m) ==
    /\ At(m, "unpin")
    /\ Delete(frame[m].hold)
    /\ Goto(m, "pin")
    /\ UNCHANGED <<mountVars, counters>>

PinTable(m) ==
    /\ At(m, "pin")
    /\ Pin(frame[m].new)
    /\ cur' = [cur EXCEPT ![m] = frame[m].new]
    /\ Goto(m, "drop")
    /\ UNCHANGED <<table, lastIno, inodes, local, counters>>

\* The end of upload and remove, but for the removal of the replaced message.
KeepsOld(m) ==
    /\ At(m, "drop")
    /\ local' = IF frame[m].op = "remove"
                THEN [local EXCEPT ![m][frame[m].ino] = NoFile] ELSE local
    /\ Finish(m)
    /\ UNCHANGED <<chatVars, table, cur, lastIno, inodes>>

\* Mutant: the replaced inode message is not removed.
DropOldKept(m) == KeepsOld(m) /\ UNCHANGED counters

\* remove also deletes the files under root_path_.
DropOld(m) ==
    /\ At(m, "drop")
    /\ Delete(frame[m].old)
    /\ local' = IF frame[m].op = "remove"
                THEN [local EXCEPT ![m][frame[m].ino] = NoFile] ELSE local
    /\ Finish(m)
    /\ UNCHANGED <<table, cur, lastIno, inodes, counters>>

\* What remove changes in the mount before its upload_table.
RemovesEntry(m, i) ==
    /\ inodes' = [inodes EXCEPT ![m] = @ \ {i}]
    /\ table' = [table EXCEPT ![m][i] = 0]
    /\ frame' = [frame EXCEPT ![m] = [NoFrame("table") EXCEPT
                    !.op = "remove", !.ino = i, !.old = table[m][i]]]

\* remove, up to its upload_table: the object and the data go first.
StartRemove(m) == \E i \in inodes[m] \ {Root} :
    /\ At(m, "idle")
    /\ HasRoom
    /\ Delete(local[m][i].data)
    /\ RemovesEntry(m, i)
    /\ UNCHANGED <<cur, lastIno, local, counters>>

-----------------------------------------------------------------------------
(* Ends of the process.                                                    *)

\* What a process leaves behind: its files, but no object.
Vanish(m) ==
    /\ table' = [table EXCEPT ![m] = EmptyTable]
    /\ cur' = [cur EXCEPT ![m] = 0]
    /\ lastIno' = [lastIno EXCEPT ![m] = 0]
    /\ inodes' = [inodes EXCEPT ![m] = {}]
    /\ local' = [local EXCEPT ![m] =
                    [i \in Ino |-> [@[i] EXCEPT !.version = 0, !.dirty = FALSE]]]

Kill(m) ==
    /\ frame[m].pc \in CrashPoints
    /\ crashes < MaxCrashes
    /\ crashes' = crashes + 1
    /\ Vanish(m)
    /\ frame' = [frame EXCEPT ![m] = NoFrame("down")]
    /\ UNCHANGED <<chatVars, errors>>

\* getMessage of a deleted message gives a null pointer, which
\* DownloadFileFromMes dereferences.
NullMessage(m) == LET i == frame[m].ino IN
    \/ At(m, "fetch") /\ frame[m].hold \notin DOMAIN chat
    \/ At(m, "update") /\ ~Cached(m) /\ table[m][i] \notin DOMAIN chat
    \/ /\ At(m, "load") /\ local[m][i].full
       /\ local[m][i].data # 0 /\ local[m][i].data \notin DOMAIN chat

Segv(m) ==
    /\ NullMessage(m)
    /\ Vanish(m)
    /\ frame' = [frame EXCEPT ![m] = NoFrame("segv")]
    /\ UNCHANGED <<chatVars, counters>>

-----------------------------------------------------------------------------
(* Requests that are answered with an error.                               *)

CountError == errors < MaxErrors /\ errors' = errors + 1 /\ UNCHANGED crashes

\* getChatPinnedMessage: GetLastPinnedMessage returns nullptr, which all its
\* callers take for a chat without a pinned message.
CheckTableFails(m) ==
    /\ At(m, "check")
    /\ Goto(m, "pinned")
    /\ CountError
    /\ UNCHANGED <<chatVars, mountVars>>

ReadPinnedFails(m) ==
    /\ At(m, "pinned")
    /\ frame' = [frame EXCEPT ![m] = [@ EXCEPT !.pc = "confirm", !.hold = 0]]
    /\ CountError
    /\ UNCHANGED <<chatVars, mountVars>>

ConfirmFails(m) ==
    /\ At(m, "confirm")
    /\ IF frame[m].hold = 0
       THEN table' = [table EXCEPT ![m] = EmptyTable] /\ Return(m) /\ UNCHANGED cur
       ELSE cur' = [cur EXCEPT ![m] = frame[m].hold] /\ Goto(m, "fetch") /\ UNCHANGED table
    /\ CountError
    /\ UNCHANGED <<chatVars, lastIno, inodes, local>>

FindPinnedFails(m) ==
    /\ At(m, "swap")
    /\ frame' = [frame EXCEPT ![m] = [@ EXCEPT !.hold = 0, !.pc = "pin"]]
    /\ CountError
    /\ UNCHANGED <<chatVars, mountVars>>

\* deleteMessages: nobody looks at the answer, and the message stays.
RemoveOldDataFails(m) == LET i == frame[m].ino IN
    /\ At(m, "undata")
    /\ local[m][i].data # 0
    /\ local' = [local EXCEPT ![m][i] = [@ EXCEPT !.data = frame[m].new, !.dirty = FALSE]]
    /\ Goto(m, "inode")
    /\ CountError
    /\ UNCHANGED <<chatVars, table, cur, lastIno, inodes>>

RemovePinnedFails(m) ==
    /\ At(m, "unpin")
    /\ Goto(m, "pin")
    /\ CountError
    /\ UNCHANGED <<chatVars, mountVars>>

DropOldFails(m) ==
    /\ frame[m].old # 0
    /\ KeepsOld(m)
    /\ CountError

StartRemoveFails(m) == \E i \in inodes[m] \ {Root} :
    /\ At(m, "idle")
    /\ HasRoom
    /\ local[m][i].data # 0
    /\ RemovesEntry(m, i)
    /\ CountError
    /\ UNCHANGED <<chatVars, cur, lastIno, local>>

\* pinChatMessage: nobody looks at the answer either.
PinTableFails(m) ==
    /\ At(m, "pin")
    /\ cur' = [cur EXCEPT ![m] = frame[m].new]
    /\ Goto(m, "drop")
    /\ CountError
    /\ UNCHANGED <<chatVars, table, lastIno, inodes, local>>

\* getMessage of a message that exists: the same null pointer as in Segv.
GetMessageFails(m) == LET i == frame[m].ino IN
    /\ \/ At(m, "fetch")
       \/ At(m, "update") /\ ~Cached(m)
       \/ At(m, "load") /\ local[m][i].full /\ local[m][i].data # 0
    /\ Vanish(m)
    /\ frame' = [frame EXCEPT ![m] = NoFrame("segv")]
    /\ CountError
    /\ UNCHANGED chatVars

Fails(m) ==
    \/ CheckTableFails(m) \/ ReadPinnedFails(m) \/ ConfirmFails(m) \/ FindPinnedFails(m)
    \/ RemoveOldDataFails(m) \/ RemovePinnedFails(m) \/ DropOldFails(m)
    \/ StartRemoveFails(m) \/ PinTableFails(m) \/ GetMessageFails(m)

-----------------------------------------------------------------------------
\* The steps of an operation that has begun.
Step(m) ==
    \/ Refresh(m) \/ LookupRoot(m) \/ MountExisting(m) \/ MakeRoot(m)
    \/ KeepObject(m) \/ ReloadObject(m) \/ LoadBytes(m)
    \/ RememberMsg(m) \/ SkipData(m) \/ SendData(m) \/ RemoveOldData(m)
    \/ SendInode(m) \/ SendTable(m) \/ FindPinned(m) \/ RemovePinned(m)
    \/ PinTable(m) \/ DropOld(m) \/ Segv(m)

\* What the kernel asks for, and what happens to the process.
Ask(m) == \/ Boot(m) \/ Lookup(m) \/ Write(m) \/ Truncate(m) \/ SetSize(m)
          \/ StartUpload(m) \/ Create(m) \/ StartRemove(m) \/ Kill(m)

\* Every request is answered well.
Work == \E m \in Mounts : Step(m) \/ Ask(m)

Next == Work \/ \E m \in Mounts : Fails(m)

Spec == Init /\ [][Next]_vars
FairSpec == Spec /\ \A m \in Mounts : WF_vars(Step(m))

-----------------------------------------------------------------------------
(* Properties.  TypeOK and RightKind hold whatever requests fail; the      *)
(* others are stated up to the first request that fails.                   *)

ChatOK ==
    /\ lastId \in Nat
    /\ DOMAIN chat \subseteq 1..lastId
    /\ \A x \in DOMAIN chat : chat[x] \in Payload
    /\ pins \subseteq DOMAIN chat

File == [version : Nat, dirty : BOOLEAN, full : BOOLEAN, data : Nat, bytes : Contents]
Frame == [pc : PCs, ret : ReturnPCs, op : {"none", "boot", "lookup", "upload", "remove"},
          ino : Ino, old : Nat, hold : Nat, new : Nat]

\* Every variable keeps its type; a message is a table, an inode or data.
TypeOK ==
    /\ ChatOK
    /\ table \in [Mounts -> [Ino -> Nat]]
    /\ cur \in [Mounts -> Nat]
    /\ lastIno \in [Mounts -> 0..MaxIno]
    /\ inodes \in [Mounts -> SUBSET Ino]
    /\ local \in [Mounts -> [Ino -> File]]
    /\ frame \in [Mounts -> Frame]
    /\ crashes \in Nat
    /\ errors \in Nat

Is(x, k) == x \in DOMAIN chat => chat[x].kind = k
IsInodeOf(x, i) == x \in DOMAIN chat => chat[x].kind = "inode" /\ chat[x].ino = i
NamesInodes(t) == \A i \in Ino : IsInodeOf(t[i], i)

\* A message is never taken for another: what is pinned is a table, an entry
\* of any table, in memory or in the chat, is the inode it is filed under or
\* is gone, and the data of an inode is data.  Ids wander through three
\* kinds of files and any number of mounts that delete each other's messages.
RightKind ==
    /\ \A t \in pins : Is(t, "table")
    /\ \A m \in Mounts : NamesInodes(table[m])
    /\ \A x \in DOMAIN chat :
          /\ chat[x].kind = "table" => NamesInodes(chat[x].map)
          /\ chat[x].kind = "inode" => Is(chat[x].data, "data")

\* is_up_to_date_table can be believed: between operations, a mount whose
\* current_table_id_ is the pinned message has that message's table in
\* messages_, whatever other mounts pin, unpin and delete meanwhile.
TableMatchesPin == errors = 0 =>
    \A m \in Mounts : At(m, "idle") /\ UpToDate(m) => chat[cur[m]].map = table[m]

\* Whenever the process dies, an inode that the pinned table lists can be
\* downloaded: upload and remove drop an inode message only when no pinned
\* table leads to it any more.
PinnedInodesExist == errors = 0 =>
    \A t \in pins : \A i \in Ino : chat[t].map[i] # 0 => chat[t].map[i] \in DOMAIN chat

Inodes(t) == {t[i] : i \in Ino} \ {0}
Reachable == LET ts == {chat[t].map : t \in pins}
                 xs == UNION {Inodes(t) : t \in ts}
             IN pins \cup xs \cup ({chat[x].data : x \in xs} \ {0})

\* Between operations the chat holds the pinned table, its inodes and their
\* data, all of them and nothing else: no upload or removal leaks a message
\* or removes one too many.
ChatExactlyReachable ==
    errors = 0 /\ (\A m \in Mounts : frame[m].pc \in {"idle", "down"})
        => Cardinality(pins) <= 1 /\ DOMAIN chat = Reachable

\* Between operations the cached inodes are the ones of the pinned table, so
\* that the next update does not replace one that holds unsaved writes.
CacheIsCurrent == errors = 0 =>
    \A m \in Mounts : At(m, "idle") =>
        /\ cur[m] = LastPinned
        /\ \A i \in inodes[m] : local[m][i].version = table[m][i]

Saved(i, f) ==
    LET x == chat[LastPinned].map[i] IN
        /\ x \in DOMAIN chat
        /\ chat[x].full = f.full
        /\ f.full => /\ chat[x].data \in DOMAIN chat
                     /\ chat[chat[x].data].bytes = f.bytes

\* When flush or fsync returns, the pinned table leads to the bytes the file
\* had, whatever was written, uploaded and reloaded before.
FlushIsDurable ==
    [][\A m \in Mounts, i \in Ino :
          errors' = 0 /\ At(m, "drop") /\ frame[m].op = "upload" /\ frame[m].ino = i =>
              (pins # {} /\ Saved(i, local[m][i]))']_vars

\* The table a new mount would find; from the removal of the pinned table to
\* the pin of its successor, the successor.
Published ==
    IF pins # {} THEN chat[LastPinned].map
    ELSE IF \E m \in Mounts : At(m, "pin")
         THEN chat[frame[CHOOSE m \in Mounts : At(m, "pin")].new].map
         ELSE EmptyTable

IsTorn(i) == LET x == Published[i] IN
    x # 0 /\ (x \in DOMAIN chat => chat[x].full /\ chat[x].data \notin DOMAIN chat)

\* An interrupted upload or removal tears at most one of the files that the
\* published table lists: those whose data is gone are no more than the kills
\* and the operations that are under way.  (A kill at "pin" leaves no published
\* table, so that nothing is listed: see StartsOverWithoutFiles.)
TornFilesBounded == errors = 0 =>
    Cardinality({i \in Ino : IsTorn(i)})
        <= crashes + Cardinality({m \in Mounts : frame[m].op \in {"upload", "remove"}})

\* An operation that has begun returns to the kernel; neither the loop of
\* update_table nor a missing message stops it.
OperationsReturn ==
    \A m \in Mounts : frame[m].pc \notin {"idle", "down"} ~> At(m, "idle") \/ errors > 0

StartsOver(m) == At(m, "confirm") /\ frame[m].hold = 0 /\ ~UpToDate(m)

\* tgfs.h:18 lets download_table return 2 "if chat is empty".
StartsOverWhenEmpty == errors = 0 =>
    \A m \in Mounts : StartsOver(m) => DOMAIN chat = {}

\* The least that tgfs.h:18 says: when download_table returns 2, so that the
\* mount begins an empty file system, the chat holds no inode but the root.
StartsOverWithoutFiles == errors = 0 =>
    \A m \in Mounts : StartsOver(m) =>
        \A x \in DOMAIN chat : chat[x].kind = "inode" => chat[x].ino = Root

\* tgfs_data.h:25-27 says of messages_ that it holds all files on the server
\* and must always be up to date: when it is sent as the new table, it differs
\* from the pinned one in the inode being changed only.
SentTableIsCurrent == errors = 0 =>
    \A m \in Mounts : At(m, "table") /\ pins # {} =>
        \A i \in Ino \ {frame[m].ino} : table[m][i] = chat[LastPinned].map[i]
=============================================================================
