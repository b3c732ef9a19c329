--------------------------- MODULE TgfsStoreProofs ---------------------------
(***************************************************************************)
(* Proofs about TgfsStore for every number of mounts, inodes and values.   *)
(*                                                                         *)
(* TypeOK, RightKind and TableMatchesPin lean on one another: a downloaded *)
(* table has the type of a table because what was pinned is one.  Inv      *)
(* below is their conjunction with what has to be known of the ids that    *)
(* operations carry from one request to the next; it is inductive.         *)
(***************************************************************************)
EXTENDS TgfsStore, NatSetLemmas

Filed(x, i) == x <= lastId /\ IsInodeOf(x, i)
Of(x, k) == x <= lastId /\ Is(x, k)

KindOfTables == \A m \in Mounts, i \in Ino : Filed(table[m][i], i)

KindOfLocals == \A m \in Mounts, i \in Ino : Of(local[m][i].data, "data")

Refers(p) ==
    /\ p.kind = "table" => \A i \in Ino : Filed(p.map[i], i)
    /\ p.kind = "inode" => Of(p.data, "data")

KindOfMessages == \A x \in DOMAIN chat : Refers(chat[x])

KindOfPins == \A t \in pins : chat[t].kind = "table"

Held(f) ==
    /\ Filed(f.old, f.ino)
    /\ f.hold <= lastId
    /\ f.pc \in {"confirm", "fetch", "unpin"} => Is(f.hold, "table")
    /\ f.new <= lastId
    /\ f.pc = "undata" => Is(f.new, "data")
    /\ f.pc \in {"swap", "unpin", "pin"} => Is(f.new, "table")

KindOfHeld == \A m \in Mounts : Held(frame[m])

\* What current_table_id_ stands for.  A table that a mount adopted is pinned
\* as long as it exists; away from the steps that replace it, it is messages_.
CurIsPinned == \A m \in Mounts : cur[m] \in DOMAIN chat => cur[m] \in pins

HeldIsPinned ==
    \A m \in Mounts :
        /\ frame[m].pc = "confirm" => 
             /\ frame[m].hold \in DOMAIN chat => frame[m].hold \in pins
             /\ frame[m].hold = 0 => cur[m] \notin DOMAIN chat
        /\ frame[m].pc = "fetch" => frame[m].hold = cur[m]

Replacing == {"table", "swap", "unpin", "pin"}

CurIsTable ==
    \A m \in Mounts :
        /\ cur[m] <= lastId
        /\ frame[m].pc \notin Replacing \cup {"fetch"} /\ cur[m] \in DOMAIN chat
             => chat[cur[m]].map = table[m]
        /\ frame[m].pc \in Replacing \ {"table"} /\ frame[m].new \in DOMAIN chat
             => chat[frame[m].new].map = table[m]

Kinds == KindOfTables /\ KindOfLocals /\ KindOfMessages /\ KindOfPins /\ KindOfHeld
Pinned == CurIsPinned /\ HeldIsPinned /\ CurIsTable
Inv == TypeOK /\ Kinds /\ Pinned

-----------------------------------------------------------------------------
(* The newest pinned message.                                              *)

\* The newest pinned message is pinned, and its id is not 0.
LEMMA LastPinnedIn ==
  ASSUME ChatOK
  PROVE  /\ LastPinned \in Nat
         /\ pins = {} => LastPinned = 0
         /\ pins # {} => LastPinned \in pins /\ LastPinned # 0
<1>1. pins \in SUBSET (1..lastId) /\ lastId \in Nat
  BY DEF ChatOK
<1>2. CASE pins = {}
  BY <1>2 DEF LastPinned
<1>3. CASE pins # {}
  <2>1. Max(pins) \in pins
    BY <1>1, <1>3, MaxIn
  <2>2. LastPinned = Max(pins)
    BY <1>3 DEF LastPinned
  <2> HIDE DEF LastPinned
  <2>3. LastPinned \in pins
    BY <2>1, <2>2, Zenon
  <2>4. LastPinned \in 1..lastId
    BY <1>1, <2>3, Zenon
  <2> QED BY <1>1, <1>3, <2>3, <2>4
<1> QED BY <1>2, <1>3

-----------------------------------------------------------------------------
(* Steps of the chat.                                                      *)

\* What every step does to the messages known before: none changes, some go.
Aged == /\ lastId <= lastId'
        /\ \A x \in DOMAIN chat' : x <= lastId => x \in DOMAIN chat /\ chat'[x] = chat[x]

\* sendMessage adds one message and its id.
LEMMA SendOK ==
  ASSUME ChatOK, NEW p \in Payload, Send(p)
  PROVE  /\ ChatOK'
         /\ Aged
         /\ lastId' = lastId + 1 /\ NextId = lastId'
         /\ chat'[NextId] = p /\ DOMAIN chat' = DOMAIN chat \cup {NextId}
         /\ pins' = pins
<1>1. DOMAIN chat' = DOMAIN chat \cup {NextId}
  BY DEF Send
<1>2. \A x \in DOMAIN chat' : chat'[x] = IF x = NextId THEN p ELSE chat[x]
  BY DEF Send
<1>3. lastId' = NextId /\ NextId = lastId + 1 /\ pins' = pins
  BY DEF Send, NextId
<1> QED BY <1>1, <1>2, <1>3 DEF ChatOK, Aged

\* deleteMessages takes away one message and its pin.
LEMMA DeleteOK ==
  ASSUME ChatOK, NEW x, Delete(x)
  PROVE  /\ ChatOK'
         /\ Aged
         /\ lastId' = lastId
         /\ DOMAIN chat' = DOMAIN chat \ {x}
         /\ \A y \in DOMAIN chat' : chat'[y] = chat[y]
         /\ pins' = pins \ {x}
<1>1. DOMAIN chat' = DOMAIN chat \ {x}
  BY DEF Delete
<1>2. \A y \in DOMAIN chat' : chat'[y] = chat[y]
  BY DEF Delete
<1>3. lastId' = lastId /\ pins' = pins \ {x}
  BY DEF Delete
<1> QED BY <1>1, <1>2, <1>3 DEF ChatOK, Aged

\* Pinning changes no message.
LEMMA PinOK ==
  ASSUME ChatOK, NEW x, Pin(x)
  PROVE  ChatOK' /\ Aged /\ chat' = chat /\ lastId' = lastId
BY DEF ChatOK, Pin, Aged

\* A step without a request.
LEMMA IdleChatOK ==
  ASSUME ChatOK, UNCHANGED chatVars
  PROVE  ChatOK' /\ Aged /\ chat' = chat /\ pins' = pins /\ lastId' = lastId
BY DEF ChatOK, chatVars, Aged

-----------------------------------------------------------------------------
(* Types.                                                                  *)

\* The root is an inode.
LEMMA RootIn == Root \in Ino
BY StoreAssumption DEF Root, Ino

\* An empty frame is a frame.
LEMMA NoFrameOK == \A l \in PCs : NoFrame(l) \in Frame
BY RootIn DEF NoFrame, Frame, ReturnPCs

\* Records with a field or two replaced.
LEMMA FrameEdits ==
  ASSUME NEW f \in Frame
  PROVE  /\ \A p \in PCs, r \in ReturnPCs : [f EXCEPT !.pc = p, !.ret = r] \in Frame
         /\ \A p \in PCs, x \in Nat : [f EXCEPT !.hold = x, !.pc = p] \in Frame
         /\ \A p \in PCs, x \in Nat : [f EXCEPT !.pc = p, !.new = x] \in Frame
         /\ \A p \in PCs, r \in ReturnPCs, x \in Nat :
               [f EXCEPT !.old = x, !.pc = p, !.ret = r] \in Frame
         /\ \A o \in {"none", "boot", "lookup", "upload", "remove"}, i \in Ino, r \in ReturnPCs :
               [f EXCEPT !.op = o, !.ino = i, !.ret = r] \in Frame
<1> USE DEF Frame
<1>1. \A p \in PCs, r \in ReturnPCs : [f EXCEPT !.pc = p, !.ret = r] \in Frame
  OBVIOUS
<1>2. \A p \in PCs, x \in Nat : [f EXCEPT !.hold = x, !.pc = p] \in Frame
  OBVIOUS
<1>3. \A p \in PCs, x \in Nat : [f EXCEPT !.pc = p, !.new = x] \in Frame
  OBVIOUS
<1>4. \A p \in PCs, r \in ReturnPCs, x \in Nat :
         [f EXCEPT !.old = x, !.pc = p, !.ret = r] \in Frame
  OBVIOUS
<1>5. \A o \in {"none", "boot", "lookup", "upload", "remove"}, i \in Ino, r \in ReturnPCs :
         [f EXCEPT !.op = o, !.ino = i, !.ret = r] \in Frame
  OBVIOUS
<1> QED BY <1>1, <1>2, <1>3, <1>4, <1>5

\* The labels by name; PCs stays folded in the proofs below.
LEMMA Labels ==
  /\ {"idle", "down", "segv", "boot", "mount"} \subseteq PCs
  /\ {"check", "pinned", "confirm", "fetch"} \subseteq PCs
  /\ {"msg", "update", "load", "data", "undata", "inode"} \subseteq PCs
  /\ {"table", "swap", "unpin", "pin", "drop"} \subseteq PCs
  /\ ReturnPCs \subseteq PCs
BY DEF PCs, RefreshPCs, UploadPCs, PublishPCs, ReturnPCs

\* The steps of the control keep frame a function to frames.
LEMMA ControlOK ==
  ASSUME frame \in [Mounts -> Frame], NEW m \in Mounts
  PROVE  /\ \A l \in PCs : Goto(m, l) => frame' \in [Mounts -> Frame]
         /\ Return(m) => frame' \in [Mounts -> Frame]
         /\ Finish(m) => frame' \in [Mounts -> Frame]
         /\ EndUpdate(m) => frame' \in [Mounts -> Frame]
         /\ \A l \in ReturnPCs : CallRefresh(m, l) => frame' \in [Mounts -> Frame]
         /\ \A o \in {"lookup", "upload"}, i \in Ino, l \in ReturnPCs :
               Begin(m, o, i, l) => frame' \in [Mounts -> Frame]
<1>1. frame[m] \in Frame
  OBVIOUS
<1>2. \A f \in Frame : [frame EXCEPT ![m] = f] \in [Mounts -> Frame]
  OBVIOUS
<1>3. \A l \in PCs : Goto(m, l) => frame' \in [Mounts -> Frame]
  BY <1>1 DEF Goto, Frame
<1>4. Return(m) => frame' \in [Mounts -> Frame]
  BY <1>1, <1>3, Labels DEF Return, Frame
<1>5. Finish(m) => frame' \in [Mounts -> Frame]
  BY <1>2, NoFrameOK, Labels DEF Finish
<1>6. EndUpdate(m) => frame' \in [Mounts -> Frame]
  BY <1>3, <1>5, Labels DEF EndUpdate
<1>7. \A l \in ReturnPCs : CallRefresh(m, l) => frame' \in [Mounts -> Frame]
  <2>1. \A l \in ReturnPCs : [frame[m] EXCEPT !.pc = "check", !.ret = l] \in Frame
    BY <1>1, FrameEdits, Labels
  <2> QED BY <1>2, <2>1 DEF CallRefresh
<1>8. \A o \in {"lookup", "upload"}, i \in Ino, l \in ReturnPCs :
         Begin(m, o, i, l) => frame' \in [Mounts -> Frame]
  <2>1. NoFrame("check") \in Frame
    BY NoFrameOK, Labels
  <2> QED BY <1>2, <2>1, FrameEdits DEF Begin
<1> QED BY <1>3, <1>4, <1>5, <1>6, <1>7, <1>8

\* Updates of one entry.
LEMMA Updates ==
  ASSUME TypeOK, NEW m \in Mounts
  PROVE  /\ \A i \in Ino, x \in Nat : [table EXCEPT ![m][i] = x] \in [Mounts -> [Ino -> Nat]]
         /\ \A t \in [Ino -> Nat] : [table EXCEPT ![m] = t] \in [Mounts -> [Ino -> Nat]]
         /\ \A i \in Ino, f \in File : [local EXCEPT ![m][i] = f] \in [Mounts -> [Ino -> File]]
         /\ \A f \in [Ino -> File] : [local EXCEPT ![m] = f] \in [Mounts -> [Ino -> File]]
         /\ \A x \in Nat : [cur EXCEPT ![m] = x] \in [Mounts -> Nat]
         /\ \A i \in 0..MaxIno : [lastIno EXCEPT ![m] = i] \in [Mounts -> 0..MaxIno]
         /\ \A I \in SUBSET Ino : [inodes EXCEPT ![m] = I] \in [Mounts -> SUBSET Ino]
         /\ \A f \in Frame : [frame EXCEPT ![m] = f] \in [Mounts -> Frame]
         /\ table[m] \in [Ino -> Nat]
         /\ \A i \in Ino : table[m][i] \in Nat /\ local[m][i] \in File
         /\ frame[m] \in Frame /\ frame[m].ino \in Ino
         /\ inodes[m] \in SUBSET Ino
<1> USE DEF TypeOK
<1>1. \A i \in Ino, x \in Nat : [table EXCEPT ![m][i] = x] \in [Mounts -> [Ino -> Nat]]
  OBVIOUS
<1>2. \A i \in Ino, f \in File : [local EXCEPT ![m][i] = f] \in [Mounts -> [Ino -> File]]
  OBVIOUS
<1>3. frame[m] \in Frame /\ frame[m].ino \in Ino
  BY DEF Frame
<1> QED BY <1>1, <1>2, <1>3

\* What a file may become.
LEMMA FileEdits ==
  ASSUME NEW f \in File
  PROVE  /\ \A b \in Contents : [f EXCEPT !.bytes = b] \in File
         /\ \A v \in Values : Overwrite(f, v) \in File
         /\ \A b \in Contents, s \in BOOLEAN : [f EXCEPT !.full = s, !.bytes = b] \in File
         /\ \A b \in Contents : [f EXCEPT !.bytes = b, !.dirty = FALSE] \in File
         /\ \A x \in Nat : [f EXCEPT !.data = x, !.dirty = FALSE] \in File
         /\ \A x \in Nat : [f EXCEPT !.version = x] \in File
         /\ [f EXCEPT !.version = 0, !.dirty = FALSE] \in File
<1> USE DEF File
<1>1. \A v \in Values : Overwrite(f, v) \in File
  BY DEF Overwrite, Contents
<1>2. \A b \in Contents, s \in BOOLEAN : [f EXCEPT !.full = s, !.bytes = b] \in File
  OBVIOUS
<1>3. \A x \in Nat : [f EXCEPT !.data = x, !.dirty = FALSE] \in File
  OBVIOUS
<1> QED BY <1>1, <1>2, <1>3

\* The contents and the file of a new inode.
LEMMA BlankOK == Blank \in Contents /\ NoFile \in File
BY DEF Contents, NoFile, File

\* A payload that was sent has the fields of its kind.
LEMMA Fields ==
  ASSUME NEW p \in Payload
  PROVE  /\ p.kind = "table" => p.map \in [Ino -> Nat]
         /\ p.kind = "inode" => p.full \in BOOLEAN /\ p.data \in Nat /\ p.ino \in Ino
         /\ p.kind = "data" => p.bytes \in Contents
BY DEF Payload, TableMsg, InodeMsg, DataMsg

\* An upload of any kind has a type.
LEMMA PayloadsOK ==
  ASSUME TypeOK, NEW m \in Mounts, NEW i \in Ino
  PROVE  /\ [kind |-> "data", bytes |-> local[m][i].bytes] \in Payload
         /\ [kind |-> "inode", ino |-> i, full |-> local[m][i].full,
             data |-> local[m][i].data] \in Payload
         /\ [kind |-> "table", map |-> table[m]] \in Payload
<1>1. local[m][i] \in File /\ table[m] \in [Ino -> Nat]
  BY Updates
<1> QED BY <1>1 DEF Payload, TableMsg, InodeMsg, DataMsg, File

\* The chat after any step.
LEMMA ChatStep ==
  ASSUME TypeOK, [Work]_vars
  PROVE  ChatOK' /\ Aged
<1>0. ChatOK
  BY DEF TypeOK
<1>1. CASE UNCHANGED vars
  BY <1>0, <1>1, IdleChatOK DEF vars, counters
<1>2. ASSUME NEW m \in Mounts, Step(m) \/ Ask(m)
      PROVE  ChatOK' /\ Aged
  <2>0. frame[m].ino \in Ino
    BY Updates
  <2>1. CASE UNCHANGED chatVars
    BY <1>0, <2>1, IdleChatOK
  <2>2. CASE SendData(m) \/ SendInode(m) \/ SendTable(m)
    BY <1>0, <2>0, <2>2, SendOK, PayloadsOK DEF SendData, SendInode, SendsInode, SendTable
  <2>3. CASE RemoveOldData(m) \/ RemovePinned(m) \/ DropOld(m) \/ StartRemove(m)
    BY <1>0, <2>3, DeleteOK DEF RemoveOldData, RemovePinned, DropOld, StartRemove, RemovesEntry
  <2>4. CASE PinTable(m)
    BY <1>0, <2>4, PinOK DEF PinTable
  <2>5. CASE Step(m)
    BY <2>1, <2>2, <2>3, <2>4, <2>5
       DEF Step, Refresh, CheckTable, ReadPinned, TableIsCurrent, StartOver, AdoptTable,
           FetchTable, LookupRoot, MountExisting, MakeRoot, KeepObject, ReloadObject,
           LoadBytes, RememberMsg, SkipData, FindPinned, Segv
  <2>6. CASE Ask(m)
    BY <2>1, <2>3, <2>6
       DEF Ask, Boot, Lookup, Write, Truncate, SetSize, StartUpload, Create, Kill
  <2> QED BY <1>2, <2>5, <2>6
<1> QED BY <1>1, <1>2 DEF Work

\* Which steps change the table of a mount, and how.
LEMMA TableSteps ==
  ASSUME NEW m \in Mounts, Step(m) \/ Ask(m)
  PROVE  \/ UNCHANGED table
         \/ StartOver(m) \/ FetchTable(m) \/ SendInode(m) \/ StartRemove(m)
         \/ Kill(m) \/ Segv(m)
<1>1. CASE Step(m)
  BY <1>1
     DEF Step, Refresh, CheckTable, ReadPinned, TableIsCurrent, AdoptTable, LookupRoot,
         MountExisting, MakeRoot, KeepObject, ReloadObject, LoadBytes, RememberMsg, SkipData,
         SendData, RemoveOldData, SendTable, FindPinned, RemovePinned, PinTable, DropOld,
         mountVars
<1>2. CASE Ask(m)
  BY <1>2 DEF Ask, Boot, Lookup, Write, Truncate, SetSize, StartUpload, Create, mountVars
<1> QED BY <1>1, <1>2

\* messages_ keeps its type: FetchTable downloads a table.
LEMMA TableOK ==
  ASSUME TypeOK, KindOfHeld, [Work]_vars
  PROVE  table' \in [Mounts -> [Ino -> Nat]]
<1>0. table \in [Mounts -> [Ino -> Nat]] /\ EmptyTable \in [Ino -> Nat]
  BY DEF TypeOK, EmptyTable
<1>1. CASE UNCHANGED table
  BY <1>0, <1>1
<1>2. ASSUME NEW m \in Mounts, StartOver(m) \/ Kill(m) \/ Segv(m)
      PROVE  table' \in [Mounts -> [Ino -> Nat]]
  <2>1. table' = [table EXCEPT ![m] = EmptyTable]
    BY <1>2 DEF StartOver, Kill, Segv, Vanish
  <2> QED BY <1>0, <2>1
<1>3. ASSUME NEW m \in Mounts, FetchTable(m)
      PROVE  table' \in [Mounts -> [Ino -> Nat]]
  <2> DEFINE x == frame[m].hold
  <2>1. x \in DOMAIN chat /\ chat[x].kind = "table" /\ chat[x] \in Payload
    BY <1>3 DEF FetchTable, At, KindOfHeld, Held, Is, TypeOK, ChatOK
  <2>2. chat[x].map \in [Ino -> Nat]
    BY <2>1, Fields
  <2>3. table' = [table EXCEPT ![m] = chat[x].map]
    BY <1>3 DEF FetchTable
  <2> QED BY <1>0, <2>2, <2>3
<1>4. ASSUME NEW m \in Mounts, SendInode(m) \/ StartRemove(m)
      PROVE  table' \in [Mounts -> [Ino -> Nat]]
  <2>1. NextId \in Nat /\ frame[m].ino \in Ino /\ inodes[m] \in SUBSET Ino
    BY Updates DEF TypeOK, ChatOK, NextId
  <2>2. \E i \in Ino : \E x \in {0, NextId} : table' = [table EXCEPT ![m][i] = x]
    BY <1>4, <2>1 DEF SendInode, SendsInode, StartRemove, RemovesEntry
  <2> QED BY <2>1, <2>2, Updates
<1>5. CASE UNCHANGED vars
  BY <1>0, <1>5 DEF vars, counters, mountVars
<1>6. CASE Work
  BY <1>1, <1>2, <1>3, <1>4, <1>6, TableSteps DEF Work
<1> QED BY <1>5, <1>6

\* Which steps change the files of a mount.
LEMMA LocalSteps ==
  ASSUME NEW m \in Mounts, Step(m) \/ Ask(m)
  PROVE  \/ UNCHANGED local
         \/ MakeRoot(m) \/ ReloadObject(m) \/ LoadBytes(m) \/ RemoveOldData(m)
         \/ SendInode(m) \/ DropOld(m) \/ Write(m) \/ Truncate(m) \/ SetSize(m)
         \/ Create(m) \/ Kill(m) \/ Segv(m)
<1>1. CASE Step(m)
  BY <1>1
     DEF Step, Refresh, CheckTable, ReadPinned, TableIsCurrent, StartOver, AdoptTable,
         FetchTable, LookupRoot, MountExisting, KeepObject, RememberMsg, SkipData, SendData,
         SendTable, FindPinned, RemovePinned, PinTable, mountVars
<1>2. CASE Ask(m)
  BY <1>2 DEF Ask, Boot, Lookup, StartUpload, StartRemove, RemovesEntry, mountVars
<1> QED BY <1>1, <1>2

\* The objects and their files keep their type.
LEMMA LocalOK ==
  ASSUME TypeOK, KindOfTables, KindOfLocals, [Work]_vars
  PROVE  local' \in [Mounts -> [Ino -> File]]
<1>0. local \in [Mounts -> [Ino -> File]]
  BY DEF TypeOK
<1>1. CASE UNCHANGED local
  BY <1>0, <1>1
<1>2. ASSUME NEW m \in Mounts,
             \/ MakeRoot(m) \/ ReloadObject(m) \/ LoadBytes(m) \/ RemoveOldData(m)
             \/ SendInode(m) \/ DropOld(m) \/ Write(m) \/ Truncate(m) \/ SetSize(m)
             \/ Create(m) \/ Kill(m) \/ Segv(m)
      PROVE  local' \in [Mounts -> [Ino -> File]]
  <2> DEFINE i == frame[m].ino
             f == local[m][i]
             x == table[m][i]
  <2>0. i \in Ino /\ f \in File /\ x \in Nat /\ inodes[m] \in SUBSET Ino /\ frame[m] \in Frame
    BY Updates
  <2>1. CASE MakeRoot(m)
    BY <2>1, Updates, RootIn DEF MakeRoot, NoFile, File, Contents
  <2>2. CASE ReloadObject(m)
    <3>1. x \in DOMAIN chat /\ chat[x].kind = "inode" /\ chat[x] \in Payload
      BY <2>0, <2>2 DEF ReloadObject, KindOfTables, Filed, IsInodeOf, TypeOK, ChatOK
    <3>2. [version |-> x, dirty |-> TRUE, full |-> chat[x].full,
           data |-> chat[x].data, bytes |-> f.bytes] \in File
      BY <2>0, <3>1, Fields DEF File
    <3> QED BY <2>0, <2>2, <3>2, Updates DEF ReloadObject
  <2>3. CASE LoadBytes(m)
    <3>1. [f EXCEPT !.bytes = Blank] \in File
      BY <2>0, FileEdits, BlankOK
    <3>2. f.data \in DOMAIN chat =>
             [f EXCEPT !.bytes = chat[f.data].bytes, !.dirty = FALSE] \in File
      <4> SUFFICES ASSUME f.data \in DOMAIN chat
                   PROVE  chat[f.data].bytes \in Contents
        BY <2>0, FileEdits
      <4>1. chat[f.data].kind = "data" /\ chat[f.data] \in Payload
        BY <2>0 DEF KindOfLocals, Of, Is, TypeOK, ChatOK
      <4> QED BY <4>1, Fields
    <3>3. CASE local' = [local EXCEPT ![m][i].bytes = Blank]
      <4>1. local' = [local EXCEPT ![m][i] = [f EXCEPT !.bytes = Blank]]
        BY <1>0, <2>0, <3>3
      <4> QED BY <2>0, <3>1, <4>1, Updates
    <3>4. CASE /\ f.data \in DOMAIN chat
               /\ local' = [local EXCEPT ![m][i] =
                              [f EXCEPT !.bytes = chat[f.data].bytes, !.dirty = FALSE]]
      BY <2>0, <3>2, <3>4, Updates
    <3>5. CASE UNCHANGED local
      BY <1>0, <3>5
    <3> QED BY <2>3, <3>3, <3>4, <3>5 DEF LoadBytes
  <2>4. CASE RemoveOldData(m)
    <3>1. [f EXCEPT !.data = frame[m].new, !.dirty = FALSE] \in File
      BY <2>0, FileEdits DEF Frame
    <3>2. local' = [local EXCEPT ![m][i] = [f EXCEPT !.data = frame[m].new, !.dirty = FALSE]]
      BY <2>4 DEF RemoveOldData
    <3> QED BY <2>0, <3>1, <3>2, Updates
  <2>5. CASE SendInode(m)
    <3>1. NextId \in Nat
      BY DEF NextId, TypeOK, ChatOK
    <3>2. [f EXCEPT !.version = NextId] \in File
      BY <2>0, <3>1, FileEdits
    <3>3. local' = [local EXCEPT ![m][i] = [f EXCEPT !.version = NextId]]
      <4>1. local' = [local EXCEPT ![m][i].version = NextId]
        BY <2>5 DEF SendInode, SendsInode
      <4> QED BY <1>0, <2>0, <4>1
    <3> QED BY <2>0, <3>2, <3>3, Updates
  <2>6. CASE DropOld(m)
    BY <1>0, <2>0, <2>6, Updates, BlankOK DEF DropOld
  <2>7. CASE Write(m)
    <3>1. PICK j \in Ino, v \in Values :
             local' = [local EXCEPT ![m][j] = Overwrite(local[m][j], v)]
      BY <2>0, <2>7 DEF Write
    <3>2. Overwrite(local[m][j], v) \in File
      BY Updates, FileEdits
    <3> QED BY <3>1, <3>2, Updates
  <2>8. CASE Truncate(m)
    <3>1. PICK j \in Ino :
             local' = [local EXCEPT ![m][j] =
                         [local[m][j] EXCEPT !.full = FALSE, !.bytes = Blank]]
      BY <2>0, <2>8 DEF Truncate
    <3>2. [local[m][j] EXCEPT !.full = FALSE, !.bytes = Blank] \in File
      <4>1. local[m][j] \in File
        BY Updates
      <4> QED BY <4>1, FileEdits, BlankOK
    <3> QED BY <3>1, <3>2, Updates
  <2>9. CASE SetSize(m)
    <3>1. PICK j \in Ino, s \in BOOLEAN, b \in Contents :
             local' = [local EXCEPT ![m][j] = [local[m][j] EXCEPT !.full = s, !.bytes = b]]
      BY <2>0, <2>9, StoreAssumption DEF SetSize
    <3>2. [local[m][j] EXCEPT !.full = s, !.bytes = b] \in File
      <4>1. local[m][j] \in File
        BY Updates
      <4> QED BY <4>1, FileEdits
    <3> QED BY <3>1, <3>2, Updates
  <2>10. CASE Create(m)
    <3>1. PICK full \in BOOLEAN, j \in Ino :
            local' = [local EXCEPT ![m][j] =
                        [version |-> 0, dirty |-> TRUE, full |-> full,
                         data |-> local[m][j].data, bytes |-> Blank]]
      <4>1. NewInos(m) # {} /\ NewInos(m) \in SUBSET (1..MaxIno) /\ MaxIno \in Nat
        BY <2>10, StoreAssumption DEF Create, NewInos, Ino
      <4>2. Min(NewInos(m)) \in Ino
        BY <4>1, MinIn DEF Ino
      <4> QED BY <2>10, <4>2 DEF Create
    <3>2. [version |-> 0, dirty |-> TRUE, full |-> full,
           data |-> local[m][j].data, bytes |-> Blank] \in File
      <4>1. local[m][j] \in File
        BY Updates
      <4> QED BY <4>1, BlankOK DEF File
    <3> QED BY <3>1, <3>2, Updates
  <2>11. CASE Kill(m) \/ Segv(m)
    <3>1. \A j \in Ino : [local[m][j] EXCEPT !.version = 0, !.dirty = FALSE] \in File
      BY Updates, FileEdits
    <3>2. local' = [local EXCEPT ![m] =
                      [j \in Ino |-> [local[m][j] EXCEPT !.version = 0, !.dirty = FALSE]]]
      BY <2>11 DEF Kill, Segv, Vanish
    <3>3. [j \in Ino |-> [local[m][j] EXCEPT !.version = 0, !.dirty = FALSE]] \in [Ino -> File]
      BY <3>1
    <3> QED BY <3>2, <3>3, Updates
  <2> QED BY <1>2, <2>1, <2>2, <2>3, <2>4, <2>5, <2>6, <2>7, <2>8, <2>9, <2>10, <2>11
<1>3. CASE UNCHANGED vars
  BY <1>0, <1>3 DEF vars, counters, mountVars
<1>4. CASE Work
  BY <1>1, <1>2, <1>4, LocalSteps DEF Work
<1> QED BY <1>3, <1>4

\* Which steps change current_table_id_, and to what.
LEMMA CurSteps ==
  ASSUME NEW m \in Mounts, Step(m) \/ Ask(m)
  PROVE  \/ UNCHANGED cur
         \/ (AdoptTable(m) /\ cur' = [cur EXCEPT ![m] = frame[m].hold])
         \/ (PinTable(m) /\ cur' = [cur EXCEPT ![m] = frame[m].new])
         \/ ((Kill(m) \/ Segv(m)) /\ cur' = [cur EXCEPT ![m] = 0])
<1>1. \/ UNCHANGED cur
      \/ AdoptTable(m) \/ PinTable(m) \/ Kill(m) \/ Segv(m)
  BY DEF Step, Ask, Refresh, CheckTable, ReadPinned, TableIsCurrent, StartOver, FetchTable,
         LookupRoot, MountExisting, MakeRoot, KeepObject, ReloadObject, LoadBytes, RememberMsg,
         SkipData, SendData, RemoveOldData, SendInode, SendsInode, SendTable, FindPinned, RemovePinned,
         DropOld, Boot, Lookup, Write, Truncate, SetSize, StartUpload, Create, StartRemove, RemovesEntry,
         mountVars
<1> QED BY <1>1 DEF AdoptTable, PinTable, Kill, Segv, Vanish

\* current_table_id_ keeps its type.
LEMMA CurOK ==
  ASSUME TypeOK, [Work]_vars
  PROVE  cur' \in [Mounts -> Nat]
<1>0. cur \in [Mounts -> Nat]
  BY DEF TypeOK
<1>1. ASSUME NEW m \in Mounts, Step(m) \/ Ask(m)
      PROVE  cur' \in [Mounts -> Nat]
  <2>1. frame[m] \in Frame
    BY Updates
  <2>2. UNCHANGED cur \/ \E x \in {0, frame[m].hold, frame[m].new} : cur' = [cur EXCEPT ![m] = x]
    BY <1>1, CurSteps
  <2> QED BY <1>0, <2>1, <2>2 DEF Frame
<1>2. CASE UNCHANGED vars
  BY <1>0, <1>2 DEF vars, counters, mountVars
<1> QED BY <1>1, <1>2 DEF Work

\* last_ino_ stays within the bound.
LEMMA LastInoOK ==
  ASSUME TypeOK, [Work]_vars
  PROVE  lastIno' \in [Mounts -> 0..MaxIno]
<1>0. lastIno \in [Mounts -> 0..MaxIno] /\ MaxIno \in Nat
  BY StoreAssumption DEF TypeOK
<1>1. ASSUME NEW m \in Mounts, Step(m) \/ Ask(m)
      PROVE  \/ UNCHANGED lastIno
             \/ MountExisting(m) \/ MakeRoot(m) \/ Create(m) \/ Kill(m) \/ Segv(m)
  BY <1>1
     DEF Step, Ask, Refresh, CheckTable, ReadPinned, TableIsCurrent, StartOver, AdoptTable,
         FetchTable, LookupRoot, KeepObject, ReloadObject, LoadBytes, RememberMsg, SkipData,
         SendData, RemoveOldData, SendInode, SendsInode, SendTable, FindPinned, RemovePinned, PinTable,
         DropOld, Boot, Lookup, Write, Truncate, SetSize, StartUpload, StartRemove, RemovesEntry, mountVars
<1>2. ASSUME NEW m \in Mounts,
             MountExisting(m) \/ MakeRoot(m) \/ Create(m) \/ Kill(m) \/ Segv(m)
      PROVE  lastIno' \in [Mounts -> 0..MaxIno]
  <2>1. CASE MountExisting(m)
    <3> DEFINE T == {i \in Ino : table[m][i] # 0}
    <3>1. T # {} /\ T \in SUBSET (1..MaxIno)
      BY <2>1, RootIn DEF MountExisting, Ino
    <3>2. Max(T) \in 1..MaxIno
      <4> HIDE DEF T
      <4> QED BY <1>0, <3>1, MaxIn
    <3>3. lastIno' = [lastIno EXCEPT ![m] = Max(T)]
      BY <2>1 DEF MountExisting
    <3> HIDE DEF T
    <3> QED BY <1>0, <3>2, <3>3
  <2>2. CASE MakeRoot(m)
    BY <1>0, <2>2, RootIn DEF MakeRoot, Ino
  <2>3. CASE Create(m)
    <3>1. NewInos(m) # {} /\ NewInos(m) \in SUBSET (1..MaxIno)
      BY <2>3 DEF Create, NewInos, Ino
    <3>2. Min(NewInos(m)) \in 1..MaxIno
      BY <1>0, <3>1, MinIn
    <3>3. lastIno' = [lastIno EXCEPT ![m] = Min(NewInos(m))]
      BY <2>3 DEF Create
    <3> QED BY <1>0, <3>2, <3>3
  <2>4. CASE Kill(m) \/ Segv(m)
    <3>1. lastIno' = [lastIno EXCEPT ![m] = 0]
      BY <2>4 DEF Kill, Segv, Vanish
    <3> QED BY <1>0, <3>1
  <2> QED BY <1>2, <2>1, <2>2, <2>3, <2>4
<1>3. CASE UNCHANGED vars
  BY <1>0, <1>3 DEF vars, counters, mountVars
<1> QED BY <1>0, <1>1, <1>2, <1>3 DEF Work

\* inodes_ keeps its type.
LEMMA InodesOK ==
  ASSUME TypeOK, [Work]_vars
  PROVE  inodes' \in [Mounts -> SUBSET Ino]
<1>0. inodes \in [Mounts -> SUBSET Ino]
  BY DEF TypeOK
<1>1. ASSUME NEW m \in Mounts, Step(m) \/ Ask(m)
      PROVE  \/ UNCHANGED inodes
             \/ MakeRoot(m) \/ ReloadObject(m) \/ Create(m) \/ StartRemove(m)
             \/ Kill(m) \/ Segv(m)
  BY <1>1
     DEF Step, Ask, Refresh, CheckTable, ReadPinned, TableIsCurrent, StartOver, AdoptTable,
         FetchTable, LookupRoot, MountExisting, KeepObject, LoadBytes, RememberMsg, SkipData,
         SendData, RemoveOldData, SendInode, SendsInode, SendTable, FindPinned, RemovePinned, PinTable,
         DropOld, Boot, Lookup, Write, Truncate, SetSize, StartUpload, mountVars
<1>2. ASSUME NEW m \in Mounts,
             \/ MakeRoot(m) \/ ReloadObject(m) \/ Create(m) \/ StartRemove(m)
             \/ Kill(m) \/ Segv(m)
      PROVE  inodes' \in [Mounts -> SUBSET Ino]
  <2>1. inodes[m] \in SUBSET Ino /\ frame[m].ino \in Ino
    BY Updates
  <2>2. CASE MakeRoot(m) \/ ReloadObject(m)
    <3>1. \E i \in Ino : inodes' = [inodes EXCEPT ![m] = inodes[m] \cup {i}]
      BY <2>1, <2>2, RootIn DEF MakeRoot, ReloadObject
    <3> QED BY <1>0, <2>1, <3>1
  <2>3. CASE Create(m)
    <3>1. /\ NewInos(m) # {} /\ NewInos(m) \in SUBSET (1..MaxIno)
          /\ MaxIno \in Nat /\ Ino = 1..MaxIno
      BY <2>3, StoreAssumption DEF Create, NewInos, Ino
    <3>2. Min(NewInos(m)) \in Ino
      BY <3>1, MinIn
    <3>3. inodes' = [inodes EXCEPT ![m] = inodes[m] \cup {Min(NewInos(m))}]
      BY <2>3 DEF Create
    <3> QED BY <1>0, <2>1, <3>2, <3>3
  <2>4. CASE StartRemove(m)
    <3>1. \E i \in Ino : inodes' = [inodes EXCEPT ![m] = inodes[m] \ {i}]
      BY <2>1, <2>4 DEF StartRemove, RemovesEntry
    <3> QED BY <1>0, <2>1, <3>1
  <2>5. CASE Kill(m) \/ Segv(m)
    <3>1. inodes' = [inodes EXCEPT ![m] = {}]
      BY <2>5 DEF Kill, Segv, Vanish
    <3> QED BY <1>0, <3>1
  <2> QED BY <1>2, <2>2, <2>3, <2>4, <2>5
<1>3. CASE UNCHANGED vars
  BY <1>0, <1>3 DEF vars, counters, mountVars
<1> QED BY <1>0, <1>1, <1>2, <1>3 DEF Work

\* The count of kills keeps its type, and that of failed requests stays.
LEMMA CountersOK ==
  ASSUME TypeOK, [Work]_vars
  PROVE  crashes' \in Nat /\ errors' = errors
<1>0. crashes \in Nat
  BY DEF TypeOK
<1>1. ASSUME NEW m \in Mounts, Step(m) \/ Ask(m)
      PROVE  crashes' \in {crashes, crashes + 1} /\ errors' = errors
  <2> USE DEF counters
  <2>1. CASE Step(m)
    BY <2>1
       DEF Step, Refresh, CheckTable, ReadPinned, TableIsCurrent, StartOver, AdoptTable,
           FetchTable, LookupRoot, MountExisting, MakeRoot, KeepObject, ReloadObject,
           LoadBytes, RememberMsg, SkipData, SendData, RemoveOldData, SendInode, SendsInode, SendTable,
           FindPinned, RemovePinned, PinTable, DropOld, Segv
  <2>2. CASE Ask(m)
    BY <2>2
       DEF Ask, Boot, Lookup, Write, Truncate, SetSize, StartUpload, Create, StartRemove, RemovesEntry, Kill
  <2> QED BY <1>1, <2>1, <2>2
<1>2. CASE UNCHANGED vars
  BY <1>0, <1>2 DEF vars, counters
<1> QED BY <1>0, <1>1, <1>2 DEF Work

\* The frame after a step of m, and that of any other mount.
LEMMA FrameSteps ==
  ASSUME TypeOK, NEW m \in Mounts, Step(m) \/ Ask(m)
  PROVE  /\ frame' \in [Mounts -> Frame]
         /\ \A n \in Mounts \ {m} : frame'[n] = frame[n]
<1> DEFINE G == frame' \in [Mounts -> Frame] /\ \A n \in Mounts \ {m} : frame'[n] = frame[n]
<1>0. frame \in [Mounts -> Frame] /\ frame[m] \in Frame /\ frame[m].ino \in Ino
  BY Updates DEF TypeOK
<1>1. \A f \in Frame : frame' = [frame EXCEPT ![m] = f] => G
  BY <1>0
<1>2. CASE frame' = frame
  BY <1>0, <1>2
<1>3. \A l \in PCs : Goto(m, l) => G
  BY <1>0, ControlOK DEF Goto
<1>4. Return(m) => G
  BY <1>0, <1>3, Labels DEF Return, Frame
<1>5. Finish(m) => G
  BY <1>1, NoFrameOK, Labels DEF Finish
<1>6. EndUpdate(m) => G
  BY <1>3, <1>5, Labels DEF EndUpdate
<1>7. \A l \in ReturnPCs : CallRefresh(m, l) => G
  BY <1>0, ControlOK DEF CallRefresh
<1>8. \A o \in {"lookup", "upload"}, i \in Ino, l \in ReturnPCs : Begin(m, o, i, l) => G
  BY <1>0, ControlOK DEF Begin
<1>9. LastPinned \in Nat /\ NextId \in Nat
  BY LastPinnedIn DEF TypeOK, ChatOK, NextId
<1>10. CASE ReadPinned(m)
  <2>1. [frame[m] EXCEPT !.pc = "confirm", !.hold = LastPinned] \in Frame
    BY <1>0, <1>9, Labels DEF Frame
  <2> QED BY <1>1, <1>10, <2>1 DEF ReadPinned
<1>11. CASE RememberMsg(m)
  <2>1. table[m][frame[m].ino] \in Nat
    BY <1>0, Updates
  <2>2. [frame[m] EXCEPT !.old = table[m][frame[m].ino], !.pc = "check", !.ret = "update"]
            \in Frame
    BY <1>0, <2>1, Labels, FrameEdits DEF ReturnPCs
  <2> QED BY <1>1, <1>11, <2>2 DEF RememberMsg
<1>12. CASE SendData(m) \/ SendTable(m)
  <2>1. \A l \in PCs : [frame[m] EXCEPT !.pc = l, !.new = NextId] \in Frame
    BY <1>0, <1>9, FrameEdits
  <2> QED BY <1>1, <1>12, <2>1, Labels DEF SendData, SendTable
<1>13. CASE FindPinned(m)
  <2>1. \A l \in PCs : [frame[m] EXCEPT !.hold = LastPinned, !.pc = l] \in Frame
    BY <1>0, <1>9, FrameEdits
  <2> QED BY <1>1, <1>13, <2>1, Labels DEF FindPinned
<1>14. CASE Boot(m)
  <2>1. [NoFrame("pinned") EXCEPT !.op = "boot", !.ret = "boot"] \in Frame
    <3>1. \A f \in Frame : [f EXCEPT !.op = "boot", !.ret = "boot"] \in Frame
      BY DEF Frame, ReturnPCs
    <3> QED BY <3>1, NoFrameOK, Labels
  <2> QED BY <1>1, <1>14, <2>1 DEF Boot
<1>15. CASE StartRemove(m)
  <2>1. PICK i \in Ino : frame' = [frame EXCEPT ![m] = [NoFrame("table") EXCEPT
                                      !.op = "remove", !.ino = i, !.old = table[m][i]]]
    BY <1>15, Updates DEF StartRemove, RemovesEntry
  <2>2. table[m][i] \in Nat /\ NoFrame("table") \in Frame
    BY Updates, NoFrameOK, Labels
  <2>3. [NoFrame("table") EXCEPT !.op = "remove", !.ino = i, !.old = table[m][i]] \in Frame
    BY <2>2 DEF Frame
  <2> QED BY <1>1, <2>1, <2>3
<1>16. CASE Create(m)
  <2>1. /\ NewInos(m) # {} /\ NewInos(m) \in SUBSET (1..MaxIno)
        /\ MaxIno \in Nat /\ Ino = 1..MaxIno
    BY <1>16, StoreAssumption DEF Create, NewInos, Ino
  <2>2. Min(NewInos(m)) \in Ino
    BY <2>1, MinIn
  <2> QED BY <1>8, <1>16, <2>2, Labels DEF Create, ReturnPCs
<1>17. CASE Kill(m) \/ Segv(m)
  BY <1>1, <1>17, NoFrameOK, Labels DEF Kill, Segv
<1>18. CASE Step(m)
  BY <1>2, <1>3, <1>4, <1>5, <1>6, <1>7, <1>8, <1>10, <1>11, <1>12, <1>13, <1>17, <1>18,
     Labels, RootIn
     DEF ReturnPCs, Step, Refresh, CheckTable, TableIsCurrent, StartOver, AdoptTable, FetchTable,
         LookupRoot, MountExisting, MakeRoot, KeepObject, ReloadObject, LoadBytes, SkipData,
         RemoveOldData, SendInode, SendsInode, RemovePinned, PinTable, DropOld
<1>19. CASE Ask(m)
  BY <1>2, <1>8, <1>14, <1>15, <1>16, <1>17, <1>19, Updates, Labels
     DEF ReturnPCs, Ask, Lookup, Write, Truncate, SetSize, StartUpload
<1> QED BY <1>18, <1>19

\* Every variable keeps its type in a step.
LEMMA TypeStep ==
  ASSUME TypeOK, Kinds, [Work]_vars
  PROVE  TypeOK'
<1>1. frame' \in [Mounts -> Frame]
  <2>1. CASE UNCHANGED vars
    BY <2>1 DEF TypeOK, vars
  <2> QED BY <2>1, FrameSteps DEF Work
<1> QED BY <1>1, ChatStep, TableOK, CurOK, LastInoOK, InodesOK, LocalOK, CountersOK
        DEF TypeOK, Kinds

-----------------------------------------------------------------------------
(* Kinds.                                                                  *)

\* What was known of an id stays true of it; 0 is the id of nothing.
LEMMA Aging ==
  ASSUME ChatOK, ChatOK', Aged
  PROVE  /\ \A x \in Nat, i \in Ino : Filed(x, i) => Filed(x, i)'
         /\ \A x \in Nat : \A k : Of(x, k) => Of(x, k)'
         /\ \A f \in Frame : Held(f) => Held(f)'
         /\ \A i \in Ino : Filed(0, i)'
         /\ \A k : Of(0, k)'
<1>1. \A x \in Nat, i \in Ino : Filed(x, i) => Filed(x, i)'
  BY DEF ChatOK, Aged, Filed, IsInodeOf
<1>2. \A x \in Nat : \A k : Of(x, k) => Of(x, k)'
  BY DEF ChatOK, Aged, Of, Is
<1>3. \A f \in Frame : Held(f) => Held(f)'
  <2> SUFFICES ASSUME NEW f \in Frame, Held(f) PROVE Held(f)'
    OBVIOUS
  <2>1. f.old \in Nat /\ f.hold \in Nat /\ f.new \in Nat /\ f.ino \in Ino
    BY DEF Frame
  <2>2. Filed(f.old, f.ino)'
    BY <1>1, <2>1 DEF Held
  <2>3. f.hold <= lastId' /\ f.new <= lastId'
    BY <2>1 DEF Held, Aged, ChatOK
  <2>4. \A k : Is(f.hold, k) => Is(f.hold, k)'
    BY <2>1 DEF Held, Aged, Is
  <2>5. \A k : Is(f.new, k) => Is(f.new, k)'
    BY <2>1 DEF Held, Aged, Is
  <2> HIDE DEF Is, Filed
  <2> QED BY <2>2, <2>3, <2>4, <2>5, Zenon DEF Held
<1>4. \A i \in Ino : Filed(0, i)'
  BY DEF ChatOK, Filed, IsInodeOf
<1>5. \A k : Of(0, k)'
  BY DEF ChatOK, Of, Is
<1> QED BY <1>1, <1>2, <1>3, <1>4, <1>5

\* Entries of messages_ are downloaded with a table, sent as an inode, or 0.
LEMMA KindOfTablesStep ==
  ASSUME TypeOK, Kinds, [Work]_vars
  PROVE  KindOfTables'
<1>0. /\ ChatOK /\ ChatOK' /\ Aged
      /\ table \in [Mounts -> [Ino -> Nat]] /\ frame \in [Mounts -> Frame]
  BY ChatStep DEF TypeOK
<1>1. SUFFICES ASSUME NEW n \in Mounts, NEW i \in Ino
               PROVE  Filed(table[n][i], i)'
  BY DEF KindOfTables
<1>2. CASE table'[n][i] = table[n][i]
  <2>1. Filed(table[n][i], i) /\ table[n][i] \in Nat
    BY <1>0 DEF Kinds, KindOfTables
  <2>2. \A x \in Nat : Filed(x, i) => Filed(x, i)'
    BY <1>0, Aging
  <2> QED BY <1>2, <2>1, <2>2 DEF Filed, IsInodeOf
<1>3. CASE table'[n][i] = 0
  BY <1>0, <1>3, Aging DEF Filed, IsInodeOf
<1>4. ASSUME NEW m \in Mounts, FetchTable(m), table'[n][i] # table[n][i]
      PROVE  Filed(table[n][i], i)'
  <2> DEFINE x == frame[m].hold
  <2>1. x \in DOMAIN chat /\ chat[x].kind = "table" /\ chat[x] \in Payload
    BY <1>4 DEF FetchTable, At, Kinds, KindOfHeld, Held, Is, TypeOK, ChatOK
  <2>2. table'[n][i] = chat[x].map[i]
    BY <1>0, <1>4 DEF FetchTable
  <2>3. chat[x].map[i] \in Nat
    BY <2>1, Fields
  <2>4. Filed(chat[x].map[i], i)
    BY <2>1 DEF Kinds, KindOfMessages, Refers
  <2>5. \A y \in Nat : Filed(y, i) => Filed(y, i)'
    BY <1>0, Aging
  <2> QED BY <2>2, <2>3, <2>4, <2>5 DEF Filed, IsInodeOf
<1>5. ASSUME NEW m \in Mounts, SendInode(m), table'[n][i] # table[n][i]
      PROVE  Filed(table[n][i], i)'
  <2> DEFINE j == frame[m].ino
             p == [kind |-> "inode", ino |-> j, full |-> local[m][j].full,
                   data |-> local[m][j].data]
  <2>0. j \in Ino
    BY Updates
  <2>1. n = m /\ i = j /\ table'[n][i] = NextId
    BY <1>0, <1>5, <2>0 DEF SendInode, SendsInode
  <2>2. p \in Payload /\ Send(p)
    BY <1>5, <2>0, PayloadsOK DEF SendInode, SendsInode
  <2>3. chat'[NextId] = p /\ lastId' = NextId /\ NextId \in Nat
    BY <1>0, <2>2, SendOK DEF ChatOK, NextId
  <2> QED BY <2>1, <2>3 DEF Filed, IsInodeOf
<1>6. ASSUME NEW m \in Mounts,
             StartOver(m) \/ StartRemove(m) \/ Kill(m) \/ Segv(m), table'[n][i] # table[n][i]
      PROVE  Filed(table[n][i], i)'
  <2>1. table'[n][i] = 0
    <3>1. CASE StartOver(m) \/ Kill(m) \/ Segv(m)
      <4>1. table' = [table EXCEPT ![m] = EmptyTable]
        BY <3>1 DEF StartOver, Kill, Segv, Vanish
      <4> QED BY <1>0, <1>6, <4>1 DEF EmptyTable
    <3>2. CASE StartRemove(m)
      <4>1. PICK j \in Ino : table' = [table EXCEPT ![m][j] = 0]
        BY <3>2, Updates DEF StartRemove, RemovesEntry
      <4> QED BY <1>0, <1>6, <4>1
    <3> QED BY <1>6, <3>1, <3>2
  <2> QED BY <1>3, <2>1
<1>7. CASE UNCHANGED vars
  BY <1>2, <1>7 DEF vars, counters, mountVars
<1>8. CASE Work
  BY <1>2, <1>4, <1>5, <1>6, <1>8, TableSteps DEF Work
<1> QED BY <1>7, <1>8

\* data_msg_ is downloaded with an inode, sent as data, or 0.
LEMMA KindOfLocalsStep ==
  ASSUME TypeOK, Kinds, [Work]_vars
  PROVE  KindOfLocals'
<1>0. /\ ChatOK /\ ChatOK' /\ Aged
      /\ local \in [Mounts -> [Ino -> File]]
  BY ChatStep DEF TypeOK
<1>1. SUFFICES ASSUME NEW n \in Mounts, NEW i \in Ino
               PROVE  Of(local[n][i].data, "data")'
  BY DEF KindOfLocals
<1>2. \A x \in Nat : Of(x, "data") /\ local'[n][i].data = x => Of(local[n][i].data, "data")'
  BY <1>0, Aging DEF Of, Is
<1>3. CASE local'[n][i].data = local[n][i].data
  <2>1. Of(local[n][i].data, "data") /\ local[n][i].data \in Nat
    BY <1>0 DEF Kinds, KindOfLocals, File
  <2> QED BY <1>2, <1>3, <2>1
<1>4. CASE local'[n][i].data = 0
  BY <1>0, <1>4, Aging DEF Of, Is
<1>5. ASSUME NEW m \in Mounts, ReloadObject(m), local'[n][i].data # local[n][i].data
      PROVE  Of(local[n][i].data, "data")'
  <2> DEFINE j == frame[m].ino
             x == table[m][j]
  <2>0. j \in Ino
    BY Updates
  <2>1. x \in DOMAIN chat /\ chat[x].kind = "inode" /\ chat[x] \in Payload
    BY <1>5, <2>0 DEF ReloadObject, Kinds, KindOfTables, Filed, IsInodeOf, TypeOK, ChatOK
  <2>2. local'[n][i].data = chat[x].data
    BY <1>0, <1>5, <2>0 DEF ReloadObject
  <2>3. chat[x].data \in Nat
    BY <2>1, Fields
  <2>4. Of(chat[x].data, "data")
    BY <2>1 DEF Kinds, KindOfMessages, Refers
  <2> QED BY <1>2, <2>2, <2>3, <2>4
<1>6. ASSUME NEW m \in Mounts, RemoveOldData(m), local'[n][i].data # local[n][i].data
      PROVE  Of(local[n][i].data, "data")'
  <2>0. frame[m].ino \in Ino /\ frame[m].new \in Nat
    BY Updates DEF Frame
  <2>1. local'[n][i].data = frame[m].new
    BY <1>0, <1>6, <2>0 DEF RemoveOldData
  <2>2. Of(frame[m].new, "data")
    BY <1>6 DEF RemoveOldData, At, Kinds, KindOfHeld, Held, Of
  <2> QED BY <1>2, <2>0, <2>1, <2>2
<1>7. ASSUME NEW m \in Mounts,
             \/ MakeRoot(m) \/ LoadBytes(m) \/ SendInode(m) \/ DropOld(m) \/ Write(m)
             \/ Truncate(m) \/ SetSize(m) \/ Create(m) \/ Kill(m) \/ Segv(m)
      PROVE  local'[n][i].data \in {local[n][i].data, 0}
  <2>0. frame[m].ino \in Ino /\ inodes[m] \in SUBSET Ino
    BY Updates
  <2>1. ASSUME NEW j \in Ino, NEW f, f.data \in {local[m][j].data, 0},
               local' = [local EXCEPT ![m][j] = f]
        PROVE  local'[n][i].data \in {local[n][i].data, 0}
    BY <1>0, <2>1
  <2>2. CASE UNCHANGED local
    BY <2>2
  <2>3. CASE MakeRoot(m) \/ DropOld(m)
    <3>1. NoFile.data = 0 /\ [NoFile EXCEPT !.dirty = TRUE, !.full = TRUE].data = 0
      BY DEF NoFile
    <3>2. \/ UNCHANGED local
          \/ \E j \in Ino : \/ local' = [local EXCEPT ![m][j] = NoFile]
                           \/ local' = [local EXCEPT ![m][j] =
                                          [NoFile EXCEPT !.dirty = TRUE, !.full = TRUE]]
      BY <2>0, <2>3, RootIn DEF MakeRoot, DropOld
    <3>3. CASE \E j \in Ino : local' = [local EXCEPT ![m][j] = NoFile]
      BY <2>1, <3>1, <3>3
    <3>4. CASE \E j \in Ino : local' = [local EXCEPT ![m][j] =
                                          [NoFile EXCEPT !.dirty = TRUE, !.full = TRUE]]
      <4> DEFINE f == [NoFile EXCEPT !.dirty = TRUE, !.full = TRUE]
      <4>1. f.data = 0 /\ \E j \in Ino : local' = [local EXCEPT ![m][j] = f]
        BY <3>1, <3>4
      <4> HIDE DEF f
      <4> QED BY <2>1, <4>1
    <3> QED BY <2>2, <3>2, <3>3, <3>4
  <2>4. CASE LoadBytes(m) \/ SendInode(m)
    <3> DEFINE j == frame[m].ino
               f == local[m][j]
    <3>1. f \in File
      BY <1>0, <2>0
    <3>2. CASE UNCHANGED local
      BY <2>2, <3>2
    <3>3. CASE \E b \in {Blank} : local' = [local EXCEPT ![m][j].bytes = b]
      BY <1>0, <2>0, <3>1, <3>3 DEF File
    <3>4. CASE \E x : local' = [local EXCEPT ![m][j].version = x]
      BY <1>0, <2>0, <3>1, <3>4 DEF File
    <3>5. CASE \E b : local' = [local EXCEPT ![m][j] = [f EXCEPT !.bytes = b, !.dirty = FALSE]]
      <4>1. \A b : [f EXCEPT !.bytes = b, !.dirty = FALSE].data = f.data
        BY <3>1 DEF File
      <4> QED BY <2>0, <2>1, <3>5, <4>1
    <3> QED BY <2>4, <3>2, <3>3, <3>4, <3>5 DEF LoadBytes, SendInode, SendsInode
  <2>5. CASE Write(m)
    <3>1. PICK j \in Ino, v \in Values :
             local' = [local EXCEPT ![m][j] = Overwrite(local[m][j], v)]
      BY <2>0, <2>5 DEF Write
    <3>2. Overwrite(local[m][j], v).data = local[m][j].data
      BY <1>0 DEF Overwrite, File
    <3> QED BY <2>1, <3>1, <3>2
  <2>6. CASE Truncate(m) \/ SetSize(m)
    <3>1. PICK j \in Ino, s \in BOOLEAN, b \in Contents :
             local' = [local EXCEPT ![m][j] = [local[m][j] EXCEPT !.full = s, !.bytes = b]]
      BY <2>0, <2>6, StoreAssumption, BlankOK DEF Truncate, SetSize
    <3>2. [local[m][j] EXCEPT !.full = s, !.bytes = b].data = local[m][j].data
      BY <1>0 DEF File
    <3> QED BY <2>1, <3>1, <3>2
  <2>7. CASE Create(m)
    <3> DEFINE j == Min(NewInos(m))
    <3>1. /\ NewInos(m) # {} /\ NewInos(m) \in SUBSET (1..MaxIno)
          /\ MaxIno \in Nat /\ Ino = 1..MaxIno
      BY <2>7, StoreAssumption DEF Create, NewInos, Ino
    <3>2. j \in Ino
      BY <3>1, MinIn
    <3>3. \E full \in BOOLEAN :
             local' = [local EXCEPT ![m][j] =
                         [version |-> 0, dirty |-> TRUE, full |-> full,
                          data |-> local[m][j].data, bytes |-> Blank]]
      BY <2>7 DEF Create
    <3> HIDE DEF j
    <3> QED BY <2>1, <3>2, <3>3
  <2>8. CASE Kill(m) \/ Segv(m)
    <3>1. local' = [local EXCEPT ![m] =
                      [j \in Ino |-> [local[m][j] EXCEPT !.version = 0, !.dirty = FALSE]]]
      BY <2>8 DEF Kill, Segv, Vanish
    <3>2. \A j \in Ino :
             [local[m][j] EXCEPT !.version = 0, !.dirty = FALSE].data = local[m][j].data
      BY <1>0 DEF File
    <3>3. CASE n = m
      <4>1. local'[n][i] = [local[m][i] EXCEPT !.version = 0, !.dirty = FALSE]
        BY <1>0, <3>1, <3>3
      <4> QED BY <3>2, <3>3, <4>1
    <3>4. CASE n # m
      BY <1>0, <3>1, <3>4
    <3> QED BY <3>3, <3>4
  <2> QED BY <1>7, <2>3, <2>4, <2>5, <2>6, <2>7, <2>8
<1>8. CASE UNCHANGED vars
  BY <1>3, <1>8 DEF vars, counters, mountVars
<1>9. CASE Work
  BY <1>3, <1>4, <1>5, <1>6, <1>7, <1>9, LocalSteps DEF Work
<1> QED BY <1>8, <1>9

\* The messages after a step are old ones or refer to old ones.
LEMMA MessageSteps ==
  ASSUME TypeOK, Kinds, [Work]_vars, NEW x \in DOMAIN chat'
  PROVE  \/ x \in DOMAIN chat /\ chat'[x] = chat[x]
         \/ chat'[x] \in Payload /\ Refers(chat'[x])
<1>0. ChatOK
  BY DEF TypeOK
<1>1. CASE UNCHANGED chat
  BY <1>1
<1>2. ASSUME NEW p \in Payload, Send(p), Refers(p)
      PROVE  \/ x \in DOMAIN chat /\ chat'[x] = chat[x]
             \/ chat'[x] \in Payload /\ Refers(chat'[x])
  BY <1>2 DEF Send
<1>3. ASSUME NEW y, Delete(y)
      PROVE  x \in DOMAIN chat /\ chat'[x] = chat[x]
  BY <1>0, <1>3, DeleteOK
<1>4. ASSUME NEW m \in Mounts, Step(m) \/ Ask(m)
      PROVE  \/ x \in DOMAIN chat /\ chat'[x] = chat[x]
             \/ chat'[x] \in Payload /\ Refers(chat'[x])
  <2>0. frame[m].ino \in Ino
    BY Updates
  <2>1. CASE SendData(m)
    <3> DEFINE p == [kind |-> "data", bytes |-> local[m][frame[m].ino].bytes]
    <3>1. p \in Payload /\ Send(p)
      BY <2>0, <2>1, PayloadsOK DEF SendData
    <3>2. Refers(p)
      BY DEF Refers
    <3> HIDE DEF p
    <3> QED BY <1>2, <3>1, <3>2
  <2>2. CASE SendInode(m)
    <3> DEFINE i == frame[m].ino
               p == [kind |-> "inode", ino |-> i, full |-> local[m][i].full,
                     data |-> local[m][i].data]
    <3>1. p \in Payload /\ Send(p)
      BY <2>0, <2>2, PayloadsOK DEF SendInode, SendsInode
    <3>2. Refers(p)
      BY <2>0 DEF Refers, Kinds, KindOfLocals
    <3> HIDE DEF p
    <3> QED BY <1>2, <3>1, <3>2
  <2>3. CASE SendTable(m)
    <3> DEFINE p == [kind |-> "table", map |-> table[m]]
    <3>1. p \in Payload /\ Send(p)
      BY <2>0, <2>3, PayloadsOK DEF SendTable
    <3>2. Refers(p)
      BY DEF Refers, Kinds, KindOfTables
    <3> HIDE DEF p
    <3> QED BY <1>2, <3>1, <3>2
  <2>4. CASE RemoveOldData(m) \/ RemovePinned(m) \/ DropOld(m) \/ StartRemove(m)
    BY <1>3, <2>4 DEF RemoveOldData, RemovePinned, DropOld, StartRemove, RemovesEntry
  <2>5. CASE Step(m)
    BY <1>1, <2>1, <2>2, <2>3, <2>4, <2>5
       DEF Step, Refresh, CheckTable, ReadPinned, TableIsCurrent, StartOver, AdoptTable,
           FetchTable, LookupRoot, MountExisting, MakeRoot, KeepObject, ReloadObject,
           LoadBytes, RememberMsg, SkipData, FindPinned, PinTable, Pin, Segv, chatVars
  <2>6. CASE Ask(m)
    BY <1>1, <2>4, <2>6
       DEF Ask, Boot, Lookup, Write, Truncate, SetSize, StartUpload, Create, Kill, chatVars
  <2> QED BY <1>4, <2>5, <2>6
<1>5. CASE UNCHANGED vars
  BY <1>1, <1>5 DEF vars, counters, chatVars
<1> QED BY <1>4, <1>5 DEF Work

\* What is sent refers to what tables and objects refer to.
LEMMA KindOfMessagesStep ==
  ASSUME TypeOK, Kinds, [Work]_vars
  PROVE  KindOfMessages'
<1>0. ChatOK /\ ChatOK' /\ Aged
  BY ChatStep DEF TypeOK
<1>1. SUFFICES ASSUME NEW x \in DOMAIN chat'
               PROVE  Refers(chat[x])'
  BY DEF KindOfMessages
<1>2. PICK p \in Payload : p = chat'[x] /\ Refers(p)
  BY <1>0, MessageSteps DEF Kinds, KindOfMessages, ChatOK
<1>3. p.kind = "table" => \A i \in Ino : Filed(p.map[i], i)'
  <2> SUFFICES ASSUME p.kind = "table", NEW i \in Ino
               PROVE  Filed(p.map[i], i)'
    OBVIOUS
  <2>1. p.map[i] \in Nat /\ Filed(p.map[i], i)
    BY <1>2, Fields DEF Refers
  <2> QED BY <1>0, <2>1, Aging
<1>4. p.kind = "inode" => Of(p.data, "data")'
  <2> SUFFICES ASSUME p.kind = "inode"
               PROVE  Of(p.data, "data")'
    OBVIOUS
  <2>1. p.data \in Nat /\ Of(p.data, "data")
    BY <1>2, Fields DEF Refers
  <2> QED BY <1>0, <2>1, Aging
<1> QED BY <1>2, <1>3, <1>4 DEF Refers, Filed, IsInodeOf, Of, Is

\* Only PinTable pins, and it pins what was sent as a table.
LEMMA PinSteps ==
  ASSUME NEW m \in Mounts, Step(m) \/ Ask(m), NEW t \in pins'
  PROVE  t \in pins \/ (PinTable(m) /\ t = frame[m].new /\ t \in DOMAIN chat)
<1>1. CASE Step(m)
  BY <1>1
     DEF Step, Refresh, CheckTable, ReadPinned, TableIsCurrent, StartOver, AdoptTable,
         FetchTable, LookupRoot, MountExisting, MakeRoot, KeepObject, ReloadObject, LoadBytes,
         RememberMsg, SkipData, SendData, RemoveOldData, SendInode, SendsInode, SendTable, FindPinned,
         RemovePinned, PinTable, Pin, DropOld, Segv, Send, Delete, chatVars
<1>2. CASE Ask(m)
  BY <1>2
     DEF Ask, Boot, Lookup, Write, Truncate, SetSize, StartUpload, Create, StartRemove, RemovesEntry, Kill,
         Delete, chatVars
<1> QED BY <1>1, <1>2

\* A pin is a table.
LEMMA KindOfPinsStep ==
  ASSUME TypeOK, Kinds, [Work]_vars
  PROVE  KindOfPins'
<1>0. ChatOK /\ ChatOK' /\ Aged
  BY ChatStep DEF TypeOK
<1>1. SUFFICES ASSUME NEW t \in pins' PROVE chat'[t].kind = "table"
  BY DEF KindOfPins
<1>2. t \in DOMAIN chat' /\ t \in Nat
  BY <1>0 DEF ChatOK
<1>3. CASE t \in pins
  <2>1. t \in DOMAIN chat /\ t <= lastId /\ chat[t].kind = "table"
    BY <1>0, <1>3 DEF ChatOK, Kinds, KindOfPins
  <2> QED BY <1>0, <1>2, <2>1 DEF Aged
<1>4. ASSUME NEW m \in Mounts, PinTable(m), t = frame[m].new, t \in DOMAIN chat
      PROVE  chat'[t].kind = "table"
  BY <1>4 DEF PinTable, Pin, At, Kinds, KindOfHeld, Held, Is
<1>5. CASE UNCHANGED vars
  BY <1>3, <1>5 DEF vars, counters, chatVars
<1> QED BY <1>3, <1>4, <1>5, PinSteps DEF Work

\* Labels at which nothing is asked of the ids in the frame.
Plain == PCs \ {"confirm", "fetch", "unpin", "undata", "swap", "pin"}

\* The plain labels by name.
LEMMA PlainLabels ==
  /\ {"idle", "down", "segv", "boot", "mount", "check", "pinned", "msg", "update"} \subseteq Plain
  /\ {"load", "data", "inode", "table", "drop"} \subseteq Plain
  /\ ReturnPCs \subseteq Plain
BY DEF Plain, PCs, RefreshPCs, UploadPCs, PublishPCs, ReturnPCs

\* Moves of the control to such a label, with the ids kept or all 0.
LEMMA PlainMoves ==
  ASSUME TypeOK, NEW m \in Mounts,
         \/ \E l \in Plain : Goto(m, l)
         \/ Return(m) \/ Finish(m) \/ EndUpdate(m)
         \/ \E l \in ReturnPCs : CallRefresh(m, l)
         \/ \E o \in {"lookup", "upload"}, i \in Ino, l \in ReturnPCs : Begin(m, o, i, l)
  PROVE  /\ frame'[m].pc \in Plain
         /\ \/ /\ frame'[m].old = frame[m].old /\ frame'[m].ino = frame[m].ino
               /\ frame'[m].hold = frame[m].hold /\ frame'[m].new = frame[m].new
            \/ frame'[m].old = 0 /\ frame'[m].hold = 0 /\ frame'[m].new = 0
<1> DEFINE G == /\ frame'[m].pc \in Plain
                /\ \/ /\ frame'[m].old = frame[m].old /\ frame'[m].ino = frame[m].ino
                      /\ frame'[m].hold = frame[m].hold /\ frame'[m].new = frame[m].new
                   \/ frame'[m].old = 0 /\ frame'[m].hold = 0 /\ frame'[m].new = 0
<1>0. frame \in [Mounts -> Frame] /\ frame[m] \in Frame
  BY DEF TypeOK
<1>1. \A l \in Plain : Goto(m, l) => G
  BY <1>0 DEF Goto, Frame
<1>2. Return(m) => G
  BY <1>0, <1>1, PlainLabels DEF Return, Frame
<1>3. Finish(m) => G
  BY <1>0, PlainLabels DEF Finish, NoFrame
<1>4. EndUpdate(m) => G
  BY <1>1, <1>3, PlainLabels DEF EndUpdate
<1>5. \A l \in ReturnPCs : CallRefresh(m, l) => G
  <2>1. \A l \in ReturnPCs : CallRefresh(m, l) =>
           frame'[m] = [frame[m] EXCEPT !.pc = "check", !.ret = l]
    BY <1>0 DEF CallRefresh
  <2> QED BY <1>0, <2>1, PlainLabels DEF Frame
<1>6. \A o \in {"lookup", "upload"}, i \in Ino, l \in ReturnPCs : Begin(m, o, i, l) => G
  <2> TAKE o \in {"lookup", "upload"}, i \in Ino, l \in ReturnPCs
  <2> HAVE Begin(m, o, i, l)
  <2>1. frame'[m] = [NoFrame("check") EXCEPT !.op = o, !.ino = i, !.ret = l]
    BY <1>0 DEF Begin
  <2>2. /\ frame'[m].pc = "check"
        /\ frame'[m].old = 0 /\ frame'[m].hold = 0 /\ frame'[m].new = 0
    BY <2>1 DEF NoFrame
  <2> QED BY <2>2, PlainLabels
<1> QED BY <1>1, <1>2, <1>3, <1>4, <1>5, <1>6

\* The steps that move so.
PlainStep(m) ==
    \/ CheckTable(m) \/ TableIsCurrent(m) \/ StartOver(m) \/ FetchTable(m)
    \/ LookupRoot(m) \/ MountExisting(m) \/ MakeRoot(m) \/ KeepObject(m) \/ ReloadObject(m)
    \/ LoadBytes(m) \/ SkipData(m) \/ RemoveOldData(m) \/ SendInode(m) \/ PinTable(m)
    \/ DropOld(m) \/ Segv(m)
    \/ Boot(m) \/ Lookup(m) \/ SetSize(m) \/ StartUpload(m) \/ Create(m) \/ Kill(m)

\* They end at a plain label, with the ids kept or all 0.
LEMMA PlainSteps ==
  ASSUME TypeOK, NEW m \in Mounts, PlainStep(m)
  PROVE  /\ frame'[m].pc \in Plain
         /\ \/ /\ frame'[m].old = frame[m].old /\ frame'[m].ino = frame[m].ino
               /\ frame'[m].hold = frame[m].hold /\ frame'[m].new = frame[m].new
            \/ frame'[m].old = 0 /\ frame'[m].hold = 0 /\ frame'[m].new = 0
<1>0. frame \in [Mounts -> Frame]
  BY DEF TypeOK
<1>1. CASE Boot(m)
  <2>1. frame'[m] = [NoFrame("pinned") EXCEPT !.op = "boot", !.ret = "boot"]
    BY <1>0, <1>1 DEF Boot
  <2> QED BY <2>1, PlainLabels DEF NoFrame
<1>2. CASE Kill(m) \/ Segv(m)
  <2>1. frame'[m] = NoFrame("down") \/ frame'[m] = NoFrame("segv")
    BY <1>0, <1>2 DEF Kill, Segv
  <2> QED BY <2>1, PlainLabels DEF NoFrame
<1>3. CASE Create(m)
  <2>1. /\ NewInos(m) # {} /\ NewInos(m) \in SUBSET (1..MaxIno)
        /\ MaxIno \in Nat /\ Ino = 1..MaxIno
    BY <1>3, StoreAssumption DEF Create, NewInos, Ino
  <2>2. Min(NewInos(m)) \in Ino
    BY <2>1, MinIn
  <2>3. \E i \in Ino : Begin(m, "upload", i, "msg")
    BY <1>3, <2>2 DEF Create
  <2> QED BY <2>3, PlainMoves DEF ReturnPCs
<1>4. CASE \/ \E l \in Plain : Goto(m, l)
           \/ Return(m) \/ Finish(m) \/ EndUpdate(m)
           \/ \E l \in ReturnPCs : CallRefresh(m, l)
           \/ \E o \in {"lookup", "upload"}, i \in Ino, l \in ReturnPCs : Begin(m, o, i, l)
  BY <1>4, PlainMoves
<1>5. \/ Boot(m) \/ Kill(m) \/ Segv(m) \/ Create(m)
      \/ \E l \in Plain : Goto(m, l)
      \/ Return(m) \/ Finish(m) \/ EndUpdate(m)
      \/ \E l \in ReturnPCs : CallRefresh(m, l)
      \/ \E o \in {"lookup", "upload"}, i \in Ino, l \in ReturnPCs : Begin(m, o, i, l)
  BY PlainLabels, RootIn, Updates
     DEF ReturnPCs, PlainStep, CheckTable, TableIsCurrent, StartOver, FetchTable, LookupRoot,
         MountExisting, MakeRoot, KeepObject, ReloadObject, LoadBytes, SkipData, RemoveOldData,
         SendInode, SendsInode, PinTable, DropOld, Lookup, SetSize, StartUpload
<1> QED BY <1>1, <1>2, <1>3, <1>4, <1>5

\* Every other step is local or is one of these.
LEMMA Moves ==
  ASSUME NEW m \in Mounts, Step(m) \/ Ask(m)
  PROVE  \/ UNCHANGED <<chatVars, table, cur, frame>>
         \/ PlainStep(m)
         \/ ReadPinned(m) \/ AdoptTable(m) \/ RememberMsg(m) \/ SendData(m) \/ SendTable(m)
         \/ FindPinned(m) \/ RemovePinned(m) \/ StartRemove(m)
<1>1. CASE Step(m)
  BY <1>1 DEF Step, Refresh, PlainStep
<1>2. CASE Ask(m)
  BY <1>2 DEF Ask, PlainStep, Write, Truncate
<1> QED BY <1>1, <1>2

\* What stays true of a frame whose ids are kept, and what is left to show.
LEMMA HeldEdits ==
  ASSUME TypeOK, Kinds, [Work]_vars,
         NEW f \in Frame, Held(f), NEW g \in Frame, g.ino = f.ino
  PROVE  /\ g.old = f.old => Filed(g.old, g.ino)'
         /\ g.hold = f.hold => g.hold <= lastId'
         /\ g.new = f.new => g.new <= lastId'
         /\ \A k : Of(f.hold, k) /\ g.hold = f.hold => Is(g.hold, k)'
         /\ \A k : Of(f.new, k) /\ g.new = f.new => Is(g.new, k)'
<1>0. ChatOK /\ ChatOK' /\ Aged
  BY ChatStep DEF TypeOK
<1>1. f.old \in Nat /\ f.hold \in Nat /\ f.new \in Nat /\ f.ino \in Ino
  BY DEF Frame
<1>2. Filed(f.old, f.ino)'
  BY <1>0, <1>1, Aging DEF Held
<1>3. f.hold <= lastId' /\ f.new <= lastId'
  BY <1>0, <1>1 DEF Held, Aged, ChatOK
<1>4. \A k : /\ Of(f.hold, k) => Of(f.hold, k)'
             /\ Of(f.new, k) => Of(f.new, k)'
  BY <1>0, <1>1, Aging
<1>5. g.old = f.old => Filed(g.old, g.ino)'
  BY <1>2 DEF Filed, IsInodeOf
<1>6. \A k : Of(f.hold, k) /\ g.hold = f.hold => Is(g.hold, k)'
  BY <1>4 DEF Of, Is
<1>7. \A k : Of(f.new, k) /\ g.new = f.new => Is(g.new, k)'
  BY <1>4 DEF Of, Is
<1> QED BY <1>3, <1>5, <1>6, <1>7

\* The local variables of operations: one case per step that sets an id.
LEMMA KindOfHeldStep ==
  ASSUME TypeOK, Kinds, [Work]_vars
  PROVE  KindOfHeld'
<1>0. /\ ChatOK /\ ChatOK' /\ Aged
      /\ frame \in [Mounts -> Frame]
  BY ChatStep DEF TypeOK
<1>1. \A n \in Mounts : frame'[n] = frame[n] => Held(frame[n])'
  <2> SUFFICES ASSUME NEW n \in Mounts, frame'[n] = frame[n] PROVE Held(frame[n])'
    OBVIOUS
  <2>1. PICK f \in Frame : f = frame[n] /\ Held(f)
    BY <1>0 DEF Kinds, KindOfHeld
  <2>2. Held(f)'
    BY <1>0, <2>1, Aging
  <2> QED BY <2>1, <2>2 DEF Held, Filed, IsInodeOf, Is
<1>2. ASSUME NEW m \in Mounts, Step(m) \/ Ask(m)
      PROVE  Held(frame[m])'
  <2>1. PICK f \in Frame : f = frame[m] /\ Held(f)
    BY <1>0 DEF Kinds, KindOfHeld
  <2>2. frame' \in [Mounts -> Frame]
    BY <1>2, FrameSteps
  <2>3. PICK g \in Frame : g = frame'[m]
    BY <2>2
  <2>4. SUFFICES Held(g)'
    BY <2>3 DEF Held, Filed, IsInodeOf, Is
  <2>5. /\ f.ino \in Ino /\ f.old \in Nat /\ f.hold \in Nat /\ f.new \in Nat
        /\ g.ino \in Ino
    BY DEF Frame
  <2>6. \/ Held(g)'
        \/ ReadPinned(m) \/ AdoptTable(m) \/ RememberMsg(m) \/ SendData(m) \/ SendTable(m)
        \/ FindPinned(m) \/ RemovePinned(m) \/ StartRemove(m)
    <3>1. CASE UNCHANGED frame
      BY <1>1, <2>1, <2>3, <3>1 DEF Held, Filed, IsInodeOf, Is
    <3>2. CASE PlainStep(m)
      <4>1. /\ g.pc \in Plain
            /\ \/ g.old = f.old /\ g.ino = f.ino /\ g.hold = f.hold /\ g.new = f.new
               \/ g.old = 0 /\ g.hold = 0 /\ g.new = 0
        BY <2>1, <2>3, <3>2, PlainSteps
      <4>2. Filed(g.old, g.ino)' /\ g.hold <= lastId' /\ g.new <= lastId'
        <5>1. CASE g.old = f.old /\ g.ino = f.ino /\ g.hold = f.hold /\ g.new = f.new
          BY <2>1, <5>1, HeldEdits
        <5>2. CASE g.old = 0 /\ g.hold = 0 /\ g.new = 0
          <6>1. Filed(0, g.ino)'
            BY <1>0, <2>5, Aging
          <6> QED BY <1>0, <5>2, <6>1 DEF ChatOK, Filed, IsInodeOf
        <5> QED BY <4>1, <5>1, <5>2
      <4> QED BY <4>1, <4>2 DEF Held, Plain
    <3> QED BY <1>2, <3>1, <3>2, Moves
  <2>7. CASE ReadPinned(m)
    <3>1. g = [f EXCEPT !.pc = "confirm", !.hold = LastPinned]
      BY <1>0, <2>1, <2>3, <2>7 DEF ReadPinned
    <3>2. /\ g.pc = "confirm" /\ g.hold = LastPinned
          /\ g.ino = f.ino /\ g.old = f.old /\ g.new = f.new
      BY <3>1 DEF Frame
    <3>3. LastPinned <= lastId /\ Is(LastPinned, "table")
      BY <1>0, LastPinnedIn DEF Kinds, KindOfPins, ChatOK, Is
    <3>4. chat' = chat /\ lastId' = lastId
      BY <2>7 DEF ReadPinned, chatVars
    <3>5. g.hold <= lastId' /\ Is(g.hold, "table")'
      BY <3>2, <3>3, <3>4 DEF Is
    <3> QED BY <2>1, <3>2, <3>5, HeldEdits DEF Held
  <2>8. CASE AdoptTable(m) \/ RemovePinned(m)
    <3>1. \/ f.pc = "confirm" /\ g = [f EXCEPT !.pc = "fetch"]
          \/ f.pc = "unpin" /\ g = [f EXCEPT !.pc = "pin"]
      BY <1>0, <2>1, <2>3, <2>8 DEF AdoptTable, RemovePinned, Goto, At
    <3>2. /\ \/ f.pc = "confirm" /\ g.pc = "fetch"
             \/ f.pc = "unpin" /\ g.pc = "pin"
          /\ g.ino = f.ino /\ g.old = f.old /\ g.hold = f.hold /\ g.new = f.new
      BY <3>1 DEF Frame
    <3>3. Of(f.hold, "table") /\ (f.pc = "unpin" => Of(f.new, "table"))
      BY <2>1, <3>2 DEF Held, Of
    <3> QED BY <2>1, <3>2, <3>3, HeldEdits DEF Held
  <2>9. CASE RememberMsg(m)
    <3>1. g = [f EXCEPT !.old = table[m][f.ino], !.pc = "check", !.ret = "update"]
      BY <1>0, <2>1, <2>3, <2>9 DEF RememberMsg
    <3>2. /\ g.pc = "check" /\ g.old = table[m][f.ino]
          /\ g.ino = f.ino /\ g.hold = f.hold /\ g.new = f.new
      BY <3>1 DEF Frame
    <3>3. Filed(g.old, g.ino) /\ g.old \in Nat
      BY <2>5, <3>2, Updates DEF Kinds, KindOfTables
    <3>4. Filed(g.old, g.ino)'
      BY <1>0, <2>5, <3>3, Aging
    <3> QED BY <2>1, <3>2, <3>4, HeldEdits DEF Held
  <2>10. CASE SendData(m) \/ SendTable(m)
    <3>1. \/ SendData(m) /\ g = [f EXCEPT !.pc = "undata", !.new = NextId]
          \/ SendTable(m) /\ g = [f EXCEPT !.pc = "swap", !.new = NextId]
      BY <1>0, <2>1, <2>3, <2>10 DEF SendData, SendTable
    <3>2. /\ \/ SendData(m) /\ g.pc = "undata"
             \/ SendTable(m) /\ g.pc = "swap"
          /\ g.new = NextId
          /\ g.ino = f.ino /\ g.old = f.old /\ g.hold = f.hold
      BY <3>1 DEF Frame
    <3>3. PICK p \in Payload : /\ Send(p)
                              /\ p.kind = IF g.pc = "undata" THEN "data" ELSE "table"
      <4>1. CASE SendData(m) /\ g.pc = "undata"
        BY <2>1, <2>5, <4>1, PayloadsOK DEF SendData
      <4>2. CASE SendTable(m) /\ g.pc = "swap"
        BY <2>1, <2>5, <4>2, PayloadsOK DEF SendTable
      <4> QED BY <3>2, <4>1, <4>2
    <3>4. NextId = lastId' /\ chat'[NextId] = p
      BY <1>0, <3>3, SendOK
    <3>5. g.new <= lastId' /\ Is(g.new, p.kind)'
      BY <1>0, <3>2, <3>4 DEF Is, ChatOK
    <3> QED BY <2>1, <3>2, <3>3, <3>5, HeldEdits DEF Held
  <2>11. CASE FindPinned(m)
    <3>1. g = [f EXCEPT !.hold = LastPinned,
                        !.pc = IF LastPinned = 0 THEN "pin" ELSE "unpin"]
      BY <1>0, <2>1, <2>3, <2>11 DEF FindPinned
    <3>2. /\ g.pc \in {"pin", "unpin"} /\ g.hold = LastPinned
          /\ g.ino = f.ino /\ g.old = f.old /\ g.new = f.new
      BY <3>1 DEF Frame
    <3>3. LastPinned <= lastId /\ Is(LastPinned, "table")
      BY <1>0, LastPinnedIn DEF Kinds, KindOfPins, ChatOK, Is
    <3>4. chat' = chat /\ lastId' = lastId
      BY <2>11 DEF FindPinned, chatVars
    <3>5. g.hold <= lastId' /\ Is(g.hold, "table")'
      BY <3>2, <3>3, <3>4 DEF Is
    <3>6. Of(f.new, "table")
      BY <2>1, <2>11 DEF Held, Of, FindPinned, At
    <3> QED BY <2>1, <3>2, <3>5, <3>6, HeldEdits DEF Held
  <2>12. CASE StartRemove(m)
    <3>0. inodes[m] \subseteq Ino
      BY Updates
    <3>1. PICK i \in Ino : g = [NoFrame("table") EXCEPT
                                  !.op = "remove", !.ino = i, !.old = table[m][i]]
      <4>1. PICK i \in inodes[m] : frame' = [frame EXCEPT ![m] = [NoFrame("table") EXCEPT
                                  !.op = "remove", !.ino = i, !.old = table[m][i]]]
        BY <2>12 DEF StartRemove, RemovesEntry
      <4> QED BY <1>0, <2>3, <3>0, <4>1
    <3>2. g.pc = "table" /\ g.ino = i /\ g.old = table[m][i] /\ g.hold = 0 /\ g.new = 0
      BY <3>1 DEF NoFrame
    <3>3. Filed(g.old, g.ino) /\ g.old \in Nat
      BY <3>2, Updates DEF Kinds, KindOfTables
    <3>4. Filed(g.old, g.ino)'
      BY <1>0, <2>5, <3>3, Aging
    <3> QED BY <1>0, <3>2, <3>4 DEF Held, ChatOK
  <2> QED BY <2>6, <2>7, <2>8, <2>9, <2>10, <2>11, <2>12
<1>3. CASE UNCHANGED vars
  BY <1>1, <1>3 DEF vars, counters, KindOfHeld
<1>4. CASE Work
  BY <1>1, <1>2, <1>4, FrameSteps DEF Work, KindOfHeld
<1> QED BY <1>3, <1>4

\* Kinds is inductive relative to TypeOK.
LEMMA KindsStep ==
  ASSUME TypeOK, Kinds, [Work]_vars
  PROVE  Kinds'
BY KindOfTablesStep, KindOfLocalsStep, KindOfMessagesStep, KindOfPinsStep, KindOfHeldStep
   DEF Kinds

-----------------------------------------------------------------------------
(* Requests that fail.                                                     *)

\* Before the first failed request every step is one of Work.
LEMMA NotFailedYet ==
  ASSUME TypeOK, [Next]_vars, errors' = 0
  PROVE  errors = 0 /\ [Work]_vars
<1>0. errors \in Nat
  BY DEF TypeOK
<1>1. ASSUME NEW m \in Mounts, Fails(m)
      PROVE  FALSE
  <2>1. CountError
    BY <1>1 DEF Fails, CheckTableFails, ReadPinnedFails, ConfirmFails, FindPinnedFails,
           RemoveOldDataFails, RemovePinnedFails, DropOldFails, StartRemoveFails,
           PinTableFails, GetMessageFails
  <2> QED BY <1>0, <2>1 DEF CountError
<1>2. [Work]_vars
  BY <1>1 DEF Next
<1> QED BY <1>2, CountersOK

\* A failed request adds no message and takes none away.
LEMMA FailsChat ==
  ASSUME TypeOK, NEW m \in Mounts, Fails(m)
  PROVE  /\ UNCHANGED chatVars /\ lastIno' \in {lastIno, [lastIno EXCEPT ![m] = 0]}
         /\ errors' = errors + 1 /\ crashes' = crashes
BY DEF Fails, CheckTableFails, ReadPinnedFails, ConfirmFails, FindPinnedFails,
       RemoveOldDataFails, RemovePinnedFails, DropOldFails, StartRemoveFails, PinTableFails,
       GetMessageFails, CountError, Vanish, KeepsOld, mountVars

\* The variables of the mount after a failed request.
LEMMA FailsMount ==
  ASSUME TypeOK, Kinds, NEW m \in Mounts, Fails(m)
  PROVE  /\ cur' \in [Mounts -> Nat]
         /\ inodes' \in [Mounts -> SUBSET Ino]
         /\ table' \in [Mounts -> [Ino -> Nat]] /\ KindOfTables'
         /\ local' \in [Mounts -> [Ino -> File]] /\ KindOfLocals'
<1>0. /\ table \in [Mounts -> [Ino -> Nat]] /\ local \in [Mounts -> [Ino -> File]]
      /\ cur \in [Mounts -> Nat] /\ inodes \in [Mounts -> SUBSET Ino]
      /\ frame[m] \in Frame /\ frame[m].ino \in Ino
      /\ EmptyTable \in [Ino -> Nat] /\ lastId \in Nat
  BY Updates DEF TypeOK, EmptyTable, ChatOK
<1>1. chat' = chat /\ lastId' = lastId
  BY FailsChat DEF chatVars
<1>2. cur' \in {cur, [cur EXCEPT ![m] = frame[m].new], [cur EXCEPT ![m] = frame[m].hold],
                [cur EXCEPT ![m] = 0]}
  BY DEF Fails, CheckTableFails, ReadPinnedFails, ConfirmFails, FindPinnedFails,
         RemoveOldDataFails, RemovePinnedFails, DropOldFails, StartRemoveFails, PinTableFails,
         GetMessageFails, Vanish, KeepsOld, mountVars
<1>3. cur' \in [Mounts -> Nat]
  BY <1>0, <1>2 DEF Frame
<1>4. \/ inodes' = inodes \/ inodes' = [inodes EXCEPT ![m] = {}]
      \/ \E i \in Ino : inodes' = [inodes EXCEPT ![m] = @ \ {i}]
  BY <1>0 DEF Fails, CheckTableFails, ReadPinnedFails, ConfirmFails, FindPinnedFails,
         RemoveOldDataFails, RemovePinnedFails, DropOldFails, StartRemoveFails, RemovesEntry,
         PinTableFails, GetMessageFails, Vanish, KeepsOld, mountVars
<1>5. inodes' \in [Mounts -> SUBSET Ino]
  BY <1>0, <1>4
<1>6. \/ table' = table \/ table' = [table EXCEPT ![m] = EmptyTable]
      \/ \E i \in Ino : table' = [table EXCEPT ![m][i] = 0]
  BY <1>0 DEF Fails, CheckTableFails, ReadPinnedFails, ConfirmFails, FindPinnedFails,
         RemoveOldDataFails, RemovePinnedFails, DropOldFails, StartRemoveFails, RemovesEntry,
         PinTableFails, GetMessageFails, Vanish, KeepsOld, mountVars
<1>7. table' \in [Mounts -> [Ino -> Nat]]
  <2>1. CASE table' = table
    BY <1>0, <2>1
  <2>2. CASE table' = [table EXCEPT ![m] = EmptyTable]
    BY <1>0, <2>2, Updates
  <2>3. ASSUME NEW i \in Ino, table' = [table EXCEPT ![m][i] = 0]
        PROVE  table' \in [Mounts -> [Ino -> Nat]]
    BY <2>3, Updates
  <2> QED BY <1>6, <2>1, <2>2, <2>3
<1>8. \A n \in Mounts, j \in Ino : table'[n][j] \in {table[n][j], 0}
  BY <1>0, <1>6 DEF EmptyTable
<1>9. \A j \in Ino : Filed(0, j)
  BY <1>0 DEF Filed, IsInodeOf, TypeOK, ChatOK
<1>10. KindOfTables'
  <2> SUFFICES ASSUME NEW n \in Mounts, NEW j \in Ino PROVE Filed(table'[n][j], j)
    BY <1>1 DEF KindOfTables, Filed, IsInodeOf
  <2> QED BY <1>8, <1>9 DEF Kinds, KindOfTables
<1> DEFINE Dead == [i \in Ino |-> [local[m][i] EXCEPT !.version = 0, !.dirty = FALSE]]
           Fresh == [local[m][frame[m].ino] EXCEPT !.data = frame[m].new, !.dirty = FALSE]
<1>11. \/ local' = local
       \/ local' = [local EXCEPT ![m] = Dead]
       \/ local' = [local EXCEPT ![m][frame[m].ino] = NoFile]
       \/ /\ frame[m].pc = "undata"
          /\ local' = [local EXCEPT ![m][frame[m].ino] = Fresh]
  BY <1>0 DEF Fails, CheckTableFails, ReadPinnedFails, ConfirmFails, FindPinnedFails,
         RemoveOldDataFails, RemovePinnedFails, DropOldFails, StartRemoveFails,
         PinTableFails, GetMessageFails, Vanish, KeepsOld, mountVars, At
<1>12. \A i \in Ino : local[m][i] \in File
  BY <1>0
<1>13. Dead \in [Ino -> File] /\ \A i \in Ino : Dead[i].data = local[m][i].data
  <2>1. \A f \in File : /\ [f EXCEPT !.version = 0, !.dirty = FALSE] \in File
                        /\ [f EXCEPT !.version = 0, !.dirty = FALSE].data = f.data
    BY DEF File
  <2> QED BY <1>12, <2>1
<1>14. Fresh \in File /\ Fresh.data = frame[m].new
  <2>1. frame[m].new \in Nat
    BY <1>0 DEF Frame
  <2> QED BY <1>0, <1>12, <2>1 DEF File
<1> HIDE DEF Dead, Fresh
<1>15. local' \in [Mounts -> [Ino -> File]]
  <2>1. CASE local' = local
    BY <1>0, <2>1
  <2>2. CASE local' = [local EXCEPT ![m] = Dead]
    BY <1>13, <2>2, Updates
  <2>3. CASE local' = [local EXCEPT ![m][frame[m].ino] = NoFile]
    BY <1>0, <2>3, BlankOK, Updates
  <2>4. CASE local' = [local EXCEPT ![m][frame[m].ino] = Fresh]
    BY <1>0, <1>14, <2>4, Updates
  <2> QED BY <1>11, <2>1, <2>2, <2>3, <2>4
<1>16. \A n \in Mounts, j \in Ino :
         \/ local'[n][j].data \in {local[n][j].data, 0}
         \/ frame[m].pc = "undata" /\ local'[n][j].data = frame[m].new
  <2> SUFFICES ASSUME NEW n \in Mounts, NEW j \in Ino
               PROVE  \/ local'[n][j].data \in {local[n][j].data, 0}
                      \/ frame[m].pc = "undata" /\ local'[n][j].data = frame[m].new
    OBVIOUS
  <2>1. NoFile.data = 0
    BY DEF NoFile
  <2>2. CASE local' = [local EXCEPT ![m] = Dead]
    BY <1>0, <1>13, <2>2
  <2>3. CASE local' = [local EXCEPT ![m][frame[m].ino] = NoFile]
    BY <1>0, <2>1, <2>3
  <2>4. CASE frame[m].pc = "undata" /\ local' = [local EXCEPT ![m][frame[m].ino] = Fresh]
    BY <1>0, <1>14, <2>4
  <2> QED BY <1>11, <2>2, <2>3, <2>4
<1>17. KindOfLocals'
  <2> SUFFICES ASSUME NEW n \in Mounts, NEW j \in Ino PROVE Of(local'[n][j].data, "data")
    BY <1>1 DEF KindOfLocals, Of, Is
  <2>1. Of(0, "data")
    BY <1>0 DEF Of, Is, TypeOK, ChatOK
  <2>2. frame[m].pc = "undata" => Of(frame[m].new, "data")
    BY DEF Kinds, KindOfHeld, Held, Of
  <2> QED BY <1>16, <2>1, <2>2 DEF Kinds, KindOfLocals
<1> QED BY <1>3, <1>5, <1>7, <1>10, <1>15, <1>17

\* The frame after a failed request.
LEMMA FailsFrame ==
  ASSUME TypeOK, Kinds, NEW m \in Mounts, Fails(m)
  PROVE  frame' \in [Mounts -> Frame] /\ KindOfHeld'
<1>0. /\ frame \in [Mounts -> Frame] /\ frame[m] \in Frame /\ frame[m].ino \in Ino
      /\ lastId \in Nat
  BY Updates DEF TypeOK, ChatOK
<1>1. chat' = chat /\ lastId' = lastId
  BY FailsChat DEF chatVars
<1>2. \A f : Held(f) <=> Held(f)'
  BY <1>1 DEF Held, Filed, IsInodeOf, Is
<1>3. \A n \in Mounts : Held(frame[n])
  BY DEF Kinds, KindOfHeld
<1>4. ASSUME NEW g \in Frame, Held(g), frame' = [frame EXCEPT ![m] = g]
      PROVE  frame' \in [Mounts -> Frame] /\ KindOfHeld'
  <2>1. frame' \in [Mounts -> Frame] /\ \A n \in Mounts : Held(frame'[n])
    BY <1>0, <1>3, <1>4
  <2> QED BY <1>1, <2>1 DEF KindOfHeld, Held, Filed, IsInodeOf, Is
<1>5. ASSUME NEW l \in PCs, l \notin {"confirm", "undata", "swap", "unpin"},
             l = "fetch" => frame[m].pc = "confirm", l = "pin" => frame[m].pc = "unpin",
             Goto(m, l)
      PROVE  frame' \in [Mounts -> Frame] /\ KindOfHeld'
  <2>1. [frame[m] EXCEPT !.pc = l] \in Frame
    BY <1>0 DEF Frame
  <2>2. Held([frame[m] EXCEPT !.pc = l])
    BY <1>0, <1>3, <1>5 DEF Held, Frame
  <2> QED BY <1>4, <1>5, <2>1, <2>2 DEF Goto
<1>6. \A l \in PCs : NoFrame(l) \in Frame /\ Held(NoFrame(l))
  BY <1>0, NoFrameOK DEF NoFrame, Held, Filed, IsInodeOf, Is, TypeOK, ChatOK
<1>7. CASE CheckTableFails(m) \/ RemoveOldDataFails(m) \/ RemovePinnedFails(m) \/ PinTableFails(m)
  BY <1>5, <1>7, Labels
     DEF CheckTableFails, RemoveOldDataFails, RemovePinnedFails, PinTableFails, At
<1>8. CASE ReadPinnedFails(m)
  <2>1. [frame[m] EXCEPT !.pc = "confirm", !.hold = 0] \in Frame
    BY <1>0, Labels DEF Frame
  <2>2. Held([frame[m] EXCEPT !.pc = "confirm", !.hold = 0])
    BY <1>0, <1>3 DEF Held, Frame, Is, TypeOK, ChatOK
  <2> QED BY <1>4, <1>8, <2>1, <2>2 DEF ReadPinnedFails
<1>9. CASE ConfirmFails(m)
  <2>1. CASE Goto(m, "fetch")
    BY <1>5, <1>9, <2>1, Labels DEF ConfirmFails, At
  <2>2. CASE Return(m)
    <3>1. frame[m].ret \in ReturnPCs
      BY <1>0 DEF Frame
    <3>2. frame[m].ret \in PCs
      BY <3>1, Labels
    <3> QED BY <1>5, <2>2, <3>1, <3>2 DEF Return, ReturnPCs
  <2> QED BY <1>9, <2>1, <2>2 DEF ConfirmFails
<1>10. CASE FindPinnedFails(m)
  <2>1. [frame[m] EXCEPT !.hold = 0, !.pc = "pin"] \in Frame
    BY <1>0, Labels DEF Frame
  <2>2. Held([frame[m] EXCEPT !.hold = 0, !.pc = "pin"])
    BY <1>0, <1>3, <1>10 DEF FindPinnedFails, At, Held, Frame
  <2> QED BY <1>4, <1>10, <2>1, <2>2 DEF FindPinnedFails
<1>11. CASE DropOldFails(m) \/ GetMessageFails(m)
  <2>1. \E l \in PCs : frame' = [frame EXCEPT ![m] = NoFrame(l)]
    BY <1>11, Labels DEF DropOldFails, KeepsOld, Finish, GetMessageFails
  <2> QED BY <1>4, <1>6, <2>1
<1>12. CASE StartRemoveFails(m)
  <2>1. PICK i \in Ino : frame' = [frame EXCEPT ![m] = [NoFrame("table") EXCEPT
                                      !.op = "remove", !.ino = i, !.old = table[m][i]]]
    BY <1>12, Updates DEF StartRemoveFails, RemovesEntry
  <2> DEFINE g == [NoFrame("table") EXCEPT !.op = "remove", !.ino = i, !.old = table[m][i]]
  <2>2. table[m][i] \in Nat /\ NoFrame("table") \in Frame /\ Filed(table[m][i], i)
    BY Updates, NoFrameOK, Labels DEF Kinds, KindOfTables
  <2>3. g \in Frame
    BY <2>2 DEF Frame
  <2>4. g.pc = "table" /\ g.ino = i /\ g.old = table[m][i] /\ g.hold = 0 /\ g.new = 0
    BY DEF NoFrame
  <2>5. Held(g)
    BY <1>0, <2>2, <2>4 DEF Held
  <2> QED BY <1>4, <2>1, <2>3, <2>5
<1> QED BY <1>7, <1>8, <1>9, <1>10, <1>11, <1>12 DEF Fails

\* Types and kinds survive a failed request.
LEMMA FailsOK ==
  ASSUME TypeOK, Kinds, NEW m \in Mounts, Fails(m)
  PROVE  TypeOK' /\ Kinds'
<1>1. chat' = chat /\ pins' = pins /\ lastId' = lastId
  BY FailsChat DEF chatVars
<1>2. ChatOK'
  BY <1>1 DEF TypeOK, ChatOK
<1>3. lastIno' \in [Mounts -> 0..MaxIno] /\ crashes' \in Nat /\ errors' \in Nat
  BY FailsChat, StoreAssumption DEF TypeOK
<1>4. KindOfMessages' /\ KindOfPins'
  BY <1>1 DEF Kinds, KindOfMessages, KindOfPins, Refers, Filed, IsInodeOf, Of, Is
<1> QED BY <1>2, <1>3, <1>4, FailsMount, FailsFrame DEF TypeOK, Kinds

-----------------------------------------------------------------------------
(* Theorems on types.                                                      *)

\* In the beginning there is no message and every id is 0.
LEMMA InitOK ==
  ASSUME Init
  PROVE  TypeOK /\ Kinds /\ Pinned
<1>1. ChatOK
  BY DEF Init, EmptyChat, ChatOK
<1>2. TypeOK
  <2>1. NoFrame("down") \in Frame
    BY NoFrameOK, Labels
  <2>2. 0 \in 0..MaxIno /\ [i \in Ino |-> NoFile] \in [Ino -> File]
    BY StoreAssumption, BlankOK
  <2> QED BY <1>1, <2>1, <2>2 DEF Init, TypeOK, EmptyTable
<1>3. \A x, i, k : Filed(0, i) /\ Of(0, k)
  BY DEF Init, EmptyChat, Filed, IsInodeOf, Of, Is
<1>4. KindOfTables /\ KindOfMessages /\ KindOfPins
  BY <1>3 DEF Init, EmptyChat, EmptyTable, KindOfTables, KindOfMessages, KindOfPins
<1>5. KindOfLocals
  <2>1. NoFile.data = 0
    BY DEF NoFile
  <2> QED BY <1>3, <2>1 DEF Init, KindOfLocals
<1>6. KindOfHeld
  <2>1. \A m \in Mounts : /\ frame[m].pc = "down"
                          /\ frame[m].old = 0 /\ frame[m].hold = 0 /\ frame[m].new = 0
    BY DEF Init, NoFrame
  <2> QED BY <1>3, <2>1 DEF KindOfHeld, Held, Of
<1>7. Pinned
  <2>1. \A m \in Mounts : frame[m].pc = "down"
    BY DEF Init, NoFrame
  <2> QED BY <2>1
      DEF Init, EmptyChat, Pinned, CurIsPinned, HeldIsPinned, CurIsTable, Replacing
<1> QED BY <1>2, <1>4, <1>5, <1>6, <1>7 DEF Kinds

\* The part of Inv that types need.
LEMMA KindsInvariant == Spec => [](TypeOK /\ Kinds)
<1>1. Init => TypeOK /\ Kinds
  BY InitOK
<1>2. TypeOK /\ Kinds /\ [Next]_vars => TypeOK' /\ Kinds'
  BY TypeStep, KindsStep, FailsOK DEF Next
<1> QED BY <1>1, <1>2, PTL DEF Spec

\* Type correctness, for any number of mounts, inodes, crashes and failed
\* requests: a downloaded table is a table because nothing else is ever pinned.
THEOREM TypeCorrect == Spec => []TypeOK
<1>1. TypeOK /\ Kinds => TypeOK
  OBVIOUS
<1> QED BY <1>1, KindsInvariant, PTL

\* No message is taken for another: lookup_inode, update_data and download_table
\* always download the kind of file they parse, or nothing.
THEOREM RightKindAlways == Spec => []RightKind
<1>1. TypeOK /\ Kinds => RightKind
  BY DEF Kinds, KindOfTables, KindOfMessages, KindOfPins, Refers, Filed, Of, Is,
         RightKind, NamesInodes
<1> QED BY <1>1, KindsInvariant, PTL

-----------------------------------------------------------------------------
(* What current_table_id_ stands for.                                      *)

\* A message that is pinned stays pinned while it exists.
LEMMA PinsStay ==
  ASSUME TypeOK, [Work]_vars
  PROVE  \A x \in DOMAIN chat' : x \in pins => x \in pins'
<1>0. ChatOK
  BY DEF TypeOK
<1>1. CASE UNCHANGED pins
  BY <1>1
<1>2. ASSUME NEW y, Delete(y)
      PROVE  \A x \in DOMAIN chat' : x \in pins => x \in pins'
  BY <1>0, <1>2, DeleteOK
<1>3. ASSUME NEW y, Pin(y)
      PROVE  \A x \in DOMAIN chat' : x \in pins => x \in pins'
  BY <1>3 DEF Pin
<1>4. ASSUME NEW m \in Mounts, Step(m) \/ Ask(m)
      PROVE  \A x \in DOMAIN chat' : x \in pins => x \in pins'
  <2>1. CASE RemoveOldData(m) \/ RemovePinned(m) \/ DropOld(m) \/ StartRemove(m)
    BY <1>2, <2>1 DEF RemoveOldData, RemovePinned, DropOld, StartRemove, RemovesEntry
  <2>2. CASE PinTable(m)
    BY <1>3, <2>2 DEF PinTable
  <2>3. CASE Step(m)
    BY <1>1, <2>1, <2>2, <2>3
       DEF Step, Refresh, CheckTable, ReadPinned, TableIsCurrent, StartOver, AdoptTable,
           FetchTable, LookupRoot, MountExisting, MakeRoot, KeepObject, ReloadObject,
           LoadBytes, RememberMsg, SkipData, SendData, SendInode, SendsInode, SendTable, FindPinned,
           Segv, Send, chatVars
  <2>4. CASE Ask(m)
    BY <1>1, <2>1, <2>4
       DEF Ask, Boot, Lookup, Write, Truncate, SetSize, StartUpload, Create, Kill, chatVars
  <2> QED BY <1>4, <2>3, <2>4
<1>5. CASE UNCHANGED vars
  BY <1>1, <1>5 DEF vars, counters, chatVars
<1> QED BY <1>4, <1>5 DEF Work

\* A step of one mount leaves the others as they are.
LEMMA OthersStay ==
  ASSUME TypeOK, NEW m \in Mounts, Step(m) \/ Ask(m), NEW n \in Mounts \ {m}
  PROVE  cur'[n] = cur[n] /\ table'[n] = table[n] /\ frame'[n] = frame[n]
<1>0. /\ cur \in [Mounts -> Nat] /\ table \in [Mounts -> [Ino -> Nat]]
  BY DEF TypeOK
<1>1. cur'[n] = cur[n]
  BY <1>0, CurSteps
<1>2. table'[n] = table[n]
  <2>1. CASE UNCHANGED table
    BY <2>1
  <2>2. CASE StartOver(m) \/ FetchTable(m) \/ Kill(m) \/ Segv(m)
    <3>1. \E t : table' = [table EXCEPT ![m] = t]
      BY <2>2 DEF StartOver, FetchTable, Kill, Segv, Vanish
    <3> QED BY <1>0, <3>1
  <2>3. CASE SendInode(m) \/ StartRemove(m)
    <3>1. \E i, x : table' = [table EXCEPT ![m][i] = x]
      BY <2>3 DEF SendInode, SendsInode, StartRemove, RemovesEntry
    <3> QED BY <1>0, <3>1
  <2> QED BY <2>1, <2>2, <2>3, TableSteps
<1> QED BY <1>1, <1>2, FrameSteps

\* A table that a mount adopted is pinned as long as it exists.
LEMMA CurIsPinnedStep ==
  ASSUME TypeOK, Kinds, Pinned, [Work]_vars
  PROVE  CurIsPinned'
<1>0. /\ ChatOK /\ ChatOK' /\ Aged
      /\ cur \in [Mounts -> Nat] /\ frame \in [Mounts -> Frame]
  BY ChatStep DEF TypeOK
<1>1. \A x \in Nat : x <= lastId /\ (x \in DOMAIN chat => x \in pins) /\ x \in DOMAIN chat'
                       => x \in pins'
  BY <1>0, PinsStay DEF Aged
<1>2. \A n \in Mounts : cur'[n] = cur[n] /\ cur'[n] \in DOMAIN chat' => cur'[n] \in pins'
  BY <1>0, <1>1 DEF Pinned, CurIsPinned, CurIsTable
<1>3. ASSUME NEW m \in Mounts, Step(m) \/ Ask(m), cur'[m] \in DOMAIN chat'
      PROVE  cur'[m] \in pins'
  <2>1. CASE UNCHANGED cur
    BY <1>2, <1>3, <2>1
  <2>2. CASE AdoptTable(m) /\ cur' = [cur EXCEPT ![m] = frame[m].hold]
    <3>1. cur'[m] = frame[m].hold /\ frame[m].hold \in Nat /\ frame[m].hold <= lastId
      BY <1>0, <2>2 DEF Kinds, KindOfHeld, Held, Frame
    <3>2. frame[m].hold \in DOMAIN chat => frame[m].hold \in pins
      BY <2>2 DEF AdoptTable, At, Pinned, HeldIsPinned
    <3> QED BY <1>1, <1>3, <3>1, <3>2
  <2>3. CASE PinTable(m) /\ cur' = [cur EXCEPT ![m] = frame[m].new]
    BY <1>0, <1>3, <2>3 DEF PinTable, Pin
  <2>4. CASE cur' = [cur EXCEPT ![m] = 0]
    BY <1>0, <1>3, <2>4 DEF ChatOK
  <2> QED BY <1>3, <2>1, <2>2, <2>3, <2>4, CurSteps
<1>4. CASE UNCHANGED vars
  BY <1>2, <1>4 DEF vars, counters, mountVars, CurIsPinned
<1>5. CASE Work
  BY <1>2, <1>3, <1>5, OthersStay DEF Work, CurIsPinned
<1> QED BY <1>4, <1>5

\* What download_table read stays the pinned table or is deleted.
LEMMA HeldIsPinnedStep ==
  ASSUME TypeOK, Kinds, Pinned, [Work]_vars
  PROVE  HeldIsPinned'
<1> DEFINE Good(f, c) ==
      /\ f.pc = "confirm" =>
           /\ f.hold \in DOMAIN chat' => f.hold \in pins'
           /\ f.hold = 0 => c \notin DOMAIN chat'
      /\ f.pc = "fetch" => f.hold = c
<1>0. /\ ChatOK /\ ChatOK' /\ Aged
      /\ cur \in [Mounts -> Nat] /\ frame \in [Mounts -> Frame]
  BY ChatStep DEF TypeOK
<1>1. \A n \in Mounts : frame'[n] = frame[n] /\ cur'[n] = cur[n] => Good(frame'[n], cur'[n])
  <2> SUFFICES ASSUME NEW n \in Mounts, frame'[n] = frame[n], cur'[n] = cur[n]
               PROVE  Good(frame[n], cur[n])
    OBVIOUS
  <2>1. /\ cur[n] \in Nat /\ cur[n] <= lastId
        /\ frame[n].hold \in Nat /\ frame[n].hold <= lastId
    BY <1>0 DEF Pinned, CurIsTable, Kinds, KindOfHeld, Held, Frame
  <2>2. \A x \in Nat : x <= lastId /\ x \in DOMAIN chat' => x \in DOMAIN chat
    BY <1>0 DEF Aged
  <2> QED BY <2>1, <2>2, PinsStay DEF Pinned, HeldIsPinned
<1>2. ASSUME NEW m \in Mounts, Step(m) \/ Ask(m)
      PROVE  Good(frame'[m], cur'[m])
  <2>1. CASE UNCHANGED <<chatVars, table, cur, frame>>
    BY <1>1, <2>1
  <2>2. CASE PlainStep(m)
    <3>1. frame'[m].pc \in Plain
      BY <2>2, PlainSteps
    <3> QED BY <3>1 DEF Plain
  <2>3. CASE ReadPinned(m)
    <3>1. frame'[m] = [frame[m] EXCEPT !.pc = "confirm", !.hold = LastPinned]
      BY <1>0, <2>3 DEF ReadPinned
    <3>2. frame'[m].pc = "confirm" /\ frame'[m].hold = LastPinned
      BY <1>0, <3>1 DEF Frame
    <3>3. UNCHANGED <<chat, pins, cur>>
      BY <2>3 DEF ReadPinned, chatVars, mountVars
    <3>4. LastPinned \in DOMAIN chat => LastPinned \in pins
      BY <1>0, LastPinnedIn DEF ChatOK
    <3>5. LastPinned = 0 => cur[m] \notin DOMAIN chat
      BY <1>0, LastPinnedIn DEF Pinned, CurIsPinned
    <3> QED BY <3>2, <3>3, <3>4, <3>5
  <2>4. CASE AdoptTable(m)
    <3>1. frame'[m] = [frame[m] EXCEPT !.pc = "fetch"]
      BY <1>0, <2>4 DEF AdoptTable, Goto
    <3>2. frame'[m].pc = "fetch" /\ frame'[m].hold = frame[m].hold
      BY <1>0, <3>1 DEF Frame
    <3>3. cur'[m] = frame[m].hold
      BY <1>0, <2>4 DEF AdoptTable
    <3> QED BY <3>2, <3>3
  <2>5. CASE \/ RememberMsg(m) \/ SendData(m) \/ SendTable(m)
             \/ FindPinned(m) \/ RemovePinned(m) \/ StartRemove(m)
    <3>0. frame[m] \in Frame
      BY <1>0
    <3>1. CASE RememberMsg(m)
      <4>1. frame'[m] = [frame[m] EXCEPT !.old = table[m][frame[m].ino],
                                         !.pc = "check", !.ret = "update"]
        BY <1>0, <3>1 DEF RememberMsg
      <4> QED BY <3>0, <4>1 DEF Frame
    <3>2. CASE SendData(m)
      <4>1. frame'[m] = [frame[m] EXCEPT !.pc = "undata", !.new = NextId]
        BY <1>0, <3>2 DEF SendData
      <4> QED BY <3>0, <4>1 DEF Frame
    <3>3. CASE SendTable(m)
      <4>1. frame'[m] = [frame[m] EXCEPT !.pc = "swap", !.new = NextId]
        BY <1>0, <3>3 DEF SendTable
      <4> QED BY <3>0, <4>1 DEF Frame
    <3>4. CASE FindPinned(m)
      <4>1. frame'[m] = [frame[m] EXCEPT !.hold = LastPinned,
                                         !.pc = IF LastPinned = 0 THEN "pin" ELSE "unpin"]
        BY <1>0, <3>4 DEF FindPinned
      <4>2. frame'[m].pc = IF LastPinned = 0 THEN "pin" ELSE "unpin"
        BY <3>0, <4>1 DEF Frame
      <4> QED BY <4>2
    <3>5. CASE RemovePinned(m)
      <4>1. frame'[m] = [frame[m] EXCEPT !.pc = "pin"]
        BY <1>0, <3>5 DEF RemovePinned, Goto
      <4> QED BY <3>0, <4>1 DEF Frame
    <3>6. CASE StartRemove(m)
      <4>1. PICK i : frame' = [frame EXCEPT ![m] = [NoFrame("table") EXCEPT
                                  !.op = "remove", !.ino = i, !.old = table[m][i]]]
        BY <3>6 DEF StartRemove, RemovesEntry
      <4>2. frame'[m] = [NoFrame("table") EXCEPT
                                  !.op = "remove", !.ino = i, !.old = table[m][i]]
        BY <1>0, <4>1
      <4> QED BY <4>2 DEF NoFrame
    <3> QED BY <2>5, <3>1, <3>2, <3>3, <3>4, <3>5, <3>6
  <2> QED BY <1>2, <2>1, <2>2, <2>3, <2>4, <2>5, Moves
<1>3. CASE UNCHANGED vars
  BY <1>1, <1>3 DEF vars, counters, mountVars, HeldIsPinned
<1>4. CASE Work
  BY <1>1, <1>2, <1>4, OthersStay DEF Work, HeldIsPinned
<1> QED BY <1>3, <1>4

\* The ids of a step of m that are not of the past: its new table, and cur.
LEMMA CurStaysKnown ==
  ASSUME TypeOK, Kinds, Pinned, [Work]_vars
  PROVE  \A n \in Mounts : cur'[n] <= lastId'
<1>0. /\ ChatOK /\ ChatOK' /\ Aged
      /\ cur \in [Mounts -> Nat] /\ frame \in [Mounts -> Frame]
  BY ChatStep DEF TypeOK
<1>1. \A x \in Nat : x <= lastId => x <= lastId'
  BY <1>0 DEF Aged, ChatOK
<1>2. \A n \in Mounts : cur[n] <= lastId'
  BY <1>0, <1>1 DEF Pinned, CurIsTable
<1>3. ASSUME NEW m \in Mounts, Step(m) \/ Ask(m)
      PROVE  cur'[m] <= lastId'
  <2>1. /\ frame[m].hold <= lastId' /\ frame[m].new <= lastId' /\ 0 <= lastId'
    BY <1>0, <1>1 DEF Kinds, KindOfHeld, Held, Frame, ChatOK
  <2>2. cur' = cur \/ cur'[m] \in {0, frame[m].hold, frame[m].new}
    BY <1>0, <1>3, CurSteps
  <2> QED BY <1>2, <2>1, <2>2
<1>4. CASE UNCHANGED vars
  BY <1>2, <1>4 DEF vars, counters, mountVars
<1>5. CASE Work
  BY <1>2, <1>3, <1>5, OthersStay DEF Work
<1> QED BY <1>4, <1>5

\* Away from the steps that replace it, messages_ is the table of cur.
LEMMA CurIsTableStep ==
  ASSUME TypeOK, Kinds, Pinned, [Work]_vars
  PROVE  CurIsTable'
<1> DEFINE Good(f, c, t) ==
      /\ f.pc \notin Replacing \cup {"fetch"} /\ c \in DOMAIN chat' => chat'[c].map = t
      /\ f.pc \in Replacing \ {"table"} /\ f.new \in DOMAIN chat' => chat'[f.new].map = t
<1>0. /\ ChatOK /\ ChatOK' /\ Aged
      /\ cur \in [Mounts -> Nat] /\ frame \in [Mounts -> Frame]
      /\ table \in [Mounts -> [Ino -> Nat]]
  BY ChatStep DEF TypeOK
<1>1. ASSUME NEW n \in Mounts
      PROVE  /\ cur[n] \in Nat /\ cur[n] <= lastId
             /\ frame[n] \in Frame
             /\ frame[n].new \in Nat /\ frame[n].new <= lastId
             /\ frame[n].hold \in Nat /\ frame[n].hold <= lastId
  BY <1>0 DEF Pinned, CurIsTable, Kinds, KindOfHeld, Held, Frame
<1>2. \A x \in Nat : x <= lastId /\ x \in DOMAIN chat'
                       => x \in DOMAIN chat /\ chat'[x] = chat[x]
  BY <1>0 DEF Aged
<1>3. ASSUME NEW n \in Mounts, frame'[n] = frame[n], cur'[n] = cur[n], table'[n] = table[n]
      PROVE  Good(frame'[n], cur'[n], table'[n])
  BY <1>1, <1>2, <1>3 DEF Pinned, CurIsTable
<1>4. ASSUME NEW m \in Mounts, Step(m) \/ Ask(m)
      PROVE  Good(frame'[m], cur'[m], table'[m])
  <2>1. CASE UNCHANGED <<chatVars, table, cur, frame>>
    BY <1>3, <2>1
  <2>2. CASE PlainStep(m)
    <3>1. frame'[m].pc \notin Replacing \ {"table"}
      BY <2>2, PlainSteps DEF Plain, Replacing
    <3>2. SUFFICES ASSUME frame'[m].pc # "table", cur'[m] \in DOMAIN chat'
                   PROVE  chat'[cur'[m]].map = table'[m]
      BY <3>1 DEF Replacing
    <3>3. CASE PinTable(m)
      <4>1. cur'[m] = frame[m].new /\ chat' = chat /\ table' = table
        BY <1>0, <3>3 DEF PinTable, Pin
      <4> QED BY <3>2, <3>3, <4>1 DEF PinTable, At, Pinned, CurIsTable, Replacing
    <3>4. CASE FetchTable(m)
      <4>1. /\ frame[m].pc = "fetch" /\ cur' = cur /\ chat' = chat
            /\ table'[m] = chat[frame[m].hold].map
        BY <1>0, <3>4 DEF FetchTable, At, chatVars
      <4> QED BY <4>1 DEF Pinned, HeldIsPinned
    <3>5. CASE StartOver(m)
      <4>1. frame[m].pc = "confirm" /\ frame[m].hold = 0 /\ cur' = cur /\ chat' = chat
        BY <3>5 DEF StartOver, At, chatVars
      <4> QED BY <3>2, <4>1 DEF Pinned, HeldIsPinned
    <3>6. CASE Kill(m) \/ Segv(m)
      <4>1. cur'[m] = 0
        BY <1>0, <3>6 DEF Kill, Segv, Vanish
      <4> QED BY <1>0, <3>2, <4>1 DEF ChatOK
    <3>7. CASE SendInode(m)
      <4>1. frame'[m].pc = "table"
        BY <1>0, <1>1, <3>7 DEF SendInode, SendsInode, Goto, Frame
      <4> QED BY <3>2, <4>1
    <3>8. CASE UNCHANGED <<table, cur>> /\ frame[m].pc \notin Replacing \cup {"fetch"}
      BY <1>1, <1>2, <3>2, <3>8 DEF Pinned, CurIsTable
    <3>9. \/ UNCHANGED <<table, cur>> /\ frame[m].pc \notin Replacing \cup {"fetch"}
          \/ PinTable(m) \/ FetchTable(m) \/ StartOver(m) \/ Kill(m) \/ Segv(m) \/ SendInode(m)
      BY <2>2
         DEF PlainStep, CheckTable, TableIsCurrent, LookupRoot, MountExisting, MakeRoot,
             KeepObject, ReloadObject, LoadBytes, SkipData, RemoveOldData, DropOld, Boot,
             Lookup, SetSize, StartUpload, Create, mountVars, At, Replacing
    <3> QED BY <3>3, <3>4, <3>5, <3>6, <3>7, <3>8, <3>9
  <2>3. CASE ReadPinned(m) \/ RememberMsg(m) \/ SendData(m)
    <3>1. /\ frame[m].pc \notin Replacing \cup {"fetch"}
          /\ cur' = cur /\ table' = table
      BY <2>3 DEF ReadPinned, RememberMsg, SendData, At, Replacing, mountVars
    <3>2. frame'[m].pc \notin Replacing \ {"table"}
      <4>1. CASE ReadPinned(m)
        <5>1. frame'[m] = [frame[m] EXCEPT !.pc = "confirm", !.hold = LastPinned]
          BY <1>0, <4>1 DEF ReadPinned
        <5> QED BY <1>1, <5>1 DEF Frame, Replacing
      <4>2. CASE RememberMsg(m)
        <5>1. frame'[m] = [frame[m] EXCEPT !.old = table[m][frame[m].ino],
                                           !.pc = "check", !.ret = "update"]
          BY <1>0, <4>2 DEF RememberMsg
        <5> QED BY <1>1, <5>1 DEF Frame, Replacing
      <4>3. CASE SendData(m)
        <5>1. frame'[m] = [frame[m] EXCEPT !.pc = "undata", !.new = NextId]
          BY <1>0, <4>3 DEF SendData
        <5> QED BY <1>1, <5>1 DEF Frame, Replacing
      <4> QED BY <2>3, <4>1, <4>2, <4>3
    <3> QED BY <1>1, <1>2, <3>1, <3>2 DEF Pinned, CurIsTable
  <2>4. CASE AdoptTable(m)
    <3>1. frame'[m] = [frame[m] EXCEPT !.pc = "fetch"]
      BY <1>0, <2>4 DEF AdoptTable, Goto
    <3>2. frame'[m].pc = "fetch"
      BY <1>1, <3>1 DEF Frame
    <3> QED BY <3>2 DEF Replacing
  <2>5. CASE StartRemove(m)
    <3>1. PICK i : frame' = [frame EXCEPT ![m] = [NoFrame("table") EXCEPT
                                !.op = "remove", !.ino = i, !.old = table[m][i]]]
      BY <2>5 DEF StartRemove, RemovesEntry
    <3>2. frame'[m] = [NoFrame("table") EXCEPT
                                !.op = "remove", !.ino = i, !.old = table[m][i]]
      BY <1>0, <3>1
    <3>3. frame'[m].pc = "table"
      BY <3>2 DEF NoFrame
    <3> QED BY <3>3 DEF Replacing
  <2>6. CASE SendTable(m)
    <3>1. frame'[m] = [frame[m] EXCEPT !.pc = "swap", !.new = NextId]
      BY <1>0, <2>6 DEF SendTable
    <3>2. frame'[m].pc = "swap" /\ frame'[m].new = NextId
      BY <1>1, <3>1 DEF Frame
    <3>3. chat'[NextId] = [kind |-> "table", map |-> table[m]] /\ table' = table
      BY <2>6 DEF SendTable, Send, mountVars
    <3> QED BY <3>2, <3>3 DEF Replacing
  <2>7. CASE FindPinned(m) \/ RemovePinned(m)
    <3>1. frame[m].pc \in {"swap", "unpin"} /\ table' = table
      BY <2>7 DEF FindPinned, RemovePinned, At, mountVars
    <3>2. frame'[m].pc \in {"pin", "unpin"} /\ frame'[m].new = frame[m].new
      <4>1. CASE FindPinned(m)
        <5>1. frame'[m] = [frame[m] EXCEPT !.hold = LastPinned,
                                           !.pc = IF LastPinned = 0 THEN "pin" ELSE "unpin"]
          BY <1>0, <4>1 DEF FindPinned
        <5>2. /\ frame'[m].pc = IF LastPinned = 0 THEN "pin" ELSE "unpin"
              /\ frame'[m].new = frame[m].new
          BY <1>1, <5>1 DEF Frame
        <5> QED BY <5>2
      <4>2. CASE RemovePinned(m)
        <5>1. frame'[m] = [frame[m] EXCEPT !.pc = "pin"]
          BY <1>0, <4>2 DEF RemovePinned, Goto
        <5> QED BY <1>1, <5>1 DEF Frame
      <4> QED BY <2>7, <4>1, <4>2
    <3> QED BY <1>1, <1>2, <3>1, <3>2 DEF Pinned, CurIsTable, Replacing
  <2> QED BY <1>4, <2>1, <2>2, <2>3, <2>4, <2>5, <2>6, <2>7, Moves
<1>5. CASE UNCHANGED vars
  BY <1>3, <1>5, CurStaysKnown DEF vars, counters, mountVars, CurIsTable
<1>6. CASE Work
  BY <1>3, <1>4, <1>6, OthersStay, CurStaysKnown DEF Work, CurIsTable
<1> QED BY <1>5, <1>6

-----------------------------------------------------------------------------
(* The inductive invariant.                                                *)

\* Inv is an invariant up to the first failed request.
LEMMA Invariance == Spec => [](errors = 0 => Inv)
<1>1. Init => (errors = 0 => Inv)
  BY InitOK DEF Inv
<1>2. TypeOK /\ (errors = 0 => Inv) /\ [Next]_vars => (errors = 0 => Inv)'
  <2>1. Inv /\ [Work]_vars => Inv'
    BY TypeStep, KindsStep, CurIsPinnedStep, HeldIsPinnedStep, CurIsTableStep DEF Inv, Pinned
  <2> QED BY <2>1, NotFailedYet
<1> QED BY <1>1, <1>2, TypeCorrect, PTL DEF Spec

\* is_up_to_date_table can be believed, with any number of mounts that pin and
\* delete each other's tables: a mount between operations whose
\* current_table_id_ is the pinned message has that message's table.
THEOREM TableMatchesPinAlways == Spec => []TableMatchesPin
<1>1. (errors = 0 => Inv) => TableMatchesPin
  <2> SUFFICES ASSUME Inv, NEW m \in Mounts, frame[m].pc = "idle", UpToDate(m)
               PROVE  chat[cur[m]].map = table[m]
    BY DEF TableMatchesPin, At
  <2>1. cur[m] \in pins /\ pins \subseteq DOMAIN chat
    BY LastPinnedIn DEF UpToDate, Inv, TypeOK, ChatOK
  <2> QED BY <2>1 DEF Inv, Pinned, CurIsTable, Replacing
<1> QED BY <1>1, Invariance, PTL
=============================================================================
