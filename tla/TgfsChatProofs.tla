--------------------------- MODULE TgfsChatProofs ---------------------------
(***************************************************************************)
(* Proofs about what one mount at a time leaves in the chat: killed only   *)
(* between operations, no message that nothing leads to; killed anywhere,  *)
(* what an InodeStore would hold.                                          *)
(***************************************************************************)
EXTENDS TgfsMountProofs, TgfsStoreView

KilledIdle == CrashPoints \subseteq {"idle"}

\* The table a mount works with, or is about to read when it starts.
Known(m) ==
    IF frame[m].pc \in Starting \cup {"fetch"}
    THEN IF pins = {} THEN EmptyTable ELSE chat[LastPinned].map
    ELSE table[m]

Removing(m, i) == frame[m].op = "remove" /\ i = frame[m].ino

\* The mapped file of a listed inode names the data that its message names,
\* but between the upload of new data and that of the inode.
EntriesHaveData(m) == \A i \in Ino :
    Known(m)[i] # 0 /\ ~(frame[m].pc = "inode" /\ i = frame[m].ino)
        => chat[Known(m)[i]].data = Data(m, i)

\* Only an inode that is on its way into the table or out of it has data
\* without being listed.
DataHasEntry(m) == \A i \in Ino :
    /\ Known(m)[i] = 0 /\ Data(m, i) # 0
          => (frame[m].pc = "inode" /\ i = frame[m].ino) \/ Removing(m, i)
    /\ Removing(m, i) => Known(m)[i] = 0

\* No two inodes share data, and data is there unless its inode is removed.
DataExists(m) == \A i \in Ino :
    /\ Data(m, i) # 0 /\ ~Removing(m, i) => Data(m, i) \in DOMAIN chat
    /\ \A j \in Ino : Data(m, i) # 0 /\ Data(m, i) = Data(m, j) => i = j

\* What upload and remove are about to file or to drop.
Loose(m) == (IF frame[m].pc \in {"undata", "swap", "unpin", "pin"} THEN {frame[m].new} ELSE {})
            \cup (IF frame[m].pc \in PublishPCs THEN {frame[m].old} ELSE {})

NothingElse(m) == \A x \in DOMAIN chat :
    \/ x \in pins \cup Loose(m)
    \/ \E i \in Ino : x = Known(m)[i] \/ (x = Data(m, i) /\ ~Removing(m, i))

\* upload remembers the entry it replaces.
Uploading == {"update", "load", "data", "undata", "inode"}
OldIsEntry(m) ==
    frame[m].op = "upload"
        /\ (frame[m].pc \in Uploading \/ (frame[m].pc \in RefreshPCs /\ frame[m].ret = "update"))
    => frame[m].old = Known(m)[frame[m].ino]

UploadsOnly(m) ==
    /\ frame[m].pc \in {"data", "undata", "inode"} => frame[m].op = "upload"
    /\ frame[m].pc = "undata" =>
          frame[m].new \in DOMAIN chat /\ \A i \in Ino : Data(m, i) # frame[m].new
    /\ frame[m].pc # "segv"

Booked(m) == /\ EntriesHaveData(m) /\ DataHasEntry(m) /\ DataExists(m) /\ NothingElse(m)
             /\ OldIsEntry(m) /\ UploadsOnly(m)
Books == \A m \in Mounts : Booked(m)

-----------------------------------------------------------------------------
(* The table a mount works with.                                           *)

\* Away from the steps that publish, it is the pinned one.
LEMMA KnownIsPinned ==
  Inv /\ Lone =>
    \A m \in Mounts : frame[m].pc \notin PublishPCs =>
      Known(m) = IF pins = {} THEN EmptyTable ELSE chat[LastPinned].map
<1> SUFFICES ASSUME Inv, Lone, NEW m \in Mounts, frame[m].pc \notin PublishPCs,
                    frame[m].pc \notin Starting \cup {"fetch"}
             PROVE  table[m] = IF pins = {} THEN EmptyTable ELSE chat[LastPinned].map
  BY DEF Known
<1>1. CASE pins = {}
  BY <1>1 DEF Lone, Own, EmptyUntilPinned
<1>2. CASE pins # {}
  <2>1. cur[m] = LastPinned /\ LastPinned \in DOMAIN chat
    BY <1>2, LastPinnedIn DEF Lone, Own, CurIsPin, PublishPCs, Inv, TypeOK, ChatOK
  <2>2. frame[m].pc \notin Replacing \cup {"fetch"}
    BY DEF Replacing, PublishPCs
  <2> QED BY <1>2, <2>1, <2>2 DEF Inv, Pinned, CurIsTable
<1> QED BY <1>1, <1>2

\* The same of the next state.
LEMMA KnownIsPinnedNext ==
  Inv' /\ Lone' =>
    \A m \in Mounts : frame'[m].pc \notin PublishPCs =>
      Known(m)' = IF pins' = {} THEN EmptyTable ELSE chat'[LastPinned'].map
<1>1. (Inv /\ Lone)' => (\A m \in Mounts : frame[m].pc \notin PublishPCs =>
      Known(m) = IF pins = {} THEN EmptyTable ELSE chat[LastPinned].map)'
  BY KnownIsPinned, PTL
<1> QED BY <1>1

\* Steps that leave the chat as it is and publish nothing keep it.
LEMMA KnownKept ==
  ASSUME Inv, Lone, Inv', Lone', NEW m \in Mounts, UNCHANGED <<chat, pins>>,
         frame[m].pc \notin PublishPCs, frame'[m].pc \notin PublishPCs
  PROVE  Known(m)' = Known(m)
<1>1. LastPinned' = LastPinned
  BY DEF LastPinned
<1>2. Known(m) = IF pins = {} THEN EmptyTable ELSE chat[LastPinned].map
  BY KnownIsPinned
<1>3. Known(m)' = IF pins' = {} THEN EmptyTable ELSE chat'[LastPinned'].map
  BY KnownIsPinnedNext
<1> QED BY <1>1, <1>2, <1>3

-----------------------------------------------------------------------------
(* Steps that leave the chat as it is.                                     *)

\* What has to be shown of them: the frame.
LEMMA QuietOK ==
  ASSUME Inv, Lone, Books, OneMount, Inv', Lone', NEW m \in Mounts,
         UNCHANGED <<chat, pins>>, \A i \in Ino : Data(m, i)' = Data(m, i),
         frame[m].pc \notin PublishPCs \cup {"undata", "inode"},
         frame'[m].pc \notin PublishPCs \cup {"undata", "segv"},
         OldIsEntry(m)', UploadsOnly(m)'
  PROVE  Books'
<1>1. Known(m)' = Known(m)
  BY KnownKept
<1>2. frame[m].op # "remove" /\ frame'[m].op # "remove"
  BY DEF Lone, Own, Replaced
<1>3. \A i \in Ino : ~Removing(m, i) /\ ~Removing(m, i)'
  BY <1>2 DEF Removing
<1>4. Booked(m)
  BY DEF Books
<1>5. EntriesHaveData(m)'
  BY <1>1, <1>4 DEF Booked, EntriesHaveData
<1>6. DataHasEntry(m)'
  BY <1>1, <1>3, <1>4 DEF Booked, DataHasEntry
<1>7. DataExists(m)'
  BY <1>3, <1>4 DEF Booked, DataExists
<1>8. NothingElse(m)'
  <2>1. Loose(m) = {}
    BY DEF Loose, PublishPCs
  <2> SUFFICES ASSUME NEW x \in DOMAIN chat, x \notin pins
               PROVE  \E i \in Ino : x = Known(m)[i] \/ (x = Data(m, i)' /\ ~Removing(m, i)')
    BY <1>1 DEF NothingElse
  <2>2. PICK i \in Ino : x = Known(m)[i] \/ (x = Data(m, i) /\ ~Removing(m, i))
    BY <1>4, <2>1 DEF Booked, NothingElse
  <2> QED BY <1>3, <2>2
<1> QED BY <1>5, <1>6, <1>7, <1>8 DEF Books, Booked, OneMount

\* update_table.
LEMMA RefreshBooks ==
  ASSUME Inv, Lone, Books, OneMount, Inv', Lone', NEW m \in Mounts, Refresh(m)
  PROVE  Books'
<1>0. /\ TypeOK /\ frame \in [Mounts -> Frame] /\ frame[m] \in Frame
      /\ UNCHANGED <<chat, pins, local>> /\ Booked(m)
  BY DEF Inv, TypeOK, Books, Refresh, CheckTable, ReadPinned, TableIsCurrent, StartOver,
         AdoptTable, FetchTable, chatVars, mountVars
<1>1. /\ frame[m].pc \in RefreshPCs /\ frame'[m].pc \in RefreshPCs \cup {frame[m].ret}
      /\ frame'[m].ret = frame[m].ret /\ frame'[m].op = frame[m].op
      /\ frame'[m].ino = frame[m].ino /\ frame'[m].old = frame[m].old
      /\ frame[m].ret \in ReturnPCs
  <2>1. CASE ReadPinned(m)
    <3>1. frame'[m] = [frame[m] EXCEPT !.pc = "confirm", !.hold = LastPinned]
      BY <1>0, <2>1 DEF ReadPinned
    <3> QED BY <1>0, <2>1, <3>1 DEF ReadPinned, At, Frame, RefreshPCs
  <2>2. CASE ~ReadPinned(m)
    <3>1. \/ Return(m) \/ \E l \in RefreshPCs : Goto(m, l)
      BY <2>2 DEF Refresh, CheckTable, TableIsCurrent, StartOver, AdoptTable, FetchTable,
                  RefreshPCs
    <3>2. frame[m].pc \in RefreshPCs
      BY <2>2 DEF Refresh, CheckTable, TableIsCurrent, StartOver, AdoptTable, FetchTable,
                  RefreshPCs, At
    <3> QED BY <1>0, <3>1, <3>2, Turns DEF Keeps, Frame
  <2> QED BY <2>1, <2>2
<1>2. /\ frame[m].pc \notin PublishPCs \cup {"undata", "inode"}
      /\ frame'[m].pc \notin PublishPCs \cup {"data", "undata", "inode", "segv"}
  BY <1>1 DEF RefreshPCs, PublishPCs, ReturnPCs
<1>3. Known(m)' = Known(m)
  BY <1>0, <1>2, KnownKept
<1>4. OldIsEntry(m)'
  BY <1>0, <1>1, <1>3 DEF Booked, OldIsEntry, RefreshPCs, ReturnPCs, Uploading
<1>5. UploadsOnly(m)'
  BY <1>2 DEF UploadsOnly
<1>6. \A i \in Ino : Data(m, i)' = Data(m, i)
  BY <1>0 DEF Data
<1> QED BY <1>0, <1>2, <1>4, <1>5, <1>6, QuietOK

\* The constructor, and the end of the process between operations.
LEMMA LifeBooks ==
  ASSUME Inv, Lone, Books, OneMount, KilledIdle, Inv', Lone', NEW m \in Mounts,
         Boot(m) \/ Kill(m)
  PROVE  Books'
<1>0. /\ frame \in [Mounts -> Frame] /\ local \in [Mounts -> [Ino -> File]]
      /\ UNCHANGED <<chat, pins>>
  BY DEF Inv, TypeOK, Boot, Kill, chatVars
<1>1. /\ frame[m].pc \in {"down", "segv", "idle"} /\ frame'[m].pc \in {"pinned", "down"}
      /\ frame'[m].op \in {"boot", "none"}
  <2>1. CASE Boot(m)
    <3>1. frame'[m] = [NoFrame("pinned") EXCEPT !.op = "boot", !.ret = "boot"]
      BY <1>0, <2>1 DEF Boot
    <3> QED BY <2>1, <3>1 DEF Boot, NoFrame
  <2>2. CASE Kill(m)
    <3>1. frame'[m] = NoFrame("down")
      BY <1>0, <2>2 DEF Kill
    <3>2. frame[m].pc = "idle"
      BY <2>2 DEF Kill, KilledIdle
    <3> QED BY <3>1, <3>2 DEF NoFrame
  <2> QED BY <2>1, <2>2
<1>2. \A i \in Ino : Data(m, i)' = Data(m, i)
  <2>1. CASE Boot(m)
    BY <2>1 DEF Boot, mountVars, Data
  <2>2. CASE Kill(m)
    <3>1. local'[m] = [i \in Ino |-> [local[m][i] EXCEPT !.version = 0, !.dirty = FALSE]]
      BY <1>0, <2>2 DEF Kill, Vanish
    <3>2. \A i \in Ino : local[m][i] \in File
      BY <1>0
    <3> QED BY <3>1, <3>2 DEF Data, File
  <2> QED BY <2>1, <2>2
<1>3. OldIsEntry(m)' /\ UploadsOnly(m)'
  BY <1>1 DEF OldIsEntry, UploadsOnly
<1> QED BY <1>0, <1>1, <1>2, <1>3, QuietOK DEF PublishPCs

\* No file loses its data message in a calm step.
LEMMA CalmData ==
  ASSUME Inv, Lone, Books, NEW m \in Mounts, CalmStep(m)
  PROVE  \A i \in Ino : Data(m, i)' = Data(m, i)
<1>0. /\ TypeOK /\ local \in [Mounts -> [Ino -> File]] /\ inodes \in [Mounts -> SUBSET Ino]
      /\ frame[m].ino \in Ino /\ Booked(m) /\ frame[m].pc \in Calm
      /\ \A i \in Ino : local[m][i] \in File
  BY Updates, CalmMoves DEF Inv, TypeOK, Books
<1>1. Known(m) = table[m] /\ frame[m].op # "remove"
  BY <1>0, CalmLabels DEF Known, Lone, Own, Replaced
<1>2. \A i \in Ino : table[m][i] = 0 /\ frame[m].pc # "inode" => local[m][i].data = 0
  BY <1>0, <1>1 DEF Booked, DataHasEntry, Removing, Data
<1>3. ASSUME NEW i \in Ino, NEW f, f.data = local[m][i].data, local' = [local EXCEPT ![m][i] = f]
      PROVE  \A j \in Ino : local'[m][j].data = local[m][j].data
  BY <1>0, <1>3
<1> SUFFICES \A i \in Ino : local'[m][i].data = local[m][i].data
  BY DEF Data
<1>4. CASE UNCHANGED local
  BY <1>4
<1>5. CASE MakeRoot(m)
  <2>1. local' = [local EXCEPT ![m][Root] = [NoFile EXCEPT !.dirty = TRUE, !.full = TRUE]]
    BY <1>5 DEF MakeRoot
  <2>2. [NoFile EXCEPT !.dirty = TRUE, !.full = TRUE].data = 0
    BY DEF NoFile
  <2>3. local[m][Root].data = 0
    BY <1>2, <1>5, RootIn DEF MakeRoot, At
  <2> QED BY <1>3, <2>1, <2>2, <2>3, RootIn
<1>6. CASE ReloadObject(m)
  <2> DEFINE i == frame[m].ino
             x == table[m][i]
             f == [version |-> x, dirty |-> TRUE, full |-> chat[x].full,
                   data |-> chat[x].data, bytes |-> local[m][i].bytes]
  <2>1. local' = [local EXCEPT ![m][i] = f] /\ frame[m].pc = "update" /\ x # 0
    BY <1>6 DEF ReloadObject, At, Cached
  <2>2. chat[x].data = local[m][i].data
    BY <1>0, <1>1, <2>1 DEF Booked, EntriesHaveData, Data
  <2>3. f.data = local[m][i].data
    BY <2>2
  <2> HIDE DEF f
  <2> QED BY <1>0, <1>3, <2>1, <2>3
<1>7. CASE LoadBytes(m)
  <2> DEFINE i == frame[m].ino
             f == local[m][i]
  <2>1. \/ local' = local
        \/ local' = [local EXCEPT ![m][i].bytes = Blank]
        \/ local' = [local EXCEPT ![m][i] = [@ EXCEPT !.bytes = chat[f.data].bytes,
                                                      !.dirty = FALSE]]
    BY <1>7 DEF LoadBytes
  <2>2. CASE local' = [local EXCEPT ![m][i].bytes = Blank]
    BY <1>0, <2>2 DEF File
  <2>3. CASE local' = [local EXCEPT ![m][i] = [@ EXCEPT !.bytes = chat[f.data].bytes,
                                                        !.dirty = FALSE]]
    BY <1>0, <2>3 DEF File
  <2> QED BY <2>1, <2>2, <2>3
<1>8. CASE Write(m) \/ Truncate(m) \/ SetSize(m)
  <2>1. PICK i \in inodes[m] :
          \/ \E v \in Values : local' = [local EXCEPT ![m][i] = Overwrite(@, v)]
          \/ local' = [local EXCEPT ![m][i] = [@ EXCEPT !.full = FALSE, !.bytes = Blank]]
          \/ \E s, b : local' = [local EXCEPT ![m][i] = [@ EXCEPT !.full = s, !.bytes = b]]
    BY <1>8 DEF Write, Truncate, SetSize
  <2>2. i \in Ino /\ local[m][i] \in File
    BY <1>0
  <2>3. CASE \E v \in Values : local' = [local EXCEPT ![m][i] = Overwrite(@, v)]
    <3>1. PICK v \in Values : local' = [local EXCEPT ![m][i] = Overwrite(@, v)]
      BY <2>3
    <3>2. Overwrite(local[m][i], v).data = local[m][i].data
      BY <2>2 DEF Overwrite, File
    <3> QED BY <1>3, <2>2, <3>1, <3>2
  <2>4. CASE \E s, b : local' = [local EXCEPT ![m][i] = [@ EXCEPT !.full = s, !.bytes = b]]
    <3>1. PICK s, b : local' = [local EXCEPT ![m][i] = [@ EXCEPT !.full = s, !.bytes = b]]
      BY <2>4
    <3>2. [local[m][i] EXCEPT !.full = s, !.bytes = b].data = local[m][i].data
      BY <2>2 DEF File
    <3> QED BY <1>3, <2>2, <3>1, <3>2
  <2> QED BY <2>1, <2>3, <2>4
<1>9. CASE Create(m)
  <2> DEFINE i == Min(NewInos(m))
  <2>1. PICK full \in BOOLEAN :
          local' = [local EXCEPT ![m][i] = [version |-> 0, dirty |-> TRUE, full |-> full,
                                            data |-> @.data, bytes |-> Blank]]
    BY <1>9 DEF Create
  <2>2. i \in Ino
    <3>1. NewInos(m) # {} /\ NewInos(m) \in SUBSET (1..MaxIno) /\ MaxIno \in Nat
      BY <1>9, StoreAssumption DEF Create, NewInos, Ino
    <3> QED BY <3>1, MinIn DEF Ino
  <2>3. [version |-> 0, dirty |-> TRUE, full |-> full, data |-> local[m][i].data,
         bytes |-> Blank].data = local[m][i].data
    OBVIOUS
  <2> HIDE DEF i
  <2> QED BY <1>3, <2>1, <2>2, <2>3
<1>10. UNCHANGED local \/ MakeRoot(m) \/ ReloadObject(m) \/ Create(m) \/ LoadBytes(m)
       \/ Write(m) \/ Truncate(m) \/ SetSize(m)
  BY DEF CalmStep, CheckTable, LookupRoot, MountExisting, KeepObject, RememberMsg, SkipData,
         Lookup, StartUpload, mountVars
<1> QED BY <1>4, <1>5, <1>6, <1>7, <1>8, <1>9, <1>10

\* The frame of a calm step.
LEMMA CalmFrame ==
  ASSUME Inv, Books, Lone, NEW m \in Mounts, CalmStep(m), Known(m)' = Known(m)
  PROVE  /\ frame[m].pc \in Calm \ {"undata", "inode"}
         /\ frame'[m].pc \in Calm \ {"undata"}
         /\ OldIsEntry(m)'
         /\ frame'[m].pc \in {"data", "inode"} => frame'[m].op = "upload"
<1>0. /\ TypeOK /\ frame \in [Mounts -> Frame] /\ frame[m] \in Frame /\ Booked(m)
      /\ frame[m].pc \in Calm
  BY CalmMoves DEF Inv, TypeOK, Books
<1>1. Known(m) = table[m]
  BY <1>0, CalmLabels DEF Known
<1> USE CalmLabels DEF At, RefreshPCs, Uploading
<1>2. CASE RememberMsg(m)
  <2>1. frame'[m] = [frame[m] EXCEPT !.old = table[m][frame[m].ino],
                                     !.pc = "check", !.ret = "update"]
    BY <1>0, <1>2 DEF RememberMsg
  <2>2. /\ frame[m].pc = "msg" /\ frame'[m].pc = "check"
        /\ frame'[m].old = table[m][frame[m].ino] /\ frame'[m].ino = frame[m].ino
    BY <1>0, <1>2, <2>1 DEF RememberMsg, Frame
  <2> QED BY <1>1, <2>2 DEF OldIsEntry
<1>3. CASE CheckTable(m) /\ UpToDate(m)
  <2>1. frame[m].pc = "check" /\ Return(m)
    BY <1>3 DEF CheckTable
  <2> QED BY <1>0, <2>1, Turns DEF OldIsEntry, Booked, Keeps
<1>4. CASE LookupRoot(m)
  <2>1. frame[m].pc = "boot" /\ frame'[m].pc = "check" /\ frame'[m].ret = "mount"
    BY <1>0, <1>4, Turns DEF LookupRoot
  <2> QED BY <2>1 DEF OldIsEntry
<1>5. CASE MountExisting(m)
  <2>1. frame[m].pc = "mount" /\ frame'[m].pc = "idle"
    BY <1>0, <1>5, Turns DEF MountExisting
  <2> QED BY <2>1 DEF OldIsEntry
<1>6. CASE KeepObject(m) \/ LoadBytes(m)
  <2>1. frame[m].pc \in {"update", "load"} /\ EndUpdate(m)
    BY <1>6 DEF KeepObject, LoadBytes
  <2> QED BY <1>0, <2>1, Turns DEF OldIsEntry, Booked, Keeps
<1>7. CASE ReloadObject(m)
  <2>1. frame[m].pc = "update" /\ frame'[m].pc = "load" /\ Keeps(m)
    BY <1>0, <1>7, Turns DEF ReloadObject
  <2> QED BY <1>0, <2>1 DEF OldIsEntry, Booked, Keeps
<1>8. CASE SkipData(m)
  <2>1. frame[m].pc = "data" /\ frame'[m].pc = "inode" /\ Keeps(m)
    BY <1>0, <1>8, Turns DEF SkipData
  <2> QED BY <1>0, <2>1 DEF OldIsEntry, UploadsOnly, Booked, Keeps
<1>9. CASE Write(m) \/ Truncate(m)
  <2>1. frame[m].pc = "idle" /\ frame' = frame
    BY <1>9 DEF Write, Truncate
  <2> QED BY <2>1 DEF OldIsEntry
<1>10. CASE MakeRoot(m) \/ Lookup(m) \/ SetSize(m) \/ StartUpload(m) \/ Create(m)
  <2>1. /\ frame[m].pc \in {"idle", "mount"}
        /\ (\E i : Begin(m, "upload", i, "msg")) \/ (\E i : Begin(m, "lookup", i, "update"))
    BY <1>10 DEF MakeRoot, Lookup, SetSize, StartUpload, Create
  <2>2. /\ frame'[m].pc = "check"
        /\ frame'[m].op # "upload" \/ frame'[m].ret = "msg"
    BY <1>0, <2>1, Turns
  <2> QED BY <2>1, <2>2 DEF OldIsEntry
<1> QED BY <1>2, <1>3, <1>4, <1>5, <1>6, <1>7, <1>8, <1>9, <1>10 DEF CalmStep

\* Calm steps.
LEMMA CalmBooks ==
  ASSUME Inv, Lone, Books, OneMount, Inv', Lone', NEW m \in Mounts, CalmStep(m)
  PROVE  Books'
<1>1. UNCHANGED <<chat, pins>> /\ frame[m].pc \in Calm /\ frame'[m].pc \in Calm
  BY CalmMoves, CalmCache DEF Inv, Lone, Own
<1>2. Known(m)' = Known(m)
  BY <1>1, KnownKept, CalmLabels
<1>3. /\ frame[m].pc \in Calm \ {"undata", "inode"}
      /\ frame'[m].pc \in Calm \ {"undata"}
      /\ OldIsEntry(m)'
      /\ frame'[m].pc \in {"data", "inode"} => frame'[m].op = "upload"
  BY <1>2, CalmFrame
<1>4. frame'[m].pc \notin {"undata", "segv"}
  BY <1>3, CalmLabels DEF Starting
<1>5. UploadsOnly(m)'
  BY <1>3, <1>4 DEF UploadsOnly
<1> QED BY <1>1, <1>3, <1>4, <1>5, CalmData, QuietOK, CalmLabels

\* upload_table asks what is pinned.
LEMMA FindBooks ==
  ASSUME Inv, Lone, Books, OneMount, NEW m \in Mounts, FindPinned(m)
  PROVE  Books'
<1>0. /\ frame \in [Mounts -> Frame] /\ frame[m] \in Frame /\ Booked(m)
      /\ UNCHANGED <<chat, pins, table, local>>
  BY DEF Inv, TypeOK, Books, FindPinned, chatVars, mountVars
<1>1. frame'[m] = [frame[m] EXCEPT !.hold = LastPinned,
                                   !.pc = IF LastPinned = 0 THEN "pin" ELSE "unpin"]
  BY <1>0 DEF FindPinned
<1>2. /\ frame[m].pc = "swap" /\ frame'[m].pc \in {"pin", "unpin"}
      /\ frame'[m].new = frame[m].new /\ frame'[m].op = frame[m].op
      /\ frame'[m].ino = frame[m].ino /\ frame'[m].old = frame[m].old
  BY <1>0, <1>1 DEF FindPinned, At, Frame
<1>3. /\ Known(m) = table[m] /\ Known(m)' = table[m] /\ Loose(m)' = Loose(m)
      /\ \A i \in Ino : Data(m, i)' = Data(m, i) /\ (Removing(m, i)' <=> Removing(m, i))
  BY <1>0, <1>2 DEF Known, Loose, Data, Removing, Starting, PublishPCs
<1>4. EntriesHaveData(m)' /\ DataHasEntry(m)'
  BY <1>0, <1>2, <1>3 DEF Booked, EntriesHaveData, DataHasEntry
<1>5. DataExists(m)'
  BY <1>0, <1>3 DEF Booked, DataExists
<1>6. NothingElse(m)'
  BY <1>0, <1>3 DEF Booked, NothingElse
<1>7. OldIsEntry(m)' /\ UploadsOnly(m)'
  BY <1>2 DEF OldIsEntry, UploadsOnly, Uploading, RefreshPCs
<1> QED BY <1>4, <1>5, <1>6, <1>7 DEF Books, Booked, OneMount

-----------------------------------------------------------------------------
(* Messages that are sent.                                                 *)

\* The new message has an id that nothing refers to.
LEMMA NewIsUnknown ==
  ASSUME Inv, Lone, NEW m \in Mounts, NEW p \in Payload, Send(p)
  PROVE  /\ pins' = pins /\ chat'[NextId] = p /\ NextId # 0
         /\ DOMAIN chat' = DOMAIN chat \cup {NextId}
         /\ \A x \in DOMAIN chat : chat'[x] = chat[x]
         /\ \A i \in Ino : Data(m, i) # NextId
         /\ \A i \in Ino : table[m][i] # 0 => table[m][i] \in DOMAIN chat /\ table[m][i] # NextId
<1>0. ChatOK
  BY DEF Inv, TypeOK
<1>1. /\ pins' = pins /\ chat'[NextId] = p /\ DOMAIN chat' = DOMAIN chat \cup {NextId}
      /\ \A x \in DOMAIN chat : chat'[x] = chat[x]
      /\ NextId = lastId + 1 /\ lastId \in Nat /\ NextId \notin DOMAIN chat
  BY <1>0, SendOK DEF ChatOK, NextId, Send
<1>2. \A i \in Ino : Data(m, i) # NextId
  <2> SUFFICES ASSUME NEW i \in Ino PROVE local[m][i].data # NextId
    BY DEF Data
  <2>1. local[m][i].data \in Nat /\ local[m][i].data <= lastId
    BY Updates DEF Inv, Kinds, KindOfLocals, Of, File
  <2> QED BY <1>1, <2>1
<1>3. \A i \in Ino : table[m][i] # 0 => table[m][i] \in DOMAIN chat
  BY DEF Lone, Own, TableLives
<1> QED BY <1>1, <1>2, <1>3

\* New data is loose until it is filed in the inode.
LEMMA SendDataBooks ==
  ASSUME Inv, Lone, Books, OneMount, NEW m \in Mounts, SendData(m)
  PROVE  Books'
<1>0. /\ TypeOK /\ frame \in [Mounts -> Frame] /\ frame[m] \in Frame /\ frame[m].ino \in Ino
      /\ Booked(m) /\ UNCHANGED <<table, local>>
  BY Updates DEF Inv, TypeOK, Books, SendData, mountVars
<1>1. frame'[m] = [frame[m] EXCEPT !.pc = "undata", !.new = NextId]
  BY <1>0 DEF SendData
<1>2. /\ frame[m].pc = "data" /\ frame'[m].pc = "undata" /\ frame'[m].new = NextId
      /\ frame'[m].op = frame[m].op /\ frame'[m].ino = frame[m].ino
      /\ frame'[m].old = frame[m].old /\ frame[m].op = "upload"
  BY <1>0, <1>1 DEF SendData, At, Frame, Booked, UploadsOnly
<1>3. PICK p \in Payload : Send(p)
  BY <1>0, PayloadsOK DEF SendData
<1>4. /\ pins' = pins /\ NextId # 0 /\ DOMAIN chat' = DOMAIN chat \cup {NextId}
      /\ \A x \in DOMAIN chat : chat'[x] = chat[x]
      /\ \A i \in Ino : Data(m, i) # NextId
      /\ \A i \in Ino : table[m][i] # 0 => table[m][i] \in DOMAIN chat
  BY <1>3, NewIsUnknown
<1>5. /\ Known(m) = table[m] /\ Known(m)' = table[m] /\ Loose(m) = {} /\ Loose(m)' = {NextId}
      /\ \A i \in Ino : /\ Data(m, i)' = Data(m, i)
                        /\ ~Removing(m, i)' /\ ~Removing(m, i)
  BY <1>0, <1>2 DEF Known, Loose, Data, Removing, Starting, PublishPCs
<1>6. EntriesHaveData(m)' /\ DataHasEntry(m)'
  BY <1>0, <1>2, <1>4, <1>5 DEF Booked, EntriesHaveData, DataHasEntry
<1>7. DataExists(m)'
  BY <1>0, <1>4, <1>5 DEF Booked, DataExists
<1>8. NothingElse(m)'
  BY <1>0, <1>4, <1>5 DEF Booked, NothingElse
<1>9. OldIsEntry(m)' /\ UploadsOnly(m)'
  BY <1>0, <1>2, <1>4, <1>5 DEF Booked, OldIsEntry, UploadsOnly, Uploading, RefreshPCs
<1> QED BY <1>6, <1>7, <1>8, <1>9 DEF Books, Booked, OneMount

\* The new inode message takes the place of the old one in the table.
LEMMA SendInodeBooks ==
  ASSUME Inv, Lone, Books, OneMount, NEW m \in Mounts, SendInode(m)
  PROVE  Books'
<1> DEFINE i == frame[m].ino
           f == local[m][i]
           p == [kind |-> "inode", ino |-> i, full |-> f.full, data |-> f.data]
<1>0. /\ TypeOK /\ frame \in [Mounts -> Frame] /\ frame[m] \in Frame /\ i \in Ino
      /\ local \in [Mounts -> [Ino -> File]] /\ table \in [Mounts -> [Ino -> Nat]]
      /\ Booked(m)
  BY Updates DEF Inv, TypeOK, Books
<1>1. /\ frame[m].pc = "inode" /\ frame'[m].pc = "table" /\ Keeps(m)
      /\ frame[m].op = "upload"
  BY <1>0, Turns DEF SendInode, SendsInode, At, Booked, UploadsOnly
<1>2. Send(p) /\ p \in Payload
  BY <1>0, PayloadsOK DEF SendInode, SendsInode
<1>3. /\ pins' = pins /\ NextId # 0 /\ DOMAIN chat' = DOMAIN chat \cup {NextId}
      /\ chat'[NextId] = p
      /\ \A x \in DOMAIN chat : chat'[x] = chat[x]
      /\ \A j \in Ino : Data(m, j) # NextId
      /\ \A j \in Ino : table[m][j] # 0 => table[m][j] \in DOMAIN chat
  BY <1>2, NewIsUnknown
<1>4. /\ \A j \in Ino : table'[m][j] = IF j = i THEN NextId ELSE table[m][j]
      /\ \A j \in Ino : Data(m, j)' = Data(m, j)
  <2>1. local' = [local EXCEPT ![m][i].version = NextId]
    BY DEF SendInode
  <2>2. table' = [table EXCEPT ![m][i] = NextId]
    BY DEF SendInode
  <2> QED BY <1>0, <2>1, <2>2 DEF Data, File
<1>5. /\ Known(m) = table[m] /\ Known(m)' = table'[m]
      /\ Loose(m) = {} /\ Loose(m)' = {frame[m].old}
      /\ \A j \in Ino : ~Removing(m, j)' /\ ~Removing(m, j)
      /\ frame[m].old = table[m][i]
  BY <1>0, <1>1
     DEF Known, Loose, Removing, Starting, PublishPCs, Keeps, Booked, OldIsEntry, Uploading
<1>6. EntriesHaveData(m)'
  <2> SUFFICES ASSUME NEW j \in Ino, table'[m][j] # 0
               PROVE  chat'[table'[m][j]].data = Data(m, j)'
    BY <1>5 DEF EntriesHaveData
  <2>1. CASE j = i
    BY <1>3, <1>4, <2>1 DEF Data
  <2>2. CASE j # i
    BY <1>0, <1>3, <1>4, <1>5, <2>2 DEF Booked, EntriesHaveData
  <2> QED BY <2>1, <2>2
<1>7. DataHasEntry(m)'
  BY <1>0, <1>3, <1>4, <1>5 DEF Booked, DataHasEntry
<1>8. DataExists(m)'
  BY <1>0, <1>3, <1>4, <1>5 DEF Booked, DataExists
<1>9. NothingElse(m)'
  <2> SUFFICES ASSUME NEW x \in DOMAIN chat', x \notin pins, x # frame[m].old
               PROVE  \E j \in Ino : x = table'[m][j] \/ x = Data(m, j)
    BY <1>3, <1>4, <1>5 DEF NothingElse
  <2>1. CASE x = NextId
    BY <1>0, <1>4, <2>1
  <2>2. CASE x \in DOMAIN chat
    <3>1. PICK j \in Ino : x = table[m][j] \/ x = Data(m, j)
      BY <1>0, <1>5, <2>2 DEF Booked, NothingElse
    <3> QED BY <1>4, <1>5, <3>1
  <2> QED BY <1>3, <2>1, <2>2
<1>10. OldIsEntry(m)' /\ UploadsOnly(m)'
  BY <1>1 DEF OldIsEntry, UploadsOnly, Uploading, RefreshPCs
<1> QED BY <1>6, <1>7, <1>8, <1>9, <1>10 DEF Books, Booked, OneMount

\* The new table is loose until it is pinned.
LEMMA SendTableBooks ==
  ASSUME Inv, Lone, Books, OneMount, NEW m \in Mounts, SendTable(m)
  PROVE  Books'
<1>0. /\ TypeOK /\ frame \in [Mounts -> Frame] /\ frame[m] \in Frame /\ frame[m].ino \in Ino
      /\ Booked(m) /\ UNCHANGED <<table, local>>
  BY Updates DEF Inv, TypeOK, Books, SendTable, mountVars
<1>1. frame'[m] = [frame[m] EXCEPT !.pc = "swap", !.new = NextId]
  BY <1>0 DEF SendTable
<1>2. /\ frame[m].pc = "table" /\ frame'[m].pc = "swap" /\ frame'[m].new = NextId
      /\ frame'[m].op = frame[m].op /\ frame'[m].ino = frame[m].ino
      /\ frame'[m].old = frame[m].old
  BY <1>0, <1>1 DEF SendTable, At, Frame
<1>3. PICK p \in Payload : Send(p)
  BY <1>0, PayloadsOK DEF SendTable
<1>4. /\ pins' = pins /\ NextId # 0 /\ DOMAIN chat' = DOMAIN chat \cup {NextId}
      /\ \A x \in DOMAIN chat : chat'[x] = chat[x]
      /\ \A i \in Ino : table[m][i] # 0 => table[m][i] \in DOMAIN chat
  BY <1>3, NewIsUnknown
<1>5. /\ Known(m) = table[m] /\ Known(m)' = table[m]
      /\ Loose(m) = {frame[m].old} /\ Loose(m)' = {frame[m].old, NextId}
      /\ \A i \in Ino : Data(m, i)' = Data(m, i) /\ (Removing(m, i)' <=> Removing(m, i))
  BY <1>0, <1>2 DEF Known, Loose, Data, Removing, Starting, PublishPCs
<1>6. EntriesHaveData(m)' /\ DataHasEntry(m)'
  BY <1>0, <1>2, <1>4, <1>5 DEF Booked, EntriesHaveData, DataHasEntry
<1>7. DataExists(m)'
  BY <1>0, <1>4, <1>5 DEF Booked, DataExists
<1>8. NothingElse(m)'
  BY <1>0, <1>4, <1>5 DEF Booked, NothingElse
<1>9. OldIsEntry(m)' /\ UploadsOnly(m)'
  BY <1>2 DEF OldIsEntry, UploadsOnly, Uploading, RefreshPCs
<1> QED BY <1>6, <1>7, <1>8, <1>9 DEF Books, Booked, OneMount

-----------------------------------------------------------------------------
(* Messages that are removed.                                              *)

\* What is removed besides data was pinned or an inode.
LEMMA GoneIsKnown ==
  ASSUME Inv, NEW x, Delete(x)
  PROVE  /\ pins' = pins \ {x} /\ DOMAIN chat' = DOMAIN chat \ {x}
         /\ \A y \in DOMAIN chat' : chat'[y] = chat[y]
         /\ pins' \subseteq DOMAIN chat'
<1>1. ChatOK
  BY DEF Inv, TypeOK
<1> QED BY <1>1, DeleteOK DEF ChatOK

\* The old data goes and the new takes its place.
LEMMA OldDataBooks ==
  ASSUME Inv, Lone, Books, OneMount, NEW m \in Mounts, RemoveOldData(m)
  PROVE  Books'
<1> DEFINE i == frame[m].ino
           x == Data(m, i)
<1>0. /\ TypeOK /\ frame \in [Mounts -> Frame] /\ frame[m] \in Frame /\ i \in Ino
      /\ local \in [Mounts -> [Ino -> File]] /\ \A j \in Ino : local[m][j] \in File
      /\ Booked(m) /\ table' = table
  BY Updates DEF Inv, TypeOK, Books, RemoveOldData
<1>1. /\ frame[m].pc = "undata" /\ frame'[m].pc = "inode" /\ Keeps(m)
      /\ frame[m].op = "upload"
  BY <1>0, Turns DEF RemoveOldData, At, Booked, UploadsOnly
<1>2. /\ pins' = pins \ {x} /\ DOMAIN chat' = DOMAIN chat \ {x}
      /\ \A y \in DOMAIN chat' : chat'[y] = chat[y]
  BY GoneIsKnown DEF RemoveOldData, Data
<1>3. \A j \in Ino : Data(m, j)' = IF j = i THEN frame[m].new ELSE Data(m, j)
  <2>1. local' = [local EXCEPT ![m][i] = [@ EXCEPT !.data = frame[m].new, !.dirty = FALSE]]
    BY DEF RemoveOldData
  <2> QED BY <1>0, <2>1 DEF Data, File
<1>4. /\ Known(m) = table[m] /\ Known(m)' = table[m]
      /\ Loose(m) = {frame[m].new} /\ Loose(m)' = {}
      /\ \A j \in Ino : ~Removing(m, j)' /\ ~Removing(m, j)
  BY <1>0, <1>1 DEF Known, Loose, Removing, Starting, PublishPCs, Keeps
<1>5. /\ frame[m].new \in DOMAIN chat /\ \A j \in Ino : Data(m, j) # frame[m].new
  BY <1>0, <1>1 DEF Booked, UploadsOnly
<1>6. /\ Is(x, "data") /\ pins' = pins
      /\ \A j \in Ino : table[m][j] # 0 => table[m][j] \in DOMAIN chat /\ table[m][j] # x
  BY <1>0, <1>2, KindsOf DEF Data, Is, IsInodeOf, Lone, Own, TableLives
<1>7. EntriesHaveData(m)'
  BY <1>0, <1>1, <1>2, <1>3, <1>4, <1>6 DEF Booked, EntriesHaveData, Keeps
<1>8. DataHasEntry(m)'
  BY <1>0, <1>1, <1>3, <1>4 DEF Booked, DataHasEntry, Keeps
<1>9. DataExists(m)'
  BY <1>0, <1>2, <1>3, <1>4, <1>5 DEF Booked, DataExists
<1>10. NothingElse(m)'
  <2> SUFFICES ASSUME NEW y \in DOMAIN chat, y # x, y \notin pins
               PROVE  \E j \in Ino : y = table[m][j] \/ y = Data(m, j)'
    BY <1>2, <1>4, <1>6 DEF NothingElse
  <2>1. y = frame[m].new \/ \E j \in Ino : y = table[m][j] \/ y = Data(m, j)
    BY <1>0, <1>4 DEF Booked, NothingElse
  <2> QED BY <1>0, <1>3, <2>1
<1>11. OldIsEntry(m)' /\ UploadsOnly(m)'
  BY <1>0, <1>1, <1>4 DEF Booked, OldIsEntry, UploadsOnly, Uploading, RefreshPCs, Keeps
<1> QED BY <1>7, <1>8, <1>9, <1>10, <1>11 DEF Books, Booked, OneMount

\* The pinned table goes.
LEMMA UnpinBooks ==
  ASSUME Inv, Lone, Books, OneMount, NEW m \in Mounts, RemovePinned(m)
  PROVE  Books'
<1> DEFINE x == frame[m].hold
<1>0. /\ TypeOK /\ ChatOK /\ Booked(m) /\ UNCHANGED <<table, local>> /\ Own(m)
  BY DEF Inv, TypeOK, Books, Lone, RemovePinned, mountVars
<1>1. frame[m].pc = "unpin" /\ frame'[m].pc = "pin" /\ Keeps(m)
  BY <1>0, Turns DEF RemovePinned, At
<1>2. x \in pins
  BY <1>0, <1>1, LastPinnedIn DEF Own, PinIsHeld
<1>3. /\ pins' = pins \ {x} /\ DOMAIN chat' = DOMAIN chat \ {x}
      /\ \A y \in DOMAIN chat' : chat'[y] = chat[y]
  BY GoneIsKnown DEF RemovePinned
<1>4. /\ Known(m) = table[m] /\ Known(m)' = table[m] /\ Loose(m)' = Loose(m)
      /\ \A j \in Ino : Data(m, j)' = Data(m, j) /\ (Removing(m, j)' <=> Removing(m, j))
  BY <1>0, <1>1 DEF Known, Loose, Data, Removing, Starting, PublishPCs, Keeps
<1>5. /\ \A j \in Ino : table[m][j] # 0 => table[m][j] \in DOMAIN chat'
      /\ \A j \in Ino : Data(m, j) # x \/ Data(m, j) \notin DOMAIN chat
  BY <1>0, <1>2, <1>3, KindsOf DEF Own, TableLives, IsInodeOf, Is, Data
<1>6. EntriesHaveData(m)' /\ DataHasEntry(m)'
  BY <1>0, <1>1, <1>3, <1>4, <1>5 DEF Booked, EntriesHaveData, DataHasEntry
<1>7. DataExists(m)'
  BY <1>0, <1>3, <1>4, <1>5 DEF Booked, DataExists
<1>8. NothingElse(m)'
  BY <1>0, <1>3, <1>4 DEF Booked, NothingElse
<1>9. OldIsEntry(m)' /\ UploadsOnly(m)'
  BY <1>1 DEF OldIsEntry, UploadsOnly, Uploading, RefreshPCs
<1> QED BY <1>6, <1>7, <1>8, <1>9 DEF Books, Booked, OneMount

\* The new table is pinned.
LEMMA PinBooks ==
  ASSUME Inv, Lone, Books, OneMount, NEW m \in Mounts, PinTable(m)
  PROVE  Books'
<1>0. /\ TypeOK /\ Booked(m) /\ UNCHANGED <<chat, table, local>> /\ Own(m)
  BY DEF Inv, TypeOK, Books, Lone, PinTable, Pin
<1>1. frame[m].pc = "pin" /\ frame'[m].pc = "drop" /\ Keeps(m)
  BY <1>0, Turns DEF PinTable, At
<1>2. pins' = pins \cup {frame[m].new}
  BY <1>0, <1>1 DEF PinTable, Pin, Own, NewIsSent
<1>3. /\ Known(m) = table[m] /\ Known(m)' = table[m]
      /\ Loose(m) = {frame[m].new, frame[m].old} /\ Loose(m)' = {frame[m].old}
      /\ \A j \in Ino : Data(m, j)' = Data(m, j) /\ (Removing(m, j)' <=> Removing(m, j))
  BY <1>0, <1>1 DEF Known, Loose, Data, Removing, Starting, PublishPCs, Keeps
<1>4. EntriesHaveData(m)' /\ DataHasEntry(m)'
  BY <1>0, <1>1, <1>3 DEF Booked, EntriesHaveData, DataHasEntry
<1>5. DataExists(m)'
  BY <1>0, <1>3 DEF Booked, DataExists
<1>6. NothingElse(m)'
  BY <1>0, <1>2, <1>3 DEF Booked, NothingElse
<1>7. OldIsEntry(m)' /\ UploadsOnly(m)'
  BY <1>1 DEF OldIsEntry, UploadsOnly, Uploading, RefreshPCs
<1> QED BY <1>4, <1>5, <1>6, <1>7 DEF Books, Booked, OneMount

\* What was replaced goes last; a removed inode forgets its data.
LEMMA DropBooks ==
  ASSUME Inv, Lone, Books, OneMount, Lone', NEW m \in Mounts, DropOld(m)
  PROVE  Books'
<1> DEFINE i == frame[m].ino
           x == frame[m].old
<1>0. /\ TypeOK /\ ChatOK /\ Booked(m) /\ table' = table /\ i \in Ino
      /\ local \in [Mounts -> [Ino -> File]] /\ frame \in [Mounts -> Frame]
      /\ \A j \in Ino : local[m][j] \in File
  BY Updates DEF Inv, TypeOK, Books, DropOld
<1>1. frame[m].pc = "drop" /\ frame'[m].pc = "idle" /\ frame'[m].op = "none"
  BY <1>0, Turns DEF DropOld, At
<1>2. /\ pins' = pins \ {x} /\ DOMAIN chat' = DOMAIN chat \ {x}
      /\ \A y \in DOMAIN chat' : chat'[y] = chat[y]
  BY GoneIsKnown DEF DropOld
<1>3. /\ Known(m) = table[m] /\ Known(m)' = table[m] /\ Loose(m) = {x} /\ Loose(m)' = {}
      /\ \A j \in Ino : ~Removing(m, j)'
  BY <1>0, <1>1 DEF Known, Loose, Removing, Starting, PublishPCs
<1>4. \A j \in Ino : table[m][j] # 0 => table[m][j] \in DOMAIN chat'
  BY <1>0 DEF Lone, Own, TableLives
<1>5. \A j \in Ino : Data(m, j) # x \/ Data(m, j) \notin DOMAIN chat
  BY <1>0, KindsOf DEF IsInodeOf, Is, Data
<1>6. \A j \in Ino : Data(m, j)' = IF Removing(m, j) THEN 0 ELSE Data(m, j)
  <2>1. local' = IF frame[m].op = "remove" THEN [local EXCEPT ![m][i] = NoFile] ELSE local
    BY DEF DropOld
  <2>2. NoFile.data = 0
    BY DEF NoFile
  <2>3. CASE frame[m].op = "remove"
    <3>1. local' = [local EXCEPT ![m][i] = NoFile]
      BY <2>1, <2>3
    <3>2. \A j \in Ino : local'[m][j] = IF j = i THEN NoFile ELSE local[m][j]
      BY <1>0, <3>1
    <3> QED BY <2>2, <2>3, <3>2 DEF Data, Removing
  <2>4. CASE frame[m].op # "remove"
    BY <2>1, <2>4 DEF Data, Removing
  <2> QED BY <2>3, <2>4
<1>7. EntriesHaveData(m)'
  <2> SUFFICES ASSUME NEW j \in Ino, table[m][j] # 0
               PROVE  chat'[table[m][j]].data = Data(m, j)'
    BY <1>3 DEF EntriesHaveData
  <2>1. ~Removing(m, j)
    BY <1>0, <1>3 DEF Booked, DataHasEntry
  <2>2. chat[table[m][j]].data = Data(m, j)
    BY <1>0, <1>1, <1>3 DEF Booked, EntriesHaveData
  <2> QED BY <1>2, <1>4, <1>6, <2>1, <2>2
<1>8. DataHasEntry(m)'
  BY <1>0, <1>1, <1>3, <1>6 DEF Booked, DataHasEntry
<1>9. DataExists(m)'
  BY <1>0, <1>2, <1>3, <1>5, <1>6 DEF Booked, DataExists
<1>10. NothingElse(m)'
  <2> SUFFICES ASSUME NEW y \in DOMAIN chat, y # x, y \notin pins
               PROVE  \E j \in Ino : y = table[m][j] \/ y = Data(m, j)'
    BY <1>2, <1>3 DEF NothingElse
  <2>1. PICK j \in Ino : y = table[m][j] \/ (y = Data(m, j) /\ ~Removing(m, j))
    BY <1>0, <1>3 DEF Booked, NothingElse
  <2> QED BY <1>6, <2>1
<1>11. OldIsEntry(m)' /\ UploadsOnly(m)'
  BY <1>1 DEF OldIsEntry, UploadsOnly
<1> QED BY <1>7, <1>8, <1>9, <1>10, <1>11 DEF Books, Booked, OneMount

\* remove begins with the data and the entry.
LEMMA RemovalBooks ==
  ASSUME Inv, Lone, Books, OneMount, Lone', NEW m \in Mounts, StartRemove(m)
  PROVE  Books'
<1>0. /\ TypeOK /\ Booked(m) /\ local' = local /\ inodes \in [Mounts -> SUBSET Ino]
      /\ table \in [Mounts -> [Ino -> Nat]] /\ frame \in [Mounts -> Frame]
  BY DEF Inv, TypeOK, Books, StartRemove, RemovesEntry
<1>1. PICK i \in inodes[m] :
         /\ Delete(local[m][i].data)
         /\ table' = [table EXCEPT ![m][i] = 0]
         /\ frame' = [frame EXCEPT ![m] = [NoFrame("table") EXCEPT
                         !.op = "remove", !.ino = i, !.old = table[m][i]]]
  BY DEF StartRemove, RemovesEntry
<1>2. i \in Ino /\ frame[m].pc = "idle"
  BY <1>0 DEF StartRemove, RemovesEntry, At
<1> DEFINE x == Data(m, i)
<1>3. /\ frame'[m].pc = "table" /\ frame'[m].ino = i /\ frame'[m].old = table[m][i]
      /\ frame'[m].op = "remove"
  <2>1. frame'[m] = [NoFrame("table") EXCEPT !.op = "remove", !.ino = i, !.old = table[m][i]]
    BY <1>0, <1>1
  <2> QED BY <2>1 DEF NoFrame
<1>4. /\ pins' = pins \ {x} /\ DOMAIN chat' = DOMAIN chat \ {x}
      /\ \A y \in DOMAIN chat' : chat'[y] = chat[y]
  BY <1>1, GoneIsKnown DEF Data
<1>5. \A j \in Ino : table'[m][j] = IF j = i THEN 0 ELSE table[m][j]
  BY <1>0, <1>1, <1>2
<1>6. /\ Known(m) = table[m] /\ Known(m)' = table'[m]
      /\ Loose(m) = {} /\ Loose(m)' = {table[m][i]}
      /\ \A j \in Ino : /\ Data(m, j)' = Data(m, j)
                        /\ (Removing(m, j)' <=> j = i)
  BY <1>0, <1>2, <1>3 DEF Known, Loose, Data, Removing, Starting, PublishPCs
<1>7. \A j \in Ino : ~Removing(m, j)
  BY <1>2 DEF Removing, Lone, Own, Replaced, PublishPCs
<1>8. \A j \in Ino : table'[m][j] # 0 => table'[m][j] \in DOMAIN chat'
  BY DEF Lone, Own, TableLives
<1>9. EntriesHaveData(m)'
  <2> SUFFICES ASSUME NEW j \in Ino, table'[m][j] # 0
               PROVE  chat'[table'[m][j]].data = Data(m, j)'
    BY <1>6 DEF EntriesHaveData
  <2>1. table'[m][j] = table[m][j] /\ chat[table[m][j]].data = Data(m, j)
    BY <1>0, <1>2, <1>5, <1>6 DEF Booked, EntriesHaveData
  <2> QED BY <1>4, <1>6, <1>8, <2>1
<1>10. DataHasEntry(m)'
  BY <1>0, <1>2, <1>5, <1>6, <1>7 DEF Booked, DataHasEntry
<1>11. DataExists(m)'
  BY <1>0, <1>2, <1>4, <1>6, <1>7 DEF Booked, DataExists
<1>12. NothingElse(m)'
  <2> SUFFICES ASSUME NEW y \in DOMAIN chat, y # x, y \notin pins, y # table[m][i]
               PROVE  \E j \in Ino : y = table'[m][j] \/ (y = Data(m, j) /\ j # i)
    BY <1>4, <1>6 DEF NothingElse
  <2>1. PICK j \in Ino : y = table[m][j] \/ y = Data(m, j)
    BY <1>0, <1>6 DEF Booked, NothingElse
  <2> QED BY <1>5, <2>1
<1>13. OldIsEntry(m)' /\ UploadsOnly(m)'
  BY <1>3 DEF OldIsEntry, UploadsOnly
<1> QED BY <1>9, <1>10, <1>11, <1>12, <1>13 DEF Books, Booked, OneMount

\* No mount meets a message that is gone.
LEMMA NoNullMessage ==
  ASSUME Inv, Lone, Books, NEW m \in Mounts
  PROVE  ~NullMessage(m)
<1> DEFINE i == frame[m].ino
<1>0. /\ ChatOK /\ i \in Ino /\ Own(m) /\ Booked(m)
  BY Updates DEF Inv, TypeOK, Lone, Books
<1>1. At(m, "fetch") => frame[m].hold \in DOMAIN chat
  <2> SUFFICES ASSUME frame[m].pc = "fetch" PROVE frame[m].hold \in DOMAIN chat
    BY DEF At
  <2>1. frame[m].hold = LastPinned /\ pins # {}
    BY <1>0 DEF Own, CurIsPin, PinIsHeld, Starting, Inv, Pinned, HeldIsPinned
  <2> QED BY <1>0, <2>1, LastPinnedIn DEF ChatOK
<1>2. ~Cached(m) => table[m][i] \in DOMAIN chat
  BY <1>0 DEF Cached, Own, TableLives
<1>3. At(m, "load") /\ local[m][i].data # 0 => local[m][i].data \in DOMAIN chat
  BY <1>0 DEF At, Own, Replaced, PublishPCs, Removing, Booked, DataExists, Data
<1> QED BY <1>1, <1>2, <1>3 DEF NullMessage

-----------------------------------------------------------------------------
(* The inductive invariant and what follows from it.                       *)

\* In the beginning.
LEMMA BooksInit ==
  ASSUME Init
  PROVE  Books
<1>1. \A m \in Mounts : frame[m].pc = "down" /\ frame[m].op = "none"
  BY DEF Init, NoFrame
<1>2. /\ pins = {} /\ DOMAIN chat = {}
      /\ \A m \in Mounts, i \in Ino : EmptyTable[i] = 0 /\ Data(m, i) = 0
  BY DEF Init, EmptyChat, EmptyTable, Data, NoFile
<1>3. \A m \in Mounts : Known(m) = EmptyTable
  BY <1>1, <1>2 DEF Known, Starting
<1> QED BY <1>1, <1>2, <1>3
        DEF Books, Booked, EntriesHaveData, DataHasEntry, DataExists, NothingElse, OldIsEntry,
            UploadsOnly, Removing, Uploading, RefreshPCs

\* One mount at a time that is killed only between operations keeps the books.
LEMMA BooksStep ==
  ASSUME Inv, Lone, Books, OneMount, KilledIdle, Inv', Lone', [Work]_vars
  PROVE  Books'
<1>1. CASE UNCHANGED vars
  BY <1>1
     DEF vars, counters, chatVars, mountVars, Books, Booked, EntriesHaveData, DataHasEntry, DataExists,
         NothingElse, OldIsEntry, UploadsOnly, Known, Data, Removing, Loose, LastPinned
<1>2. ASSUME NEW m \in Mounts, Step(m) \/ Ask(m)
      PROVE  Books'
  <2>1. \/ CalmStep(m) \/ Refresh(m) \/ Boot(m) \/ Kill(m)
        \/ SendData(m) \/ RemoveOldData(m) \/ SendInode(m) \/ SendTable(m) \/ FindPinned(m)
        \/ RemovePinned(m) \/ PinTable(m) \/ DropOld(m) \/ StartRemove(m)
    BY <1>2, NoNullMessage DEF Step, Ask, CalmStep, Segv
  <2>2. CASE CalmStep(m) \/ Refresh(m) \/ Boot(m) \/ Kill(m) \/ FindPinned(m)
    BY <2>2, CalmBooks, RefreshBooks, LifeBooks, FindBooks
  <2>3. CASE SendData(m) \/ RemoveOldData(m) \/ SendInode(m) \/ SendTable(m)
    BY <2>3, SendDataBooks, OldDataBooks, SendInodeBooks, SendTableBooks
  <2>4. CASE RemovePinned(m) \/ PinTable(m) \/ DropOld(m) \/ StartRemove(m)
    BY <2>4, UnpinBooks, PinBooks, DropBooks, RemovalBooks
  <2> QED BY <2>1, <2>2, <2>3, <2>4
<1> QED BY <1>1, <1>2 DEF Work

\* Books is an invariant.
LEMMA BooksInvariance ==
  ASSUME OneMount, KilledIdle
  PROVE  Spec => [](errors = 0 => Inv /\ Lone /\ Books)
<1>1. Init => Books
  BY BooksInit
<1>2. TypeOK /\ (errors = 0 => Inv /\ Lone /\ Books)
        /\ (errors = 0 => Inv /\ Lone)' /\ [Next]_vars
      => (errors = 0 => Books)'
  <2> SUFFICES ASSUME TypeOK, errors = 0 => Inv /\ Lone /\ Books,
                      errors' = 0 => Inv' /\ Lone', [Next]_vars, errors' = 0
               PROVE  Books'
    OBVIOUS
  <2>1. errors = 0 /\ [Work]_vars
    BY NotFailedYet
  <2>2. Inv /\ Lone /\ Books /\ Inv' /\ Lone'
    BY <2>1
  <2> QED BY <2>1, <2>2, BooksStep
<1> QED BY <1>1, <1>2, LoneInvariance, TypeCorrect, PTL DEF Spec

\* A state in which the books are kept and nothing is under way.
LEMMA BooksBalance ==
  ASSUME Inv, Lone, Books, NEW m \in Mounts, frame[m].pc \in {"idle", "down"}
  PROVE  DOMAIN chat = Reachable
<1> DEFINE t == Known(m)
           xs == {t[i] : i \in Ino} \ {0}
<1>0. /\ Booked(m) /\ ChatOK /\ pins \subseteq DOMAIN chat /\ 0 \notin DOMAIN chat
  BY DEF Books, Inv, TypeOK, ChatOK
<1>1. \A i \in Ino : ~Removing(m, i)
  BY DEF Removing, Lone, Own, Replaced, PublishPCs
<1>2. t = IF pins = {} THEN EmptyTable ELSE chat[LastPinned].map
  BY KnownIsPinned DEF PublishPCs
<1>3. \A i \in Ino : t[i] # 0 => t[i] \in DOMAIN chat /\ chat[t[i]].data = Data(m, i)
  <2>1. \A i \in Ino : t[i] # 0 => t[i] \in DOMAIN chat
    BY <1>0, <1>2, LastPinnedIn DEF EmptyTable, Lone, PinsLead
  <2> QED BY <1>0, <2>1 DEF Booked, EntriesHaveData
<1>4. \A i \in Ino : t[i] = 0 => Data(m, i) = 0
  BY <1>0, <1>1 DEF Booked, DataHasEntry
<1>5. UNION {Inodes(s) : s \in {chat[q].map : q \in pins}} = xs
  <2>1. CASE pins = {}
    BY <1>2, <2>1 DEF EmptyTable
  <2>2. CASE pins # {}
    <3>1. pins = {LastPinned}
      BY <1>0, <2>2, LastPinnedIn DEF Lone, OnePin
    <3>2. {chat[q].map : q \in pins} = {t}
      BY <1>2, <2>2, <3>1
    <3> HIDE DEF t
    <3> QED BY <3>2 DEF Inodes
  <2> QED BY <2>1, <2>2
<1>6. Reachable = pins \cup xs \cup ({chat[x].data : x \in xs} \ {0})
  BY <1>5 DEF Reachable
<1>7. ASSUME NEW x \in DOMAIN chat PROVE x \in Reachable
  <2>1. x \in pins \/ \E i \in Ino : x = t[i] \/ x = Data(m, i)
    BY <1>0 DEF Booked, NothingElse, Loose, PublishPCs
  <2>2. ASSUME NEW i \in Ino, x = Data(m, i) PROVE \E y \in xs : x = chat[y].data
    BY <1>0, <1>3, <1>4, <2>2
  <2> HIDE DEF t
  <2> QED BY <1>0, <1>6, <2>1, <2>2
<1>8. ASSUME NEW x \in Reachable PROVE x \in DOMAIN chat
  <2>1. \A y \in xs : y \in DOMAIN chat /\ (chat[y].data # 0 => chat[y].data \in DOMAIN chat)
    BY <1>0, <1>1, <1>3 DEF Booked, DataExists
  <2> HIDE DEF t
  <2> QED BY <1>0, <1>6, <1>8, <2>1
<1> QED BY <1>7, <1>8

\* With one mount at a time that is killed only between operations, the chat
\* holds the pinned table, the inodes it lists and their data and nothing else,
\* after any sequence of uploads, removals and restarts: no message leaks.
THEOREM ChatExactlyReachableAlways ==
  ASSUME OneMount, KilledIdle, Mounts # {}
  PROVE  Spec => []ChatExactlyReachable
<1>1. (errors = 0 => Inv /\ Lone /\ Books) => ChatExactlyReachable
  <2> SUFFICES ASSUME Inv, Lone, Books, \A m \in Mounts : frame[m].pc \in {"idle", "down"}
               PROVE  Cardinality(pins) <= 1 /\ DOMAIN chat = Reachable
    BY DEF ChatExactlyReachable
  <2>1. DOMAIN chat = Reachable
    BY BooksBalance
  <2>2. Cardinality(pins) <= 1
    <3>1. CASE pins = {}
      BY <3>1, FS_EmptySet
    <3>2. CASE pins # {}
      <4>1. PICK t \in pins : TRUE
        BY <3>2
      <4>2. pins = {t}
        BY <4>1 DEF Lone, OnePin
      <4>3. Cardinality({t}) = 1
        BY FS_Singleton, Zenon
      <4> QED BY <4>2, <4>3
    <3> QED BY <3>1, <3>2
  <2> QED BY <2>1, <2>2
<1> QED BY <1>1, BooksInvariance, PTL

\* "Returns 2 if chat is empty" (tgfs.h): a mount that is alone and is killed
\* only between operations finds no pinned table only where the chat holds no
\* message at all.  A kill in the pin window breaks it (store_window).
THEOREM StartsOverWhenEmptyAlone ==
  ASSUME OneMount, KilledIdle
  PROVE  Spec => []StartsOverWhenEmpty
<1>1. (errors = 0 => Inv /\ Lone /\ Books) => StartsOverWhenEmpty
  <2> SUFFICES ASSUME Inv, Lone, Books, NEW m \in Mounts, At(m, "confirm"), frame[m].hold = 0,
                      NEW x \in DOMAIN chat
               PROVE  FALSE
    BY DEF StartsOverWhenEmpty, StartsOver
  <2>1. /\ ChatOK /\ Own(m) /\ Booked(m) /\ frame[m].pc = "confirm" /\ frame[m] \in Frame
        /\ x # 0
    BY DEF Lone, Books, Inv, TypeOK, ChatOK, At
  <2>2. LastPinned = 0 /\ pins = {}
    BY <2>1, LastPinnedIn DEF Own, PinIsHeld, Starting, Inv, Pinned, HeldIsPinned, ChatOK
  <2>3. Known(m) = EmptyTable
    BY <2>1, <2>2 DEF Known, Starting
  <2>4. \A i \in Ino : EmptyTable[i] = 0 /\ ~Removing(m, i)
    BY <2>1 DEF EmptyTable, Removing, Own, Replaced, PublishPCs
  <2>5. \A i \in Ino : Data(m, i) = 0
    BY <2>1, <2>3, <2>4 DEF Booked, DataHasEntry
  <2>6. Loose(m) = {}
    BY <2>1 DEF Loose, PublishPCs
  <2> QED BY <2>1, <2>2, <2>3, <2>4, <2>5, <2>6 DEF Booked, NothingElse
<1> QED BY <1>1, BooksInvariance, PTL

-----------------------------------------------------------------------------
(* The store of inodes that the next mount finds.                          *)

\* upload and remove begin where nothing is under way, and end there.
Resting == {"idle", "down", "segv", "boot", "mount"}
OpFits(m) ==
    /\ frame[m].pc \in Resting => frame[m].op \notin {"upload", "remove"}
    /\ frame[m].pc \in RefreshPCs /\ frame[m].ret \in Resting
          => frame[m].op \notin {"upload", "remove"}
Ops == \A m \in Mounts : OpFits(m)

\* The values of the view can be told apart.
ViewAssumption == None \notin Ino /\ Torn \notin Contents \cup {Absent}

LEMMA OpsInit ==
  ASSUME Init
  PROVE  Ops
<1>1. \A m \in Mounts : frame[m].pc = "down" /\ frame[m].op = "none"
  BY DEF Init, NoFrame
<1> QED BY <1>1 DEF Ops, OpFits, RefreshPCs

\* What becomes of the operation in each step.
LEMMA OpsStep ==
  ASSUME OneMount, Inv, Lone, Files, Ops, [Work]_vars
  PROVE  Ops'
<1>1. CASE UNCHANGED vars
  BY <1>1 DEF vars, counters, Ops, OpFits
<1>2. ASSUME NEW m \in Mounts, Step(m) \/ Ask(m)
      PROVE  OpFits(m)'
  <2>0. /\ TypeOK /\ frame \in [Mounts -> Frame] /\ frame[m] \in Frame
        /\ OpFits(m) /\ Replaced(m) /\ WhoPublishes(m)
    BY DEF Inv, TypeOK, Ops, Lone, Own, Files, Stored
  <2> USE DEF OpFits, Resting, RefreshPCs, At
  <2>1. CASE RememberMsg(m)
    <3>1. frame'[m] = [frame[m] EXCEPT !.old = table[m][frame[m].ino],
                                       !.pc = "check", !.ret = "update"]
      BY <2>0, <2>1 DEF RememberMsg
    <3>2. frame'[m].pc = "check" /\ frame'[m].ret = "update"
      BY <2>0, <3>1 DEF Frame
    <3> QED BY <3>2
  <2>2. CASE ReadPinned(m)
    <3>1. frame'[m] = [frame[m] EXCEPT !.pc = "confirm", !.hold = LastPinned]
      BY <2>0, <2>2 DEF ReadPinned
    <3>2. /\ frame'[m].pc = "confirm" /\ frame'[m].ret = frame[m].ret
          /\ frame'[m].op = frame[m].op
      BY <2>0, <3>1 DEF Frame
    <3> QED BY <2>0, <2>2, <3>2 DEF ReadPinned
  <2>3. CASE CheckTable(m) \/ TableIsCurrent(m) \/ StartOver(m) \/ AdoptTable(m) \/ FetchTable(m)
    BY <2>0, <2>3, Turns
       DEF CheckTable, TableIsCurrent, StartOver, AdoptTable, FetchTable, Keeps
  <2>4. CASE LookupRoot(m)
    BY <2>0, <2>4, Turns DEF LookupRoot, Keeps
  <2>5. CASE MountExisting(m) \/ DropOld(m)
    BY <2>0, <2>5, Turns DEF MountExisting, DropOld
  <2>6. CASE MakeRoot(m) \/ Lookup(m) \/ SetSize(m) \/ StartUpload(m) \/ Create(m)
    <3>1. \E o, i : \E r \in {"msg", "update"} : Begin(m, o, i, r)
      BY <2>6, Zenon DEF MakeRoot, Lookup, SetSize, StartUpload, Create
    <3> QED BY <2>0, <3>1, Turns
  <2>7. CASE KeepObject(m) \/ ReloadObject(m) \/ LoadBytes(m)
    <3>1. EndUpdate(m) \/ Goto(m, "load")
      BY <2>7, Zenon DEF KeepObject, ReloadObject, LoadBytes
    <3>2. frame'[m].pc \in {"data", "load"} \/ (frame'[m].pc = "idle" /\ frame'[m].op = "none")
      BY <2>0, <3>1, Turns
    <3> QED BY <3>2
  <2>8. CASE SkipData(m) \/ RemoveOldData(m) \/ SendInode(m) \/ RemovePinned(m) \/ PinTable(m)
    <3>1. \E l \in {"inode", "table", "pin", "drop"} : Goto(m, l)
      BY <2>8, Zenon DEF SkipData, RemoveOldData, SendInode, SendsInode, RemovePinned, PinTable
    <3>2. frame'[m].pc \in {"inode", "table", "pin", "drop"}
      BY <2>0, <3>1, Turns
    <3> QED BY <3>2
  <2>9. CASE SendData(m) \/ SendTable(m)
    <3>1. \E l \in {"undata", "swap"} : frame'[m] = [frame[m] EXCEPT !.pc = l, !.new = NextId]
      BY <2>0, <2>9 DEF SendData, SendTable
    <3>2. frame'[m].pc \in {"undata", "swap"}
      BY <2>0, <3>1 DEF Frame
    <3> QED BY <3>2
  <2>10. CASE FindPinned(m)
    <3>1. frame'[m] = [frame[m] EXCEPT !.hold = LastPinned,
                                       !.pc = IF LastPinned = 0 THEN "pin" ELSE "unpin"]
      BY <2>0, <2>10 DEF FindPinned
    <3>2. frame'[m].pc \in {"pin", "unpin"}
      BY <2>0, <3>1 DEF Frame
    <3> QED BY <3>2
  <2>11. CASE Boot(m)
    <3>1. frame'[m] = [NoFrame("pinned") EXCEPT !.op = "boot", !.ret = "boot"]
      BY <2>0, <2>11 DEF Boot
    <3>2. frame'[m].op = "boot"
      BY <3>1 DEF NoFrame
    <3> QED BY <3>2
  <2>12. CASE Kill(m) \/ Segv(m)
    <3>1. \E l : frame'[m] = NoFrame(l)
      BY <2>0, <2>12 DEF Kill, Segv
    <3>2. frame'[m].op = "none"
      BY <3>1 DEF NoFrame
    <3> QED BY <3>2
  <2>13. CASE Write(m) \/ Truncate(m)
    <3>1. UNCHANGED frame
      BY <2>13, Zenon DEF Write, Truncate
    <3> QED BY <2>0, <3>1
  <2>14. CASE StartRemove(m)
    <3>1. PICK i \in inodes[m] :
             frame' = [frame EXCEPT ![m] = [NoFrame("table") EXCEPT
                          !.op = "remove", !.ino = i, !.old = table[m][i]]]
      BY <2>14, Zenon DEF StartRemove, RemovesEntry
    <3>2. frame'[m] = [NoFrame("table") EXCEPT !.op = "remove", !.ino = i, !.old = table[m][i]]
      BY <2>0, <3>1
    <3>3. frame'[m].pc = "table"
      BY <3>2 DEF NoFrame
    <3> QED BY <3>3
  <2> QED BY <1>2, <2>1, <2>2, <2>3, <2>4, <2>5, <2>6, <2>7, <2>8, <2>9, <2>10, <2>11, <2>12,
             <2>13, <2>14 DEF Step, Ask, Refresh
<1> QED BY <1>1, <1>2 DEF Work, Ops, OneMount

-----------------------------------------------------------------------------
(* What an inode shows.                                                    *)

\* Contents, or one of the two other values.
LEMMA ViewValues ==
  ASSUME OneMount, Inv, Lone, NEW m \in Mounts, NEW i \in Ino
  PROVE  View[i] \in Contents \cup {Absent, Torn}
<1> DEFINE x == Published[i]
<1>1. CASE x # 0 /\ ~IsTorn(i) /\ chat[x].full
  <2>1. x \in DOMAIN chat /\ chat[x].kind = "inode" /\ chat[x].data \in DOMAIN chat
    BY <1>1, PublishedLives DEF IsTorn
  <2>2. Is(chat[x].data, "data")
    BY <2>1 DEF Inv, Kinds, KindOfMessages, Refers, Of
  <2>3. chat[chat[x].data].kind = "data" /\ chat[chat[x].data] \in Payload
    BY <2>1, <2>2 DEF Is, Inv, TypeOK, ChatOK
  <2>4. chat[chat[x].data].bytes \in Contents
    BY <2>3 DEF Payload, TableMsg, InodeMsg, DataMsg
  <2> QED BY <1>1, <2>4 DEF View
<1> QED BY <1>1, BlankOK DEF View

\* An inode shows the same if its entry stays, and its messages.
LEMMA ViewStays ==
  ASSUME OneMount, Inv, Lone, NEW m \in Mounts, NEW i \in Ino, Published'[i] = Published[i],
         Published[i] # 0 =>
             /\ Published[i] \in DOMAIN chat' /\ chat'[Published[i]] = chat[Published[i]]
             /\ chat[Published[i]].data \in DOMAIN chat' <=> chat[Published[i]].data \in DOMAIN chat
             /\ chat[Published[i]].data \in DOMAIN chat =>
                   chat'[chat[Published[i]].data] = chat[chat[Published[i]].data]
  PROVE  View'[i] = View[i] /\ (IsTorn(i)' <=> IsTorn(i))
<1> DEFINE x == Published[i]
<1>1. x # 0 => x \in DOMAIN chat
  BY PublishedLives
<1>2. IsTorn(i)' <=> IsTorn(i)
  BY <1>1 DEF IsTorn
<1>3. CASE x = 0
  BY <1>2, <1>3 DEF View
<1>4. CASE x # 0 /\ IsTorn(i)
  BY <1>2, <1>4 DEF View
<1>5. CASE x # 0 /\ ~IsTorn(i)
  <2>1. chat[x].full => chat[x].data \in DOMAIN chat
    BY <1>1, <1>5 DEF IsTorn
  <2>2. View[i] = IF chat[x].full THEN chat[chat[x].data].bytes ELSE Blank
    BY <1>5 DEF View
  <2>3. View'[i] = IF chat'[x].full THEN chat'[chat'[x].data].bytes ELSE Blank
    BY <1>2, <1>5 DEF View
  <2> QED BY <1>2, <1>5, <2>1, <2>2, <2>3
<1> QED BY <1>2, <1>3, <1>4, <1>5

\* The chat as it was.
LEMMA ViewKept ==
  ASSUME OneMount, Inv, Lone, NEW m \in Mounts, UNCHANGED chat, Published' = Published
  PROVE  View' = View
<1>1. \A i \in Ino : View'[i] = View[i]
  BY PublishedLives, ViewStays
<1> QED BY <1>1 DEF View

\* One more message.
LEMMA ViewAfterSend ==
  ASSUME OneMount, Inv, Lone, NEW m \in Mounts, NEW p \in Payload, Send(p), Published' = Published
  PROVE  View' = View
<1>0. ChatOK
  BY DEF Inv, TypeOK
<1>1. /\ DOMAIN chat' = DOMAIN chat \cup {NextId} /\ \A x \in DOMAIN chat : chat'[x] = chat[x]
      /\ NextId \notin DOMAIN chat
  BY <1>0, SendOK DEF Send, ChatOK, NextId
<1>2. ASSUME NEW i \in Ino PROVE View'[i] = View[i]
  <2> DEFINE x == Published[i]
  <2>1. x # 0 => x \in DOMAIN chat /\ chat[x].data # NextId
    <3> SUFFICES ASSUME x # 0 PROVE x \in DOMAIN chat /\ chat[x].data # NextId
      OBVIOUS
    <3>1. x \in DOMAIN chat /\ chat[x].kind = "inode"
      BY PublishedLives
    <3>2. chat[x].data <= lastId /\ lastId \in Nat
      BY <1>0, <3>1 DEF Inv, Kinds, KindOfMessages, Refers, Of, ChatOK
    <3> QED BY <3>1, <3>2 DEF NextId
  <2> QED BY <1>1, <2>1, ViewStays
<1> QED BY <1>2 DEF View

\* One message less.
LEMMA ViewAfterDelete ==
  ASSUME OneMount, Inv, Lone, NEW m \in Mounts, NEW x, Delete(x), NEW i \in Ino,
         Published'[i] = Published[i],
         Published[i] # 0 => Published[i] # x /\
             (chat[Published[i]].data \in DOMAIN chat => chat[Published[i]].data # x)
  PROVE  View'[i] = View[i]
<1>0. ChatOK
  BY DEF Inv, TypeOK
<1>1. DOMAIN chat' = DOMAIN chat \ {x} /\ \A y \in DOMAIN chat' : chat'[y] = chat[y]
  BY <1>0, DeleteOK
<1>2. Published[i] # 0 => Published[i] \in DOMAIN chat
  BY PublishedLives
<1> QED BY <1>1, <1>2, ViewStays

\* The removal of data, whose owner only can tell.
LEMMA ViewAfterData ==
  ASSUME OneMount, Inv, Lone, Files, Inv', Lone', NEW m \in Mounts, NEW i \in Ino,
         Delete(local[m][i].data), frame[m].pc # "pin", frame'[m].pc # "pin"
  PROVE  \A j \in Ino \ {i} : View'[j] = View[j]
<1> DEFINE d == local[m][i].data
<1>1. Published' = Published /\ Is(d, "data")
  BY DataGoneTears, KindsOf
<1>2. ASSUME NEW j \in Ino \ {i} PROVE View'[j] = View[j]
  <2> DEFINE x == Published[j]
  <2>1. x # 0 => x # d
    BY <1>1, PublishedLives DEF Is
  <2>2. x # 0 /\ chat[x].data \in DOMAIN chat => chat[x].data # d
    <3> SUFFICES ASSUME x # 0, chat[x].data \in DOMAIN chat, chat[x].data = d
                 PROVE  FALSE
      OBVIOUS
    <3>1. Owns(m, j, d)
      BY PublishedLives DEF Owns
    <3>2. Owns(m, i, d)
      BY DEF Owns, Data
    <3> QED BY <3>1, <3>2 DEF Files, Stored, DataHasOwner
  <2>3. Delete(d) /\ Published'[j] = Published[j]
    BY <1>1
  <2> HIDE DEF d
  <2> QED BY <2>1, <2>2, <2>3, ViewAfterDelete
<1> QED BY <1>2

\* The removal of any other message.
LEMMA ViewAfterOther ==
  ASSUME OneMount, Inv, Lone, NEW m \in Mounts, NEW x, Delete(x), NEW i \in Ino,
         Published'[i] = Published[i], Published[i] = 0 \/ Published[i] # x,
         x \in DOMAIN chat => chat[x].kind # "data"
  PROVE  View'[i] = View[i]
<1>1. Published[i] # 0 /\ chat[Published[i]].data \in DOMAIN chat => chat[Published[i]].data # x
  <2> SUFFICES ASSUME Published[i] # 0, chat[Published[i]].data \in DOMAIN chat
               PROVE  chat[Published[i]].data # x
    OBVIOUS
  <2>1. Is(chat[Published[i]].data, "data")
    BY PublishedLives DEF Inv, Kinds, KindOfMessages, Refers, Of
  <2> QED BY <2>1 DEF Is
<1> QED BY <1>1, ViewAfterDelete

-----------------------------------------------------------------------------
(* The steps of the store that they make.                                  *)

\* Whether a request has failed is told apart only in the end.
Shown == <<View, Busy, Alive, Exposed>>

\* There is one mount.
LEMMA TheMount ==
  ASSUME OneMount, NEW m \in Mounts
  PROVE  Mount = m
BY DEF Mount, OneMount

\* Away from the pin nothing is exposed.
LEMMA NotExposed ==
  ASSUME OneMount, NEW m \in Mounts
  PROVE  /\ frame[m].pc # "pin" => Exposed = FALSE
         /\ frame'[m].pc # "pin" => Exposed' = FALSE
BY TheMount DEF Exposed, At

\* A step that changes no other inode is a touch.
LEMMA TouchOne ==
  ASSUME OneMount
  PROVE  Inv' /\ Lone' => \A m \in Mounts, i \in Ino :
            (\A j \in Ino \ {i} : View'[j] = View[j]) => Abstract!Touch(i)
<1>1. Inv /\ Lone => \A m \in Mounts, i \in Ino : View[i] \in Contents \cup {Absent, Torn}
  BY ViewValues
<1>2. (Inv /\ Lone)' => (\A m \in Mounts, i \in Ino : View[i] \in Contents \cup {Absent, Torn})'
  BY <1>1, PTL
<1>3. ASSUME Inv', Lone', NEW m \in Mounts, NEW i \in Ino,
             \A j \in Ino \ {i} : View'[j] = View[j]
      PROVE  Abstract!Touch(i)
  <2>1. View'[i] \in Contents \cup {Absent, Torn}
    BY <1>2, <1>3
  <2>2. View' = [View EXCEPT ![i] = View'[i]]
    BY <1>3 DEF View
  <2> QED BY <2>1, <2>2 DEF Abstract!Touch
<1> QED BY <1>3

\* A step that shows nothing, or begins an operation.
LEMMA QuietSim ==
  ASSUME OneMount, Inv, Lone, Inv', Lone', NEW m \in Mounts, View' = View, Exposed' = Exposed,
         frame'[m].pc \notin {"down", "segv"}, frame[m].pc \notin {"down", "segv"},
         \/ frame[m].op \notin {"upload", "remove"}
         \/ frame'[m].op = frame[m].op /\ frame'[m].ino = frame[m].ino
  PROVE  [Abstract!Work]_Shown
<1>0. /\ Mount = m /\ Alive' = Alive /\ Alive = TRUE /\ frame'[m].ino \in Ino
  <2>1. frame' \in [Mounts -> Frame]
    BY DEF Inv, TypeOK
  <2> QED BY <2>1, TheMount DEF Alive, Frame
<1>1. CASE frame[m].op \notin {"upload", "remove"} /\ frame'[m].op \in {"upload", "remove"}
  <2>1. Busy = None /\ Busy' = frame'[m].ino
    BY <1>0, <1>1 DEF Busy
  <2>2. Abstract!Touch(frame'[m].ino)
    BY <1>0, TouchOne
  <2>3. Abstract!Start(frame'[m].ino)
    BY <1>0, <2>1, <2>2 DEF Abstract!Start
  <2> QED BY <1>0, <2>3 DEF Abstract!Work
<1>2. CASE ~(frame[m].op \notin {"upload", "remove"} /\ frame'[m].op \in {"upload", "remove"})
  <2>1. Busy' = Busy
    BY <1>0, <1>2 DEF Busy
  <2> QED BY <1>0, <2>1 DEF Shown
<1> QED BY <1>1, <1>2

\* A step of an upload or a removal that changes its inode alone.
LEMMA ChangeSim ==
  ASSUME OneMount, ViewAssumption, Inv, Lone, Inv', Lone', NEW m \in Mounts,
         \A j \in Ino \ {frame[m].ino} : View'[j] = View[j],
         frame'[m].pc \notin {"down", "segv"}, frame[m].pc \notin {"down", "segv"},
         frame[m].op \in {"upload", "remove"},
         frame'[m].op = frame[m].op, frame'[m].ino = frame[m].ino
  PROVE  [Abstract!Work]_Shown
<1>0. /\ Mount = m /\ Alive' = Alive /\ Alive = TRUE /\ frame[m].ino \in Ino
  BY TheMount, Updates DEF Alive, Inv, TypeOK
<1>1. Busy' = Busy /\ Busy = frame[m].ino /\ Busy # None
  BY <1>0 DEF Busy, ViewAssumption
<1>2. Abstract!Touch(Busy)
  BY <1>0, <1>1, TouchOne
<1>3. Abstract!Change
  BY <1>0, <1>1, <1>2 DEF Abstract!Change, Exposed
<1> QED BY <1>3 DEF Abstract!Work

\* The mount stops, or starts.
LEMMA LifeSim ==
  ASSUME OneMount, Inv, Lone, Ops, Inv', Lone', NEW m \in Mounts,
         Kill(m) \/ Segv(m) \/ Boot(m)
  PROVE  [Abstract!Work]_Shown
<1>0. /\ Mount = m /\ TypeOK /\ frame \in [Mounts -> Frame] /\ OpFits(m) /\ Own(m)
      /\ UNCHANGED <<chat, pins>> /\ LastPinned' = LastPinned
  BY TheMount DEF Inv, TypeOK, Ops, Lone, Kill, Segv, Boot, chatVars, LastPinned
<1>1. \/ frame'[m].pc \in {"down", "segv"} /\ frame'[m].op = "none"
      \/ /\ frame[m].pc \in {"down", "segv"}
         /\ frame'[m].pc = "pinned" /\ frame'[m].op = "boot"
  <2>1. CASE Boot(m)
    <3>1. frame'[m] = [NoFrame("pinned") EXCEPT !.op = "boot", !.ret = "boot"]
      BY <1>0, <2>1 DEF Boot
    <3>2. frame'[m].pc = "pinned" /\ frame'[m].op = "boot"
      BY <3>1 DEF NoFrame
    <3> QED BY <2>1, <3>2 DEF Boot
  <2>2. CASE Kill(m) \/ Segv(m)
    <3>1. \E l \in {"down", "segv"} : frame'[m] = NoFrame(l)
      BY <1>0, <2>2 DEF Kill, Segv
    <3>2. frame'[m].pc \in {"down", "segv"} /\ frame'[m].op = "none"
      BY <3>1 DEF NoFrame
    <3> QED BY <3>2
  <2> QED BY <2>1, <2>2
<1>2. frame'[m].pc # "pin" /\ Exposed' = FALSE
  BY <1>1, NotExposed
<1>3. ASSUME frame[m].pc # "pin" PROVE View' = View /\ Exposed = FALSE
  <2>1. Published' = Published
    BY <1>0, <1>2, <1>3, PublishedIs, PublishedIsNext
  <2> QED BY <1>0, <1>3, <2>1, ViewKept, NotExposed
<1>4. CASE frame[m].pc = "pin"
  <2>1. frame'[m].pc \in {"down", "segv"} /\ frame'[m].op = "none"
    BY <1>1, <1>4
  <2>2. Alive' = FALSE /\ Busy' = None
    BY <1>0, <2>1 DEF Alive, Busy
  <2>3. Exposed /\ pins' = {}
    BY <1>0, <1>4 DEF Own, PinIsHeld, Exposed, At
  <2>4. Published' = EmptyTable
    BY <1>2, <2>3, PublishedIsNext
  <2>5. View' = [i \in Ino |-> Absent]
    BY <2>4 DEF View, EmptyTable
  <2>6. Abstract!Lose
    BY <1>2, <2>2, <2>3, <2>5 DEF Abstract!Lose
  <2> QED BY <2>6 DEF Abstract!Work
<1>5. CASE frame[m].pc # "pin" /\ frame'[m].pc \in {"down", "segv"} /\ frame'[m].op = "none"
  <2>1. Alive' = FALSE /\ Busy' = None
    BY <1>0, <1>5 DEF Alive, Busy
  <2>2. Abstract!Die
    BY <1>2, <1>3, <1>5, <2>1 DEF Abstract!Die
  <2> QED BY <2>2 DEF Abstract!Work
<1>6. CASE /\ frame[m].pc \in {"down", "segv"}
           /\ frame'[m].pc = "pinned" /\ frame'[m].op = "boot"
  <2>1. ~Alive /\ Alive' = TRUE /\ Busy = None /\ Busy' = None
    BY <1>0, <1>6 DEF Alive, Busy, OpFits, Resting
  <2>2. Abstract!Restart
    BY <1>2, <1>3, <1>6, <2>1 DEF Abstract!Restart
  <2> QED BY <2>2 DEF Abstract!Work
<1> QED BY <1>1, <1>4, <1>5, <1>6

\* The steps that leave the chat alone.
LEMMA StillSim ==
  ASSUME OneMount, Inv, Lone, Ops, Inv', Lone', NEW m \in Mounts, CalmStep(m) \/ Refresh(m)
  PROVE  [Abstract!Work]_Shown
<1>0. /\ TypeOK /\ frame \in [Mounts -> Frame] /\ frame[m] \in Frame /\ OpFits(m)
      /\ UNCHANGED <<chat, pins>> /\ LastPinned' = LastPinned
  BY DEF Inv, TypeOK, Ops, chatVars, LastPinned, CalmStep, CheckTable, LookupRoot,
         MountExisting, MakeRoot, KeepObject, ReloadObject, LoadBytes, RememberMsg, SkipData,
         Lookup, Write, Truncate, SetSize, StartUpload, Create, Refresh, ReadPinned,
         TableIsCurrent, StartOver, AdoptTable, FetchTable
<1> USE DEF At
<1>1. /\ frame[m].pc \notin PublishPCs \cup {"down", "segv"}
      /\ frame'[m].pc \notin PublishPCs \cup {"down", "segv"}
      /\ \/ frame[m].op \notin {"upload", "remove"}
         \/ frame'[m].op = frame[m].op /\ frame'[m].ino = frame[m].ino
  <2> USE DEF PublishPCs, OpFits, Resting
  <2>1. CASE RememberMsg(m)
    <3>1. frame'[m] = [frame[m] EXCEPT !.old = table[m][frame[m].ino],
                                       !.pc = "check", !.ret = "update"]
      BY <1>0, <2>1 DEF RememberMsg
    <3>2. /\ frame'[m].pc = "check" /\ frame'[m].op = frame[m].op
          /\ frame'[m].ino = frame[m].ino
      BY <1>0, <3>1 DEF Frame
    <3> QED BY <2>1, <3>2 DEF RememberMsg
  <2>2. CASE ReadPinned(m)
    <3>1. frame'[m] = [frame[m] EXCEPT !.pc = "confirm", !.hold = LastPinned]
      BY <1>0, <2>2 DEF ReadPinned
    <3>2. /\ frame'[m].pc = "confirm" /\ frame'[m].op = frame[m].op
          /\ frame'[m].ino = frame[m].ino
      BY <1>0, <3>1 DEF Frame
    <3> QED BY <2>2, <3>2 DEF ReadPinned
  <2>3. CASE CheckTable(m) \/ TableIsCurrent(m) \/ StartOver(m) \/ AdoptTable(m) \/ FetchTable(m)
    BY <1>0, <2>3, Turns
       DEF CheckTable, TableIsCurrent, StartOver, AdoptTable, FetchTable, Keeps
  <2>4. CASE LookupRoot(m) \/ MountExisting(m)
    BY <1>0, <2>4, Turns DEF LookupRoot, MountExisting, Keeps
  <2>5. CASE MakeRoot(m) \/ Lookup(m) \/ SetSize(m) \/ StartUpload(m) \/ Create(m)
    <3>1. \E o, i, r : Begin(m, o, i, r)
      BY <2>5 DEF MakeRoot, Lookup, SetSize, StartUpload, Create
    <3>2. frame'[m].pc = "check" /\ frame[m].pc \in {"mount", "idle"}
      BY <1>0, <2>5, <3>1, Turns DEF MakeRoot, Lookup, SetSize, StartUpload, Create
    <3> QED BY <1>0, <3>2
  <2>6. CASE KeepObject(m) \/ LoadBytes(m)
    <3>1. EndUpdate(m) /\ frame[m].pc \in {"update", "load"}
      BY <2>6 DEF KeepObject, LoadBytes
    <3>2. \/ frame[m].op = "upload" /\ Goto(m, "data")
          \/ frame[m].op # "upload" /\ Finish(m)
      BY <3>1 DEF EndUpdate
    <3>3. frame[m].op # "remove"
      BY <3>1 DEF Lone, Own, Replaced
    <3> QED BY <1>0, <3>1, <3>2, <3>3, Turns DEF Keeps
  <2>7. CASE ReloadObject(m) \/ SkipData(m)
    BY <1>0, <2>7, Turns DEF ReloadObject, SkipData, Keeps
  <2>8. CASE Write(m) \/ Truncate(m)
    BY <1>0, <2>8 DEF Write, Truncate
  <2> QED BY <2>1, <2>2, <2>3, <2>4, <2>5, <2>6, <2>7, <2>8 DEF CalmStep, Refresh
<1>2. Published' = Published
  <2>1. frame[m].pc # "pin" /\ frame'[m].pc # "pin"
    BY <1>1 DEF PublishPCs
  <2> QED BY <1>0, <2>1, PublishedIs, PublishedIsNext
<1>3. View' = View /\ Exposed' = Exposed
  BY <1>0, <1>1, <1>2, ViewKept, NotExposed DEF PublishPCs
<1> QED BY <1>1, <1>3, QuietSim

\* Messages that are sent show nothing yet.
LEMMA SendSim ==
  ASSUME OneMount, Inv, Lone, Inv', Lone', NEW m \in Mounts,
         SendData(m) \/ SendInode(m) \/ SendTable(m)
  PROVE  [Abstract!Work]_Shown
<1>0. /\ TypeOK /\ ChatOK /\ frame \in [Mounts -> Frame] /\ frame[m] \in Frame
      /\ frame[m].ino \in Ino
  BY Updates DEF Inv, TypeOK
<1>1. PICK p \in Payload : Send(p)
  BY <1>0, PayloadsOK DEF SendData, SendInode, SendsInode, SendTable
<1>2. /\ frame[m].pc \in {"data", "inode", "table"} /\ frame'[m].pc \in {"undata", "table", "swap"}
      /\ frame'[m].op = frame[m].op /\ frame'[m].ino = frame[m].ino
  <2>1. CASE SendInode(m)
    BY <1>0, <2>1, Turns DEF SendInode, SendsInode, At, Keeps
  <2>2. CASE SendData(m) \/ SendTable(m)
    <3>1. \E l \in {"undata", "swap"} : frame'[m] = [frame[m] EXCEPT !.pc = l, !.new = NextId]
      BY <1>0, <2>2 DEF SendData, SendTable
    <3>2. /\ frame'[m].pc \in {"undata", "swap"}
          /\ frame'[m].op = frame[m].op /\ frame'[m].ino = frame[m].ino
      BY <1>0, <3>1 DEF Frame
    <3> QED BY <2>2, <3>2 DEF SendData, SendTable, At
  <2> QED BY <2>1, <2>2
<1>3. pins' = pins /\ \A t \in pins : chat'[t] = chat[t]
  BY <1>0, <1>1, SendOK DEF ChatOK, Send
<1>4. View' = View /\ Exposed' = Exposed
  BY <1>1, <1>2, <1>3, StillPublished, ViewAfterSend, NotExposed
<1> QED BY <1>2, <1>4, QuietSim

\* Data that goes changes the inode under way.
LEMMA OldDataSim ==
  ASSUME OneMount, ViewAssumption, Inv, Lone, Files, Inv', Lone', NEW m \in Mounts,
         RemoveOldData(m)
  PROVE  [Abstract!Work]_Shown
<1>0. TypeOK /\ frame[m].ino \in Ino /\ WhoPublishes(m)
  BY Updates DEF Inv, TypeOK, Files, Stored
<1>1. frame[m].pc = "undata" /\ frame'[m].pc = "inode" /\ Keeps(m)
  BY <1>0, Turns DEF RemoveOldData, At
<1>2. \A j \in Ino \ {frame[m].ino} : View'[j] = View[j]
  BY <1>0, <1>1, ViewAfterData DEF RemoveOldData
<1> QED BY <1>0, <1>1, <1>2, ChangeSim DEF Keeps, WhoPublishes

\* remove begins with a change.
LEMMA RemovalSim ==
  ASSUME OneMount, Inv, Lone, Files, Ops, Inv', Lone', NEW m \in Mounts, StartRemove(m)
  PROVE  [Abstract!Work]_Shown
<1>0. /\ Mount = m /\ OpFits(m) /\ frame \in [Mounts -> Frame]
      /\ inodes \in [Mounts -> SUBSET Ino] /\ frame[m].pc = "idle"
  BY TheMount DEF Inv, TypeOK, Ops, StartRemove, RemovesEntry, At
<1>1. PICK i \in inodes[m] :
         /\ Delete(local[m][i].data)
         /\ frame' = [frame EXCEPT ![m] = [NoFrame("table") EXCEPT
                         !.op = "remove", !.ino = i, !.old = table[m][i]]]
  BY DEF StartRemove, RemovesEntry
<1>2. frame'[m].pc = "table" /\ frame'[m].op = "remove" /\ frame'[m].ino = i
  <2>1. frame'[m] = [NoFrame("table") EXCEPT !.op = "remove", !.ino = i, !.old = table[m][i]]
    BY <1>0, <1>1
  <2> QED BY <2>1 DEF NoFrame
<1>3. i \in Ino
  BY <1>0
<1>4. \A j \in Ino \ {i} : View'[j] = View[j]
  BY <1>0, <1>1, <1>2, <1>3, ViewAfterData
<1>5. Abstract!Touch(i)
  BY <1>3, <1>4, TouchOne
<1>6. Alive /\ Alive' = Alive /\ Busy = None /\ Busy' = i
  BY <1>0, <1>2 DEF Alive, Busy, OpFits, Resting
<1>7. Exposed' = Exposed
  BY <1>0, <1>2, NotExposed
<1>8. Abstract!Start(i)
  BY <1>5, <1>6, <1>7 DEF Abstract!Start
<1> QED BY <1>3, <1>8 DEF Abstract!Work

\* From the table in the chat to its pin.
LEMMA PublishSim ==
  ASSUME OneMount, ViewAssumption, Inv, Lone, Files, Losses, Inv', Lone', NEW m \in Mounts,
         FindPinned(m) \/ RemovePinned(m) \/ PinTable(m)
  PROVE  [Abstract!Work]_Shown
<1>0. /\ TypeOK /\ frame \in [Mounts -> Frame] /\ frame[m] \in Frame /\ WhoPublishes(m)
      /\ OthersPublished(m) /\ table' = table /\ Own(m)
      /\ (pins = {} <=> LastPinned = 0) /\ (pins # {} => LastPinned \in pins)
  BY LastPinnedIn
     DEF Inv, TypeOK, Files, Stored, Losses, Lone, FindPinned, RemovePinned, PinTable, mountVars
<1>1. /\ frame[m].pc \in {"swap", "unpin", "pin"} /\ frame'[m].pc \in {"unpin", "pin", "drop"}
      /\ frame'[m].op = frame[m].op /\ frame'[m].ino = frame[m].ino
  <2>1. CASE FindPinned(m)
    <3>1. frame'[m] = [frame[m] EXCEPT !.hold = LastPinned,
                                       !.pc = IF LastPinned = 0 THEN "pin" ELSE "unpin"]
      BY <1>0, <2>1 DEF FindPinned
    <3> QED BY <1>0, <2>1, <3>1 DEF FindPinned, At, Frame
  <2>2. CASE RemovePinned(m) \/ PinTable(m)
    BY <1>0, <2>2, Turns DEF RemovePinned, PinTable, At, Keeps
  <2> QED BY <2>1, <2>2
<1>2. frame[m].op \in {"upload", "remove"}
  BY <1>0, <1>1 DEF WhoPublishes, PublishPCs
<1>3. CASE FindPinned(m) \/ PinTable(m)
  <2>1. chat' = chat
    BY <1>3 DEF FindPinned, PinTable, Pin, chatVars
  <2>2. ASSUME NEW j \in Ino \ {frame[m].ino} PROVE Published'[j] = Published[j]
    <3>1. CASE PinTable(m)
      <4>1. frame[m].pc = "pin" /\ frame'[m].pc = "drop"
        BY <1>0, <3>1, Turns DEF PinTable, At
      <4> QED BY <1>0, <4>1, PublishedIs, PublishedIsNext
    <3>2. CASE FindPinned(m) /\ pins = {}
      <4>1. frame'[m].pc = "pin" /\ frame[m].pc = "swap"
        <5>1. frame'[m] = [frame[m] EXCEPT !.hold = LastPinned,
                                           !.pc = IF LastPinned = 0 THEN "pin" ELSE "unpin"]
          BY <1>0, <3>2 DEF FindPinned
        <5> QED BY <1>0, <3>2, <5>1 DEF FindPinned, At, Frame
      <4> QED BY <1>0, <4>1, PublishedIsNext DEF OthersPublished
    <3>3. CASE FindPinned(m) /\ pins # {}
      <4>1. frame'[m].pc = "unpin" /\ frame[m].pc = "swap"
        <5>1. frame'[m] = [frame[m] EXCEPT !.hold = LastPinned,
                                           !.pc = IF LastPinned = 0 THEN "pin" ELSE "unpin"]
          BY <1>0, <3>3 DEF FindPinned
        <5> QED BY <1>0, <3>3, <5>1 DEF FindPinned, At, Frame
      <4>2. UNCHANGED <<chat, pins>> /\ LastPinned' = LastPinned
        BY <3>3 DEF FindPinned, chatVars, LastPinned
      <4> QED BY <4>1, <4>2, PublishedIs, PublishedIsNext
    <3> QED BY <1>3, <3>1, <3>2, <3>3
  <2>3. \A j \in Ino \ {frame[m].ino} : View'[j] = View[j]
    BY <2>1, <2>2, PublishedLives, ViewStays
  <2> QED BY <1>1, <1>2, <2>3, ChangeSim
<1>4. CASE RemovePinned(m)
  <2> DEFINE x == frame[m].hold
  <2>1. /\ frame[m].pc = "unpin" /\ frame'[m].pc = "pin" /\ Delete(x)
    BY <1>0, <1>4, Turns DEF RemovePinned, At
  <2>2. x \in DOMAIN chat /\ chat[x].kind = "table"
    BY <1>0, <2>1, KindsOf DEF Own, PinIsHeld
  <2>3. ASSUME NEW j \in Ino \ {frame[m].ino} PROVE View'[j] = View[j]
    <3>1. Published'[j] = Published[j]
      BY <1>0, <2>1, PublishedIsNext DEF OthersPublished
    <3>2. Published[j] = 0 \/ Published[j] # x
      BY <2>2, PublishedLives
    <3> HIDE DEF x
    <3> QED BY <2>1, <2>2, <3>1, <3>2, ViewAfterOther
  <2> QED BY <1>1, <1>2, <2>3, ChangeSim
<1> QED BY <1>3, <1>4

\* The end: the inode can be read, or is gone.
LEMMA DropSim ==
  ASSUME OneMount, ViewAssumption, Inv, Lone, Files, Losses, Inv', Lone', NEW m \in Mounts,
         DropOld(m)
  PROVE  [Abstract!Work]_Shown
<1> DEFINE o == frame[m].old
<1>0. /\ TypeOK /\ ChatOK /\ table' = table /\ RemovedIsGone(m) /\ Own(m) /\ Stored(m)
      /\ Delete(o) /\ Mount = m
  BY TheMount DEF Inv, TypeOK, Lone, Files, Losses, DropOld
<1>1. PICK i \in Ino : i = frame[m].ino
  BY Updates DEF Inv, TypeOK
<1>2. frame[m].pc = "drop" /\ frame'[m].pc = "idle" /\ frame'[m].op = "none"
  BY <1>0, Turns DEF DropOld, At
<1>3. table[m] = Published /\ Published' = Published
  BY <1>0, <1>2, PublishedIs, PublishedIsNext, CalmLabels
<1>4. (o \in DOMAIN chat => chat[o].kind # "data") /\ IsInodeOf(o, i)
  BY <1>1, KindsOf DEF IsInodeOf
<1>5. o = 0 \/ Published[i] # o
  BY <1>0, <1>1, <1>2, <1>3 DEF Own, Replaced, PublishPCs
<1>6. ASSUME NEW j \in Ino PROVE View'[j] = View[j]
  <2>1. Published[j] = 0 \/ Published[j] # o
    BY <1>0, <1>4, <1>5, PublishedLives DEF IsInodeOf, ChatOK
  <2> HIDE DEF o
  <2> QED BY <1>0, <1>3, <1>4, <2>1, ViewAfterOther
<1>7. View' = View
  BY <1>6 DEF View
<1>8. frame[m].op \in {"upload", "remove"}
  BY <1>0, <1>2 DEF Stored, WhoPublishes, PublishPCs
<1>9. ~IsTorn(i)
  <2>1. CASE frame[m].op = "remove"
    BY <1>0, <1>1, <1>3, <2>1 DEF RemovedIsGone, IsTorn
  <2>2. CASE frame[m].op = "upload"
    <3>1. /\ Published[i] \in DOMAIN chat
          /\ chat[Published[i]].full => chat[Published[i]].data \in DOMAIN chat
      BY <1>0, <1>1, <1>2, <1>3, <2>2 DEF Stored, FileIsSent, PublishPCs, HasBytes
    <3> QED BY <3>1 DEF IsTorn
  <2> QED BY <1>8, <2>1, <2>2
<1>10. View[i] # Torn
  <2> DEFINE x == Published[i]
  <2>1. CASE x = 0
    BY <2>1 DEF View, ViewAssumption
  <2>2. CASE x # 0 /\ ~chat[x].full
    BY <1>9, <2>2, BlankOK DEF View, ViewAssumption
  <2>3. CASE x # 0 /\ chat[x].full
    <3>1. View[i] = chat[chat[x].data].bytes /\ chat[x].data \in DOMAIN chat
      BY <1>9, <2>3, PublishedLives DEF View, IsTorn
    <3>2. Is(chat[x].data, "data")
      BY <2>3, PublishedLives DEF Inv, Kinds, KindOfMessages, Refers, Of
    <3>3. chat[chat[x].data].kind = "data" /\ chat[chat[x].data] \in Payload
      BY <1>0, <3>1, <3>2 DEF Is, ChatOK
    <3>4. chat[chat[x].data].bytes \in Contents
      BY <3>3 DEF Payload, TableMsg, InodeMsg, DataMsg
    <3> QED BY <3>1, <3>4 DEF ViewAssumption
  <2> QED BY <2>1, <2>2, <2>3
<1>11. Busy = i /\ Busy' = None /\ Alive' = Alive /\ i # None
  BY <1>0, <1>1, <1>2, <1>8 DEF Busy, Alive, ViewAssumption
<1>12. Exposed = FALSE /\ Exposed' = FALSE
  BY <1>2, NotExposed
<1>13. Abstract!Finish
  BY <1>7, <1>10, <1>11, <1>12 DEF Abstract!Finish
<1> QED BY <1>13 DEF Abstract!Work

\* In the beginning there is no inode.
LEMMA ViewInit ==
  ASSUME OneMount, Mounts # {}, Init
  PROVE  Abstract!Init
<1>1. PICK m \in Mounts : TRUE
  OBVIOUS
<1>2. Mount = m /\ frame[m].pc = "down" /\ frame[m].op = "none"
  BY <1>1, TheMount DEF Init, NoFrame
<1>3. Published = EmptyTable
  BY <1>2 DEF Init, EmptyChat, Published, At, NoFrame
<1>4. View = [i \in Ino |-> Absent]
  BY <1>3 DEF View, EmptyTable
<1>5. Exposed = FALSE
  BY <1>1, <1>2, NotExposed
<1>6. (errors > 0) = FALSE
  BY DEF Init
<1> QED BY <1>2, <1>4, <1>5, <1>6 DEF Abstract!Init, Busy, Alive

\* Every step is a step of the abstract store, or shows nothing.
LEMMA ViewStep ==
  ASSUME OneMount, ViewAssumption, Mounts # {},
         Inv, Lone, Files, Losses, Ops, Inv', Lone', [Work]_vars
  PROVE  [Abstract!Work]_Shown
<1>1. CASE UNCHANGED vars
  <2>1. UNCHANGED <<chat, pins, frame>>
    BY <1>1 DEF vars, counters, chatVars
  <2>2. LastPinned' = LastPinned
    BY <2>1 DEF LastPinned
  <2>3. Published' = Published
    BY <2>1, <2>2 DEF Published, At
  <2>4. View' = View
    BY <2>1, <2>3, ViewKept
  <2> QED BY <2>1, <2>4 DEF Shown, Busy, Alive, Exposed, At
<1>2. ASSUME NEW m \in Mounts, Step(m) \/ Ask(m)
      PROVE  [Abstract!Work]_Shown
  <2>1. \/ CalmStep(m) \/ Refresh(m) \/ Boot(m) \/ Kill(m) \/ Segv(m)
        \/ SendData(m) \/ RemoveOldData(m) \/ SendInode(m) \/ SendTable(m) \/ FindPinned(m)
        \/ RemovePinned(m) \/ PinTable(m) \/ DropOld(m) \/ StartRemove(m)
    BY <1>2 DEF Step, Ask, CalmStep
  <2> QED BY <2>1, StillSim, LifeSim, SendSim, OldDataSim, RemovalSim, PublishSim, DropSim
<1> QED BY <1>1, <1>2 DEF Work

\* The same with the requests that fail.
LEMMA ViewStepAny ==
  ASSUME OneMount, ViewAssumption, Mounts # {}, TypeOK, TypeOK', [Next]_vars,
         errors = 0 => Inv /\ Lone /\ Files /\ Losses /\ Ops,
         errors' = 0 => Inv' /\ Lone'
  PROVE  [Abstract!Next]_(Abstract!storeVars)
<1>1. CASE errors' = 0
  <2>1. errors = 0 /\ [Work]_vars
    BY <1>1, NotFailedYet
  <2>2. [Abstract!Work]_Shown
    BY <1>1, <2>1, ViewStep
  <2>3. (errors > 0) = FALSE /\ (errors' > 0) = FALSE
    BY <1>1, <2>1
  <2> QED BY <2>2, <2>3 DEF Abstract!Next, Abstract!storeVars, Shown
<1>2. CASE errors' # 0
  <2>1. CASE UNCHANGED vars
    <3>1. UNCHANGED <<chat, pins, frame, errors>>
      BY <2>1 DEF vars, counters, chatVars
    <3>2. LastPinned' = LastPinned
      BY <3>1 DEF LastPinned
    <3>3. Published' = Published
      BY <3>1, <3>2 DEF Published, At
    <3>4. View' = View
      BY <3>1, <3>3 DEF View, IsTorn
    <3> QED BY <3>1, <3>4 DEF Abstract!storeVars, Busy, Alive, Exposed, At
  <2>2. CASE Next
    <3>1. errors' \in Nat
      BY DEF TypeOK
    <3>2. (errors' > 0) = TRUE
      BY <1>2, <3>1
    <3> QED BY <3>2 DEF Abstract!Next
  <2> QED BY <2>1, <2>2
<1> QED BY <1>1, <1>2

\* A mount that may be killed anywhere implements the abstract store up to the
\* first request that fails: no upload or removal changes what another inode
\* holds, nor returns with its own unreadable, and a kill loses more than the
\* inode under way only between the removal of the pinned table and the pin of
\* the next.
THEOREM ImplementsInodeStoreAlways ==
  ASSUME OneMount, Mounts # {}, ViewAssumption
  PROVE  Spec => ImplementsInodeStore
<1>1. Init => Abstract!Init /\ Ops
  BY ViewInit, OpsInit
<1>2. TypeOK /\ (errors = 0 => Inv /\ Lone /\ Files /\ Ops) /\ [Next]_vars
      => (errors = 0 => Ops)'
  <2> SUFFICES ASSUME TypeOK, errors = 0 => Inv /\ Lone /\ Files /\ Ops, [Next]_vars, errors' = 0
               PROVE  Ops'
    OBVIOUS
  <2>1. errors = 0 /\ [Work]_vars
    BY NotFailedYet
  <2>2. Inv /\ Lone /\ Files /\ Ops
    BY <2>1
  <2> QED BY <2>1, <2>2, OpsStep
<1>3. TypeOK /\ TypeOK' /\ (errors = 0 => Inv /\ Lone /\ Files /\ Losses /\ Ops)
        /\ (errors = 0 => Inv /\ Lone)' /\ [Next]_vars
      => [Abstract!Next]_(Abstract!storeVars)
  BY ViewStepAny
<1> QED BY <1>1, <1>2, <1>3, LossesInvariance, TypeCorrect, PTL
        DEF Spec, ImplementsInodeStore, Abstract!Spec
=============================================================================
