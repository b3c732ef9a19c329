--------------------------- MODULE TgfsMountProofs ---------------------------
(***************************************************************************)
(* Proofs about TgfsStore for a chat with one mount at a time, killed at   *)
(* any step and restarted: what two mounts break (see store_stale and      *)
(* store_window) holds for it.                                             *)
(*                                                                         *)
(* Three invariants, each on top of the ones before.  Lone: at most one    *)
(* message is pinned, and a mount that has started is in step with it.     *)
(* Files: no two files share data, and data is in the chat before anything *)
(* names it.  Losses: the pinned table is behind the one of the mount in   *)
(* one inode at most, which is all that a kill can cost.                   *)
(***************************************************************************)
EXTENDS TgfsStoreProofs

OneMount == \A m, n \in Mounts : m = n

\* The steps before current_table_id_ is set, and the ones that neither
\* refresh the table nor publish it.
Starting == {"down", "segv", "pinned", "confirm"}
Calm == {"idle", "boot", "mount", "check"} \cup UploadPCs

OnePin == \A s, t \in pins : s = t
PinsLead ==
    \A t \in pins : \A i \in Ino : chat[t].map[i] # 0 => chat[t].map[i] \in DOMAIN chat

CurIsPin(m) ==
    /\ frame[m].pc \in Starting => cur[m] = 0
    /\ frame[m].pc \notin Starting \cup {"pin"} => cur[m] = LastPinned

PinIsHeld(m) ==
    /\ frame[m].pc \in {"confirm", "unpin"} => frame[m].hold = LastPinned
    /\ frame[m].pc = "pin" => pins = {}
    /\ frame[m].pc \in {"fetch", "unpin", "drop"} => pins # {}

NewIsSent(m) ==
    frame[m].pc \in {"swap", "unpin", "pin"} => frame[m].new \in DOMAIN chat \ pins

\* A mount that found nothing pinned has an empty table until it pins one.
EmptyUntilPinned(m) ==
    /\ pins = {} /\ frame[m].pc \notin PublishPCs => table[m] = EmptyTable
    /\ frame[m].pc \in {"down", "segv"} => table[m] = EmptyTable

CacheIsTable(m) == \A i \in inodes[m] : local[m][i].version = table[m][i]

CacheStarts(m) ==
    /\ frame[m].pc \in {"down", "segv", "fetch"} => inodes[m] = {}
    /\ frame[m].pc \in {"pinned", "confirm"} => inodes[m] = {} \/ pins = {}

\* The message that upload and remove drop last has left the table; remove
\* publishes and does nothing else.
Replaced(m) ==
    /\ frame[m].pc \in PublishPCs => frame[m].old = 0 \/ table[m][frame[m].ino] # frame[m].old
    /\ frame[m].op = "remove" => frame[m].pc \in PublishPCs /\ frame[m].ino \notin inodes[m]

TableLives(m) == \A i \in Ino : table[m][i] # 0 => table[m][i] \in DOMAIN chat

Own(m) == /\ CurIsPin(m) /\ PinIsHeld(m) /\ NewIsSent(m) /\ EmptyUntilPinned(m)
          /\ CacheIsTable(m) /\ CacheStarts(m) /\ Replaced(m) /\ TableLives(m)

Lone == OnePin /\ PinsLead /\ \A m \in Mounts : Own(m)

-----------------------------------------------------------------------------
(* Control.                                                                *)

Keeps(m) == /\ frame'[m].op = frame[m].op /\ frame'[m].ino = frame[m].ino
            /\ frame'[m].old = frame[m].old /\ frame'[m].hold = frame[m].hold
            /\ frame'[m].new = frame[m].new

\* Where the steps of the control go, and what they keep.
LEMMA Turns ==
  ASSUME TypeOK, NEW m \in Mounts
  PROVE  /\ \A l : Goto(m, l) => frame'[m].pc = l /\ Keeps(m) /\ frame'[m].ret = frame[m].ret
         /\ Return(m) => /\ frame'[m].pc = frame[m].ret /\ Keeps(m)
                         /\ frame'[m].ret = frame[m].ret
                         /\ frame[m].ret \in {"idle", "boot", "mount", "msg", "update"}
         /\ Finish(m) => frame'[m].pc = "idle" /\ frame'[m].op = "none"
         /\ EndUpdate(m) => \/ frame'[m].pc = "data" /\ Keeps(m) /\ frame[m].op = "upload"
                            \/ frame'[m].pc = "idle" /\ frame'[m].op = "none"
         /\ \A l : CallRefresh(m, l) =>
               frame'[m].pc = "check" /\ frame'[m].ret = l /\ Keeps(m)
         /\ \A o, i, l : Begin(m, o, i, l) =>
               frame'[m].pc = "check" /\ frame'[m].op = o /\ frame'[m].ret = l
<1>0. frame \in [Mounts -> Frame] /\ frame[m] \in Frame
  BY DEF TypeOK
<1>1. \A l : Goto(m, l) => frame'[m].pc = l /\ Keeps(m) /\ frame'[m].ret = frame[m].ret
  <2> SUFFICES ASSUME NEW l, Goto(m, l)
               PROVE  frame'[m].pc = l /\ Keeps(m) /\ frame'[m].ret = frame[m].ret
    OBVIOUS
  <2>1. frame'[m] = [frame[m] EXCEPT !.pc = l]
    BY <1>0 DEF Goto
  <2> QED BY <1>0, <2>1 DEF Keeps, Frame
<1>2. Return(m) => /\ frame'[m].pc = frame[m].ret /\ Keeps(m)
                   /\ frame'[m].ret = frame[m].ret
                   /\ frame[m].ret \in {"idle", "boot", "mount", "msg", "update"}
  BY <1>0, <1>1 DEF Return, Frame, ReturnPCs
<1>3. Finish(m) => frame'[m].pc = "idle" /\ frame'[m].op = "none"
  BY <1>0 DEF Finish, NoFrame
<1>4. EndUpdate(m) => \/ frame'[m].pc = "data" /\ Keeps(m) /\ frame[m].op = "upload"
                      \/ frame'[m].pc = "idle" /\ frame'[m].op = "none"
  BY <1>1, <1>3 DEF EndUpdate
<1>5. \A l : CallRefresh(m, l) =>
               frame'[m].pc = "check" /\ frame'[m].ret = l /\ Keeps(m)
  <2> SUFFICES ASSUME NEW l, CallRefresh(m, l)
               PROVE  frame'[m].pc = "check" /\ frame'[m].ret = l /\ Keeps(m)
    OBVIOUS
  <2>1. frame'[m] = [frame[m] EXCEPT !.pc = "check", !.ret = l]
    BY <1>0 DEF CallRefresh
  <2> QED BY <1>0, <2>1 DEF Keeps, Frame
<1>6. \A o, i, l : Begin(m, o, i, l) =>
         frame'[m].pc = "check" /\ frame'[m].op = o /\ frame'[m].ret = l
  <2> SUFFICES ASSUME NEW o, NEW i, NEW l, Begin(m, o, i, l)
               PROVE  frame'[m].pc = "check" /\ frame'[m].op = o /\ frame'[m].ret = l
    OBVIOUS
  <2>1. frame'[m] = [NoFrame("check") EXCEPT !.op = o, !.ino = i, !.ret = l]
    BY <1>0 DEF Begin
  <2> QED BY <2>1 DEF NoFrame
<1> QED BY <1>1, <1>2, <1>3, <1>4, <1>5, <1>6

\* No removal begins.
SameOp(m) == frame'[m].op = "remove" => frame[m].op = "remove"

\* The labels alone.
LEMMA Goes ==
  ASSUME TypeOK, NEW m \in Mounts
  PROVE  /\ \A l : Goto(m, l) => frame'[m].pc = l /\ Keeps(m)
         /\ Return(m) => frame'[m].pc \in {"idle", "boot", "mount", "msg", "update"} /\ SameOp(m)
         /\ Finish(m) => frame'[m].pc = "idle" /\ SameOp(m)
         /\ EndUpdate(m) => frame'[m].pc \in {"data", "idle"} /\ SameOp(m)
         /\ \A l : CallRefresh(m, l) => frame'[m].pc = "check" /\ SameOp(m)
         /\ \A o, i, l : Begin(m, o, i, l) /\ o # "remove" => frame'[m].pc = "check" /\ SameOp(m)
BY Turns DEF Keeps, SameOp

-----------------------------------------------------------------------------
(* Steps that neither refresh the table nor publish it.                    *)

\* The calm labels are none of the others.
LEMMA CalmLabels ==
  /\ {"idle", "boot", "mount", "check", "msg", "update", "load", "data", "undata", "inode"} = Calm
  /\ \A l \in Calm : l \notin Starting \cup PublishPCs \cup {"fetch"}
BY DEF Calm, Starting, PublishPCs, UploadPCs

\* A step between calm labels that leaves the chat and the table as they are,
\* and the cache in step with the table.
LEMMA CalmOK ==
  ASSUME Lone, NEW m \in Mounts, OneMount, UNCHANGED <<chat, pins, table, cur>>,
         frame[m].pc \in Calm, frame'[m].pc \in Calm, SameOp(m), CacheIsTable(m)'
  PROVE  Lone'
<1>1. Own(m)'
  BY CalmLabels
     DEF Lone, Own, CurIsPin, PinIsHeld, NewIsSent, EmptyUntilPinned, CacheIsTable, CacheStarts,
         Replaced, TableLives, LastPinned, PublishPCs, SameOp
<1> QED BY <1>1 DEF Lone, OneMount, OnePin, PinsLead

\* Such steps, and what they do.
CalmStep(m) == \/ CheckTable(m) /\ UpToDate(m)
               \/ LookupRoot(m) \/ MountExisting(m) \/ MakeRoot(m)
               \/ KeepObject(m) \/ ReloadObject(m) \/ LoadBytes(m)
               \/ RememberMsg(m) \/ SkipData(m)
               \/ Lookup(m) \/ Write(m) \/ Truncate(m) \/ SetSize(m)
               \/ StartUpload(m) \/ Create(m)

\* Their control.
LEMMA CalmMoves ==
  ASSUME TypeOK, NEW m \in Mounts, CalmStep(m)
  PROVE  frame[m].pc \in Calm /\ frame'[m].pc \in Calm /\ SameOp(m)
<1> USE CalmLabels
<1>1. CASE RememberMsg(m)
  <2>1. frame'[m] = [frame[m] EXCEPT !.old = table[m][frame[m].ino],
                                     !.pc = "check", !.ret = "update"]
    BY <1>1 DEF RememberMsg, TypeOK
  <2> QED BY <1>1, <2>1 DEF RememberMsg, At, TypeOK, Frame, SameOp
<1>2. CASE Create(m)
  <2>1. frame[m].pc = "idle" /\ \E i : Begin(m, "upload", i, "msg")
    BY <1>2 DEF Create, At
  <2> QED BY <2>1, Goes
<1>3. CASE (CheckTable(m) /\ UpToDate(m)) \/ LookupRoot(m) \/ MountExisting(m) \/ MakeRoot(m)
  BY <1>3, Goes DEF CheckTable, LookupRoot, MountExisting, MakeRoot, At
<1>4. CASE KeepObject(m) \/ ReloadObject(m) \/ LoadBytes(m) \/ SkipData(m)
  BY <1>4, Goes DEF KeepObject, ReloadObject, LoadBytes, SkipData, At, Keeps, SameOp
<1>5. CASE Lookup(m) \/ Write(m) \/ Truncate(m) \/ SetSize(m) \/ StartUpload(m)
  BY <1>5, Goes DEF Lookup, Write, Truncate, SetSize, StartUpload, At, SameOp
<1> QED BY <1>1, <1>2, <1>3, <1>4, <1>5 DEF CalmStep

\* Their cache.
LEMMA CalmCache ==
  ASSUME TypeOK, NEW m \in Mounts, CacheIsTable(m), CalmStep(m)
  PROVE  UNCHANGED <<chat, pins, table, cur>> /\ CacheIsTable(m)'
<1>0. /\ local \in [Mounts -> [Ino -> File]] /\ inodes \in [Mounts -> SUBSET Ino]
      /\ frame[m].ino \in Ino /\ local[m] \in [Ino -> File]
  BY Updates DEF TypeOK
<1>1. UNCHANGED <<chat, pins, table, cur>>
  BY DEF CalmStep, CheckTable, LookupRoot, MountExisting, MakeRoot, KeepObject, ReloadObject,
         LoadBytes, RememberMsg, SkipData, Lookup, Write, Truncate, SetSize, StartUpload, Create,
         chatVars, mountVars
<1> SUFFICES CacheIsTable(m)'
  BY <1>1
<1>2. CASE UNCHANGED <<local, inodes>>
  BY <1>1, <1>2 DEF CacheIsTable
<1>3. ASSUME inodes' = inodes, NEW i \in Ino, NEW f \in File, f.version = local[m][i].version,
             local' = [local EXCEPT ![m][i] = f]
      PROVE  CacheIsTable(m)'
  BY <1>0, <1>1, <1>3 DEF CacheIsTable
<1>4. ASSUME NEW i \in Ino, NEW f \in File, f.version = table[m][i],
             inodes' = [inodes EXCEPT ![m] = @ \cup {i}],
             local' = [local EXCEPT ![m][i] = f]
      PROVE  CacheIsTable(m)'
  BY <1>0, <1>1, <1>4 DEF CacheIsTable
<1>5. CASE MakeRoot(m)
  <2>1. /\ [NoFile EXCEPT !.dirty = TRUE, !.full = TRUE] \in File
        /\ [NoFile EXCEPT !.dirty = TRUE, !.full = TRUE].version = 0
    BY BlankOK DEF NoFile, File
  <2> QED BY <1>4, <1>5, <2>1, RootIn DEF MakeRoot
<1>6. CASE ReloadObject(m)
  <2> DEFINE i == frame[m].ino
             x == table[m][i]
             f == [version |-> x, dirty |-> TRUE, full |-> chat[x].full,
                   data |-> chat[x].data, bytes |-> local[m][i].bytes]
  <2>1. /\ inodes' = [inodes EXCEPT ![m] = @ \cup {i}] /\ local' = [local EXCEPT ![m][i] = f]
        /\ f.version = table[m][i]
    BY <1>6 DEF ReloadObject
  <2> HIDE DEF f
  <2> QED BY <1>0, <1>1, <2>1 DEF CacheIsTable
<1>7. CASE Create(m)
  <2> DEFINE i == Min(NewInos(m))
  <2>1. PICK full \in BOOLEAN :
          /\ inodes' = [inodes EXCEPT ![m] = @ \cup {i}]
          /\ local' = [local EXCEPT ![m][i] = [version |-> 0, dirty |-> TRUE, full |-> full,
                                               data |-> @.data, bytes |-> Blank]]
    BY <1>7 DEF Create
  <2>2. i \in Ino /\ table[m][i] = 0
    <3>1. NewInos(m) # {} /\ NewInos(m) \in SUBSET (1..MaxIno) /\ MaxIno \in Nat
      BY <1>7, StoreAssumption DEF Create, NewInos, Ino
    <3> QED BY <3>1, MinIn DEF NewInos
  <2>3. local[m][i] \in File
    BY <1>0, <2>2
  <2>4. [version |-> 0, dirty |-> TRUE, full |-> full, data |-> local[m][i].data,
         bytes |-> Blank] \in File
    BY <2>3, BlankOK DEF File
  <2> HIDE DEF i
  <2> QED BY <1>4, <2>1, <2>2, <2>4
<1>8. CASE LoadBytes(m)
  <2> DEFINE i == frame[m].ino
  <2>0. local[m][i] \in File
    BY <1>0
  <2>1. inodes' = inodes /\
        \/ local' = local
        \/ local' = [local EXCEPT ![m][i].bytes = Blank]
        \/ local' = [local EXCEPT ![m][i] = [@ EXCEPT !.bytes = chat[local[m][i].data].bytes,
                                                      !.dirty = FALSE]]
    BY <1>8 DEF LoadBytes
  <2>2. \A j \in Ino : local'[m][j].version = local[m][j].version
    <3>1. CASE local' = [local EXCEPT ![m][i].bytes = Blank]
      BY <1>0, <2>0, <3>1 DEF File
    <3>2. CASE local' = [local EXCEPT ![m][i] = [@ EXCEPT !.bytes = chat[local[m][i].data].bytes,
                                                          !.dirty = FALSE]]
      BY <1>0, <2>0, <3>2 DEF File
    <3> QED BY <2>1, <3>1, <3>2
  <2> QED BY <1>0, <1>1, <2>1, <2>2 DEF CacheIsTable
<1>9. CASE Write(m)
  <2>1. PICK i \in inodes[m], v \in Values : local' = [local EXCEPT ![m][i] = Overwrite(@, v)]
    BY <1>9 DEF Write
  <2>2. i \in Ino /\ local[m][i] \in File
    BY <1>0
  <2>3. /\ Overwrite(local[m][i], v) \in File
        /\ Overwrite(local[m][i], v).version = local[m][i].version
    BY <2>2, FileEdits DEF Overwrite, File
  <2> QED BY <1>3, <1>9, <2>1, <2>2, <2>3 DEF Write
<1>10. CASE Truncate(m)
  <2>1. PICK i \in inodes[m] :
          local' = [local EXCEPT ![m][i] = [@ EXCEPT !.full = FALSE, !.bytes = Blank]]
    BY <1>10 DEF Truncate
  <2>2. i \in Ino /\ local[m][i] \in File
    BY <1>0
  <2>3. /\ [local[m][i] EXCEPT !.full = FALSE, !.bytes = Blank] \in File
        /\ [local[m][i] EXCEPT !.full = FALSE, !.bytes = Blank].version = local[m][i].version
    BY <2>2, FileEdits, BlankOK DEF File
  <2> QED BY <1>3, <1>10, <2>1, <2>2, <2>3 DEF Truncate
<1>11. CASE SetSize(m)
  <2>1. PICK i \in inodes[m], s \in Sizes, b \in Contents :
          local' = [local EXCEPT ![m][i] = [@ EXCEPT !.full = s, !.bytes = b]]
    BY <1>11 DEF SetSize
  <2>2. i \in Ino /\ local[m][i] \in File /\ s \in BOOLEAN
    BY <1>0, StoreAssumption
  <2>3. /\ [local[m][i] EXCEPT !.full = s, !.bytes = b] \in File
        /\ [local[m][i] EXCEPT !.full = s, !.bytes = b].version = local[m][i].version
    BY <2>2, FileEdits DEF File
  <2> QED BY <1>3, <1>11, <2>1, <2>2, <2>3 DEF SetSize
<1>12. UNCHANGED <<local, inodes>> \/ MakeRoot(m) \/ ReloadObject(m) \/ Create(m) \/ LoadBytes(m)
       \/ Write(m) \/ Truncate(m) \/ SetSize(m)
  BY DEF CalmStep, CheckTable, LookupRoot, MountExisting, KeepObject, RememberMsg, SkipData,
         Lookup, StartUpload, mountVars
<1> QED BY <1>2, <1>5, <1>6, <1>7, <1>8, <1>9, <1>10, <1>11, <1>12

-----------------------------------------------------------------------------
(* Steps that refresh the table.                                           *)

\* What a step need not show when it leaves the chat as it is.
LEMMA ChatKept ==
  ASSUME Lone, NEW m \in Mounts, OneMount, UNCHANGED <<chat, pins>>, Own(m)'
  PROVE  Lone'
BY DEF Lone, OneMount, OnePin, PinsLead

\* The table and the cache as they were.
LEMMA TablesKept ==
  ASSUME NEW m \in Mounts, CacheIsTable(m), TableLives(m),
         UNCHANGED <<chat, pins, table, inodes, local>>
  PROVE  CacheIsTable(m)' /\ TableLives(m)' /\ LastPinned' = LastPinned
BY DEF CacheIsTable, TableLives, LastPinned

\* update_table.
LEMMA RefreshOK ==
  ASSUME Inv, Lone, OneMount, NEW m \in Mounts, Refresh(m)
  PROVE  Lone'
<1>0. /\ TypeOK /\ ChatOK /\ frame[m] \in Frame /\ cur \in [Mounts -> Nat]
      /\ frame \in [Mounts -> Frame] /\ table \in [Mounts -> [Ino -> Nat]]
      /\ Own(m) /\ UNCHANGED <<chat, pins, inodes, local>>
      /\ (pins = {} <=> LastPinned = 0) /\ (pins # {} => LastPinned \in pins)
  BY LastPinnedIn
     DEF Inv, TypeOK, ChatOK, Lone, Refresh, CheckTable, ReadPinned, TableIsCurrent, StartOver,
         AdoptTable, FetchTable, chatVars, mountVars
<1> USE DEF Starting, PublishPCs, SameOp
<1>1. CASE CheckTable(m) /\ UpToDate(m)
  BY <1>0, <1>1, CalmMoves, CalmCache, CalmOK DEF CalmStep, Own
<1>2. CASE CheckTable(m) /\ ~UpToDate(m)
  <2>1. /\ frame[m].pc = "check" /\ frame'[m].pc = "pinned" /\ SameOp(m)
        /\ UNCHANGED <<table, cur>>
    BY <1>0, <1>2, Goes DEF CheckTable, At, mountVars, Keeps, SameOp
  <2>2. pins = {} /\ cur[m] = 0
    BY <1>0, <1>2, <2>1 DEF Own, CurIsPin, UpToDate
  <2>3. Own(m)'
    BY <1>0, <2>1, <2>2, TablesKept
       DEF Own, CurIsPin, PinIsHeld, NewIsSent, EmptyUntilPinned, CacheStarts, Replaced
  <2> QED BY <1>0, <2>3, ChatKept
<1>3. CASE ReadPinned(m)
  <2>1. frame'[m] = [frame[m] EXCEPT !.pc = "confirm", !.hold = LastPinned]
    BY <1>0, <1>3 DEF ReadPinned
  <2>2. /\ frame[m].pc = "pinned" /\ frame'[m].pc = "confirm" /\ frame'[m].hold = LastPinned
        /\ UNCHANGED <<table, cur>> /\ SameOp(m)
    BY <1>0, <1>3, <2>1 DEF ReadPinned, At, mountVars, Frame, SameOp
  <2>3. Own(m)'
    BY <1>0, <2>2, TablesKept
       DEF Own, CurIsPin, PinIsHeld, NewIsSent, EmptyUntilPinned, CacheStarts, Replaced
  <2> QED BY <1>0, <2>3, ChatKept
<1>4. CASE TableIsCurrent(m)
  BY <1>0, <1>4 DEF TableIsCurrent, At, UpToDate, Own, CurIsPin
<1>5. CASE StartOver(m)
  <2>1. /\ frame[m].pc = "confirm" /\ frame'[m].pc \in {"idle", "boot", "mount", "msg", "update"}
        /\ table'[m] = EmptyTable /\ cur' = cur /\ frame[m].hold = 0
        /\ SameOp(m)
    BY <1>0, <1>5, Goes DEF StartOver, At
  <2>2. pins = {} /\ cur[m] = 0 /\ table[m] = EmptyTable /\ LastPinned' = 0
    BY <1>0, <2>1 DEF Own, CurIsPin, PinIsHeld, EmptyUntilPinned, LastPinned
  <2>3. table'[m] = table[m]
    BY <2>1, <2>2
  <2>4. CacheIsTable(m)' /\ TableLives(m)'
    BY <1>0, <2>3 DEF Own, CacheIsTable, TableLives
  <2>5. Own(m)'
    BY <1>0, <2>1, <2>2, <2>4
       DEF Own, CurIsPin, PinIsHeld, NewIsSent, EmptyUntilPinned, CacheStarts, Replaced
  <2> QED BY <1>0, <2>5, ChatKept
<1>6. CASE AdoptTable(m)
  <2>1. /\ frame[m].pc = "confirm" /\ frame'[m].pc = "fetch" /\ table' = table
        /\ cur'[m] = frame[m].hold /\ frame[m].hold # 0 /\ SameOp(m)
    BY <1>0, <1>6, Goes DEF AdoptTable, At, Keeps, SameOp
  <2>2. pins # {} /\ cur'[m] = LastPinned /\ inodes[m] = {}
    BY <1>0, <2>1 DEF Own, CurIsPin, PinIsHeld, CacheStarts
  <2>3. Own(m)'
    BY <1>0, <2>1, <2>2, TablesKept
       DEF Own, CurIsPin, PinIsHeld, NewIsSent, EmptyUntilPinned, CacheStarts, Replaced
  <2> QED BY <1>0, <2>3, ChatKept
<1>7. CASE FetchTable(m)
  <2>1. /\ frame[m].pc = "fetch" /\ frame'[m].pc \in {"idle", "boot", "mount", "msg", "update"}
        /\ table'[m] = chat[frame[m].hold].map /\ cur' = cur /\ SameOp(m)
    BY <1>0, <1>7, Goes DEF FetchTable, At
  <2>2. frame[m].hold = LastPinned /\ cur[m] = LastPinned /\ pins # {} /\ inodes[m] = {}
        /\ LastPinned' = LastPinned
    BY <1>0, <2>1
       DEF Own, CurIsPin, PinIsHeld, CacheStarts, Inv, Pinned, HeldIsPinned, LastPinned
  <2>3. TableLives(m)'
    BY <1>0, <2>1, <2>2 DEF Lone, PinsLead, TableLives
  <2>4. Own(m)'
    BY <1>0, <2>1, <2>2, <2>3
       DEF Own, CurIsPin, PinIsHeld, NewIsSent, EmptyUntilPinned, CacheIsTable, CacheStarts,
           Replaced
  <2> QED BY <1>0, <2>4, ChatKept
<1> QED BY <1>1, <1>2, <1>3, <1>4, <1>5, <1>6, <1>7 DEF Refresh

-----------------------------------------------------------------------------
(* Ends and beginnings of the process.                                     *)

\* The constructor.
LEMMA BootOK ==
  ASSUME Inv, Lone, OneMount, NEW m \in Mounts, Boot(m)
  PROVE  Lone'
<1>0. /\ frame \in [Mounts -> Frame] /\ Own(m)
      /\ UNCHANGED <<chat, pins, table, cur, inodes, local>>
      /\ frame[m].pc \in {"down", "segv"}
  BY DEF Inv, TypeOK, Lone, Boot, chatVars, mountVars
<1>1. frame'[m] = [NoFrame("pinned") EXCEPT !.op = "boot", !.ret = "boot"]
  BY <1>0 DEF Boot
<1>2. frame'[m].pc = "pinned" /\ frame'[m].op = "boot"
  BY <1>1 DEF NoFrame
<1>3. Own(m)'
  BY <1>0, <1>2, TablesKept
     DEF Own, CurIsPin, PinIsHeld, NewIsSent, EmptyUntilPinned, CacheStarts, Replaced,
         Starting, PublishPCs
<1> QED BY <1>0, <1>3, ChatKept

\* Wherever the process ends, the pinned table has its inodes.
LEMMA VanishOK ==
  ASSUME Inv, Lone, OneMount, NEW m \in Mounts, Kill(m) \/ Segv(m)
  PROVE  Lone'
<1>0. /\ frame \in [Mounts -> Frame] /\ cur \in [Mounts -> Nat]
      /\ table \in [Mounts -> [Ino -> Nat]] /\ inodes \in [Mounts -> SUBSET Ino]
      /\ UNCHANGED <<chat, pins>>
  BY DEF Inv, TypeOK, Kill, Segv, chatVars
<1>1. /\ table'[m] = EmptyTable /\ cur'[m] = 0 /\ inodes'[m] = {}
      /\ frame'[m] \in {NoFrame("down"), NoFrame("segv")}
  BY <1>0 DEF Kill, Segv, Vanish
<1>2. frame'[m].pc \in {"down", "segv"} /\ frame'[m].op = "none"
  BY <1>1 DEF NoFrame
<1>3. Own(m)'
  BY <1>1, <1>2
     DEF Own, CurIsPin, PinIsHeld, NewIsSent, EmptyUntilPinned, CacheIsTable, CacheStarts,
         Replaced, TableLives, EmptyTable, Starting, PublishPCs
<1> QED BY <1>0, <1>3, ChatKept

-----------------------------------------------------------------------------
(* Steps that change the chat.                                             *)

\* What an entry names is gone or is the inode; what is pinned is a table.
LEMMA KindsOf ==
  ASSUME Inv
  PROVE  /\ \A t \in pins : t \in DOMAIN chat /\ chat[t].kind = "table"
         /\ \A t \in pins, i \in Ino : IsInodeOf(chat[t].map[i], i)
         /\ \A m \in Mounts, i \in Ino : IsInodeOf(table[m][i], i)
         /\ \A m \in Mounts : IsInodeOf(frame[m].old, frame[m].ino)
         /\ \A m \in Mounts, i \in Ino : Is(local[m][i].data, "data")
BY DEF Inv, TypeOK, ChatOK, Kinds, KindOfTables, KindOfLocals, KindOfMessages, KindOfPins,
       KindOfHeld, Held, Refers, Filed, Of

\* A message more takes nothing away.
LEMMA SentOK ==
  ASSUME Inv, Lone, NEW p \in Payload, Send(p)
  PROVE  /\ pins' = pins /\ LastPinned' = LastPinned /\ OnePin' /\ PinsLead'
         /\ NextId \in DOMAIN chat' \ pins' /\ chat'[NextId] = p
         /\ DOMAIN chat \subseteq DOMAIN chat'
<1>0. ChatOK
  BY DEF Inv, TypeOK
<1>1. /\ pins' = pins /\ chat'[NextId] = p /\ DOMAIN chat' = DOMAIN chat \cup {NextId}
      /\ NextId \notin DOMAIN chat /\ pins \subseteq DOMAIN chat
      /\ \A x \in DOMAIN chat : chat'[x] = chat[x]
  BY <1>0, SendOK DEF ChatOK, NextId, Send
<1>2. PinsLead'
  BY <1>1 DEF Lone, PinsLead
<1>3. LastPinned' = LastPinned /\ OnePin'
  BY <1>1 DEF LastPinned, Lone, OnePin
<1> QED BY <1>1, <1>2, <1>3

\* Data that goes is named by no table.
LEMMA DataGone ==
  ASSUME Inv, Lone, NEW x, Is(x, "data"), Delete(x)
  PROVE  /\ pins' = pins /\ LastPinned' = LastPinned /\ OnePin' /\ PinsLead'
         /\ \A m \in Mounts, i \in Ino : table[m][i] # 0 => table[m][i] \in DOMAIN chat'
<1>0. ChatOK
  BY DEF Inv, TypeOK
<1>1. /\ pins' = pins \ {x} /\ DOMAIN chat' = DOMAIN chat \ {x}
      /\ \A y \in DOMAIN chat' : chat'[y] = chat[y]
  BY <1>0, DeleteOK
<1>2. pins' = pins
  BY <1>1, KindsOf DEF Is
<1>3. PinsLead'
  <2> SUFFICES ASSUME NEW t \in pins, NEW i \in Ino, chat'[t].map[i] # 0
               PROVE  chat'[t].map[i] \in DOMAIN chat'
    BY <1>2 DEF PinsLead
  <2>1. t # x /\ chat'[t] = chat[t]
    BY <1>1, KindsOf DEF Is
  <2>2. chat[t].map[i] \in DOMAIN chat
    BY <2>1 DEF Lone, PinsLead
  <2> QED BY <1>1, <2>1, <2>2, KindsOf DEF Is, IsInodeOf
<1>4. ASSUME NEW m \in Mounts, NEW i \in Ino, table[m][i] # 0 PROVE table[m][i] \in DOMAIN chat'
  BY <1>1, <1>4, KindsOf DEF Lone, Own, TableLives, Is, IsInodeOf
<1>5. LastPinned' = LastPinned /\ OnePin'
  BY <1>2 DEF LastPinned, Lone, OnePin
<1> QED BY <1>2, <1>3, <1>4, <1>5

\* The data of an upload.
LEMMA DataOK ==
  ASSUME Inv, Lone, OneMount, NEW m \in Mounts, SendData(m) \/ RemoveOldData(m)
  PROVE  Lone'
<1>0. /\ TypeOK /\ frame \in [Mounts -> Frame] /\ frame[m] \in Frame /\ frame[m].ino \in Ino
      /\ local \in [Mounts -> [Ino -> File]] /\ local[m][frame[m].ino] \in File
      /\ UNCHANGED <<table, cur, inodes>> /\ Own(m)
  BY Updates DEF Inv, TypeOK, Lone, SendData, RemoveOldData, mountVars
<1>1. frame[m].pc \in Calm /\ frame'[m].pc \in Calm /\ SameOp(m)
  <2>1. CASE SendData(m)
    <3>1. frame'[m] = [frame[m] EXCEPT !.pc = "undata", !.new = NextId]
      BY <1>0, <2>1 DEF SendData
    <3> QED BY <1>0, <2>1, <3>1, CalmLabels DEF SendData, At, Frame, SameOp
  <2>2. CASE RemoveOldData(m)
    BY <1>0, <2>2, Goes, CalmLabels DEF RemoveOldData, At, Keeps, SameOp
  <2> QED BY <2>1, <2>2
<1>2. /\ pins' = pins /\ LastPinned' = LastPinned /\ OnePin' /\ PinsLead'
      /\ TableLives(m)'
  <2>1. CASE SendData(m)
    <3>1. PICK p \in Payload : Send(p)
      BY <1>0, <2>1, PayloadsOK DEF SendData
    <3> QED BY <1>0, <3>1, SentOK DEF Own, TableLives
  <2>2. CASE RemoveOldData(m)
    <3>1. PICK x : Is(x, "data") /\ Delete(x)
      BY <1>0, <2>2, KindsOf DEF RemoveOldData
    <3> QED BY <1>0, <3>1, DataGone DEF TableLives
  <2> QED BY <2>1, <2>2
<1>3. CacheIsTable(m)'
  <2>1. CASE SendData(m)
    BY <1>0, <2>1 DEF SendData, mountVars, Own, CacheIsTable
  <2>2. CASE RemoveOldData(m)
    <3> DEFINE i == frame[m].ino
    <3>1. local' = [local EXCEPT ![m][i] = [@ EXCEPT !.data = frame[m].new, !.dirty = FALSE]]
      BY <2>2 DEF RemoveOldData
    <3>2. \A j \in Ino : local'[m][j].version = local[m][j].version
      BY <1>0, <3>1 DEF File
    <3>3. inodes[m] \subseteq Ino
      BY <1>0, Updates
    <3> QED BY <1>0, <3>2, <3>3 DEF Own, CacheIsTable
  <2> QED BY <2>1, <2>2
<1>4. Own(m)'
  BY <1>0, <1>1, <1>2, <1>3, CalmLabels
     DEF Own, CurIsPin, PinIsHeld, NewIsSent, EmptyUntilPinned, CacheStarts, Replaced,
         PublishPCs, SameOp
<1> QED BY <1>2, <1>4 DEF Lone, OneMount

\* The inode of an upload.
LEMMA InodeOK ==
  ASSUME Inv, Lone, OneMount, NEW m \in Mounts, SendInode(m)
  PROVE  Lone'
<1> DEFINE i == frame[m].ino
           f == local[m][i]
<1>0. /\ TypeOK /\ frame \in [Mounts -> Frame] /\ frame[m] \in Frame /\ i \in Ino
      /\ local \in [Mounts -> [Ino -> File]] /\ f \in File
      /\ table \in [Mounts -> [Ino -> Nat]] /\ table[m] \in [Ino -> Nat]
      /\ inodes[m] \subseteq Ino /\ Own(m) /\ ChatOK
      /\ UNCHANGED <<cur, inodes>>
  BY Updates DEF Inv, TypeOK, Lone, SendInode, SendsInode
<1>1. frame[m].pc = "inode" /\ frame'[m].pc = "table" /\ Keeps(m)
  BY <1>0, Goes DEF SendInode, SendsInode, At
<1>2. Send([kind |-> "inode", ino |-> i, full |-> f.full, data |-> f.data])
  BY DEF SendInode, SendsInode
<1>3. /\ pins' = pins /\ LastPinned' = LastPinned /\ OnePin' /\ PinsLead'
      /\ NextId \in DOMAIN chat' /\ DOMAIN chat \subseteq DOMAIN chat'
  BY <1>0, <1>2, PayloadsOK, SentOK
<1>4. /\ local' = [local EXCEPT ![m][i].version = NextId]
      /\ table' = [table EXCEPT ![m][i] = NextId]
  BY DEF SendInode
<1>5. /\ \A j \in Ino : table'[m][j] = IF j = i THEN NextId ELSE table[m][j]
      /\ \A j \in Ino : local'[m][j].version = IF j = i THEN NextId ELSE local[m][j].version
  BY <1>0, <1>4 DEF File
<1>6. TableLives(m)' /\ CacheIsTable(m)'
  BY <1>0, <1>3, <1>5 DEF Own, TableLives, CacheIsTable
<1>7. Replaced(m)'
  <2>1. frame[m].old <= lastId /\ frame[m].old \in Nat /\ NextId = lastId + 1 /\ lastId \in Nat
    BY <1>0 DEF Inv, Kinds, KindOfHeld, Held, Filed, NextId, ChatOK, Frame
  <2>2. frame[m].op # "remove"
    BY <1>0, <1>1 DEF Own, Replaced, PublishPCs
  <2> QED BY <1>0, <1>1, <1>5, <2>1, <2>2 DEF Replaced, Keeps
<1>8. Own(m)'
  BY <1>0, <1>1, <1>3, <1>6, <1>7
     DEF Own, CurIsPin, PinIsHeld, NewIsSent, EmptyUntilPinned, CacheStarts, Starting, PublishPCs
<1> QED BY <1>3, <1>8 DEF Lone, OneMount

-----------------------------------------------------------------------------
(* Steps that publish the table.                                           *)

\* upload_table begins with the new table.
LEMMA TableSentOK ==
  ASSUME Inv, Lone, OneMount, NEW m \in Mounts, SendTable(m)
  PROVE  Lone'
<1>0. /\ TypeOK /\ frame \in [Mounts -> Frame] /\ frame[m] \in Frame /\ frame[m].ino \in Ino
      /\ UNCHANGED <<table, cur, inodes, local>> /\ Own(m)
  BY Updates DEF Inv, TypeOK, Lone, SendTable, mountVars
<1>1. frame'[m] = [frame[m] EXCEPT !.pc = "swap", !.new = NextId]
  BY <1>0 DEF SendTable
<1>2. /\ frame[m].pc = "table" /\ frame'[m].pc = "swap" /\ frame'[m].new = NextId
      /\ frame'[m].op = frame[m].op /\ frame'[m].ino = frame[m].ino
      /\ frame'[m].old = frame[m].old
  BY <1>0, <1>1 DEF SendTable, At, Frame
<1>3. PICK p \in Payload : Send(p)
  BY <1>0, PayloadsOK DEF SendTable
<1>4. /\ pins' = pins /\ LastPinned' = LastPinned /\ OnePin' /\ PinsLead'
      /\ NextId \in DOMAIN chat' \ pins' /\ DOMAIN chat \subseteq DOMAIN chat'
  BY <1>3, SentOK
<1>5. TableLives(m)' /\ CacheIsTable(m)'
  BY <1>0, <1>4 DEF Own, TableLives, CacheIsTable
<1>6. Own(m)'
  BY <1>0, <1>2, <1>4, <1>5
     DEF Own, CurIsPin, PinIsHeld, NewIsSent, EmptyUntilPinned, CacheStarts, Replaced,
         Starting, PublishPCs
<1> QED BY <1>4, <1>6 DEF Lone, OneMount

\* It asks what is pinned,
LEMMA FindPinnedOK ==
  ASSUME Inv, Lone, OneMount, NEW m \in Mounts, FindPinned(m)
  PROVE  Lone'
<1>0. /\ frame \in [Mounts -> Frame] /\ frame[m] \in Frame /\ Own(m)
      /\ UNCHANGED <<chat, pins, table, cur, inodes, local>>
      /\ (pins = {} <=> LastPinned = 0)
  BY LastPinnedIn DEF Inv, TypeOK, Lone, FindPinned, chatVars, mountVars
<1>1. frame'[m] = [frame[m] EXCEPT !.hold = LastPinned,
                                   !.pc = IF LastPinned = 0 THEN "pin" ELSE "unpin"]
  BY <1>0 DEF FindPinned
<1>2. /\ frame[m].pc = "swap" /\ frame'[m].pc = IF pins = {} THEN "pin" ELSE "unpin"
      /\ frame'[m].hold = LastPinned /\ frame'[m].new = frame[m].new
      /\ frame'[m].op = frame[m].op /\ frame'[m].ino = frame[m].ino
      /\ frame'[m].old = frame[m].old
  BY <1>0, <1>1 DEF FindPinned, At, Frame
<1>3. Own(m)'
  BY <1>0, <1>2, TablesKept
     DEF Own, CurIsPin, PinIsHeld, NewIsSent, EmptyUntilPinned, CacheStarts, Replaced,
         Starting, PublishPCs
<1> QED BY <1>0, <1>3, ChatKept

\* removes that, which was the only one,
LEMMA RemovePinnedOK ==
  ASSUME Inv, Lone, OneMount, NEW m \in Mounts, RemovePinned(m)
  PROVE  Lone'
<1> DEFINE x == frame[m].hold
<1>0. /\ TypeOK /\ ChatOK /\ Own(m) /\ UNCHANGED <<table, cur, inodes, local>>
  BY DEF Inv, TypeOK, Lone, RemovePinned, mountVars
<1>1. frame[m].pc = "unpin" /\ frame'[m].pc = "pin" /\ Keeps(m)
  BY <1>0, Goes DEF RemovePinned, At
<1>2. x = LastPinned /\ x \in pins /\ \A t \in pins : t = x
  BY <1>0, <1>1, LastPinnedIn DEF Own, PinIsHeld, Lone, OnePin
<1>3. pins' = {} /\ DOMAIN chat' = DOMAIN chat \ {x}
  BY <1>0, <1>2, DeleteOK DEF RemovePinned
<1>4. NewIsSent(m)'
  BY <1>0, <1>1, <1>2, <1>3 DEF Own, NewIsSent, Keeps
<1>5. TableLives(m)' /\ CacheIsTable(m)'
  BY <1>0, <1>2, <1>3, KindsOf DEF Own, TableLives, CacheIsTable, IsInodeOf
<1>6. Own(m)'
  BY <1>0, <1>1, <1>3, <1>4, <1>5
     DEF Own, CurIsPin, PinIsHeld, EmptyUntilPinned, CacheStarts, Replaced, Keeps,
         Starting, PublishPCs
<1> QED BY <1>3, <1>6 DEF Lone, OneMount, OnePin, PinsLead

\* and pins the new one.
LEMMA PinTableOK ==
  ASSUME Inv, Lone, OneMount, NEW m \in Mounts, PinTable(m)
  PROVE  Lone'
<1> DEFINE x == frame[m].new
<1>0. /\ TypeOK /\ ChatOK /\ ChatOK' /\ Own(m) /\ UNCHANGED <<chat, table, inodes, local>>
      /\ cur \in [Mounts -> Nat]
  BY PinOK DEF Inv, TypeOK, Lone, PinTable, Pin
<1>1. frame[m].pc = "pin" /\ frame'[m].pc = "drop" /\ Keeps(m)
  BY <1>0, Goes DEF PinTable, At
<1>2. pins' = {x} /\ cur'[m] = x
  BY <1>0, <1>1 DEF PinTable, Pin, Own, PinIsHeld, NewIsSent
<1>3. LastPinned' = x
  <2>1. pins' \in SUBSET (1..lastId') /\ lastId' \in Nat /\ pins' # {}
    BY <1>0, <1>2 DEF ChatOK
  <2>2. Max(pins') \in pins'
    BY <2>1, MaxIn
  <2>3. LastPinned' = Max(pins')
    BY <2>1 DEF LastPinned
  <2> QED BY <1>2, <2>2, <2>3
<1>4. x \in DOMAIN chat /\ chat[x].map = table[m]
  BY <1>0, <1>1 DEF Own, NewIsSent, Inv, Pinned, CurIsTable, Replacing
<1>5. TableLives(m)' /\ CacheIsTable(m)'
  BY <1>0 DEF Own, TableLives, CacheIsTable
<1>6. PinsLead' /\ OnePin'
  BY <1>0, <1>2, <1>4 DEF Own, TableLives, PinsLead, OnePin
<1>7. Own(m)'
  BY <1>0, <1>1, <1>2, <1>3, <1>5
     DEF Own, CurIsPin, PinIsHeld, NewIsSent, EmptyUntilPinned, CacheStarts, Replaced, Keeps,
         Starting, PublishPCs
<1> QED BY <1>6, <1>7 DEF Lone, OneMount

\* The last removal: the inode message that the table does not name any more.
LEMMA DropOldOK ==
  ASSUME Inv, Lone, OneMount, NEW m \in Mounts, DropOld(m)
  PROVE  Lone'
<1> DEFINE i == frame[m].ino
           x == frame[m].old
<1>0. /\ TypeOK /\ ChatOK /\ Own(m) /\ UNCHANGED <<table, cur, inodes>> /\ frame[m] \in Frame
      /\ i \in Ino /\ local \in [Mounts -> [Ino -> File]] /\ inodes[m] \subseteq Ino
  BY Updates DEF Inv, TypeOK, Lone, DropOld
<1>1. frame[m].pc = "drop" /\ frame'[m].pc = "idle" /\ frame'[m].op # "remove"
  <2>1. frame'[m] = NoFrame("idle")
    BY <1>0 DEF DropOld, Finish, TypeOK
  <2> QED BY <2>1 DEF DropOld, At, NoFrame
<1>2. /\ DOMAIN chat' = DOMAIN chat \ {x} /\ \A y \in DOMAIN chat' : chat'[y] = chat[y]
      /\ pins' = pins \ {x}
  BY <1>0, DeleteOK DEF DropOld
<1>3. pins' = pins
  BY <1>2, KindsOf DEF IsInodeOf
<1>4. LastPinned' = LastPinned /\ pins # {} /\ cur[m] = LastPinned
  BY <1>0, <1>1, <1>3 DEF LastPinned, Own, CurIsPin, PinIsHeld, Starting
<1>5. \A t \in pins : chat[t].map = table[m]
  <2>1. cur[m] \in pins /\ pins \subseteq DOMAIN chat
    BY <1>0, <1>4, LastPinnedIn DEF ChatOK
  <2>2. chat[cur[m]].map = table[m]
    BY <1>1, <2>1 DEF Inv, Pinned, CurIsTable, Replacing
  <2> QED BY <2>1, <2>2 DEF Lone, OnePin
<1>6. ASSUME NEW j \in Ino, table[m][j] # 0 PROVE table[m][j] \in DOMAIN chat'
  <2>1. table[m][j] \in DOMAIN chat
    BY <1>0, <1>6 DEF Own, TableLives
  <2>2. x = 0 \/ table[m][i] # x
    BY <1>0, <1>1 DEF Own, Replaced, PublishPCs
  <2>3. table[m][j] # x
    BY <1>0, <1>6, <2>1, <2>2, KindsOf DEF IsInodeOf
  <2> QED BY <1>2, <2>1, <2>3
<1>7. OnePin' /\ PinsLead'
  <2>1. ASSUME NEW t \in pins', NEW j \in Ino, chat'[t].map[j] # 0
        PROVE  chat'[t].map[j] \in DOMAIN chat'
    <3>1. t \in DOMAIN chat' /\ t \in pins
      BY <1>2, <1>3, <2>1, KindsOf
    <3> QED BY <1>2, <1>5, <1>6, <2>1, <3>1
  <2> QED BY <1>3, <2>1 DEF Lone, OnePin, PinsLead
<1>8. CacheIsTable(m)'
  <2>1. CASE frame[m].op = "remove"
    <3>1. i \notin inodes[m] /\ local' = [local EXCEPT ![m][i] = NoFile]
      BY <1>0, <2>1 DEF DropOld, Own, Replaced
    <3> QED BY <1>0, <3>1 DEF Own, CacheIsTable
  <2>2. CASE frame[m].op # "remove"
    BY <1>0, <2>2 DEF DropOld, Own, CacheIsTable
  <2> QED BY <2>1, <2>2
<1>9. Own(m)'
  BY <1>0, <1>1, <1>3, <1>4, <1>6, <1>8
     DEF Own, CurIsPin, PinIsHeld, NewIsSent, EmptyUntilPinned, CacheStarts, Replaced,
         TableLives, Starting, PublishPCs
<1> QED BY <1>7, <1>9 DEF Lone, OneMount

\* remove takes the data and the entry away first.
LEMMA RemovalOK ==
  ASSUME Inv, Lone, OneMount, NEW m \in Mounts, StartRemove(m)
  PROVE  Lone'
<1>0. /\ TypeOK /\ Own(m) /\ cur' = cur /\ local' = local /\ inodes \in [Mounts -> SUBSET Ino]
      /\ table \in [Mounts -> [Ino -> Nat]] /\ frame \in [Mounts -> Frame]
  BY DEF Inv, TypeOK, Lone, StartRemove, RemovesEntry
<1>1. PICK i \in inodes[m] :
         /\ inodes' = [inodes EXCEPT ![m] = @ \ {i}]
         /\ Delete(local[m][i].data)
         /\ table' = [table EXCEPT ![m][i] = 0]
         /\ frame' = [frame EXCEPT ![m] = [NoFrame("table") EXCEPT
                         !.op = "remove", !.ino = i, !.old = table[m][i]]]
  BY DEF StartRemove, RemovesEntry
<1>2. i \in Ino /\ frame[m].pc = "idle"
  BY <1>0 DEF StartRemove, RemovesEntry, At
<1>3. /\ pins' = pins /\ LastPinned' = LastPinned /\ OnePin' /\ PinsLead'
      /\ \A j \in Ino : table[m][j] # 0 => table[m][j] \in DOMAIN chat'
  BY <1>1, <1>2, DataGone, KindsOf
<1>4. /\ frame'[m].pc = "table" /\ frame'[m].ino = i /\ frame'[m].old = table[m][i]
      /\ frame'[m].op = "remove"
  <2>1. frame'[m] = [NoFrame("table") EXCEPT !.op = "remove", !.ino = i, !.old = table[m][i]]
    BY <1>0, <1>1
  <2> QED BY <2>1 DEF NoFrame
<1>5. /\ inodes'[m] = inodes[m] \ {i} /\ inodes[m] \subseteq Ino
      /\ \A j \in Ino : table'[m][j] = IF j = i THEN 0 ELSE table[m][j]
  BY <1>0, <1>1, <1>2
<1>6. TableLives(m)' /\ CacheIsTable(m)'
  BY <1>0, <1>3, <1>5 DEF Own, TableLives, CacheIsTable
<1>7. Replaced(m)'
  BY <1>2, <1>4, <1>5 DEF Replaced, PublishPCs
<1>8. Own(m)'
  BY <1>0, <1>2, <1>3, <1>4, <1>6, <1>7
     DEF Own, CurIsPin, PinIsHeld, NewIsSent, EmptyUntilPinned, CacheStarts, Starting, PublishPCs
<1> QED BY <1>3, <1>8 DEF Lone, OneMount

-----------------------------------------------------------------------------
(* The inductive invariant and what follows from it.                       *)

\* In the beginning.
LEMMA LoneInit ==
  ASSUME Init
  PROVE  Lone
<1>1. \A m \in Mounts : frame[m].pc = "down" /\ frame[m].op = "none"
  BY DEF Init, NoFrame
<1>2. pins = {} /\ \A m \in Mounts : cur[m] = 0 /\ inodes[m] = {} /\ table[m] = EmptyTable
  BY DEF Init, EmptyChat
<1> QED BY <1>1, <1>2
        DEF Lone, OnePin, PinsLead, Own, CurIsPin, PinIsHeld, NewIsSent,
            EmptyUntilPinned, CacheIsTable, CacheStarts, Replaced, TableLives, EmptyTable,
            Starting, PublishPCs

\* One mount at a time, whenever it is killed, keeps Lone.
LEMMA LoneStep ==
  ASSUME Inv, Lone, OneMount, [Work]_vars
  PROVE  Lone'
<1>1. CASE UNCHANGED vars
  BY <1>1
     DEF vars, counters, chatVars, mountVars, Lone, OnePin, PinsLead, Own, CurIsPin, PinIsHeld,
         NewIsSent, EmptyUntilPinned, CacheIsTable, CacheStarts, Replaced, TableLives, LastPinned
<1>2. ASSUME NEW m \in Mounts, Step(m) \/ Ask(m)
      PROVE  Lone'
  <2>1. CASE CalmStep(m)
    BY <2>1, CalmMoves, CalmCache, CalmOK DEF Inv, Lone, Own
  <2>2. \/ CalmStep(m) \/ Refresh(m) \/ Boot(m) \/ Kill(m) \/ Segv(m)
        \/ SendData(m) \/ RemoveOldData(m) \/ SendInode(m) \/ SendTable(m) \/ FindPinned(m)
        \/ RemovePinned(m) \/ PinTable(m) \/ DropOld(m) \/ StartRemove(m)
    BY <1>2 DEF Step, Ask, CalmStep
  <2> QED BY <2>1, <2>2, RefreshOK, BootOK, VanishOK, DataOK, InodeOK, TableSentOK, FindPinnedOK,
             RemovePinnedOK, PinTableOK, DropOldOK, RemovalOK
<1> QED BY <1>1, <1>2 DEF Work

\* Lone is an invariant up to the first failed request.
LEMMA LoneInvariance ==
  ASSUME OneMount
  PROVE  Spec => [](errors = 0 => Inv /\ Lone)
<1>1. Init => Lone
  BY LoneInit
<1>2. TypeOK /\ (errors = 0 => Inv /\ Lone) /\ [Next]_vars => (errors = 0 => Lone)'
  BY LoneStep, NotFailedYet
<1> QED BY <1>1, <1>2, Invariance, TypeCorrect, PTL DEF Spec

\* With one mount at a time, killed at any step of any operation, the pinned
\* table never names an inode message that is gone: upload and remove drop an
\* inode message only after a table without it is pinned.
THEOREM PinnedInodesExistAlways ==
  ASSUME OneMount
  PROVE  Spec => []PinnedInodesExist
<1>1. (errors = 0 => Inv /\ Lone) => PinnedInodesExist
  BY DEF Lone, PinsLead, PinnedInodesExist
<1> QED BY <1>1, LoneInvariance, PTL

\* With one mount at a time, whenever it is killed, every object of inodes_ is
\* between operations the one its entry of the pinned table names, and so update
\* never replaces one that holds unsaved writes.
THEOREM CacheIsCurrentAlways ==
  ASSUME OneMount
  PROVE  Spec => []CacheIsCurrent
<1>1. (errors = 0 => Inv /\ Lone) => CacheIsCurrent
  BY DEF Lone, Own, CurIsPin, CacheIsTable, CacheIsCurrent, At, Starting
<1> QED BY <1>1, LoneInvariance, PTL

-----------------------------------------------------------------------------
(* What becomes of the bytes of a file.                                    *)

Data(m, i) == local[m][i].data

\* The message x holds the bytes b; without TRUE in Sizes nothing but
\* writes changes them.
HasBytes(x, b) == x \in DOMAIN chat /\ (TRUE \in Sizes \/ chat[x].bytes = b)

\* The mapped file of inode i, or one of its messages, names the data d.
Owns(m, i, d) ==
    \/ d = Data(m, i)
    \/ \E x \in DOMAIN chat : chat[x].kind = "inode" /\ chat[x].ino = i /\ chat[x].data = d

\* No two inodes share data that exists.
DataHasOwner(m) ==
    \A i, j \in Ino, d \in DOMAIN chat : Owns(m, i, d) /\ Owns(m, j, d) => i = j

\* What was just sent holds the bytes, and is not named yet.
NewDataIsFree(m) ==
    frame[m].pc = "undata" =>
        /\ frame[m].new \in DOMAIN chat
        /\ chat[frame[m].new].bytes = local[m][frame[m].ino].bytes
        /\ \A i \in Ino : ~Owns(m, i, frame[m].new)

\* An object that asks for no datasync has its bytes in the chat.
Good(f) == \/ f.dirty
           \/ f.data \in DOMAIN chat /\ (f.full => HasBytes(f.data, f.bytes))
CleanIsStored(m) == \A i \in inodes[m] : Good(local[m][i])

\* upload has an object, and the data is in the chat before the inode is.
UploadHasObject(m) == frame[m].op = "upload" => frame[m].ino \in inodes[m]
WhoPublishes(m) ==
    /\ frame[m].pc \in {"data", "undata", "inode"} => frame[m].op = "upload"
    /\ frame[m].pc \in PublishPCs => frame[m].op \in {"upload", "remove"}
InodeIsReady(m) == LET f == local[m][frame[m].ino] IN
    frame[m].pc = "inode" /\ f.full => HasBytes(f.data, f.bytes)
FileIsSent(m) == LET f == local[m][frame[m].ino]  x == table[m][frame[m].ino] IN
    frame[m].pc \in PublishPCs /\ frame[m].op = "upload" =>
        /\ x \in DOMAIN chat /\ chat[x].full = f.full /\ chat[x].data = f.data
        /\ f.full => HasBytes(f.data, f.bytes)

Stored(m) == /\ DataHasOwner(m) /\ NewDataIsFree(m) /\ CleanIsStored(m)
             /\ UploadHasObject(m) /\ WhoPublishes(m) /\ InodeIsReady(m) /\ FileIsSent(m)
Files == \A m \in Mounts : Stored(m)

-----------------------------------------------------------------------------
(* Calm steps.                                                             *)

\* What a calm step may make of the file f of inode i: it asks for a
\* datasync, or has its bytes in the chat if it had.
Edit(m, i, g) == LET f == local[m][i] IN
    \/ g.dirty /\ g.data \in {0, f.data}
    \/ g.dirty /\ table[m][i] \in DOMAIN chat /\ g.data = chat[table[m][i]].data
    \/ g.data = f.data /\ g.dirty = f.dirty /\ (g.full => TRUE \in Sizes)
    \/ g.data = f.data /\ g.data \in DOMAIN chat /\ g.bytes = chat[f.data].bytes

\* Every calm step changes one file at most, and that in one of these ways.
LEMMA CalmEdits ==
  ASSUME Inv, NEW m \in Mounts, CalmStep(m)
  PROVE  \/ UNCHANGED <<local, inodes>>
         \/ \E i \in Ino : \E g :
               /\ local' = [local EXCEPT ![m][i] = g] /\ Edit(m, i, g)
               /\ inodes' = inodes \/ (inodes'[m] = inodes[m] \cup {i} /\ g.dirty)
<1>0. /\ TypeOK /\ local \in [Mounts -> [Ino -> File]] /\ inodes \in [Mounts -> SUBSET Ino]
      /\ frame[m].ino \in Ino /\ \A i \in Ino : local[m][i] \in File
  BY Updates DEF Inv, TypeOK
<1>1. CASE MakeRoot(m)
  <2> DEFINE g == [NoFile EXCEPT !.dirty = TRUE, !.full = TRUE]
  <2>1. /\ local' = [local EXCEPT ![m][Root] = g]
        /\ inodes'[m] = inodes[m] \cup {Root}
    BY <1>0, <1>1 DEF MakeRoot
  <2>2. g.dirty /\ g.data = 0
    BY DEF NoFile
  <2>3. Edit(m, Root, g)
    BY <2>2 DEF Edit
  <2> HIDE DEF g
  <2> QED BY <2>1, <2>2, <2>3, RootIn
<1>2. CASE ReloadObject(m)
  <2> DEFINE i == frame[m].ino
             x == table[m][i]
             g == [version |-> x, dirty |-> TRUE, full |-> chat[x].full,
                   data |-> chat[x].data, bytes |-> local[m][i].bytes]
  <2>1. /\ local' = [local EXCEPT ![m][i] = g] /\ x \in DOMAIN chat
        /\ inodes'[m] = inodes[m] \cup {i}
    BY <1>0, <1>2 DEF ReloadObject
  <2>2. g.dirty /\ Edit(m, i, g)
    BY <2>1 DEF Edit
  <2> HIDE DEF g
  <2> QED BY <1>0, <2>1, <2>2
<1>3. CASE LoadBytes(m)
  <2> DEFINE i == frame[m].ino
             f == local[m][i]
  <2>1. f \in File /\ inodes' = inodes
    BY <1>0, <1>3 DEF LoadBytes
  <2>2. CASE ~f.full /\ local' = [local EXCEPT ![m][i].bytes = Blank]
    <3> DEFINE g == [f EXCEPT !.bytes = Blank]
    <3>1. local' = [local EXCEPT ![m][i] = g]
      BY <1>0, <2>2
    <3>2. Edit(m, i, g)
      BY <2>1, <2>2 DEF Edit, File
    <3> HIDE DEF g
    <3> QED BY <1>0, <2>1, <3>1, <3>2
  <2>3. CASE /\ f.full /\ f.data \in DOMAIN chat
             /\ local' = [local EXCEPT ![m][i] = [@ EXCEPT !.bytes = chat[f.data].bytes,
                                                           !.dirty = FALSE]]
    <3> DEFINE g == [f EXCEPT !.bytes = chat[f.data].bytes, !.dirty = FALSE]
    <3>1. local' = [local EXCEPT ![m][i] = g]
      BY <1>0, <2>3
    <3>2. Edit(m, i, g)
      BY <2>1, <2>3 DEF Edit, File
    <3> HIDE DEF g
    <3> QED BY <1>0, <2>1, <3>1, <3>2
  <2> QED BY <1>3, <2>1, <2>2, <2>3 DEF LoadBytes
<1>4. CASE Write(m)
  <2>1. PICK i \in inodes[m], v \in Values : local' = [local EXCEPT ![m][i] = Overwrite(@, v)]
    BY <1>4 DEF Write
  <2> DEFINE g == Overwrite(local[m][i], v)
  <2>2. i \in Ino /\ local[m][i] \in File /\ inodes' = inodes
    BY <1>0, <1>4 DEF Write
  <2>3. local' = [local EXCEPT ![m][i] = g] /\ Edit(m, i, g)
    BY <1>0, <2>1, <2>2 DEF Edit, Overwrite, File
  <2> QED BY <2>2, <2>3
<1>5. CASE Truncate(m)
  <2>1. PICK i \in inodes[m] :
          local' = [local EXCEPT ![m][i] = [@ EXCEPT !.full = FALSE, !.bytes = Blank]]
    BY <1>5 DEF Truncate
  <2> DEFINE g == [local[m][i] EXCEPT !.full = FALSE, !.bytes = Blank]
  <2>2. i \in Ino /\ local[m][i] \in File /\ inodes' = inodes
    BY <1>0, <1>5 DEF Truncate
  <2>3. local' = [local EXCEPT ![m][i] = g] /\ Edit(m, i, g)
    BY <1>0, <2>1, <2>2 DEF Edit, File
  <2> QED BY <2>2, <2>3
<1>6. CASE SetSize(m)
  <2>1. PICK i \in inodes[m], s \in Sizes, b \in Contents :
          local' = [local EXCEPT ![m][i] = [@ EXCEPT !.full = s, !.bytes = b]]
    BY <1>6 DEF SetSize
  <2> DEFINE g == [local[m][i] EXCEPT !.full = s, !.bytes = b]
  <2>2. i \in Ino /\ local[m][i] \in File /\ inodes' = inodes /\ s \in BOOLEAN
    BY <1>0, <1>6, StoreAssumption DEF SetSize
  <2>3. local' = [local EXCEPT ![m][i] = g] /\ Edit(m, i, g)
    BY <1>0, <2>1, <2>2 DEF Edit, File
  <2> QED BY <2>2, <2>3
<1>7. CASE Create(m)
  <2> DEFINE i == Min(NewInos(m))
  <2>1. PICK full \in BOOLEAN :
          /\ inodes' = [inodes EXCEPT ![m] = @ \cup {i}]
          /\ local' = [local EXCEPT ![m][i] = [version |-> 0, dirty |-> TRUE, full |-> full,
                                               data |-> @.data, bytes |-> Blank]]
    BY <1>7 DEF Create
  <2>2. i \in Ino
    <3>1. NewInos(m) # {} /\ NewInos(m) \in SUBSET (1..MaxIno) /\ MaxIno \in Nat
      BY <1>7, StoreAssumption DEF Create, NewInos, Ino
    <3> QED BY <3>1, MinIn DEF Ino
  <2> HIDE DEF i
  <2> DEFINE g == [version |-> 0, dirty |-> TRUE, full |-> full, data |-> local[m][i].data,
                   bytes |-> Blank]
  <2>3. local' = [local EXCEPT ![m][i] = g] /\ g.dirty /\ Edit(m, i, g)
    BY <1>0, <2>1, <2>2 DEF Edit
  <2>4. inodes'[m] = inodes[m] \cup {i}
    BY <1>0, <2>1
  <2> HIDE DEF g
  <2> QED BY <2>2, <2>3, <2>4
<1>8. UNCHANGED <<local, inodes>> \/ MakeRoot(m) \/ ReloadObject(m) \/ Create(m) \/ LoadBytes(m)
      \/ Write(m) \/ Truncate(m) \/ SetSize(m)
  BY DEF CalmStep, CheckTable, LookupRoot, MountExisting, KeepObject, RememberMsg, SkipData,
         Lookup, StartUpload, mountVars
<1> QED BY <1>1, <1>2, <1>3, <1>4, <1>5, <1>6, <1>7, <1>8

\* Where they go.
LEMMA CalmPlaces ==
  ASSUME Inv, NEW m \in Mounts, CalmStep(m), WhoPublishes(m), UploadHasObject(m)
  PROVE  /\ WhoPublishes(m)' /\ UploadHasObject(m)'
         /\ frame'[m].pc \notin {"undata"} \cup PublishPCs
         /\ frame'[m].pc = "inode" => SkipData(m) /\ frame'[m].ino = frame[m].ino
<1>0. /\ TypeOK /\ frame \in [Mounts -> Frame] /\ frame[m] \in Frame
      /\ inodes \in [Mounts -> SUBSET Ino] /\ inodes[m] \subseteq inodes'[m]
  <2>1. inodes \in [Mounts -> SUBSET Ino]
    BY DEF Inv, TypeOK
  <2>2. inodes' = inodes \/ \E i : inodes'[m] = inodes[m] \cup {i}
    BY CalmEdits
  <2> QED BY <2>1, <2>2 DEF Inv, TypeOK
<1> USE DEF At, PublishPCs
<1>1. CASE RememberMsg(m)
  <2>1. frame'[m] = [frame[m] EXCEPT !.old = table[m][frame[m].ino],
                                     !.pc = "check", !.ret = "update"]
    BY <1>0, <1>1 DEF RememberMsg
  <2>2. /\ frame'[m].pc = "check" /\ frame'[m].op = frame[m].op
        /\ frame'[m].ino = frame[m].ino
    BY <1>0, <2>1 DEF Frame
  <2> QED BY <1>0, <2>2 DEF WhoPublishes, UploadHasObject
<1>2. CASE (CheckTable(m) /\ UpToDate(m)) \/ LookupRoot(m)
  <2>1. \/ Return(m)
        \/ CallRefresh(m, "mount")
    BY <1>2 DEF CheckTable, LookupRoot
  <2> QED BY <1>0, <2>1, Turns DEF WhoPublishes, UploadHasObject, Keeps
<1>3. CASE MountExisting(m)
  <2>1. Finish(m)
    BY <1>3 DEF MountExisting
  <2> QED BY <1>0, <2>1, Turns DEF WhoPublishes, UploadHasObject
<1>4. CASE KeepObject(m) \/ LoadBytes(m)
  <2>1. EndUpdate(m)
    BY <1>4 DEF KeepObject, LoadBytes
  <2> QED BY <1>0, <2>1, Turns DEF WhoPublishes, UploadHasObject, Keeps
<1>5. CASE ReloadObject(m)
  <2>1. frame[m].pc = "update" /\ frame'[m].pc = "load" /\ Keeps(m)
    BY <1>0, <1>5, Turns DEF ReloadObject
  <2> QED BY <1>0, <2>1 DEF WhoPublishes, UploadHasObject, Keeps
<1>6. CASE SkipData(m)
  <2>1. frame[m].pc = "data" /\ frame'[m].pc = "inode" /\ Keeps(m)
    BY <1>0, <1>6, Turns DEF SkipData
  <2> QED BY <1>0, <1>6, <2>1 DEF WhoPublishes, UploadHasObject, Keeps
<1>7. CASE Write(m) \/ Truncate(m)
  <2>1. frame[m].pc = "idle" /\ frame' = frame
    BY <1>7 DEF Write, Truncate
  <2> QED BY <1>0, <2>1 DEF WhoPublishes, UploadHasObject
<1>8. ASSUME NEW o, NEW i, NEW l, Begin(m, o, i, l), o = "upload" => i \in inodes'[m]
      PROVE  /\ WhoPublishes(m)' /\ UploadHasObject(m)'
             /\ frame'[m].pc \notin {"undata", "inode"} \cup PublishPCs
  <2>1. frame'[m] = [NoFrame("check") EXCEPT !.op = o, !.ino = i, !.ret = l]
    BY <1>0, <1>8 DEF Begin
  <2>2. frame'[m].pc = "check" /\ frame'[m].op = o /\ frame'[m].ino = i
    BY <2>1 DEF NoFrame
  <2> QED BY <1>8, <2>2 DEF WhoPublishes, UploadHasObject
<1>9. CASE MakeRoot(m)
  <2>1. Begin(m, "upload", Root, "msg") /\ Root \in inodes'[m]
    BY <1>0, <1>9 DEF MakeRoot
  <2> QED BY <1>8, <2>1
<1>10. CASE Lookup(m)
  <2>1. \E i : Begin(m, "lookup", i, "update")
    BY <1>10 DEF Lookup
  <2> QED BY <1>8, <2>1
<1>11. CASE SetSize(m) \/ StartUpload(m)
  <2>1. \E i \in inodes[m] : Begin(m, "upload", i, "msg")
    BY <1>11 DEF SetSize, StartUpload
  <2> QED BY <1>0, <1>8, <2>1
<1>12. CASE Create(m)
  <2> DEFINE i == Min(NewInos(m))
  <2>1. Begin(m, "upload", i, "msg") /\ inodes' = [inodes EXCEPT ![m] = @ \cup {i}]
    BY <1>12 DEF Create
  <2> HIDE DEF i
  <2>2. i \in inodes'[m]
    BY <1>0, <2>1
  <2> QED BY <1>8, <2>1, <2>2
<1> QED BY <1>1, <1>2, <1>3, <1>4, <1>5, <1>6, <1>7, <1>9, <1>10, <1>11, <1>12 DEF CalmStep

\* The data of a file comes from it or from a message of its inode.
LEMMA CalmStored ==
  ASSUME Inv, Lone, Files, OneMount, NEW m \in Mounts, CalmStep(m)
  PROVE  Files'
<1>0. /\ local \in [Mounts -> [Ino -> File]] /\ inodes \in [Mounts -> SUBSET Ino]
      /\ UNCHANGED <<chat, pins, table>> /\ Stored(m) /\ ChatOK /\ inodes[m] \subseteq Ino
      /\ frame[m].ino \in Ino
  BY CalmCache, Updates DEF Inv, TypeOK, Lone, Own, Files
<1>1. \A i \in Ino, d \in DOMAIN chat : Owns(m, i, d)' => Owns(m, i, d)
  <2>1. CASE UNCHANGED <<local, inodes>>
    BY <1>0, <2>1 DEF Owns, Data
  <2>2. CASE ~UNCHANGED <<local, inodes>>
    <3>1. PICK i \in Ino : \E g : local' = [local EXCEPT ![m][i] = g] /\ Edit(m, i, g)
      BY <2>2, CalmEdits
    <3>2. PICK g : local' = [local EXCEPT ![m][i] = g] /\ Edit(m, i, g)
      BY <3>1
    <3>3. \A j \in Ino : local'[m][j] = IF j = i THEN g ELSE local[m][j]
      BY <1>0, <3>2
    <3>4. ASSUME NEW d \in DOMAIN chat, d = g.data PROVE Owns(m, i, d)
      <4>1. CASE g.data \in {0, local[m][i].data}
        BY <1>0, <3>4, <4>1 DEF ChatOK, Owns, Data
      <4>2. CASE table[m][i] \in DOMAIN chat /\ g.data = chat[table[m][i]].data
        BY <3>4, <4>2, KindsOf DEF Owns, IsInodeOf
      <4> QED BY <3>2, <4>1, <4>2 DEF Edit
    <3> QED BY <1>0, <3>3, <3>4 DEF Owns, Data
  <2> QED BY <2>1, <2>2
<1>2. DataHasOwner(m)'
  BY <1>0, <1>1 DEF Stored, DataHasOwner
<1>3. CleanIsStored(m)'
  <2>1. CASE UNCHANGED <<local, inodes>>
    BY <1>0, <2>1 DEF Stored, CleanIsStored, Good, HasBytes
  <2>2. CASE ~UNCHANGED <<local, inodes>>
    <3>1. PICK i \in Ino : \E g :
             /\ local' = [local EXCEPT ![m][i] = g] /\ Edit(m, i, g)
             /\ inodes' = inodes \/ (inodes'[m] = inodes[m] \cup {i} /\ g.dirty)
      BY <2>2, CalmEdits
    <3>2. PICK g :
             /\ local' = [local EXCEPT ![m][i] = g] /\ Edit(m, i, g)
             /\ inodes' = inodes \/ (inodes'[m] = inodes[m] \cup {i} /\ g.dirty)
      BY <3>1
    <3>3. \A j \in Ino : local'[m][j] = IF j = i THEN g ELSE local[m][j]
      BY <1>0, <3>2
    <3>4. i \in inodes'[m] => Good(g)
      <4>1. CASE i \in inodes[m]
        BY <1>0, <3>2, <4>1 DEF Stored, CleanIsStored, Good, Edit, HasBytes
      <4>2. CASE i \notin inodes[m]
        BY <3>2, <4>2 DEF Good
      <4> QED BY <4>1, <4>2
    <3>5. \A f : Good(f) => Good(f)'
      BY <1>0 DEF Good, HasBytes
    <3>6. \A j \in inodes'[m] : Good(local'[m][j])
      BY <1>0, <3>2, <3>3, <3>4 DEF Stored, CleanIsStored
    <3> QED BY <1>0, <3>6 DEF CleanIsStored, Good, HasBytes
  <2> QED BY <2>1, <2>2
<1>4. /\ WhoPublishes(m)' /\ UploadHasObject(m)'
      /\ frame'[m].pc \notin {"undata"} \cup PublishPCs
      /\ frame'[m].pc = "inode" => SkipData(m) /\ frame'[m].ino = frame[m].ino
  BY <1>0, CalmPlaces DEF Stored
<1>5. InodeIsReady(m)'
  <2> SUFFICES ASSUME SkipData(m), frame'[m].ino = frame[m].ino
               PROVE  InodeIsReady(m)'
    BY <1>4 DEF InodeIsReady
  <2> DEFINE f == local[m][frame[m].ino]
  <2>1. UNCHANGED local /\ ~NeedsData(f) /\ frame[m].pc = "data"
    BY DEF SkipData, mountVars, At
  <2>2. frame[m].ino \in inodes[m]
    BY <1>0, <2>1 DEF Stored, WhoPublishes, UploadHasObject
  <2>3. f.full => HasBytes(f.data, f.bytes)
    BY <1>0, <2>1, <2>2 DEF Stored, CleanIsStored, Good, NeedsData
  <2> QED BY <1>0, <2>1, <2>3 DEF InodeIsReady, HasBytes
<1>6. NewDataIsFree(m)' /\ FileIsSent(m)'
  BY <1>4 DEF NewDataIsFree, FileIsSent
<1> QED BY <1>2, <1>3, <1>4, <1>5, <1>6 DEF Files, Stored, OneMount

-----------------------------------------------------------------------------
(* Other steps that change no message.                                     *)

\* What they need not show.
LEMMA SameStored ==
  ASSUME Files, NEW m \in Mounts, UNCHANGED <<chat, local>>, inodes' = inodes \/ inodes'[m] = {}
  PROVE  DataHasOwner(m)' /\ CleanIsStored(m)'
<1>0. Stored(m)
  BY DEF Files
<1>1. \A i, d : Owns(m, i, d)' <=> Owns(m, i, d)
  BY DEF Owns, Data
<1>2. DataHasOwner(m)'
  BY <1>0, <1>1 DEF Stored, DataHasOwner
<1>3. CleanIsStored(m)'
  BY <1>0 DEF Stored, CleanIsStored, Good, HasBytes
<1> QED BY <1>2, <1>3

\* update_table, the constructor, and the end of upload_table.
LEMMA QuietStored ==
  ASSUME Inv, Files, OneMount, NEW m \in Mounts,
         Refresh(m) \/ Boot(m) \/ FindPinned(m) \/ PinTable(m)
  PROVE  Files'
<1>0. /\ TypeOK /\ frame \in [Mounts -> Frame] /\ frame[m] \in Frame
      /\ UNCHANGED <<chat, local, inodes>> /\ Stored(m)
  BY DEF Inv, TypeOK, Files, Refresh, CheckTable, ReadPinned, TableIsCurrent, StartOver,
         AdoptTable, FetchTable, Boot, FindPinned, PinTable, Pin, chatVars, mountVars
<1>1. DataHasOwner(m)' /\ CleanIsStored(m)'
  BY <1>0, SameStored
<1>2. CASE Refresh(m) \/ Boot(m)
  <2>1. /\ frame'[m].pc \in RefreshPCs \cup ReturnPCs
        /\ frame'[m].op = "upload" => frame[m].op = "upload" /\ frame'[m].ino = frame[m].ino
    <3>1. CASE ReadPinned(m)
      <4>1. frame'[m] = [frame[m] EXCEPT !.pc = "confirm", !.hold = LastPinned]
        BY <1>0, <3>1 DEF ReadPinned
      <4> QED BY <1>0, <4>1 DEF Frame, RefreshPCs
    <3>2. CASE Boot(m)
      <4>1. frame'[m] = [NoFrame("pinned") EXCEPT !.op = "boot", !.ret = "boot"]
        BY <1>0, <3>2 DEF Boot
      <4> QED BY <4>1 DEF NoFrame, RefreshPCs
    <3>3. CASE Return(m) \/ \E l \in RefreshPCs : Goto(m, l)
      BY <1>0, <3>3, Turns DEF Keeps, Frame
    <3> QED BY <1>2, <3>1, <3>2, <3>3
            DEF Refresh, CheckTable, TableIsCurrent, StartOver, AdoptTable, FetchTable, RefreshPCs
  <2> QED BY <1>0, <1>1, <2>1
          DEF Files, Stored, OneMount, NewDataIsFree, UploadHasObject, WhoPublishes, InodeIsReady,
              FileIsSent, RefreshPCs, ReturnPCs, PublishPCs
<1>3. CASE FindPinned(m) \/ PinTable(m)
  <2>1. /\ frame[m].pc \in PublishPCs /\ frame'[m].pc \in PublishPCs
        /\ frame'[m].op = frame[m].op /\ frame'[m].ino = frame[m].ino /\ table' = table
    <3>1. CASE FindPinned(m)
      <4>1. frame'[m] = [frame[m] EXCEPT !.hold = LastPinned,
                                         !.pc = IF LastPinned = 0 THEN "pin" ELSE "unpin"]
        BY <1>0, <3>1 DEF FindPinned
      <4> QED BY <1>0, <3>1, <4>1 DEF FindPinned, At, Frame, PublishPCs, mountVars
    <3>2. CASE PinTable(m)
      BY <1>0, <3>2, Turns DEF PinTable, At, Keeps, PublishPCs
    <3> QED BY <1>3, <3>1, <3>2
  <2> QED BY <1>0, <1>1, <2>1
          DEF Files, Stored, OneMount, NewDataIsFree, UploadHasObject, WhoPublishes, InodeIsReady,
              FileIsSent, HasBytes, PublishPCs
<1> QED BY <1>2, <1>3

\* The end of the process.
LEMMA VanishStored ==
  ASSUME Inv, Files, OneMount, NEW m \in Mounts, Kill(m) \/ Segv(m)
  PROVE  Files'
<1>0. /\ TypeOK /\ local \in [Mounts -> [Ino -> File]] /\ inodes \in [Mounts -> SUBSET Ino]
      /\ frame \in [Mounts -> Frame] /\ chat' = chat /\ Stored(m)
  BY DEF Inv, TypeOK, Files, Kill, Segv, chatVars
<1>1. inodes'[m] = {} /\ frame'[m] \in {NoFrame("down"), NoFrame("segv")}
  BY <1>0 DEF Kill, Segv, Vanish
<1>2. \A i \in Ino : Data(m, i)' = Data(m, i)
  <2>1. local'[m] = [i \in Ino |-> [local[m][i] EXCEPT !.version = 0, !.dirty = FALSE]]
    BY <1>0 DEF Kill, Segv, Vanish
  <2>2. \A i \in Ino : local[m][i] \in File
    BY <1>0
  <2> QED BY <2>1, <2>2 DEF Data, File
<1>3. \A i \in Ino : \A d : Owns(m, i, d)' <=> Owns(m, i, d)
  BY <1>0, <1>2 DEF Owns
<1>4. DataHasOwner(m)'
  BY <1>0, <1>3 DEF Stored, DataHasOwner
<1>5. frame'[m].pc \in {"down", "segv"} /\ frame'[m].op = "none"
  BY <1>1 DEF NoFrame
<1> QED BY <1>1, <1>4, <1>5
        DEF Files, Stored, OneMount, CleanIsStored, NewDataIsFree, UploadHasObject, WhoPublishes,
            InodeIsReady, FileIsSent, PublishPCs

-----------------------------------------------------------------------------
(* Steps that change the chat.                                             *)

\* A message more: what was there is there, and nothing names the new one.
LEMMA SentKeeps ==
  ASSUME Inv, NEW m \in Mounts, NEW p \in Payload, Send(p),
         \A i \in Ino : Data(m, i)' = Data(m, i)
  PROVE  /\ DOMAIN chat' = DOMAIN chat \cup {NextId} /\ chat'[NextId] = p
         /\ \A x \in DOMAIN chat : chat'[x] = chat[x]
         /\ \A x, b : HasBytes(x, b) => HasBytes(x, b)'
         /\ \A f : Good(f) => Good(f)'
         /\ \A i \in Ino : ~Owns(m, i, NextId)
         /\ \A i \in Ino : \A d : Owns(m, i, d)' =>
               Owns(m, i, d) \/ (p.kind = "inode" /\ p.ino = i /\ p.data = d)
<1>0. ChatOK /\ lastId \in Nat /\ NextId = lastId + 1
  BY DEF Inv, TypeOK, ChatOK, NextId
<1>1. /\ chat'[NextId] = p /\ DOMAIN chat' = DOMAIN chat \cup {NextId}
      /\ \A x \in DOMAIN chat : chat'[x] = chat[x]
  BY <1>0, SendOK DEF ChatOK, Send
<1>2. \A x, b : HasBytes(x, b) => HasBytes(x, b)'
  BY <1>1 DEF HasBytes
<1>3. \A f : Good(f) => Good(f)'
  BY <1>1, <1>2 DEF Good
<1>4. ASSUME NEW i \in Ino PROVE ~Owns(m, i, NextId)
  <2>1. Data(m, i) \in Nat /\ Data(m, i) <= lastId
    BY Updates DEF Inv, Kinds, KindOfLocals, Of, File, Data
  <2>2. ASSUME NEW x \in DOMAIN chat, chat[x].kind = "inode" PROVE chat[x].data # NextId
    <3>1. chat[x].data \in Nat
      BY <1>0, <2>2, Fields DEF ChatOK
    <3>2. chat[x].data <= lastId
      BY <2>2 DEF Inv, Kinds, KindOfMessages, Refers, Of
    <3> QED BY <1>0, <3>1, <3>2
  <2>3. Data(m, i) # NextId
    BY <1>0, <2>1
  <2> QED BY <2>2, <2>3 DEF Owns
<1>5. ASSUME NEW i \in Ino, NEW d, Owns(m, i, d)'
      PROVE  Owns(m, i, d) \/ (p.kind = "inode" /\ p.ino = i /\ p.data = d)
  BY <1>1, <1>5 DEF Owns
<1> QED BY <1>1, <1>2, <1>3, <1>4, <1>5

\* A message less: who had owners has them, who had bytes has them.
LEMMA GoneKeeps ==
  ASSUME Inv, NEW x, Delete(x)
  PROVE  /\ DOMAIN chat' = DOMAIN chat \ {x}
         /\ \A y \in DOMAIN chat' : chat'[y] = chat[y]
         /\ \A y, b : HasBytes(y, b) /\ y # x => HasBytes(y, b)'
         /\ \A f : Good(f) /\ (f.dirty \/ f.data # x) => Good(f)'
         /\ \A m \in Mounts, i \in Ino : \A d :
               Data(m, i)' = Data(m, i) /\ Owns(m, i, d)' => Owns(m, i, d)
<1>0. ChatOK
  BY DEF Inv, TypeOK
<1>1. DOMAIN chat' = DOMAIN chat \ {x} /\ \A y \in DOMAIN chat' : chat'[y] = chat[y]
  BY <1>0, DeleteOK
<1>2. \A y, b : HasBytes(y, b) /\ y # x => HasBytes(y, b)'
  BY <1>1 DEF HasBytes
<1>3. \A f : Good(f) /\ (f.dirty \/ f.data # x) => Good(f)'
  BY <1>1, <1>2 DEF Good
<1>4. ASSUME NEW m \in Mounts, NEW i \in Ino, NEW d, Data(m, i)' = Data(m, i), Owns(m, i, d)'
      PROVE  Owns(m, i, d)
  BY <1>1, <1>4 DEF Owns
<1> QED BY <1>1, <1>2, <1>3, <1>4

\* The data is sent,
LEMMA SendDataStored ==
  ASSUME Inv, Files, OneMount, NEW m \in Mounts, SendData(m)
  PROVE  Files'
<1> DEFINE f == local[m][frame[m].ino]
           p == [kind |-> "data", bytes |-> f.bytes]
<1>0. /\ TypeOK /\ frame \in [Mounts -> Frame] /\ frame[m] \in Frame /\ frame[m].ino \in Ino
      /\ UNCHANGED <<table, local, inodes>> /\ Stored(m)
  BY Updates DEF Inv, TypeOK, Files, SendData, mountVars
<1>1. frame'[m] = [frame[m] EXCEPT !.pc = "undata", !.new = NextId]
  BY <1>0 DEF SendData
<1>2. /\ frame[m].pc = "data" /\ frame'[m].pc = "undata" /\ frame'[m].new = NextId
      /\ frame'[m].op = frame[m].op /\ frame'[m].ino = frame[m].ino
  BY <1>0, <1>1 DEF SendData, At, Frame
<1>3. Send(p) /\ p \in Payload /\ \A i \in Ino : Data(m, i)' = Data(m, i)
  BY <1>0, PayloadsOK DEF SendData, Data
<1>4. /\ DOMAIN chat' = DOMAIN chat \cup {NextId} /\ chat'[NextId] = p
      /\ \A g : Good(g) => Good(g)'
      /\ \A i \in Ino : ~Owns(m, i, NextId)
      /\ \A i \in Ino : \A d : Owns(m, i, d)' => Owns(m, i, d)
  BY <1>3, SentKeeps
<1>5. DataHasOwner(m)'
  BY <1>0, <1>4 DEF Stored, DataHasOwner
<1>6. NewDataIsFree(m)'
  BY <1>0, <1>2, <1>4 DEF NewDataIsFree
<1>7. CleanIsStored(m)'
  <2>1. \A i \in inodes[m] : Good(local[m][i])'
    BY <1>0, <1>4 DEF Stored, CleanIsStored, Good, HasBytes
  <2> QED BY <1>0, <2>1 DEF CleanIsStored
<1>8. /\ UploadHasObject(m)' /\ WhoPublishes(m)' /\ InodeIsReady(m)' /\ FileIsSent(m)'
  BY <1>0, <1>2
     DEF Stored, UploadHasObject, WhoPublishes, InodeIsReady, FileIsSent, PublishPCs
<1> QED BY <1>5, <1>6, <1>7, <1>8 DEF Files, Stored, OneMount

\* takes the place of the old data,
LEMMA OldDataStored ==
  ASSUME Inv, Files, OneMount, NEW m \in Mounts, RemoveOldData(m)
  PROVE  Files'
<1> DEFINE i == frame[m].ino
           x == Data(m, i)
           n == frame[m].new
           g == [local[m][i] EXCEPT !.data = n, !.dirty = FALSE]
<1>0. /\ TypeOK /\ frame \in [Mounts -> Frame] /\ frame[m] \in Frame /\ i \in Ino
      /\ local \in [Mounts -> [Ino -> File]] /\ local[m][i] \in File /\ inodes[m] \subseteq Ino
      /\ UNCHANGED <<table, inodes>> /\ Stored(m)
  BY Updates DEF Inv, TypeOK, Files, RemoveOldData
<1>1. frame[m].pc = "undata" /\ frame'[m].pc = "inode" /\ Keeps(m)
  BY <1>0, Turns DEF RemoveOldData, At
<1>2. /\ \A j \in Ino : local'[m][j] = IF j = i THEN g ELSE local[m][j]
      /\ g.data = n /\ g.bytes = local[m][i].bytes /\ g.full = local[m][i].full /\ ~g.dirty
  <2>1. local' = [local EXCEPT ![m][i] = g]
    BY <1>0 DEF RemoveOldData
  <2> QED BY <1>0, <2>1 DEF File
<1> HIDE DEF g
<1>3. /\ DOMAIN chat' = DOMAIN chat \ {x}
      /\ \A y \in DOMAIN chat' : chat'[y] = chat[y]
      /\ \A f : Good(f) /\ (f.dirty \/ f.data # x) => Good(f)'
      /\ \A j \in Ino : \A d : Data(m, j)' = Data(m, j) /\ Owns(m, j, d)' => Owns(m, j, d)
  <2>1. Delete(x)
    BY DEF RemoveOldData, Data
  <2> QED BY <2>1, GoneKeeps
<1>4. n \in DOMAIN chat /\ chat[n].bytes = g.bytes /\ \A j \in Ino : ~Owns(m, j, n)
  BY <1>0, <1>1, <1>2 DEF Stored, NewDataIsFree
<1>5. n # x
  BY <1>0, <1>4 DEF Owns
<1>6. \A j \in Ino : \A d : Owns(m, j, d)' => Owns(m, j, d) \/ (j = i /\ d = n)
  <2> SUFFICES ASSUME NEW j \in Ino, NEW d, Owns(m, j, d)'
               PROVE  Owns(m, j, d) \/ (j = i /\ d = n)
    OBVIOUS
  <2>1. CASE j = i
    BY <1>2, <1>3, <2>1 DEF Owns, Data
  <2>2. CASE j # i
    BY <1>2, <1>3, <2>2 DEF Data
  <2> QED BY <2>1, <2>2
<1>7. DataHasOwner(m)'
  BY <1>0, <1>3, <1>4, <1>6 DEF Stored, DataHasOwner
<1>8. n \in DOMAIN chat' /\ chat'[n].bytes = g.bytes
  BY <1>3, <1>4, <1>5
<1>9. CleanIsStored(m)'
  <2> SUFFICES ASSUME NEW j \in inodes[m] PROVE Good(local[m][j])'
    BY <1>0 DEF CleanIsStored
  <2>1. CASE j = i
    BY <1>0, <1>2, <1>8, <2>1 DEF Good, HasBytes
  <2>2. CASE j # i
    <3> DEFINE f == local[m][j]
    <3>1. Good(f) /\ local'[m][j] = f
      BY <1>0, <1>2, <2>2 DEF Stored, CleanIsStored
    <3>2. f.dirty \/ f.data # x
      <4>1. Owns(m, j, f.data) /\ Owns(m, i, x)
        BY DEF Owns, Data
      <4>2. f.dirty \/ f.data \in DOMAIN chat
        BY <3>1 DEF Good
      <4> QED BY <1>0, <2>2, <4>1, <4>2 DEF Stored, DataHasOwner
    <3> QED BY <1>3, <3>1, <3>2 DEF Good, HasBytes
  <2> QED BY <2>1, <2>2
<1>10. InodeIsReady(m)'
  BY <1>0, <1>1, <1>2, <1>8 DEF InodeIsReady, HasBytes, Keeps
<1>11. /\ NewDataIsFree(m)' /\ UploadHasObject(m)' /\ WhoPublishes(m)' /\ FileIsSent(m)'
  BY <1>0, <1>1
     DEF Stored, NewDataIsFree, UploadHasObject, WhoPublishes, FileIsSent, PublishPCs, Keeps
<1> QED BY <1>7, <1>9, <1>10, <1>11 DEF Files, Stored, OneMount

\* the inode follows,
LEMMA SendInodeStored ==
  ASSUME Inv, Files, OneMount, NEW m \in Mounts, SendInode(m)
  PROVE  Files'
<1> DEFINE i == frame[m].ino
           f == local[m][i]
           p == [kind |-> "inode", ino |-> i, full |-> f.full, data |-> f.data]
           g == [f EXCEPT !.version = NextId]
<1>0. /\ TypeOK /\ frame \in [Mounts -> Frame] /\ frame[m] \in Frame /\ i \in Ino
      /\ local \in [Mounts -> [Ino -> File]] /\ f \in File /\ inodes[m] \subseteq Ino
      /\ table \in [Mounts -> [Ino -> Nat]] /\ inodes' = inodes /\ Stored(m)
  BY Updates DEF Inv, TypeOK, Files, SendInode, SendsInode
<1>1. frame[m].pc = "inode" /\ frame'[m].pc = "table" /\ Keeps(m)
  BY <1>0, Turns DEF SendInode, SendsInode, At
<1>2. /\ \A j \in Ino : local'[m][j] = IF j = i THEN g ELSE local[m][j]
      /\ g.data = f.data /\ g.bytes = f.bytes /\ g.full = f.full /\ g.dirty = f.dirty
      /\ table'[m][i] = NextId
  <2>1. local' = [local EXCEPT ![m][i] = g] /\ table' = [table EXCEPT ![m][i] = NextId]
    BY <1>0 DEF SendInode
  <2> QED BY <1>0, <2>1 DEF File
<1> HIDE DEF g
<1>3. Send(p) /\ p \in Payload /\ \A j \in Ino : Data(m, j)' = Data(m, j)
  BY <1>0, <1>2, PayloadsOK DEF SendInode, SendsInode, Data
<1>4. /\ DOMAIN chat' = DOMAIN chat \cup {NextId} /\ chat'[NextId] = p
      /\ \A y \in DOMAIN chat : chat'[y] = chat[y]
      /\ \A h : Good(h) => Good(h)'
      /\ \A j \in Ino : ~Owns(m, j, NextId)
      /\ \A j \in Ino : \A d : Owns(m, j, d)' => Owns(m, j, d) \/ (i = j /\ f.data = d)
  BY <1>3, SentKeeps
<1>5. \A j \in Ino : \A d : Owns(m, j, d)' => Owns(m, j, d)
  BY <1>4 DEF Owns, Data
<1>6. DataHasOwner(m)'
  BY <1>0, <1>4, <1>5 DEF Stored, DataHasOwner
<1>7. CleanIsStored(m)'
  <2> SUFFICES ASSUME NEW j \in inodes[m] PROVE Good(local[m][j])'
    BY <1>0 DEF CleanIsStored
  <2>1. Good(local[m][j])
    BY <1>0 DEF Stored, CleanIsStored
  <2>2. Good(local'[m][j])
    BY <1>0, <1>2, <2>1 DEF Good
  <2> QED BY <1>4, <2>2 DEF Good, HasBytes
<1>8. FileIsSent(m)'
  <2>1. f.full => f.data \in DOMAIN chat' /\ (TRUE \in Sizes \/ chat'[f.data].bytes = f.bytes)
    BY <1>0, <1>1, <1>4 DEF Stored, InodeIsReady, HasBytes
  <2>2. /\ table'[m][i] \in DOMAIN chat' /\ chat'[table'[m][i]].full = g.full
        /\ chat'[table'[m][i]].data = g.data
    BY <1>2, <1>4
  <2>3. local'[m][i] = g /\ frame'[m].ino = i
    BY <1>0, <1>1, <1>2 DEF Keeps
  <2> QED BY <1>2, <2>1, <2>2, <2>3 DEF FileIsSent, HasBytes
<1>9. /\ NewDataIsFree(m)' /\ UploadHasObject(m)' /\ WhoPublishes(m)' /\ InodeIsReady(m)'
  BY <1>0, <1>1
     DEF Stored, NewDataIsFree, UploadHasObject, WhoPublishes, InodeIsReady, PublishPCs, Keeps
<1> QED BY <1>6, <1>7, <1>8, <1>9 DEF Files, Stored, OneMount

\* and the table.
LEMMA SendTableStored ==
  ASSUME Inv, Files, OneMount, NEW m \in Mounts, SendTable(m)
  PROVE  Files'
<1> DEFINE p == [kind |-> "table", map |-> table[m]]
<1>0. /\ TypeOK /\ frame \in [Mounts -> Frame] /\ frame[m] \in Frame /\ frame[m].ino \in Ino
      /\ UNCHANGED <<table, local, inodes>> /\ Stored(m)
  BY Updates DEF Inv, TypeOK, Files, SendTable, mountVars
<1>1. frame'[m] = [frame[m] EXCEPT !.pc = "swap", !.new = NextId]
  BY <1>0 DEF SendTable
<1>2. /\ frame[m].pc = "table" /\ frame'[m].pc = "swap"
      /\ frame'[m].op = frame[m].op /\ frame'[m].ino = frame[m].ino
  BY <1>0, <1>1 DEF SendTable, At, Frame
<1>3. Send(p) /\ p \in Payload /\ p.kind = "table" /\ \A i \in Ino : Data(m, i)' = Data(m, i)
  BY <1>0, PayloadsOK DEF SendTable, Data
<1> HIDE DEF p
<1>4. /\ DOMAIN chat' = DOMAIN chat \cup {NextId}
      /\ \A x \in DOMAIN chat : chat'[x] = chat[x]
      /\ \A g : Good(g) => Good(g)'
      /\ \A i \in Ino : ~Owns(m, i, NextId)
      /\ \A i \in Ino : \A d : Owns(m, i, d)' => Owns(m, i, d)
  BY <1>3, SentKeeps
<1>5. DataHasOwner(m)'
  BY <1>0, <1>4 DEF Stored, DataHasOwner
<1>6. CleanIsStored(m)'
  <2>1. \A i \in inodes[m] : Good(local[m][i])'
    BY <1>0, <1>4 DEF Stored, CleanIsStored, Good, HasBytes
  <2> QED BY <1>0, <2>1 DEF CleanIsStored
<1>7. FileIsSent(m)'
  BY <1>0, <1>2, <1>4 DEF Stored, FileIsSent, HasBytes, PublishPCs
<1>8. NewDataIsFree(m)' /\ UploadHasObject(m)' /\ WhoPublishes(m)' /\ InodeIsReady(m)'
  BY <1>0, <1>2
     DEF Stored, NewDataIsFree, UploadHasObject, WhoPublishes, InodeIsReady, PublishPCs
<1> QED BY <1>5, <1>6, <1>7, <1>8 DEF Files, Stored, OneMount

\* What goes then is neither data nor the inode.
LEMMA ReplacedStored ==
  ASSUME Inv, Lone, Files, OneMount, NEW m \in Mounts, RemovePinned(m) \/ DropOld(m)
  PROVE  Files'
<1> DEFINE i == frame[m].ino
           x == IF RemovePinned(m) THEN frame[m].hold ELSE frame[m].old
<1>0. /\ TypeOK /\ ChatOK /\ frame \in [Mounts -> Frame] /\ i \in Ino
      /\ local \in [Mounts -> [Ino -> File]] /\ inodes[m] \subseteq Ino
      /\ UNCHANGED <<table, inodes>> /\ Stored(m) /\ Own(m)
  BY Updates DEF Inv, TypeOK, Files, Lone, RemovePinned, DropOld, mountVars
<1>1. Delete(x)
  BY DEF RemovePinned, DropOld, At
<1>2. \A j \in Ino : local[m][j].data \in DOMAIN chat => local[m][j].data # x
  <2>1. x \in DOMAIN chat => chat[x].kind \in {"table", "inode"}
    <3>1. CASE RemovePinned(m)
      <4>1. x \in pins
        BY <1>0, <3>1, LastPinnedIn DEF RemovePinned, At, Own, PinIsHeld
      <4> QED BY <4>1, KindsOf
    <3>2. CASE ~RemovePinned(m)
      BY <3>2, KindsOf DEF IsInodeOf
    <3> QED BY <3>1, <3>2
  <2> QED BY <2>1, KindsOf DEF Is
<1>3. /\ DOMAIN chat' = DOMAIN chat \ {x}
      /\ \A y \in DOMAIN chat' : chat'[y] = chat[y]
      /\ \A g : Good(g) /\ (g.dirty \/ g.data # x) => Good(g)'
      /\ \A j \in Ino : \A d : Data(m, j)' = Data(m, j) /\ Owns(m, j, d)' => Owns(m, j, d)
  <2> HIDE DEF x
  <2> QED BY <1>1, GoneKeeps
<1>4. \/ local' = local
      \/ /\ DropOld(m) /\ frame[m].op = "remove" /\ i \notin inodes[m]
         /\ local' = [local EXCEPT ![m][i] = NoFile]
  BY <1>0 DEF RemovePinned, DropOld, mountVars, At, Own, Replaced, PublishPCs
<1>5. \A j \in Ino : local'[m][j] = local[m][j] \/ (j \notin inodes[m] /\ local'[m][j].data = 0)
  <2>1. NoFile.data = 0
    BY DEF NoFile
  <2> QED BY <1>0, <1>4, <2>1
<1>6. \A j \in Ino, d \in DOMAIN chat : Owns(m, j, d)' => Owns(m, j, d)
  <2> SUFFICES ASSUME NEW j \in Ino, NEW d \in DOMAIN chat, Owns(m, j, d)'
               PROVE  Owns(m, j, d)
    OBVIOUS
  <2>1. CASE local'[m][j] = local[m][j]
    BY <1>3, <2>1 DEF Data
  <2>2. CASE local'[m][j].data = 0
    BY <1>0, <1>3, <2>2 DEF Owns, Data, ChatOK
  <2> QED BY <1>5, <2>1, <2>2
<1>7. DataHasOwner(m)'
  BY <1>0, <1>3, <1>6 DEF Stored, DataHasOwner
<1>8. CleanIsStored(m)'
  <2> SUFFICES ASSUME NEW j \in inodes[m] PROVE Good(local[m][j])'
    BY <1>0 DEF CleanIsStored
  <2>1. local'[m][j] = local[m][j] /\ Good(local[m][j])
    BY <1>0, <1>5 DEF Stored, CleanIsStored
  <2>2. local[m][j].dirty \/ local[m][j].data # x
    BY <1>0, <1>2, <2>1 DEF Good
  <2> QED BY <1>3, <2>1, <2>2 DEF Good, HasBytes
<1>9. CASE RemovePinned(m)
  <2>1. frame[m].pc = "unpin" /\ frame'[m].pc = "pin" /\ Keeps(m) /\ local' = local
    BY <1>0, <1>9, Turns DEF RemovePinned, At, mountVars
  <2>2. x \in pins
    BY <1>0, <1>9, <2>1, LastPinnedIn DEF Own, PinIsHeld
  <2>3. table[m][i] # x
    <3> HIDE DEF x
    <3>1. x \in DOMAIN chat /\ chat[x].kind = "table"
      BY <2>2, KindsOf
    <3>2. IsInodeOf(table[m][i], i)
      BY <1>0, KindsOf
    <3> QED BY <3>1, <3>2 DEF IsInodeOf
  <2>4. FileIsSent(m)'
    <3> HIDE DEF x
    <3> SUFFICES ASSUME frame[m].op = "upload"
                 PROVE  FileIsSent(m)'
      BY <2>1 DEF FileIsSent, Keeps
    <3> DEFINE f == local[m][i]
               y == table[m][i]
    <3>1. /\ y \in DOMAIN chat /\ chat[y].full = f.full /\ chat[y].data = f.data
          /\ f.full => HasBytes(f.data, f.bytes)
      BY <1>0, <2>1 DEF Stored, FileIsSent, PublishPCs
    <3>2. y \in DOMAIN chat' /\ chat'[y] = chat[y]
      BY <1>3, <2>3, <3>1
    <3>3. f.full => f.data \in DOMAIN chat' /\ (TRUE \in Sizes \/ chat'[f.data].bytes = f.bytes)
      BY <1>0, <1>2, <1>3, <3>1 DEF HasBytes
    <3>4. local'[m][i] = f /\ table'[m][i] = y /\ frame'[m].ino = i
      BY <1>0, <2>1 DEF Keeps
    <3> QED BY <3>1, <3>2, <3>3, <3>4 DEF FileIsSent, HasBytes
  <2>5. NewDataIsFree(m)' /\ UploadHasObject(m)' /\ WhoPublishes(m)' /\ InodeIsReady(m)'
    BY <1>0, <2>1
       DEF Stored, NewDataIsFree, UploadHasObject, WhoPublishes, InodeIsReady, PublishPCs, Keeps
  <2> QED BY <1>7, <1>8, <2>4, <2>5 DEF Files, Stored, OneMount
<1>10. CASE DropOld(m)
  <2>1. frame'[m].pc = "idle" /\ frame'[m].op = "none"
    BY <1>0, <1>10, Turns DEF DropOld
  <2> QED BY <1>7, <1>8, <2>1
          DEF Files, Stored, OneMount, NewDataIsFree, UploadHasObject, WhoPublishes,
              InodeIsReady, FileIsSent, PublishPCs
<1> QED BY <1>9, <1>10

\* remove takes the data of its own inode.
LEMMA RemovalStored ==
  ASSUME Inv, Files, OneMount, NEW m \in Mounts, StartRemove(m)
  PROVE  Files'
<1>0. /\ TypeOK /\ inodes \in [Mounts -> SUBSET Ino] /\ frame \in [Mounts -> Frame]
      /\ local' = local /\ Stored(m)
  BY DEF Inv, TypeOK, Files, StartRemove, RemovesEntry
<1>1. PICK i \in inodes[m] :
         /\ inodes' = [inodes EXCEPT ![m] = @ \ {i}]
         /\ Delete(local[m][i].data)
         /\ frame' = [frame EXCEPT ![m] = [NoFrame("table") EXCEPT
                         !.op = "remove", !.ino = i, !.old = table[m][i]]]
  BY DEF StartRemove, RemovesEntry
<1> DEFINE x == local[m][i].data
<1>2. frame'[m].pc = "table" /\ frame'[m].op = "remove"
  <2>1. frame'[m] = [NoFrame("table") EXCEPT !.op = "remove", !.ino = i, !.old = table[m][i]]
    BY <1>0, <1>1
  <2> QED BY <2>1 DEF NoFrame
<1>3. /\ DOMAIN chat' = DOMAIN chat \ {x}
      /\ \A g : Good(g) /\ (g.dirty \/ g.data # x) => Good(g)'
      /\ \A j \in Ino : \A d : Owns(m, j, d)' => Owns(m, j, d)
  <2>1. \A j \in Ino : Data(m, j)' = Data(m, j)
    BY <1>0 DEF Data
  <2> QED BY <1>1, <2>1, GoneKeeps
<1>4. DataHasOwner(m)'
  BY <1>0, <1>3 DEF Stored, DataHasOwner
<1>5. CleanIsStored(m)'
  <2>1. inodes'[m] = inodes[m] \ {i} /\ inodes[m] \subseteq Ino
    BY <1>0, <1>1
  <2> SUFFICES ASSUME NEW j \in inodes[m] \ {i} PROVE Good(local[m][j])'
    BY <2>1 DEF CleanIsStored
  <2> DEFINE f == local[m][j]
  <2>2. Good(f)
    BY <1>0 DEF Stored, CleanIsStored
  <2>3. f.dirty \/ f.data # x
    <3>1. Owns(m, j, f.data) /\ Owns(m, i, x)
      BY DEF Owns, Data
    <3>2. f.dirty \/ f.data \in DOMAIN chat
      BY <2>2 DEF Good
    <3> QED BY <1>0, <2>1, <3>1, <3>2 DEF Stored, DataHasOwner
  <2> QED BY <1>0, <1>3, <2>2, <2>3 DEF Good, HasBytes
<1> QED BY <1>2, <1>4, <1>5
        DEF Files, Stored, OneMount, NewDataIsFree, UploadHasObject, WhoPublishes,
            InodeIsReady, FileIsSent, PublishPCs

\* In the beginning.
LEMMA FilesInit ==
  ASSUME Init
  PROVE  Files
<1>1. \A m \in Mounts : frame[m].pc = "down" /\ frame[m].op = "none"
  BY DEF Init, NoFrame
<1>2. DOMAIN chat = {} /\ \A m \in Mounts : inodes[m] = {}
  BY DEF Init, EmptyChat
<1> QED BY <1>1, <1>2
        DEF Files, Stored, DataHasOwner, NewDataIsFree, CleanIsStored, UploadHasObject,
            WhoPublishes, InodeIsReady, FileIsSent, PublishPCs

\* One mount at a time, whenever it is killed, keeps Files.
LEMMA FilesStep ==
  ASSUME Inv, Lone, Files, OneMount, [Work]_vars
  PROVE  Files'
<1>1. CASE UNCHANGED vars
  <2>1. UNCHANGED <<chat, pins, table, inodes, local, frame>>
    BY <1>1 DEF vars, counters, chatVars, mountVars
  <2>2. \A m \in Mounts : DataHasOwner(m)' /\ CleanIsStored(m)'
    BY <2>1, SameStored
  <2> QED BY <2>1, <2>2
          DEF Files, Stored, NewDataIsFree, Owns, Data, UploadHasObject, WhoPublishes,
              InodeIsReady, FileIsSent, HasBytes
<1>2. ASSUME NEW m \in Mounts, Step(m) \/ Ask(m)
      PROVE  Files'
  <2>1. \/ CalmStep(m) \/ Refresh(m) \/ Boot(m) \/ Kill(m) \/ Segv(m)
        \/ SendData(m) \/ RemoveOldData(m) \/ SendInode(m) \/ SendTable(m) \/ FindPinned(m)
        \/ RemovePinned(m) \/ PinTable(m) \/ DropOld(m) \/ StartRemove(m)
    BY <1>2 DEF Step, Ask, CalmStep
  <2> QED BY <2>1, CalmStored, QuietStored, VanishStored, SendDataStored, OldDataStored,
             SendInodeStored, SendTableStored, ReplacedStored, RemovalStored
<1> QED BY <1>1, <1>2 DEF Work

\* Files is an invariant up to the first failed request.
LEMMA FilesInvariance ==
  ASSUME OneMount
  PROVE  Spec => [](errors = 0 => Inv /\ Lone /\ Files)
<1>1. Init => Files
  BY FilesInit
<1>2. TypeOK /\ (errors = 0 => Inv /\ Lone /\ Files) /\ [Next]_vars => (errors = 0 => Files)'
  BY FilesStep, NotFailedYet
<1> QED BY <1>1, <1>2, LoneInvariance, TypeCorrect, PTL DEF Spec

\* At the end of an upload the pinned table leads to what was uploaded.
LEMMA UploadIsPinned ==
  ASSUME Inv, Lone, Files, NEW m \in Mounts, frame[m].pc = "drop", frame[m].op = "upload"
  PROVE  /\ pins # {} /\ LastPinned \in pins /\ LastPinned \in DOMAIN chat
         /\ chat[LastPinned].kind = "table" /\ chat[LastPinned].map = table[m]
<1>1. pins # {} /\ cur[m] = LastPinned
  BY DEF Lone, Own, PinIsHeld, CurIsPin, Starting
<1>2. LastPinned \in pins /\ LastPinned \in DOMAIN chat
  BY <1>1, LastPinnedIn DEF Inv, TypeOK, ChatOK
<1>3. chat[LastPinned].map = table[m]
  BY <1>1, <1>2 DEF Inv, Pinned, CurIsTable, Replacing
<1> QED BY <1>1, <1>2, <1>3, KindsOf

\* With one mount at a time, whenever it is killed, a flush that returned is
\* durable: the pinned table leads to the bytes the file had, unless setattr
\* gave the file a size without writing it.
THEOREM FlushIsDurableAlways ==
  ASSUME OneMount, TRUE \notin Sizes
  PROVE  Spec => FlushIsDurable
<1> DEFINE Durable == \A m \in Mounts, i \in Ino :
                         errors' = 0 /\ At(m, "drop") /\ frame[m].op = "upload" /\ frame[m].ino = i
                             => (pins # {} /\ Saved(i, local[m][i]))'
<1>1. TypeOK /\ (errors = 0 => Inv /\ Lone /\ Files) /\ [Next]_vars => [Durable]_vars
  <2> SUFFICES ASSUME Inv, Lone, Files, Work, NEW m \in Mounts, NEW i \in Ino,
                      frame[m].pc = "drop", frame[m].op = "upload", frame[m].ino = i
               PROVE  (pins # {} /\ Saved(i, local[m][i]))'
    BY NotFailedYet DEF At
  <2> DEFINE f == local[m][i]
             t == LastPinned
             x == table[m][i]
  <2>1. DropOld(m) \/ Kill(m)
    <3>1. Step(m) \/ Ask(m)
      BY DEF Work, OneMount
    <3>2. CASE Step(m)
      BY <3>2
         DEF Step, Refresh, CheckTable, ReadPinned, TableIsCurrent, StartOver, AdoptTable,
             FetchTable, LookupRoot, MountExisting, MakeRoot, KeepObject, ReloadObject,
             LoadBytes, RememberMsg, SkipData, SendData, RemoveOldData, SendInode, SendsInode,
             SendTable, FindPinned, RemovePinned, PinTable, Segv, NullMessage, At
    <3>3. CASE Ask(m)
      BY <3>3
         DEF Ask, Boot, Lookup, Write, Truncate, SetSize, StartUpload, Create, StartRemove, RemovesEntry, At
    <3> QED BY <3>1, <3>2, <3>3
  <2>2. /\ t \in pins /\ t \in DOMAIN chat /\ chat[t].kind = "table" /\ chat[t].map[i] = x
        /\ x \in DOMAIN chat /\ chat[x].full = f.full /\ chat[x].data = f.data
        /\ f.full => f.data \in DOMAIN chat /\ chat[f.data].bytes = f.bytes
    BY UploadIsPinned DEF Files, Stored, FileIsSent, PublishPCs, HasBytes
  <2>3. /\ local \in [Mounts -> [Ino -> File]] /\ f \in File /\ ChatOK
    BY Updates DEF Inv, TypeOK
  <2>4. CASE Kill(m)
    <3>1. UNCHANGED <<chat, pins>> /\ LastPinned' = t
      BY <2>4 DEF Kill, chatVars, LastPinned
    <3>2. local'[m][i].full = f.full /\ local'[m][i].bytes = f.bytes
      <4>1. local'[m] = [j \in Ino |-> [local[m][j] EXCEPT !.version = 0, !.dirty = FALSE]]
        BY <2>3, <2>4 DEF Kill, Vanish
      <4>2. local'[m][i] = [local[m][i] EXCEPT !.version = 0, !.dirty = FALSE]
        BY <4>1
      <4> QED BY <2>3, <4>2 DEF File
    <3> QED BY <2>2, <3>1, <3>2 DEF Saved
  <2>5. CASE DropOld(m)
    <3> DEFINE o == frame[m].old
    <3>1. local' = local
      BY <2>5 DEF DropOld
    <3>2. /\ DOMAIN chat' = DOMAIN chat \ {o} /\ \A y \in DOMAIN chat' : chat'[y] = chat[y]
          /\ pins' = pins \ {o}
      BY <2>3, <2>5, DeleteOK DEF DropOld
    <3>3. t # o /\ x # o /\ (f.data \in DOMAIN chat => f.data # o)
      <4>1. t # o /\ (f.data \in DOMAIN chat => f.data # o)
        BY <2>2, KindsOf DEF IsInodeOf, Is
      <4>2. o = 0 \/ x # o
        BY DEF Lone, Own, Replaced, PublishPCs
      <4> QED BY <2>2, <2>3, <4>1, <4>2 DEF ChatOK
    <3>4. LastPinned' = t /\ pins' # {}
      <4>1. o \notin pins
        BY KindsOf DEF IsInodeOf
      <4>2. pins' = pins
        BY <3>2, <4>1
      <4> QED BY <2>2, <4>2 DEF LastPinned
    <3> QED BY <2>2, <3>1, <3>2, <3>3, <3>4 DEF Saved
  <2> QED BY <2>1, <2>4, <2>5
<1> QED BY <1>1, FilesInvariance, TypeCorrect, PTL DEF Spec, FlushIsDurable

-----------------------------------------------------------------------------
(* What a kill costs.                                                      *)

\* Between the inode's message and the pin, the table of the mount differs
\* from the published one in one inode.
OthersPublished(m) ==
    frame[m].pc \in {"table", "swap", "unpin"} =>
        \A j \in Ino \ {frame[m].ino} : table[m][j] = Published[j]

RemovedIsGone(m) == frame[m].op = "remove" => table[m][frame[m].ino] = 0

\* The files that have lost their contents for good: the inode of an
\* operation that removes data may get new contents yet.
Tearing(m) == frame[m].pc \in PublishPCs \cup {"inode"}
Lost(m) == {i \in Ino : IsTorn(i) /\ ~(Tearing(m) /\ i = frame[m].ino)}

Losses == \A m \in Mounts : OthersPublished(m) /\ RemovedIsGone(m) /\ Cardinality(Lost(m)) <= crashes

\* The table that a new mount would find.
LEMMA PublishedIs ==
  ASSUME OneMount
  PROVE  Inv /\ Lone => \A m \in Mounts :
            /\ frame[m].pc # "pin" =>
                  Published = IF pins = {} THEN EmptyTable ELSE chat[LastPinned].map
            /\ frame[m].pc \in Calm \cup {"pin", "drop"} => table[m] = Published
<1> SUFFICES ASSUME Inv, Lone, NEW m \in Mounts
             PROVE  /\ frame[m].pc # "pin" =>
                          Published = IF pins = {} THEN EmptyTable ELSE chat[LastPinned].map
                    /\ frame[m].pc \in Calm \cup {"pin", "drop"} => table[m] = Published
  OBVIOUS
<1>0. Own(m) /\ ChatOK
  BY DEF Lone, Inv, TypeOK
<1>1. frame[m].pc # "pin" =>
         Published = IF pins = {} THEN EmptyTable ELSE chat[LastPinned].map
  BY DEF Published, At, OneMount
<1>2. CASE frame[m].pc = "pin"
  <2>1. pins = {} /\ frame[m].new \in DOMAIN chat
    BY <1>0, <1>2 DEF Own, PinIsHeld, NewIsSent
  <2>2. (CHOOSE n \in Mounts : At(n, "pin")) = m
    BY <1>2 DEF At, OneMount
  <2>3. Published = chat[frame[m].new].map
    BY <1>2, <2>1, <2>2 DEF Published, At
  <2>4. chat[frame[m].new].map = table[m]
    BY <1>2, <2>1 DEF Inv, Pinned, CurIsTable, Replacing
  <2> QED BY <1>2, <2>3, <2>4
<1>3. CASE frame[m].pc \in Calm \cup {"drop"}
  <2>1. frame[m].pc \notin Starting \cup {"pin", "fetch"} \cup Replacing
    BY <1>3, CalmLabels DEF Starting, PublishPCs, Replacing
  <2>2. CASE pins = {}
    <3>1. frame[m].pc \notin PublishPCs
      BY <1>0, <1>3, <2>2, CalmLabels DEF Own, PinIsHeld
    <3> QED BY <1>0, <1>1, <2>1, <2>2, <3>1 DEF Own, EmptyUntilPinned
  <2>3. CASE pins # {}
    <3>1. cur[m] = LastPinned /\ cur[m] \in DOMAIN chat
      BY <1>0, <2>1, <2>3, LastPinnedIn DEF Own, CurIsPin, ChatOK
    <3> QED BY <1>1, <2>1, <2>3, <3>1 DEF Inv, Pinned, CurIsTable
  <2> QED BY <2>2, <2>3
<1> QED BY <1>1, <1>2, <1>3

\* The same of the next state.
LEMMA PublishedIsNext ==
  ASSUME OneMount
  PROVE  Inv' /\ Lone' => \A m \in Mounts :
            /\ frame'[m].pc # "pin" =>
                  Published' = IF pins' = {} THEN EmptyTable ELSE chat'[LastPinned'].map
            /\ frame'[m].pc \in Calm \cup {"pin", "drop"} => table'[m] = Published'
<1>1. Inv /\ Lone => \A m \in Mounts :
         /\ frame[m].pc # "pin" =>
               Published = IF pins = {} THEN EmptyTable ELSE chat[LastPinned].map
         /\ frame[m].pc \in Calm \cup {"pin", "drop"} => table[m] = Published
  BY PublishedIs
<1>2. (Inv /\ Lone)' => (\A m \in Mounts :
         /\ frame[m].pc # "pin" =>
               Published = IF pins = {} THEN EmptyTable ELSE chat[LastPinned].map
         /\ frame[m].pc \in Calm \cup {"pin", "drop"} => table[m] = Published)'
  BY <1>1, PTL
<1> QED BY <1>2

\* Published entries are there: a pinned table has its inodes, and so has one
\* that is about to be pinned.
LEMMA PublishedLives ==
  ASSUME OneMount, Inv, Lone, NEW m \in Mounts, NEW i \in Ino, Published[i] # 0
  PROVE  Published[i] \in DOMAIN chat /\ chat[Published[i]].kind = "inode"
         /\ chat[Published[i]].ino = i
<1>0. Own(m) /\ ChatOK
  BY DEF Lone, Inv, TypeOK
<1>1. CASE frame[m].pc = "pin"
  <2>1. Published = table[m]
    BY <1>1, PublishedIs
  <2> QED BY <1>0, <2>1, KindsOf DEF Own, TableLives, IsInodeOf
<1>2. CASE frame[m].pc # "pin"
  <2>1. Published = IF pins = {} THEN EmptyTable ELSE chat[LastPinned].map
    BY <1>2, PublishedIs
  <2>2. pins # {} /\ LastPinned \in pins
    BY <1>0, <2>1, LastPinnedIn DEF EmptyTable
  <2>3. Published[i] = chat[LastPinned].map[i]
    BY <2>1, <2>2
  <2>4. IsInodeOf(Published[i], i)
    BY <2>2, <2>3, KindsOf
  <2>5. Published[i] \in DOMAIN chat
    BY <2>2, <2>3 DEF Lone, PinsLead
  <2> QED BY <2>4, <2>5 DEF IsInodeOf
<1> QED BY <1>1, <1>2

\* A file whose entry and messages stay is torn only if it was.
LEMMA TornBefore ==
  ASSUME OneMount, Inv, Lone, NEW m \in Mounts, NEW i \in Ino, Published'[i] = Published[i],
         Published[i] # 0 =>
             /\ Published[i] \in DOMAIN chat' /\ chat'[Published[i]] = chat[Published[i]]
             /\ chat[Published[i]].data \in DOMAIN chat => chat[Published[i]].data \in DOMAIN chat'
  PROVE  IsTorn(i)' => IsTorn(i)
<1> SUFFICES ASSUME IsTorn(i)' PROVE IsTorn(i)
  OBVIOUS
<1> DEFINE x == Published[i]
<1>1. x # 0 /\ x \in DOMAIN chat
  BY PublishedLives DEF IsTorn
<1>2. chat[x].full /\ chat[x].data \notin DOMAIN chat
  BY <1>1 DEF IsTorn
<1> QED BY <1>1, <1>2 DEF IsTorn

\* It is enough that no file is lost that was not, or one by a kill.
LEMMA LostCount ==
  ASSUME TypeOK, NEW m \in Mounts, Cardinality(Lost(m)) <= crashes
  PROVE  /\ Lost(m)' \subseteq Lost(m) /\ crashes' = crashes => Cardinality(Lost(m)') <= crashes'
         /\ \A i \in Ino : Lost(m)' \subseteq Lost(m) \cup {i} /\ crashes' = crashes + 1
               => Cardinality(Lost(m)') <= crashes'
<1>0. /\ IsFiniteSet(Lost(m)) /\ crashes \in Nat /\ Cardinality(Lost(m)) \in Nat
  <2>1. IsFiniteSet(Ino)
    BY StoreAssumption, FS_Interval DEF Ino
  <2>2. IsFiniteSet(Lost(m))
    BY <2>1, FS_Subset DEF Lost
  <2> QED BY <2>2, FS_CardinalityType DEF TypeOK
<1>1. ASSUME Lost(m)' \subseteq Lost(m), crashes' = crashes
      PROVE  Cardinality(Lost(m)') <= crashes'
  <2>1. IsFiniteSet(Lost(m)') /\ Cardinality(Lost(m)') <= Cardinality(Lost(m))
    BY <1>0, <1>1, FS_Subset
  <2>2. Cardinality(Lost(m)') \in Nat
    BY <2>1, FS_CardinalityType
  <2> QED BY <1>0, <1>1, <2>1, <2>2
<1>2. ASSUME NEW i \in Ino, Lost(m)' \subseteq Lost(m) \cup {i}, crashes' = crashes + 1
      PROVE  Cardinality(Lost(m)') <= crashes'
  <2>1. IsFiniteSet(Lost(m) \cup {i}) /\ Cardinality(Lost(m) \cup {i}) <= Cardinality(Lost(m)) + 1
    <3>1. /\ IsFiniteSet(Lost(m) \cup {i})
          /\ Cardinality(Lost(m) \cup {i})
                = IF i \in Lost(m) THEN Cardinality(Lost(m)) ELSE Cardinality(Lost(m)) + 1
      BY <1>0, FS_AddElement, Zenon
    <3> QED BY <1>0, <3>1
  <2>2. IsFiniteSet(Lost(m)') /\ Cardinality(Lost(m)') <= Cardinality(Lost(m) \cup {i})
    BY <1>2, <2>1, FS_Subset
  <2>3. Cardinality(Lost(m)') \in Nat /\ Cardinality(Lost(m) \cup {i}) \in Nat
    BY <2>1, <2>2, FS_CardinalityType
  <2> QED BY <1>0, <1>2, <2>1, <2>2, <2>3
<1> QED BY <1>1, <1>2

\* Steps away from the changes of the chat.
LEMMA QuietLosses ==
  ASSUME OneMount, Inv, Lone, Inv', Lone', Losses, NEW m \in Mounts, UNCHANGED <<chat, pins>>,
         crashes' = crashes, frame[m].pc \notin PublishPCs \cup {"inode"},
         frame'[m].pc \notin PublishPCs
  PROVE  Losses'
<1>1. Published' = Published
  <2>1. frame[m].pc # "pin" /\ frame'[m].pc # "pin" /\ LastPinned' = LastPinned
    BY DEF PublishPCs, LastPinned
  <2> QED BY <2>1, PublishedIs, PublishedIsNext
<1>2. \A j \in Ino : IsTorn(j)' => IsTorn(j)
  BY <1>1 DEF IsTorn
<1>3. Lost(m)' \subseteq Lost(m)
  BY <1>2 DEF Lost, Tearing
<1>4. Cardinality(Lost(m)') <= crashes'
  BY <1>3, LostCount DEF Inv, Losses
<1>5. OthersPublished(m)' /\ RemovedIsGone(m)'
  BY DEF OthersPublished, RemovedIsGone, PublishPCs, Lone, Own, Replaced
<1> QED BY <1>4, <1>5 DEF Losses, OneMount

\* A kill costs the file of the operation that it cuts.
LEMMA KillLosses ==
  ASSUME OneMount, Inv, Lone, Inv', Lone', Losses, NEW m \in Mounts, Kill(m)
  PROVE  Losses'
<1>0. /\ UNCHANGED <<chat, pins>> /\ crashes' = crashes + 1 /\ LastPinned' = LastPinned
      /\ frame[m].ino \in Ino /\ frame \in [Mounts -> Frame]
  BY Updates DEF Kill, chatVars, LastPinned, Inv, TypeOK
<1>1. frame'[m].pc = "down" /\ frame'[m].op = "none"
  <2>1. frame'[m] = NoFrame("down")
    BY <1>0 DEF Kill
  <2> QED BY <2>1 DEF NoFrame
<1>2. ASSUME NEW j \in Ino, IsTorn(j)' PROVE IsTorn(j)
  <2>1. Published' = IF pins = {} THEN EmptyTable ELSE chat[LastPinned].map
    BY <1>0, <1>1, PublishedIsNext
  <2>2. pins # {}
    BY <1>2, <2>1 DEF IsTorn, EmptyTable
  <2>3. frame[m].pc # "pin"
    BY <2>2 DEF Lone, Own, PinIsHeld
  <2>4. Published' = Published
    BY <2>1, <2>3, PublishedIs
  <2> QED BY <1>0, <1>2, <2>4 DEF IsTorn
<1>3. Lost(m)' \subseteq Lost(m) \cup {frame[m].ino}
  BY <1>2 DEF Lost
<1>4. Cardinality(Lost(m)') <= crashes'
  BY <1>0, <1>3, LostCount DEF Inv, Losses
<1> QED BY <1>1, <1>4 DEF Losses, OneMount, OthersPublished, RemovedIsGone

\* What is pinned is published as before when a message comes or other data goes.
LEMMA StillPublished ==
  ASSUME OneMount, Inv, Lone, Inv', Lone', NEW m \in Mounts, pins' = pins,
         frame[m].pc # "pin", frame'[m].pc # "pin",
         \A t \in pins : chat'[t] = chat[t]
  PROVE  Published' = Published
<1>1. pins # {} => LastPinned \in pins
  BY LastPinnedIn DEF Inv, TypeOK
<1>2. LastPinned' = LastPinned
  BY DEF LastPinned
<1> QED BY <1>1, <1>2, PublishedIs, PublishedIsNext

\* Messages that are sent.
LEMMA SendLosses ==
  ASSUME OneMount, Inv, Lone, Inv', Lone', Losses, NEW m \in Mounts,
         SendData(m) \/ SendInode(m) \/ SendTable(m)
  PROVE  Losses'
<1> DEFINE i == frame[m].ino
<1>0. /\ TypeOK /\ ChatOK /\ frame \in [Mounts -> Frame] /\ frame[m] \in Frame /\ i \in Ino
      /\ table \in [Mounts -> [Ino -> Nat]] /\ Own(m) /\ crashes' = crashes
      /\ OthersPublished(m) /\ RemovedIsGone(m)
  BY Updates
     DEF Inv, TypeOK, Lone, Losses, SendData, SendInode, SendsInode, SendTable, counters
<1>1. PICK p \in Payload : Send(p)
  BY <1>0, PayloadsOK DEF SendData, SendInode, SendsInode, SendTable
<1>2. /\ DOMAIN chat' = DOMAIN chat \cup {NextId} /\ pins' = pins
      /\ \A x \in DOMAIN chat : chat'[x] = chat[x]
  BY <1>0, <1>1, SendOK DEF ChatOK, Send
<1>3. /\ frame'[m].op = frame[m].op /\ frame'[m].ino = i
      /\ \/ frame[m].pc = "data" /\ frame'[m].pc = "undata" /\ table' = table
         \/ frame[m].pc = "inode" /\ frame'[m].pc = "table"
            /\ table' = [table EXCEPT ![m][i] = NextId]
         \/ frame[m].pc = "table" /\ frame'[m].pc = "swap" /\ table' = table
  <2>1. CASE SendData(m)
    <3>1. frame'[m] = [frame[m] EXCEPT !.pc = "undata", !.new = NextId]
      BY <1>0, <2>1 DEF SendData
    <3> QED BY <1>0, <2>1, <3>1 DEF SendData, At, Frame, mountVars
  <2>2. CASE SendInode(m)
    BY <1>0, <2>2, Turns DEF SendInode, SendsInode, At, Keeps
  <2>3. CASE SendTable(m)
    <3>1. frame'[m] = [frame[m] EXCEPT !.pc = "swap", !.new = NextId]
      BY <1>0, <2>3 DEF SendTable
    <3> QED BY <1>0, <2>3, <3>1 DEF SendTable, At, Frame, mountVars
  <2> QED BY <2>1, <2>2, <2>3
<1>4. Published' = Published
  BY <1>0, <1>2, <1>3, StillPublished DEF ChatOK
<1>5. \A j \in Ino : IsTorn(j)' => IsTorn(j)
  <2> TAKE j \in Ino
  <2>1. Published[j] # 0 => Published[j] \in DOMAIN chat
    BY PublishedLives
  <2> QED BY <1>2, <1>4, <2>1, TornBefore
<1>6. Lost(m)' \subseteq Lost(m)
  BY <1>3, <1>5 DEF Lost, Tearing, PublishPCs
<1>7. Cardinality(Lost(m)') <= crashes'
  BY <1>0, <1>6, LostCount DEF Losses
<1>8. OthersPublished(m)'
  <2>1. CASE frame[m].pc = "inode"
    <3>1. table[m] = Published
      BY <2>1, PublishedIs, CalmLabels
    <3> QED BY <1>0, <1>3, <1>4, <2>1, <3>1 DEF OthersPublished
  <2>2. CASE frame[m].pc # "inode"
    BY <1>0, <1>3, <1>4, <2>2 DEF OthersPublished
  <2> QED BY <2>1, <2>2
<1>9. RemovedIsGone(m)'
  BY <1>0, <1>3 DEF RemovedIsGone, Own, Replaced, PublishPCs
<1> QED BY <1>7, <1>8, <1>9 DEF Losses, OneMount

\* Data that goes tears the file of its owner only.
LEMMA DataGoneTears ==
  ASSUME OneMount, Inv, Lone, Files, Inv', Lone', NEW m \in Mounts, NEW i \in Ino,
         Delete(local[m][i].data), frame[m].pc # "pin", frame'[m].pc # "pin"
  PROVE  /\ Published' = Published
         /\ \A j \in Ino \ {i} : IsTorn(j)' => IsTorn(j)
<1> DEFINE d == local[m][i].data
<1>0. ChatOK /\ Is(d, "data") /\ pins \subseteq DOMAIN chat
  BY KindsOf DEF Inv, TypeOK, ChatOK
<1>1. /\ DOMAIN chat' = DOMAIN chat \ {d} /\ \A y \in DOMAIN chat' : chat'[y] = chat[y]
      /\ pins' = pins \ {d}
  BY <1>0, DeleteOK
<1> HIDE DEF d
<1>2. pins' = pins /\ \A t \in pins : t # d
  BY <1>0, <1>1, KindsOf DEF Is
<1>3. Published' = Published
  BY <1>0, <1>1, <1>2, StillPublished
<1>4. ASSUME NEW j \in Ino \ {i} PROVE IsTorn(j)' => IsTorn(j)
  <2> DEFINE x == Published[j]
  <2>1. x # 0 => x \in DOMAIN chat' /\ chat'[x] = chat[x]
    BY <1>0, <1>1, PublishedLives DEF Is
  <2>2. x # 0 /\ chat[x].data \in DOMAIN chat => chat[x].data # d
    <3> SUFFICES ASSUME x # 0, chat[x].data \in DOMAIN chat, chat[x].data = d
                 PROVE  FALSE
      OBVIOUS
    <3>1. Owns(m, j, d)
      BY PublishedLives DEF Owns
    <3>2. Owns(m, i, d)
      BY DEF Owns, Data, d
    <3> QED BY <3>1, <3>2 DEF Files, Stored, DataHasOwner
  <2> QED BY <1>1, <1>3, <2>1, <2>2, TornBefore
<1> QED BY <1>3, <1>4

\* That is the inode under way.
LEMMA DataGoneLosses ==
  ASSUME OneMount, Inv, Lone, Files, Inv', Lone', Losses, NEW m \in Mounts,
         RemoveOldData(m) \/ StartRemove(m)
  PROVE  Losses'
<1>0. /\ TypeOK /\ frame \in [Mounts -> Frame] /\ frame[m] \in Frame /\ frame[m].ino \in Ino
      /\ table \in [Mounts -> [Ino -> Nat]] /\ inodes[m] \subseteq Ino /\ crashes' = crashes
      /\ Own(m)
  BY Updates DEF Inv, TypeOK, Lone, RemoveOldData, StartRemove, RemovesEntry, counters
<1>1. PICK i \in Ino :
         /\ Delete(local[m][i].data) /\ frame'[m].ino = i
         /\ \/ frame[m].pc = "undata" /\ frame'[m].pc = "inode" /\ frame'[m].op = frame[m].op
            \/ /\ frame[m].pc = "idle" /\ frame'[m].pc = "table" 
               /\ table' = [table EXCEPT ![m][i] = 0]
  <2>1. CASE RemoveOldData(m)
    BY <1>0, <2>1, Turns DEF RemoveOldData, At, Keeps
  <2>2. CASE StartRemove(m)
    <3>1. PICK i \in inodes[m] :
             /\ Delete(local[m][i].data)
             /\ table' = [table EXCEPT ![m][i] = 0]
             /\ frame' = [frame EXCEPT ![m] = [NoFrame("table") EXCEPT
                             !.op = "remove", !.ino = i, !.old = table[m][i]]]
      BY <2>2 DEF StartRemove, RemovesEntry
    <3>2. frame'[m] = [NoFrame("table") EXCEPT !.op = "remove", !.ino = i, !.old = table[m][i]]
      BY <1>0, <3>1
    <3>3. frame'[m].pc = "table" /\ frame'[m].ino = i
      BY <3>2 DEF NoFrame
    <3> QED BY <1>0, <2>2, <3>1, <3>3 DEF StartRemove, RemovesEntry, At
  <2> QED BY <2>1, <2>2
<1>2. /\ Published' = Published
      /\ \A j \in Ino \ {i} : IsTorn(j)' => IsTorn(j)
  BY <1>1, DataGoneTears
<1>3. Lost(m)' \subseteq Lost(m)
  BY <1>1, <1>2 DEF Lost, Tearing, PublishPCs
<1>4. Cardinality(Lost(m)') <= crashes'
  BY <1>0, <1>3, LostCount DEF Losses
<1>5. CASE frame'[m].pc = "inode"
  BY <1>0, <1>1, <1>4, <1>5
     DEF Losses, OneMount, OthersPublished, RemovedIsGone, Own, Replaced, PublishPCs
<1>6. CASE frame[m].pc = "idle"
  <2>1. table[m] = Published /\ \A j \in Ino : table'[m][j] = IF j = i THEN 0 ELSE table[m][j]
    BY <1>0, <1>1, <1>6, PublishedIs, CalmLabels
  <2>2. OthersPublished(m)' /\ RemovedIsGone(m)'
    BY <1>1, <1>2, <2>1 DEF OthersPublished, RemovedIsGone
  <2> QED BY <1>4, <2>2 DEF Losses, OneMount
<1> QED BY <1>1, <1>5, <1>6

\* The removal of something that is not data tears no file whose entry stays.
LEMMA MessageGoneTears ==
  ASSUME OneMount, Inv, Lone, NEW m \in Mounts, NEW i \in Ino, NEW x, Delete(x),
         Published'[i] = Published[i], Published[i] = 0 \/ Published[i] # x,
         x \in DOMAIN chat => chat[x].kind # "data"
  PROVE  IsTorn(i)' => IsTorn(i)
<1>0. ChatOK
  BY DEF Inv, TypeOK
<1>1. DOMAIN chat' = DOMAIN chat \ {x} /\ \A y \in DOMAIN chat' : chat'[y] = chat[y]
  BY <1>0, DeleteOK
<1>2. Published[i] # 0 => Published[i] \in DOMAIN chat' /\ chat'[Published[i]] = chat[Published[i]]
  BY <1>1, PublishedLives
<1>3. Published[i] # 0 /\ chat[Published[i]].data \in DOMAIN chat =>
         chat[Published[i]].data \in DOMAIN chat'
  <2> SUFFICES ASSUME Published[i] # 0, chat[Published[i]].data \in DOMAIN chat
               PROVE  chat[Published[i]].data # x
    BY <1>1
  <2>1. Is(chat[Published[i]].data, "data")
    BY PublishedLives DEF Inv, Kinds, KindOfMessages, Filed, Refers, Of, Is
  <2> QED BY <2>1 DEF Is
<1> QED BY <1>2, <1>3, TornBefore

\* upload_table finds what is pinned.
LEMMA FindLosses ==
  ASSUME OneMount, Inv, Lone, Inv', Lone', Losses, NEW m \in Mounts, FindPinned(m)
  PROVE  Losses'
<1>0. /\ TypeOK /\ frame \in [Mounts -> Frame] /\ frame[m] \in Frame /\ frame[m].ino \in Ino
      /\ UNCHANGED <<chat, pins, table, crashes>> /\ LastPinned' = LastPinned
      /\ (pins = {} <=> LastPinned = 0) /\ OthersPublished(m) /\ RemovedIsGone(m)
  BY LastPinnedIn, Updates
     DEF Inv, TypeOK, Losses, FindPinned, chatVars, mountVars, counters, LastPinned
<1>1. frame'[m] = [frame[m] EXCEPT !.hold = LastPinned,
                                   !.pc = IF LastPinned = 0 THEN "pin" ELSE "unpin"]
  BY <1>0 DEF FindPinned
<1>2. /\ frame[m].pc = "swap" /\ frame'[m].pc = IF pins = {} THEN "pin" ELSE "unpin"
      /\ frame'[m].op = frame[m].op /\ frame'[m].ino = frame[m].ino
  BY <1>0, <1>1 DEF FindPinned, At, Frame
<1>3. Published = IF pins = {} THEN EmptyTable ELSE chat[LastPinned].map
  BY <1>2, PublishedIs
<1>4. ASSUME NEW j \in Ino \ {frame[m].ino}, IsTorn(j)' PROVE IsTorn(j)
  <2>1. CASE pins = {}
    <3>1. Published'[j] = table[m][j]
      BY <1>0, <1>2, <2>1, PublishedIsNext
    <3>2. table[m][j] = 0
      BY <1>0, <1>2, <1>3, <2>1 DEF OthersPublished, EmptyTable
    <3> QED BY <1>4, <3>1, <3>2 DEF IsTorn
  <2>2. CASE pins # {}
    <3>1. Published' = Published
      BY <1>0, <1>2, <1>3, <2>2, PublishedIsNext
    <3> QED BY <1>0, <1>4, <3>1 DEF IsTorn
  <2> QED BY <2>1, <2>2
<1>5. Lost(m)' \subseteq Lost(m)
  BY <1>2, <1>4 DEF Lost, Tearing, PublishPCs
<1>6. Cardinality(Lost(m)') <= crashes'
  BY <1>0, <1>5, LostCount DEF Losses
<1>7. OthersPublished(m)'
  <2> SUFFICES ASSUME pins # {} PROVE OthersPublished(m)'
    BY <1>2 DEF OthersPublished
  <2>1. Published' = Published
    BY <1>0, <1>2, <1>3, PublishedIsNext
  <2> QED BY <1>0, <1>2, <2>1 DEF OthersPublished
<1> QED BY <1>0, <1>2, <1>6, <1>7 DEF Losses, OneMount, RemovedIsGone

\* It removes that,
LEMMA UnpinLosses ==
  ASSUME OneMount, Inv, Lone, Inv', Lone', Losses, NEW m \in Mounts, RemovePinned(m)
  PROVE  Losses'
<1> DEFINE x == frame[m].hold
<1>0. /\ TypeOK /\ UNCHANGED <<table, crashes>> /\ Own(m) /\ OthersPublished(m) /\ RemovedIsGone(m)
      /\ Delete(x)
  BY DEF Inv, Lone, Losses, RemovePinned, mountVars, counters
<1>1. frame[m].pc = "unpin" /\ frame'[m].pc = "pin" /\ Keeps(m)
  BY <1>0, Turns DEF RemovePinned, At
<1>2. x \in DOMAIN chat /\ chat[x].kind = "table"
  <2>1. x \in pins
    BY <1>0, <1>1, LastPinnedIn DEF Own, PinIsHeld, TypeOK
  <2> QED BY <2>1, KindsOf
<1>3. ASSUME NEW j \in Ino \ {frame[m].ino}, IsTorn(j)' PROVE IsTorn(j)
  <2>1. Published'[j] = Published[j]
    BY <1>0, <1>1, PublishedIsNext DEF OthersPublished
  <2>2. Published[j] = 0 \/ Published[j] # x
    BY <1>2, PublishedLives
  <2> HIDE DEF x
  <2> QED BY <1>0, <1>2, <1>3, <2>1, <2>2, MessageGoneTears
<1>4. Lost(m)' \subseteq Lost(m)
  BY <1>1, <1>3 DEF Lost, Tearing, PublishPCs, Keeps
<1>5. Cardinality(Lost(m)') <= crashes'
  BY <1>0, <1>4, LostCount DEF Losses
<1> QED BY <1>0, <1>1, <1>5 DEF Losses, OneMount, RemovedIsGone, OthersPublished, Keeps

\* pins the new table,
LEMMA PinLosses ==
  ASSUME OneMount, Inv, Lone, Inv', Lone', Losses, NEW m \in Mounts, PinTable(m)
  PROVE  Losses'
<1>0. /\ TypeOK /\ UNCHANGED <<chat, table, crashes>> /\ RemovedIsGone(m)
  BY DEF Inv, Losses, PinTable, Pin, counters
<1>1. frame[m].pc = "pin" /\ frame'[m].pc = "drop" /\ Keeps(m)
  BY <1>0, Turns DEF PinTable, At
<1>2. Published' = Published
  BY <1>0, <1>1, PublishedIs, PublishedIsNext
<1>3. Lost(m)' \subseteq Lost(m)
  BY <1>0, <1>1, <1>2 DEF Lost, IsTorn, Tearing, PublishPCs, Keeps
<1>4. Cardinality(Lost(m)') <= crashes'
  BY <1>0, <1>3, LostCount DEF Losses
<1> QED BY <1>0, <1>1, <1>4 DEF Losses, OneMount, RemovedIsGone, OthersPublished, Keeps

\* and the operation ends with a file that is whole, or gone.
LEMMA DropLosses ==
  ASSUME OneMount, Inv, Lone, Files, Inv', Lone', Losses, NEW m \in Mounts, DropOld(m)
  PROVE  Losses'
<1> DEFINE i == frame[m].ino
           o == frame[m].old
           y == table[m][i]
<1>0. /\ TypeOK /\ ChatOK /\ UNCHANGED <<table, crashes>> /\ i \in Ino
      /\ RemovedIsGone(m) /\ Own(m) /\ Stored(m) /\ Delete(o)
  BY Updates DEF Inv, TypeOK, Lone, Files, Losses, DropOld, counters
<1>1. frame[m].pc = "drop" /\ frame'[m].pc = "idle" /\ frame'[m].op = "none"
  BY <1>0, Turns DEF DropOld, At
<1>2. table[m] = Published /\ Published' = Published
  BY <1>0, <1>1, PublishedIs, PublishedIsNext, CalmLabels
<1>3. (o \in DOMAIN chat => chat[o].kind # "data") /\ IsInodeOf(o, i)
  BY KindsOf DEF IsInodeOf
<1>4. ASSUME NEW j \in Ino \ {i}, IsTorn(j)' PROVE IsTorn(j)
  <2>1. Published[j] = 0 \/ Published[j] # o
    BY <1>3, PublishedLives DEF IsInodeOf
  <2> HIDE DEF o
  <2> QED BY <1>0, <1>2, <1>3, <1>4, <2>1, MessageGoneTears
<1>5. ASSUME NEW j \in Ino, j = i PROVE ~IsTorn(j)'
  <2>1. CASE frame[m].op = "remove"
    BY <1>0, <1>2, <1>5, <2>1 DEF RemovedIsGone, IsTorn
  <2>2. CASE frame[m].op = "upload"
    <3>1. /\ y \in DOMAIN chat
          /\ chat[y].full => chat[y].data \in DOMAIN chat /\ chat[y].data = local[m][i].data
      BY <1>0, <1>1, <2>2 DEF Stored, FileIsSent, PublishPCs, HasBytes
    <3>2. y # o /\ (chat[y].full => chat[y].data # o)
      <4>1. o = 0 \/ y # o
        BY <1>0, <1>1 DEF Own, Replaced, PublishPCs
      <4>2. Is(local[m][i].data, "data")
        BY <1>0, KindsOf
      <4> QED BY <1>0, <1>3, <3>1, <4>1, <4>2 DEF ChatOK, Is
    <3>3. DOMAIN chat' = DOMAIN chat \ {o} /\ \A z \in DOMAIN chat' : chat'[z] = chat[z]
      <4> HIDE DEF o
      <4> QED BY <1>0, DeleteOK
    <3>4. y \in DOMAIN chat' /\ (chat'[y].full => chat'[y].data \in DOMAIN chat')
      BY <3>1, <3>2, <3>3
    <3>5. Published'[j] = y
      BY <1>2, <1>5
    <3> HIDE DEF y
    <3> QED BY <3>4, <3>5 DEF IsTorn
  <2> QED BY <1>0, <1>1, <2>1, <2>2 DEF Stored, WhoPublishes, PublishPCs
<1>6. Lost(m)' \subseteq Lost(m)
  BY <1>4, <1>5 DEF Lost
<1>7. Cardinality(Lost(m)') <= crashes'
  BY <1>0, <1>6, LostCount DEF Losses
<1> QED BY <1>1, <1>7 DEF Losses, OneMount, RemovedIsGone, OthersPublished

\* The steps that leave the chat alone, kills apart.
LEMMA StillLosses ==
  ASSUME OneMount, Inv, Lone, Files, Inv', Lone', Losses, NEW m \in Mounts,
         CalmStep(m) \/ Refresh(m) \/ Boot(m) \/ Segv(m)
  PROVE  Losses'
<1>0. TypeOK /\ frame \in [Mounts -> Frame] /\ Stored(m)
  BY DEF Inv, TypeOK, Files
<1>1. CASE CalmStep(m)
  <2>1. UNCHANGED <<chat, pins>> /\ crashes' = crashes
    BY <1>1
       DEF CalmStep, CheckTable, LookupRoot, MountExisting, MakeRoot, KeepObject, ReloadObject,
           LoadBytes, RememberMsg, SkipData, Lookup, Write, Truncate, SetSize, StartUpload,
           Create, chatVars, counters
  <2>2. frame[m].pc # "inode"
    BY <1>1
       DEF CalmStep, CheckTable, LookupRoot, MountExisting, MakeRoot, KeepObject, ReloadObject,
           LoadBytes, RememberMsg, SkipData, Lookup, Write, Truncate, SetSize, StartUpload,
           Create, At
  <2>3. frame[m].pc \notin PublishPCs /\ frame'[m].pc \notin PublishPCs
    BY <1>0, <1>1, CalmMoves, CalmLabels
  <2> QED BY <2>1, <2>2, <2>3, QuietLosses
<1>2. CASE Refresh(m)
  <2>1. UNCHANGED <<chat, pins>> /\ crashes' = crashes
    BY <1>2
       DEF Refresh, CheckTable, ReadPinned, TableIsCurrent, StartOver, AdoptTable, FetchTable,
           chatVars, counters
  <2>2. frame[m].pc \notin PublishPCs \cup {"inode"}
    BY <1>2
       DEF Refresh, CheckTable, ReadPinned, TableIsCurrent, StartOver, AdoptTable, FetchTable,
           At, PublishPCs
  <2>3. frame'[m].pc \notin PublishPCs
    <3>1. CASE ReadPinned(m)
      <4>1. frame'[m] = [frame[m] EXCEPT !.pc = "confirm", !.hold = LastPinned]
        BY <1>0, <3>1 DEF ReadPinned
      <4> QED BY <1>0, <4>1 DEF PublishPCs, Frame
    <3>2. CASE ~ReadPinned(m)
      BY <1>0, <1>2, <3>2, Goes
         DEF Refresh, CheckTable, TableIsCurrent, StartOver, AdoptTable, FetchTable, PublishPCs
    <3> QED BY <3>1, <3>2
  <2> QED BY <2>1, <2>2, <2>3, QuietLosses
<1>3. CASE Boot(m)
  <2>1. frame'[m] = [NoFrame("pinned") EXCEPT !.op = "boot", !.ret = "boot"]
    BY <1>0, <1>3 DEF Boot
  <2>2. frame'[m].pc = "pinned"
    BY <2>1 DEF NoFrame
  <2> QED BY <1>3, <2>2, QuietLosses DEF Boot, chatVars, counters, PublishPCs
<1>4. CASE Segv(m)
  <2>1. frame'[m] = NoFrame("segv")
    BY <1>0, <1>4 DEF Segv
  <2>2. frame'[m].pc = "segv"
    BY <2>1 DEF NoFrame
  <2> QED BY <1>4, <2>2, QuietLosses
           DEF Segv, NullMessage, At, chatVars, counters, PublishPCs
<1> QED BY <1>1, <1>2, <1>3, <1>4

\* In the beginning.
LEMMA LossesInit ==
  ASSUME OneMount, Init
  PROVE  Losses
<1>1. \A m \in Mounts : frame[m].pc = "down" /\ frame[m].op = "none"
  BY DEF Init, NoFrame
<1>2. Published = EmptyTable
  BY <1>1 DEF Init, EmptyChat, Published, At
<1>3. \A m \in Mounts : Lost(m) = {}
  BY <1>2 DEF Lost, IsTorn, EmptyTable
<1>4. crashes = 0 /\ Cardinality({}) = 0
  BY FS_EmptySet DEF Init
<1> QED BY <1>1, <1>3, <1>4 DEF Losses, OthersPublished, RemovedIsGone

\* One mount at a time, whenever it is killed, keeps Losses.
LEMMA LossesStep ==
  ASSUME OneMount, Inv, Lone, Files, Losses, Inv', Lone', [Work]_vars
  PROVE  Losses'
<1>1. CASE UNCHANGED vars
  <2>1. UNCHANGED <<chat, pins, table, frame, crashes>>
    BY <1>1 DEF vars, counters, chatVars, mountVars
  <2>2. LastPinned' = LastPinned
    BY <2>1 DEF LastPinned
  <2>3. Published' = Published
    BY <2>1, <2>2 DEF Published, At
  <2>4. \A m \in Mounts : Lost(m)' = Lost(m)
    BY <2>1, <2>3 DEF Lost, IsTorn, Tearing
  <2> QED BY <2>1, <2>3, <2>4 DEF Losses, OthersPublished, RemovedIsGone
<1>2. ASSUME NEW m \in Mounts, Step(m) \/ Ask(m)
      PROVE  Losses'
  <2>1. \/ CalmStep(m) \/ Refresh(m) \/ Boot(m) \/ Kill(m) \/ Segv(m)
        \/ SendData(m) \/ RemoveOldData(m) \/ SendInode(m) \/ SendTable(m) \/ FindPinned(m)
        \/ RemovePinned(m) \/ PinTable(m) \/ DropOld(m) \/ StartRemove(m)
    BY <1>2 DEF Step, Ask, CalmStep
  <2>2. CASE CalmStep(m) \/ Refresh(m) \/ Boot(m) \/ Segv(m) \/ Kill(m)
    BY <2>2, StillLosses, KillLosses
  <2>3. CASE SendData(m) \/ SendInode(m) \/ SendTable(m) \/ RemoveOldData(m) \/ StartRemove(m)
    BY <2>3, SendLosses, DataGoneLosses
  <2>4. CASE FindPinned(m) \/ RemovePinned(m) \/ PinTable(m) \/ DropOld(m)
    BY <2>4, FindLosses, UnpinLosses, PinLosses, DropLosses
  <2> QED BY <2>1, <2>2, <2>3, <2>4
<1> QED BY <1>1, <1>2 DEF Work

\* Losses is an invariant up to the first failed request.
LEMMA LossesInvariance ==
  ASSUME OneMount
  PROVE  Spec => [](errors = 0 => Inv /\ Lone /\ Files /\ Losses)
<1>1. Init => Losses
  BY LossesInit
<1>2. TypeOK /\ (errors = 0 => Inv /\ Lone /\ Files /\ Losses)
        /\ (errors = 0 => Inv /\ Lone)' /\ [Next]_vars
      => (errors = 0 => Losses)'
  <2> SUFFICES ASSUME TypeOK, errors = 0 => Inv /\ Lone /\ Files /\ Losses,
                      errors' = 0 => Inv' /\ Lone', [Next]_vars, errors' = 0
               PROVE  Losses'
    OBVIOUS
  <2>1. errors = 0 /\ [Work]_vars
    BY NotFailedYet
  <2>2. Inv /\ Lone /\ Files /\ Losses /\ Inv' /\ Lone'
    BY <2>1
  <2> QED BY <2>1, <2>2, LossesStep
<1> QED BY <1>1, <1>2, FilesInvariance, TypeCorrect, PTL DEF Spec

\* With one mount at a time, a kill at any step of an upload or a removal
\* tears one of the files of the published table at most: those whose data is
\* gone are no more than the kills and the operation under way.
THEOREM TornFilesBoundedAlways ==
  ASSUME OneMount, Mounts # {}
  PROVE  Spec => []TornFilesBounded
<1>1. (errors = 0 => Inv /\ Files /\ Losses) => TornFilesBounded
  <2> SUFFICES ASSUME Inv, Files, Losses PROVE TornFilesBounded
    BY DEF TornFilesBounded
  <2>1. PICK m \in Mounts : TRUE
    OBVIOUS
  <2> DEFINE torn == {i \in Ino : IsTorn(i)}
             busy == {n \in Mounts : frame[n].op \in {"upload", "remove"}}
             i == frame[m].ino
  <2>2. /\ IsFiniteSet(Lost(m)) /\ Cardinality(Lost(m)) \in Nat /\ crashes \in Nat
        /\ Cardinality(Lost(m)) <= crashes /\ i \in Ino
    <3>1. IsFiniteSet(Ino)
      BY StoreAssumption, FS_Interval DEF Ino
    <3>2. IsFiniteSet(Lost(m))
      BY <3>1, FS_Subset DEF Lost
    <3> QED BY <3>2, FS_CardinalityType, Updates DEF Inv, TypeOK, Losses
  <2>3. Cardinality({}) = 0 /\ Cardinality({m}) = 1
    BY FS_EmptySet, FS_Singleton, Zenon
  <2>4. busy \in {{}, {m}}
    BY DEF OneMount
  <2>5. CASE Tearing(m)
    <3>1. busy = {m}
      BY <2>4, <2>5 DEF Tearing, Files, Stored, WhoPublishes
    <3>2. torn \subseteq Lost(m) \cup {i}
      BY DEF Lost
    <3>3. /\ IsFiniteSet(Lost(m) \cup {i})
          /\ Cardinality(Lost(m) \cup {i})
                = IF i \in Lost(m) THEN Cardinality(Lost(m)) ELSE Cardinality(Lost(m)) + 1
      BY <2>2, FS_AddElement, Zenon
    <3>4. IsFiniteSet(torn) /\ Cardinality(torn) <= Cardinality(Lost(m) \cup {i})
      BY <3>2, <3>3, FS_Subset
    <3>5. Cardinality(torn) \in Nat /\ Cardinality(Lost(m) \cup {i}) \in Nat
      BY <3>3, <3>4, FS_CardinalityType
    <3> HIDE DEF torn, busy
    <3>6. Cardinality(torn) <= crashes + Cardinality(busy)
      BY <2>2, <2>3, <3>1, <3>3, <3>4, <3>5
    <3> QED BY <3>6 DEF TornFilesBounded, torn, busy
  <2>6. CASE ~Tearing(m)
    <3>1. torn = Lost(m)
      BY <2>6 DEF Lost
    <3>2. Cardinality(busy) \in Nat
      <4> HIDE DEF busy
      <4> QED BY <2>3, <2>4
    <3> HIDE DEF torn, busy
    <3>3. Cardinality(torn) <= crashes + Cardinality(busy)
      BY <2>2, <3>1, <3>2
    <3> QED BY <3>3 DEF TornFilesBounded, torn, busy
  <2> QED BY <2>5, <2>6
<1> QED BY <1>1, LossesInvariance, PTL

-----------------------------------------------------------------------------
(* What a mount that is alone sends.                                       *)

\* "messages_ must always be up to date" (tgfs_data.h) holds of a mount that
\* has the chat to itself, however often it is killed: the table it sends
\* differs from the pinned one in the inode being changed only.  Two mounts
\* break it (store_stale).
THEOREM SentTableIsCurrentAlone ==
  ASSUME OneMount
  PROVE  Spec => []SentTableIsCurrent
<1>1. (errors = 0 => Inv /\ Lone /\ Losses) => SentTableIsCurrent
  <2> SUFFICES ASSUME Inv, Lone, Losses, NEW m \in Mounts, At(m, "table"), pins # {},
                      NEW j \in Ino \ {frame[m].ino}
               PROVE  table[m][j] = chat[LastPinned].map[j]
    BY DEF SentTableIsCurrent
  <2>1. table[m][j] = Published[j]
    BY DEF Losses, OthersPublished, At
  <2>2. Published = chat[LastPinned].map
    BY PublishedIs DEF At
  <2> QED BY <2>1, <2>2
<1> QED BY <1>1, LossesInvariance, PTL
=============================================================================
