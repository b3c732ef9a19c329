---------------------------- MODULE TgfsStoreView ----------------------------
(***************************************************************************)
(* The store of one mount seen as an InodeStore: what each inode number    *)
(* holds for the next mount that reads the chat.                           *)
(***************************************************************************)
EXTENDS TgfsStore

CONSTANTS Absent, Torn, None

\* Through the published table, its inode messages and their data.
View == [i \in Ino |->
    LET x == Published[i] IN
        IF x = 0 THEN Absent
        ELSE IF IsTorn(i) THEN Torn
        ELSE IF chat[x].full THEN chat[chat[x].data].bytes ELSE Blank]

Mount == CHOOSE m \in Mounts : TRUE

Busy == IF frame[Mount].op \in {"upload", "remove"} THEN frame[Mount].ino ELSE None

Alive == frame[Mount].pc \notin {"down", "segv"}

\* The old table is removed and the new one is not pinned yet.
Exposed == At(Mount, "pin") /\ pins = {}

Abstract == INSTANCE InodeStore
              WITH Keys <- Ino, store <- View, busy <- Busy, alive <- Alive,
                   exposed <- Exposed, broken <- errors > 0

\* A mount implements the abstract store: upload and remove of one inode never
\* change what another inode holds, in whatever order their messages are sent
\* and deleted; what an operation that returned has stored stays until the
\* next operation on that inode, over restarts; and no operation returns with
\* its inode unreadable.  The mount may be killed anywhere; only between the
\* removal of the pinned table and the pin of the new one does that lose what
\* other inodes hold.  Up to the first request that fails.
ImplementsInodeStore == Abstract!Spec
=============================================================================
