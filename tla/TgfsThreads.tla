----------------------------- MODULE TgfsThreads -----------------------------
(***************************************************************************)
(* The table of one mount under fuse_session_loop_mt, the default without  *)
(* -s: every thread of the loop runs handlers, and all of them share       *)
(* messages_, its file and current_table_id_ without a lock.               *)
(*                                                                         *)
(* As in TgfsStore, one step is local code and at most one request to the  *)
(* chat, and an upload publishes the inode and then a whole table.  Left   *)
(* out are the data of files and the cached objects of inodes_, and        *)
(* requests that fail.                                                     *)
(***************************************************************************)
EXTENDS TgChat, TLC

CONSTANTS Threads,  \* of the loop
          MaxIno,   \* bound: inode numbers are 1..MaxIno
          MaxMsg    \* bound: no upload begins after this many messages

VARIABLES table,   \* messages_ and its file: ino -> message id, 0 for none
          open,    \* messages_ is constructed, its file open
          cur,     \* current_table_id_
          frame    \* the request that a thread is in and its local variables

vars == <<chatVars, table, open, cur, frame>>

Ino == 1..MaxIno
Root == 1
EmptyTable == [i \in Ino |-> 0]

NoFrame(l) == [pc |-> l, ret |-> "idle", ino |-> Root, old |-> 0, hold |-> 0, new |-> 0]

\* The constructor of tgfs_data has published a root before the threads start.
Init ==
    /\ chat = (1 :> [kind |-> "inode", ino |-> Root])
             @@ (2 :> [kind |-> "table", map |-> [EmptyTable EXCEPT ![Root] = 1]])
    /\ pins = {2}
    /\ lastId = 2
    /\ table = [EmptyTable EXCEPT ![Root] = 1]
    /\ open = TRUE
    /\ cur = 2
    /\ frame = [t \in Threads |-> NoFrame("idle")]

At(t, l) == frame[t].pc = l
Goto(t, l) == frame' = [frame EXCEPT ![t].pc = l]
Return(t) == Goto(t, frame[t].ret)
CallRefresh(t, r) == frame' = [frame EXCEPT ![t] = [@ EXCEPT !.pc = "check", !.ret = r]]
Finish(t) == frame' = [frame EXCEPT ![t] = NoFrame("idle")]

-----------------------------------------------------------------------------
(* update_table.                                                           *)

UpToDate == LastPinned # 0 /\ LastPinned = cur

CheckTable(t) ==
    /\ At(t, "check")
    /\ IF UpToDate THEN Return(t) ELSE Goto(t, "close")
    /\ UNCHANGED <<chatVars, table, open, cur>>

\* messages_ is destroyed, under whichever thread uses it.
CloseTable(t) ==
    /\ At(t, "close")
    /\ open' = FALSE
    /\ Goto(t, "pinned")
    /\ UNCHANGED <<chatVars, table, cur>>

ReadPinned(t) ==
    /\ At(t, "pinned")
    /\ frame' = [frame EXCEPT ![t] = [@ EXCEPT !.pc = "confirm", !.hold = LastPinned]]
    /\ UNCHANGED <<chatVars, table, open, cur>>

\* download_table: it returns 1 and is called again, or 2 and messages_ is
\* made anew without entries, or it takes the message for the table to load.
Confirm(t) ==
    /\ At(t, "confirm")
    /\ \/ /\ UpToDate
          /\ Goto(t, "pinned")
          /\ UNCHANGED <<table, open, cur>>
       \/ /\ ~UpToDate /\ frame[t].hold = 0
          /\ table' = EmptyTable /\ open' = TRUE
          /\ Return(t)
          /\ UNCHANGED cur
       \/ /\ ~UpToDate /\ frame[t].hold # 0
          /\ cur' = frame[t].hold
          /\ Goto(t, "fetch")
          /\ UNCHANGED <<table, open>>
    /\ UNCHANGED chatVars

FetchTable(t) ==
    /\ At(t, "fetch")
    /\ frame[t].hold \in DOMAIN chat
    /\ table' = chat[frame[t].hold].map
    /\ open' = TRUE
    /\ Return(t)
    /\ UNCHANGED <<chatVars, cur>>

Refresh(t) == CheckTable(t) \/ CloseTable(t) \/ ReadPinned(t) \/ Confirm(t) \/ FetchTable(t)

-----------------------------------------------------------------------------
(* Requests: lookup_msg, and upload.                                       *)

\* messages_.at: of a destroyed messages_ it gives nothing, when it returns.
Entry(i) == IF open THEN table[i] ELSE 0

\* A handler that only reads ends with its lookup_msg.
Lookup(t) ==
    /\ At(t, "idle")
    /\ frame' = [frame EXCEPT ![t] = [NoFrame("check") EXCEPT !.ret = "idle"]]
    /\ UNCHANGED <<chatVars, table, open, cur>>

StartUpload(t) == \E i \in Ino :
    /\ At(t, "idle")
    /\ lastId < MaxMsg
    /\ frame' = [frame EXCEPT ![t] = [NoFrame("check") EXCEPT !.ino = i, !.ret = "msg"]]
    /\ UNCHANGED <<chatVars, table, open, cur>>

\* lookup_msg of the old message, then lookup_inode, whose update calls it again.
RememberMsg(t) ==
    /\ At(t, "msg")
    /\ frame' = [frame EXCEPT ![t] = [@ EXCEPT !.old = Entry(frame[t].ino),
                                              !.pc = "check", !.ret = "inode"]]
    /\ UNCHANGED <<chatVars, table, open, cur>>

SendInode(t) ==
    /\ At(t, "inode")
    /\ Send([kind |-> "inode", ino |-> frame[t].ino])
    /\ frame' = [frame EXCEPT ![t] = [@ EXCEPT !.pc = "set", !.new = NextId]]
    /\ UNCHANGED <<table, open, cur>>

\* messages_.set is lost on a destroyed messages_, when it returns.
SetEntry(t) ==
    /\ At(t, "set")
    /\ table' = IF open THEN [table EXCEPT ![frame[t].ino] = frame[t].new] ELSE table
    /\ Goto(t, "table")
    /\ UNCHANGED <<chatVars, open, cur>>

SendTable(t) ==
    /\ At(t, "table")
    /\ Send([kind |-> "table", map |-> table])
    /\ frame' = [frame EXCEPT ![t] = [@ EXCEPT !.pc = "swap", !.new = NextId]]
    /\ UNCHANGED <<table, open, cur>>

FindPinned(t) ==
    /\ At(t, "swap")
    /\ frame' = [frame EXCEPT ![t] = [@ EXCEPT !.hold = LastPinned,
                                 !.pc = IF LastPinned = 0 THEN "pin" ELSE "unpin"]]
    /\ UNCHANGED <<chatVars, table, open, cur>>

RemovePinned(t) ==
    /\ At(t, "unpin")
    /\ Delete(frame[t].hold)
    /\ Goto(t, "pin")
    /\ UNCHANGED <<table, open, cur>>

PinTable(t) ==
    /\ At(t, "pin")
    /\ Pin(frame[t].new)
    /\ Goto(t, "pinned_id")
    /\ UNCHANGED <<table, open, cur>>

KeepId(t) ==
    /\ At(t, "pinned_id")
    /\ cur' = frame[t].new
    /\ Goto(t, "drop")
    /\ UNCHANGED <<chatVars, table, open>>

DropOld(t) ==
    /\ At(t, "drop")
    /\ Delete(frame[t].old)
    /\ Finish(t)
    /\ UNCHANGED <<table, open, cur>>

\* A thread uses messages_ while it is destroyed, which ends the process when it
\* does not give nothing; or the table to load is gone, a null pointer.
Segv(t) ==
    /\ \/ (At(t, "msg") \/ At(t, "set") \/ At(t, "close")) /\ ~open
       \/ At(t, "fetch") /\ frame[t].hold \notin DOMAIN chat
    /\ frame' = [u \in Threads |-> NoFrame("down")]
    /\ UNCHANGED <<chatVars, table, open, cur>>

Next == \E t \in Threads :
    \/ Segv(t) \/ Refresh(t) \/ Lookup(t) \/ StartUpload(t) \/ RememberMsg(t) \/ SendInode(t)
    \/ SetEntry(t) \/ SendTable(t) \/ FindPinned(t) \/ RemovePinned(t)
    \/ PinTable(t) \/ KeepId(t) \/ DropOld(t)

Spec == Init /\ [][Next]_vars

-----------------------------------------------------------------------------
\* tgfs_data.h:25-27 says of messages_ that it holds all files on the server
\* and must always be up to date: when no request is under way and update_table
\* would find it up to date, it holds what the pinned table holds.
UpToDateIsRight ==
    (\A t \in Threads : At(t, "idle")) /\ UpToDate => table = chat[cur].map
=============================================================================
