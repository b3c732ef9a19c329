------------------------------- MODULE TgChat -------------------------------
(***************************************************************************)
(* The chat that stores the file system, as the client in src/tgcl sees    *)
(* it: numbered messages, some of them pinned.  Telegram itself is not in  *)
(* the repository; the operators below are what td_client_api relies on.   *)
(*                                                                         *)
(* A message is one of                                                     *)
(*   a table  the encrypted SQLite file  ino -> id of its inode message;   *)
(*   an inode the attributes of one inode, among them the id of its data;  *)
(*   data     the contents of one file or directory.                       *)
(* Message ids are given out in increasing order and never reused; 0 is    *)
(* the id of no message, as in the sources.                                *)
(***************************************************************************)
EXTENDS FiniteSetsExt

VARIABLES chat,    \* the messages that exist: id -> payload
          pins,    \* the ids of the pinned messages
          lastId   \* the greatest id given out so far

chatVars == <<chat, pins, lastId>>

NextId == lastId + 1

EmptyChat == /\ chat = [x \in {} |-> 0]
             /\ pins = {}
             /\ lastId = 0

\* sendMessage: the new message gets NextId.
Send(payload) ==
    /\ chat' = [x \in DOMAIN chat \cup {NextId} |->
                    IF x = NextId THEN payload ELSE chat[x]]
    /\ lastId' = NextId
    /\ UNCHANGED pins

\* deleteMessages: a deleted message is unpinned; an unknown id is ignored.
Delete(x) ==
    /\ chat' = [y \in DOMAIN chat \ {x} |-> chat[y]]
    /\ pins' = pins \ {x}
    /\ UNCHANGED lastId

\* pinChatMessage: the reply is not looked at, so an unknown id is ignored.
Pin(x) ==
    /\ pins' = IF x \in DOMAIN chat THEN pins \cup {x} ELSE pins
    /\ UNCHANGED <<chat, lastId>>

\* getChatPinnedMessage: the newest pinned message, 0 when there is none.
LastPinned == IF pins = {} THEN 0 ELSE Max(pins)
=============================================================================
