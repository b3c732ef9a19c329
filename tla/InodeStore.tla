----------------------------- MODULE InodeStore -----------------------------
(***************************************************************************)
(* What tgfs_data promises of the inodes it keeps: a store from inode      *)
(* numbers to contents, in which one operation at a time changes one       *)
(* inode, whatever becomes of the process.                                 *)
(*                                                                         *)
(* While an operation is under way its inode may pass through any value;   *)
(* the others keep theirs.  When it returns, its inode can be read.  When  *)
(* the process dies, the inode stays as it is at that point, but for one   *)
(* danger the store admits to: an operation may pass through a point where *)
(* the whole store is exposed, and a process that dies there loses it.     *)
(* Nothing is promised once a request to the server has failed.            *)
(***************************************************************************)
CONSTANTS Keys,      \* inode numbers
          Contents,  \* what a file or directory may contain
          Absent,    \* the value of an inode that does not exist
          Torn,      \* the value of an inode whose contents cannot be read
          None       \* no operation is under way

VARIABLES store,     \* inode number -> Contents, Absent or Torn
          busy,      \* the inode an operation is changing, or None
          alive,     \* is there a process?
          exposed,   \* does everything depend on the process going on?
          broken     \* has a request failed?

storeVars == <<store, busy, alive, exposed, broken>>

Init == /\ store = [k \in Keys |-> Absent]
        /\ busy = None
        /\ alive = FALSE
        /\ exposed = FALSE
        /\ broken = FALSE

Touch(k) == \E v \in Contents \cup {Absent, Torn} : store' = [store EXCEPT ![k] = v]

Start(k) == /\ alive /\ busy = None
            /\ busy' = k
            /\ Touch(k)
            /\ UNCHANGED <<alive, exposed>>

Change == /\ busy # None
          /\ Touch(busy)
          /\ exposed' \in BOOLEAN
          /\ UNCHANGED <<busy, alive>>

Finish == /\ busy # None /\ store[busy] # Torn /\ ~exposed
          /\ busy' = None
          /\ UNCHANGED <<store, alive, exposed>>

Die == /\ ~exposed
       /\ alive' = FALSE
       /\ busy' = None
       /\ UNCHANGED <<store, exposed>>

Lose == /\ exposed
        /\ store' = [k \in Keys |-> Absent]
        /\ alive' = FALSE
        /\ busy' = None
        /\ exposed' = FALSE

Restart == /\ ~alive
           /\ alive' = TRUE
           /\ UNCHANGED <<store, busy, exposed>>

Work == (\E k \in Keys : Start(k)) \/ Change \/ Finish \/ Die \/ Lose \/ Restart

Next == broken' = TRUE \/ (UNCHANGED broken /\ Work)

Spec == Init /\ [][Next]_storeVars
=============================================================================
