----------------------------- MODULE MCTgfsStore -----------------------------
(* TgfsStore on small instances. *)
EXTENDS TgfsStore, TLC

\* Kills between operations only, and only before the new table is pinned.
KillIdle == {"idle"}
KillAtPin == {"pin"}

MountSymmetry == Permutations(Mounts)

\* What comes after a failed request is left out, or cut short.
UntilError == errors = 0
ShortAfterError == errors = 0 \/ lastId < 7
=============================================================================
