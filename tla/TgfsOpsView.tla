----------------------------- MODULE TgfsOpsView -----------------------------
(***************************************************************************)
(* TgfsOps implements FileTree: the two uploads of a handler look like one *)
(* change.  A file exists from the upload that names it; it is held while  *)
(* the kernel refers to it or its forget is under way.                     *)
(***************************************************************************)
EXTENDS TgfsOps

Entries == {<<e[1], e[2], EntryAt(e)>> : e \in {s \in Slots : EntryAt(s) # 0}}
Made == DOMAIN node \ (IF At("make") THEN {frame.ino} ELSE {})
Held == {i \in Ino : known[i] + forgets[i] > 0}

Tree == INSTANCE FileTree WITH
            Nodes <- Ino, entries <- Entries, files <- Made, held <- Held,
            torn <- cuts > 0

\* Names change one at a time and at once although every handler publishes in
\* two steps, no file is removed that has a name or that the kernel refers to,
\* and no directory that has entries; wherever the mount is killed, up to the
\* first kill that cuts unlink, rmdir or link in two.
ImplementsFileTree == Tree!Spec
=============================================================================
