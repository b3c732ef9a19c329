------------------------------- MODULE TgfsOps -------------------------------
(***************************************************************************)
(* The handlers of tgfs_ops.cpp that change names: lookup, forget, mknod,  *)
(* mkdir, unlink, rmdir, link and readdir, for one mount that serves one   *)
(* request at a time (fuse -s).                                            *)
(*                                                                         *)
(* The store is that of TgfsStore with upload and remove as single steps,  *)
(* so what is in memory between two steps is what is in the chat; no       *)
(* request to the chat fails.  A handler that uploads two inodes takes two *)
(* steps and may die in between.                                           *)
(*                                                                         *)
(* The kernel is modelled by what it asks for: it operates on directories  *)
(* it has looked up and that have a name, unlinks and links what it has    *)
(* looked up, and gives lookups back with forget, some time later.         *)
(***************************************************************************)
EXTENDS Naturals, FiniteSets, FiniteSetsExt, Functions

CONSTANTS Names,       \* of directory entries, other than "." and ".."
          MaxIno,      \* bound: inode numbers are 1..MaxIno
          MaxLookups,  \* bound: lookups of one inode that the kernel holds
          MaxNlink,    \* the greatest st_nlink; no link is made to such an inode
          KillPoints,  \* where the mount may be killed (labels of PCs)
          MaxKills     \* bound: how many kills

VARIABLES node,     \* inode number -> attributes and directory entries
          nlookup,  \* nlookup of the objects in inodes_, 0 for the others
          lastIno,  \* last_ino_
          known,    \* lookups per inode that the kernel counts
          forgets,  \* lookups per inode given back by forgets under way
          frame,    \* the handler that is between its two uploads
          kills,    \* how many kills there were
          cuts      \* those between the two uploads of unlink, rmdir or link

kernelVars == <<known, forgets>>
deaths == <<kills, cuts>>
vars == <<node, nlookup, lastIno, kernelVars, frame, deaths>>

Ino == 1..MaxIno
Root == 1
PCs == {"down", "idle", "make", "unlink", "rmdir", "link"}

ASSUME OpsAssumption ==
    /\ IsFiniteSet(Names)
    /\ MaxIno \in Nat \ {0}
    /\ MaxLookups \in Nat
    /\ MaxNlink \in Nat \ {0}
    /\ KillPoints \subseteq PCs \ {"down"}
    /\ MaxKills \in Nat

NoEntries == [n \in Names |-> 0]
NoCounts == [i \in Ino |-> 0]

\* A new inode: st_nlink is 1; a directory has ".." (up) and no other entries.
NewNode(isDir, parent) ==
    [dir |-> isDir, nlink |-> 1, up |-> IF isDir THEN parent ELSE 0, ents |-> NoEntries]

AddNode(i, x) ==
    node' = [j \in DOMAIN node \cup {i} |-> IF j = i THEN x ELSE node[j]]

\* Mutant: st_nlink is signed.
DecSigned(n) == n - 1

\* st_nlink-- of an unsigned number.
Dec(n) == IF n = 0 THEN MaxNlink ELSE n - 1

NoFrame(l) == [pc |-> l, ino |-> Root, dir |-> Root, name |-> 0]
At(l) == frame.pc = l
Idle == At("idle")
Finish == frame' = NoFrame("idle")

Exists(i) == i \in DOMAIN node
Slots == (DOMAIN node) \X Names
EntryAt(e) == node[e[1]].ents[e[2]]
NamesOf(i) == {e \in Slots : EntryAt(e) = i}

Init ==
    /\ node = <<>>
    /\ nlookup = NoCounts
    /\ lastIno = 0
    /\ known = NoCounts
    /\ forgets = NoCounts
    /\ frame = NoFrame("down")
    /\ kills = 0
    /\ cuts = 0

-----------------------------------------------------------------------------
(* The kernel.                                                             *)

\* A directory that requests may name as their parent.
Parent(p) ==
    /\ Exists(p) /\ node[p].dir
    /\ p = Root \/ (known[p] > 0 /\ NamesOf(p) # {})

\* The kernel has looked up, or been given, one more reference to i.
HasRoom(i) == known[i] + forgets[i] < MaxLookups
Refer(i) == known' = [known EXCEPT ![i] = @ + 1]

\* The kernel drops an inode and with it all the lookups it counted, but none
\* that the request under way is about.
KernelForget(i) ==
    /\ known[i] > 0
    /\ Idle \/ i \notin {frame.ino, frame.dir}
    /\ known' = [known EXCEPT ![i] = 0]
    /\ forgets' = [forgets EXCEPT ![i] = @ + known[i]]
    /\ UNCHANGED <<node, nlookup, lastIno, frame, deaths>>

-----------------------------------------------------------------------------
(* The constructor of tgfs_data.                                           *)

MountExisting ==
    /\ At("down")
    /\ Exists(Root)
    /\ lastIno' = Max(DOMAIN node)
    /\ Finish
    /\ UNCHANGED <<node, nlookup, kernelVars, deaths>>

MakeRoot ==
    /\ At("down")
    /\ ~Exists(Root)
    /\ AddNode(Root, NewNode(TRUE, Root))
    /\ nlookup' = [nlookup EXCEPT ![Root] = 1]
    /\ lastIno' = Root
    /\ Finish
    /\ UNCHANGED <<kernelVars, deaths>>

-----------------------------------------------------------------------------
(* lookup and forget.                                                      *)

Lookup == \E p \in Ino, n \in Names :
    /\ Idle /\ Parent(p)
    /\ LET i == node[p].ents[n] IN
          /\ i # 0 /\ Exists(i) /\ HasRoom(i)
          /\ nlookup' = [nlookup EXCEPT ![i] = @ + 1]
          /\ Refer(i)
    /\ UNCHANGED <<node, lastIno, forgets, frame, deaths>>

\* No such name: ENOENT.
LookupFails == \E p \in Ino, n \in Names :
    /\ Idle /\ Parent(p)
    /\ node[p].ents[n] = 0
    /\ UNCHANGED vars

\* Mutant: the links are not looked at.
DiesNamed(i, k) == nlookup[i] <= k

\* Mutant: one link is taken for none.
DiesEarly(i, k) == node[i].nlink <= 1 /\ nlookup[i] <= k

\* Mutant: the last lookup must be given back twice.
DiesLate(i, k) == node[i].nlink = 0 /\ nlookup[i] < k

\* An inode without links whose last lookups are given back is removed.
Dies(i, k) == node[i].nlink = 0 /\ nlookup[i] <= k

\* Mutant: remove does not change messages_.
RemoveNodeListed(i) ==
    /\ nlookup' = [nlookup EXCEPT ![i] = 0]
    /\ UNCHANGED node

\* tgfs_data::remove.
RemoveNode(i) ==
    /\ node' = Restrict(node, DOMAIN node \ {i})
    /\ nlookup' = [nlookup EXCEPT ![i] = 0]

GiveBack(i, k) ==
    /\ nlookup' = [nlookup EXCEPT ![i] = IF @ < k THEN 0 ELSE @ - k]
    /\ UNCHANGED node

Forget(i) == \E k \in 1..forgets[i] :
    /\ Idle /\ Exists(i)
    /\ IF Dies(i, k) THEN RemoveNode(i) ELSE GiveBack(i, k)
    /\ forgets' = [forgets EXCEPT ![i] = @ - k]
    /\ UNCHANGED <<lastIno, known, frame, deaths>>

-----------------------------------------------------------------------------
(* mknod and mkdir: the inode is uploaded, then the directory.             *)

\* new_ino: last_ino_ goes up until it is not in messages_.
NewInos == {i \in Ino : i > lastIno /\ ~Exists(i)}

Make == \E p \in Ino, n \in Names, isDir \in BOOLEAN :
    /\ Idle /\ Parent(p)
    /\ node[p].ents[n] = 0
    /\ NewInos # {}
    /\ LET i == Min(NewInos) IN
          /\ AddNode(i, NewNode(isDir, p))
          /\ lastIno' = i
          /\ frame' = [pc |-> "make", ino |-> i, dir |-> p, name |-> n]
    /\ UNCHANGED <<nlookup, kernelVars, deaths>>

SetEntry(p, n, i) == node' = [node EXCEPT ![p].ents[n] = i]

\* The reply of mknod, mkdir and link refers to the inode, as that of lookup.
ReplyEntry(i) ==
    /\ nlookup' = [nlookup EXCEPT ![i] = @ + 1]
    /\ Refer(i)
    /\ Finish

NameMade ==
    /\ At("make")
    /\ SetEntry(frame.dir, frame.name, frame.ino)
    /\ ReplyEntry(frame.ino)
    /\ UNCHANGED <<lastIno, forgets, deaths>>

-----------------------------------------------------------------------------
(* unlink and rmdir: the inode with one link less is uploaded, then the    *)
(* directory without the entry.                                            *)

\* Mutant: up to three of at most three rows count as none.
EmptyOrNot(i) == node[i].dir

Empty(i) == node[i].ents = NoEntries

Unlink == \E p \in Ino, n \in Names :
    /\ Idle /\ Parent(p)
    /\ LET i == node[p].ents[n] IN
          /\ i # 0 /\ Exists(i) /\ known[i] > 0
          /\ ~node[i].dir
          /\ node' = [node EXCEPT ![i].nlink = Dec(@)]
          /\ frame' = [pc |-> "unlink", ino |-> i, dir |-> p, name |-> n]
    /\ UNCHANGED <<nlookup, lastIno, kernelVars, deaths>>

Rmdir == \E p \in Ino, n \in Names :
    /\ Idle /\ Parent(p)
    /\ LET i == node[p].ents[n] IN
          /\ i # 0 /\ Exists(i) /\ known[i] > 0
          /\ node[i].dir /\ Empty(i)
          /\ node' = [node EXCEPT ![i].nlink = Dec(@)]
          /\ frame' = [pc |-> "rmdir", ino |-> i, dir |-> p, name |-> n]
    /\ UNCHANGED <<nlookup, lastIno, kernelVars, deaths>>

DropEntry ==
    /\ At("unlink") \/ At("rmdir")
    /\ SetEntry(frame.dir, frame.name, 0)
    /\ Finish
    /\ UNCHANGED <<nlookup, lastIno, kernelVars, deaths>>

-----------------------------------------------------------------------------
(* link: the directory with the new entry is uploaded, then the inode with *)
(* one link more.                                                          *)

Link == \E p \in Ino, n \in Names, i \in DOMAIN node :
    /\ Idle /\ Parent(p)
    /\ known[i] > 0 /\ HasRoom(i)
    /\ ~node[i].dir
    /\ node[i].nlink \in 1..(MaxNlink - 1)    \* of 0 the kernel makes no link
    /\ node[p].ents[n] = 0
    /\ SetEntry(p, n, i)
    /\ frame' = [pc |-> "link", ino |-> i, dir |-> p, name |-> n]
    /\ UNCHANGED <<nlookup, lastIno, kernelVars, deaths>>

\* Mutant: the link count stays.
CountLinkNot ==
    /\ At("link")
    /\ ReplyEntry(frame.ino)
    /\ UNCHANGED <<node, lastIno, forgets, deaths>>

\* Mutant: the reply is not counted as a lookup.
CountLinkUnheld ==
    /\ At("link")
    /\ node' = [node EXCEPT ![frame.ino].nlink = @ + 1]
    /\ Refer(frame.ino)
    /\ Finish
    /\ UNCHANGED <<nlookup, lastIno, forgets, deaths>>

CountLink ==
    /\ At("link")
    /\ node' = [node EXCEPT ![frame.ino].nlink = @ + 1]
    /\ ReplyEntry(frame.ino)
    /\ UNCHANGED <<lastIno, forgets, deaths>>

-----------------------------------------------------------------------------
(* Ends of the process.  The objects and what the kernel knew go with it.  *)

Vanish ==
    /\ nlookup' = NoCounts
    /\ lastIno' = 0
    /\ known' = NoCounts
    /\ forgets' = NoCounts
    /\ frame' = NoFrame("down")
    /\ UNCHANGED node

Kill ==
    /\ frame.pc \in KillPoints
    /\ kills < MaxKills
    /\ kills' = kills + 1
    /\ cuts' = IF frame.pc \in {"unlink", "rmdir", "link"} THEN cuts + 1 ELSE cuts
    /\ Vanish

\* lookup of an entry, or readdir of a directory with one, whose inode is
\* gone: lookup_inode returns a null pointer, which the handler dereferences.
Segv == \E p \in Ino :
    /\ Idle /\ Parent(p)
    /\ \E i \in {node[p].ents[n] : n \in Names} \cup {node[p].up} : i # 0 /\ ~Exists(i)
    /\ Vanish
    /\ UNCHANGED deaths

-----------------------------------------------------------------------------
Mount == MountExisting \/ MakeRoot

\* The second half of a handler.
Step == NameMade \/ DropEntry \/ CountLink

Ask == Lookup \/ LookupFails \/ Make \/ Unlink \/ Rmdir \/ Link

Next == \/ Mount \/ Step \/ Ask \/ Kill \/ Segv
        \/ \E i \in Ino : KernelForget(i) \/ Forget(i)

Spec == Init /\ [][Next]_vars

Unnamed(i) == Exists(i) /\ i # Root /\ NamesOf(i) = {}

\* Handlers end; a forget gets its turn among the requests (the kernel takes
\* requests and forgets by turns); what has no name is not kept open for ever.
FairSpec == Spec /\ WF_vars(Step) /\ WF_vars(Mount)
                 /\ \A i \in Ino : /\ SF_vars(Forget(i))
                                   /\ WF_vars(Unnamed(i) /\ KernelForget(i))

-----------------------------------------------------------------------------
(* Properties.                                                             *)

Node == [dir : BOOLEAN, nlink : 0..MaxNlink, up : 0..MaxIno, ents : [Names -> 0..MaxIno]]

\* Every variable keeps its type; the handler under way has its inodes.
TypeOK ==
    /\ DOMAIN node \subseteq Ino
    /\ \A i \in DOMAIN node : node[i] \in Node
    /\ nlookup \in [Ino -> Nat]
    /\ lastIno \in 0..MaxIno
    /\ known \in [Ino -> Nat]
    /\ forgets \in [Ino -> Nat]
    /\ frame \in [pc : PCs, ino : Ino, dir : Ino, name : Names \cup {0}]
    /\ kills \in Nat /\ cuts \in Nat
    /\ frame.pc \notin {"down", "idle"} =>
          Exists(frame.ino) /\ Exists(frame.dir) /\ frame.name \in Names

\* Between handlers, st_nlink of an inode is the number of its names, through
\* hard links, unlinks, removals and kills, as long as no kill cut unlink, rmdir
\* or link in two; mknod cut in two leaves an inode that nothing leads to.
LinksMatch ==
    cuts = 0 /\ (At("idle") \/ At("down")) => \A i \in DOMAIN node \ {Root} :
        \/ node[i].nlink = Cardinality(NamesOf(i))
        \/ kills > 0 /\ NamesOf(i) = {} /\ known[i] + forgets[i] = 0

Dangling == {e \in Slots : EntryAt(e) # 0 /\ ~Exists(EntryAt(e))}

\* No entry and no ".." leads to an inode that was removed, which the next
\* lookup or readdir would not survive, unless a kill cut unlink, rmdir or link.
NoDanglingEntries == cuts = 0 =>
    /\ Dangling = {}
    /\ \A d \in DOMAIN node :
          node[d].dir /\ (d = Root \/ NamesOf(d) # {}) => Exists(node[d].up)

\* What the kernel still refers to, or is about to give back, exists, and
\* nlookup does not count less than the kernel does, wherever the mount was
\* killed before.
KernelIsServed ==
    \A i \in Ino : known[i] + forgets[i] > 0 =>
        Exists(i) /\ known[i] + forgets[i] <= nlookup[i]

\* Between handlers, the kills between the two uploads of unlink, rmdir or link
\* account for every name that leads nowhere and for every name that its inode
\* does not count, those that lead to a number given out again included: L has
\* all of them, and no more than one for each such kill.  What is not bounded:
\* the files of a directory that such a kill left without links and that was
\* removed with entries in it.
DamageBounded == At("idle") \/ At("down") =>
    \E L \in SUBSET Slots :
        /\ Cardinality(L) <= cuts
        /\ Dangling \subseteq L
        /\ \A i \in DOMAIN node : Cardinality(NamesOf(i) \ L) <= node[i].nlink

\* Without kills nothing is kept for ever: an inode has a name, or the kernel
\* still has something to give back that will remove it.
NothingLeaks ==
    (kills = 0 /\ At("idle")) =>
        \A i \in DOMAIN node : Unnamed(i) => known[i] + forgets[i] > 0

\* A file that lost its last name while the kernel uses it is removed from the
\* chat once the kernel has dropped it, unless the process dies first; its link
\* count is right as long as no kill cut a handler.
UnnamedIsRemoved == \A i \in Ino, k \in 0..MaxKills :
    Unnamed(i) /\ known[i] + forgets[i] > 0 /\ kills = k /\ cuts = 0 ~> ~Unnamed(i) \/ kills > k
=============================================================================
