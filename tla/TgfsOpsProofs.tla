---------------------------- MODULE TgfsOpsProofs ----------------------------
(***************************************************************************)
(* Proofs about TgfsOps, for every number of inodes, names and kills.      *)
(*                                                                         *)
(* First what holds wherever the mount is killed: types, and what the      *)
(* kernel refers to exists.  Then, as long as no kill cut unlink, rmdir or *)
(* link in two, link counts match, no entry dangles and the handlers       *)
(* implement FileTree; up to the first kill, no inode is left behind.      *)
(* Last the names that the kills that do cut them spoil: one each.         *)
(***************************************************************************)
EXTENDS TgfsOpsView, NatSetLemmas

-----------------------------------------------------------------------------
(* Types.                                                                  *)

\* The next inode number is new and greater than every one given out before.
LEMMA NewIno ==
  ASSUME NewInos # {}
  PROVE  Min(NewInos) \in Ino /\ Min(NewInos) > lastIno /\ ~Exists(Min(NewInos))
<1>1. Min(NewInos) \in NewInos
  BY OpsAssumption, MinIn DEF NewInos, Ino
<1> QED BY <1>1 DEF NewInos

\* A node that gets an entry, or loses one, is still one, and the others stay.
LEMMA SetEntryOK ==
  ASSUME NEW p \in DOMAIN node, NEW n \in Names, NEW i \in 0..MaxIno,
         \A j \in DOMAIN node : node[j] \in Node, SetEntry(p, n, i)
  PROVE  /\ DOMAIN node' = DOMAIN node
         /\ \A j \in DOMAIN node' : node'[j] \in Node
         /\ node'[p] = [node[p] EXCEPT !.ents = [@ EXCEPT ![n] = i]]
         /\ \A j \in DOMAIN node : j # p => node'[j] = node[j]
BY DEF SetEntry, Node

\* A new node is one.
LEMMA NewNodeOK ==
  ASSUME NEW d \in BOOLEAN, NEW p \in Ino
  PROVE  NewNode(d, p) \in Node
BY OpsAssumption DEF NewNode, Node, NoEntries, Ino

\* A node whose link count is changed to a count is still one.
LEMMA NlinkOK ==
  ASSUME NEW i \in DOMAIN node, NEW c \in 0..MaxNlink,
         \A j \in DOMAIN node : node[j] \in Node,
         node' = [node EXCEPT ![i].nlink = c]
  PROVE  /\ DOMAIN node' = DOMAIN node
         /\ \A j \in DOMAIN node' : node'[j] \in Node
         /\ \A j \in DOMAIN node : /\ node'[j].ents = node[j].ents
                                   /\ node'[j].dir = node[j].dir
                                   /\ node'[j].up = node[j].up
                                   /\ j # i => node'[j] = node[j]
         /\ node'[i].nlink = c
BY DEF Node

\* Dec stays in the range of st_nlink.
LEMMA DecOK == ASSUME NEW c \in 0..MaxNlink PROVE Dec(c) \in 0..MaxNlink
BY OpsAssumption DEF Dec

Counts == [Ino -> Nat]

\* A frame of TypeOK.
FrameOK == /\ frame \in [pc : PCs, ino : Ino, dir : Ino, name : Names \cup {0}]
           /\ frame.pc \notin {"down", "idle"} =>
                Exists(frame.ino) /\ Exists(frame.dir) /\ frame.name \in Names

\* The frame of a mount that is between handlers, or down.
LEMMA NoFrameOK ==
  ASSUME frame' = NoFrame("idle") \/ frame' = NoFrame("down")
  PROVE  FrameOK'
BY OpsAssumption DEF FrameOK, NoFrame, PCs, Ino, Root

\* The inode that link is about to count a link of has room for it.
LinkFits == At("link") => node[frame.ino].nlink + 1 \in 0..MaxNlink

\* Every step keeps the types.
LEMMA TypeStep == TypeOK /\ LinkFits /\ [Next]_vars => TypeOK'
<1> SUFFICES ASSUME TypeOK, LinkFits, [Next]_vars PROVE TypeOK'
  OBVIOUS
<1>0. /\ DOMAIN node \subseteq Ino
      /\ \A i \in DOMAIN node : node[i] \in Node
      /\ nlookup \in Counts /\ known \in Counts /\ forgets \in Counts
      /\ lastIno \in 0..MaxIno /\ kills \in Nat /\ cuts \in Nat /\ FrameOK
      /\ MaxIno \in Nat \ {0} /\ Root \in Ino
  <2>1. MaxIno \in Nat \ {0} /\ Root \in Ino
    BY OpsAssumption DEF Ino, Root
  <2> QED BY <2>1, Zenon DEF TypeOK, FrameOK, Counts
<1> SUFFICES /\ DOMAIN node' \subseteq Ino
             /\ \A i \in DOMAIN node' : node'[i] \in Node
             /\ nlookup' \in Counts /\ known' \in Counts /\ forgets' \in Counts
             /\ lastIno' \in 0..MaxIno /\ kills' \in Nat /\ cuts' \in Nat /\ FrameOK'
  BY DEF TypeOK, FrameOK, Counts, Exists
<1>1. ASSUME NEW i \in Ino, KernelForget(i) PROVE known' \in Counts /\ forgets' \in Counts
  BY <1>0, <1>1 DEF KernelForget, Counts
<1>2. CASE \E i \in Ino : KernelForget(i)
  <2>1. known' \in Counts /\ forgets' \in Counts
    BY <1>1, <1>2
  <2>2. UNCHANGED <<node, nlookup, lastIno, frame, deaths>>
    BY <1>2 DEF KernelForget
  <2> QED BY <1>0, <2>1, <2>2 DEF FrameOK, Exists, deaths
<1>3. CASE MountExisting
  <2>1. Max(DOMAIN node) \in Ino
    BY <1>0, <1>3, MaxIn DEF MountExisting, Exists, Ino
  <2>2. FrameOK'
    BY <1>3, NoFrameOK DEF MountExisting, Finish
  <2> QED BY <1>0, <1>3, <2>1, <2>2 DEF MountExisting, kernelVars, deaths, Ino
<1>4. CASE MakeRoot
  <2>1. NewNode(TRUE, Root) \in Node
    BY <1>0, NewNodeOK
  <2>2. FrameOK'
    BY <1>4, NoFrameOK DEF MakeRoot, Finish
  <2>3. nlookup' \in Counts
    BY <1>0, <1>4 DEF MakeRoot, Counts
  <2>4. DOMAIN node' \subseteq Ino /\ \A i \in DOMAIN node' : node'[i] \in Node
    BY <1>0, <1>4, <2>1 DEF MakeRoot, AddNode
  <2>5. lastIno' \in 0..MaxIno
    BY <1>0, <1>4 DEF MakeRoot, Root
  <2> QED BY <1>0, <1>4, <2>2, <2>3, <2>4, <2>5 DEF MakeRoot, kernelVars, deaths
<1>5. CASE Lookup
  <2>1. nlookup' \in Counts /\ known' \in Counts
    BY <1>0, <1>5 DEF Lookup, Refer, Counts, Exists
  <2> QED BY <1>0, <1>5, <2>1 DEF Lookup, FrameOK, Exists, deaths
<1>6. CASE LookupFails
  BY <1>0, <1>6 DEF LookupFails, vars, kernelVars, deaths, FrameOK, Exists
<1>7. CASE \E i \in Ino : Forget(i)
  <2> PICK i \in Ino : Forget(i)
    BY <1>7
  <2> PICK k \in 1..forgets[i] : Forget(i)!(k)
    BY DEF Forget
  <2>1. forgets[i] \in Nat /\ nlookup[i] \in Nat
    BY <1>0 DEF Counts
  <2>2. forgets' \in Counts
    BY <1>0, <2>1 DEF Counts
  <2>3. nlookup' \in Counts
    BY <1>0, <2>1 DEF Counts, RemoveNode, GiveBack
  <2>4. DOMAIN node' \subseteq Ino /\ \A j \in DOMAIN node' : node'[j] \in Node
    BY <1>0 DEF RemoveNode, GiveBack, Restrict
  <2>5. FrameOK'
    BY <1>0 DEF FrameOK, Idle, At
  <2> QED BY <1>0, <2>2, <2>3, <2>4, <2>5 DEF deaths
<1>8. CASE Make
  <2> PICK p \in Ino, n \in Names, d \in BOOLEAN : Make!(p, n, d)
    BY <1>8 DEF Make
  <2> DEFINE i == Min(NewInos)
  <2>1. i \in Ino /\ ~Exists(i)
    BY NewIno
  <2>2. NewNode(d, p) \in Node
    BY NewNodeOK
  <2> HIDE DEF i
  <2>3. AddNode(i, NewNode(d, p)) /\ lastIno' = i
        /\ frame' = [pc |-> "make", ino |-> i, dir |-> p, name |-> n]
        /\ Exists(p)
    BY DEF i, Parent
  <2>4. DOMAIN node' \subseteq Ino /\ \A j \in DOMAIN node' : node'[j] \in Node
    BY <1>0, <2>1, <2>2, <2>3 DEF AddNode
  <2>5. FrameOK'
    BY <1>0, <2>1, <2>3 DEF FrameOK, AddNode, Exists, PCs
  <2> QED BY <1>0, <2>1, <2>3, <2>4, <2>5 DEF kernelVars, deaths, Ino
<1>9. CASE NameMade
  <2>1. /\ frame.dir \in DOMAIN node /\ frame.name \in Names /\ frame.ino \in Ino
        /\ frame.ino \in 0..MaxIno
    BY <1>0, <1>9 DEF NameMade, FrameOK, At, Exists, Ino
  <2>2. DOMAIN node' \subseteq Ino /\ \A j \in DOMAIN node' : node'[j] \in Node
    BY <1>0, <1>9, <2>1, SetEntryOK DEF NameMade
  <2>3. nlookup' \in Counts /\ known' \in Counts
    BY <1>0, <1>9, <2>1 DEF NameMade, ReplyEntry, Refer, Counts
  <2>4. FrameOK'
    BY <1>9, NoFrameOK DEF NameMade, ReplyEntry, Finish
  <2> QED BY <1>0, <1>9, <2>2, <2>3, <2>4 DEF NameMade, deaths
<1>10. CASE Unlink \/ Rmdir
  <2> PICK p \in Ino, n \in Names : Unlink!(p, n) \/ Rmdir!(p, n)
    BY <1>10 DEF Unlink, Rmdir
  <2> DEFINE i == node[p].ents[n]
  <2>1. /\ i \in DOMAIN node /\ p \in DOMAIN node /\ i \in Ino
        /\ node' = [node EXCEPT ![i].nlink = Dec(@)]
        /\ frame' \in {[pc |-> l, ino |-> i, dir |-> p, name |-> n] : l \in {"unlink", "rmdir"}}
        /\ UNCHANGED <<nlookup, lastIno, kernelVars, deaths>>
    BY <1>0 DEF Parent, Exists
  <2> HIDE DEF i
  <2>2. Dec(node[i].nlink) \in 0..MaxNlink
    BY <1>0, <2>1, DecOK DEF Node
  <2>3. node' = [node EXCEPT ![i].nlink = Dec(node[i].nlink)]
    BY <2>1
  <2>4. /\ DOMAIN node' = DOMAIN node
        /\ \A j \in DOMAIN node' : node'[j] \in Node
    BY <1>0, <2>1, <2>2, <2>3, NlinkOK
  <2>5. FrameOK'
    BY <1>0, <2>1, <2>4 DEF FrameOK, Exists, PCs
  <2> QED BY <1>0, <2>1, <2>4, <2>5 DEF kernelVars, deaths
<1>11. CASE DropEntry
  <2>1. /\ frame.dir \in DOMAIN node /\ frame.name \in Names /\ 0 \in 0..MaxIno
    BY <1>0, <1>11 DEF DropEntry, FrameOK, At, Exists
  <2>2. DOMAIN node' \subseteq Ino /\ \A j \in DOMAIN node' : node'[j] \in Node
    BY <1>0, <1>11, <2>1, SetEntryOK DEF DropEntry
  <2>3. FrameOK'
    BY <1>11, NoFrameOK DEF DropEntry, Finish
  <2> QED BY <1>0, <1>11, <2>2, <2>3 DEF DropEntry, kernelVars, deaths
<1>12. CASE Link
  <2> PICK p \in Ino, n \in Names, i \in DOMAIN node : Link!(p, n, i)
    BY <1>12 DEF Link
  <2>1. p \in DOMAIN node /\ i \in Ino /\ i \in 0..MaxIno
    BY <1>0 DEF Parent, Exists, Ino
  <2>2. DOMAIN node' = DOMAIN node /\ \A j \in DOMAIN node' : node'[j] \in Node
    BY <1>0, <2>1, SetEntryOK
  <2>3. FrameOK'
    BY <1>0, <2>1, <2>2 DEF FrameOK, Exists, PCs
  <2> QED BY <1>0, <2>2, <2>3 DEF kernelVars, deaths
<1>13. CASE CountLink
  <2> DEFINE i == frame.ino
  <2>1. i \in DOMAIN node /\ i \in Ino
    BY <1>0, <1>13 DEF CountLink, FrameOK, At, Exists
  <2>2. DOMAIN node' = DOMAIN node /\ \A j \in DOMAIN node' : node'[j] \in Node
    <3>1. node' = [node EXCEPT ![i].nlink = node[i].nlink + 1]
      BY <1>13, <2>1 DEF CountLink
    <3>2. node[i].nlink + 1 \in 0..MaxNlink
      BY <1>13 DEF CountLink, LinkFits
    <3> HIDE DEF i
    <3> QED BY <1>0, <2>1, <3>1, <3>2, NlinkOK
  <2>3. nlookup' \in Counts /\ known' \in Counts
    BY <1>0, <1>13, <2>1 DEF CountLink, ReplyEntry, Refer, Counts
  <2>4. FrameOK'
    BY <1>13, NoFrameOK DEF CountLink, ReplyEntry, Finish
  <2> QED BY <1>0, <1>13, <2>2, <2>3, <2>4 DEF CountLink, deaths
<1>14. CASE Kill \/ Segv
  <2>1. Vanish /\ kills' \in Nat /\ cuts' \in Nat
    BY <1>0, <1>14 DEF Kill, Segv, deaths
  <2>2. NoCounts \in Counts
    BY DEF NoCounts, Counts
  <2>3. FrameOK'
    BY <2>1, NoFrameOK DEF Vanish
  <2> QED BY <1>0, <2>1, <2>2, <2>3 DEF Vanish
<1>15. CASE UNCHANGED vars
  BY <1>0, <1>15 DEF vars, kernelVars, deaths, FrameOK, Exists
<1> QED
  BY <1>2, <1>3, <1>4, <1>5, <1>6, <1>7, <1>8, <1>9, <1>10, <1>11, <1>12, <1>13, <1>14, <1>15
     DEF Next, Mount, Step, Ask

\* link keeps room for the link it has not counted yet.
LEMMA FitsStep == TypeOK /\ LinkFits /\ [Next]_vars => LinkFits'
<1> SUFFICES ASSUME TypeOK, LinkFits, [Next]_vars, At("link")' PROVE LinkFits'
  BY DEF LinkFits
<1>1. CASE Link
  <2> PICK p \in Ino, n \in Names, i \in DOMAIN node : Link!(p, n, i)
    BY <1>1 DEF Link
  <2>0. /\ \A j \in DOMAIN node : node[j] \in Node
        /\ DOMAIN node \subseteq 1..MaxIno /\ MaxNlink \in Nat
    BY OpsAssumption DEF TypeOK, Ino
  <2>1. p \in DOMAIN node /\ frame'.ino = i /\ i \in 0..MaxIno
    BY <2>0 DEF Parent, Exists
  <2>2. node' = [node EXCEPT ![p].ents[n] = i]
    BY DEF SetEntry
  <2>3. node'[i].nlink = node[i].nlink
    BY <2>0, <2>2 DEF Node
  <2>4. node[i].nlink \in 1..(MaxNlink - 1)
    OBVIOUS
  <2> QED BY <2>0, <2>1, <2>3, <2>4 DEF LinkFits
<1>2. CASE UNCHANGED <<node, frame>>
  BY <1>2 DEF LinkFits, At
<1>3. CASE Mount \/ Step \/ Kill \/ Segv
  <2>1. frame' = NoFrame("idle") \/ frame' = NoFrame("down")
    BY <1>3 DEF Mount, Step, MountExisting, MakeRoot, NameMade, DropEntry, CountLink,
       ReplyEntry, Kill, Segv, Vanish, Finish
  <2> QED BY <2>1 DEF NoFrame, At
<1>4. CASE Make \/ Unlink \/ Rmdir
  <2>1. frame'.pc \in {"make", "unlink", "rmdir"}
    <3>1. CASE Make
      <4> PICK p \in Ino, n \in Names, d \in BOOLEAN : Make!(p, n, d)
        BY <3>1 DEF Make
      <4> QED OBVIOUS
    <3>2. CASE Unlink \/ Rmdir
      <4> PICK p \in Ino, n \in Names : Unlink!(p, n) \/ Rmdir!(p, n)
        BY <3>2 DEF Unlink, Rmdir
      <4> QED OBVIOUS
    <3> QED BY <1>4, <3>1, <3>2
  <2> QED BY <2>1 DEF At
<1>5. CASE \E i \in Ino : Forget(i)
  BY <1>5 DEF Forget, Idle, At
<1>6. CASE Lookup \/ LookupFails \/ (\E i \in Ino : KernelForget(i)) \/ UNCHANGED vars
  BY <1>2, <1>6 DEF Lookup, LookupFails, KernelForget, vars
<1> QED BY <1>1, <1>3, <1>4, <1>5, <1>6 DEF Next, Ask

-----------------------------------------------------------------------------
(* What the kernel refers to.                                              *)

\* The mount counts at least the lookups the kernel counts, of inodes it has.
LEMMA ServedStep == TypeOK /\ LinkFits /\ KernelIsServed /\ [Next]_vars => KernelIsServed'
<1> SUFFICES ASSUME TypeOK, LinkFits, KernelIsServed, [Next]_vars PROVE KernelIsServed'
  OBVIOUS
<1>0. /\ nlookup \in Counts /\ known \in Counts /\ forgets \in Counts
      /\ \A i \in Ino : nlookup[i] \in Nat /\ known[i] \in Nat /\ forgets[i] \in Nat
  BY DEF TypeOK, Counts
<1>1. ASSUME DOMAIN node \subseteq DOMAIN node', UNCHANGED <<known, forgets>>,
             \A i \in DOMAIN node : nlookup'[i] = nlookup[i]
      PROVE  KernelIsServed'
  BY <1>1, <1>0 DEF KernelIsServed, Exists
<1>2. ASSUME NEW i \in DOMAIN node, DOMAIN node' = DOMAIN node, UNCHANGED forgets,
             nlookup' = [nlookup EXCEPT ![i] = @ + 1], Refer(i)
      PROVE  KernelIsServed'
  BY <1>2, <1>0 DEF KernelIsServed, Exists, Refer, Counts
<1>3. CASE \E i \in Ino : KernelForget(i)
  BY <1>0, <1>3 DEF KernelForget, KernelIsServed, Exists, Counts
<1>4. CASE MountExisting \/ LookupFails
  BY <1>1, <1>4 DEF MountExisting, LookupFails, vars, kernelVars
<1>5. CASE MakeRoot
  BY <1>0, <1>1, <1>5 DEF MakeRoot, AddNode, kernelVars, Exists, Counts
<1>6. CASE Lookup
  BY <1>2, <1>6 DEF Lookup, Exists
<1>7. CASE \E i \in Ino : Forget(i)
  <2> PICK i \in Ino : Forget(i)
    BY <1>7
  <2> PICK k \in 1..forgets[i] : Forget(i)!(k)
    BY DEF Forget
  <2>1. /\ i \in DOMAIN node /\ forgets[i] >= 1 /\ forgets[i] \in Nat /\ known[i] \in Nat
        /\ known[i] + forgets[i] <= nlookup[i]
    BY <1>0 DEF KernelIsServed, Exists
  <2>2. ASSUME NEW j \in Ino, j # i, known'[j] + forgets'[j] > 0
        PROVE  Exists(j)' /\ known'[j] + forgets'[j] <= nlookup'[j]
    BY <1>0, <2>2 DEF KernelIsServed, Exists, RemoveNode, GiveBack, Restrict, Counts
  <2>3. ASSUME known'[i] + forgets'[i] > 0
        PROVE  Exists(i)' /\ known'[i] + forgets'[i] <= nlookup'[i]
    <3>1. known'[i] = known[i] /\ forgets'[i] = forgets[i] - k
      BY <1>0 DEF Counts
    <3>2. ~Dies(i, k)
      BY <1>0, <2>1, <2>3, <3>1 DEF Dies
    <3>3. GiveBack(i, k)
      BY <3>2
    <3> QED BY <1>0, <2>1, <3>1, <3>3 DEF GiveBack, Exists, Counts
  <2> QED BY <2>2, <2>3 DEF KernelIsServed
<1>8. CASE Make
  BY <1>1, <1>8 DEF Make, AddNode, kernelVars
<1>9. CASE NameMade \/ CountLink
  <2>1. frame.ino \in DOMAIN node
    BY <1>9 DEF TypeOK, NameMade, CountLink, At, Exists
  <2>2. DOMAIN node' = DOMAIN node
    BY <1>9 DEF NameMade, CountLink, SetEntry
  <2> QED BY <1>2, <1>9, <2>1, <2>2 DEF NameMade, CountLink, ReplyEntry
<1>10. CASE Unlink \/ Rmdir \/ DropEntry \/ Link
  BY <1>1, <1>10 DEF Unlink, Rmdir, DropEntry, Link, SetEntry, kernelVars
<1>11. CASE Kill \/ Segv
  BY <1>11 DEF Kill, Segv, Vanish, KernelIsServed, NoCounts
<1>12. CASE UNCHANGED vars
  BY <1>1, <1>12 DEF vars, kernelVars
<1> QED
  BY <1>3, <1>4, <1>5, <1>6, <1>7, <1>8, <1>9, <1>10, <1>11, <1>12
     DEF Next, Mount, Step, Ask

\* What holds wherever the mount is killed.
Inv == TypeOK /\ LinkFits /\ KernelIsServed

\* It holds at first.
LEMMA InitInv == Init => Inv
BY OpsAssumption DEF Init, Inv, TypeOK, LinkFits, KernelIsServed, NoCounts, NoFrame, Root, Ino,
   PCs, At, Exists

\* It is an invariant.
LEMMA Invariance == Spec => []Inv
<1>1. Inv /\ [Next]_vars => Inv'
  BY TypeStep, FitsStep, ServedStep DEF Inv
<1> QED BY InitInv, <1>1, PTL DEF Spec

\* Every variable keeps its type; st_nlink stays in its range because an
\* unsigned number that goes below 0 wraps.
THEOREM TypeCorrect == Spec => []TypeOK
<1>1. Inv => TypeOK
  BY DEF Inv
<1> QED BY Invariance, <1>1, PTL

\* The mount has every inode that the kernel refers to and counts at least
\* the kernel's lookups of it: no forget and no request meets a removed inode,
\* however handlers were cut short before.
THEOREM KernelIsServedAlways == Spec => []KernelIsServed
<1>1. Inv => KernelIsServed
  BY DEF Inv
<1> QED BY Invariance, <1>1, PTL

-----------------------------------------------------------------------------
(* Link counts and names, until a kill cuts unlink, rmdir or link in two.  *)

\* The entry that mknod owes its inode, and the one more that an inode has
\* while unlink, rmdir or link is under way.
Owed(i) == IF At("make") /\ i = frame.ino THEN 1 ELSE 0
Extra(i) == IF frame.pc \in {"unlink", "rmdir", "link"} /\ i = frame.ino THEN 1 ELSE 0

Busy == {"make", "unlink", "rmdir", "link"}

\* An inode that mknod left behind when it was killed: nothing leads to it.
Stray(i) == /\ kills > 0 /\ NamesOf(i) = {} /\ known[i] = 0 /\ forgets[i] = 0
            /\ frame.pc \in Busy => i # frame.ino

Counted(i) == Cardinality(NamesOf(i)) + Owed(i) = node[i].nlink + Extra(i)

CountsMatch == \A i \in DOMAIN node \ {Root} : Stray(i) \/ Counted(i)

\* The kernel asks nothing of a stray inode.
StraysRest == \A i \in DOMAIN node : Stray(i) =>
    kills' > 0 /\ known'[i] = 0 /\ forgets'[i] = 0

EntriesLead == \A e \in Slots : EntryAt(e) \in ((DOMAIN node) \ {Root}) \cup {0}

\* What has no name, or is a file, has no entries, so that its removal takes
\* no name from another inode.
Barren == \A i \in DOMAIN node \ {Root} :
    NamesOf(i) = {} \/ ~node[i].dir => node[i].ents = NoEntries

\* ".." of a directory is where its name is.
Ups == \A d \in DOMAIN node : node[d].dir => \A e \in NamesOf(d) : node[d].up = e[1]

RootTidy ==
    /\ ~At("down") => Exists(Root) /\ lastIno >= Root
    /\ Exists(Root) => node[Root].nlink = 1 /\ node[Root].dir /\ node[Root].up = Root

Target == <<frame.dir, frame.name>>

FrameTidy ==
    /\ frame.pc \in {"make", "unlink", "rmdir", "link"} =>
          /\ frame.ino # Root /\ node[frame.dir].dir
          /\ frame.dir = Root \/ NamesOf(frame.dir) # {}
    /\ At("make") => NamesOf(frame.ino) = {}
    /\ At("make") => EntryAt(Target) = 0 /\ (node[frame.ino].dir => node[frame.ino].up = frame.dir)
    /\ frame.pc \in {"unlink", "rmdir", "link"} => EntryAt(Target) = frame.ino
    /\ At("rmdir") => node[frame.ino].ents = NoEntries
    /\ frame.pc \in {"unlink", "link"} => ~node[frame.ino].dir

Tidy == CountsMatch /\ EntriesLead /\ Barren /\ Ups /\ RootTidy /\ FrameTidy

NodesOK == DOMAIN node \subseteq Ino /\ \A i \in DOMAIN node : node[i] \in Node

\* An inode has finitely many names.
LEMMA NamesFinite ==
  ASSUME NodesOK, NEW i
  PROVE  IsFiniteSet(NamesOf(i)) /\ NamesOf(i) \subseteq Slots
<1>1. IsFiniteSet(Ino)
  BY OpsAssumption, FS_Interval DEF Ino
<1>2. IsFiniteSet(DOMAIN node)
  BY <1>1, FS_Subset DEF NodesOK
<1>3. IsFiniteSet(Slots)
  BY <1>2, OpsAssumption, FS_Product DEF Slots
<1> QED BY <1>3, FS_Subset DEF NamesOf

\* As long as entries stay, names do.
LEMMA SameNames ==
  ASSUME DOMAIN node' = DOMAIN node, \A j \in DOMAIN node : node'[j].ents = node[j].ents
  PROVE  /\ Slots' = Slots /\ \A e \in Slots : EntryAt(e)' = EntryAt(e)
         /\ \A j : NamesOf(j)' = NamesOf(j)
<1>1. Slots' = Slots /\ \A e \in Slots : EntryAt(e)' = EntryAt(e)
  BY DEF Slots, EntryAt
<1> QED BY <1>1 DEF NamesOf

\* A node that comes or goes without entries has no part in the names of others.
LEMMA BarrenNames ==
  ASSUME NEW i,
         \/ DOMAIN node' = DOMAIN node \cup {i} /\ ~Exists(i) /\ node'[i].ents = NoEntries
         \/ DOMAIN node' = DOMAIN node \ {i} /\ Exists(i) /\ node[i].ents = NoEntries,
         \A j \in (DOMAIN node) \cap (DOMAIN node') : node'[j] = node[j]
  PROVE  \A j : j # 0 => NamesOf(j)' = NamesOf(j)
<1> TAKE j
<1> HAVE j # 0
<1>1. \A e \in NamesOf(j)' : e \in NamesOf(j)
  BY DEF NamesOf, Slots, EntryAt, NoEntries, Exists
<1>2. \A e \in NamesOf(j) : e \in NamesOf(j)'
  BY DEF NamesOf, Slots, EntryAt, NoEntries, Exists
<1> QED BY <1>1, <1>2

\* An entry that changes gives its inode a name and takes the one it led to.
LEMMA EntryNames ==
  ASSUME NodesOK, NEW p \in DOMAIN node, NEW n \in Names, NEW i, SetEntry(p, n, i)
  PROVE  /\ Slots' = Slots /\ DOMAIN node' = DOMAIN node /\ <<p, n>> \in Slots
         /\ EntryAt(<<p, n>>)' = i
         /\ \A e \in Slots : e # <<p, n>> => EntryAt(e)' = EntryAt(e)
         /\ \A j \in DOMAIN node : /\ node'[j].dir = node[j].dir /\ node'[j].up = node[j].up
                                   /\ node'[j].nlink = node[j].nlink
                                   /\ j # p => node'[j].ents = node[j].ents
         /\ \A j : NamesOf(j)' = (NamesOf(j) \ {<<p, n>>}) \cup (IF j = i THEN {<<p, n>>} ELSE {})
<1>1. /\ Slots' = Slots /\ DOMAIN node' = DOMAIN node /\ <<p, n>> \in Slots
      /\ node'[p] = [node[p] EXCEPT !.ents = [@ EXCEPT ![n] = i]]
      /\ \A j \in DOMAIN node : j # p => node'[j] = node[j]
  BY DEF SetEntry, Slots
<1>2. node[p] \in Node /\ node[p].ents \in [Names -> 0..MaxIno]
  BY DEF NodesOK, Node
<1>3. /\ node'[p].ents = [node[p].ents EXCEPT ![n] = i] /\ node'[p].dir = node[p].dir
      /\ node'[p].up = node[p].up /\ node'[p].nlink = node[p].nlink
  BY <1>1, <1>2 DEF Node
<1>4. EntryAt(<<p, n>>)' = i
  BY <1>2, <1>3 DEF EntryAt
<1>5. ASSUME NEW e \in Slots, e # <<p, n>> PROVE EntryAt(e)' = EntryAt(e)
  <2>1. e = <<e[1], e[2]>> /\ e[1] \in DOMAIN node /\ e[2] \in Names
    BY DEF Slots
  <2>2. CASE e[1] # p
    BY <1>1, <2>1, <2>2 DEF EntryAt
  <2>3. CASE e[1] = p /\ e[2] # n
    BY <1>2, <1>3, <2>1, <2>3 DEF EntryAt
  <2> QED BY <1>5, <2>1, <2>2, <2>3
<1>6. \A j : NamesOf(j)' = (NamesOf(j) \ {<<p, n>>}) \cup (IF j = i THEN {<<p, n>>} ELSE {})
  BY <1>1, <1>4, <1>5 DEF NamesOf
<1> QED BY <1>1, <1>3, <1>4, <1>5, <1>6

\* A step that leaves nodes alone, between handlers or in the middle of one.
LEMMA QuietTidy ==
  ASSUME Tidy, StraysRest, UNCHANGED node,
         \/ UNCHANGED <<frame, lastIno>>
         \/ /\ frame.pc \in {"idle", "down"} /\ frame'.pc \in {"idle", "down"}
            /\ frame'.pc = "idle" => Exists(Root) /\ lastIno' >= Root
  PROVE  Tidy'
<1>1. Slots' = Slots /\ (\A e : EntryAt(e)' = EntryAt(e)) /\ (\A j : NamesOf(j)' = NamesOf(j))
  BY DEF Slots, EntryAt, NamesOf
<1>2. \A i : Owed(i)' = Owed(i) /\ Extra(i)' = Extra(i)
  BY DEF Owed, Extra, At
<1>3. CountsMatch'
  <2> SUFFICES ASSUME NEW i \in DOMAIN node, i # Root PROVE Stray(i)' \/ Counted(i)'
    BY DEF CountsMatch
  <2>1. CASE Stray(i)
    BY <1>1, <2>1 DEF StraysRest, Stray, Busy
  <2>2. CASE Counted(i)
    BY <1>1, <1>2, <2>2 DEF Counted
  <2> QED BY <2>1, <2>2 DEF Tidy, CountsMatch
<1>4. EntriesLead' /\ Barren' /\ Ups'
  BY <1>1 DEF Tidy, EntriesLead, Barren, Ups
<1>5. RootTidy'
  BY DEF Tidy, RootTidy, Exists, At
<1>6. FrameTidy'
  <2>1. CASE UNCHANGED <<frame, lastIno>>
    BY <1>1, <2>1 DEF Tidy, FrameTidy, Target, At
  <2>2. CASE frame'.pc \in {"idle", "down"}
    BY <2>2 DEF FrameTidy, At
  <2> QED BY <2>1, <2>2
<1> QED BY <1>3, <1>4, <1>5, <1>6 DEF Tidy

\* A new node without entries: the root, or the inode of mknod or mkdir.
LEMMA NewTidy ==
  ASSUME TypeOK, Tidy, NEW i \in Ino, ~Exists(i), NEW d \in BOOLEAN, NEW p \in Ino,
         AddNode(i, NewNode(d, p)), frame.pc \in {"idle", "down"}
  PROVE  /\ NodesOK /\ NamesOf(i) = {} /\ Cardinality(NamesOf(i)) = 0
         /\ \A j : j # 0 => NamesOf(j)' = NamesOf(j)
         /\ DOMAIN node' = DOMAIN node \cup {i}
         /\ \A j \in DOMAIN node : node'[j] = node[j]
         /\ node'[i] = NewNode(d, p)
         /\ \A j \in DOMAIN node \ {Root} : Stray(j) \/ Cardinality(NamesOf(j)') = node'[j].nlink
         /\ \A j \in DOMAIN node : NamesOf(j)' = NamesOf(j)
         /\ i # Root => EntriesLead'
         /\ \A e \in Slots : e \in Slots' /\ EntryAt(e)' = EntryAt(e)
         /\ Barren' /\ Ups'
<1>1. NodesOK /\ 0 \notin Ino /\ DOMAIN node \subseteq Ino
  <2>1. 0 \notin Ino
    BY OpsAssumption DEF Ino
  <2> QED BY <2>1, Zenon DEF TypeOK, NodesOK
<1>2. NamesOf(i) = {}
  BY <1>1 DEF Tidy, EntriesLead, NamesOf, Exists
<1>3. /\ DOMAIN node' = DOMAIN node \cup {i}
      /\ \A j \in DOMAIN node : node'[j] = node[j]
      /\ node'[i] = NewNode(d, p)
  BY DEF AddNode, Exists
<1>4. \A j : j # 0 => NamesOf(j)' = NamesOf(j)
  BY <1>3, BarrenNames DEF NewNode
<1>10. \A j \in DOMAIN node : NamesOf(j)' = NamesOf(j)
  BY <1>1, <1>4
<1>5. \A j \in DOMAIN node \ {Root} : Stray(j) \/ Cardinality(NamesOf(j)') = node'[j].nlink
  <2> TAKE j \in DOMAIN node \ {Root}
  <2>1. Owed(j) = 0 /\ Extra(j) = 0
    BY DEF Owed, Extra, At
  <2>2. node[j].nlink \in Nat
    BY <1>1, OpsAssumption DEF NodesOK, Node
  <2>3. Cardinality(NamesOf(j)) \in Nat
    BY <1>1, NamesFinite, FS_CardinalityType
  <2> QED BY <1>1, <1>3, <1>4, <2>1, <2>2, <2>3 DEF Tidy, CountsMatch, Counted
<1>6. \A e \in Slots : e \in Slots' /\ EntryAt(e)' = EntryAt(e)
  BY <1>3 DEF Slots, EntryAt
<1>7. ASSUME i # Root PROVE EntriesLead'
  <2> SUFFICES ASSUME NEW e \in Slots'
               PROVE  EntryAt(e)' \in ((DOMAIN node') \ {Root}) \cup {0}
    BY DEF EntriesLead
  <2>1. CASE e \in Slots
    BY <1>3, <1>6, <2>1 DEF Tidy, EntriesLead
  <2>2. CASE e \notin Slots
    <3>1. e[1] = i /\ e[2] \in Names
      BY <1>3, <2>2 DEF Slots
    <3> QED BY <1>3, <3>1 DEF EntryAt, NewNode, NoEntries
  <2> QED BY <2>1, <2>2
<1>8. Barren'
  BY <1>1, <1>2, <1>3, <1>4 DEF Tidy, Barren, NewNode
<1>9. Ups'
  BY <1>1, <1>2, <1>3, <1>4 DEF Tidy, Ups
<1> QED BY <1>1, <1>2, <1>3, <1>4, <1>5, <1>6, <1>7, <1>8, <1>9, <1>10, FS_EmptySet

\* MakeRoot makes the root.
LEMMA MakeRootTidy == ASSUME TypeOK, Tidy, StraysRest, MakeRoot PROVE Tidy'
<1>0. /\ ~Exists(Root) /\ AddNode(Root, NewNode(TRUE, Root)) /\ frame.pc = "down"
      /\ lastIno' = Root /\ frame'.pc = "idle" /\ Root \in Ino
  <2>1. Root \in Ino
    BY OpsAssumption DEF Root, Ino
  <2>2. frame'.pc = "idle"
    BY DEF MakeRoot, Finish, NoFrame
  <2> QED BY <2>1, <2>2, Zenon DEF MakeRoot, At
<1>1. /\ DOMAIN node' = DOMAIN node \cup {Root} /\ Barren' /\ Ups'
      /\ \A j \in DOMAIN node \ {Root} : Stray(j) \/ Cardinality(NamesOf(j)') = node'[j].nlink
      /\ \A j \in DOMAIN node : NamesOf(j)' = NamesOf(j)
      /\ \A e \in Slots : e \in Slots' /\ EntryAt(e)' = EntryAt(e)
      /\ node'[Root] = NewNode(TRUE, Root)
      /\ NodesOK
  BY <1>0, NewTidy
<1>2. CountsMatch'
  <2>1. \A j : Owed(j)' = 0 /\ Extra(j)' = 0
    BY <1>0 DEF Owed, Extra, At
  <2>2. \A j \in DOMAIN node : node'[j].nlink \in Nat
    BY <1>0, <1>1, OpsAssumption DEF AddNode, NodesOK, Node, NewNode
  <2>3. ASSUME NEW j \in DOMAIN node, Stray(j) PROVE Stray(j)'
    BY <1>0, <1>1, <2>3 DEF StraysRest, Stray, Busy
  <2> QED BY <1>1, <2>1, <2>2, <2>3 DEF CountsMatch, Counted
<1>3. EntriesLead'
  <2> SUFFICES ASSUME NEW e \in Slots'
               PROVE  EntryAt(e)' \in ((DOMAIN node') \ {Root}) \cup {0}
    BY DEF EntriesLead
  <2>1. CASE e \in Slots
    BY <1>1, <2>1 DEF Tidy, EntriesLead
  <2>2. CASE e \notin Slots
    <3>1. e[1] = Root /\ e[2] \in Names
      BY <1>1, <2>2 DEF Slots
    <3> QED BY <1>1, <3>1 DEF EntryAt, NewNode, NoEntries
  <2> QED BY <2>1, <2>2
<1>4. RootTidy' /\ FrameTidy'
  BY <1>0, <1>1 DEF RootTidy, FrameTidy, NewNode, At, Exists, Root
<1> QED BY <1>1, <1>2, <1>3, <1>4 DEF Tidy

\* mknod and mkdir, until the first upload.
LEMMA MakeTidy == ASSUME TypeOK, Tidy, StraysRest, Make PROVE Tidy'
<1> PICK p \in Ino, n \in Names, d \in BOOLEAN : Make!(p, n, d)
  BY DEF Make
<1> PICK i \in Ino : i = Min(NewInos)
  BY NewIno
<1>1. i \in Ino /\ ~Exists(i) /\ i > lastIno
  BY NewIno
<1>2. /\ AddNode(i, NewNode(d, p)) /\ lastIno' = i
      /\ frame' = [pc |-> "make", ino |-> i, dir |-> p, name |-> n]
      /\ frame.pc = "idle" /\ Parent(p) /\ node[p].ents[n] = 0
  BY DEF Idle, At
<1>3. Exists(Root) /\ lastIno >= Root /\ lastIno \in Nat /\ i \in Nat /\ p \in DOMAIN node /\ node[p].dir
  BY <1>1, <1>2, OpsAssumption DEF Tidy, RootTidy, TypeOK, At, Parent, Exists, Ino
<1>4. i # Root /\ lastIno' >= Root /\ i # p
  BY <1>1, <1>2, <1>3 DEF Root, Exists
<1>5. /\ NodesOK /\ NamesOf(i) = {} /\ Cardinality(NamesOf(i)) = 0
      /\ \A j : j # 0 => NamesOf(j)' = NamesOf(j)
      /\ DOMAIN node' = DOMAIN node \cup {i}
      /\ \A j \in DOMAIN node : node'[j] = node[j]
      /\ node'[i] = NewNode(d, p)
      /\ \A j \in DOMAIN node \ {Root} : Stray(j) \/ Cardinality(NamesOf(j)') = node'[j].nlink
      /\ \A j \in DOMAIN node : NamesOf(j)' = NamesOf(j)
      /\ EntriesLead'
      /\ \A e \in Slots : e \in Slots' /\ EntryAt(e)' = EntryAt(e)
      /\ Barren' /\ Ups'
  BY <1>1, <1>2, <1>4, NewTidy
<1>9. NamesOf(i)' = {}
  <2>1. i # 0
    BY <1>1, OpsAssumption DEF Ino
  <2> QED BY <1>5, <2>1
<1>6. CountsMatch'
  <2>1. \A j : Extra(j)' = 0 /\ (j # i => Owed(j)' = 0) /\ Owed(i)' = 1
    <3>1. frame'.pc = "make" /\ frame'.ino = i
      BY <1>2
    <3> QED BY <3>1, Zenon DEF Owed, Extra, At
  <2>2. \A j \in DOMAIN node : node'[j].nlink \in Nat
    BY <1>5, OpsAssumption DEF NodesOK, Node
  <2>3. Cardinality(NamesOf(i)') = 0 /\ node'[i].nlink = 1
    BY <1>5, <1>9 DEF NewNode
  <2>4. ASSUME NEW j \in DOMAIN node, Stray(j) PROVE Stray(j)'
    BY <1>1, <1>2, <1>5, <2>4 DEF StraysRest, Stray, Exists
  <2> QED BY <1>5, <2>1, <2>2, <2>3, <2>4 DEF CountsMatch, Counted
<1>7. RootTidy'
  BY <1>2, <1>3, <1>4, <1>5 DEF Tidy, RootTidy, Exists, At
<1>8. FrameTidy'
  <2>1. p \in Ino /\ p # 0 /\ (p = Root \/ NamesOf(p)' # {}) /\ node'[p].dir
    BY <1>2, <1>3, <1>5, OpsAssumption DEF Parent, Ino
  <2>2. <<p, n>> \in Slots /\ EntryAt(<<p, n>>) = 0
    BY <1>2, <1>3 DEF Slots, EntryAt
  <2>3. EntryAt(Target)' = 0
    BY <1>2, <1>5, <2>2 DEF Target
  <2>4. node'[i].dir => node'[i].up = p
    BY <1>5 DEF NewNode
  <2>5. NamesOf(frame.ino)' = {}
    BY <1>2, <1>9
  <2> QED BY <1>2, <1>4, <2>1, <2>3, <2>4, <2>5 DEF FrameTidy, At
<1> QED BY <1>5, <1>6, <1>7, <1>8 DEF Tidy

\* What is known when an entry changes, whatever becomes of it.
LEMMA EntryTidy ==
  ASSUME TypeOK, Tidy, NEW p \in DOMAIN node, NEW n \in Names, NEW i \in DOMAIN node,
         i # Root, node[p].dir, NEW v \in {0, i}, SetEntry(p, n, v)
  PROVE  /\ NodesOK /\ Slots' = Slots /\ DOMAIN node' = DOMAIN node
         /\ <<p, n>> \in Slots /\ EntryAt(<<p, n>>)' = v
         /\ \A j \in DOMAIN node : /\ node'[j].dir = node[j].dir /\ node'[j].up = node[j].up
                                   /\ node'[j].nlink = node[j].nlink
                                   /\ j # p => node'[j].ents = node[j].ents
         /\ \A j : NamesOf(j)' = (NamesOf(j) \ {<<p, n>>}) \cup (IF j = v THEN {<<p, n>>} ELSE {})
         /\ EntriesLead'
<1>1. NodesOK
  BY Zenon DEF TypeOK, NodesOK
<1>2. /\ Slots' = Slots /\ DOMAIN node' = DOMAIN node /\ <<p, n>> \in Slots
      /\ EntryAt(<<p, n>>)' = v
      /\ \A e \in Slots : e # <<p, n>> => EntryAt(e)' = EntryAt(e)
      /\ \A j \in DOMAIN node : /\ node'[j].dir = node[j].dir /\ node'[j].up = node[j].up
                                /\ node'[j].nlink = node[j].nlink
                                /\ j # p => node'[j].ents = node[j].ents
      /\ \A j : NamesOf(j)' = (NamesOf(j) \ {<<p, n>>}) \cup (IF j = v THEN {<<p, n>>} ELSE {})
  BY <1>1, EntryNames
<1>3. EntriesLead'
  BY <1>2 DEF Tidy, EntriesLead
<1> QED BY <1>1, <1>2, <1>3

\* The second upload of mknod and mkdir gives the inode its name.
LEMMA NameMadeTidy == ASSUME TypeOK, Tidy, StraysRest, NameMade PROVE Tidy'
<1> PICK i, p, n : i = frame.ino /\ p = frame.dir /\ n = frame.name
  OBVIOUS
<1>1. /\ i \in DOMAIN node /\ p \in DOMAIN node /\ n \in Names /\ frame.pc = "make"
      /\ SetEntry(p, n, i) /\ frame'.pc = "idle" /\ lastIno' = lastIno
  BY DEF NameMade, ReplyEntry, Finish, NoFrame, TypeOK, Exists, At
<1>2. /\ i # Root /\ node[p].dir /\ (p = Root \/ NamesOf(p) # {})
      /\ EntryAt(<<p, n>>) = 0 /\ (node[i].dir => node[i].up = p)
  BY <1>1 DEF Tidy, FrameTidy, Target, At
<1>3. /\ NodesOK /\ Slots' = Slots /\ DOMAIN node' = DOMAIN node
      /\ <<p, n>> \in Slots /\ EntryAt(<<p, n>>)' = i
      /\ \A j \in DOMAIN node : /\ node'[j].dir = node[j].dir /\ node'[j].up = node[j].up
                                /\ node'[j].nlink = node[j].nlink
                                /\ j # p => node'[j].ents = node[j].ents
      /\ \A j : NamesOf(j)' = (NamesOf(j) \ {<<p, n>>}) \cup (IF j = i THEN {<<p, n>>} ELSE {})
      /\ EntriesLead'
  BY <1>1, <1>2, EntryTidy
<1>4. \A j \in DOMAIN node : NamesOf(j)' = NamesOf(j) \cup (IF j = i THEN {<<p, n>>} ELSE {})
  <2>1. \A j \in DOMAIN node : <<p, n>> \notin NamesOf(j)
    BY <1>2, <1>3, OpsAssumption DEF NamesOf, NodesOK, Ino
  <2> QED BY <1>3, <2>1
<1>5. CountsMatch'
  <2> SUFFICES ASSUME NEW j \in DOMAIN node, j # Root, ~Stray(j)
               PROVE  Cardinality(NamesOf(j)') = node'[j].nlink
    <3>1. \A j : Owed(j)' = 0 /\ Extra(j)' = 0
      BY <1>1 DEF Owed, Extra, At
    <3>2. \A j \in DOMAIN node : node'[j].nlink \in Nat
      BY <1>3, OpsAssumption DEF NodesOK, Node
    <3>3. ASSUME NEW j \in DOMAIN node, Stray(j) PROVE Stray(j)'
      <4>1. j # i
        BY <1>1, <3>3 DEF Stray, Busy
      <4> QED BY <1>1, <1>4, <3>3, <4>1 DEF StraysRest, Stray, Busy
    <3> QED BY <1>3, <3>1, <3>2, <3>3 DEF CountsMatch, Counted
  <2>1. IsFiniteSet(NamesOf(j)) /\ Cardinality(NamesOf(j)) \in Nat /\ node[j].nlink \in Nat
    BY <1>3, NamesFinite, FS_CardinalityType, OpsAssumption DEF NodesOK, Node
  <2>2. Extra(j) = 0 /\ Owed(j) = IF j = i THEN 1 ELSE 0
    BY <1>1 DEF Extra, Owed, At
  <2>3. Cardinality(NamesOf(j)) + Owed(j) = node[j].nlink
    BY <2>1, <2>2 DEF Tidy, CountsMatch, Counted
  <2>4. CASE j = i
    <3>1. <<p, n>> \notin NamesOf(j)
      BY <1>1, <1>2, OpsAssumption DEF NamesOf, TypeOK, Ino
    <3>2. Cardinality(NamesOf(j) \cup {<<p, n>>}) = Cardinality(NamesOf(j)) + 1
      BY <2>1, <3>1, FS_AddElement
    <3> QED BY <1>3, <1>4, <2>1, <2>2, <2>3, <2>4, <3>2
  <2>5. CASE j # i
    <3>1. NamesOf(j)' = NamesOf(j)
      BY <1>4, <2>5
    <3> QED BY <1>3, <2>1, <2>2, <2>3, <2>5, <3>1
  <2> QED BY <2>4, <2>5
<1>6. Barren'
  <2>1. NamesOf(p)' = {} => NamesOf(p) = {}
    BY <1>1, <1>4
  <2> QED BY <1>1, <1>2, <1>3, <1>4, <2>1 DEF Tidy, Barren
<1>7. Ups'
  BY <1>2, <1>3, <1>4 DEF Tidy, Ups
<1>8. RootTidy' /\ FrameTidy'
  BY <1>1, <1>3 DEF Tidy, RootTidy, FrameTidy, Exists, At, Root
<1> QED BY <1>3, <1>5, <1>6, <1>7, <1>8 DEF Tidy

\* unlink and rmdir take the entry away that was counted off before.
LEMMA DropEntryTidy == ASSUME TypeOK, Tidy, StraysRest, DropEntry PROVE Tidy'
<1> PICK i, p, n : i = frame.ino /\ p = frame.dir /\ n = frame.name
  OBVIOUS
<1>1. /\ i \in DOMAIN node /\ p \in DOMAIN node /\ n \in Names /\ frame.pc \in {"unlink", "rmdir"}
      /\ SetEntry(p, n, 0) /\ frame'.pc = "idle" /\ lastIno' = lastIno
  BY DEF DropEntry, Finish, NoFrame, TypeOK, Exists, At
<1>2. /\ i # Root /\ node[p].dir /\ (p = Root \/ NamesOf(p) # {})
      /\ EntryAt(<<p, n>>) = i
      /\ node[i].ents = NoEntries
  BY <1>1 DEF Tidy, FrameTidy, Barren, Target, At
<1>3. /\ NodesOK /\ Slots' = Slots /\ DOMAIN node' = DOMAIN node
      /\ <<p, n>> \in Slots /\ EntryAt(<<p, n>>)' = 0
      /\ \A j \in DOMAIN node : /\ node'[j].dir = node[j].dir /\ node'[j].up = node[j].up
                                /\ node'[j].nlink = node[j].nlink
                                /\ j # p => node'[j].ents = node[j].ents
      /\ \A j : NamesOf(j)' = (NamesOf(j) \ {<<p, n>>}) \cup (IF j = 0 THEN {<<p, n>>} ELSE {})
      /\ EntriesLead'
  BY <1>1, <1>2, EntryTidy
<1>4. \A j \in DOMAIN node : NamesOf(j)' = NamesOf(j) \ (IF j = i THEN {<<p, n>>} ELSE {})
  <2>1. \A j \in DOMAIN node : j # i => <<p, n>> \notin NamesOf(j)
    BY <1>2 DEF NamesOf
  <2>2. \A j \in DOMAIN node : j # 0
    BY <1>3, OpsAssumption DEF NodesOK, Ino
  <2> QED BY <1>3, <2>1, <2>2
<1>5. i # p
  BY <1>1, <1>2, OpsAssumption DEF EntryAt, NoEntries, TypeOK, Ino
<1>6. CountsMatch'
  <2> SUFFICES ASSUME NEW j \in DOMAIN node, j # Root, ~Stray(j)
               PROVE  Cardinality(NamesOf(j)') = node'[j].nlink
    <3>1. \A j : Owed(j)' = 0 /\ Extra(j)' = 0
      BY <1>1 DEF Owed, Extra, At
    <3>2. \A j \in DOMAIN node : node'[j].nlink \in Nat
      BY <1>3, OpsAssumption DEF NodesOK, Node
    <3>3. ASSUME NEW j \in DOMAIN node, Stray(j) PROVE Stray(j)'
      <4>1. j # i
        BY <1>1, <3>3 DEF Stray, Busy
      <4> QED BY <1>1, <1>4, <3>3, <4>1 DEF StraysRest, Stray, Busy
    <3> QED BY <1>3, <3>1, <3>2, <3>3 DEF CountsMatch, Counted
  <2>1. IsFiniteSet(NamesOf(j)) /\ Cardinality(NamesOf(j)) \in Nat /\ node[j].nlink \in Nat
    BY <1>3, NamesFinite, FS_CardinalityType, OpsAssumption DEF NodesOK, Node
  <2>2. Owed(j) = 0 /\ Extra(j) = IF j = i THEN 1 ELSE 0
    BY <1>1 DEF Extra, Owed, At
  <2>3. Cardinality(NamesOf(j)) = node[j].nlink + Extra(j)
    BY <2>1, <2>2 DEF Tidy, CountsMatch, Counted
  <2>4. CASE j = i
    <3>1. <<p, n>> \in NamesOf(j)
      BY <1>2, <1>3, <2>4 DEF NamesOf
    <3>2. Cardinality(NamesOf(j) \ {<<p, n>>}) = Cardinality(NamesOf(j)) - 1
      BY <2>1, <3>1, FS_RemoveElement
    <3>3. NamesOf(j)' = NamesOf(j) \ {<<p, n>>}
      BY <1>4, <2>4
    <3> QED BY <1>3, <2>1, <2>2, <2>3, <2>4, <3>2, <3>3
  <2>5. CASE j # i
    <3>1. NamesOf(j)' = NamesOf(j)
      BY <1>4, <2>5
    <3> QED BY <1>3, <2>1, <2>2, <2>3, <2>5, <3>1
  <2> QED BY <2>4, <2>5
<1>7. Barren'
  BY <1>1, <1>2, <1>3, <1>4, <1>5 DEF Tidy, Barren
<1>8. Ups'
  BY <1>3, <1>4 DEF Tidy, Ups
<1>9. RootTidy' /\ FrameTidy'
  BY <1>1, <1>3 DEF Tidy, RootTidy, FrameTidy, Exists, At, Root
<1> QED BY <1>3, <1>6, <1>7, <1>8, <1>9 DEF Tidy

\* link gives a name that it counts afterwards.
LEMMA LinkTidy == ASSUME TypeOK, Tidy, StraysRest, Link PROVE Tidy'
<1> PICK p \in Ino, n \in Names, i \in DOMAIN node : Link!(p, n, i)
  BY DEF Link
<1>1. /\ p \in DOMAIN node /\ node[p].dir /\ (p = Root \/ NamesOf(p) # {})
      /\ frame' = [pc |-> "link", ino |-> i, dir |-> p, name |-> n]
      /\ frame.pc = "idle" /\ lastIno' = lastIno /\ ~node[i].dir
      /\ node[p].ents[n] = 0 /\ SetEntry(p, n, i) /\ ~Stray(i)
  <2>1. ~Stray(i)
    BY DEF Stray, TypeOK
  <2> QED BY <2>1 DEF Parent, Idle, At, Exists
<1>2. i # Root /\ EntryAt(<<p, n>>) = 0 /\ p # i
  BY <1>1 DEF Tidy, RootTidy, EntryAt, At, Exists
<1>3. /\ NodesOK /\ Slots' = Slots /\ DOMAIN node' = DOMAIN node
      /\ <<p, n>> \in Slots /\ EntryAt(<<p, n>>)' = i
      /\ \A j \in DOMAIN node : /\ node'[j].dir = node[j].dir /\ node'[j].up = node[j].up
                                /\ node'[j].nlink = node[j].nlink
                                /\ j # p => node'[j].ents = node[j].ents
      /\ \A j : NamesOf(j)' = (NamesOf(j) \ {<<p, n>>}) \cup (IF j = i THEN {<<p, n>>} ELSE {})
      /\ EntriesLead'
  BY <1>1, <1>2, EntryTidy
<1>4. \A j \in DOMAIN node : NamesOf(j)' = NamesOf(j) \cup (IF j = i THEN {<<p, n>>} ELSE {})
  <2>1. \A j \in DOMAIN node : <<p, n>> \notin NamesOf(j)
    BY <1>2, <1>3, OpsAssumption DEF NamesOf, NodesOK, Ino
  <2> QED BY <1>3, <2>1
<1>5. CountsMatch'
  <2> SUFFICES ASSUME NEW j \in DOMAIN node, j # Root, ~Stray(j)
               PROVE  Cardinality(NamesOf(j)') = node'[j].nlink + (IF j = i THEN 1 ELSE 0)
    <3>1. frame'.pc = "link" /\ frame'.ino = i
      BY <1>1
    <3>2. \A j : Owed(j)' = 0 /\ Extra(j)' = IF j = i THEN 1 ELSE 0
      BY <3>1 DEF Owed, Extra, At
    <3>3. \A j \in DOMAIN node : IsFiniteSet(NamesOf(j))
      BY <1>3, NamesFinite
    <3>4. \A j \in DOMAIN node : Cardinality(NamesOf(j)') \in Nat
      <4> TAKE k \in DOMAIN node
      <4>1. NamesOf(k)' = NamesOf(k) \/ NamesOf(k)' = NamesOf(k) \cup {<<p, n>>}
        BY <1>4
      <4>2. IsFiniteSet(NamesOf(k)')
        BY <3>3, <4>1, FS_AddElement
      <4> QED BY <4>2, FS_CardinalityType
    <3>5. ASSUME NEW j \in DOMAIN node, Stray(j) PROVE Stray(j)'
      <4>1. j # i
        BY <1>1, <3>5
      <4> QED BY <1>4, <3>1, <3>5, <4>1 DEF StraysRest, Stray
    <3> QED BY <1>3, <3>2, <3>4, <3>5 DEF CountsMatch, Counted
  <2>1. IsFiniteSet(NamesOf(j)) /\ Cardinality(NamesOf(j)) \in Nat /\ node[j].nlink \in Nat
    BY <1>3, NamesFinite, FS_CardinalityType, OpsAssumption DEF NodesOK, Node
  <2>2. Extra(j) = 0 /\ Owed(j) = 0
    BY <1>1 DEF Extra, Owed, At
  <2>3. Cardinality(NamesOf(j)) = node[j].nlink
    BY <2>1, <2>2 DEF Tidy, CountsMatch, Counted
  <2>4. CASE j = i
    <3>1. <<p, n>> \notin NamesOf(j)
      BY <1>2, <1>3, OpsAssumption DEF NamesOf, NodesOK, Ino
    <3>2. Cardinality(NamesOf(j) \cup {<<p, n>>}) = Cardinality(NamesOf(j)) + 1
      BY <2>1, <3>1, FS_AddElement
    <3> QED BY <1>3, <1>4, <2>1, <2>3, <2>4, <3>2
  <2>5. CASE j # i
    <3>1. NamesOf(j)' = NamesOf(j)
      BY <1>4, <2>5
    <3> QED BY <1>3, <2>1, <2>3, <2>5, <3>1
  <2> QED BY <2>4, <2>5
<1>6. Barren'
  <2>1. NamesOf(p)' = {} => NamesOf(p) = {}
    BY <1>1, <1>4
  <2> QED BY <1>1, <1>2, <1>3, <1>4, <2>1 DEF Tidy, Barren
<1>7. Ups'
  BY <1>1, <1>3, <1>4 DEF Tidy, Ups
<1>8. RootTidy'
  BY <1>1, <1>2, <1>3 DEF Tidy, RootTidy, Exists, At, Root
<1>9. FrameTidy'
  <2>1. frame'.pc = "link" /\ frame'.ino = i /\ frame'.dir = p /\ frame'.name = n
    BY <1>1
  <2>2. EntryAt(Target)' = i
    BY <1>3, <2>1 DEF Target
  <2>3. p = Root \/ NamesOf(p)' # {}
    BY <1>1, <1>4
  <2> QED BY <1>1, <1>2, <1>3, <2>1, <2>2, <2>3 DEF FrameTidy, At
<1> QED BY <1>3, <1>5, <1>6, <1>7, <1>8, <1>9 DEF Tidy

\* Link counts change and names stay: the first upload of unlink and rmdir, and
\* the second of link.
LEMMA NlinkTidy ==
  ASSUME TypeOK, Tidy, StraysRest,
         NEW i \in DOMAIN node, NEW c \in 0..MaxNlink, i # Root, ~Stray(i),
         node' = [node EXCEPT ![i].nlink = c], lastIno' = lastIno, Exists(Root), lastIno >= Root,
         c + Extra(i)' = node[i].nlink + Extra(i),
         frame.pc \in {"idle", "link"}, frame'.pc \in {"idle", "unlink", "rmdir"},
         frame.pc = "link" => frame.ino = i, frame'.pc # "idle" => frame'.ino = i,
         FrameTidy'
  PROVE  Tidy'
<1>1. NodesOK
  BY Zenon DEF TypeOK, NodesOK
<1>2. /\ DOMAIN node' = DOMAIN node
      /\ \A j \in DOMAIN node' : node'[j] \in Node
      /\ \A j \in DOMAIN node : /\ node'[j].ents = node[j].ents
                                /\ node'[j].dir = node[j].dir
                                /\ node'[j].up = node[j].up
                                /\ j # i => node'[j] = node[j]
      /\ node'[i].nlink = c
  BY <1>1, NlinkOK DEF NodesOK
<1>3. /\ Slots' = Slots /\ \A e \in Slots : EntryAt(e)' = EntryAt(e)
      /\ \A j : NamesOf(j)' = NamesOf(j)
  BY <1>2, SameNames
<1>4. CountsMatch'
  <2> SUFFICES ASSUME NEW j \in DOMAIN node, j # Root, ~Stray(j)
               PROVE  Cardinality(NamesOf(j)) = node'[j].nlink + Extra(j)'
    <3>1. \A j : Owed(j)' = 0
      BY DEF Owed, At
    <3>2. \A j \in DOMAIN node : Cardinality(NamesOf(j)) \in Nat
      BY <1>1, NamesFinite, FS_CardinalityType
    <3>3. ASSUME NEW j \in DOMAIN node, Stray(j) PROVE Stray(j)'
      BY <1>3, <3>3 DEF StraysRest, Stray, Busy
    <3> QED BY <1>2, <1>3, <3>1, <3>2, <3>3 DEF CountsMatch, Counted
  <2>1. Cardinality(NamesOf(j)) \in Nat /\ Owed(j) = 0
    BY <1>1, NamesFinite, FS_CardinalityType DEF Owed, At
  <2>2. Cardinality(NamesOf(j)) = node[j].nlink + Extra(j)
    BY <2>1 DEF Tidy, CountsMatch, Counted
  <2>3. CASE j = i
    BY <1>2, <2>2, <2>3
  <2>4. CASE j # i
    <3>1. Extra(j) = 0 /\ Extra(j)' = 0
      BY <2>4 DEF Extra
    <3> QED BY <1>2, <2>2, <2>4, <3>1
  <2> QED BY <2>3, <2>4
<1>5. EntriesLead' /\ Barren' /\ Ups'
  BY <1>2, <1>3 DEF Tidy, EntriesLead, Barren, Ups
<1>6. RootTidy'
  BY <1>2 DEF Tidy, RootTidy, Exists, At
<1> QED BY <1>4, <1>5, <1>6 DEF Tidy

\* unlink and rmdir count a link off before they take the entry away.
LEMMA UnlinkTidy == ASSUME TypeOK, Tidy, StraysRest, Unlink \/ Rmdir PROVE Tidy'
<1> PICK p \in Ino, n \in Names : Unlink!(p, n) \/ Rmdir!(p, n)
  BY DEF Unlink, Rmdir
<1> PICK i : i = node[p].ents[n]
  OBVIOUS
<1>1. /\ i \in DOMAIN node /\ p \in DOMAIN node /\ node[p].dir /\ (p = Root \/ NamesOf(p) # {})
      /\ node' = [node EXCEPT ![i].nlink = Dec(@)] /\ lastIno' = lastIno /\ frame.pc = "idle"
      /\ \/ frame' = [pc |-> "unlink", ino |-> i, dir |-> p, name |-> n] /\ ~node[i].dir
         \/ frame' = [pc |-> "rmdir", ino |-> i, dir |-> p, name |-> n] /\ node[i].ents = NoEntries
  BY DEF Parent, Exists, Idle, At, Empty
<1>2. /\ NodesOK /\ Exists(Root) /\ lastIno >= Root
  BY <1>1, Zenon DEF TypeOK, NodesOK, Tidy, RootTidy, At
<1>3. <<p, n>> \in NamesOf(i) /\ i # Root /\ ~Stray(i)
  <2>1. <<p, n>> \in NamesOf(i) /\ i # Root
    BY <1>1, <1>2, OpsAssumption DEF Tidy, EntriesLead, NamesOf, Slots, EntryAt, NodesOK, Ino, Root
  <2> QED BY <2>1 DEF Stray
<1>4. Extra(i) = 0 /\ Owed(i) = 0 /\ Extra(i)' = 1
  <2>1. frame'.pc \in {"unlink", "rmdir"} /\ frame'.ino = i
    BY <1>1
  <2> QED BY <1>1, <2>1 DEF Extra, Owed, At
<1>5. node[i].nlink \in 1..MaxNlink
  <2>1. IsFiniteSet(NamesOf(i)) /\ Cardinality(NamesOf(i)) \in Nat
    BY <1>2, NamesFinite, FS_CardinalityType
  <2>2. Cardinality(NamesOf(i)) # 0
    BY <1>3, <2>1, FS_EmptySet
  <2>3. node[i].nlink \in 0..MaxNlink
    BY <1>1, <1>2 DEF NodesOK, Node
  <2>4. Cardinality(NamesOf(i)) = node[i].nlink
    BY <1>1, <1>3, <1>4, <2>1, <2>3, OpsAssumption DEF Tidy, CountsMatch, Counted
  <2> QED BY <2>2, <2>3, <2>4
<1>6. PICK c \in 0..MaxNlink : c = node[i].nlink - 1
  BY <1>5, OpsAssumption
<1>7. node' = [node EXCEPT ![i].nlink = c]
  <2>1. Dec(node[i].nlink) = c
    BY <1>5, <1>6 DEF Dec
  <2>2. node' = [node EXCEPT ![i] = [node[i] EXCEPT !.nlink = Dec(node[i].nlink)]]
    BY <1>1
  <2> QED BY <2>1, <2>2
<1>8. c + Extra(i)' = node[i].nlink + Extra(i)
  BY <1>4, <1>5, <1>6
<1>9. FrameTidy'
  <2>1. frame'.pc \in {"unlink", "rmdir"} /\ frame'.ino = i /\ frame'.dir = p /\ frame'.name = n
    BY <1>1
  <2>2. /\ DOMAIN node' = DOMAIN node
        /\ \A j \in DOMAIN node : /\ node'[j].ents = node[j].ents
                                  /\ node'[j].dir = node[j].dir
    BY <1>1, <1>2, <1>7, NlinkOK DEF NodesOK
  <2>3. <<p, n>> \in Slots /\ EntryAt(<<p, n>>)' = EntryAt(<<p, n>>) /\ NamesOf(p)' = NamesOf(p)
    BY <1>3, <2>2, SameNames DEF NamesOf
  <2>4. EntryAt(Target)' = i
    BY <1>3, <2>1, <2>3 DEF Target, NamesOf
  <2>5. /\ frame'.pc = "rmdir" => node[i].ents = NoEntries
        /\ frame'.pc = "unlink" => ~node[i].dir
    BY <1>1
  <2>6. /\ frame'.pc = "rmdir" => node'[i].ents = NoEntries
        /\ frame'.pc = "unlink" => ~node'[i].dir
    BY <1>1, <2>2, <2>5
  <2> QED BY <1>1, <1>3, <2>1, <2>2, <2>3, <2>4, <2>5, <2>6 DEF FrameTidy, At
<1>10. frame'.pc \in {"unlink", "rmdir"} /\ frame'.ino = i
  BY <1>1
<1> QED BY <1>1, <1>2, <1>3, <1>7, <1>8, <1>9, <1>10, NlinkTidy

\* link counts the name it gave.
LEMMA CountLinkTidy == ASSUME TypeOK, LinkFits, Tidy, StraysRest, CountLink PROVE Tidy'
<1> PICK i : i = frame.ino
  OBVIOUS
<1>1. /\ i \in DOMAIN node /\ frame.pc = "link" /\ frame'.pc = "idle"
      /\ node' = [node EXCEPT ![i].nlink = @ + 1] /\ lastIno' = lastIno
  BY DEF CountLink, ReplyEntry, Finish, NoFrame, TypeOK, Exists, At
<1>2. NodesOK /\ Exists(Root) /\ lastIno >= Root
  BY <1>1, Zenon DEF TypeOK, NodesOK, Tidy, RootTidy, At
<1>3. i # Root /\ ~Stray(i)
  BY <1>1 DEF Tidy, FrameTidy, Stray, Busy
<1>4. PICK c \in 0..MaxNlink : c = node[i].nlink + 1
  BY <1>1 DEF LinkFits, At
<1>5. node' = [node EXCEPT ![i].nlink = c]
  BY <1>1, <1>4
<1>6. Extra(i)' = 0 /\ Extra(i) = 1
  BY <1>1 DEF Extra
<1>7. c + Extra(i)' = node[i].nlink + Extra(i)
  BY <1>4, <1>6
<1>8. FrameTidy'
  BY <1>1 DEF FrameTidy, At
<1> QED BY <1>1, <1>2, <1>3, <1>5, <1>7, <1>8, NlinkTidy

\* An inode that forget removes has no names and no entries.
LEMMA ForgetTidy ==
  ASSUME TypeOK, Tidy, StraysRest, NEW i \in Ino, Forget(i)
  PROVE  Tidy'
<1> PICK k \in 1..forgets[i] : Forget(i)!(k)
  BY DEF Forget
<1>1. frame.pc = "idle" /\ i \in DOMAIN node /\ UNCHANGED <<frame, lastIno>> /\ ~Stray(i)
  BY DEF Idle, At, Exists, Stray, TypeOK
<1>2. CASE ~Dies(i, k)
  BY <1>1, <1>2, QuietTidy DEF GiveBack
<1>3. CASE Dies(i, k)
  <2>1. node[i].nlink = 0 /\ node' = Restrict(node, DOMAIN node \ {i})
    BY <1>3 DEF Dies, RemoveNode
  <2>2. NodesOK /\ Exists(Root) /\ lastIno >= Root /\ 0 \notin Ino
    <3>1. 0 \notin Ino
      BY OpsAssumption DEF Ino
    <3> QED BY <1>1, <3>1, Zenon DEF TypeOK, NodesOK, Tidy, RootTidy, At
  <2>3. i # Root
    BY <2>1, <2>2 DEF Tidy, RootTidy
  <2>4. \A j : Owed(j) = 0 /\ Extra(j) = 0 /\ Owed(j)' = 0 /\ Extra(j)' = 0
    BY <1>1 DEF Owed, Extra, At
  <2>5. \A j \in DOMAIN node : Cardinality(NamesOf(j)) \in Nat /\ IsFiniteSet(NamesOf(j))
    BY <2>2, NamesFinite, FS_CardinalityType
  <2>6. NamesOf(i) = {}
    <3>1. Cardinality(NamesOf(i)) = 0
      BY <1>1, <2>1, <2>3, <2>4, <2>5 DEF Tidy, CountsMatch, Counted
    <3> QED BY <1>1, <2>5, <3>1, FS_EmptySet
  <2>7. node[i].ents = NoEntries
    BY <1>1, <2>3, <2>6 DEF Tidy, Barren
  <2>8. DOMAIN node' = DOMAIN node \ {i} /\ \A j \in DOMAIN node' : node'[j] = node[j]
    BY <2>1 DEF Restrict
  <2>9. \A j : j # 0 => NamesOf(j)' = NamesOf(j)
    BY <1>1, <2>7, <2>8, BarrenNames DEF Exists
  <2>10. \A e \in Slots' : e \in Slots /\ EntryAt(e)' = EntryAt(e)
    BY <2>8 DEF Slots, EntryAt
  <2>11. CountsMatch'
    <3> SUFFICES ASSUME NEW j \in DOMAIN node', j # Root PROVE Stray(j)' \/ Counted(j)'
      BY DEF CountsMatch
    <3>1. j # 0 /\ j \in DOMAIN node
      BY <2>2, <2>8 DEF NodesOK
    <3>2. CASE Stray(j)
      BY <1>1, <2>9, <3>1, <3>2 DEF StraysRest, Stray, Busy
    <3>3. CASE Counted(j)
      BY <2>4, <2>8, <2>9, <3>1, <3>3 DEF Counted
    <3> QED BY <3>1, <3>2, <3>3 DEF Tidy, CountsMatch
  <2>12. EntriesLead'
    BY <2>6, <2>8, <2>10 DEF Tidy, EntriesLead, NamesOf
  <2>13. Barren'
    BY <2>2, <2>8, <2>9 DEF Tidy, Barren, NodesOK
  <2>14. Ups'
    BY <2>2, <2>8, <2>9 DEF Tidy, Ups, NodesOK
  <2>15. RootTidy'
    BY <1>1, <2>2, <2>3, <2>8 DEF Tidy, RootTidy, Exists, At
  <2>16. FrameTidy'
    BY <1>1 DEF FrameTidy, At
  <2> QED BY <2>11, <2>12, <2>13, <2>14, <2>15, <2>16 DEF Tidy
<1> QED BY <1>2, <1>3

\* Mounting an existing file system finds its greatest inode number.
LEMMA MountTidy == ASSUME TypeOK, Tidy, StraysRest, MountExisting PROVE Tidy'
<1>1. /\ frame.pc = "down" /\ frame'.pc = "idle" /\ UNCHANGED node
      /\ Root \in DOMAIN node /\ lastIno' = Max(DOMAIN node)
  BY DEF MountExisting, At, Finish, NoFrame, Exists
<1>2. DOMAIN node \in SUBSET (1..MaxIno)
  BY DEF TypeOK, Ino
<1>3. Max(DOMAIN node) >= Root
  <2>1. Max(DOMAIN node) \in DOMAIN node
    BY <1>1, <1>2, MaxIn, OpsAssumption
  <2> QED BY <1>2, <2>1, OpsAssumption DEF Root
<1> QED BY <1>1, <1>3, QuietTidy DEF Exists

\* No step gives the kernel a stray inode.
LEMMA StraysStep == ASSUME TypeOK, [Next]_vars PROVE StraysRest
<1> SUFFICES ASSUME NEW j \in DOMAIN node, Stray(j)
             PROVE  kills' > 0 /\ known'[j] = 0 /\ forgets'[j] = 0
  BY DEF StraysRest
<1>0. /\ j \in Ino /\ kills \in Nat /\ kills > 0 /\ known \in Counts /\ forgets \in Counts
      /\ known[j] = 0 /\ forgets[j] = 0 /\ NamesOf(j) = {}
      /\ frame.pc \in Busy => j # frame.ino
  BY DEF Stray, TypeOK, Counts
<1>1. CASE Lookup
  <2> PICK p \in Ino, n \in Names : Lookup!(p, n)
    BY <1>1 DEF Lookup
  <2>1. <<p, n>> \in NamesOf(node[p].ents[n])
    BY DEF NamesOf, Slots, EntryAt, Parent, Exists
  <2>2. node[p].ents[n] # j
    BY <1>0, <2>1
  <2> QED BY <1>0, <2>2 DEF Refer, deaths, Counts
<1>2. CASE \E i \in Ino : KernelForget(i) \/ Forget(i)
  <2> PICK i \in Ino : KernelForget(i) \/ Forget(i)
    BY <1>2
  <2>1. i # j
    BY <1>0 DEF KernelForget, Forget, Counts
  <2>2. UNCHANGED kills
    BY DEF KernelForget, Forget, deaths
  <2>3. known'[j] = known[j] /\ forgets'[j] = forgets[j]
    BY <1>0, <2>1 DEF KernelForget, Forget, Counts
  <2> QED BY <1>0, <2>2, <2>3
<1>3. CASE NameMade \/ CountLink
  <2>1. frame.ino # j
    BY <1>0, <1>3 DEF NameMade, CountLink, At, Busy
  <2> QED BY <1>0, <1>3, <2>1 DEF NameMade, CountLink, ReplyEntry, Refer, deaths, Counts
<1>4. CASE Kill \/ Segv
  BY <1>0, <1>4 DEF Kill, Segv, Vanish, NoCounts, deaths
<1>5. CASE UNCHANGED <<kills, known, forgets>>
  BY <1>0, <1>5
<1>6. CASE Mount \/ LookupFails \/ Make \/ Unlink \/ Rmdir \/ Link \/ DropEntry \/ UNCHANGED vars
  <2>1. UNCHANGED <<kernelVars, deaths>>
    BY <1>6, Zenon DEF Mount, MountExisting, MakeRoot, LookupFails, Make, Unlink, Rmdir, Link,
       DropEntry, vars
  <2> QED BY <1>5, <2>1 DEF kernelVars, deaths
<1> QED BY <1>1, <1>2, <1>3, <1>4, <1>6 DEF Next, Step, Ask

\* A kill in mknod or mkdir leaves a stray inode.
LEMMA KillTidy ==
  ASSUME TypeOK, Tidy, StraysRest, Kill, cuts' = 0, cuts = 0
  PROVE  Tidy'
<1>1. UNCHANGED node /\ frame'.pc = "down" /\ kills' > 0 /\ frame.pc \in PCs \ {"down"}
  BY OpsAssumption DEF Kill, Vanish, NoFrame, TypeOK
<1>2. frame.pc \notin {"unlink", "rmdir", "link"}
  BY DEF Kill
<1>3. CASE frame.pc # "make"
  <2>1. frame.pc = "idle"
    BY <1>1, <1>2, <1>3 DEF PCs
  <2> QED BY <1>1, <2>1, QuietTidy
<1>4. CASE frame.pc = "make"
  <2>1. Slots' = Slots /\ (\A e : EntryAt(e)' = EntryAt(e)) /\ (\A j : NamesOf(j)' = NamesOf(j))
    BY <1>1 DEF Slots, EntryAt, NamesOf
  <2>2. CountsMatch'
    <3> SUFFICES ASSUME NEW j \in DOMAIN node, j # Root PROVE Stray(j)' \/ Counted(j)'
      BY <1>1 DEF CountsMatch
    <3>1. CASE j = frame.ino
      <4>1. j \in Ino /\ NamesOf(j) = {}
        BY <1>4, <3>1 DEF Tidy, FrameTidy, At, TypeOK
      <4> QED BY <1>1, <2>1, <4>1 DEF Kill, Vanish, NoCounts, Stray, Busy
    <3>2. CASE Stray(j)
      BY <1>1, <2>1, <3>2 DEF StraysRest, Stray, Busy
    <3>3. CASE Counted(j) /\ j # frame.ino
      BY <1>1, <1>4, <2>1, <3>3 DEF Counted, Owed, Extra, At
    <3> QED BY <3>1, <3>2, <3>3 DEF Tidy, CountsMatch
  <2>3. EntriesLead' /\ Barren' /\ Ups'
    BY <1>1, <2>1 DEF Tidy, EntriesLead, Barren, Ups
  <2>4. RootTidy' /\ FrameTidy'
    BY <1>1 DEF Tidy, RootTidy, FrameTidy, Exists, At
  <2> QED BY <2>2, <2>3, <2>4 DEF Tidy
<1> QED BY <1>3, <1>4

\* What forget and the names rely on survives every step, except a kill that
\* cuts unlink, rmdir or link in two.
LEMMA TidyStep ==
  ASSUME Inv, cuts = 0 => Tidy, [Next]_vars, cuts' = 0
  PROVE  Tidy'
<1>0. TypeOK /\ LinkFits /\ StraysRest /\ cuts = 0
  <2>1. TypeOK /\ LinkFits /\ cuts \in Nat
    BY DEF Inv, TypeOK
  <2>2. StraysRest
    BY <2>1, StraysStep
  <2>3. cuts' = cuts \/ cuts' = cuts + 1
    <3>1. CASE Kill \/ Segv
      BY <3>1 DEF Kill, Segv, deaths
    <3>2. CASE \E i \in Ino : KernelForget(i) \/ Forget(i)
      BY <3>2 DEF KernelForget, Forget, deaths
    <3>3. CASE Mount \/ Step \/ Ask \/ UNCHANGED vars
      <4>1. UNCHANGED deaths
        BY <3>3, Zenon DEF Mount, MountExisting, MakeRoot, LookupFails, Make, Unlink, Rmdir, Link,
           DropEntry, NameMade, CountLink, Lookup, Step, Ask, vars
      <4> QED BY <4>1 DEF deaths
    <3> QED BY <3>1, <3>2, <3>3 DEF Next
  <2> QED BY <2>1, <2>2, <2>3
<1>1. ASSUME Lookup \/ LookupFails \/ (\E i \in Ino : KernelForget(i)) \/ UNCHANGED vars
      PROVE  Tidy'
  <2>1. UNCHANGED <<node, frame, lastIno>>
    BY <1>1, Zenon DEF Lookup, LookupFails, KernelForget, vars
  <2> QED BY <1>0, <2>1, QuietTidy
<1>2. ASSUME Mount PROVE Tidy'
  BY <1>0, <1>2, MountTidy, MakeRootTidy DEF Mount
<1>3. ASSUME Step PROVE Tidy'
  BY <1>0, <1>3, NameMadeTidy, DropEntryTidy, CountLinkTidy DEF Step
<1>4. ASSUME Make \/ Unlink \/ Rmdir \/ Link PROVE Tidy'
  BY <1>0, <1>4, MakeTidy, UnlinkTidy, LinkTidy
<1>5. ASSUME NEW i \in Ino, Forget(i) PROVE Tidy'
  BY <1>0, <1>5, ForgetTidy
<1>6. ASSUME Kill PROVE Tidy'
  BY <1>0, <1>6, KillTidy
<1>7. ASSUME Segv PROVE Tidy'
  <2>1. frame.pc = "idle" /\ UNCHANGED node /\ frame'.pc = "down"
    BY <1>7 DEF Segv, Vanish, NoFrame, Idle, At
  <2> QED BY <1>0, <2>1, QuietTidy
<1> QED BY <1>1, <1>2, <1>3, <1>4, <1>5, <1>6, <1>7 DEF Next, Ask

\* Nothing is there at first.
LEMMA InitTidy == Init => Tidy
<1> SUFFICES ASSUME Init PROVE Tidy
  OBVIOUS
<1>1. DOMAIN node = {} /\ Slots = {} /\ frame.pc = "down"
  BY DEF Init, Slots, NoFrame
<1> QED BY <1>1 DEF Tidy, CountsMatch, EntriesLead, Barren, Ups, RootTidy, FrameTidy, At, Exists

\* Tidy holds until a kill cuts unlink, rmdir or link in two.
LEMMA TidyInvariance == Spec => [](Inv /\ (cuts = 0 => Tidy))
<1>1. Init => Inv /\ (cuts = 0 => Tidy)
  BY InitInv, InitTidy
<1>2. Inv /\ (cuts = 0 => Tidy) /\ [Next]_vars => (Inv /\ (cuts = 0 => Tidy))'
  BY TidyStep, TypeStep, FitsStep, ServedStep DEF Inv
<1> QED BY <1>1, <1>2, PTL DEF Spec

\* Every inode has as many names as its st_nlink says whenever no handler is
\* under way, after any sequence of mknod, mkdir, link, unlink, rmdir, forget
\* and restart, wherever the mount is killed, up to the first kill between the
\* two uploads of unlink, rmdir or link; but for what a killed mknod left.
THEOREM LinksMatchAlways == Spec => []LinksMatch
<1>1. Inv /\ (cuts = 0 => Tidy) => LinksMatch
  <2> SUFFICES ASSUME Inv, Tidy, At("idle") \/ At("down"), NEW i \in DOMAIN node \ {Root}
               PROVE  \/ node[i].nlink = Cardinality(NamesOf(i))
                      \/ kills > 0 /\ NamesOf(i) = {} /\ known[i] + forgets[i] = 0
    BY DEF LinksMatch
  <2>1. NodesOK
    BY Zenon DEF Inv, TypeOK, NodesOK
  <2>2. Owed(i) = 0 /\ Extra(i) = 0
    BY DEF Owed, Extra, At
  <2>3. Cardinality(NamesOf(i)) \in Nat /\ node[i].nlink \in Nat
    BY <2>1, NamesFinite, FS_CardinalityType, OpsAssumption DEF NodesOK, Node
  <2>4. CASE Stray(i)
    BY <2>4 DEF Stray
  <2>5. CASE Counted(i)
    BY <2>2, <2>3, <2>5 DEF Counted
  <2> QED BY <2>4, <2>5 DEF Tidy, CountsMatch
<1> QED BY <1>1, TidyInvariance, PTL

\* The mount never has an entry or a ".." that leads to a removed inode, on
\* which lookup and readdir would fail, wherever it is killed, up to the first
\* kill between the two uploads of unlink, rmdir or link.
THEOREM NoDanglingAlways == Spec => []NoDanglingEntries
<1>1. Inv /\ (cuts = 0 => Tidy) => NoDanglingEntries
  <2> SUFFICES ASSUME Tidy
               PROVE  /\ Dangling = {}
                      /\ \A d \in DOMAIN node :
                           node[d].dir /\ (d = Root \/ NamesOf(d) # {}) => Exists(node[d].up)
    BY DEF NoDanglingEntries
  <2>1. Dangling = {}
    BY DEF Tidy, EntriesLead, Dangling, Exists
  <2>2. ASSUME NEW d \in DOMAIN node, node[d].dir, d = Root \/ NamesOf(d) # {}
        PROVE  Exists(node[d].up)
    <3>1. CASE d = Root
      BY <2>2, <3>1 DEF Tidy, RootTidy, Exists
    <3>2. CASE NamesOf(d) # {}
      <4>1. PICK e \in Slots : e \in NamesOf(d)
        BY <3>2 DEF NamesOf
      <4>2. node[d].up = e[1] /\ e[1] \in DOMAIN node
        BY <2>2, <4>1 DEF Tidy, Ups, Slots
      <4> QED BY <4>2 DEF Exists
    <3> QED BY <2>2, <3>1, <3>2
  <2> QED BY <2>1, <2>2
<1> QED BY <1>1, TidyInvariance, PTL

-----------------------------------------------------------------------------
(* Leaks, up to the first kill.                                            *)

\* nlookup counts what the kernel counts; what unlink and rmdir take the name
\* from is in use; and what has no name is in use, or mknod is about to name it.
Kept ==
    /\ cuts = 0
    /\ At("down") => DOMAIN node = {}
    /\ \A i \in Ino \ {Root} : nlookup[i] = known[i] + forgets[i]
    /\ frame.pc \in {"unlink", "rmdir"} => known[frame.ino] > 0
    /\ \A i \in DOMAIN node \ {Root} :
          NamesOf(i) # {} \/ known[i] + forgets[i] > 0 \/ Owed(i) = 1

\* Counts of lookups are numbers.
LEMMA CountFacts ==
  ASSUME TypeOK
  PROVE  /\ nlookup \in Counts /\ known \in Counts /\ forgets \in Counts
         /\ \A i \in Ino : nlookup[i] \in Nat /\ known[i] \in Nat /\ forgets[i] \in Nat
         /\ NodesOK /\ 0 \notin Ino
<1>1. 0 \notin Ino
  BY OpsAssumption DEF Ino
<1>2. nlookup \in Counts /\ known \in Counts /\ forgets \in Counts /\ NodesOK
  BY Zenon DEF TypeOK, Counts, NodesOK
<1> QED BY <1>1, <1>2 DEF Counts

\* A step that takes no name from a node, and counts no lookup or one that the
\* kernel counts, too.
LEMMA QuietKept ==
  ASSUME TypeOK, Kept, cuts' = 0, frame'.pc # "down",
         \A j \in Ino : NamesOf(j) # {} => NamesOf(j)' # {},
         DOMAIN node' = DOMAIN node,
         \A j \in Ino \ {Root} : /\ nlookup'[j] - nlookup[j] = known'[j] + forgets'[j] - known[j] - forgets[j]
                                 /\ nlookup'[j] \in Nat /\ nlookup'[j] >= nlookup[j]
                                 /\ known'[j] \in Nat /\ forgets'[j] \in Nat,
         frame'.pc \in {"unlink", "rmdir"} => known'[frame'.ino] > 0,
         \A j \in Ino : Owed(j) = 1 => Owed(j)' = 1 \/ NamesOf(j)' # {}
  PROVE  Kept'
<1>1. DOMAIN node \subseteq Ino
  BY DEF TypeOK
<1>2. ASSUME NEW j \in Ino \ {Root}
      PROVE  nlookup'[j] = known'[j] + forgets'[j] /\ known'[j] + forgets'[j] >= known[j] + forgets[j]
  <2>1. nlookup[j] \in Nat /\ known[j] \in Nat /\ forgets[j] \in Nat
    BY CountFacts
  <2>2. nlookup[j] = known[j] + forgets[j]
    BY DEF Kept
  <2>3. /\ nlookup'[j] - nlookup[j] = known'[j] + forgets'[j] - known[j] - forgets[j]
        /\ nlookup'[j] \in Nat /\ nlookup'[j] >= nlookup[j]
        /\ known'[j] \in Nat /\ forgets'[j] \in Nat
    OBVIOUS
  <2> QED BY <2>1, <2>2, <2>3
<1>3. ASSUME NEW j \in DOMAIN node, j # Root
      PROVE  NamesOf(j)' # {} \/ known'[j] + forgets'[j] > 0 \/ Owed(j)' = 1
  <2>1. CASE NamesOf(j) # {}
    BY <1>1, <1>3, <2>1
  <2>2. CASE known[j] + forgets[j] > 0
    <3>1. /\ known'[j] + forgets'[j] >= known[j] + forgets[j]
          /\ known[j] + forgets[j] \in Nat /\ known'[j] + forgets'[j] \in Nat
      BY <1>1, <1>2, <1>3, CountFacts
    <3> QED BY <2>2, <3>1
  <2>3. CASE Owed(j) = 1
    BY <1>1, <1>3, <2>3
  <2> QED BY <1>3, <2>1, <2>2, <2>3 DEF Kept
<1>4. ~At("down")'
  BY DEF At
<1> QED BY <1>2, <1>3, <1>4 DEF Kept

\* Requests and handlers that take no name.
LEMMA LookupKept == ASSUME TypeOK, Tidy, Kept, cuts' = 0, Lookup PROVE Kept'
<1> PICK p \in Ino, n \in Names : Lookup!(p, n)
  BY DEF Lookup
<1> PICK i : i = node[p].ents[n]
  OBVIOUS
<1>1. /\ i \in DOMAIN node /\ UNCHANGED <<node, forgets, frame>> /\ frame.pc = "idle"
      /\ nlookup' = [nlookup EXCEPT ![i] = @ + 1] /\ known' = [known EXCEPT ![i] = @ + 1]
  BY DEF Refer, Exists, Idle, At
<1>2. i \in Ino
  BY <1>1 DEF TypeOK
<1>3. \A j : NamesOf(j)' = NamesOf(j)
  BY <1>1 DEF NamesOf, Slots, EntryAt
<1>4. \A j \in Ino : /\ nlookup'[j] - nlookup[j] = known'[j] + forgets'[j] - known[j] - forgets[j]
                     /\ nlookup'[j] \in Nat /\ nlookup'[j] >= nlookup[j]
                     /\ known'[j] \in Nat /\ forgets'[j] \in Nat
  BY <1>1, <1>2, CountFacts DEF Counts
<1>5. \A j \in Ino : Owed(j) = 0
  BY <1>1 DEF Owed, At
<1> QED BY <1>1, <1>3, <1>4, <1>5, QuietKept

LEMMA KernelForgetKept ==
  ASSUME TypeOK, Tidy, Kept, cuts' = 0, NEW i \in Ino, KernelForget(i)
  PROVE  Kept'
<1>1. /\ UNCHANGED <<node, nlookup, frame>>
      /\ frame.pc = "idle" \/ i # frame.ino
      /\ known' = [known EXCEPT ![i] = 0] /\ forgets' = [forgets EXCEPT ![i] = @ + known[i]]
  BY DEF KernelForget, Idle, At
<1>2. \A j \in Ino : known'[j] + forgets'[j] = known[j] + forgets[j]
  BY <1>1, CountFacts DEF Counts
<1>3. \A j : NamesOf(j)' = NamesOf(j) /\ Owed(j)' = Owed(j)
  BY <1>1 DEF NamesOf, Slots, EntryAt, Owed, At
<1>4. frame.pc \in {"unlink", "rmdir"} => known'[frame.ino] = known[frame.ino]
  <2>1. frame.ino \in Ino
    BY DEF TypeOK
  <2> QED BY <1>1, <2>1, CountFacts DEF Counts
<1>5. DOMAIN node \subseteq Ino
  BY DEF TypeOK
<1> QED BY <1>1, <1>2, <1>3, <1>4, <1>5 DEF Kept, At

\* Only the link count changes, and in the reply of link one lookup.
LEMMA NlinkKept ==
  ASSUME TypeOK, LinkFits, Tidy, Kept, cuts' = 0, Unlink \/ Rmdir \/ CountLink
  PROVE  Kept'
<1>1. CASE Unlink \/ Rmdir
  <2> PICK p \in Ino, n \in Names : Unlink!(p, n) \/ Rmdir!(p, n)
    BY <1>1 DEF Unlink, Rmdir
  <2> PICK i : i = node[p].ents[n]
    OBVIOUS
  <2>1. /\ i \in DOMAIN node /\ known[i] > 0 /\ node' = [node EXCEPT ![i].nlink = Dec(@)]
        /\ frame'.ino = i /\ frame'.pc \in {"unlink", "rmdir"} /\ frame.pc = "idle"
        /\ UNCHANGED <<nlookup, known, forgets>>
    BY DEF Exists, kernelVars, Idle, At
  <2>2. Dec(node[i].nlink) \in 0..MaxNlink /\ NodesOK
    BY <2>1, DecOK, CountFacts DEF NodesOK, Node
  <2>3. \A j : NamesOf(j)' = NamesOf(j)
    BY <2>1, <2>2, NlinkOK, SameNames DEF NodesOK
  <2>4. \A j \in Ino : Owed(j) = 0
    BY <2>1 DEF Owed, At
  <2>5. DOMAIN node' = DOMAIN node
    BY <2>1
  <2> QED BY <2>1, <2>3, <2>4, <2>5, CountFacts, QuietKept
<1>2. CASE CountLink
  <2> PICK i : i = frame.ino
    OBVIOUS
  <2>1. /\ i \in DOMAIN node /\ i \in Ino /\ node' = [node EXCEPT ![i].nlink = @ + 1]
        /\ nlookup' = [nlookup EXCEPT ![i] = @ + 1] /\ known' = [known EXCEPT ![i] = @ + 1]
        /\ frame'.pc = "idle" /\ frame.pc = "link" /\ UNCHANGED forgets
    BY <1>2 DEF CountLink, ReplyEntry, Refer, Finish, NoFrame, TypeOK, Exists, At
  <2>2. node[i].nlink + 1 \in 0..MaxNlink /\ NodesOK
    BY <2>1, CountFacts DEF LinkFits, At
  <2>3. \A j : NamesOf(j)' = NamesOf(j)
    BY <2>1, <2>2, NlinkOK, SameNames DEF NodesOK
  <2>4. \A j \in Ino : Owed(j) = 0
    BY <2>1 DEF Owed, At
  <2>5. \A j \in Ino : /\ nlookup'[j] - nlookup[j] = known'[j] + forgets'[j] - known[j] - forgets[j]
                       /\ nlookup'[j] \in Nat /\ nlookup'[j] >= nlookup[j]
                       /\ known'[j] \in Nat /\ forgets'[j] \in Nat
    BY <2>1, CountFacts DEF Counts
  <2>6. DOMAIN node' = DOMAIN node
    BY <2>1
  <2> QED BY <2>1, <2>3, <2>4, <2>5, <2>6, QuietKept
<1> QED BY <1>1, <1>2

\* link adds a name, and so does the second half of mknod and mkdir, whose inode
\* it is.
LEMMA NamedKept ==
  ASSUME TypeOK, Tidy, Kept, cuts' = 0, Link \/ NameMade
  PROVE  Kept'
<1>1. CASE Link
  <2> PICK p \in Ino, n \in Names, i \in DOMAIN node : Link!(p, n, i)
    BY <1>1 DEF Link
  <2>1. /\ p \in DOMAIN node /\ frame'.pc = "link" /\ frame.pc = "idle" /\ EntryAt(<<p, n>>) = 0
        /\ UNCHANGED <<nlookup, known, forgets>>
    BY DEF Parent, Exists, kernelVars, EntryAt, Idle, At
  <2>2. /\ DOMAIN node' = DOMAIN node
        /\ \A j : NamesOf(j)' = (NamesOf(j) \ {<<p, n>>}) \cup (IF j = i THEN {<<p, n>>} ELSE {})
    BY <2>1, CountFacts, EntryNames
  <2>3. \A j \in Ino : <<p, n>> \notin NamesOf(j)
    BY <2>1, CountFacts DEF NamesOf
  <2>4. \A j \in Ino : NamesOf(j) # {} => NamesOf(j)' # {}
    BY <2>2, <2>3
  <2>5. \A j \in Ino : Owed(j) = 0
    BY <2>1 DEF Owed, At
  <2> QED BY <2>1, <2>2, <2>4, <2>5, CountFacts, QuietKept
<1>2. CASE NameMade
  <2> PICK i, p, n : i = frame.ino /\ p = frame.dir /\ n = frame.name
    OBVIOUS
  <2>1. /\ i \in Ino /\ p \in DOMAIN node /\ n \in Names /\ frame.pc = "make" /\ frame'.pc = "idle"
        /\ SetEntry(p, n, i) /\ UNCHANGED forgets
        /\ nlookup' = [nlookup EXCEPT ![i] = @ + 1] /\ known' = [known EXCEPT ![i] = @ + 1]
    BY <1>2 DEF NameMade, ReplyEntry, Refer, Finish, NoFrame, TypeOK, Exists, At
  <2>2. EntryAt(<<p, n>>) = 0
    BY <2>1 DEF Tidy, FrameTidy, Target, At
  <2>3. /\ DOMAIN node' = DOMAIN node
        /\ \A j : NamesOf(j)' = (NamesOf(j) \ {<<p, n>>}) \cup (IF j = i THEN {<<p, n>>} ELSE {})
    <3>1. i \in DOMAIN node /\ i # Root /\ node[p].dir
      BY <2>1 DEF Tidy, FrameTidy, TypeOK, Exists
    <3>2. /\ NodesOK /\ Slots' = Slots /\ DOMAIN node' = DOMAIN node
          /\ <<p, n>> \in Slots /\ EntryAt(<<p, n>>)' = i
          /\ \A j \in DOMAIN node : /\ node'[j].dir = node[j].dir /\ node'[j].up = node[j].up
                                    /\ node'[j].nlink = node[j].nlink
                                    /\ j # p => node'[j].ents = node[j].ents
          /\ \A j : NamesOf(j)' = (NamesOf(j) \ {<<p, n>>}) \cup (IF j = i THEN {<<p, n>>} ELSE {})
          /\ EntriesLead'
      BY <2>1, <3>1, EntryTidy
    <3> QED BY <3>2
  <2>4. \A j \in Ino : <<p, n>> \notin NamesOf(j)
    BY <2>2, CountFacts DEF NamesOf
  <2>5. /\ \A j \in Ino : NamesOf(j) # {} => NamesOf(j)' # {}
        /\ NamesOf(i)' # {}
    BY <2>3, <2>4
  <2>6. \A j \in Ino : Owed(j) = 1 => NamesOf(j)' # {}
    BY <2>5 DEF Owed
  <2>7. \A j \in Ino : /\ nlookup'[j] - nlookup[j] = known'[j] + forgets'[j] - known[j] - forgets[j]
                       /\ nlookup'[j] \in Nat /\ nlookup'[j] >= nlookup[j]
                       /\ known'[j] \in Nat /\ forgets'[j] \in Nat
    BY <2>1, CountFacts DEF Counts
  <2> QED BY <2>1, <2>3, <2>5, <2>6, <2>7, QuietKept
<1> QED BY <1>1, <1>2

\* unlink and rmdir take a name from an inode that the kernel still refers to.
LEMMA DropEntryKept ==
  ASSUME TypeOK, Tidy, Kept, cuts' = 0, DropEntry
  PROVE  Kept'
<1> PICK i, p, n : i = frame.ino /\ p = frame.dir /\ n = frame.name
  OBVIOUS
<1>1. /\ i \in Ino /\ p \in DOMAIN node /\ n \in Names /\ SetEntry(p, n, 0)
      /\ frame.pc \in {"unlink", "rmdir"} /\ frame'.pc = "idle"
      /\ UNCHANGED <<nlookup, known, forgets>>
  BY DEF DropEntry, Finish, NoFrame, TypeOK, Exists, At, kernelVars
<1>2. EntryAt(<<p, n>>) = i /\ known[i] > 0
  BY <1>1 DEF Tidy, FrameTidy, Target, Kept
<1>3. /\ DOMAIN node' = DOMAIN node /\ DOMAIN node \subseteq Ino
      /\ \A j : NamesOf(j)' = (NamesOf(j) \ {<<p, n>>}) \cup (IF j = 0 THEN {<<p, n>>} ELSE {})
  <2>1. i \in DOMAIN node /\ i # Root /\ node[p].dir /\ DOMAIN node \subseteq Ino
    BY <1>1 DEF Tidy, FrameTidy, TypeOK, Exists
  <2>2. /\ NodesOK /\ Slots' = Slots /\ DOMAIN node' = DOMAIN node
        /\ <<p, n>> \in Slots /\ EntryAt(<<p, n>>)' = 0
        /\ \A j \in DOMAIN node : /\ node'[j].dir = node[j].dir /\ node'[j].up = node[j].up
                                  /\ node'[j].nlink = node[j].nlink
                                  /\ j # p => node'[j].ents = node[j].ents
        /\ \A j : NamesOf(j)' = (NamesOf(j) \ {<<p, n>>}) \cup (IF j = 0 THEN {<<p, n>>} ELSE {})
        /\ EntriesLead'
    BY <1>1, <2>1, EntryTidy
  <2> QED BY <2>1, <2>2
<1>4. \A j \in Ino : j # i => NamesOf(j)' = NamesOf(j)
  BY <1>2, <1>3, CountFacts DEF NamesOf
<1>5. \A j \in Ino : Owed(j) = 0
  BY <1>1 DEF Owed, At
<1>6. known[i] + forgets[i] > 0
  BY <1>1, <1>2, CountFacts
<1>7. \A j \in DOMAIN node \ {Root} :
        NamesOf(j)' # {} \/ known'[j] + forgets'[j] > 0
  BY <1>1, <1>3, <1>4, <1>5, <1>6 DEF Kept
<1> QED BY <1>1, <1>3, <1>7 DEF Kept, At

\* The root is made before anything else; mknod and mkdir make what they name.
LEMMA MakeKept ==
  ASSUME TypeOK, Tidy, Kept, cuts' = 0, MakeRoot \/ Make
  PROVE  Kept'
<1>0. /\ \A j \in Ino : nlookup[j] \in Nat /\ known[j] \in Nat /\ forgets[j] \in Nat
      /\ nlookup \in Counts /\ DOMAIN node \subseteq Ino /\ 0 \notin Ino
  BY CountFacts DEF TypeOK
<1>1. CASE MakeRoot
  <2>1. /\ DOMAIN node' = {Root} /\ frame'.pc = "idle" /\ UNCHANGED <<known, forgets>>
        /\ nlookup' = [nlookup EXCEPT ![Root] = 1]
    BY <1>1 DEF MakeRoot, AddNode, Kept, Finish, NoFrame, kernelVars
  <2>2. \A j \in Ino \ {Root} : nlookup'[j] = nlookup[j]
    BY <1>0, <2>1 DEF Counts
  <2> QED BY <2>1, <2>2 DEF Kept, At
<1>2. CASE Make
  <2> PICK p \in Ino, n \in Names, d \in BOOLEAN : Make!(p, n, d)
    BY <1>2 DEF Make
  <2> PICK i \in Ino : i = Min(NewInos)
    BY NewIno
  <2>1. ~Exists(i)
    BY NewIno
  <2>2. /\ AddNode(i, NewNode(d, p)) /\ UNCHANGED <<nlookup, known, forgets>>
        /\ frame' = [pc |-> "make", ino |-> i, dir |-> p, name |-> n] /\ frame.pc = "idle"
    BY DEF Idle, At, kernelVars
  <2>3. \A j : j # 0 => NamesOf(j)' = NamesOf(j)
    BY <2>1, <2>2, NewTidy
  <2>4. DOMAIN node' = DOMAIN node \cup {i}
    BY <2>2 DEF AddNode
  <2>5. frame'.pc = "make" /\ frame'.ino = i
    BY <2>2
  <2>6. Owed(i)' = 1
    BY <2>5 DEF Owed, At
  <2>7. \A j : Owed(j) = 0
    BY <2>2 DEF Owed, At
  <2>8. \A j \in DOMAIN node' \ {Root} :
           NamesOf(j)' # {} \/ known'[j] + forgets'[j] > 0 \/ Owed(j)' = 1
    BY <1>0, <2>2, <2>3, <2>4, <2>6, <2>7 DEF Kept
  <2> QED BY <2>2, <2>5, <2>8 DEF Kept, At
<1> QED BY <1>1, <1>2

\* forget removes what has no link and no other lookup, and leaves no inode
\* without a name that it has taken the last lookup from.
LEMMA ForgetKept ==
  ASSUME TypeOK, KernelIsServed, Tidy, Kept, kills = 0, cuts' = 0, NEW i \in Ino, Forget(i)
  PROVE  Kept'
<1> PICK k \in 1..forgets[i] : Forget(i)!(k)
  BY DEF Forget
<1>0. /\ \A j \in Ino : nlookup[j] \in Nat /\ known[j] \in Nat /\ forgets[j] \in Nat
      /\ nlookup \in Counts /\ forgets \in Counts /\ DOMAIN node \subseteq Ino /\ 0 \notin Ino
      /\ NodesOK
  BY CountFacts DEF TypeOK
<1>1. /\ frame.pc = "idle" /\ i \in DOMAIN node /\ UNCHANGED <<frame, known>>
      /\ forgets' = [forgets EXCEPT ![i] = @ - k]
  BY DEF Idle, At, Exists
<1>2. /\ \A j \in Ino : j # i => forgets'[j] = forgets[j]
      /\ forgets'[i] = forgets[i] - k /\ k >= 1 /\ k <= forgets[i] /\ k \in Nat
  BY <1>0, <1>1 DEF Counts
<1>3. \A j : Owed(j) = 0 /\ Extra(j) = 0
  BY <1>1 DEF Owed, Extra, At
<1>4. known[i] + forgets[i] <= nlookup[i]
  BY <1>0, <1>2 DEF KernelIsServed
<1>5. CASE Dies(i, k)
  <2>1. /\ node[i].nlink = 0 /\ nlookup[i] <= k /\ node' = Restrict(node, DOMAIN node \ {i})
        /\ nlookup' = [nlookup EXCEPT ![i] = 0]
    BY <1>5 DEF Dies, RemoveNode
  <2>2. i # Root
    BY <1>1, <2>1 DEF Tidy, RootTidy, Exists
  <2>3. NamesOf(i) = {}
    <3>1. Cardinality(NamesOf(i)) \in Nat /\ IsFiniteSet(NamesOf(i))
      BY <1>0, NamesFinite, FS_CardinalityType
    <3>2. Cardinality(NamesOf(i)) = 0
      BY <1>1, <1>3, <2>1, <2>2, <3>1 DEF Tidy, CountsMatch, Counted, Stray
    <3> QED BY <3>1, <3>2, FS_EmptySet
  <2>4. node[i].ents = NoEntries
    BY <1>1, <2>2, <2>3 DEF Tidy, Barren
  <2>5. DOMAIN node' = DOMAIN node \ {i} /\ \A j \in DOMAIN node' : node'[j] = node[j]
    BY <2>1 DEF Restrict
  <2>6. \A j : j # 0 => NamesOf(j)' = NamesOf(j)
    BY <1>1, <2>4, <2>5, BarrenNames DEF Exists
  <2>7. nlookup'[i] = known'[i] + forgets'[i] /\ \A j \in Ino : j # i => nlookup'[j] = nlookup[j]
    <3>1. nlookup'[i] = 0 /\ \A j \in Ino : j # i => nlookup'[j] = nlookup[j]
      BY <1>0, <2>1 DEF Counts
    <3>2. nlookup[i] \in Nat /\ known[i] \in Nat /\ forgets[i] \in Nat
      BY <1>0
    <3>3. known[i] = 0 /\ forgets[i] - k = 0
      BY <1>2, <1>4, <2>1, <3>2
    <3> QED BY <1>1, <1>2, <3>1, <3>3
  <2>8. \A j \in DOMAIN node' \ {Root} : NamesOf(j)' # {} \/ known'[j] + forgets'[j] > 0
    <3> SUFFICES ASSUME NEW j \in DOMAIN node', j # Root
                 PROVE  NamesOf(j)' # {} \/ known'[j] + forgets'[j] > 0
      OBVIOUS
    <3>1. j \in DOMAIN node /\ j \in Ino /\ j # i /\ j # 0
      BY <1>0, <2>5
    <3>2. NamesOf(j)' = NamesOf(j) /\ known'[j] = known[j] /\ forgets'[j] = forgets[j]
      BY <1>1, <1>2, <2>6, <3>1
    <3>3. NamesOf(j) # {} \/ known[j] + forgets[j] > 0
      BY <1>3, <3>1 DEF Kept
    <3> QED BY <3>2, <3>3
  <2> QED BY <1>1, <1>2, <2>7, <2>8 DEF Kept, At
<1>6. CASE ~Dies(i, k)
  <2>1. UNCHANGED node /\ nlookup' = [nlookup EXCEPT ![i] = IF @ < k THEN 0 ELSE @ - k]
    BY <1>6 DEF GiveBack
  <2>2. \A j : NamesOf(j)' = NamesOf(j)
    BY <2>1 DEF NamesOf, Slots, EntryAt
  <2>3. nlookup'[i] = nlookup[i] - k /\ \A j \in Ino : j # i => nlookup'[j] = nlookup[j]
    <3>1. ~(nlookup[i] < k)
      BY <1>0, <1>2, <1>4
    <3> QED BY <1>0, <2>1, <3>1 DEF Counts
  <2>4. \A j \in Ino \ {Root} : nlookup'[j] = known'[j] + forgets'[j]
    <3> SUFFICES ASSUME NEW j \in Ino, j # Root PROVE nlookup'[j] = known'[j] + forgets'[j]
      OBVIOUS
    <3>1. nlookup[j] = known[j] + forgets[j] /\ nlookup[j] \in Nat /\ known[j] \in Nat /\ forgets[j] \in Nat
      BY <1>0 DEF Kept
    <3> QED BY <1>1, <1>2, <2>3, <3>1
  <2>5. ASSUME i # Root, NamesOf(i) = {} PROVE known'[i] + forgets'[i] > 0
    <3>1. Cardinality(NamesOf(i)) = 0
      BY <2>5, FS_EmptySet
    <3>2. node[i].nlink \in Nat
      BY <1>0, <1>1, OpsAssumption DEF NodesOK, Node
    <3>3. node[i].nlink = 0
      BY <1>1, <1>3, <2>5, <3>1, <3>2 DEF Tidy, CountsMatch, Counted, Stray
    <3>4. nlookup[i] > k
      BY <1>0, <1>2, <1>6, <3>3 DEF Dies
    <3>5. nlookup'[i] > 0
      BY <1>0, <1>2, <2>3, <3>4
    <3> QED BY <2>4, <2>5, <3>5
  <2>6. \A j \in DOMAIN node \ {Root} : NamesOf(j)' # {} \/ known'[j] + forgets'[j] > 0
    BY <1>0, <1>1, <1>2, <1>3, <2>2, <2>5 DEF Kept
  <2> QED BY <1>1, <2>1, <2>4, <2>6 DEF Kept, At
<1> QED BY <1>5, <1>6

\* Until the first kill every step keeps what inodes are kept for.
LEMMA KeptStep ==
  ASSUME Inv, Tidy, Kept, kills = 0, kills' = 0, [Next]_vars
  PROVE  Kept'
<1>0. TypeOK /\ LinkFits /\ KernelIsServed /\ cuts = 0
  BY DEF Inv, Kept
<1>1. cuts' = 0
  <2>1. ~Kill
    BY DEF Kill
  <2>2. CASE Segv \/ \E i \in Ino : KernelForget(i) \/ Forget(i)
    BY <1>0, <2>2 DEF Segv, KernelForget, Forget, deaths
  <2>3. CASE Mount \/ Step \/ Ask \/ UNCHANGED vars
    <3>1. UNCHANGED deaths
      BY <2>3, Zenon DEF Mount, MountExisting, MakeRoot, LookupFails, Make, Unlink, Rmdir, Link,
         DropEntry, NameMade, CountLink, Lookup, Step, Ask, vars
    <3> QED BY <1>0, <3>1 DEF deaths
  <2> QED BY <2>1, <2>2, <2>3 DEF Next
<1>2. CASE LookupFails \/ UNCHANGED vars
  <2>1. UNCHANGED <<node, nlookup, known, forgets, frame>>
    BY <1>2 DEF LookupFails, vars, kernelVars
  <2>2. \A j : NamesOf(j)' = NamesOf(j) /\ Owed(j)' = Owed(j)
    BY <2>1 DEF NamesOf, Slots, EntryAt, Owed, At
  <2> QED BY <1>1, <2>1, <2>2 DEF Kept, At
<1>3. ~MountExisting
  BY DEF MountExisting, Kept, Exists
<1>4. ~Kill
  BY DEF Kill
<1>5. ~Segv
  <2> SUFFICES ASSUME Segv PROVE FALSE
    OBVIOUS
  <2> PICK p \in Ino : Segv!(p)
    BY DEF Segv
  <2> PICK j \in {node[p].ents[n] : n \in Names} \cup {node[p].up} : j # 0 /\ ~Exists(j)
    OBVIOUS
  <2>1. p \in DOMAIN node /\ node[p].dir /\ (p = Root \/ NamesOf(p) # {})
    BY DEF Parent, Exists
  <2>2. \A n \in Names : node[p].ents[n] \in DOMAIN node \cup {0}
    <3> TAKE n \in Names
    <3>1. <<p, n>> \in Slots /\ EntryAt(<<p, n>>) = node[p].ents[n]
      BY <2>1 DEF Slots, EntryAt
    <3> QED BY <3>1 DEF Tidy, EntriesLead
  <2>3. node[p].up \in DOMAIN node
    <3>1. CASE p = Root
      BY <2>1, <3>1 DEF Tidy, RootTidy, Exists
    <3>2. CASE NamesOf(p) # {}
      <4>1. PICK e \in Slots : e \in NamesOf(p)
        BY <3>2 DEF NamesOf
      <4> QED BY <2>1, <4>1 DEF Tidy, Ups, Slots
    <3> QED BY <2>1, <3>1, <3>2
  <2> QED BY <2>2, <2>3 DEF Exists
<1>6. ASSUME NEW i \in Ino, KernelForget(i) \/ Forget(i) PROVE Kept'
  BY <1>0, <1>1, <1>6, KernelForgetKept, ForgetKept
<1> QED BY <1>0, <1>1, <1>2, <1>3, <1>4, <1>5, <1>6, LookupKept, MakeKept, NlinkKept, NamedKept,
           DropEntryKept DEF Next, Mount, Step, Ask

\* Kept holds until the first kill.
LEMMA KeptInvariance == Spec => [](Inv /\ (cuts = 0 => Tidy) /\ (kills = 0 => Kept))
<1>1. Init => (kills = 0 => Kept)
  <2> SUFFICES ASSUME Init PROVE Kept
    OBVIOUS
  <2>1. /\ DOMAIN node = {} /\ frame.pc = "down" /\ cuts = 0
        /\ \A i \in Ino : nlookup[i] = 0 /\ known[i] = 0 /\ forgets[i] = 0
    BY DEF Init, NoFrame, NoCounts
  <2> QED BY <2>1 DEF Kept, At
<1>2. Inv /\ (cuts = 0 => Tidy) /\ (kills = 0 => Kept) /\ [Next]_vars => (kills = 0 => Kept)'
  <2> SUFFICES ASSUME Inv, cuts = 0 => Tidy, kills = 0 => Kept, [Next]_vars, kills' = 0
               PROVE  Kept'
    OBVIOUS
  <2>1. kills \in Nat
    BY DEF Inv, TypeOK
  <2>2. kills' = kills \/ kills' = kills + 1
    <3>1. CASE Kill
      BY <3>1 DEF Kill
    <3>2. CASE Segv \/ \E i \in Ino : KernelForget(i) \/ Forget(i)
      BY <3>2 DEF Segv, KernelForget, Forget, deaths
    <3>3. CASE Mount \/ Step \/ Ask \/ UNCHANGED vars
      <4>1. UNCHANGED deaths
        BY <3>3, Zenon DEF Mount, MountExisting, MakeRoot, LookupFails, Make, Unlink, Rmdir, Link,
           DropEntry, NameMade, CountLink, Lookup, Step, Ask, vars
      <4> QED BY <4>1 DEF deaths
    <3> QED BY <3>1, <3>2, <3>3 DEF Next
  <2>3. kills = 0 /\ Kept /\ Tidy
    BY <2>1, <2>2 DEF Kept
  <2> QED BY <2>3, KeptStep
<1> QED BY <1>1, <1>2, TidyInvariance, PTL DEF Spec

\* As long as the mount is not killed, an inode that lost its last name stays in
\* the chat only while the kernel has lookups of it to give back, one of whose
\* forgets will remove it: unlink, rmdir, link and forget never leave one behind
\* for ever, in whatever order forgets come between requests.
THEOREM NothingLeaksAlways == Spec => []NothingLeaks
<1>1. Inv /\ (cuts = 0 => Tidy) /\ (kills = 0 => Kept) => NothingLeaks
  <2> SUFFICES ASSUME Kept, At("idle"), NEW i \in DOMAIN node, Unnamed(i)
               PROVE  known[i] + forgets[i] > 0
    BY DEF NothingLeaks
  <2>1. Owed(i) = 0
    BY DEF Owed, At
  <2> QED BY <2>1 DEF Kept, Unnamed
<1> QED BY <1>1, KeptInvariance, PTL

-----------------------------------------------------------------------------
(* The handlers implement FileTree.                                        *)

\* What the abstract tree sees.
Seen == <<Entries, Made, Held, cuts > 0>>

\* An entry of the tree is a name of the inode it leads to.
LEMMA EntryIsName ==
  /\ \A d, n, i : <<d, n, i>> \in Entries <=> i # 0 /\ <<d, n>> \in NamesOf(i)
  /\ \A x \in Entries : x = <<x[1], x[2], x[3]>> /\ x[1] \in DOMAIN node /\ x[2] \in Names
<1>1. ASSUME NEW x \in Entries
      PROVE  \E e \in Slots : EntryAt(e) # 0 /\ x = <<e[1], e[2], EntryAt(e)>>
  BY DEF Entries
<1>2. \A e \in Slots : e = <<e[1], e[2]>> /\ e[1] \in DOMAIN node /\ e[2] \in Names
  BY DEF Slots
<1>3. ASSUME NEW d, NEW n, NEW i, <<d, n, i>> \in Entries
      PROVE  i # 0 /\ <<d, n>> \in NamesOf(i)
  <2>1. PICK e \in Slots : EntryAt(e) # 0 /\ <<d, n, i>> = <<e[1], e[2], EntryAt(e)>>
    BY <1>1, <1>3
  <2>2. e = <<d, n>> /\ EntryAt(e) = i
    BY <1>2, <2>1
  <2> QED BY <2>1, <2>2 DEF NamesOf
<1>4. ASSUME NEW d, NEW n, NEW i, i # 0, <<d, n>> \in NamesOf(i)
      PROVE  <<d, n, i>> \in Entries
  <2>1. <<d, n>> \in Slots /\ EntryAt(<<d, n>>) = i
    BY <1>4 DEF NamesOf
  <2> QED BY <1>4, <2>1 DEF Entries
<1>5. ASSUME NEW x \in Entries
      PROVE  x = <<x[1], x[2], x[3]>> /\ x[1] \in DOMAIN node /\ x[2] \in Names
  <2>1. PICK e \in Slots : EntryAt(e) # 0 /\ x = <<e[1], e[2], EntryAt(e)>>
    BY <1>1
  <2> QED BY <1>2, <2>1
<1> QED BY <1>3, <1>4, <1>5

\* The same of the next state.
LEMMA EntryIsNameNext ==
  /\ \A d, n, i : <<d, n, i>> \in Entries' <=> i # 0 /\ <<d, n>> \in NamesOf(i)'
  /\ \A x \in Entries' : x = <<x[1], x[2], x[3]>>
<1>1. (/\ \A d, n, i : <<d, n, i>> \in Entries <=> i # 0 /\ <<d, n>> \in NamesOf(i)
       /\ \A x \in Entries : x = <<x[1], x[2], x[3]>> /\ x[1] \in DOMAIN node /\ x[2] \in Names)'
  BY EntryIsName, PTL
<1> QED BY <1>1

\* Entries go with names.
LEMMA EntriesStay ==
  ASSUME \A j : j # 0 => NamesOf(j)' = NamesOf(j)
  PROVE  Entries' = Entries
<1>1. \A x \in Entries : x \in Entries'
  <2> TAKE x \in Entries
  <2> PICK d, n, i : x = <<d, n, i>>
    BY EntryIsName
  <2>1. i # 0 /\ <<d, n>> \in NamesOf(i)
    BY EntryIsName
  <2>2. <<d, n>> \in NamesOf(i)'
    BY <2>1
  <2> QED BY <2>1, <2>2, EntryIsNameNext
<1>2. \A x \in Entries' : x \in Entries
  <2> TAKE x \in Entries'
  <2> PICK d, n, i : x = <<d, n, i>>
    BY EntryIsNameNext
  <2>1. i # 0 /\ <<d, n>> \in NamesOf(i)'
    BY EntryIsNameNext
  <2>2. <<d, n>> \in NamesOf(i)
    BY <2>1
  <2> QED BY <2>1, <2>2, EntryIsName
<1> QED BY <1>1, <1>2

\* A file of the tree has a name if the inode has, and an entry is free if
\* the directory leads nowhere by that name.
LEMMA NamedIs ==
  /\ \A i \in Ino : Tree!Named(i) <=> NamesOf(i) # {}
  /\ \A d \in Made, n \in Names : EntryAt(<<d, n>>) = 0 => Tree!Free(d, n)
<1>0. 0 \notin Ino
  BY OpsAssumption DEF Ino
<1>1. ASSUME NEW i \in Ino, Tree!Named(i) PROVE NamesOf(i) # {}
  <2>1. PICK x \in Entries : x[3] = i
    BY <1>1 DEF Tree!Named
  <2> QED BY <2>1, EntryIsName
<1>2. ASSUME NEW i \in Ino, NamesOf(i) # {} PROVE Tree!Named(i)
  <2>1. PICK e : e \in NamesOf(i)
    BY <1>2
  <2>2. e = <<e[1], e[2]>>
    BY <2>1 DEF NamesOf, Slots
  <2>3. <<e[1], e[2], i>> \in Entries
    BY <1>0, <2>1, <2>2, EntryIsName
  <2> QED BY <2>3 DEF Tree!Named
<1>3. ASSUME NEW d \in Made, NEW n \in Names, EntryAt(<<d, n>>) = 0
      PROVE  Tree!Free(d, n)
  <2>1. ASSUME NEW x \in Entries, x[1] = d, x[2] = n PROVE FALSE
    <3>1. <<d, n, x[3]>> \in Entries
      BY <2>1, EntryIsName
    <3>2. x[3] # 0 /\ <<d, n>> \in NamesOf(x[3])
      BY <3>1, EntryIsName
    <3> QED BY <1>3, <3>2 DEF NamesOf
  <2> QED BY <2>1 DEF Tree!Free
<1> QED BY <1>1, <1>2, <1>3

\* A step that the tree does not see.
LEMMA Unseen ==
  ASSUME cuts = 0, cuts' = 0, Made' = Made, Held' = Held,
         \A j : j # 0 => NamesOf(j)' = NamesOf(j)
  PROVE  [Tree!Next]_Seen
BY EntriesStay DEF Seen

\* A step of the tree.
LEMMA Changed ==
  ASSUME cuts = 0, cuts' = 0, Tree!Change
  PROVE  [Tree!Next]_Seen
BY DEF Tree!Next

\* Between handlers, every inode is a file of the tree.
LEMMA Files ==
  /\ ~At("make") => Made = DOMAIN node
  /\ At("make") => Made = DOMAIN node \ {frame.ino}
BY DEF Made

\* The same of the next state.
LEMMA FilesNext ==
  /\ ~At("make")' => Made' = DOMAIN node'
  /\ At("make")' => Made' = DOMAIN node' \ {frame'.ino}
BY DEF Made, At

\* One more lookup of an inode makes the kernel hold it.
LEMMA HeldReferred ==
  ASSUME TypeOK, NEW i \in Ino, Refer(i), UNCHANGED forgets
  PROVE  Held' = Held \cup {i}
<1>1. known \in Counts /\ \A j \in Ino : known[j] \in Nat /\ forgets[j] \in Nat
  BY CountFacts
<1>2. known'[i] = known[i] + 1 /\ \A j \in Ino : j # i => known'[j] = known[j]
  BY <1>1 DEF Refer, Counts
<1> QED BY <1>1, <1>2 DEF Held

\* Mount, lookup and what the kernel drops.
LEMMA LookupSeen ==
  ASSUME TypeOK, Tidy, cuts = 0, cuts' = 0,
         MountExisting \/ MakeRoot \/ Lookup \/ LookupFails \/ UNCHANGED vars
           \/ \E i \in Ino : KernelForget(i)
  PROVE  [Tree!Next]_Seen
<1>1. CASE MountExisting
  <2>1. frame.pc = "down" /\ frame'.pc = "idle" /\ UNCHANGED <<node, known, forgets>>
    BY <1>1 DEF MountExisting, At, Finish, NoFrame, kernelVars
  <2> QED BY <2>1, Files, FilesNext, Unseen DEF At, Held, NamesOf, Slots, EntryAt
<1>2. CASE MakeRoot
  <2>1. /\ ~Exists(Root) /\ AddNode(Root, NewNode(TRUE, Root)) /\ frame.pc = "down"
        /\ frame'.pc = "idle" /\ UNCHANGED <<known, forgets>> /\ Root \in Ino
    <3>1. Root \in Ino
      BY OpsAssumption DEF Root, Ino
    <3>2. frame'.pc = "idle"
      BY <1>2 DEF MakeRoot, Finish, NoFrame
    <3> QED BY <1>2, <3>1, <3>2, Zenon DEF MakeRoot, At, kernelVars
  <2>2. DOMAIN node' = DOMAIN node \cup {Root} /\ \A j : j # 0 => NamesOf(j)' = NamesOf(j)
    BY <2>1, NewTidy
  <2>3. Entries' = Entries /\ Held' = Held
    BY <2>1, <2>2, EntriesStay DEF Held
  <2>4. Made' = Made \cup {Root} /\ Root \notin Made
    BY <2>1, <2>2, Files, FilesNext DEF At, Exists
  <2>5. Tree!MakeRoot
    BY <2>3, <2>4 DEF Tree!MakeRoot
  <2> QED BY <2>5, Changed DEF Tree!Change
<1>3. CASE Lookup
  <2> PICK p \in Ino, n \in Names : Lookup!(p, n)
    BY <1>3 DEF Lookup
  <2> PICK i : i = node[p].ents[n]
    OBVIOUS
  <2>1. /\ i \in DOMAIN node /\ i # 0 /\ p \in DOMAIN node /\ frame.pc = "idle" /\ Refer(i)
        /\ UNCHANGED <<node, forgets, frame>> /\ i \in Ino
    BY DEF TypeOK, Exists, Parent, Idle, At
  <2>2. <<p, n>> \in NamesOf(i)
    BY <2>1 DEF NamesOf, Slots, EntryAt
  <2>3. \A j : NamesOf(j)' = NamesOf(j)
    BY <2>1 DEF NamesOf, Slots, EntryAt
  <2>4. Made' = Made /\ i \in Made /\ Held' = Held \cup {i}
    BY <2>1, Files, FilesNext, HeldReferred DEF At
  <2>5. Tree!Lookup(i)
    BY <2>1, <2>2, <2>3, <2>4, NamedIs, EntriesStay DEF Tree!Lookup
  <2> QED BY <2>1, <2>5, Changed DEF Tree!Change
<1>4. CASE LookupFails \/ UNCHANGED vars
  <2>1. UNCHANGED <<node, frame, known, forgets>>
    BY <1>4 DEF LookupFails, vars, kernelVars
  <2> QED BY <2>1, Unseen DEF Made, At, Held, NamesOf, Slots, EntryAt
<1>5. CASE \E i \in Ino : KernelForget(i)
  <2> PICK i \in Ino : KernelForget(i)
    BY <1>5
  <2>1. /\ UNCHANGED <<node, frame>> /\ known' = [known EXCEPT ![i] = 0]
        /\ forgets' = [forgets EXCEPT ![i] = @ + known[i]]
    BY DEF KernelForget
  <2>2. \A j \in Ino : known'[j] + forgets'[j] = known[j] + forgets[j]
    BY <2>1, CountFacts DEF Counts
  <2>3. Held' = Held
    BY <2>2 DEF Held
  <2> QED BY <2>1, <2>3, Unseen DEF Made, At, NamesOf, Slots, EntryAt
<1> QED BY <1>1, <1>2, <1>3, <1>4, <1>5

\* forget ends the kernel's reference if it gives back the last lookup, and
\* removes a file only then, when it has neither a name nor entries.
LEMMA ForgetSeen ==
  ASSUME TypeOK, KernelIsServed, Tidy, cuts = 0, cuts' = 0, NEW i \in Ino, Forget(i)
  PROVE  [Tree!Next]_Seen
<1> PICK k \in 1..forgets[i] : Forget(i)!(k)
  BY DEF Forget
<1>0. /\ \A j \in Ino : nlookup[j] \in Nat /\ known[j] \in Nat /\ forgets[j] \in Nat
      /\ forgets \in Counts /\ NodesOK /\ i # 0
  BY CountFacts
<1>1. /\ frame.pc = "idle" /\ i \in DOMAIN node /\ UNCHANGED <<frame, known>>
      /\ k \in Nat /\ k >= 1 /\ k <= forgets[i]
      /\ forgets'[i] = forgets[i] - k /\ \A j \in Ino : j # i => forgets'[j] = forgets[j]
  BY <1>0 DEF Idle, At, Exists, Counts
<1>2. known[i] + forgets[i] <= nlookup[i] /\ i \in Held
  BY <1>0, <1>1 DEF KernelIsServed, Held
<1>3. Held' \in {Held, Held \ {i}} /\ (known[i] = 0 /\ forgets[i] = k => Held' = Held \ {i})
  <2>1. \A j \in Ino : j # i => (j \in Held' <=> j \in Held)
    BY <1>0, <1>1 DEF Held
  <2>2. Held \subseteq Ino /\ Held' \subseteq Ino
    BY DEF Held
  <2>3. known[i] = 0 /\ forgets[i] = k => i \notin Held'
    BY <1>0, <1>1 DEF Held
  <2> QED BY <1>2, <2>1, <2>2, <2>3
<1>4. Made = DOMAIN node /\ Made' = DOMAIN node'
  BY <1>1, Files, FilesNext DEF At
<1>5. CASE Dies(i, k)
  <2>1. /\ node[i].nlink = 0 /\ nlookup[i] <= k /\ node' = Restrict(node, DOMAIN node \ {i})
    BY <1>5 DEF Dies, RemoveNode
  <2>2. i # Root
    BY <1>1, <2>1 DEF Tidy, RootTidy, Exists
  <2>3. NamesOf(i) = {}
    <3>1. Cardinality(NamesOf(i)) \in Nat /\ IsFiniteSet(NamesOf(i))
      BY <1>0, NamesFinite, FS_CardinalityType
    <3>2. ~Stray(i) /\ Owed(i) = 0 /\ Extra(i) = 0
      BY <1>0, <1>1 DEF Stray, Owed, Extra, At
    <3>3. Cardinality(NamesOf(i)) = 0
      BY <1>1, <2>1, <2>2, <3>1, <3>2 DEF Tidy, CountsMatch, Counted
    <3> QED BY <3>1, <3>3, FS_EmptySet
  <2>4. node[i].ents = NoEntries
    BY <1>1, <2>2, <2>3 DEF Tidy, Barren
  <2>5. DOMAIN node' = DOMAIN node \ {i} /\ \A j \in DOMAIN node' : node'[j] = node[j]
    BY <2>1 DEF Restrict
  <2>6. Entries' = Entries
    BY <1>1, <2>4, <2>5, BarrenNames, EntriesStay DEF Exists
  <2>7. known[i] = 0 /\ forgets[i] = k
    BY <1>0, <1>1, <1>2, <2>1
  <2>8. ~Tree!Named(i)
    BY <2>3, NamedIs
  <2>9. ASSUME NEW x \in Entries, x[1] = i PROVE FALSE
    <3>1. <<i, x[2], x[3]>> \in Entries /\ x[2] \in Names
      BY <2>9, EntryIsName
    <3>2. x[3] # 0 /\ EntryAt(<<i, x[2]>>) = x[3]
      BY <3>1, EntryIsName DEF NamesOf
    <3> QED BY <2>4, <3>1, <3>2 DEF EntryAt, NoEntries
  <2>10. Tree!Release(i)
    BY <1>2, <1>3, <1>4, <2>5, <2>6, <2>7, <2>8, <2>9 DEF Tree!Release
  <2> QED BY <2>10, Changed DEF Tree!Change
<1>6. CASE ~Dies(i, k)
  <2>1. UNCHANGED node
    BY <1>6 DEF GiveBack
  <2>2. \A j : NamesOf(j)' = NamesOf(j)
    BY <2>1 DEF NamesOf, Slots, EntryAt
  <2>3. Made' = Made
    BY <1>4, <2>1
  <2>4. CASE Held' = Held
    BY <2>2, <2>3, <2>4, Unseen
  <2>5. CASE Held' = Held \ {i}
    <3>1. Tree!Release(i)
      BY <1>2, <2>2, <2>3, <2>5, EntriesStay DEF Tree!Release
    <3> QED BY <3>1, Changed DEF Tree!Change
  <2> QED BY <1>3, <2>4, <2>5
<1> QED BY <1>5, <1>6

\* The first uploads of mknod, mkdir, unlink and rmdir are not seen.
LEMMA FirstUnseen ==
  ASSUME TypeOK, Tidy, cuts = 0, cuts' = 0, Make \/ Unlink \/ Rmdir
  PROVE  [Tree!Next]_Seen
<1>1. CASE Make
  <2> PICK p \in Ino, n \in Names, d \in BOOLEAN : Make!(p, n, d)
    BY <1>1 DEF Make
  <2> PICK i \in Ino : i = Min(NewInos)
    BY NewIno
  <2>1. ~Exists(i)
    BY NewIno
  <2>2. /\ AddNode(i, NewNode(d, p)) /\ UNCHANGED <<known, forgets>>
        /\ frame'.pc = "make" /\ frame'.ino = i /\ frame.pc = "idle"
    BY DEF Idle, At, kernelVars
  <2>3. DOMAIN node' = DOMAIN node \cup {i} /\ \A j : j # 0 => NamesOf(j)' = NamesOf(j)
    BY <2>1, <2>2, NewTidy
  <2>4. Made' = Made /\ Held' = Held
    BY <2>1, <2>2, <2>3, Files, FilesNext DEF At, Exists, Held
  <2> QED BY <2>3, <2>4, Unseen
<1>2. CASE Unlink \/ Rmdir
  <2> PICK p \in Ino, n \in Names : Unlink!(p, n) \/ Rmdir!(p, n)
    BY <1>2 DEF Unlink, Rmdir
  <2> PICK i : i = node[p].ents[n]
    OBVIOUS
  <2>1. /\ i \in DOMAIN node /\ node' = [node EXCEPT ![i].nlink = Dec(@)]
        /\ frame'.pc \in {"unlink", "rmdir"} /\ frame.pc = "idle"
        /\ UNCHANGED <<known, forgets>>
    BY DEF Exists, Idle, At, kernelVars
  <2>2. NodesOK
    BY CountFacts
  <2>3. Dec(node[i].nlink) \in 0..MaxNlink
    BY <2>1, <2>2, DecOK DEF NodesOK, Node
  <2>4. /\ DOMAIN node' = DOMAIN node
        /\ \A j \in DOMAIN node : node'[j].ents = node[j].ents
    BY <2>1, <2>2, <2>3, NlinkOK DEF NodesOK
  <2>5. Made' = Made /\ Held' = Held
    BY <2>1, <2>4, Files, FilesNext DEF At, Held
  <2> QED BY <2>4, <2>5, SameNames, Unseen
<1> QED BY <1>1, <1>2

\* A name appears with the upload of the directory: the second of mknod and
\* mkdir, the first of link.
LEMMA NameSeen ==
  ASSUME TypeOK, Tidy, cuts = 0, cuts' = 0, NameMade \/ Link
  PROVE  [Tree!Next]_Seen
<1>1. ASSUME NEW p \in DOMAIN node, NEW n \in Names, NEW i \in Ino,
             SetEntry(p, n, i), EntryAt(<<p, n>>) = 0
      PROVE  DOMAIN node' = DOMAIN node /\ Entries' = Entries \cup {<<p, n, i>>}
  <2>0. NodesOK /\ i # 0
    BY CountFacts
  <2>1. /\ DOMAIN node' = DOMAIN node
        /\ \A j : NamesOf(j)' = (NamesOf(j) \ {<<p, n>>}) \cup (IF j = i THEN {<<p, n>>} ELSE {})
    BY <1>1, <2>0, EntryNames
  <2>2. \A j : j # 0 => <<p, n>> \notin NamesOf(j)
    BY <1>1 DEF NamesOf
  <2>3. \A d, m, j : <<d, m, j>> \in Entries' <=> <<d, m, j>> \in Entries \cup {<<p, n, i>>}
    <3> TAKE d, m, j
    <3>1. j # 0 => (<<d, m>> \in NamesOf(j)' <=>
                      <<d, m>> \in NamesOf(j) \/ (j = i /\ d = p /\ m = n))
      BY <2>1, <2>2
    <3> QED BY <2>0, <3>1, EntryIsName, EntryIsNameNext
  <2>4. \A x \in Entries' : x \in Entries \cup {<<p, n, i>>}
    BY <2>3, EntryIsNameNext
  <2>5. \A x \in Entries \cup {<<p, n, i>>} : x \in Entries'
    BY <2>3, EntryIsName
  <2> QED BY <2>1, <2>4, <2>5
<1>2. CASE NameMade
  <2> PICK i, p, n : i = frame.ino /\ p = frame.dir /\ n = frame.name
    OBVIOUS
  <2>1. /\ i \in Ino /\ p \in DOMAIN node /\ n \in Names /\ frame.pc = "make" /\ frame'.pc = "idle"
        /\ SetEntry(p, n, i) /\ UNCHANGED forgets /\ Refer(i) /\ i \in DOMAIN node
    BY <1>2 DEF NameMade, ReplyEntry, Finish, NoFrame, TypeOK, Exists, At
  <2>2. EntryAt(<<p, n>>) = 0 /\ i # p
    BY <2>1 DEF Tidy, FrameTidy, Target, At
  <2>3. DOMAIN node' = DOMAIN node /\ Entries' = Entries \cup {<<p, n, i>>}
    BY <1>1, <2>1, <2>2
  <2>4. Made' = Made \cup {i} /\ i \notin Made /\ p \in Made /\ Held' = Held \cup {i}
    BY <2>1, <2>2, <2>3, Files, FilesNext, HeldReferred DEF At
  <2>5. Tree!Create(p, n, i)
    BY <2>1, <2>2, <2>3, <2>4, NamedIs DEF Tree!Create
  <2>6. p \in Ino
    BY <2>1, CountFacts DEF NodesOK
  <2> QED BY <2>1, <2>5, <2>6, Changed DEF Tree!Change
<1>3. CASE Link
  <2> PICK p \in Ino, n \in Names, i \in DOMAIN node : Link!(p, n, i)
    BY <1>3 DEF Link
  <2>1. /\ p \in DOMAIN node /\ frame'.pc = "link" /\ frame.pc = "idle" /\ EntryAt(<<p, n>>) = 0
        /\ UNCHANGED <<known, forgets>> /\ SetEntry(p, n, i) /\ known[i] > 0 /\ i \in Ino
    BY CountFacts DEF Parent, Exists, kernelVars, EntryAt, Idle, At, NodesOK
  <2>2. DOMAIN node' = DOMAIN node /\ Entries' = Entries \cup {<<p, n, i>>}
    BY <1>1, <2>1
  <2>3. Made' = Made /\ Held' = Held /\ {i, p} \subseteq Made /\ i \in Held
    BY <2>1, <2>2, Files, FilesNext, CountFacts DEF At, Held
  <2>4. Tree!Link(p, n, i)
    BY <2>1, <2>2, <2>3, NamedIs DEF Tree!Link
  <2> QED BY <2>1, <2>4, Changed DEF Tree!Change
<1> QED BY <1>2, <1>3

\* A name disappears with the second upload of unlink and rmdir; the second of
\* link shows as a lookup of what has a name.
LEMMA SecondSeen ==
  ASSUME TypeOK, LinkFits, Tidy, cuts = 0, cuts' = 0, DropEntry \/ CountLink
  PROVE  [Tree!Next]_Seen
<1> PICK i, p, n : i = frame.ino /\ p = frame.dir /\ n = frame.name
  OBVIOUS
<1>0. /\ i \in DOMAIN node /\ p \in DOMAIN node /\ n \in Names /\ frame'.pc = "idle"
      /\ frame.pc \in {"unlink", "rmdir", "link"} /\ UNCHANGED forgets
      /\ NodesOK /\ i \in Ino /\ i # 0
  <2>1. /\ frame.pc \in {"unlink", "rmdir", "link"} /\ frame'.pc = "idle" /\ UNCHANGED forgets
    BY DEF DropEntry, CountLink, ReplyEntry, Finish, NoFrame, kernelVars, At
  <2>2. i \in DOMAIN node /\ p \in DOMAIN node /\ n \in Names
    BY <2>1 DEF TypeOK, Exists
  <2> QED BY <2>1, <2>2, CountFacts DEF NodesOK
<1>1. EntryAt(<<p, n>>) = i /\ <<p, n>> \in NamesOf(i)
  BY <1>0 DEF Tidy, FrameTidy, Target, NamesOf, Slots
<1>2. CASE DropEntry
  <2>1. SetEntry(p, n, 0) /\ UNCHANGED <<known, forgets>>
    BY <1>2 DEF DropEntry, kernelVars
  <2>2. /\ DOMAIN node' = DOMAIN node
        /\ \A j : NamesOf(j)' = (NamesOf(j) \ {<<p, n>>}) \cup (IF j = 0 THEN {<<p, n>>} ELSE {})
    <3>1. i # Root /\ node[p].dir
      BY <1>0 DEF Tidy, FrameTidy
    <3>2. /\ NodesOK /\ Slots' = Slots /\ DOMAIN node' = DOMAIN node
          /\ <<p, n>> \in Slots /\ EntryAt(<<p, n>>)' = 0
          /\ \A j \in DOMAIN node : /\ node'[j].dir = node[j].dir /\ node'[j].up = node[j].up
                                    /\ node'[j].nlink = node[j].nlink
                                    /\ j # p => node'[j].ents = node[j].ents
          /\ \A j : NamesOf(j)' = (NamesOf(j) \ {<<p, n>>}) \cup (IF j = 0 THEN {<<p, n>>} ELSE {})
          /\ EntriesLead'
      BY <1>0, <2>1, <3>1, EntryTidy
    <3> QED BY <3>2
  <2>3. \A j : <<p, n>> \in NamesOf(j) => j = i
    BY <1>1 DEF NamesOf
  <2>4. \A d, m, j : <<d, m, j>> \in Entries' <=> <<d, m, j>> \in Entries \ {<<p, n, i>>}
    <3> TAKE d, m, j
    <3>1. j # 0 => (<<d, m>> \in NamesOf(j)' <=>
                      <<d, m>> \in NamesOf(j) /\ ~(j = i /\ d = p /\ m = n))
      BY <2>2, <2>3
    <3> QED BY <3>1, EntryIsName, EntryIsNameNext
  <2>5. Entries' = Entries \ {<<p, n, i>>}
    <3>1. \A x \in Entries' : x \in Entries \ {<<p, n, i>>}
      BY <2>4, EntryIsNameNext
    <3>2. \A x \in Entries \ {<<p, n, i>>} : x \in Entries'
      BY <2>4, EntryIsName
    <3> QED BY <3>1, <3>2
  <2>6. <<p, n, i>> \in Entries
    BY <1>0, <1>1, EntryIsName
  <2>7. Made' = Made /\ Held' = Held
    BY <1>0, <2>1, <2>2, Files, FilesNext DEF At, Held
  <2>8. Tree!Unlink
    BY <2>5, <2>6, <2>7 DEF Tree!Unlink
  <2> QED BY <2>8, Changed DEF Tree!Change
<1>3. CASE CountLink
  <2>1. node' = [node EXCEPT ![i].nlink = node[i].nlink + 1] /\ Refer(i) /\ At("link")
    BY <1>0, <1>3 DEF CountLink, ReplyEntry
  <2>2. node[i].nlink + 1 \in 0..MaxNlink
    BY <2>1 DEF LinkFits
  <2>3. /\ DOMAIN node' = DOMAIN node
        /\ \A j \in DOMAIN node : node'[j].ents = node[j].ents
    BY <1>0, <2>1, <2>2, NlinkOK DEF NodesOK
  <2>4. Entries' = Entries
    BY <2>3, SameNames, EntriesStay
  <2>5. Made' = Made /\ i \in Made /\ Held' = Held \cup {i}
    BY <1>0, <2>1, <2>3, Files, FilesNext, HeldReferred DEF At
  <2>6. Tree!Lookup(i)
    BY <1>0, <1>1, <2>4, <2>5, NamedIs DEF Tree!Lookup
  <2> QED BY <1>0, <2>6, Changed DEF Tree!Change
<1> QED BY <1>2, <1>3

\* When the mount dies nothing is held any more; what mknod or mkdir was making
\* stays without a name.
LEMMA DeathSeen ==
  ASSUME TypeOK, Tidy, cuts = 0, cuts' = 0, Kill \/ Segv
  PROVE  [Tree!Next]_Seen
<1>0. Vanish
  BY DEF Kill, Segv
<1>1. UNCHANGED node /\ frame'.pc = "down"
  BY <1>0 DEF Vanish, NoFrame
<1>2. Held' = {}
  BY <1>0 DEF Vanish, NoCounts, Held
<1>3. Entries' = Entries
  BY <1>1, EntriesStay DEF NamesOf, Slots, EntryAt
<1>4. Made' = DOMAIN node
  BY <1>1, FilesNext DEF At
<1>5. CASE At("make")
  <2>1. frame.ino \in Ino /\ frame.ino \in DOMAIN node /\ NamesOf(frame.ino) = {}
    BY <1>5 DEF At, TypeOK, Exists, Tidy, FrameTidy
  <2>2. Made' = Made \cup {frame.ino} /\ frame.ino \in Ino \ Made
    BY <1>4, <1>5, <2>1, Files
  <2>3. ~Tree!Named(frame.ino)
    BY <2>1, NamedIs
  <2>4. Tree!Die
    BY <1>2, <1>3, <2>2, <2>3 DEF Tree!Die
  <2> QED BY <2>4, Changed DEF Tree!Change
<1>6. CASE ~At("make")
  <2>1. Tree!Die
    BY <1>2, <1>3, <1>4, <1>6, Files DEF Tree!Die
  <2> QED BY <2>1, Changed DEF Tree!Change
<1> QED BY <1>5, <1>6

\* Every step is a step of the tree or is not seen; after a kill that cuts unlink,
\* rmdir or link in two the tree promises nothing.
LEMMA TreeStep ==
  ASSUME Inv, cuts = 0 => Tidy, [Next]_vars
  PROVE  [Tree!Next]_Seen
<1>1. TypeOK /\ LinkFits /\ KernelIsServed /\ cuts \in Nat
  BY DEF Inv, TypeOK
<1>2. CASE cuts' > 0
  BY <1>2 DEF Tree!Next
<1>3. CASE ~(cuts' > 0)
  <2>1. cuts' = cuts \/ (cuts' = cuts + 1 /\ Kill)
    <3>1. CASE Kill
      BY <3>1 DEF Kill
    <3>2. CASE Segv \/ \E i \in Ino : KernelForget(i) \/ Forget(i)
      BY <3>2 DEF Segv, KernelForget, Forget, deaths
    <3>3. CASE Mount \/ Step \/ Ask \/ UNCHANGED vars
      <4>1. UNCHANGED deaths
        BY <3>3, Zenon DEF Mount, MountExisting, MakeRoot, LookupFails, Make, Unlink, Rmdir, Link,
           DropEntry, NameMade, CountLink, Lookup, Step, Ask, vars
      <4> QED BY <4>1 DEF deaths
    <3> QED BY <3>1, <3>2, <3>3 DEF Next
  <2>2. cuts = 0 /\ cuts' = 0
    BY <1>1, <1>3, <2>1
  <2> QED BY <1>1, <2>2, LookupSeen, ForgetSeen, FirstUnseen, NameSeen, SecondSeen, DeathSeen
          DEF Next, Mount, Step, Ask
<1> QED BY <1>2, <1>3

\* In the beginning there is nothing.
LEMMA TreeInit == Init => Tree!Init
<1> SUFFICES ASSUME Init PROVE Tree!Init
  OBVIOUS
<1>1. /\ DOMAIN node = {} /\ frame.pc = "down" /\ cuts = 0
      /\ \A i \in Ino : known[i] = 0 /\ forgets[i] = 0
  BY DEF Init, NoFrame, NoCounts
<1> QED BY <1>1 DEF Tree!Init, Entries, Made, Held, Slots, At

\* The handlers, each with its two uploads, implement a tree whose names change
\* one at a time and at once, where no file goes that has a name, entries or a
\* reference of the kernel, wherever the mount is killed up to the first kill
\* that cuts unlink, rmdir or link in two.
THEOREM ImplementsFileTreeAlways == Spec => ImplementsFileTree
<1>1. Inv /\ (cuts = 0 => Tidy) /\ [Next]_vars => [Tree!Next]_Seen
  BY TreeStep
<1> QED BY <1>1, TreeInit, TidyInvariance, PTL
        DEF Spec, ImplementsFileTree, Tree!Spec, Seen, Tree!treeVars

-----------------------------------------------------------------------------
(* What kills between two uploads cost.  L are the names that such kills   *)
(* made of inodes that do not count them: one for each cut.  They are all  *)
(* that can lead nowhere, since every inode counts its other names.        *)

Uncounted(i, L) == Cardinality(NamesOf(i) \ L)
Covered(i, L) == Uncounted(i, L) + Owed(i) <= node[i].nlink + Extra(i)

Covers(L) ==
    /\ IsFiniteSet(L) /\ Cardinality(L) <= cuts
    /\ Dangling \subseteq L
    /\ \A i \in DOMAIN node : Covered(i, L)

TargetHeld == frame.pc \in {"unlink", "rmdir"} => EntryAt(Target) = frame.ino

Damage == (\E L : Covers(L)) /\ TargetHeld

\* A part of a finite set, and a set with one element more, in numbers.
LEMMA PartCard ==
  ASSUME NEW S, IsFiniteSet(S), NEW T, T \subseteq S
  PROVE  /\ IsFiniteSet(T) /\ Cardinality(T) \in Nat /\ Cardinality(S) \in Nat
         /\ Cardinality(T) <= Cardinality(S)
  BY FS_Subset, FS_CardinalityType

LEMMA GrownCard ==
  ASSUME NEW S, IsFiniteSet(S), NEW x, NEW T, T \subseteq S \cup {x}
  PROVE  /\ IsFiniteSet(T) /\ Cardinality(T) \in Nat /\ Cardinality(S) \in Nat
         /\ Cardinality(T) <= Cardinality(S) + 1
<1>1. /\ IsFiniteSet(S \cup {x}) /\ Cardinality(S \cup {x}) <= Cardinality(S) + 1
      /\ Cardinality(S) \in Nat /\ Cardinality(S \cup {x}) \in Nat
  BY FS_AddElement, FS_CardinalityType
<1>2. /\ IsFiniteSet(T) /\ Cardinality(T) \in Nat /\ Cardinality(T) <= Cardinality(S \cup {x})
  BY <1>1, PartCard
<1> QED BY <1>1, <1>2

LEMMA ShrunkCard ==
  ASSUME NEW S, IsFiniteSet(S), NEW x \in S, NEW T, T \subseteq S \ {x}
  PROVE  /\ IsFiniteSet(T) /\ Cardinality(T) \in Nat /\ Cardinality(S) \in Nat
         /\ Cardinality(T) + 1 <= Cardinality(S)
<1>1. /\ IsFiniteSet(S \ {x}) /\ Cardinality(S \ {x}) = Cardinality(S) - 1
      /\ Cardinality(S) \in Nat /\ Cardinality(S \ {x}) \in Nat
  BY FS_RemoveElement, FS_CardinalityType
<1>2. /\ IsFiniteSet(T) /\ Cardinality(T) \in Nat /\ Cardinality(T) <= Cardinality(S \ {x})
  BY <1>1, PartCard
<1> QED BY <1>1, <1>2

\* The numbers of Covered.
LEMMA CoverNumbers ==
  ASSUME TypeOK, NEW L, NEW i \in DOMAIN node
  PROVE  /\ NodesOK /\ i \in Ino /\ i # 0
         /\ IsFiniteSet(NamesOf(i) \ L) /\ Uncounted(i, L) \in Nat /\ node[i].nlink \in Nat
         /\ node[i].nlink \in 0..MaxNlink
         /\ Owed(i) \in {0, 1} /\ Extra(i) \in {0, 1}
<1>1. NodesOK
  BY Zenon DEF TypeOK, NodesOK
<1>2. i \in Ino /\ i # 0 /\ node[i].nlink \in 0..MaxNlink /\ MaxNlink \in Nat
  BY <1>1, OpsAssumption DEF NodesOK, Ino, Node
<1>3. IsFiniteSet(NamesOf(i) \ L) /\ Cardinality(NamesOf(i) \ L) \in Nat
  BY <1>1, NamesFinite, PartCard
<1> QED BY <1>1, <1>2, <1>3 DEF Uncounted, Owed, Extra

\* While no handler is under way nothing is owed.
LEMMA NothingOwed ==
  ASSUME frame.pc \in {"idle", "down"}, NEW i
  PROVE  Owed(i) = 0 /\ Extra(i) = 0
BY DEF Owed, Extra, At

\* A name that leads nowhere is one of L.
LEMMA DanglingIn ==
  ASSUME NEW L, Covers(L), NEW e \in Slots, EntryAt(e) # 0, ~Exists(EntryAt(e))
  PROVE  e \in L
BY DEF Covers, Dangling

\* Nodes keep their names and numbers, and nothing is cut.
LEMMA QuietDamage ==
  ASSUME TypeOK, NEW L, Covers(L), UNCHANGED <<node, cuts>>,
         UNCHANGED frame \/ frame'.pc \in {"idle", "down"},
         frame.pc \in {"unlink", "rmdir", "link"} => UNCHANGED frame
  PROVE  Covers(L)'
<1>1. Dangling' = Dangling /\ \A j : NamesOf(j)' = NamesOf(j)
  BY DEF Dangling, Slots, EntryAt, Exists, NamesOf
<1>2. ASSUME NEW i \in DOMAIN node PROVE Covered(i, L)'
  <2>1. Covered(i, L) /\ Uncounted(i, L)' = Uncounted(i, L) /\ Uncounted(i, L) \in Nat
        /\ node[i].nlink \in Nat /\ Owed(i) \in {0, 1} /\ Extra(i) \in {0, 1}
    BY <1>1, CoverNumbers DEF Covers, Uncounted
  <2>2. Owed(i)' <= Owed(i) /\ Extra(i)' = Extra(i) /\ Owed(i)' \in {0, 1}
    BY DEF Owed, Extra, At
  <2> QED BY <2>1, <2>2 DEF Covered
<1> QED BY <1>1, <1>2 DEF Covers

\* A new node: whatever leads to its number is one of L already.
LEMMA NewDamage ==
  ASSUME TypeOK, NEW L, Covers(L), NEW i \in Ino, ~Exists(i), NEW d \in BOOLEAN, NEW p \in Ino,
         AddNode(i, NewNode(d, p)), frame.pc \in {"idle", "down"}, UNCHANGED cuts,
         frame'.pc = "idle" \/ (frame'.pc = "make" /\ frame'.ino = i)
  PROVE  Covers(L)'
<1>1. /\ DOMAIN node' = DOMAIN node \cup {i} /\ node'[i] = NewNode(d, p)
      /\ \A j \in DOMAIN node : node'[j] = node[j]
  BY DEF AddNode, Exists
<1>2. \A j : j # 0 => NamesOf(j)' = NamesOf(j)
  BY <1>1, BarrenNames DEF NewNode
<1>3. i # 0
  BY OpsAssumption DEF Ino
<1>4. Dangling' \subseteq L
  <2> SUFFICES ASSUME NEW e \in Slots', EntryAt(e)' # 0, ~Exists(EntryAt(e))' PROVE e \in L
    BY DEF Dangling
  <2>1. CASE e \in Slots
    <3>1. EntryAt(e)' = EntryAt(e) /\ ~Exists(EntryAt(e))
      BY <1>1, <2>1 DEF Slots, EntryAt, Exists
    <3> QED BY <2>1, <3>1, DanglingIn
  <2>2. CASE e \notin Slots
    <3>1. e[1] = i /\ e[2] \in Names
      BY <1>1, <2>2 DEF Slots
    <3> QED BY <1>1, <3>1 DEF EntryAt, NewNode, NoEntries
  <2> QED BY <2>1, <2>2
<1>5. ASSUME NEW j \in DOMAIN node PROVE Covered(j, L)'
  <2>1. Covered(j, L) /\ Uncounted(j, L) \in Nat /\ node[j].nlink \in Nat /\ j # 0
    BY CoverNumbers DEF Covers
  <2>2. Uncounted(j, L)' = Uncounted(j, L) /\ node'[j].nlink = node[j].nlink
    BY <1>1, <1>2, <2>1 DEF Uncounted
  <2>3. Owed(j) = 0 /\ Extra(j) = 0
    BY NothingOwed
  <2>4. Owed(j)' = 0 /\ Extra(j)' = 0
    BY DEF Owed, Extra, At, Exists
  <2> QED BY <2>1, <2>2, <2>3, <2>4 DEF Covered
<1>6. Covered(i, L)'
  <2>1. NamesOf(i) \subseteq L
    BY <1>3, DanglingIn DEF NamesOf
  <2>2. NamesOf(i)' \ L = {}
    BY <1>2, <1>3, <2>1
  <2>3. Uncounted(i, L)' = 0
    BY <2>2, FS_EmptySet DEF Uncounted
  <2>4. Owed(i)' \in {0, 1} /\ Extra(i)' = 0 /\ node'[i].nlink = 1
    BY <1>1 DEF Owed, Extra, At, NewNode
  <2> QED BY <2>3, <2>4 DEF Covered
<1> QED BY <1>1, <1>4, <1>5, <1>6 DEF Covers

\* An entry is made: its inode owes it, or has one more.
LEMMA NamedDamage ==
  ASSUME TypeOK, NEW L, Covers(L), NEW p \in DOMAIN node, NEW n \in Names, NEW i \in DOMAIN node,
         SetEntry(p, n, i), UNCHANGED cuts, \A j \in DOMAIN node : Extra(j) = 0,
         \A j \in DOMAIN node : /\ Owed(j)' = 0 /\ Extra(j)' \in {0, 1}
                                /\ j = i => Extra(i)' + Owed(i) = 1
  PROVE  Covers(L)'
<1>0. NodesOK
  BY Zenon DEF TypeOK, NodesOK
<1>1. /\ Slots' = Slots /\ DOMAIN node' = DOMAIN node /\ EntryAt(<<p, n>>)' = i
      /\ \A e \in Slots : e # <<p, n>> => EntryAt(e)' = EntryAt(e)
      /\ \A j \in DOMAIN node : node'[j].nlink = node[j].nlink
      /\ \A j : NamesOf(j)' = (NamesOf(j) \ {<<p, n>>}) \cup (IF j = i THEN {<<p, n>>} ELSE {})
  BY <1>0, EntryNames
<1>2. Dangling' \subseteq L
  <2> SUFFICES ASSUME NEW e \in Slots', EntryAt(e)' # 0, ~Exists(EntryAt(e))' PROVE e \in L
    BY DEF Dangling
  <2>1. e # <<p, n>>
    BY <1>1 DEF Exists
  <2> QED BY <1>1, <2>1, DanglingIn DEF Exists
<1>3. ASSUME NEW j \in DOMAIN node PROVE Covered(j, L)'
  <2>1. /\ Covered(j, L) /\ Uncounted(j, L) \in Nat /\ node[j].nlink \in Nat
        /\ IsFiniteSet(NamesOf(j) \ L) /\ Owed(j) \in {0, 1} /\ Extra(j) = 0
    BY CoverNumbers DEF Covers
  <2>2. CASE j # i
    <3>1. NamesOf(j)' \ L \subseteq NamesOf(j) \ L
      BY <1>1, <2>2
    <3>2. Uncounted(j, L)' \in Nat /\ Uncounted(j, L)' <= Uncounted(j, L)
      BY <2>1, <3>1, PartCard DEF Uncounted
    <3> QED BY <1>1, <2>1, <3>2 DEF Covered
  <2>3. CASE j = i
    <3>1. NamesOf(j)' \ L \subseteq (NamesOf(j) \ L) \cup {<<p, n>>}
      BY <1>1
    <3>2. Uncounted(j, L)' \in Nat /\ Uncounted(j, L)' <= Uncounted(j, L) + 1
      BY <2>1, <3>1, GrownCard DEF Uncounted
    <3>3. Uncounted(j, L) + Owed(j) <= node[j].nlink
      BY <2>1 DEF Covered
    <3>4. Owed(j)' = 0 /\ Extra(j)' + Owed(j) = 1 /\ Extra(j)' \in {0, 1}
      BY <2>3
    <3>5. Uncounted(j, L)' + Owed(j)' <= node'[j].nlink + Extra(j)'
      BY <1>1, <2>1, <3>2, <3>3, <3>4
    <3> QED BY <3>5 DEF Covered
  <2> QED BY <2>2, <2>3
<1> QED BY <1>1, <1>2, <1>3 DEF Covers

\* A link count changes: one less before the entry goes, one more after it came.
LEMMA NlinkDamage ==
  ASSUME TypeOK, NEW L, Covers(L), NEW i \in DOMAIN node, NEW c \in 0..MaxNlink,
         node' = [node EXCEPT ![i].nlink = c], UNCHANGED cuts,
         \A j \in DOMAIN node : Owed(j) = 0 /\ Owed(j)' = 0 /\ (j # i => Extra(j)' = Extra(j)),
         Extra(i)' \in {0, 1}, node[i].nlink + Extra(i) <= c + Extra(i)'
  PROVE  Covers(L)'
<1>1. NodesOK /\ \A j \in DOMAIN node : node[j] \in Node
  BY Zenon DEF TypeOK, NodesOK
<1>2. /\ DOMAIN node' = DOMAIN node /\ node'[i].nlink = c
      /\ \A j \in DOMAIN node : node'[j].ents = node[j].ents /\ (j # i => node'[j] = node[j])
  BY <1>1, NlinkOK
<1>3. /\ Slots' = Slots /\ \A e \in Slots : EntryAt(e)' = EntryAt(e)
      /\ \A j : NamesOf(j)' = NamesOf(j)
  BY <1>2, SameNames
<1>4. Dangling' = Dangling
  BY <1>2, <1>3 DEF Dangling, Exists
<1>5. ASSUME NEW j \in DOMAIN node PROVE Covered(j, L)'
  <2>1. /\ Covered(j, L) /\ Uncounted(j, L) \in Nat /\ node[j].nlink \in Nat
        /\ Extra(j) \in {0, 1} /\ Uncounted(j, L)' = Uncounted(j, L)
    BY <1>3, CoverNumbers DEF Covers, Uncounted
  <2>2. Uncounted(j, L) <= node[j].nlink + Extra(j)
    BY <2>1 DEF Covered
  <2>3. CASE j # i
    BY <1>2, <2>1, <2>2, <2>3 DEF Covered
  <2>4. CASE j = i
    <3>1. c \in Nat
      BY OpsAssumption
    <3>2. Uncounted(j, L)' + Owed(j)' <= node'[j].nlink + Extra(j)'
      BY <1>2, <2>1, <2>2, <2>4, <3>1
    <3> QED BY <3>2 DEF Covered
  <2> QED BY <2>3, <2>4
<1> QED BY <1>2, <1>4, <1>5 DEF Covers

\* The entry of unlink and rmdir goes: it is one its inode counts, or it takes
\* the place of one in L.
LEMMA DropDamage ==
  ASSUME TypeOK, TargetHeld, NEW L, Covers(L), DropEntry
  PROVE  \E M : Covers(M)'
<1> PICK i, p, n, t : i = frame.ino /\ p = frame.dir /\ n = frame.name /\ t = <<p, n>>
  OBVIOUS
<1>0. NodesOK
  BY Zenon DEF TypeOK, NodesOK
<1>1. /\ i \in DOMAIN node /\ p \in DOMAIN node /\ n \in Names /\ frame.pc \in {"unlink", "rmdir"}
      /\ SetEntry(p, n, 0) /\ frame'.pc = "idle" /\ UNCHANGED cuts
      /\ EntryAt(t) = i
  BY DEF DropEntry, Finish, NoFrame, TypeOK, Exists, At, deaths, TargetHeld, Target
<1>2. /\ Slots' = Slots /\ DOMAIN node' = DOMAIN node /\ t \in Slots /\ EntryAt(t)' = 0
      /\ \A e \in Slots : e # t => EntryAt(e)' = EntryAt(e)
      /\ \A j \in DOMAIN node : node'[j].nlink = node[j].nlink
      /\ \A j : NamesOf(j)' = (NamesOf(j) \ {t}) \cup (IF j = 0 THEN {t} ELSE {})
  <2>1. /\ Slots' = Slots /\ DOMAIN node' = DOMAIN node /\ <<p, n>> \in Slots
        /\ EntryAt(<<p, n>>)' = 0
        /\ \A e \in Slots : e # <<p, n>> => EntryAt(e)' = EntryAt(e)
        /\ \A j \in DOMAIN node : /\ node'[j].dir = node[j].dir /\ node'[j].up = node[j].up
                                  /\ node'[j].nlink = node[j].nlink
                                  /\ j # p => node'[j].ents = node[j].ents
        /\ \A j : NamesOf(j)' = (NamesOf(j) \ {<<p, n>>}) \cup (IF j = 0 THEN {<<p, n>>} ELSE {})
    BY <1>0, <1>1, EntryNames
  <2> QED BY <2>1
<1>3. /\ t \in NamesOf(i)
      /\ \A j \in DOMAIN node : /\ NamesOf(j)' = NamesOf(j) \ {t}
                                /\ j # i => t \notin NamesOf(j)
  <2>1. \A j \in DOMAIN node : j # 0
    BY CoverNumbers
  <2> QED BY <1>1, <1>2, <2>1 DEF NamesOf
<1>4. ASSUME NEW j \in DOMAIN node
      PROVE  /\ Uncounted(j, L) \in Nat /\ node[j].nlink \in Nat
             /\ IsFiniteSet(NamesOf(j) \ L)
             /\ Owed(j)' = 0 /\ Extra(j)' = 0
             /\ j # i => Uncounted(j, L) <= node[j].nlink
             /\ Uncounted(j, L) <= node[j].nlink + 1
  <2>1. /\ Uncounted(j, L) \in Nat /\ node[j].nlink \in Nat /\ IsFiniteSet(NamesOf(j) \ L)
        /\ Extra(j) \in {0, 1}
    BY CoverNumbers
  <2>2. Uncounted(j, L) + Owed(j) <= node[j].nlink + Extra(j)
    BY DEF Covers, Covered
  <2>3. Owed(j) = 0 /\ Owed(j)' = 0 /\ Extra(j)' = 0 /\ (j # i => Extra(j) = 0)
    BY <1>1 DEF Owed, Extra, At
  <2> QED BY <2>1, <2>2, <2>3
<1>5. ASSUME NEW M, IsFiniteSet(M), Cardinality(M) <= cuts, L \ {t} \subseteq M,
             Uncounted(i, M)' \in Nat, Uncounted(i, M)' <= node[i].nlink
      PROVE  Covers(M)'
  <2>1. Dangling' \subseteq M
    <3> SUFFICES ASSUME NEW e \in Slots', EntryAt(e)' # 0, ~Exists(EntryAt(e))' PROVE e \in M
      BY DEF Dangling
    <3>1. e # t
      BY <1>2
    <3>2. e \in L
      BY <1>2, <3>1, DanglingIn DEF Exists
    <3> QED BY <1>5, <3>1, <3>2
  <2>2. ASSUME NEW j \in DOMAIN node, j # i PROVE Covered(j, M)'
    <3>1. NamesOf(j)' \ M \subseteq NamesOf(j) \ L
      BY <1>3, <1>5, <2>2
    <3>2. Uncounted(j, M)' \in Nat /\ Uncounted(j, M)' <= Uncounted(j, L)
      BY <1>4, <3>1, PartCard DEF Uncounted
    <3>3. Uncounted(j, L) <= node[j].nlink
      BY <1>4, <2>2
    <3>4. Uncounted(j, M)' + Owed(j)' <= node'[j].nlink + Extra(j)'
      <4>1. Owed(j)' = 0 /\ Extra(j)' = 0 /\ node'[j].nlink = node[j].nlink
            /\ node[j].nlink \in Nat /\ Uncounted(j, L) \in Nat
        BY <1>1, <1>2, <1>4
      <4> QED BY <3>2, <3>3, <4>1
    <3> QED BY <3>4 DEF Covered
  <2>3. Covered(i, M)'
    <3>1. Owed(i)' = 0 /\ Extra(i)' = 0 /\ node'[i].nlink = node[i].nlink /\ node[i].nlink \in Nat
      BY <1>1, <1>2, <1>4
    <3>2. Uncounted(i, M)' + Owed(i)' <= node'[i].nlink + Extra(i)'
      BY <1>5, <3>1
    <3> QED BY <3>2 DEF Covered
  <2> QED BY <1>1, <1>2, <1>5, <2>1, <2>2, <2>3 DEF Covers
<1>6. /\ IsFiniteSet(L) /\ Cardinality(L) <= cuts /\ Cardinality(L) \in Nat
      /\ i \in DOMAIN node /\ node[i].nlink \in Nat /\ IsFiniteSet(NamesOf(i) \ L)
      /\ Uncounted(i, L) <= node[i].nlink + 1 /\ Uncounted(i, L) \in Nat
  BY <1>1, <1>4, FS_CardinalityType DEF Covers
<1>7. CASE t \notin L
  <2>1. NamesOf(i)' \ L \subseteq (NamesOf(i) \ L) \ {t} /\ t \in NamesOf(i) \ L
    BY <1>1, <1>3, <1>7
  <2>2. Uncounted(i, L)' \in Nat /\ Uncounted(i, L)' + 1 <= Uncounted(i, L)
    BY <1>6, <2>1, ShrunkCard DEF Uncounted
  <2>3. Uncounted(i, L)' <= node[i].nlink
    BY <1>6, <2>2
  <2> QED BY <1>5, <1>6, <2>2, <2>3
<1>8. CASE NamesOf(i) \subseteq L
  <2>1. NamesOf(i)' \ L = {}
    BY <1>1, <1>3, <1>8
  <2>2. Uncounted(i, L)' = 0
    BY <2>1, FS_EmptySet DEF Uncounted
  <2> QED BY <1>5, <1>6, <2>2
<1>9. ASSUME t \in L, NEW e \in NamesOf(i) \ L PROVE \E M : Covers(M)'
  <2> PICK M : M = (L \ {t}) \cup {e}
    OBVIOUS
  <2>1. IsFiniteSet(M) /\ Cardinality(M) <= cuts
    <3>1. /\ IsFiniteSet(L \ {t}) /\ Cardinality(L \ {t}) \in Nat
          /\ Cardinality(L \ {t}) + 1 <= Cardinality(L)
      BY <1>6, <1>9, ShrunkCard
    <3>2. IsFiniteSet(M) /\ Cardinality(M) \in Nat /\ Cardinality(M) <= Cardinality(L \ {t}) + 1
      BY <3>1, GrownCard
    <3>3. cuts \in Nat
      BY DEF TypeOK
    <3> QED BY <1>6, <3>1, <3>2, <3>3
  <2>2. NamesOf(i)' \ M \subseteq (NamesOf(i) \ L) \ {e} /\ e \in NamesOf(i) \ L
    BY <1>1, <1>3, <1>9
  <2>3. Uncounted(i, M)' \in Nat /\ Uncounted(i, M)' + 1 <= Uncounted(i, L)
    BY <1>6, <2>2, ShrunkCard DEF Uncounted
  <2>4. Uncounted(i, M)' <= node[i].nlink
    BY <1>6, <2>3
  <2> QED BY <1>5, <2>1, <2>3, <2>4
<1> QED BY <1>7, <1>8, <1>9

\* An inode that is removed has no name but those in L.
LEMMA ForgetDamage ==
  ASSUME TypeOK, NEW L, Covers(L), NEW i \in Ino, Forget(i)
  PROVE  Covers(L)'
<1> PICK k \in 1..forgets[i] : Forget(i)!(k)
  BY DEF Forget
<1>1. frame.pc = "idle" /\ frame' = frame /\ i \in DOMAIN node /\ cuts' = cuts
  BY DEF Idle, At, Exists, deaths
<1>2. CASE GiveBack(i, k)
  <2>1. node' = node
    BY <1>2 DEF GiveBack
  <2> QED BY <1>1, <2>1, QuietDamage
<1>3. CASE Dies(i, k) /\ RemoveNode(i)
  <2>1. /\ DOMAIN node' = DOMAIN node \ {i} /\ \A j \in DOMAIN node' : node'[j] = node[j]
    BY <1>3 DEF RemoveNode, Restrict
  <2>2. ASSUME NEW j \in DOMAIN node
        PROVE  /\ Uncounted(j, L) \in Nat /\ node[j].nlink \in Nat /\ IsFiniteSet(NamesOf(j) \ L)
               /\ Uncounted(j, L) <= node[j].nlink /\ Owed(j)' = 0 /\ Extra(j)' = 0
    <3>1. Uncounted(j, L) \in Nat /\ node[j].nlink \in Nat /\ IsFiniteSet(NamesOf(j) \ L)
      BY CoverNumbers
    <3>2. Uncounted(j, L) + Owed(j) <= node[j].nlink + Extra(j)
      BY DEF Covers, Covered
    <3>3. Owed(j) = 0 /\ Extra(j) = 0 /\ Owed(j)' = 0 /\ Extra(j)' = 0
      BY <1>1 DEF Owed, Extra, At
    <3> QED BY <3>1, <3>2, <3>3
  <2>3. NamesOf(i) \subseteq L
    <3>1. node[i].nlink = 0 /\ Uncounted(i, L) \in Nat /\ Uncounted(i, L) <= node[i].nlink
      BY <1>1, <1>3, <2>2 DEF Dies
    <3>2. Uncounted(i, L) = 0
      BY <3>1
    <3> QED BY <1>1, <2>2, <3>2, FS_EmptySet DEF Uncounted
  <2>4. Slots' \subseteq Slots /\ \A e \in Slots' : EntryAt(e)' = EntryAt(e)
    BY <2>1 DEF Slots, EntryAt
  <2>5. Dangling' \subseteq L
    <3> SUFFICES ASSUME NEW e \in Slots', EntryAt(e)' # 0, ~Exists(EntryAt(e))' PROVE e \in L
      BY DEF Dangling
    <3>1. e \in Slots /\ EntryAt(e) # 0
      BY <2>4
    <3>2. CASE EntryAt(e) = i
      BY <2>3, <3>1, <3>2 DEF NamesOf
    <3>3. CASE EntryAt(e) # i
      <4>1. ~Exists(EntryAt(e))
        BY <2>1, <2>4, <3>3 DEF Exists
      <4> QED BY <3>1, <4>1, DanglingIn
    <3> QED BY <3>2, <3>3
  <2>6. ASSUME NEW j \in DOMAIN node' PROVE Covered(j, L)'
    <3>1. j \in DOMAIN node /\ node'[j] = node[j]
      BY <2>1
    <3>2. NamesOf(j)' \ L \subseteq NamesOf(j) \ L
      BY <2>4 DEF NamesOf
    <3>3. Uncounted(j, L)' \in Nat /\ Uncounted(j, L)' <= Uncounted(j, L)
      BY <2>2, <3>1, <3>2, PartCard DEF Uncounted
    <3>4. Uncounted(j, L) <= node[j].nlink /\ Owed(j)' = 0 /\ Extra(j)' = 0
          /\ node'[j].nlink = node[j].nlink /\ node[j].nlink \in Nat /\ Uncounted(j, L) \in Nat
      BY <2>2, <3>1
    <3>5. Uncounted(j, L)' + Owed(j)' <= node'[j].nlink + Extra(j)'
      BY <3>3, <3>4
    <3> QED BY <3>5 DEF Covered
  <2> QED BY <1>1, <2>5, <2>6 DEF Covers
<1> QED BY <1>2, <1>3

\* A kill in the middle of unlink, rmdir or link: one name more is in L.
LEMMA CutDamage ==
  ASSUME TypeOK, NEW L, Covers(L), frame.pc \in {"unlink", "rmdir", "link"},
         UNCHANGED node, frame'.pc = "down", cuts' = cuts + 1
  PROVE  \E M : Covers(M)'
<1> PICK i : i = frame.ino
  OBVIOUS
<1>1. Dangling' = Dangling /\ (\A j : NamesOf(j)' = NamesOf(j)) /\ i \in DOMAIN node /\ cuts \in Nat
  BY DEF Dangling, Slots, EntryAt, Exists, NamesOf, TypeOK
<1>2. ASSUME NEW j \in DOMAIN node
      PROVE  /\ Uncounted(j, L) \in Nat /\ node[j].nlink \in Nat
             /\ IsFiniteSet(NamesOf(j) \ L)
             /\ Owed(j)' = 0 /\ Extra(j)' = 0
             /\ j # i => Uncounted(j, L) <= node[j].nlink
             /\ Uncounted(j, L) <= node[j].nlink + 1
  <2>1. /\ Uncounted(j, L) \in Nat /\ node[j].nlink \in Nat /\ IsFiniteSet(NamesOf(j) \ L)
        /\ Extra(j) \in {0, 1}
    BY CoverNumbers
  <2>2. Uncounted(j, L) + Owed(j) <= node[j].nlink + Extra(j)
    BY DEF Covers, Covered
  <2>3. Owed(j) = 0 /\ Owed(j)' = 0 /\ Extra(j)' = 0 /\ (j # i => Extra(j) = 0)
    BY DEF Owed, Extra, At
  <2> QED BY <2>1, <2>2, <2>3
<1>3. ASSUME NEW M, IsFiniteSet(M), Cardinality(M) <= cuts + 1, L \subseteq M,
             Uncounted(i, M)' \in Nat, Uncounted(i, M)' <= node[i].nlink
      PROVE  Covers(M)'
  <2>1. Dangling' \subseteq M
    BY <1>1, <1>3 DEF Covers
  <2>2. ASSUME NEW j \in DOMAIN node, j # i PROVE Covered(j, M)'
    <3>1. NamesOf(j)' \ M \subseteq NamesOf(j) \ L
      BY <1>1, <1>3
    <3>2. Uncounted(j, M)' \in Nat /\ Uncounted(j, M)' <= Uncounted(j, L)
      BY <1>2, <3>1, PartCard DEF Uncounted
    <3>3. Uncounted(j, L) <= node[j].nlink
      BY <1>2, <2>2
    <3>4. Uncounted(j, M)' + Owed(j)' <= node'[j].nlink + Extra(j)'
      <4>1. Owed(j)' = 0 /\ Extra(j)' = 0 /\ node'[j].nlink = node[j].nlink
            /\ node[j].nlink \in Nat /\ Uncounted(j, L) \in Nat
        BY <1>1, <1>2
      <4> QED BY <3>2, <3>3, <4>1
    <3> QED BY <3>4 DEF Covered
  <2>3. Covered(i, M)'
    <3>1. Owed(i)' = 0 /\ Extra(i)' = 0 /\ node'[i].nlink = node[i].nlink /\ node[i].nlink \in Nat
      BY <1>1, <1>2
    <3>2. Uncounted(i, M)' + Owed(i)' <= node'[i].nlink + Extra(i)'
      BY <1>3, <3>1
    <3> QED BY <3>2 DEF Covered
  <2> QED BY <1>3, <2>1, <2>2, <2>3 DEF Covers
<1>4. /\ IsFiniteSet(L) /\ Cardinality(L) <= cuts /\ Cardinality(L) \in Nat
      /\ node[i].nlink \in Nat /\ IsFiniteSet(NamesOf(i) \ L)
      /\ Uncounted(i, L) <= node[i].nlink + 1 /\ Uncounted(i, L) \in Nat
  BY <1>1, <1>2, FS_CardinalityType DEF Covers
<1>5. CASE NamesOf(i) \subseteq L
  <2>1. NamesOf(i)' \ L = {}
    BY <1>1, <1>5
  <2>2. Uncounted(i, L)' = 0
    BY <2>1, FS_EmptySet DEF Uncounted
  <2>3. Cardinality(L) <= cuts + 1
    BY <1>1, <1>4
  <2> QED BY <1>3, <1>4, <2>2, <2>3
<1>6. ASSUME NEW e \in NamesOf(i) \ L PROVE \E M : Covers(M)'
  <2> PICK M : M = L \cup {e}
    OBVIOUS
  <2>1. IsFiniteSet(M) /\ Cardinality(M) <= cuts + 1
    <3>1. IsFiniteSet(M) /\ Cardinality(M) \in Nat /\ Cardinality(M) <= Cardinality(L) + 1
      BY <1>4, GrownCard
    <3> QED BY <1>1, <1>4, <3>1
  <2>2. NamesOf(i)' \ M \subseteq (NamesOf(i) \ L) \ {e}
    BY <1>1
  <2>3. Uncounted(i, M)' \in Nat /\ Uncounted(i, M)' + 1 <= Uncounted(i, L)
    BY <1>4, <2>2, ShrunkCard DEF Uncounted
  <2>4. Uncounted(i, M)' <= node[i].nlink
    BY <1>4, <2>3
  <2> QED BY <1>3, <2>1, <2>3, <2>4
<1> QED BY <1>5, <1>6

\* unlink and rmdir count the link off before the entry goes.
LEMMA UnlinkDamage ==
  ASSUME TypeOK, NEW L, Covers(L), Unlink \/ Rmdir
  PROVE  Covers(L)' /\ TargetHeld'
<1> PICK p \in Ino, n \in Names : Unlink!(p, n) \/ Rmdir!(p, n)
  BY DEF Unlink, Rmdir
<1> PICK i : i = node[p].ents[n]
  OBVIOUS
<1>0. NodesOK /\ \A j \in DOMAIN node : node[j] \in Node
  BY Zenon DEF TypeOK, NodesOK
<1>1. /\ i \in DOMAIN node /\ p \in DOMAIN node /\ i # 0
      /\ node' = [node EXCEPT ![i].nlink = Dec(@)] /\ UNCHANGED cuts
      /\ frame.pc = "idle" /\ frame'.pc \in {"unlink", "rmdir"}
      /\ frame'.ino = i /\ frame'.dir = p /\ frame'.name = n
  BY DEF Parent, Exists, deaths, Idle, At
<1> PICK c : c = Dec(node[i].nlink)
  OBVIOUS
<1>2. c \in 0..MaxNlink /\ node' = [node EXCEPT ![i].nlink = c] /\ node[i].nlink <= c + 1
      /\ node[i].nlink \in Nat
  <2>1. node[i].nlink \in 0..MaxNlink /\ MaxNlink \in Nat
    BY <1>0, <1>1, OpsAssumption DEF Node
  <2> QED BY <1>1, <2>1, DecOK DEF Dec
<1>3. Covers(L)'
  <2>1. \A j \in DOMAIN node : Owed(j) = 0 /\ Owed(j)' = 0 /\ (j # i => Extra(j)' = Extra(j))
    BY <1>1 DEF Owed, Extra, At
  <2>2. Extra(i) = 0 /\ Extra(i)' = 1
    BY <1>1 DEF Extra
  <2>3. node[i].nlink + Extra(i) <= c + Extra(i)' /\ Extra(i)' \in {0, 1}
    BY <1>2, <2>2
  <2> QED BY <1>1, <1>2, <2>1, <2>3, NlinkDamage
<1>4. TargetHeld'
  <2>1. /\ DOMAIN node' = DOMAIN node /\ \A j \in DOMAIN node : node'[j].ents = node[j].ents
    BY <1>0, <1>1, <1>2, NlinkOK
  <2> QED BY <1>1, <2>1 DEF TargetHeld, Target, EntryAt
<1> QED BY <1>3, <1>4

\* mknod and mkdir, and the first mount of an empty chat, make a node.
LEMMA MakeDamage ==
  ASSUME TypeOK, NEW L, Covers(L), Make \/ MakeRoot
  PROVE  Covers(L)' /\ TargetHeld'
<1>1. CASE MakeRoot
  <2>1. Root \in Ino
    BY OpsAssumption DEF Root, Ino
  <2>2. /\ ~Exists(Root) /\ AddNode(Root, NewNode(TRUE, Root)) /\ frame.pc = "down"
        /\ UNCHANGED cuts /\ frame'.pc = "idle"
    BY <1>1 DEF MakeRoot, At, Finish, NoFrame, deaths
  <2>3. Covers(L)'
    BY <2>1, <2>2, NewDamage
  <2> QED BY <2>2, <2>3 DEF TargetHeld
<1>2. CASE Make
  <2> PICK p \in Ino, n \in Names, d \in BOOLEAN : Make!(p, n, d)
    BY <1>2 DEF Make
  <2> PICK i \in Ino : i = Min(NewInos)
    BY NewIno
  <2>1. ~Exists(i)
    BY NewIno
  <2>2. /\ AddNode(i, NewNode(d, p)) /\ frame.pc = "idle" /\ UNCHANGED cuts
        /\ frame'.pc = "make" /\ frame'.ino = i
    BY DEF Idle, At, deaths
  <2>3. Covers(L)'
    BY <2>1, <2>2, NewDamage
  <2> QED BY <2>2, <2>3 DEF TargetHeld
<1> QED BY <1>1, <1>2

\* The entry of mknod, mkdir and link comes.
LEMMA NameDamage ==
  ASSUME TypeOK, NEW L, Covers(L), NameMade \/ Link
  PROVE  Covers(L)' /\ TargetHeld'
<1>1. CASE NameMade
  <2> PICK i, p, n : i = frame.ino /\ p = frame.dir /\ n = frame.name
    OBVIOUS
  <2>1. /\ i \in DOMAIN node /\ p \in DOMAIN node /\ n \in Names /\ frame.pc = "make"
        /\ SetEntry(p, n, i) /\ frame'.pc = "idle" /\ UNCHANGED cuts
    BY <1>1 DEF NameMade, ReplyEntry, Finish, NoFrame, TypeOK, Exists, At, deaths
  <2>2. \A j \in DOMAIN node : /\ Extra(j) = 0 /\ Owed(j)' = 0 /\ Extra(j)' = 0
                               /\ j = i => Owed(i) = 1
    BY <2>1 DEF Owed, Extra, At
  <2>3. Covers(L)'
    BY <2>1, <2>2, NamedDamage
  <2> QED BY <2>1, <2>3 DEF TargetHeld
<1>2. CASE Link
  <2> PICK p \in Ino, n \in Names, i \in DOMAIN node : Link!(p, n, i)
    BY <1>2 DEF Link
  <2>1. /\ p \in DOMAIN node /\ SetEntry(p, n, i) /\ frame.pc = "idle" /\ UNCHANGED cuts
        /\ frame'.pc = "link" /\ frame'.ino = i
    BY DEF Parent, Idle, At, Exists, deaths
  <2>2. \A j \in DOMAIN node : /\ Extra(j) = 0 /\ Owed(j)' = 0 /\ Extra(j)' \in {0, 1}
                               /\ j = i => Owed(i) = 0 /\ Extra(i)' = 1
    BY <2>1 DEF Owed, Extra, At
  <2>3. Covers(L)'
    BY <2>1, <2>2, NamedDamage
  <2> QED BY <2>1, <2>3 DEF TargetHeld
<1> QED BY <1>1, <1>2

\* link counts its link.
LEMMA CountLinkDamage ==
  ASSUME TypeOK, LinkFits, NEW L, Covers(L), CountLink
  PROVE  Covers(L)' /\ TargetHeld'
<1> PICK i : i = frame.ino
  OBVIOUS
<1>1. /\ i \in DOMAIN node /\ frame.pc = "link" /\ frame'.pc = "idle" /\ UNCHANGED cuts
      /\ node' = [node EXCEPT ![i].nlink = @ + 1] /\ node[i].nlink + 1 \in 0..MaxNlink
  BY DEF CountLink, ReplyEntry, Finish, NoFrame, TypeOK, Exists, At, deaths, LinkFits
<1> PICK c : c = node[i].nlink + 1
  OBVIOUS
<1>2. c \in 0..MaxNlink /\ node' = [node EXCEPT ![i].nlink = c]
  BY <1>1
<1>3. \A j \in DOMAIN node : Owed(j) = 0 /\ Owed(j)' = 0 /\ (j # i => Extra(j)' = Extra(j))
  BY <1>1 DEF Owed, Extra, At
<1>4. Extra(i) = 1 /\ Extra(i)' = 0
  BY <1>1 DEF Extra
<1>5. node[i].nlink + Extra(i) <= c + Extra(i)' /\ Extra(i)' \in {0, 1}
  BY <1>2, <1>4, CoverNumbers, <1>1
<1>6. Covers(L)'
  BY <1>1, <1>2, <1>3, <1>5, NlinkDamage
<1> QED BY <1>1, <1>6 DEF TargetHeld

\* Every step keeps the damage within the cuts.
LEMMA DamageStep == TypeOK /\ LinkFits /\ Damage /\ [Next]_vars => Damage'
<1> SUFFICES ASSUME TypeOK, LinkFits, Damage, [Next]_vars PROVE Damage'
  OBVIOUS
<1>0. PICK L : Covers(L)
  BY DEF Damage
<1>1. TargetHeld
  BY DEF Damage
<1>2. CASE Lookup \/ LookupFails \/ (\E i \in Ino : KernelForget(i)) \/ UNCHANGED vars
  <2>1. UNCHANGED <<node, frame, deaths>>
    BY <1>2, Zenon DEF Lookup, LookupFails, KernelForget, vars
  <2>2. UNCHANGED <<node, cuts, frame>>
    BY <2>1 DEF deaths
  <2>3. Covers(L)'
    BY <1>0, <2>2, QuietDamage
  <2> QED BY <1>1, <2>2, <2>3 DEF Damage, TargetHeld, Target, EntryAt
<1>3. CASE MountExisting
  <2>1. UNCHANGED <<node, cuts>> /\ frame.pc = "down" /\ frame'.pc = "idle"
    BY <1>3 DEF MountExisting, Finish, NoFrame, deaths, At
  <2>2. Covers(L)'
    BY <1>0, <2>1, QuietDamage
  <2> QED BY <2>1, <2>2 DEF Damage, TargetHeld
<1>4. CASE Make \/ MakeRoot
  BY <1>0, <1>4, MakeDamage DEF Damage
<1>5. CASE NameMade \/ Link
  BY <1>0, <1>5, NameDamage DEF Damage
<1>6. CASE CountLink
  BY <1>0, <1>6, CountLinkDamage DEF Damage
<1>7. CASE Unlink \/ Rmdir
  BY <1>0, <1>7, UnlinkDamage DEF Damage
<1>8. CASE DropEntry
  <2>1. TargetHeld'
    BY <1>8 DEF DropEntry, Finish, NoFrame, TargetHeld
  <2> QED BY <1>0, <1>1, <1>8, <2>1, DropDamage DEF Damage
<1>9. CASE \E i \in Ino : Forget(i)
  <2>1. TargetHeld'
    BY <1>9 DEF Forget, Idle, At, TargetHeld
  <2> QED BY <1>0, <1>9, <2>1, ForgetDamage DEF Damage
<1>10. CASE Segv
  <2>1. UNCHANGED <<node, cuts>> /\ frame.pc = "idle" /\ frame'.pc = "down"
    BY <1>10 DEF Segv, Vanish, NoFrame, deaths, Idle, At
  <2>2. Covers(L)'
    BY <1>0, <2>1, QuietDamage
  <2> QED BY <2>1, <2>2 DEF Damage, TargetHeld
<1>11. CASE Kill
  <2>1. UNCHANGED node /\ frame'.pc = "down" /\ TargetHeld'
    BY <1>11 DEF Kill, Vanish, NoFrame, TargetHeld
  <2>2. CASE frame.pc \in {"unlink", "rmdir", "link"}
    <3>1. cuts' = cuts + 1
      BY <1>11, <2>2 DEF Kill
    <3> QED BY <1>0, <2>1, <2>2, <3>1, CutDamage DEF Damage
  <2>3. CASE frame.pc \notin {"unlink", "rmdir", "link"}
    <3>1. cuts' = cuts
      BY <1>11, <2>3 DEF Kill
    <3>2. Covers(L)'
      BY <1>0, <2>1, <2>3, <3>1, QuietDamage
    <3> QED BY <2>1, <3>2 DEF Damage
  <2> QED BY <2>2, <2>3
<1> QED
  BY <1>2, <1>3, <1>4, <1>5, <1>6, <1>7, <1>8, <1>9, <1>10, <1>11 DEF Next, Mount, Step, Ask

\* Nothing is lost at first.
LEMMA InitDamage == Init => Damage
<1> SUFFICES ASSUME Init PROVE Damage
  OBVIOUS
<1>1. DOMAIN node = {} /\ Dangling = {} /\ frame.pc = "down" /\ cuts = 0
  BY DEF Init, Dangling, Slots, NoFrame
<1>2. Covers({})
  BY <1>1, FS_EmptySet DEF Covers
<1> QED BY <1>1, <1>2 DEF Damage, TargetHeld

\* Wherever the mount is killed and however often, the kills between the two
\* uploads of unlink, rmdir or link account, one each, for the names that lead
\* nowhere (each ends the process of the next lookup of it) and for those that
\* their inode does not count (it can be removed while they lead to it).
THEOREM DamageBoundedAlways == Spec => []DamageBounded
<1>1. Init => Inv /\ Damage
  BY InitInv, InitDamage
<1>2. Inv /\ Damage /\ [Next]_vars => (Inv /\ Damage)'
  BY TypeStep, FitsStep, ServedStep, DamageStep DEF Inv
<1>3. Inv /\ Damage => DamageBounded
  <2> SUFFICES ASSUME TypeOK, NEW L0, Covers(L0), frame.pc \in {"idle", "down"}
               PROVE  \E L \in SUBSET Slots :
                        /\ Cardinality(L) <= cuts
                        /\ Dangling \subseteq L
                        /\ \A i \in DOMAIN node : Cardinality(NamesOf(i) \ L) <= node[i].nlink
    BY DEF Inv, Damage, DamageBounded, At
  <2> DEFINE L == L0 \cap Slots
  <2>1. L \in SUBSET Slots /\ Dangling \subseteq L
    BY DEF Covers, Dangling
  <2>2. Cardinality(L) <= cuts
    <3>1. IsFiniteSet(L0) /\ Cardinality(L0) <= cuts /\ cuts \in Nat
      BY DEF Covers, TypeOK
    <3>2. /\ Cardinality(L) \in Nat /\ Cardinality(L0) \in Nat
          /\ Cardinality(L) <= Cardinality(L0)
      BY <3>1, PartCard
    <3> HIDE DEF L
    <3> QED BY <3>1, <3>2
  <2>3. ASSUME NEW i \in DOMAIN node PROVE Cardinality(NamesOf(i) \ L) <= node[i].nlink
    <3>1. NamesOf(i) \ L = NamesOf(i) \ L0
      BY DEF NamesOf
    <3>2. Covered(i, L0) /\ Owed(i) = 0 /\ Extra(i) = 0
      BY NothingOwed DEF Covers
    <3>3. Uncounted(i, L0) \in Nat /\ node[i].nlink \in Nat
      BY CoverNumbers
    <3> HIDE DEF L
    <3> QED BY <3>1, <3>2, <3>3 DEF Covered, Uncounted
  <2> HIDE DEF L
  <2> QED BY <2>1, <2>2, <2>3
<1> QED BY <1>1, <1>2, <1>3, PTL DEF Spec
=============================================================================
