------------------------------ MODULE FileTree ------------------------------
(***************************************************************************)
(* What the handlers of tgfs_ops.cpp promise of names and files.  A name   *)
(* appears and disappears at once, and a file lives until it has neither a *)
(* name nor a reference from the kernel; a directory with entries is never *)
(* removed.  When the process dies the references end; a file that was     *)
(* being made may stay without a name, as those that had lost it do.  All  *)
(* this until the process dies in the middle of a change of names.         *)
(***************************************************************************)
CONSTANTS Nodes,  \* inode numbers
          Names,  \* of directory entries
          Root    \* the root directory, in Nodes

VARIABLES entries,  \* set of <<directory, name, file>>
          files,    \* the files and directories that exist
          held,     \* those the kernel refers to
          torn      \* a change was cut in two: nothing is promised any more

treeVars == <<entries, files, held, torn>>

Named(i) == \E e \in entries : e[3] = i
Free(d, n) == d \in files /\ ~\E e \in entries : e[1] = d /\ e[2] = n

Init == entries = {} /\ files = {} /\ held = {} /\ torn = FALSE

MakeRoot == /\ Root \notin files
            /\ files' = files \cup {Root}
            /\ UNCHANGED <<entries, held>>

Create(d, n, i) == /\ Free(d, n) /\ i \notin files
                   /\ entries' = entries \cup {<<d, n, i>>}
                   /\ files' = files \cup {i}
                   /\ held' = held \cup {i}

Link(d, n, i) == /\ Free(d, n) /\ i \in files \cap held
                 /\ entries' = entries \cup {<<d, n, i>>}
                 /\ UNCHANGED <<files, held>>

Unlink == \E e \in entries : /\ entries' = entries \ {e}
                             /\ UNCHANGED <<files, held>>

Lookup(i) == /\ Named(i) /\ i \in files
             /\ held' = held \cup {i}
             /\ UNCHANGED <<entries, files>>

Release(i) == /\ i \in held
              /\ held' = held \ {i}
              /\ \/ UNCHANGED files
                 \/ /\ ~Named(i) /\ ~\E e \in entries : e[1] = i
                    /\ files' = files \ {i}
              /\ UNCHANGED entries

Die == /\ held' = {}
       /\ \/ UNCHANGED files
          \/ \E i \in Nodes \ files : ~Named(i) /\ files' = files \cup {i}
       /\ UNCHANGED entries

Change == \/ MakeRoot \/ Unlink \/ Die
          \/ \E i \in Nodes : Lookup(i) \/ Release(i)
          \/ \E d \in Nodes, n \in Names, i \in Nodes : Create(d, n, i) \/ Link(d, n, i)

Next == torn' = TRUE \/ (UNCHANGED torn /\ Change)

Spec == Init /\ [][Next]_treeVars
=============================================================================
