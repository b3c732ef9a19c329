------------------------------- MODULE TgfsDir -------------------------------
(***************************************************************************)
(* One directory: the table of tgfs_dir.cpp, which gives each entry a      *)
(* rowid, and a listing of it, which readdir answers in pieces while names *)
(* come and go.  The offset of an entry is its rowid; the kernel asks for  *)
(* the next piece from the last entry that it has passed on.               *)
(***************************************************************************)
EXTENDS Naturals, FiniteSets, FiniteSetsExt

CONSTANTS Names,     \* of entries, other than "." and ".."
          Quoted,    \* the names with an apostrophe, which the SQL cannot hold
          MaxRow,    \* bound: rowids
          MaxReply   \* how many entries are passed on from one reply

VARIABLES row,    \* name -> rowid of its entry, 0 if there is none
          off,    \* the offset of the last entry passed on
          ended,  \* readdir has said that there is no more
          seen,   \* name -> how often the listing has passed it on
          old,    \* the entries that were there when the listing began
          gone    \* names removed since then

listing == <<off, ended, seen, old>>
vars == <<row, listing, gone>>

Dots == {".", ".."}
Keys == Names \cup Dots

ASSUME DirAssumption ==
    /\ IsFiniteSet(Names) /\ Names \cap Dots = {}
    /\ Quoted \subseteq Names
    /\ MaxRow \in Nat /\ MaxRow > 1 /\ MaxReply \in Nat \ {0}

Contains(k) == row[k] # 0
Present == {k \in Keys : Contains(k)}

\* tgfs_dir::init.
Init ==
    /\ row = [k \in Keys |-> IF k = "." THEN 1 ELSE IF k = ".." THEN 2 ELSE 0]
    /\ off = 0 /\ ended = FALSE
    /\ seen = [k \in Keys |-> 0]
    /\ old = Dots
    /\ gone = {}

-----------------------------------------------------------------------------
(* The table.  mknod, mkdir and link set a name that the table does not    *)
(* contain; unlink and rmdir remove one that it does.                      *)

\* Mutant: rows are numbered by their count.
NewRowCounted == Cardinality(Present) + 1

\* The rowid of a new row is one more than the greatest.
NewRow == Max({row[k] : k \in Present}) + 1

\* A statement that is not SQL fails, and set ignores the error.
Set(n) ==
    /\ ~Contains(n)
    /\ NewRow <= MaxRow
    /\ row' = IF n \in Quoted THEN row ELSE [row EXCEPT ![n] = NewRow]
    /\ UNCHANGED <<listing, gone>>

Remove(n) ==
    /\ Contains(n)
    /\ row' = [row EXCEPT ![n] = 0]
    /\ gone' = gone \cup {n}
    /\ UNCHANGED listing

\* Mutant: three rows count as none.
EmptyOfThree == Cardinality(Present) <= 3

\* COUNT of at most 3 rows is less than 3.
Empty == Cardinality(Present) < 3

-----------------------------------------------------------------------------
(* readdir.                                                                *)

\* Mutant: the offset counts the rows that are skipped.
RowsSkipping(from, to) ==
    {k \in Present : /\ row[k] <= to
                     /\ Cardinality({j \in Present : row[j] < row[k]}) >= from}

\* The rows after an offset, up to the one with which the piece ends.
Rows(from, to) == {k \in Present : from < row[k] /\ row[k] <= to}

\* The entries that fit are passed on; the one that does not is read again.
Readdir == \E to \in {row[k] : k \in Keys} :
    /\ ~ended
    /\ off < to
    /\ Cardinality(Rows(off, to)) <= MaxReply
    /\ seen' = [k \in Keys |-> IF k \in Rows(off, to) THEN seen[k] + 1 ELSE seen[k]]
    /\ off' = to
    /\ UNCHANGED <<row, ended, old, gone>>

ReaddirEnds ==
    /\ ~ended
    /\ \A k \in Keys : row[k] <= off
    /\ ended' = TRUE
    /\ UNCHANGED <<row, off, seen, old, gone>>

\* Another listing.
Opendir ==
    /\ off' = 0 /\ ended' = FALSE
    /\ seen' = [k \in Keys |-> 0]
    /\ old' = Present
    /\ gone' = {}
    /\ UNCHANGED row

-----------------------------------------------------------------------------
Next == \/ \E n \in Names : Set(n) \/ Remove(n)
        \/ Readdir \/ ReaddirEnds \/ Opendir

Spec == Init /\ [][Next]_vars

-----------------------------------------------------------------------------
(* Properties.                                                             *)

\* Every variable keeps its type; "." and ".." keep the first rows, and no two
\* entries share one.
TypeOK ==
    /\ row \in [Keys -> 0..MaxRow]
    /\ row["."] = 1 /\ row[".."] = 2
    /\ \A j, k \in Present : row[j] = row[k] => j = k
    /\ off \in Nat
    /\ ended \in BOOLEAN
    /\ seen \in [Keys -> Nat]
    /\ old \subseteq Keys
    /\ gone \subseteq Names

\* A listing shows each entry once, whatever is made and removed between its
\* pieces: what was there all the time exactly once by its end, and what came
\* later at most once, unless it went and came again.
ListedOnce == \A k \in Keys \ gone :
    /\ seen[k] <= 1
    /\ ended /\ k \in old => seen[k] = 1

\* rmdir finds a directory empty when it has no entries but "." and "..",
\* which have not been taken for others.
EmptyMeansNoNames == Empty <=> ~\E n \in Names : Contains(n)
=============================================================================
