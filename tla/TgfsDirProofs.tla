---------------------------- MODULE TgfsDirProofs ----------------------------
(***************************************************************************)
(* Proofs about TgfsDir for any set of names and any size of replies.      *)
(*                                                                         *)
(* ListedOnce is not inductive: Listed adds that what is behind the offset *)
(* has been passed on and what is before it has not.                       *)
(***************************************************************************)
EXTENDS TgfsDir, NatSetLemmas

\* Where the listing stands.  What was removed since it began may come again.
Listed == \A k \in Keys \ gone :
    /\ seen[k] <= 1
    /\ row[k] > off \/ row[k] = 0 => seen[k] = 0
    /\ k \in old => row[k] # 0 /\ (row[k] <= off => seen[k] = 1)
    /\ ended /\ k \in old => row[k] <= off

Inv == TypeOK /\ Listed

LEMMA KeysFacts == /\ "." \in Keys /\ ".." \in Keys /\ "." # ".."
                   /\ "." \notin Names /\ ".." \notin Names
                   /\ IsFiniteSet(Keys) /\ MaxRow \in Nat /\ MaxRow > 1 /\ Names \subseteq Keys
<1>1. "." \notin Names /\ ".." \notin Names /\ MaxRow \in Nat /\ MaxRow > 1
  BY DirAssumption DEF Dots
<1>2. IsFiniteSet({"."}) /\ IsFiniteSet({".."})
  BY FS_Singleton
<1>3. Dots = {"."} \cup {".."} /\ Keys = Names \cup Dots
  BY DEF Dots, Keys
<1>4. IsFiniteSet(Dots)
  BY <1>2, <1>3, FS_Union
<1>5. IsFiniteSet(Keys)
  BY <1>3, <1>4, DirAssumption, FS_Union
<1>6. "." # ".."
  OBVIOUS
<1> QED BY <1>1, <1>3, <1>5, <1>6

LEMMA InitInv == Init => Inv
<1> SUFFICES ASSUME Init PROVE TypeOK /\ Listed
  BY DEF Inv
<1>1. row \in [Keys -> 0..MaxRow] /\ row["."] = 1 /\ row[".."] = 2
      /\ \A k \in Keys : row[k] # 0 => k = "." \/ k = ".."
  BY KeysFacts DEF Init
<1>2. TypeOK
  <2>1. \A j, k \in Present : row[j] = row[k] => j = k
    BY <1>1 DEF Present, Contains
  <2>2. off = 0 /\ ended = FALSE /\ seen \in [Keys -> Nat] /\ old \subseteq Keys /\ gone \subseteq Names
    BY DEF Init, Keys
  <2> QED BY <1>1, <2>1, <2>2 DEF TypeOK
<1>3. Listed
  BY <1>1 DEF Init, Listed, Dots, Keys
<1> QED BY <1>2, <1>3

\* The new row comes after all the others.
LEMMA NewRowIsLast ==
  ASSUME TypeOK
  PROVE  NewRow \in Nat /\ \A k \in Keys : row[k] < NewRow
<1> DEFINE T == {row[k] : k \in Present}
<1>1. T \in SUBSET (1..MaxRow) /\ T # {}
  BY KeysFacts DEF TypeOK, Present, Contains
<1>2. MaxRow \in Nat
  BY KeysFacts
<1>3. PICK x \in T : \A y \in T : x >= y
  <2> HIDE DEF T
  <2> QED BY <1>1, <1>2, Greatest
<1>4. Max(T) \in T /\ \A y \in T : Max(T) >= y
  <2> HIDE DEF T
  <2> QED BY <1>3 DEF Max
<1>5. Max(T) \in Nat /\ NewRow = Max(T) + 1 /\ NewRow \in Nat /\ 0 < NewRow
  BY <1>1, <1>4 DEF NewRow
<1>6. ASSUME NEW k \in Keys PROVE row[k] < NewRow
  <2>1. CASE row[k] = 0
    <3>1. 0 < NewRow
      BY <1>5
    <3> QED BY <2>1, <3>1
  <2>2. CASE row[k] # 0
    <3>1. row[k] \in T
      BY <2>2 DEF Present, Contains
    <3>2. row[k] \in Nat
      BY KeysFacts DEF TypeOK
    <3>3. Max(T) >= row[k]
      <4> HIDE DEF T
      <4> QED BY <1>4, <3>1
    <3>4. Max(T) \in Nat /\ NewRow = Max(T) + 1
      BY <1>5
    <3> HIDE DEF T
    <3> QED BY <3>2, <3>3, <3>4
  <2> QED BY <2>1, <2>2
<1> QED BY <1>5, <1>6

LEMMA SetInv == ASSUME Inv, NEW n \in Names, Set(n) PROVE Inv'
<1>1. TypeOK /\ Listed /\ n \in Keys /\ row[n] = 0
      /\ UNCHANGED <<off, ended, seen, old, gone>>
  BY KeysFacts DEF Inv, Set, Contains, listing
<1>2. CASE n \in Quoted
  <2>1. row' = row
    BY <1>2 DEF Set
  <2> QED BY <1>1, <2>1 DEF Inv, TypeOK, Listed, Present, Contains
<1>3. CASE n \notin Quoted
  <2>1. row' = [row EXCEPT ![n] = NewRow] /\ NewRow <= MaxRow
    BY <1>3 DEF Set
  <2>2. NewRow \in Nat /\ NewRow > 0 /\ \A k \in Keys : row[k] < NewRow
    BY <1>1, NewRowIsLast, KeysFacts DEF TypeOK
  <2>3. row \in [Keys -> 0..MaxRow] /\ row["."] = 1 /\ row[".."] = 2
        /\ \A j, k \in Present : row[j] = row[k] => j = k
    BY <1>1 DEF TypeOK
  <2>4. row' \in [Keys -> 0..MaxRow] /\ row'[n] = NewRow /\ \A k \in Keys : k # n => row'[k] = row[k]
    BY <1>1, <2>1, <2>2, <2>3, KeysFacts
  <2>5. (\A j, k \in Present : row[j] = row[k] => j = k)'
    BY <2>2, <2>3, <2>4 DEF Present, Contains
  <2>6. row'["."] = 1 /\ row'[".."] = 2
    BY <2>3, <2>4, KeysFacts
  <2>7. TypeOK'
    BY <1>1, <2>4, <2>5, <2>6 DEF TypeOK
  <2>8. Listed'
    <3> SUFFICES ASSUME NEW k \in Keys \ gone
                 PROVE  /\ seen[k] <= 1
                        /\ row'[k] > off \/ row'[k] = 0 => seen[k] = 0
                        /\ k \in old => row'[k] # 0 /\ (row'[k] <= off => seen[k] = 1)
                        /\ ended /\ k \in old => row'[k] <= off
      BY <1>1 DEF Listed
    <3>1. CASE k = n
      BY <1>1, <3>1, <2>2, <2>4 DEF Listed
    <3>2. CASE k # n
      BY <1>1, <3>2, <2>4 DEF Listed
    <3> QED BY <3>1, <3>2
  <2> QED BY <2>7, <2>8 DEF Inv
<1> QED BY <1>2, <1>3

LEMMA RemoveInv == ASSUME Inv, NEW n \in Names, Remove(n) PROVE Inv'
<1>1. TypeOK /\ Listed /\ n \in Keys /\ n # "." /\ n # ".."
      /\ row' = [row EXCEPT ![n] = 0] /\ gone' = gone \cup {n}
      /\ UNCHANGED <<off, ended, seen, old>>
  BY KeysFacts DEF Inv, Remove, listing
<1>2. row \in [Keys -> 0..MaxRow] /\ MaxRow \in Nat
  BY <1>1, KeysFacts DEF TypeOK
<1>3. row' \in [Keys -> 0..MaxRow] /\ row'[n] = 0 /\ \A k \in Keys : k # n => row'[k] = row[k]
  BY <1>1, <1>2
<1>4. TypeOK'
  BY <1>1, <1>3, KeysFacts DEF TypeOK, Present, Contains
<1>5. Listed'
  BY <1>1, <1>3 DEF Listed
<1> QED BY <1>4, <1>5 DEF Inv

LEMMA ReaddirInv == ASSUME Inv, Readdir PROVE Inv'
<1>1. TypeOK /\ Listed /\ ended = FALSE
  BY DEF Inv, Readdir, TypeOK
<1>2. PICK to \in {row[k] : k \in Keys} :
        /\ off < to /\ off' = to
        /\ seen' = [k \in Keys |-> IF k \in Rows(off, to) THEN seen[k] + 1 ELSE seen[k]]
        /\ UNCHANGED <<row, ended, old, gone>>
  BY DEF Readdir
<1>3. to \in Nat /\ off \in Nat /\ \A k \in Keys : row[k] \in Nat /\ seen[k] \in Nat
  BY <1>1, KeysFacts DEF TypeOK
<1>4. \A k \in Keys : seen'[k] = IF off < row[k] /\ row[k] <= to THEN seen[k] + 1 ELSE seen[k]
  BY <1>2, <1>3 DEF Rows, Present, Contains
<1>5. seen' \in [Keys -> Nat]
  BY <1>2, <1>3
<1>6. TypeOK'
  BY <1>1, <1>2, <1>3, <1>5 DEF TypeOK, Present, Contains
<1>7. Listed'
  <2> SUFFICES ASSUME NEW k \in Keys \ gone
               PROVE  /\ seen'[k] <= 1
                      /\ row[k] > to \/ row[k] = 0 => seen'[k] = 0
                      /\ k \in old => row[k] # 0 /\ (row[k] <= to => seen'[k] = 1)
                      /\ ended /\ k \in old => row[k] <= to
    BY <1>2 DEF Listed
  <2>1. /\ seen[k] <= 1
        /\ row[k] > off \/ row[k] = 0 => seen[k] = 0
        /\ k \in old => row[k] # 0 /\ (row[k] <= off => seen[k] = 1)
    BY <1>1 DEF Listed
  <2> QED BY <1>1, <1>2, <1>3, <1>4, <2>1
<1> QED BY <1>6, <1>7 DEF Inv

LEMMA EndInv == ASSUME Inv, ReaddirEnds \/ Opendir PROVE Inv'
<1>1. TypeOK /\ Listed
  BY DEF Inv
<1>2. CASE ReaddirEnds
  BY <1>1, <1>2 DEF ReaddirEnds, Inv, TypeOK, Listed, Present, Contains
<1>3. CASE Opendir
  <2>1. TypeOK'
    BY <1>1, <1>3 DEF Opendir, TypeOK, Present, Contains
  <2>2. \A k \in Keys : row[k] \in Nat
    BY <1>1, KeysFacts DEF TypeOK
  <2>3. Listed'
    BY <1>3, <2>2 DEF Opendir, Listed, Present, Contains
  <2> QED BY <2>1, <2>3 DEF Inv
<1> QED BY <1>2, <1>3

LEMMA StepInv == Inv /\ [Next]_vars => Inv'
<1> SUFFICES ASSUME Inv, [Next]_vars PROVE Inv'
  OBVIOUS
<1>1. CASE UNCHANGED vars
  BY <1>1 DEF vars, listing, Inv, TypeOK, Listed, Present, Contains
<1>2. ASSUME NEW n \in Names, Set(n) \/ Remove(n) PROVE Inv'
  BY <1>2, SetInv, RemoveInv
<1>3. CASE Readdir
  BY <1>3, ReaddirInv
<1>4. CASE ReaddirEnds \/ Opendir
  BY <1>4, EndInv
<1> QED BY <1>1, <1>2, <1>3, <1>4 DEF Next

LEMMA SpecInv == Spec => []Inv
BY InitInv, StepInv, PTL DEF Spec

\* "." and ".." keep their rows and no two entries share one, whatever names
\* are made and removed and whichever rowids are used again.
THEOREM RowsAreUnique == Spec => []TypeOK
<1>1. Inv => TypeOK
  BY DEF Inv
<1> QED BY <1>1, SpecInv, PTL

\* A listing in pieces of any size shows what was there all the time exactly
\* once, and nothing twice that was not removed and made again.
THEOREM ListingIsExact == Spec => []ListedOnce
<1>1. Inv => ListedOnce
  BY DEF Inv, Listed, ListedOnce
<1> QED BY <1>1, SpecInv, PTL

\* Counting up to three rows tells an empty directory from one with names.
THEOREM EmptyIsRight == Spec => []EmptyMeansNoNames
<1>1. ASSUME TypeOK PROVE EmptyMeansNoNames
  <2>1. IsFiniteSet(Present) /\ {".", ".."} \subseteq Present /\ Present \subseteq Keys
    <3>1. Present \subseteq Keys /\ "." \in Present /\ ".." \in Present
      BY <1>1, KeysFacts DEF TypeOK, Present, Contains
    <3> QED BY <3>1, KeysFacts, FS_Subset
  <2>2. Cardinality({".", ".."}) = 2 /\ IsFiniteSet({".", ".."})
    <3>1. {".", ".."} = {"."} \cup {".."} /\ ".." \notin {"."}
      OBVIOUS
    <3>2. IsFiniteSet({"."}) /\ Cardinality({"."}) = 1
      BY FS_Singleton
    <3> QED BY <3>1, <3>2, FS_AddElement
  <2>3. CASE \E n \in Names : Contains(n)
    <3>1. PICK n \in Names : Contains(n)
      BY <2>3
    <3>2. n \in Present /\ n \notin {".", ".."}
      BY <3>1, KeysFacts DEF Present
    <3>3. Cardinality({".", ".."} \cup {n}) = 3
      BY <2>2, <3>2, FS_AddElement
    <3>4. {".", ".."} \cup {n} \subseteq Present
      BY <2>1, <3>2
    <3>5. Cardinality({".", ".."} \cup {n}) <= Cardinality(Present) /\ Cardinality(Present) \in Nat
      BY <2>1, <3>4, FS_Subset, FS_CardinalityType
    <3> QED BY <2>3, <3>3, <3>5 DEF Empty, EmptyMeansNoNames
  <2>4. CASE ~\E n \in Names : Contains(n)
    <3>1. Present = {".", ".."}
      BY <2>1, <2>4 DEF Present, Keys, Dots
    <3> QED BY <2>2, <2>4, <3>1 DEF Empty, EmptyMeansNoNames
  <2> QED BY <2>3, <2>4
<1>2. Inv => EmptyMeansNoNames
  BY <1>1 DEF Inv
<1> QED BY <1>2, SpecInv, PTL
=============================================================================
