----------------------------- MODULE MCTdClient -----------------------------
(* TdClient on small instances. *)
EXTENDS TdClientView

CONSTANTS t1, t2

\* One file id that all threads use (they download the same message), and one
\* for each.
OneFile == [t \in Threads |-> {1}]
OwnFiles == [t \in Threads |-> IF t = t1 THEN {1} ELSE {2}]

AnyFailure == Kinds \cup {"post"}

\* Constraint: nothing is claimed of what follows a race.
UntilRace == ~raced
=============================================================================
