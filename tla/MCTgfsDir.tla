------------------------------ MODULE MCTgfsDir ------------------------------
(* TgfsDir on a small instance. *)
EXTENDS TgfsDir, TLC

NameSymmetry == Permutations(Names \ Quoted)
=============================================================================
