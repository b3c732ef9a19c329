--------------------------- MODULE MCTgfsStoreView ---------------------------
(* TgfsStoreView on small instances. *)
EXTENDS TgfsStoreView

\* Kills anywhere.
KillAnywhere == PCs \ {"down", "segv"}
=============================================================================
