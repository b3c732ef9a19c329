------------------------------ MODULE MCTgfsOps ------------------------------
(* TgfsOps, and that it implements FileTree, on small instances. *)
EXTENDS TgfsOpsView

KillAnywhere == PCs \ {"down"}
=============================================================================
