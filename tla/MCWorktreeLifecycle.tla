------------------------ MODULE MCWorktreeLifecycle ------------------------
(* An instance of WorktreeLifecycle for TLC; its processes are told apart, *)
(* as a liveness property forbids symmetry.                                *)
EXTENDS WorktreeLifecycle
=============================================================================
