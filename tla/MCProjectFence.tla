--------------------------- MODULE MCProjectFence ---------------------------
(* An instance of ProjectFence for TLC; a liveness property forbids symmetry. *)
EXTENDS ProjectFence
=============================================================================
