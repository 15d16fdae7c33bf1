---------------------------- MODULE MCDaemonHost ----------------------------
(* An instance of DaemonHost for TLC; a liveness property forbids symmetry. *)
EXTENDS DaemonHost
=============================================================================
