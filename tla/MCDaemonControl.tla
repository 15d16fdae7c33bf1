--------------------------- MODULE MCDaemonControl ---------------------------
(* An instance of DaemonControl for TLC. *)
EXTENDS DaemonControl

ModelHashes == {"h1", "h2", "h3"}
Release(v, h) == [version |-> v, label |-> 0, revision |-> h, time |-> v, advertises |-> TRUE]
OneBuild == {Release(1, "h1")}
=============================================================================
