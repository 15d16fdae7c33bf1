-------------------------- MODULE ProjectAuthority --------------------------
(***************************************************************************)
(* What the lifecycle of a registered project promises: a protected tmux   *)
(* session starts only while its project is registered, and a registration *)
(* that is removed leaves no live session behind.                          *)
(***************************************************************************)
VARIABLES registered, live

Init == registered \in BOOLEAN /\ ~live

Register == registered' /\ UNCHANGED live

Unregister == ~live /\ ~registered' /\ UNCHANGED live

StartSession == registered /\ live' /\ UNCHANGED registered

EndSession == ~live' /\ UNCHANGED registered

Next == Register \/ Unregister \/ StartSession \/ EndSession

Spec == Init /\ [][Next]_<<registered, live>>
=============================================================================
