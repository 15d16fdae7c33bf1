-------------------------- MODULE CreationOwnership --------------------------
(***************************************************************************)
(* What Registry.AcquireCreation (internal/registry) promises its callers: *)
(* at most one process owns the creation of a path.  An owner gives it up  *)
(* by calling release, or loses it because its process ends.               *)
(***************************************************************************)
CONSTANTS Procs, Nobody

VARIABLE owner

Free == owner = Nobody

Init == Free

Acquire(p) == Free /\ owner' = p

GiveUp == ~Free /\ owner' = Nobody

Next == (\E p \in Procs : Acquire(p)) \/ GiveUp

Spec == Init /\ [][Next]_owner
=============================================================================
