--------------------------- MODULE MCOperationHub ---------------------------
(* Instances of OperationHub for TLC. *)
EXTENDS OperationHub, TLC

Symmetry == Permutations(Entries) \cup Permutations(Subs)
EntrySymmetry == Permutations(Entries)
=============================================================================
