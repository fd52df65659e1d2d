------------------------- MODULE MCArchiveInterlock -------------------------
(* ArchiveInterlock for the checker: devices and dialogs are interchangeable. *)
EXTENDS ArchiveInterlock, TLC

Symmetry == Permutations(Devices) \union Permutations(Flows)
=============================================================================
