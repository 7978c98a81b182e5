--------------------------- MODULE MCGuestThreads ---------------------------
(* TLC instances of GuestThreads. *)
EXTENDS GuestThreads, TLC

Symmetry == Permutations(Workers)
=============================================================================
