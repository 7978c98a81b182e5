----------------------------- MODULE MCOmpDeque -----------------------------
(* TLC instance of OmpDeque. *)
EXTENDS OmpDeque
=============================================================================
