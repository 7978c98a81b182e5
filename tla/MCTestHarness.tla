--------------------------- MODULE MCTestHarness ---------------------------
(* TLC instances of TestHarness. *)
EXTENDS TestHarness
=============================================================================
