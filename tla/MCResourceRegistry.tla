------------------------- MODULE MCResourceRegistry -------------------------
(* A small instance of the resource registry for TLC. *)
EXTENDS RegistryRefinement
=============================================================================
