--------------------------- MODULE MC_HermesAdapter ---------------------------
(***************************************************************************)
(* An instance of HermesAdapter for TLC: two turns, a compression, and one *)
(* switch of the session or restart.                                       *)
(***************************************************************************)
EXTENDS HermesAdapter

=============================================================================
