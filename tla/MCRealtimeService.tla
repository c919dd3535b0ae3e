------------------------- MODULE MCRealtimeService -------------------------
(***************************************************************************)
(* Small instances of RealtimeService for TLC.                             *)
(***************************************************************************)
EXTENDS RealtimeService, TLC

Symmetry == Permutations(Connections) \cup Permutations(Users)
=============================================================================
