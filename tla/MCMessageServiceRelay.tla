----------------------- MODULE MCMessageServiceRelay -----------------------
(***************************************************************************)
(* Small instances of MessageServiceRelay for TLC.                         *)
(***************************************************************************)
EXTENDS MessageServiceRelay, TLC

Symmetry == Permutations(Requests) \cup Permutations(Users)
=============================================================================
