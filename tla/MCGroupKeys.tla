---------------------------- MODULE MCGroupKeys ----------------------------
(***************************************************************************)
(* Small instances of GroupKeys for TLC.  Requests are interchangeable, and*)
(* so are the users other than the creator.                                *)
(***************************************************************************)
EXTENDS GroupKeys, TLC

Symmetry == Permutations(Requests) \cup Permutations(Users \ {Creator})
=============================================================================
