--------------------------- MODULE MCKeyAgreement ---------------------------
(***************************************************************************)
(* Small instances of KeyAgreement for TLC: the users play the same part.  *)
(***************************************************************************)
EXTENDS KeyAgreement, TLC

Symmetry == Permutations(Users)
=============================================================================
