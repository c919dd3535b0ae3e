----------------------------- MODULE MCChatList -----------------------------
(***************************************************************************)
(* Small instances of ChatList for TLC: the companions play the same part. *)
(***************************************************************************)
EXTENDS ChatList, TLC

Symmetry == Permutations(Companions)
=============================================================================
