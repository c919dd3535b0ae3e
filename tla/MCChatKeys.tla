----------------------------- MODULE MCChatKeys -----------------------------
(***************************************************************************)
(* Small instances of ChatKeys for TLC.                                    *)
(***************************************************************************)
EXTENDS ChatKeys, TLC

Symmetry ==
    Permutations(Changes) \cup Permutations(Companions) \cup Permutations(Devices)
        \cup Permutations(Passwords \ {FirstPassword})
=============================================================================
