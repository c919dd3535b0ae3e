---------------------------- MODULE MCChatWindow ----------------------------
(***************************************************************************)
(* Small instances of ChatWindow for TLC.  The users, the contents and the *)
(* requests are model values; requests are interchangeable.                *)
(***************************************************************************)
EXTENDS ChatWindow, TLC

Symmetry == Permutations(Requests) \cup Permutations(Users) \cup Permutations(Contents)
=============================================================================
