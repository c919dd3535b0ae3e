---------------------------- MODULE MCKeyStorage ----------------------------
(***************************************************************************)
(* Small instance of KeyStorage for TLC: the users play the same part, and  *)
(* so do the passwords and the tasks.                                      *)
(***************************************************************************)
EXTENDS KeyStorage, TLC

Symmetry == Permutations(Accounts) \cup Permutations(Passwords) \cup Permutations(Tasks)

\* Both invariants hold of every state after a lapse: nothing follows it.
UntilLapse == ~lapsed
=============================================================================
