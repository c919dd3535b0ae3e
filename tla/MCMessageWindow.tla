--------------------------- MODULE MCMessageWindow --------------------------
(***************************************************************************)
(* Small instances of MessageWindow for TLC.                               *)
(***************************************************************************)
EXTENDS MessageWindow, TLC
=============================================================================
