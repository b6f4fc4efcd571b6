----------------------------- MODULE MCDialogs -----------------------------
(* Two calls of any portal, for TLC.                                       *)
EXTENDS Dialogs

CONSTANTS c1, c2

=============================================================================
