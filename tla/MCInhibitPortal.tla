-------------------------- MODULE MCInhibitPortal --------------------------
(* Two applications, for TLC.                                              *)
EXTENDS InhibitPortal, TLC

CONSTANTS m1, m2

=============================================================================
