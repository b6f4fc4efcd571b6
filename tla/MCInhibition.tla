---------------------------- MODULE MCInhibition ----------------------------
(* Two requests and a screen sharing session, for TLC.                     *)
EXTENDS Inhibition, TLC

CONSTANTS p1, p2, n1

=============================================================================
