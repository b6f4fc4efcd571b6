--------------------------- MODULE MCInputCapture ---------------------------
(* A session and two screens, for TLC.                                     *)
EXTENDS InputCapture

CONSTANT s1

\* Two screens that move, and mirror each other when both are on the right.
MirrorGeometry == <<{"left", "right"}, {"right", "middle"}>>

=============================================================================
