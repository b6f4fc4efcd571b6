----------------------------- MODULE MCClipboard -----------------------------
(* Two sessions, for TLC.                                                  *)
EXTENDS Clipboard, TLC

CONSTANTS s1, s2

Symmetry == Permutations(Session)

=============================================================================
