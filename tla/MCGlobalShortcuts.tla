------------------------- MODULE MCGlobalShortcuts -------------------------
(* Two sessions, two shortcuts and one key, for TLC.                      *)
EXTENDS GlobalShortcuts, TLC

CONSTANTS s1, s2, k1

Symmetry == Permutations({s1, s2})

=============================================================================
