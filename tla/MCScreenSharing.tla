--------------------------- MODULE MCScreenSharing ---------------------------
(* Two sessions, for TLC.                                                  *)
EXTENDS ScreenSharing, TLC

CONSTANTS s1, s2

\* A session of up to two streams beside one of at most one.
TwoAndOne == (s1 :> {1, 2}) @@ (s2 :> {1})

Two == s1 :> {1, 2}

\* The application is not mega-authorized.
NotAuthorized == {<<FALSE, FALSE, FALSE>>}

\* Any of the three lookups of a Start can fail.
AnyLookups == BOOLEAN \X BOOLEAN \X BOOLEAN

=============================================================================
