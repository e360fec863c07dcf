------------------------------ MODULE MCRoster ------------------------------
(* TLC instances of Roster.                                                *)
EXTENDS Roster, TLC

CONSTANTS p1, p2
TwoPeople == {p1, p2}
\* One person of each of these types.
FirstAndLast == (p1 :> {3}) @@ (p2 :> {1})
NoneAndTwo == (p1 :> {}) @@ (p2 :> {1, 2})
OneShared == {p2}
=============================================================================
