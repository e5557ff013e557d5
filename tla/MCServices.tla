------------------------------ MODULE MCServices ------------------------------
(****************************************************************************)
(* Services with a few calls on one station or two.                         *)
(****************************************************************************)
EXTENDS Services, TLC

CONSTANTS studio, workshop, c1, c2, c3

OneStation == {studio}
TwoStations == {studio, workshop}
OneCall == {c1}
TwoCalls == {c1, c2}
ThreeCalls == {c1, c2, c3}

CallSymmetry == Permutations(Calls)

\* Bound: calls that leave the station out, there being only one.
Implied == \A c \in Calls : ~calls[c].named
==============================================================================
