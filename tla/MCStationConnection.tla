------------------------- MODULE MCStationConnection -------------------------
(****************************************************************************)
(* StationConnection on small instances.                                    *)
(****************************************************************************)
EXTENDS StationConnectionFeed, Dashboard, TLC

CONSTANTS a1, a2

OneAlert  == {a1}
TwoAlerts == {a1, a2}

AlertSymmetry == Permutations(Alerts)

\* Bound: transitions the station makes in one behaviour.
CONSTANT MaxTransitions
FewTransitions == Len(log) <= MaxTransitions
==============================================================================
