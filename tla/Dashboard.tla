------------------------------ MODULE Dashboard ------------------------------
(****************************************************************************)
(* What a user sees of one station: the four entities of an entry, each of  *)
(* which renders the connection (entity.py) in its own way, and what they   *)
(* show together once the socket stays up.                                  *)
(****************************************************************************)
EXTENDS StationConnection, FiniteSetsExt

\* Mutant: every alert ever listed is counted.
OpenCountOfAll(b) == Cardinality({a \in Alerts : status[a] # "unraised"})

\* open_alert_count, as the listeners last read it.
OpenCount(b) == Quantify(Alerts, LAMBDA a : b[a] # "absent")

\* binary_sensor.py: whether any alert is open, and whether the socket is.
\* The second is always available: it is what reports the outage.
Alerting == [available |-> published.available, on |-> OpenCount(published.alerts) > 0]
Connected == [available |-> TRUE, on |-> published.available]

\* sensor.py: how many are open, and which.
OpenAlerts == [available |-> published.available,
               value |-> OpenCount(published.alerts), alerts |-> published.alerts]

\* event.py: the transition last handed to the transition listeners.
NoTransition == [event |-> "unknown", n |-> 0]
AlertEvent == IF bus = <<>> THEN NoTransition
              ELSE [event |-> bus[Len(bus)].event, n |-> bus[Len(bus)].n]

\* The four entities tell the truth: each what the station would say now, and
\* the event entity the last thing that happened since the socket came up.
TellsTheTruth ==
    LET open == {a \in Alerts : status[a] \in Opens}
    IN  /\ Alerting = [available |-> TRUE, on |-> open # {}]
        /\ OpenAlerts.value = Cardinality(open)
        /\ OpenAlerts.alerts = OpenBoard
        /\ Connected.on
        /\ Len(log) > subscribedAt =>
              AlertEvent = [event |-> log[Len(log)].event, n |-> Len(log)]

\* LIVENESS.  On a socket that stays up the four entities end up telling the
\* truth together, however the alerts moved while the socket was away: what
\* was missed is made up for by the list, and by the event entity never.
DashboardEndsUpTrue ==
    <>[](connected /\ stop = "no" /\ socket = "open") => <>[]TellsTheTruth
==============================================================================
