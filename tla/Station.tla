------------------------------- MODULE Station -------------------------------
(****************************************************************************)
(* The AlertRoster station as one paired source sees it, with the one       *)
(* events socket the source holds.  The station is not in this repository:  *)
(* everything here is read off how custom_components/alertroster uses it    *)
(* (api.py) and off the fake station its tests drive (tests/conftest.py).   *)
(****************************************************************************)
EXTENDS Naturals, Sequences, AlertEvents

CONSTANT
    JoinSnapshot    \* TRUE: the shipped service, which sends a `snapshot`
                    \* frame on join; FALSE: a station that follows its
                    \* protocol document, which sends transitions only

ASSUME JoinSnapshotAssumption == JoinSnapshot \in BOOLEAN

VARIABLES
    healthy,    \* the station answers new requests (else: errors, or silence)
    accepts,    \* it still recognises this source's token
    status,     \* what has become of each alert
    log,        \* history: every transition the station made, in order
    socket,     \* the events socket: see SocketStates
    frames      \* frames on their way to the client, oldest first

stationVars == <<healthy, accepts, status, log, socket, frames>>

\* "closed": ended by the station or reset under it, after which what is in
\* `frames` can still be read; "dead": silent, with nobody having closed it.
SocketStates == {"none", "open", "closed", "dead"}

\* GET /v1/alerts, and the join snapshot: the alerts that are open.
OpenBoard == [a \in Alerts |-> EntryFor(status[a])]

\* A frame carries one alert, or the whole list.  `n` is history: the place
\* in `log` the frame reports, or the whole list is up to date with.
NoAlert == "no alert"
Frames == [event : Events \cup {"snapshot", "additive"},
           alert : Alerts \cup {NoAlert}, alerts : Boards, n : Nat]
TransitionFrame(n, e, a) == [event |-> e, alert |-> a, alerts |-> NoBoard, n |-> n]
SnapshotFrame == [event |-> "snapshot", alert |-> NoAlert, alerts |-> OpenBoard,
                  n |-> Len(log)]
AdditiveFrame(a) == [event |-> "additive", alert |-> a, alerts |-> NoBoard, n |-> 0]

\* What _async_apply and `fire` take for a transition of one alert.
IsTransition(f) == f.event \in Events /\ f.alert \in Alerts

Transitions == [event : Events, alert : Alerts]

StationTypeOK ==
    /\ healthy \in BOOLEAN
    /\ accepts \in BOOLEAN
    /\ status \in [Alerts -> Events \cup {"unraised"}]
    /\ log \in Seq(Transitions)
    /\ socket \in SocketStates
    /\ frames \in Seq(Frames)

StationInit ==
    /\ healthy \in BOOLEAN
    /\ accepts = TRUE
    /\ status = [a \in Alerts |-> "unraised"]
    /\ log = <<>>
    /\ socket = "none"
    /\ frames = <<>>

\* An alert moves forward through its life: raised, perhaps answered, then
\* resolved by the source -- or expired, with nobody having answered.
Follows(e, s) ==
    \/ e = "triggered" /\ s = "unraised"
    \/ e = "acknowledged" /\ s = "triggered"
    \/ e = "resolved" /\ s \in Opens
    \/ e = "expired" /\ s = "triggered"

Queue(f) == frames' = IF socket = "open" THEN Append(frames, f) ELSE frames

\* The station moves an alert on and tells whoever is listening at that
\* moment.  Nobody else is ever told: a transition is not replayed.
Transition(a, e) ==
    /\ Follows(e, status[a])
    /\ status' = [status EXCEPT ![a] = e]
    /\ log' = Append(log, [event |-> e, alert |-> a])
    /\ Queue(TransitionFrame(Len(log) + 1, e, a))
    /\ UNCHANGED <<healthy, accepts, socket>>

\* A newer station sends an event this integration has never heard of.
\* Bound: one such frame on its way at a time.
SendAdditive(a) ==
    /\ socket = "open"
    /\ \A i \in 1 .. Len(frames) : frames[i].event # "additive"
    /\ Queue(AdditiveFrame(a))
    /\ UNCHANGED <<healthy, accepts, status, log, socket>>

\* The station comes and goes: off, LAN listening disabled, answering 500s.
ChangeHealth ==
    /\ healthy' = ~healthy
    /\ UNCHANGED <<accepts, status, log, socket, frames>>

\* The socket ends, or falls silent, with only some of the frames on their
\* way ever arriving.
LoseSocket(how) ==
    /\ socket = "open"
    /\ socket' = how
    /\ \E k \in 0 .. Len(frames) : frames' = SubSeq(frames, 1, k)
    /\ UNCHANGED <<healthy, accepts, status, log>>

\* The source's row is removed on the station, which closes its sockets.
Revoke ==
    /\ accepts
    /\ accepts' = FALSE
    /\ socket' = IF socket = "open" THEN "closed" ELSE socket
    /\ UNCHANGED <<healthy, status, log, frames>>

\* The station takes the upgrade: from here on the socket hears transitions.
AcceptSocket ==
    /\ healthy /\ accepts
    /\ socket = "none"
    /\ socket' = "open"
    /\ frames' = IF JoinSnapshot THEN <<SnapshotFrame>> ELSE <<>>
    /\ UNCHANGED <<healthy, accepts, status, log>>

StationNext ==
    \/ \E a \in Alerts, e \in Events : Transition(a, e)
    \/ \E a \in Alerts : SendAdditive(a)
    \/ ChangeHealth
    \/ \E how \in {"closed", "dead"} : LoseSocket(how)
    \/ Revoke
==============================================================================
