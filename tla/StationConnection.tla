-------------------------- MODULE StationConnection --------------------------
(****************************************************************************)
(* connection.py: the background task of one config entry that seeds the    *)
(* open alerts, holds the events socket, folds what it hears into a board,  *)
(* hands every transition to Home Assistant's bus (events.py), and          *)
(* reconnects until it is stopped or its token is refused.                  *)
(*                                                                          *)
(* All of it runs on one event loop: what happens between two awaits is one *)
(* action here, and the awaits are where the actions of the station, and    *)
(* Home Assistant's call to async_stop, come in between.                    *)
(****************************************************************************)
EXTENDS Station

CONSTANTS
    BackoffMaxFailures,     \* _BACKOFF_MAX_FAILURES
    NoReply                 \* no answer to the seed is on its way

ASSUME BackoffAssumption == BackoffMaxFailures \in Nat
ASSUME NoReplyAssumption == NoReply \notin Boards

VARIABLES
    pc,             \* the await the events task is suspended in
    stop,           \* how far async_stop has come
    reply,          \* the answer to GET /v1/alerts on its way back
    board,          \* _alerts
    connected,      \* _connected
    failures,       \* _failures
    held,           \* _connected_at, against BACKOFF_MAX: see HeldStates
    reauth,         \* whether async_start_reauth has been called
    published,      \* what a listening entity last wrote to Home Assistant
    bus,            \* the events fired on Home Assistant's bus, in order
    seededAt,       \* history: Len(log) when the last seed was answered
    subscribedAt,   \* history: Len(log) when the last socket was accepted
    upTo            \* history: how much of the log the board has been told of

taskVars == <<pc, stop, reauth>>
stateVars == <<board, connected, published, bus>>
backoffVars == <<failures, held>>
historyVars == <<seededAt, subscribedAt, upTo>>
vars == <<stationVars, taskVars, reply, stateVars, backoffVars, historyVars>>

\* "cancelled" and "closing" are the task unwinding after task.cancel(), the
\* second with a socket whose close handshake is still to be answered.
TaskStates == {"unstarted", "seeding", "opening", "streaming", "sleeping",
               "cancelled", "closing", "ended"}
StopStates == {"no", "waiting", "returned"}

\* "none": no socket since the last backoff; "short" and "long": it came up
\* less, or no less, than BACKOFF_MAX ago.
HeldStates == {"none", "short", "long"}

BusEvents == [event : Events, alert : Alerts, n : Nat, seen : Entries]

\* What an entity of this entry shows: Home Assistant writes no attributes
\* for an entity that is not available.
Render(c, b) == [available |-> c, alerts |-> IF c THEN b ELSE NoBoard]

Init ==
    /\ StationInit
    /\ pc = "unstarted"
    /\ stop = "no"
    /\ reply = NoReply
    /\ board = NoBoard
    /\ connected = FALSE
    /\ failures = 0
    /\ held = "none"
    /\ reauth = FALSE
    /\ published = Render(FALSE, NoBoard)
    /\ bus = <<>>
    /\ seededAt = 0
    /\ subscribedAt = 0
    /\ upTo = 0

------------------------------------------------------------------------------
(* The helpers of the loop. *)

\* _async_notify: every listener re-reads the connection.
Notify == published' = Render(connected', board')

\* _async_set_connected: listeners are told only of a change.
SetConnected(c) ==
    /\ connected' = c
    /\ IF connected = c THEN UNCHANGED published ELSE Notify

\* Mutant: the exponent is not capped.
NextBackoffUncapped ==
    /\ failures' = (IF held = "long" THEN 0 ELSE failures) + 1
    /\ held' = "none"

\* Mutant: _connected_at is left standing when a socket is lost.
NextBackoffStillUp ==
    LET counted == IF held = "long" THEN 0 ELSE failures
    IN  /\ failures' = IF counted < BackoffMaxFailures THEN counted + 1
                                                       ELSE BackoffMaxFailures
        /\ UNCHANGED held

\* _next_backoff: count this failure, from zero again if the socket held.
NextBackoff ==
    LET counted == IF held = "long" THEN 0 ELSE failures
    IN  /\ failures' = IF counted < BackoffMaxFailures THEN counted + 1
                                                       ELSE BackoffMaxFailures
        /\ held' = "none"

\* The client's side of a socket is gone, with whatever it had not read.
DropSocket ==
    /\ socket' = "none"
    /\ frames' = <<>>
    /\ UNCHANGED <<healthy, accepts, status, log>>

\* Mutant: the loop sleeps without saying it is no longer connected.
RetryStillConnected ==
    /\ pc' = "sleeping"
    /\ reply' = NoReply
    /\ DropSocket
    /\ NextBackoff
    /\ UNCHANGED <<stop, reauth, stateVars, historyVars>>

\* The tail of every failed attempt: not connected, then sleep.
Retry ==
    /\ pc' = "sleeping"
    /\ reply' = NoReply
    /\ DropSocket
    /\ SetConnected(FALSE)
    /\ NextBackoff
    /\ UNCHANGED <<stop, reauth, board, bus, historyVars>>

\* `except InvalidAuth`: a refused token ends the task and asks for a reauth.
Refused ==
    /\ healthy /\ ~accepts
    /\ pc' = "ended"
    /\ reauth' = TRUE
    /\ DropSocket
    /\ SetConnected(FALSE)
    /\ UNCHANGED <<stop, reply, board, bus, backoffVars, historyVars>>

\* Mutant: a transition is folded in and nobody is told.
ApplyQuietly(f) ==
    /\ board' = CASE f.event = "snapshot" -> f.alerts
                  [] IsTransition(f) -> [board EXCEPT ![f.alert] = EntryFor(f.event)]
                  [] OTHER -> board
    /\ IF f.event = "snapshot" THEN Notify ELSE UNCHANGED published

\* Mutant: an acknowledged alert is taken for a closed one.
ApplyAcknowledgedCloses(f) ==
    /\ board' = CASE f.event = "snapshot" -> f.alerts
                  [] f.event = "triggered" -> [board EXCEPT ![f.alert] = "triggered"]
                  [] f.event \in Events -> [board EXCEPT ![f.alert] = "absent"]
                  [] OTHER -> board
    /\ Notify

\* Mutant: the join snapshot is ignored, the seed having been read already.
ApplyNoSnapshot(f) ==
    /\ board' = IF IsTransition(f) THEN [board EXCEPT ![f.alert] = EntryFor(f.event)]
                                   ELSE board
    /\ Notify

\* _async_apply: fold one frame into the board.
Apply(f) ==
    \/ /\ f.event = "snapshot"
       /\ board' = f.alerts
       /\ Notify
    \/ /\ IsTransition(f)
       /\ board' = [board EXCEPT ![f.alert] = EntryFor(f.event)]
       /\ Notify
    \/ /\ f.event \notin Events \cup {"snapshot"}
       /\ UNCHANGED <<board, published>>

\* Mutant: only alerts still on the board are announced.
DispatchIfOnBoard(f) ==
    bus' = IF IsTransition(f) /\ board'[f.alert] # "absent"
           THEN Append(bus, [event |-> f.event, alert |-> f.alert, n |-> f.n,
                             seen |-> published'.alerts[f.alert]])
           ELSE bus

\* Mutant: the listener is registered again on every connect.
DispatchTwice(f) ==
    LET fired == [event |-> f.event, alert |-> f.alert, n |-> f.n,
                  seen |-> published'.alerts[f.alert]]
    IN  bus' = IF IsTransition(f) THEN bus \o <<fired, fired>> ELSE bus

\* Mutant: the bus event goes out before the state is folded in.
DispatchFirst(f) ==
    bus' = IF IsTransition(f)
           THEN Append(bus, [event |-> f.event, alert |-> f.alert, n |-> f.n,
                             seen |-> published.alerts[f.alert]])
           ELSE bus

\* _async_dispatch to events.py's `fire`.  `seen` is what a template reading
\* the entity from the automation this wakes finds of the alert.
Dispatch(f) ==
    bus' = IF IsTransition(f)
           THEN Append(bus, [event |-> f.event, alert |-> f.alert, n |-> f.n,
                             seen |-> published'.alerts[f.alert]])
           ELSE bus

------------------------------------------------------------------------------
(* The steps of the events task. *)

\* async_start, and the request the first seed sends.
Start ==
    /\ pc = "unstarted"
    /\ pc' = "seeding"
    /\ UNCHANGED <<stationVars, stop, reauth, reply, stateVars, backoffVars, historyVars>>

\* The station answers GET /v1/alerts with what is open at this moment.
AnswerSeed ==
    /\ pc = "seeding" /\ reply = NoReply
    /\ healthy /\ accepts
    /\ reply' = OpenBoard
    /\ seededAt' = Len(log)
    /\ UNCHANGED <<stationVars, taskVars, stateVars, backoffVars, subscribedAt, upTo>>

\* _async_seed, and the upgrade request that follows it.
SeedArrives ==
    /\ pc = "seeding" /\ reply # NoReply
    /\ pc' = "opening"
    /\ reply' = NoReply
    /\ board' = reply
    /\ UNCHANGED connected
    /\ Notify
    /\ upTo' = seededAt
    /\ UNCHANGED <<stationVars, stop, reauth, bus, backoffVars, seededAt, subscribedAt>>

\* Mutant: a 401 on the seed is one more AlertRosterError.
SeedRefusedRetries == pc = "seeding" /\ healthy /\ ~accepts /\ Retry

SeedRefused == pc = "seeding" /\ reply = NoReply /\ Refused

SeedFails == pc = "seeding" /\ ~healthy /\ Retry

\* The station takes the upgrade; the client has yet to hear of it.
Subscribe ==
    /\ pc = "opening"
    /\ AcceptSocket
    /\ subscribedAt' = Len(log)
    /\ UNCHANGED <<taskVars, reply, stateVars, backoffVars, seededAt, upTo>>

\* Mutant: nobody notes when the socket came up.
SocketOpensUntimed ==
    /\ pc = "opening" /\ socket # "none"
    /\ pc' = "streaming"
    /\ UNCHANGED board
    /\ SetConnected(TRUE)
    /\ UNCHANGED <<stationVars, stop, reauth, reply, bus, backoffVars, historyVars>>

\* The upgrade is answered: _async_on_connect.
SocketOpens ==
    /\ pc = "opening" /\ socket # "none"
    /\ pc' = "streaming"
    /\ held' = "short"
    /\ UNCHANGED board
    /\ SetConnected(TRUE)
    /\ UNCHANGED <<stationVars, stop, reauth, reply, bus, failures, historyVars>>

OpenRefused == pc = "opening" /\ socket = "none" /\ Refused

\* The answer to the upgrade is an error, or never comes.
OpenFails == pc = "opening" /\ (~healthy \/ socket \in {"closed", "dead"}) /\ Retry

\* One turn of `async for event in events`: the state first, then the bus.
Receive ==
    /\ pc = "streaming" /\ frames # <<>>
    /\ frames' = Tail(frames)
    /\ UNCHANGED connected
    /\ Apply(Head(frames))
    /\ Dispatch(Head(frames))
    /\ upTo' = IF Head(frames).event = "additive" THEN upTo ELSE Head(frames).n
    /\ UNCHANGED <<healthy, accepts, status, log, socket, taskVars, reply,
                   backoffVars, seededAt, subscribedAt>>

\* Time passes and the socket stays up: BACKOFF_MAX has gone by.
SocketHolds ==
    /\ pc = "streaming" /\ held = "short"
    /\ held' = "long"
    /\ UNCHANGED <<stationVars, taskVars, reply, stateVars, failures, historyVars>>

\* Mutant: a close is taken for the station's goodbye, and ends the task.
StreamEndsTask ==
    /\ pc = "streaming" /\ socket = "closed" /\ frames = <<>>
    /\ pc' = "ended"
    /\ DropSocket
    /\ SetConnected(FALSE)
    /\ UNCHANGED <<stop, reauth, reply, board, bus, backoffVars, historyVars>>

\* A close or a reset ends the iteration once what was sent before is read.
StreamEnds == pc = "streaming" /\ socket = "closed" /\ frames = <<>> /\ Retry

\* Nothing answers the ping: an ERROR frame, raised as CannotConnect.
HeartbeatFails == pc = "streaming" /\ socket = "dead" /\ frames = <<>> /\ Retry

\* The backoff has been slept: the loop seeds again.
Wake ==
    /\ pc = "sleeping"
    /\ pc' = "seeding"
    /\ UNCHANGED <<stationVars, stop, reauth, reply, stateVars, backoffVars, historyVars>>

------------------------------------------------------------------------------
(* async_stop, and the task it cancels. *)

\* Mutant: the handle is forgotten and the task left running.
StopWithoutCancel ==
    /\ pc # "unstarted" /\ stop = "no"
    /\ stop' = "waiting"
    /\ UNCHANGED <<stationVars, pc, reauth, reply, stateVars, backoffVars, historyVars>>

\* task.cancel(): nothing the task was waiting for reaches it any more.
Stop ==
    /\ pc # "unstarted" /\ stop = "no"
    /\ stop' = "waiting"
    /\ pc' = IF pc = "streaming" THEN "closing"
              ELSE IF pc = "ended" THEN "ended" ELSE "cancelled"
    /\ UNCHANGED <<stationVars, reauth, reply, stateVars, backoffVars, historyVars>>

\* The cancelled task ends, at once or when the station has answered the
\* close -- or api.py's ws_close has run out.
Unwind ==
    /\ pc \in {"cancelled", "closing"}
    /\ pc' = "ended"
    /\ reply' = NoReply
    /\ DropSocket
    /\ UNCHANGED board
    /\ SetConnected(FALSE)
    /\ UNCHANGED <<stop, reauth, bus, backoffVars, historyVars>>

\* asyncio.wait returns: the task is done, or _STOP_TIMEOUT ran out first on
\* the close handshake.
StopReturns ==
    /\ stop = "waiting" /\ pc \in {"closing", "ended"}
    /\ stop' = "returned"
    /\ UNCHANGED board
    /\ SetConnected(FALSE)
    /\ UNCHANGED <<stationVars, pc, reauth, reply, bus, backoffVars, historyVars>>

------------------------------------------------------------------------------

StationStep ==
    /\ StationNext
    /\ UNCHANGED <<taskVars, reply, stateVars, backoffVars, historyVars>>

TaskStep ==
    \/ Start \/ SeedArrives \/ SeedRefused \/ SeedFails
    \/ SocketOpens \/ OpenRefused \/ OpenFails
    \/ Receive \/ StreamEnds \/ HeartbeatFails
    \/ Wake \/ Unwind \/ StopReturns

Next == StationStep \/ AnswerSeed \/ Subscribe \/ TaskStep \/ SocketHolds \/ Stop

Spec == Init /\ [][Next]_vars

\* The event loop runs what is ready: timers fire (the backoff, the
\* heartbeat, the two time limits of a close), replies are delivered, and a
\* station that answers requests answers this one.  Nothing is assumed of
\* when the station changes, of its staying up, or of a call to async_stop.
Fairness == WF_vars(TaskStep) /\ WF_vars(AnswerSeed) /\ WF_vars(Subscribe)

FairSpec == Spec /\ Fairness

------------------------------------------------------------------------------
(* What the connection promises. *)

\* A frame bears on an alert if it reports a transition of it, or lists all.
Carries(f, a) == f.event = "snapshot" \/ (IsTransition(f) /\ f.alert = a)
EntryIn(f, a) == IF f.event = "snapshot" THEN f.alerts[a] ELSE EntryFor(f.event)

\* f is the last frame on its way that bears on a.
LastFrameIs(a, i) ==
    /\ Carries(frames[i], a)
    /\ \A j \in i + 1 .. Len(frames) : ~Carries(frames[j], a)

\* What the board will say of a once everything on its way has been folded in
\* is what the station says of it now.
CatchesUp(a) ==
    \/ /\ \A i \in 1 .. Len(frames) : ~Carries(frames[i], a)
       /\ board[a] = EntryFor(status[a])
    \/ \E i \in 1 .. Len(frames) :
          LastFrameIs(a, i) /\ EntryIn(frames[i], a) = EntryFor(status[a])

\* a moved after the seed was answered and before the socket could hear it,
\* and has not moved since.
MissedInTheGap(a) ==
    /\ \E n \in seededAt + 1 .. subscribedAt : log[n].alert = a
    /\ \A n \in subscribedAt + 1 .. Len(log) : log[n].alert # a

\* TYPE.  Every variable keeps its type; the failure count never passes the
\* cap that keeps 2**failures from overflowing.
TypeOK ==
    /\ StationTypeOK
    /\ pc \in TaskStates
    /\ stop \in StopStates
    /\ reply \in Boards \cup {NoReply}
    /\ board \in Boards
    /\ connected \in BOOLEAN
    /\ failures \in 0 .. BackoffMaxFailures
    /\ held \in HeldStates
    /\ reauth \in BOOLEAN
    /\ published \in [available : BOOLEAN, alerts : Boards]
    /\ bus \in Seq(BusEvents)
    /\ seededAt \in Nat /\ subscribedAt \in Nat /\ upTo \in Nat

\* The one state that must never happen (_async_run's docstring): `connected`
\* with nobody reading the socket.  The exception is an unload waiting for
\* the close handshake, for _STOP_TIMEOUT at most.
ConnectedMeansListening ==
    connected => pc = "streaming" \/ (pc = "closing" /\ stop = "waiting")

\* Listeners are told only that something changed, and only on a change: yet
\* what an entity last wrote is always what the connection would answer now.
PublishedIsCurrent == published = Render(connected, board)

\* Stale state is never shown as current: on a socket that delivers, what
\* is shown of an alert is right or is put right by a frame on its way.  What
\* escapes is exactly an alert that moved between the answer to the seed and
\* the socket, on a station that sends no snapshot on join.
StaleOnlyInTheGap ==
    pc \in {"opening", "streaming"} /\ socket = "open" =>
        \A a \in Alerts :
            CatchesUp(a) \/ (~JoinSnapshot /\ MissedInTheGap(a))

\* The claim of connection.py:17-22, that the seed alone makes the board
\* correct: with nothing on its way, what is shown is what is open.
QuietBoardIsCurrent ==
    connected /\ stop = "no" /\ socket = "open" /\ frames = <<>> =>
        published.alerts = OpenBoard

\* Automations hear each transition at most once, in the order the station
\* made them, and never a transition the station did not make: reconnecting
\* re-reads the board but announces nothing twice.
HeardInOrder ==
    /\ \A i \in 1 .. Len(bus) :
          /\ bus[i].n \in 1 .. Len(log)
          /\ log[bus[i].n] = [event |-> bus[i].event, alert |-> bus[i].alert]
    /\ \A i, j \in 1 .. Len(bus) : i < j => bus[i].n < bus[j].n

\* An expiry nobody heard is what this integration exists to prevent: every
\* transition since the socket was accepted has been fired or is on its way.
NothingLostOnALiveSocket ==
    pc \in {"opening", "streaming"} /\ socket = "open" =>
        \A n \in subscribedAt + 1 .. Len(log) :
            \/ \E i \in 1 .. Len(bus) : bus[i].n = n
            \/ \E i \in 1 .. Len(frames) : frames[i].n = n

\* State first, then the bus: an automation woken by an event reads, through
\* the entity, the board that event produced -- on an entity that is
\* available.
EventsSeeTheirEffect ==
    \A i \in 1 .. Len(bus) : bus[i].seen = EntryFor(bus[i].event)

\* A refused token is never presented again: no reconnect loop on a 401.  The
\* task leaves without _next_backoff, and still no socket is counted as up:
\* wherever a 401 can be raised, _connected_at is None already.
RefusedNeverRetries == reauth => pc = "ended" /\ held = "none"

\* `diagnostics`, what the connection says of itself in a download.  The clock
\* of a lost socket is not shown, whether or not it has been cleared.
Describe == [connected             |-> connected,
             open_alert_count      |-> {a \in Alerts : board[a] # "absent"},
             consecutive_failures  |-> failures,
             connected_for_seconds |-> IF connected THEN held ELSE "none",
             task_running          |-> stop = "no" /\ pc \notin {"unstarted", "ended"}]

\* A download taken at any moment can be read: a socket that is up has a
\* clock; a task that is not running was not started, was refused and asked
\* to pair again, or is being stopped; and one that says it is connected but
\* not running is an unload waiting for the station to close.
DescriptionTellsWhy ==
    /\ Describe.connected <=> Describe.connected_for_seconds # "none"
    /\ ~Describe.task_running => pc = "unstarted" \/ stop # "no" \/ reauth
    /\ Describe.connected /\ ~Describe.task_running => pc = "closing" /\ stop = "waiting"

\* From the call of async_stop on, nothing the station sends is folded in or
\* announced, and the connection does not come up again.
NothingAfterStop ==
    [][stop # "no" => /\ UNCHANGED <<board, bus>>
                      /\ connected' => connected]_vars

\* A station within reach: it answers, knows the token, the entry is not
\* being stopped, and the socket is not lost in the middle of the upgrade.
Reachable ==
    /\ healthy /\ accepts /\ stop = "no"
    /\ pc = "opening" => socket \in {"none", "open"}

\* LIVENESS.  From when the station is within reach for good, the loop keeps
\* getting back to a connected socket, however often it is closed, reset or
\* falls silent.
KeepsReconnecting == <>[]Reachable => []<>connected

\* A revoked token ends in a request to pair again, however the station's
\* socket ended, once the station can be reached.
RevokedAsksToPair ==
    <>[](healthy /\ ~accepts /\ stop = "no") => <>reauth

------------------------------------------------------------------------------
(* What an entry relies on in a connection. *)

\* Seen from the entry, a socket the station has taken is streaming even if
\* the answer to the upgrade is still on its way, and a cancelled task is
\* closing for as long as there is a socket to close.
TaskSeen ==
    IF pc \in {"seeding", "sleeping"} \/ (pc = "opening" /\ socket = "none")
    THEN "trying"
    ELSE IF pc = "opening" THEN "streaming"
    ELSE IF pc \in {"cancelled", "closing"}
    THEN IF socket = "none" THEN "ended" ELSE "closing"
    ELSE pc

Task == INSTANCE EventsTask WITH
            task   <- TaskSeen,
            wanted <- stop = "no",
            holds  <- socket = "open",
            knows  <- accepts

\* REFINEMENT.  Through every seed, upgrade, retry and close, the connection
\* is the task EntryLifecycle takes it for: it ends by itself only when its
\* token is refused, and never leaves a socket behind.
ImplementsTask == Task!Spec

------------------------------------------------------------------------------
(* The inductive invariant behind the safety properties above. *)

\* Where the task is decides what is connected, open and on its way.
Control ==
    /\ connected <=> pc = "streaming" \/ (pc = "closing" /\ stop = "waiting")
    /\ pc \in {"cancelled", "closing"} => stop # "no"
    /\ stop # "no" => pc \in {"cancelled", "closing", "ended"}
    /\ stop = "returned" => pc # "cancelled"
    /\ pc \in {"unstarted", "seeding", "sleeping", "ended"} => socket = "none"
    /\ pc = "streaming" => socket # "none"
    /\ socket = "none" => frames = <<>>
    /\ reply # NoReply => pc \in {"seeding", "cancelled"}
    /\ pc \in {"unstarted", "seeding", "opening", "sleeping"} => held = "none"
    /\ connected => held # "none"
    /\ pc = "ended" => stop # "no" \/ reauth
    /\ RefusedNeverRetries
    /\ PublishedIsCurrent

\* The frames on their way continue what was heard: true, in order, and all
\* of it while the socket is open.
Delivery ==
    /\ seededAt <= Len(log) /\ subscribedAt <= Len(log)
    /\ \A i \in 1 .. Len(frames) : IsTransition(frames[i]) =>
          /\ frames[i].n \in 1 .. Len(log)
          /\ log[frames[i].n] = [event |-> frames[i].event, alert |-> frames[i].alert]
          /\ \A j \in i + 1 .. Len(frames) :
                IsTransition(frames[j]) => frames[i].n < frames[j].n
          /\ \A j \in 1 .. Len(bus) : bus[j].n < frames[i].n
    /\ HeardInOrder
    /\ EventsSeeTheirEffect

\* Nothing between the transitions of a live socket and the bus.
NoGapInFrames ==
    pc \in {"opening", "streaming"} /\ socket = "open" =>
        \A n \in subscribedAt + 1 .. Len(log) :
            \/ \E i \in 1 .. Len(bus) : bus[i].n = n
            \/ \E i \in 1 .. Len(frames) : IsTransition(frames[i]) /\ frames[i].n = n

\* A list of open alerts that was true when the seed was answered.
AsSeeded(b) ==
    \A a \in Alerts :
        \/ b[a] = EntryFor(status[a])
        \/ \E n \in seededAt + 1 .. Len(log) : log[n].alert = a

\* The board, followed from the answer to the seed to the live socket.
BoardFollows ==
    /\ pc = "seeding" /\ reply # NoReply => AsSeeded(reply)
    /\ pc = "opening" /\ socket = "none" => AsSeeded(board)
    /\ StaleOnlyInTheGap

\* The inductive invariant: each part says of one step what the next needs,
\* through the seed, the upgrade and the frames, up to an unload.
Inductive == TypeOK /\ Control /\ Delivery /\ NoGapInFrames /\ BoardFollows
==============================================================================
