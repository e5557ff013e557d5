----------------------------- MODULE EventsSocket -----------------------------
(****************************************************************************)
(* api.py's `events`: one generator after another, each opening a socket,   *)
(* reading it, and coming to one of the ends connection.py reasons about;   *)
(* with the heartbeat that tells a dead link from a quiet one, second by    *)
(* second.                                                                  *)
(*                                                                          *)
(* The websocket itself is aiohttp's, external here: what it does is what   *)
(* the docstrings of `events` and `_cancel_heartbeat` say of it.  Whatever  *)
(* arrives is dealt with, heartbeat included, before the generator runs on. *)
(****************************************************************************)
EXTENDS Naturals

CONSTANTS
    Heartbeat,      \* EVENTS_HEARTBEAT, in seconds
    PongLimit,      \* how long aiohttp waits for the pong: half of that
    WsClose,        \* EVENTS_TIMEOUT.ws_close
    HandshakeLimit, \* the time limit of the shared session
    Off             \* a timer that is not set

ASSUME SocketAssumption ==
    /\ Heartbeat \in Nat \ {0}
    /\ PongLimit \in Nat \ {0}
    /\ WsClose \in Nat
    /\ HandshakeLimit \in Nat
    /\ Off \notin Nat

VARIABLES
    phase,      \* "handshake", "reading", "closing" or "done"
    result,     \* how the generator ended: see Results
    link,       \* nothing gets through a link that is not up, either way
    ping,       \* seconds to the next ping, or Off
    pong,       \* seconds left for the pong, or Off
    limit,      \* seconds left of the handshake, or of the close
    silence     \* history: seconds since anything was heard

vars == <<phase, result, link, ping, pong, limit, silence>>

\* "end": the iteration ends; "let go": cancelled, or closed by its caller.
Results == {"none", "end", "CannotConnect", "InvalidAuth", "let go"}

------------------------------------------------------------------------------
(* aiohttp's heartbeat. *)

\* Anything that arrives puts the next ping off: `_reset_heartbeat`, which
\* does not ask whether the socket is being closed.
Heard ==
    /\ ping' = Heartbeat
    /\ pong' = Off
    /\ silence' = 0

TimersOff == ping' = Off /\ pong' = Off

\* Mutant: the generator ends as `async with` leaves it.
FinallyNothing(r) ==
    /\ phase' = "done"
    /\ result' = r
    /\ limit' = Off
    /\ UNCHANGED <<link, ping, pong>>

\* The generator is over: its `finally` cancels what closing has set again.
Finally(r) ==
    /\ phase' = "done"
    /\ result' = r
    /\ limit' = Off
    /\ TimersOff
    /\ UNCHANGED link

Init ==
    /\ phase = "handshake"
    /\ result = "none"
    /\ link = TRUE
    /\ ping = Off
    /\ pong = Off
    /\ limit = HandshakeLimit
    /\ silence = 0

------------------------------------------------------------------------------
(* The handshake. *)

\* Mutant: ws_connect is not given a heartbeat.
OpenWithoutHeartbeat ==
    /\ phase = "handshake" /\ link
    /\ phase' = "reading"
    /\ limit' = Off
    /\ silence' = 0
    /\ UNCHANGED <<result, link, ping, pong>>

\* The station takes the upgrade; on_connect is called before any frame.
Open ==
    /\ phase = "handshake" /\ link
    /\ phase' = "reading"
    /\ limit' = Off
    /\ Heard
    /\ UNCHANGED <<result, link>>

\* The answer is a 401, another status, or no connection at all.
Rejected ==
    /\ phase = "handshake"
    /\ \/ link /\ Finally("InvalidAuth")
       \/ Finally("CannotConnect")
    /\ UNCHANGED silence

\* Mutant: a TimeoutError is not one of the client's own errors.
HandshakeTimesOutBare ==
    /\ phase = "handshake" /\ limit = 0
    /\ Finally("TimeoutError")
    /\ UNCHANGED silence

\* A station that takes the TCP connection and says nothing.
HandshakeTimesOut ==
    /\ phase = "handshake" /\ limit = 0
    /\ Finally("CannotConnect")
    /\ UNCHANGED silence

------------------------------------------------------------------------------
(* Reading. *)

\* A frame that is yielded, or dropped as not usable, or the pong.
Message ==
    /\ phase = "reading" /\ link
    /\ Heard
    /\ UNCHANGED <<phase, result, link, limit>>

\* The station closes the socket, or the connection is reset at either end.
StreamEnds ==
    /\ phase = "reading"
    /\ Finally("end")
    /\ UNCHANGED silence

\* Something that is not the protocol arrives: an ERROR message.
ProtocolError ==
    /\ phase = "reading" /\ link
    /\ Finally("CannotConnect")
    /\ silence' = 0

\* The heartbeat is due: a ping goes out.
SendPing ==
    /\ ping = 0
    /\ ping' = Off
    /\ pong' = PongLimit
    /\ UNCHANGED <<phase, result, link, limit, silence>>

\* The pong is overdue: an ERROR message to a generator that is reading,
\* nothing to one whose socket is closed already.
PongOverdue ==
    /\ pong = 0
    /\ IF phase = "reading"
       THEN Finally("CannotConnect")
       ELSE pong' = Off /\ UNCHANGED <<phase, result, link, ping, limit>>
    /\ UNCHANGED silence

------------------------------------------------------------------------------
(* Letting go of the socket. *)

\* The task is cancelled, or leaves the `async for`: the close frame goes out
\* and the station's is waited for.
LetGo ==
    \/ /\ phase = "reading"
       /\ phase' = "closing"
       /\ result' = "let go"
       /\ limit' = WsClose
       /\ TimersOff
       /\ UNCHANGED <<link, silence>>
    \/ phase = "handshake" /\ Finally("let go") /\ UNCHANGED silence

\* What was on its way arrives during the close.  Whether it restarts the
\* time limit is aiohttp's business.
MessageWhileClosing ==
    /\ phase = "closing" /\ link
    /\ Heard
    /\ limit' \in {limit, WsClose}
    /\ UNCHANGED <<phase, result, link>>

\* The close is over: answered, reset, out of time, or cancelled once more by
\* Home Assistant's teardown.
CloseEnds ==
    /\ phase = "closing"
    /\ Finally("let go")
    /\ UNCHANGED silence

------------------------------------------------------------------------------
(* The reconnect loop, the link, and time. *)

\* The next attempt, unless the token was refused.  Whatever the last socket
\* left behind is still there.
Again ==
    /\ phase = "done" /\ result # "InvalidAuth"
    /\ phase' = "handshake"
    /\ result' = "none"
    /\ limit' = HandshakeLimit
    /\ silence' = 0
    /\ UNCHANGED <<link, ping, pong>>

\* A link falls silent with nobody closing it, or comes back.
ChangeLink ==
    /\ link' = ~link
    /\ UNCHANGED <<phase, result, ping, pong, limit, silence>>

\* A second goes by.  A timer that is due runs first.
Less(t) == IF t = Off THEN Off ELSE t - 1
Tick ==
    /\ 0 \notin {ping, pong, limit}
    /\ ping' = Less(ping)
    /\ pong' = Less(pong)
    /\ limit' = Less(limit)
    /\ silence' = IF phase = "reading" THEN silence + 1 ELSE silence
    /\ UNCHANGED <<phase, result, link>>

Next ==
    \/ Open \/ Rejected \/ HandshakeTimesOut
    \/ Message \/ StreamEnds \/ ProtocolError \/ SendPing \/ PongOverdue
    \/ LetGo \/ MessageWhileClosing \/ CloseEnds
    \/ Again \/ ChangeLink \/ Tick

Spec == Init /\ [][Next]_vars

------------------------------------------------------------------------------

\* TYPE.  Every variable keeps its type, and a generator only ends in one of
\* the ways its caller knows: in no error but the client's own.
TypeOK ==
    /\ phase \in {"handshake", "reading", "closing", "done"}
    /\ result \in Results
    /\ link \in BOOLEAN
    /\ ping \in 0 .. Heartbeat \cup {Off}
    /\ pong \in 0 .. PongLimit \cup {Off}
    /\ limit \in Nat \cup {Off}
    /\ silence \in Nat

\* A reconnect leaves no timer behind (_cancel_heartbeat): whatever arrived
\* while the socket was closing, and however the close came to its end, a
\* generator that is over has no heartbeat, and the next begins with none.
NoTimerLeft == phase \in {"handshake", "done"} => ping = Off /\ pong = Off

\* The heartbeat is what tells a dead link from a quiet one: a socket is read
\* in silence for a heartbeat and the wait for its pong at most, and is given
\* up for silence after no less.
SilenceDecides ==
    [][phase = "reading" =>
          /\ phase' = "reading" => silence' <= Heartbeat + PongLimit
          /\ result' = "CannotConnect" =>
                silence' = 0 \/ silence = Heartbeat + PongLimit]_vars

------------------------------------------------------------------------------

\* Behind it: of the two timers one runs while the socket is read, and says
\* with it how long nothing has been heard.
TimersCount ==
    /\ phase = "reading" =>
          \/ ping # Off /\ pong = Off /\ ping + silence = Heartbeat
          \/ ping = Off /\ pong # Off /\ pong + silence = Heartbeat + PongLimit
    /\ phase \in {"reading", "done"} => limit = Off
    /\ phase \in {"handshake", "reading"} => result = "none"

Inductive == TypeOK /\ NoTimerLeft /\ TimersCount
==============================================================================
