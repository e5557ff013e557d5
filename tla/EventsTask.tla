------------------------------ MODULE EventsTask ------------------------------
(****************************************************************************)
(* What the rest of the integration relies on in one events connection,     *)
(* with no seed, backoff, close handshake or entry state in sight: it tries *)
(* until it is on a socket or refused, for as long as it is wanted, and     *)
(* holds no socket once it has ended.                                       *)
(*                                                                          *)
(* StationConnection implements this from the inside, EntryLifecycle from   *)
(* the outside, once for every connection an entry makes.                   *)
(****************************************************************************)

VARIABLES
    task,       \* "unstarted", "trying", "streaming", "closing" or "ended"
    wanted,     \* nobody has let go of the connection yet
    holds,      \* the station holds a socket of it, and serves it
    knows       \* the station recognises its token

taskVars == <<task, wanted, holds, knows>>

Init ==
    /\ \/ task = "unstarted" /\ wanted
       \/ task = "ended" /\ ~wanted
    /\ holds = FALSE
    /\ knows = TRUE

\* A connection is made, and started.
Make ==
    /\ task = "ended" /\ ~wanted
    /\ task' = "unstarted" /\ wanted' = TRUE
    /\ knows' \in BOOLEAN
    /\ UNCHANGED holds

Begin ==
    /\ task = "unstarted" /\ wanted
    /\ task' = "trying"
    /\ UNCHANGED <<wanted, holds, knows>>

\* The station takes the socket: only of a token it recognises.
Come ==
    /\ task = "trying" /\ wanted /\ knows
    /\ task' = "streaming" /\ holds' = TRUE
    /\ UNCHANGED <<wanted, knows>>

\* The connection gives the socket up and tries again.
Drop ==
    /\ task = "streaming" /\ wanted
    /\ task' = "trying" /\ holds' = FALSE
    /\ UNCHANGED <<wanted, knows>>

\* The one end it comes to by itself.
Refuse ==
    /\ task = "trying" /\ wanted /\ ~knows
    /\ task' = "ended"
    /\ UNCHANGED <<wanted, holds, knows>>

\* The entry lets go of it: at once, or with a socket still to be closed.
Cancel ==
    /\ wanted /\ wanted' = FALSE
    /\ \/ task \in {"trying", "ended"} /\ task' = "ended"
       \/ task = "streaming" /\ task' = "closing"
    /\ UNCHANGED <<holds, knows>>

Finish ==
    /\ task = "closing"
    /\ task' = "ended" /\ holds' = FALSE
    /\ UNCHANGED <<wanted, knows>>

\* It goes with what it belongs to: Home Assistant itself, or an entry whose
\* setup failed.
Perish ==
    /\ task' = "ended" /\ wanted' = FALSE /\ holds' = FALSE
    /\ UNCHANGED knows

\* The station lets go of the socket, or forgets the token and with it the
\* socket.
Lose ==
    /\ holds /\ holds' = FALSE
    /\ UNCHANGED <<task, wanted, knows>>

Forget ==
    /\ knows /\ knows' = FALSE
    /\ holds' = FALSE
    /\ UNCHANGED <<task, wanted>>

Next ==
    \/ Make \/ Begin \/ Come \/ Drop \/ Refuse \/ Cancel \/ Finish \/ Perish
    \/ Lose \/ Forget

Spec == Init /\ [][Next]_taskVars

------------------------------------------------------------------------------

\* What it comes to: a connection that is wanted and not refused has not
\* ended, and the station serves a socket only of one that may be reading it.
Promise ==
    /\ wanted /\ knows => task \in {"unstarted", "trying", "streaming"}
    /\ ~wanted => task \in {"closing", "ended"}
    /\ holds => knows /\ task \in {"streaming", "closing"}
==============================================================================
