---------------------------- MODULE EntryLifecycle ----------------------------
(****************************************************************************)
(* __init__.py: one config entry set up, unloaded, reloaded, paired again   *)
(* and removed, with the connections it owns one after another.             *)
(*                                                                          *)
(* StationConnection is the inside of one connection; here it is reduced to *)
(* the task and the socket it may hold, and there are several: a reload     *)
(* starts the next while the last may still be closing its socket.  Home    *)
(* Assistant's part (config entry states, platforms, teardown) is external  *)
(* and read off what __init__.py and connection.py say of it.               *)
(****************************************************************************)
EXTENDS Naturals

CONSTANTS
    Platforms,      \* PLATFORMS
    Connections,    \* names for the connections an entry makes; two do, one
                    \* is used again once what it named has ended
    None,           \* no runtime_data
    MaxPairings     \* bound: pairings made

ASSUME LifecycleAssumption ==
    /\ None \notin Connections
    /\ MaxPairings \in Nat \ {0}

VARIABLES
    state,      \* the entry's state: see EntryStates
    removing,   \* the entry is being deleted
    reload,     \* a reload has been scheduled
    platforms,  \* the platforms set up for it
    runtime,    \* the connection in runtime_data, or None
    firing,     \* the connections `fire` is registered with
    task,       \* the events task of each connection
    using,      \* the pairing each connection's client presents
    token,      \* the pairing in entry.data
    reauth,     \* a reauth flow is open for the entry
    presented,  \* the pairing the client of async_remove_entry presents
    up,         \* the station answers
    rows,       \* the pairings the station recognises
    sockets     \* the connections whose socket the station holds open

entryVars == <<state, removing, reload, platforms, runtime, firing>>
taskVars == <<task, using>>
pairVars == <<token, reauth, presented>>
stationVars == <<up, rows, sockets>>
vars == <<entryVars, taskVars, pairVars, stationVars>>

Pairings == 1 .. MaxPairings

\* "unloading": async_unload_entry awaits the platforms; "stopping": it
\* awaits async_stop; "revoking": async_remove_entry awaits the station.
EntryStates == {"not_loaded", "setting_up", "setup_error", "loaded", "unloading",
                "stopping", "failed_unload", "revoking", "gone"}

\* "trying": seeding, opening or backing off; "closing": cancelled, with the
\* close handshake of its socket to be answered.
TaskStates == {"unstarted", "trying", "streaming", "closing", "ended"}

Init ==
    /\ state = "not_loaded"
    /\ removing = FALSE
    /\ reload = FALSE
    /\ platforms = {}
    /\ runtime = None
    /\ firing = {}
    /\ task = [g \in Connections |-> "ended"]
    /\ using = [g \in Connections |-> 1]
    /\ token = 1
    /\ reauth = FALSE
    /\ presented = 1
    /\ up = TRUE
    /\ rows = {1}
    /\ sockets = {}

------------------------------------------------------------------------------
(* Setting up: async_setup_entry. *)

CanSetUp == state \in {"not_loaded", "setup_error"} /\ ~removing

\* Mutant: setup never hands the connection to `fire`.
SetUpDeaf(g) ==
    /\ CanSetUp /\ task[g] = "ended" /\ g # runtime
    /\ state' = "setting_up"
    /\ reload' = FALSE
    /\ runtime' = g
    /\ task' = [task EXCEPT ![g] = "unstarted"]
    /\ using' = [using EXCEPT ![g] = token]
    /\ UNCHANGED <<removing, platforms, firing, pairVars, stationVars>>

\* Mutant: runtime_data is assigned once the platforms are there.
SetUpBare(g) ==
    /\ CanSetUp /\ task[g] = "ended" /\ g # runtime
    /\ state' = "setting_up"
    /\ reload' = FALSE
    /\ firing' = firing \cup {g}
    /\ task' = [task EXCEPT ![g] = "unstarted"]
    /\ using' = [using EXCEPT ![g] = token]
    /\ UNCHANGED <<removing, platforms, runtime, pairVars, stationVars>>

\* Mutant: the connection is started before the platforms are forwarded.
SetUpEager(g) ==
    /\ CanSetUp /\ task[g] = "ended" /\ g # runtime
    /\ state' = "setting_up"
    /\ reload' = FALSE
    /\ runtime' = g
    /\ firing' = firing \cup {g}
    /\ task' = [task EXCEPT ![g] = "trying"]
    /\ using' = [using EXCEPT ![g] = token]
    /\ UNCHANGED <<removing, platforms, pairVars, stationVars>>

\* Up to its await: the client, the connection, and `fire`, registered with
\* it until the entry unloads.
SetUp(g) ==
    /\ CanSetUp /\ task[g] = "ended" /\ g # runtime
    /\ state' = "setting_up"
    /\ reload' = FALSE
    /\ runtime' = g
    /\ firing' = firing \cup {g}
    /\ task' = [task EXCEPT ![g] = "unstarted"]
    /\ using' = [using EXCEPT ![g] = token]
    /\ UNCHANGED <<removing, platforms, pairVars, stationVars>>

\* async_forward_entry_setups returns: the connection is started.
PlatformsReady ==
    /\ state = "setting_up"
    /\ state' = "loaded"
    /\ platforms' = Platforms
    /\ task' = [task EXCEPT ![runtime] = "trying"]
    /\ UNCHANGED <<removing, reload, runtime, firing, using, pairVars, stationVars>>

\* It raises: async_start is not reached, and Home Assistant runs what was
\* registered with async_on_unload.
PlatformsFail ==
    /\ state = "setting_up"
    /\ state' = "setup_error"
    /\ firing' = firing \ {runtime}
    /\ task' = [task EXCEPT ![runtime] = "ended"]
    /\ UNCHANGED <<removing, reload, platforms, runtime, using, pairVars, stationVars>>

------------------------------------------------------------------------------
(* Unloading: async_unload_entry, for a reload, a removal or its own sake. *)

\* async_remove_entry begins, if this is a removal: its client takes the token
\* that entry.data holds now.
Leave ==
    /\ presented' = IF state' = "revoking" THEN token ELSE presented
    /\ UNCHANGED <<token, reauth>>

Unload ==
    /\ state = "loaded"
    /\ state' = "unloading"
    /\ UNCHANGED <<removing, reload, platforms, runtime, firing, taskVars, pairVars,
                   stationVars>>

\* Mutant: the socket is closed whether or not the platforms unloaded.
KeptButStopped ==
    /\ state = "unloading"
    /\ state' = IF removing THEN "revoking" ELSE "failed_unload"
    /\ platforms' \in (SUBSET platforms) \ {{}}
    /\ reload' = FALSE
    /\ task' = [task EXCEPT ![runtime] = "ended"]
    /\ sockets' = sockets \ {runtime}
    /\ Leave
    /\ UNCHANGED <<removing, runtime, firing, using, up, rows>>

\* Some platform does not unload: the entry keeps its socket.  Home Assistant
\* lets go of a reload, and goes on with a removal.
PlatformsKept ==
    /\ state = "unloading"
    /\ state' = IF removing THEN "revoking" ELSE "failed_unload"
    /\ platforms' \in (SUBSET platforms) \ {{}}
    /\ reload' = FALSE
    /\ Leave
    /\ UNCHANGED <<removing, runtime, firing, taskVars, stationVars>>

\* The platforms are gone: async_stop cancels the task.
PlatformsUnloaded ==
    /\ state = "unloading"
    /\ state' = "stopping"
    /\ platforms' = {}
    /\ task' = [task EXCEPT ![runtime] = IF @ = "streaming" THEN "closing" ELSE "ended"]
    /\ UNCHANGED <<removing, reload, runtime, firing, using, pairVars, stationVars>>

\* The station answers the close.
Closed(g) ==
    /\ task[g] = "closing"
    /\ task' = [task EXCEPT ![g] = "ended"]
    /\ sockets' = sockets \ {g}
    /\ UNCHANGED <<entryVars, using, pairVars, up, rows>>

\* Mutant: the events task is not one of the entry's, and what outlives
\* _STOP_TIMEOUT is left to itself.
StopOrphans ==
    /\ state = "stopping"
    /\ state' = IF removing THEN "revoking" ELSE "not_loaded"
    /\ runtime' = None
    /\ firing' = firing \ {runtime}
    /\ Leave
    /\ UNCHANGED <<removing, reload, platforms, taskVars, stationVars>>

\* async_stop returns, with the task ended or, after _STOP_TIMEOUT, with its
\* socket still closing.  Home Assistant removes `fire`, cancels what is left
\* of the entry's tasks -- which ends the socket there and then -- and
\* deletes runtime_data.
StopReturns ==
    /\ state = "stopping"
    /\ state' = IF removing THEN "revoking" ELSE "not_loaded"
    /\ runtime' = None
    /\ firing' = firing \ {runtime}
    /\ task' = [task EXCEPT ![runtime] = "ended"]
    /\ sockets' = sockets \ {runtime}
    /\ Leave
    /\ UNCHANGED <<removing, reload, platforms, using, up, rows>>

------------------------------------------------------------------------------
(* Removing: async_remove_entry. *)

\* The user deletes the entry: it is unloaded first if it is loaded, and what
\* would not unload before is not tried again.
Remove ==
    /\ ~removing
    /\ state \in {"loaded", "not_loaded", "setup_error", "failed_unload"}
    /\ removing' = TRUE
    /\ state' = IF state = "loaded" THEN "unloading" ELSE "revoking"
    /\ Leave
    /\ UNCHANGED <<reload, platforms, runtime, firing, taskVars, stationVars>>

\* The row of pairing n goes, and the station closes the sockets it has.
Unpair(n) ==
    /\ rows' = rows \ {n}
    /\ sockets' = {g \in sockets : using[g] # n}

Gone ==
    /\ state' = "gone"
    /\ removing' = FALSE
    /\ reauth' = FALSE
    /\ UNCHANGED <<reload, platforms, runtime, firing, taskVars, token, presented, up>>

\* Mutant: a station that cannot be reached keeps the entry from going.
RevokeOrStay ==
    /\ state = "revoking"
    /\ up
    /\ Unpair(presented)
    /\ Gone

\* revoke_self with a client of its own, and the token that had when it began:
\* not one stored since.  The entry goes whether the station answers, has already forgotten the token, or cannot be reached.
RevokeSelf ==
    /\ state = "revoking"
    /\ \/ up /\ Unpair(presented)
       \/ UNCHANGED <<rows, sockets>>
    /\ Gone

------------------------------------------------------------------------------
(* The events task of a connection, as StationConnection has it. *)

Connect(g) ==
    /\ task[g] = "trying" /\ up /\ using[g] \in rows
    /\ task' = [task EXCEPT ![g] = "streaming"]
    /\ sockets' = sockets \cup {g}
    /\ UNCHANGED <<entryVars, using, pairVars, up, rows>>

\* A 401 ends the task.
Refused(g) ==
    /\ task[g] = "trying" /\ up /\ using[g] \notin rows
    /\ task' = [task EXCEPT ![g] = "ended"]
    /\ reauth' = TRUE
    /\ UNCHANGED <<entryVars, using, token, presented, stationVars>>

Lose(g) ==
    /\ task[g] = "streaming"
    /\ task' = [task EXCEPT ![g] = "trying"]
    /\ sockets' = sockets \ {g}
    /\ UNCHANGED <<entryVars, using, pairVars, up, rows>>

------------------------------------------------------------------------------
(* Around the entry: the station, the reauth flow, and Home Assistant. *)

ComeOrGo ==
    /\ up' = ~up
    /\ UNCHANGED <<entryVars, taskVars, pairVars, rows, sockets>>

RevokeRow(n) ==
    /\ n \in rows
    /\ Unpair(n)
    /\ UNCHANGED <<entryVars, taskVars, pairVars, up>>

\* Mutant: the new token is stored, and the entry not reloaded.
PairAgainNoReload ==
    /\ reauth /\ up /\ token < MaxPairings /\ state # "gone"
    /\ token' = token + 1
    /\ rows' = rows \cup {token + 1}
    /\ reauth' = FALSE
    /\ UNCHANGED <<entryVars, taskVars, presented, up, sockets>>

\* The reauth flow ends: async_update_reload_and_abort stores the token and
\* schedules a reload.
PairAgain ==
    /\ reauth /\ up /\ token < MaxPairings /\ state # "gone"
    /\ token' = token + 1
    /\ rows' = rows \cup {token + 1}
    /\ reauth' = FALSE
    /\ reload' = TRUE
    /\ UNCHANGED <<state, removing, platforms, runtime, firing, taskVars, presented, up, sockets>>

\* Home Assistant restarts: what is in memory is lost, entry.data is not.
Restart ==
    /\ state' = IF state = "gone" THEN "gone" ELSE "not_loaded"
    /\ removing' = FALSE /\ reload' = FALSE /\ reauth' = FALSE
    /\ platforms' = {} /\ runtime' = None /\ firing' = {} /\ sockets' = {}
    /\ task' = [g \in Connections |-> "ended"]
    /\ UNCHANGED <<using, token, presented, up, rows>>

------------------------------------------------------------------------------

\* What Home Assistant has begun for the entry.
Proceed ==
    \/ PlatformsReady \/ PlatformsFail
    \/ PlatformsKept \/ PlatformsUnloaded \/ StopReturns
    \/ RevokeSelf

Next ==
    \/ Proceed
    \/ \E g \in Connections : SetUp(g) \/ Connect(g) \/ Refused(g) \/ Lose(g) \/ Closed(g)
    \/ Unload \/ Remove
    \/ ComeOrGo \/ (\E n \in Pairings : RevokeRow(n))
    \/ PairAgain \/ Restart

Spec == Init /\ [][Next]_vars

\* Platforms load and unload or fail to, async_stop and the revocation have
\* their time limits, and a scheduled reload takes place.  Nothing is assumed
\* of the station, the user or the next restart.
Fairness ==
    /\ WF_vars(Proceed)
    /\ WF_vars(reload /\ (Unload \/ \E g \in Connections : SetUp(g)))

FairSpec == Spec /\ Fairness

------------------------------------------------------------------------------
(* What holds of an entry and its connections. *)

Alive(g) == task[g] \in {"trying", "streaming", "closing"}

\* TYPE.  Every variable keeps its type, and where there must be a connection
\* in runtime_data there is one.
TypeOK ==
    /\ state \in EntryStates
    /\ removing \in BOOLEAN /\ reload \in BOOLEAN /\ reauth \in BOOLEAN /\ up \in BOOLEAN
    /\ platforms \subseteq Platforms
    /\ runtime \in Connections \cup {None}
    /\ state \in {"setting_up", "loaded", "unloading", "stopping", "failed_unload"} =>
          runtime # None
    /\ firing \subseteq Connections
    /\ task \in [Connections -> TaskStates]
    /\ using \in [Connections -> Pairings]
    /\ token \in Pairings /\ presented \in Pairings
    /\ rows \subseteq Pairings
    /\ sockets \subseteq Connections

\* The station never sees two sockets from one entry (async_stop): through
\* any reload, only the connection in runtime_data lives or is fired for,
\* even when the station leaves the close of the last one unanswered.
OneSocketPerEntry ==
    \A g \in Connections : Alive(g) \/ g \in sockets \/ g \in firing => runtime = g

\* What a connection hears is fired, and shown: its task is never seeding or on
\* a socket before `fire` is registered, nor after it is removed; and from its
\* setup until it is unloaded, only with every platform's entities there.
HeardIsFired ==
    \A g \in Connections : task[g] \in {"trying", "streaming"} =>
        g \in firing /\ (state \in {"setting_up", "loaded", "unloading"} => platforms = Platforms)

\* An entry that is kept is listening, or was refused for good: whether it is
\* loaded or a platform would not unload.
KeptEntryListens ==
    state \in {"loaded", "failed_unload"} =>
        task[runtime] \in {"trying", "streaming"} \/ using[runtime] \notin rows

\* An entry that is not loaded has no task and no socket, and one that is
\* gone is not asked to be paired again: its socket is closed before its own
\* token is revoked.  What escapes is an entry removed over a platform that
\* would not unload, until Home Assistant restarts.
UnloadedIsSilent ==
    state \in {"not_loaded", "setup_error", "setting_up", "revoking", "gone"}
    /\ platforms = {} =>
        /\ sockets = {} /\ \A g \in Connections : ~Alive(g)
        /\ state = "gone" => ~reauth

\* What each connection is to the entry: wanted from its setup until it is
\* stopped, or Home Assistant lets go of it.
Task(g) == INSTANCE EventsTask WITH
               task   <- task[g],
               wanted <- g \in firing /\ state # "stopping",
               holds  <- g \in sockets,
               knows  <- using[g] \in rows

\* REFINEMENT.  Through setups, reloads, failed unloads, removals, revoked
\* tokens and restarts, each connection the entry makes lives as EventsTask
\* allows and as StationConnection does: never started twice, cancelled while
\* it is still wanted, or left with a socket.
ConnectionsAreTasks ==
    /\ \A g \in Connections : Task(g)!Init
    /\ [][\A g \in Connections : [Task(g)!Next]_(Task(g)!taskVars)]_vars

------------------------------------------------------------------------------
(* The inductive invariant behind the safety properties above. *)

\* Only the connection in runtime_data is more than a name, and the station
\* holds a socket only of a task that has one.
OnlyRuntime ==
    \A g \in Connections :
        /\ task[g] # "ended" \/ g \in firing => runtime = g
        /\ g \in sockets => task[g] \in {"streaming", "closing"}

\* What the state of the entry says of that connection.
StateOfRuntime ==
    /\ state = "setting_up" => task[runtime] = "unstarted" /\ runtime \in firing
    /\ state \in {"loaded", "unloading", "failed_unload"} =>
          /\ runtime \in firing
          /\ task[runtime] \in {"trying", "streaming"}
             \/ (task[runtime] = "ended" /\ using[runtime] \notin rows)
    /\ state = "stopping" => task[runtime] \in {"closing", "ended"}
    /\ state \in {"revoking", "gone"} => \A g \in Connections :
          /\ task[g] \in {"trying", "streaming", "ended"}
          /\ task[g] # "ended" => g \in firing
          /\ platforms = {} => task[g] = "ended"
    /\ state \in {"not_loaded", "setup_error"} =>
          firing = {} /\ \A g \in Connections : task[g] = "ended"
    /\ \A g \in Connections : using[g] <= token

\* What it says of the platforms.
StateOfPlatforms ==
    /\ state \in {"loaded", "unloading"} => platforms = Platforms
    /\ state = "failed_unload" => platforms # {}
    /\ state \in {"not_loaded", "setup_error", "setting_up", "stopping"} => platforms = {}
    /\ state = "gone" /\ platforms = {} => ~reauth
    /\ platforms # {} => runtime # None

\* The inductive invariant: the state of the entry settles what its one
\* connection may be doing.
Inductive == TypeOK /\ OnlyRuntime /\ StateOfRuntime /\ StateOfPlatforms

------------------------------------------------------------------------------

\* LIVENESS.  An entry being removed goes away, whatever the station does.
RemovalCompletes == removing ~> ~removing

\* LIVENESS.  A token the entry no longer has stops being used: the new one
\* is taken up, short of a platform that will not unload.
NewTokenTaken ==
    state = "loaded" /\ using[runtime] # token
        ~> \/ runtime = None \/ state = "failed_unload" \/ removing \/ state = "gone"
           \/ using[runtime] = token
==============================================================================
