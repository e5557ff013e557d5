------------------------- MODULE EntryLifecycleProofs -------------------------
(****************************************************************************)
(* Theorems about EntryLifecycle and the download Diagnostics makes of it,  *)
(* for any platforms and any number of reloads, pairings and restarts.      *)
(* Inductive is preserved by every action; the safety properties follow.    *)
(****************************************************************************)
EXTENDS Diagnostics, TLAPS

\* An entry that was never set up satisfies Inductive.
LEMMA InitHolds == Init => Inductive
<1> SUFFICES ASSUME Init PROVE Inductive
  OBVIOUS
<1>1. 1 \in Pairings
  BY LifecycleAssumption DEF Pairings
<1>2. TypeOK
  BY <1>1 DEF Init, TypeOK, EntryStates, TaskStates
<1>3. OnlyRuntime
  BY DEF Init, OnlyRuntime
<1>4. StateOfRuntime
  BY DEF Init, StateOfRuntime
<1>5. StateOfPlatforms
  BY DEF Init, StateOfPlatforms
<1> QED
  BY <1>2, <1>3, <1>4, <1>5 DEF Inductive

\* Every action keeps Inductive.
LEMMA StepHolds == Inductive /\ [Next]_vars => Inductive'
<1> SUFFICES ASSUME Inductive, [Next]_vars PROVE Inductive'
  OBVIOUS
<1> USE LifecycleAssumption
<1> USE DEF Inductive, TypeOK, OnlyRuntime, StateOfRuntime, StateOfPlatforms,
            EntryStates, TaskStates, Pairings, entryVars, taskVars, pairVars, stationVars
<1>1. ASSUME NEW g \in Connections, SetUp(g) PROVE Inductive'
  <2>1. TypeOK'
    BY <1>1 DEF SetUp, CanSetUp
  <2>2. OnlyRuntime'
    BY <1>1 DEF SetUp, CanSetUp
  <2>3. StateOfRuntime'
    BY <1>1 DEF SetUp, CanSetUp
  <2>4. StateOfPlatforms'
    BY <1>1 DEF SetUp, CanSetUp
  <2> QED
    BY <2>1, <2>2, <2>3, <2>4
<1>2. CASE PlatformsReady
  BY <1>2 DEF PlatformsReady
<1>3. CASE PlatformsFail
  BY <1>3 DEF PlatformsFail
<1>4. CASE PlatformsKept
  BY <1>4 DEF PlatformsKept, Leave
<1>5. CASE PlatformsUnloaded
  BY <1>5 DEF PlatformsUnloaded
<1>6. CASE StopReturns
  BY <1>6 DEF StopReturns, Leave
<1>7. CASE RevokeSelf
  BY <1>7 DEF RevokeSelf, Unpair, Gone
<1>8. ASSUME NEW g \in Connections, Connect(g) PROVE Inductive'
  <2>1. TypeOK'
    BY <1>8 DEF Connect
  <2>2. OnlyRuntime'
    BY <1>8 DEF Connect
  <2>3. StateOfRuntime'
    BY <1>8 DEF Connect
  <2>4. StateOfPlatforms'
    BY <1>8 DEF Connect
  <2> QED
    BY <2>1, <2>2, <2>3, <2>4
<1>9. ASSUME NEW g \in Connections, Refused(g) PROVE Inductive'
  BY <1>9 DEF Refused
<1>10. ASSUME NEW g \in Connections, Lose(g) PROVE Inductive'
  BY <1>10 DEF Lose
<1>11. ASSUME NEW g \in Connections, Closed(g) PROVE Inductive'
  BY <1>11 DEF Closed
<1>12. CASE Unload
  BY <1>12 DEF Unload
<1>13. CASE Remove
  BY <1>13 DEF Remove, Leave
<1>14. CASE ComeOrGo
  BY <1>14 DEF ComeOrGo
<1>15. ASSUME NEW n \in Pairings, RevokeRow(n) PROVE Inductive'
  BY <1>15 DEF RevokeRow, Unpair
<1>16. CASE PairAgain
  <2> token + 1 \in Pairings
    BY <1>16 DEF PairAgain
  <2>1. TypeOK'
    BY <1>16 DEF PairAgain
  <2>2. OnlyRuntime'
    BY <1>16 DEF PairAgain
  <2>3. StateOfRuntime'
    BY <1>16 DEF PairAgain
  <2>4. StateOfPlatforms'
    BY <1>16 DEF PairAgain
  <2> QED
    BY <2>1, <2>2, <2>3, <2>4
<1>17. CASE Restart
  BY <1>17 DEF Restart
<1>18. CASE UNCHANGED vars
  BY <1>18 DEF vars
<1>19. QED
  BY <1>1, <1>2, <1>3, <1>4, <1>5, <1>6, <1>7, <1>8, <1>9, <1>10, <1>11, <1>12, <1>13, <1>14, <1>15, <1>16, <1>17, <1>18 DEF Next, Proceed

\* Inductive is an invariant of the specification.
THEOREM InductiveInvariant == Spec => []Inductive
  BY InitHolds, StepHolds, PTL DEF Spec

\* Every variable keeps its type, and an entry that is being set up, loaded or
\* unloaded has a connection in runtime_data.
THEOREM TypeCorrect == Spec => []TypeOK
<1>1. Inductive => TypeOK
  BY DEF Inductive
<1> QED
  BY <1>1, InductiveInvariant, PTL

\* async_stop's promise: through any sequence of reloads, failed unloads,
\* re-pairings and restarts, nothing but the connection in runtime_data has a
\* task, a socket at the station, or `fire` registered with it.
THEOREM OneSocketAtATime == Spec => []OneSocketPerEntry
<1>1. Inductive => OneSocketPerEntry
  BY DEF Inductive, OnlyRuntime, OneSocketPerEntry, Alive
<1> QED
  BY <1>1, InductiveInvariant, PTL

\* Nothing heard goes unfired or unshown: `fire` is registered and the
\* platforms are up before the connection is started, and stay so for as long as
\* it tries, is on a socket, and is not unloaded.
THEOREM NothingHeardIsDropped == Spec => []HeardIsFired
<1>1. Inductive => HeardIsFired
  <2> SUFFICES ASSUME Inductive, NEW g \in Connections,
                      task[g] \in {"trying", "streaming"}
               PROVE  /\ g \in firing
                      /\ state \in {"setting_up", "loaded", "unloading"} => platforms = Platforms
    BY DEF HeardIsFired
  <2> QED
    BY DEF Inductive, TypeOK, OnlyRuntime, StateOfRuntime, StateOfPlatforms, EntryStates
<1> QED
  BY <1>1, InductiveInvariant, PTL

\* An entry Home Assistant keeps -- loaded, or not unloaded by its platforms
\* -- is trying or listening, or the station no longer takes its token.
THEOREM KeptMeansListening == Spec => []KeptEntryListens
<1>1. Inductive => KeptEntryListens
  BY DEF Inductive, StateOfRuntime, KeptEntryListens
<1> QED
  BY <1>1, InductiveInvariant, PTL

\* An entry that is not loaded is silent, and unpairing it asks nobody to
\* pair it again.
THEOREM NotLoadedIsSilent == Spec => []UnloadedIsSilent
<1>1. Inductive => UnloadedIsSilent
  <2> SUFFICES ASSUME Inductive, platforms = {},
                      state \in {"not_loaded", "setup_error", "setting_up", "revoking", "gone"}
               PROVE  /\ sockets = {} /\ \A g \in Connections : ~Alive(g)
                      /\ state = "gone" => ~reauth
    BY DEF UnloadedIsSilent
  <2>1. \A g \in Connections : task[g] \in {"unstarted", "ended"}
    BY DEF Inductive, TypeOK, OnlyRuntime, StateOfRuntime
  <2>2. sockets = {}
    BY <2>1 DEF Inductive, TypeOK, OnlyRuntime
  <2> QED
    BY <2>1, <2>2 DEF Inductive, StateOfPlatforms, Alive
<1> QED
  BY <1>1, InductiveInvariant, PTL

\* A download taken in the middle of a setup, an unload, a removal or a restart
\* tells its reader what is going on, and its note is never a lie.
THEOREM DownloadIsReadable == Spec => []DownloadTellsWhy
<1>1. Inductive => DownloadTellsWhy
  <2> SUFFICES ASSUME Inductive, state # "gone" PROVE DownloadTellsWhy
    BY DEF DownloadTellsWhy
  <2>. DEFINE shown == StateValue
  <2>1. state \in EntryStates /\ task \in [Connections -> TaskStates]
        /\ runtime \in Connections \cup {None} /\ sockets \in SUBSET Connections
    BY DEF Inductive, TypeOK
  <2>2. /\ shown = "setup_in_progress" <=> state = "setting_up"
        /\ shown = "unload_in_progress" <=> state \in {"unloading", "stopping"}
        /\ shown = "loaded" <=> state = "loaded"
        /\ shown = "failed_unload" <=>
              state = "failed_unload" \/ (state = "revoking" /\ platforms # {})
    BY <2>1 DEF StateValue, EntryStates
  <2>. HIDE DEF shown
  <2>3. /\ Download.state = shown
        /\ Download.note <=> runtime = None
        /\ runtime # None => /\ Download.connection.connected <=>
                                    task[runtime] \in {"streaming", "closing"}
                             /\ Download.connection.task_running <=>
                                    task[runtime] \in {"trying", "streaming"}
    BY DEF Download, Describe, shown
  <2>4. CASE runtime = None
    <3>1. None \notin Connections
      BY LifecycleAssumption
    <3>2. \A g \in Connections : task[g] = "ended" /\ g \notin sockets /\ g \notin firing
      BY <2>4, <3>1 DEF Inductive, OnlyRuntime
    <3>3. sockets = {} /\ \A g \in Connections : ~Alive(g)
      BY <2>1, <3>2 DEF Alive
    <3>4. state \notin {"setting_up", "loaded", "failed_unload"}
      BY <2>4, <3>1, <3>2 DEF Inductive, TypeOK, StateOfRuntime, EntryStates
    <3>5. ~(state = "revoking" /\ platforms # {})
      BY <2>4 DEF Inductive, StateOfPlatforms
    <3>. QED
      BY <2>2, <2>3, <2>4, <3>3, <3>4, <3>5 DEF DownloadTellsWhy
  <2>5. CASE runtime # None
    <3>1. state = "loaded" => task[runtime] \in {"trying", "streaming"} \/ using[runtime] \notin rows
      BY DEF Inductive, StateOfRuntime
    <3>2. task[runtime] = "closing" => state \in {"unloading", "stopping"}
      BY <2>1, <2>5 DEF Inductive, TypeOK, StateOfRuntime, EntryStates
    <3>. QED
      BY <2>2, <2>3, <2>5, <3>1, <3>2 DEF DownloadTellsWhy
  <2>. QED
    BY <2>4, <2>5
<1> QED
  BY <1>1, InductiveInvariant, PTL

------------------------------------------------------------------------------
(* The connections an entry makes, each as EventsTask has it. *)

\* The station drops a row: it forgets the connections that present it.
LEMMA UnpairSeen ==
    ASSUME NEW g \in Connections, NEW n, Unpair(n),
           UNCHANGED <<task[g], g \in firing, state = "stopping", using>>
    PROVE  Task(g)!Lose \/ Task(g)!Forget \/ UNCHANGED Task(g)!taskVars
<1>1. /\ using[g] \in rows' <=> using[g] \in rows /\ using[g] # n
      /\ g \in sockets' <=> g \in sockets /\ using[g] # n
      /\ using'[g] = using[g]
  BY DEF Unpair
<1>2. CASE using[g] # n
  BY <1>1, <1>2 DEF Task!taskVars
<1>3. CASE using[g] = n /\ n \in rows
  BY <1>1, <1>3 DEF Task!Forget
<1>4. CASE using[g] = n /\ n \notin rows /\ g \in sockets
  BY <1>1, <1>4 DEF Task!Lose
<1>5. CASE using[g] = n /\ n \notin rows /\ g \notin sockets
  BY <1>1, <1>5 DEF Task!taskVars
<1>. QED
  BY <1>2, <1>3, <1>4, <1>5

\* One connection, through one step of the entry, the station or the user.
LEMMA StepSeen ==
    ASSUME Inductive, [Next]_vars, NEW g \in Connections
    PROVE  [Task(g)!Next]_(Task(g)!taskVars)
<1> USE LifecycleAssumption
<1> USE DEF entryVars, taskVars, pairVars, stationVars
<1>1. ASSUME NEW h \in Connections, SetUp(h) PROVE Task(g)!Next \/ UNCHANGED Task(g)!taskVars
  <2>1. g \notin firing /\ state # "stopping" /\ state' # "stopping"
    BY <1>1 DEF SetUp, CanSetUp, Inductive, StateOfRuntime
  <2>2. CASE g = h
    <3>1. task[g] = "ended" /\ task'[g] = "unstarted" /\ g \in firing' /\ sockets' = sockets
      BY <1>1, <2>2 DEF SetUp, Inductive, TypeOK
    <3>. QED
      BY <2>1, <3>1 DEF Task!Next, Task!Make
  <2>3. CASE g # h
    BY <1>1, <2>1, <2>3 DEF SetUp, Inductive, TypeOK, Task!taskVars
  <2>. QED
    BY <2>2, <2>3
<1>2. CASE PlatformsReady
  <2>1. runtime \in firing /\ task[runtime] = "unstarted"
    BY <1>2 DEF PlatformsReady, Inductive, StateOfRuntime
  <2>2. CASE g = runtime
    BY <1>2, <2>1, <2>2 DEF PlatformsReady, Inductive, TypeOK, Task!Next, Task!Begin
  <2>3. CASE g # runtime
    BY <1>2, <2>3 DEF PlatformsReady, Inductive, TypeOK, Task!taskVars
  <2>. QED
    BY <2>2, <2>3
<1>3. CASE PlatformsFail
  <2>1. CASE g = runtime
    <3>1. g \notin sockets
      BY <1>3, <2>1 DEF PlatformsFail, Inductive, OnlyRuntime, StateOfRuntime
    <3>. QED
      BY <1>3, <2>1, <3>1 DEF PlatformsFail, Inductive, TypeOK, Task!Next, Task!Perish
  <2>2. CASE g # runtime
    BY <1>3, <2>2 DEF PlatformsFail, Inductive, TypeOK, Task!taskVars
  <2>. QED
    BY <2>1, <2>2
<1>4. CASE PlatformsKept
  BY <1>4 DEF PlatformsKept, Leave, Task!taskVars
<1>5. CASE PlatformsUnloaded
  <2>1. CASE g = runtime
    <3>1. g \in firing /\ task[g] \in {"trying", "streaming", "ended"}
      BY <1>5, <2>1 DEF PlatformsUnloaded, Inductive, StateOfRuntime
    <3>2. task'[g] = IF task[g] = "streaming" THEN "closing" ELSE "ended"
      BY <1>5, <2>1 DEF PlatformsUnloaded, Inductive, TypeOK
    <3>. QED
      BY <1>5, <3>1, <3>2 DEF PlatformsUnloaded, Task!Next, Task!Cancel
  <2>2. CASE g # runtime
    <3>1. g \notin firing
      BY <2>2 DEF Inductive, OnlyRuntime
    <3>. QED
      BY <1>5, <2>2, <3>1 DEF PlatformsUnloaded, Inductive, TypeOK, Task!taskVars
  <2>. QED
    BY <2>1, <2>2
<1>6. CASE StopReturns
  <2>1. CASE g = runtime
    BY <1>6, <2>1 DEF StopReturns, Leave, Inductive, TypeOK, Task!Next, Task!Perish
  <2>2. CASE g # runtime
    <3>1. g \notin firing
      BY <2>2 DEF Inductive, OnlyRuntime
    <3>. QED
      BY <1>6, <2>2, <3>1 DEF StopReturns, Leave, Inductive, TypeOK, Task!taskVars
  <2>. QED
    BY <2>1, <2>2
<1>7. CASE RevokeSelf
  <2>1. UNCHANGED <<firing, task, using>> /\ state # "stopping" /\ state' # "stopping"
    BY <1>7 DEF RevokeSelf, Gone
  <2>2. CASE Unpair(presented)
    BY <2>1, <2>2, UnpairSeen DEF Task!Next
  <2>3. CASE UNCHANGED <<rows, sockets>>
    BY <2>1, <2>3 DEF Task!taskVars
  <2>. QED
    BY <1>7, <2>2, <2>3 DEF RevokeSelf
<1>8. ASSUME NEW h \in Connections, Connect(h) PROVE Task(g)!Next \/ UNCHANGED Task(g)!taskVars
  <2>1. CASE g = h
    <3>1. g \in firing /\ state # "stopping"
      BY <1>8, <2>1 DEF Connect, Inductive, TypeOK, EntryStates, OnlyRuntime, StateOfRuntime
    <3>. QED
      BY <1>8, <2>1, <3>1 DEF Connect, Inductive, TypeOK, Task!Next, Task!Come
  <2>2. CASE g # h
    BY <1>8, <2>2 DEF Connect, Inductive, TypeOK, Task!taskVars
  <2>. QED
    BY <2>1, <2>2
<1>9. ASSUME NEW h \in Connections, Refused(h) PROVE Task(g)!Next \/ UNCHANGED Task(g)!taskVars
  <2>1. CASE g = h
    <3>1. g \in firing /\ state # "stopping"
      BY <1>9, <2>1 DEF Refused, Inductive, TypeOK, EntryStates, OnlyRuntime, StateOfRuntime
    <3>. QED
      BY <1>9, <2>1, <3>1 DEF Refused, Inductive, TypeOK, Task!Next, Task!Refuse
  <2>2. CASE g # h
    BY <1>9, <2>2 DEF Refused, Inductive, TypeOK, Task!taskVars
  <2>. QED
    BY <2>1, <2>2
<1>10. ASSUME NEW h \in Connections, Lose(h) PROVE Task(g)!Next \/ UNCHANGED Task(g)!taskVars
  <2>1. CASE g = h
    <3>1. g \in firing /\ state # "stopping"
      BY <1>10, <2>1 DEF Lose, Inductive, TypeOK, EntryStates, OnlyRuntime, StateOfRuntime
    <3>. QED
      BY <1>10, <2>1, <3>1 DEF Lose, Inductive, TypeOK, Task!Next, Task!Drop
  <2>2. CASE g # h
    BY <1>10, <2>2 DEF Lose, Inductive, TypeOK, Task!taskVars
  <2>. QED
    BY <2>1, <2>2
<1>11. ASSUME NEW h \in Connections, Closed(h) PROVE Task(g)!Next \/ UNCHANGED Task(g)!taskVars
  <2>1. CASE g = h
    BY <1>11, <2>1 DEF Closed, Inductive, TypeOK, Task!Next, Task!Finish
  <2>2. CASE g # h
    BY <1>11, <2>2 DEF Closed, Inductive, TypeOK, Task!taskVars
  <2>. QED
    BY <2>1, <2>2
<1>12. CASE Unload
  BY <1>12 DEF Unload, Task!taskVars
<1>13. CASE Remove
  BY <1>13 DEF Remove, Leave, Task!taskVars
<1>14. CASE ComeOrGo
  BY <1>14 DEF ComeOrGo, Task!taskVars
<1>15. ASSUME NEW n \in Pairings, RevokeRow(n) PROVE Task(g)!Next \/ UNCHANGED Task(g)!taskVars
  BY <1>15, UnpairSeen DEF RevokeRow, Task!Next
<1>16. CASE PairAgain
  <2>1. using[g] # token + 1
    BY DEF Inductive, TypeOK, StateOfRuntime, Pairings
  <2>. QED
    BY <1>16, <2>1 DEF PairAgain, Task!taskVars
<1>17. CASE Restart
  BY <1>17 DEF Restart, Task!Next, Task!Perish
<1>18. CASE UNCHANGED vars
  BY <1>18 DEF vars, Task!taskVars
<1>. QED
  BY <1>1, <1>2, <1>3, <1>4, <1>5, <1>6, <1>7, <1>8, <1>9, <1>10, <1>11, <1>12, <1>13,
     <1>14, <1>15, <1>16, <1>17, <1>18 DEF Next, Proceed

\* REFINEMENT.  For any number of connections, platforms and pairings: what an
\* entry does to each connection, the events task in connection.py allows.
THEOREM EveryConnectionIsATask == Spec => ConnectionsAreTasks
<1>1. Init => \A g \in Connections : Task(g)!Init
  BY DEF Init, Task!Init
<1>2. Inductive /\ [Next]_vars => [\A g \in Connections : [Task(g)!Next]_(Task(g)!taskVars)]_vars
  BY StepSeen
<1>. QED
  BY <1>1, <1>2, InductiveInvariant, PTL DEF Spec, ConnectionsAreTasks
==============================================================================
