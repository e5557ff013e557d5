----------------------------- MODULE Diagnostics -----------------------------
(****************************************************************************)
(* diagnostics.py: what a user downloads of one entry, at any moment of a   *)
(* setup, an unload, a removal or a restart.  It is put together without an *)
(* await, so it is a reading of one state; what the connection says of      *)
(* itself is StationConnection's `Describe`, and how the token is scrubbed  *)
(* from the text is left out.                                               *)
(****************************************************************************)
EXTENDS EntryLifecycle

\* ConfigEntryState, which Home Assistant keeps: an entry being removed has
\* been unloaded, or could not be.
StateValue ==
    IF state = "setting_up" THEN "setup_in_progress"
    ELSE IF state \in {"unloading", "stopping"} THEN "unload_in_progress"
    ELSE IF state # "revoking" THEN state
    ELSE IF platforms = {} THEN "not_loaded" ELSE "failed_unload"

\* `connected` is cleared by the task as it ends; `_task` is let go of as
\* soon as it is cancelled.
Describe(g) == [connected    |-> task[g] \in {"streaming", "closing"},
                task_running |-> task[g] \in {"trying", "streaming"}]

\* Mutant: the state is asked, rather than whether there is a connection.
DownloadByState ==
    [state      |-> StateValue,
     connection |-> IF state # "loaded" THEN None ELSE Describe(runtime),
     note       |-> state # "loaded"]

\* async_get_config_entry_diagnostics.
Download ==
    [state      |-> StateValue,
     connection |-> IF runtime = None THEN None ELSE Describe(runtime),
     note       |-> runtime = None]

\* "The connection section tells those apart at a glance": an entry whose
\* entities are unavailable because it is not loaded, because the station is
\* out of reach, or because its token was revoked.  And the note is true: an
\* entry said to have no live connection has none, not even one that outlived
\* the last unload.
DownloadTellsWhy ==
    state # "gone" =>
        /\ Download.note =>
              /\ Download.state \notin {"loaded", "failed_unload", "setup_in_progress"}
              /\ sockets = {} /\ \A g \in Connections : ~Alive(g)
        /\ Download.state = "loaded" =>
              Download.connection.task_running \/ using[runtime] \notin rows
        /\ ~Download.note /\ Download.connection.connected =>
              \/ Download.connection.task_running
              \/ Download.state = "unload_in_progress"
==============================================================================
