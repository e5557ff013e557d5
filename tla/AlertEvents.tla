----------------------------- MODULE AlertEvents -----------------------------
(****************************************************************************)
(* The words the modules share: what happens to an alert, and what a list   *)
(* of open alerts says of it.  An event is named by the status it moves an  *)
(* alert to: "expired" stands for the frame `alert.expired`.                *)
(****************************************************************************)

CONSTANT Alerts     \* alert ids this source raises on the station

Opens  == {"triggered", "acknowledged"}     \* _OPENS_ALERT
Closes == {"resolved", "expired"}           \* _CLOSES_ALERT
Events == Opens \cup Closes

\* An alert is on the list in its last status, or is not on it.
Entries == Opens \cup {"absent"}
EntryFor(e) == IF e \in Opens THEN e ELSE "absent"

Boards == [Alerts -> Entries]
NoBoard == [a \in Alerts |-> "absent"]
==============================================================================
