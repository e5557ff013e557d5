------------------------------ MODULE AlertFeed ------------------------------
(****************************************************************************)
(* What a dashboard and the automations are promised of one station, with   *)
(* no socket, seed or retry in sight: a reader of the log of what happened  *)
(* to the alerts.                                                           *)
(*                                                                          *)
(* The entities show the alerts as they stood at one moment of that log, or *)
(* show that they do not know.  The moment only ever moves forward.  It     *)
(* moves by one transition, which the bus announces, or silently over       *)
(* whatever was missed, which is never announced.                           *)
(****************************************************************************)
EXTENDS Naturals, Sequences, AlertEvents

VARIABLES
    log,        \* every transition so far, in order
    cursor,     \* how much of it the entities know of
    view,       \* what the entities show
    heard       \* the places in the log of the announced transitions

feedVars == <<log, cursor, view, heard>>

\* Of the first p transitions of a log h, the n-th is the last of alert a.
IsLast(h, a, p, n) ==
    /\ n \in 1 .. p /\ h[n].alert = a
    /\ \A m \in n + 1 .. p : h[m].alert # a

\* The alert a, and the open alerts, after the first p transitions of h.
EntryAfter(h, a, p) ==
    IF \E n \in 1 .. p : h[n].alert = a
    THEN EntryFor(h[CHOOSE n \in 1 .. p : IsLast(h, a, p, n)].event)
    ELSE "absent"
BoardAfter(h, p) == [a \in Alerts |-> EntryAfter(h, a, p)]

Showing(p) == [available |-> TRUE, alerts |-> BoardAfter(log, p)]
Unknown == [available |-> FALSE, alerts |-> NoBoard]

Init ==
    /\ log = <<>>
    /\ cursor = 0
    /\ view = Unknown
    /\ heard = <<>>

\* An alert moves.  Nobody here need know yet.
Happen(a, e) ==
    /\ log' = Append(log, [event |-> e, alert |-> a])
    /\ UNCHANGED <<cursor, view, heard>>

\* The next transition is shown and announced in one step.
Hear ==
    /\ view.available
    /\ cursor < Len(log)
    /\ cursor' = cursor + 1
    /\ view' = Showing(cursor')
    /\ heard' = Append(heard, cursor')
    /\ UNCHANGED log

\* What was missed is made up for on the board, and nowhere else.
CatchUp ==
    /\ cursor' \in cursor .. Len(log)
    /\ view' = IF view.available THEN Showing(cursor') ELSE view
    /\ UNCHANGED <<log, heard>>

Appear ==
    /\ ~view.available
    /\ view' = Showing(cursor)
    /\ UNCHANGED <<log, cursor, heard>>

Disappear ==
    /\ view' = Unknown
    /\ UNCHANGED <<log, cursor, heard>>

Next ==
    \/ \E a \in Alerts, e \in Events : Happen(a, e)
    \/ Hear
    \/ CatchUp
    \/ Appear
    \/ Disappear

Spec == Init /\ [][Next]_feedVars
==============================================================================
