------------------------ MODULE StationConnectionFeed ------------------------
(****************************************************************************)
(* StationConnection implements AlertFeed, when the station sends a         *)
(* snapshot on join: the entities show the board, the board stands for the  *)
(* first `upTo` transitions of the log, and what was heard is what was      *)
(* fired on the bus.                                                        *)
(****************************************************************************)
EXTENDS StationConnection

Feed == INSTANCE AlertFeed WITH
            cursor <- upTo,
            view   <- published,
            heard  <- [i \in 1 .. Len(bus) |-> bus[i].n]

\* The dashboard and the automations get what AlertFeed promises: one moment
\* of the station's history at a time, never an earlier one than before, with
\* each step forward announced, or made while catching up and not announced.
ImplementsFeed == Feed!Spec

------------------------------------------------------------------------------
(* The inductive invariant behind the refinement, for JoinSnapshot. *)

\* What was said of an alert has a last word.
LastsExist ==
    \A a \in Alerts : \A p \in 1 .. Len(log) :
        (\E n \in 1 .. p : log[n].alert = a) => \E n \in 1 .. p : Feed!IsLast(log, a, p, n)

\* The station, the board and an answer to a seed are each the log up to a
\* moment, and the later the nearer to the station.
MomentsAreTrue ==
    /\ OpenBoard = Feed!BoardAfter(log, Len(log))
    /\ upTo <= Len(log) /\ board = Feed!BoardAfter(log, upTo)
    /\ reply # NoReply =>
          /\ seededAt \in upTo .. Len(log)
          /\ reply = Feed!BoardAfter(log, seededAt)

Additive(f) == f.event = "additive"

\* A snapshot comes before every transition, and is no older than the board.
SnapshotsAreTrue ==
    \A i \in 1 .. Len(frames) : frames[i].event = "snapshot" =>
        /\ frames[i].n \in upTo .. Len(log)
        /\ frames[i].alerts = Feed!BoardAfter(log, frames[i].n)
        /\ \A j \in 1 .. i - 1 : Additive(frames[j])

\* Each transition on its way is the next one after what the board, or the
\* frame before it, tells.
FramesFollowOn ==
    /\ \A i \in 1 .. Len(frames) :
          frames[i].event \in Events =>
             /\ IsTransition(frames[i])
             /\ (\A j \in 1 .. i - 1 : Additive(frames[j])) => frames[i].n = upTo + 1
    /\ \A i, j \in 1 .. Len(frames) :
          /\ i < j /\ ~Additive(frames[i]) /\ ~Additive(frames[j])
          /\ \A k \in i + 1 .. j - 1 : Additive(frames[k])
          => frames[j].n = frames[i].n + 1

\* An open socket has everything up to now on its way.
SocketIsUpToDate ==
    socket = "open" =>
        /\ (\A i \in 1 .. Len(frames) : Additive(frames[i])) => upTo = Len(log)
        /\ \A i \in 1 .. Len(frames) :
              ~Additive(frames[i]) /\ (\A k \in i + 1 .. Len(frames) : Additive(frames[k])) =>
                 frames[i].n = Len(log)

Followed ==
    LastsExist /\ MomentsAreTrue /\ SnapshotsAreTrue /\ FramesFollowOn /\ SocketIsUpToDate
==============================================================================
