----------------------- MODULE StationConnectionProofs -----------------------
(****************************************************************************)
(* What StationConnection guarantees for any set of alerts, either kind of  *)
(* station and any cap on the backoff, with proofs.                         *)
(****************************************************************************)
EXTENDS StationConnection, SequenceTheorems, TLAPS

------------------------------------------------------------------------------
(* Types. *)

LEMMA NoBoardIsABoard == NoBoard \in Boards
BY DEF NoBoard, Boards, Entries, Opens

LEMMA OpenBoardIsABoard == OpenBoard \in Boards
BY DEF OpenBoard, EntryFor, Boards, Entries, Opens

LEMMA EntriesAreEntries == \A e : EntryFor(e) \in Entries
BY DEF EntryFor, Entries, Opens

\* The station's own steps keep the station's types.
LEMMA StationTyping == StationTypeOK /\ StationNext => StationTypeOK'
<1> SUFFICES ASSUME StationTypeOK, StationNext PROVE StationTypeOK'
  OBVIOUS
<1>1. ASSUME NEW a \in Alerts, NEW e \in Events, Transition(a, e)
      PROVE  StationTypeOK'
  <2>1. [event |-> e, alert |-> a] \in Transitions
    BY DEF Transitions
  <2>2. TransitionFrame(Len(log) + 1, e, a) \in Frames
    BY NoBoardIsABoard DEF StationTypeOK, TransitionFrame, Frames
  <2>. QED
    BY <1>1, <2>1, <2>2, AppendProperties DEF StationTypeOK, Transition, Queue
<1>2. ASSUME NEW a \in Alerts, SendAdditive(a)
      PROVE  StationTypeOK'
  <2>1. AdditiveFrame(a) \in Frames
    BY NoBoardIsABoard DEF AdditiveFrame, Frames
  <2>. QED
    BY <1>2, <2>1, AppendProperties DEF StationTypeOK, SendAdditive, Queue
<1>3. CASE ChangeHealth
  BY <1>3 DEF StationTypeOK, ChangeHealth
<1>4. ASSUME NEW how \in {"closed", "dead"}, LoseSocket(how)
      PROVE  StationTypeOK'
  <2>1. PICK k \in 0 .. Len(frames) : frames' = SubSeq(frames, 1, k)
    BY <1>4 DEF LoseSocket
  <2>2. frames' \in Seq(Frames)
    BY <2>1, SubSeqProperties, ElementOfSeq DEF StationTypeOK
  <2>. QED
    BY <1>4, <2>2 DEF StationTypeOK, LoseSocket, SocketStates
<1>5. CASE Revoke
  BY <1>5 DEF StationTypeOK, Revoke, SocketStates
<1>. QED
  BY <1>1, <1>2, <1>3, <1>4, <1>5 DEF StationNext

LEMMA RenderTyping ==
    ASSUME NEW c \in BOOLEAN, NEW b \in Boards
    PROVE  Render(c, b) \in [available : BOOLEAN, alerts : Boards]
BY NoBoardIsABoard DEF Render

LEMMA SetConnectedTyping ==
    ASSUME TypeOK, board' \in Boards, NEW c \in BOOLEAN, SetConnected(c)
    PROVE  /\ connected' \in BOOLEAN
           /\ published' \in [available : BOOLEAN, alerts : Boards]
BY RenderTyping DEF TypeOK, SetConnected, Notify

LEMMA DropSocketTyping ==
    ASSUME StationTypeOK, DropSocket
    PROVE  StationTypeOK'
BY EmptySeq DEF StationTypeOK, DropSocket, SocketStates

LEMMA BackoffTyping ==
    ASSUME TypeOK, NextBackoff
    PROVE  /\ failures' \in 0 .. BackoffMaxFailures
           /\ held' \in HeldStates
BY BackoffAssumption DEF TypeOK, NextBackoff, HeldStates

LEMMA RetryTyping == TypeOK /\ Retry => TypeOK'
<1> SUFFICES ASSUME TypeOK, Retry PROVE TypeOK'
  OBVIOUS
<1>1. StationTypeOK'
  BY DropSocketTyping DEF TypeOK, Retry
<1>2. connected' \in BOOLEAN /\ published' \in [available : BOOLEAN, alerts : Boards]
  BY SetConnectedTyping DEF TypeOK, Retry
<1>3. failures' \in 0 .. BackoffMaxFailures /\ held' \in HeldStates
  BY BackoffTyping DEF Retry
<1>. QED
  BY <1>1, <1>2, <1>3 DEF TypeOK, Retry, TaskStates, historyVars

LEMMA RefusedTyping == TypeOK /\ Refused => TypeOK'
<1> SUFFICES ASSUME TypeOK, Refused PROVE TypeOK'
  OBVIOUS
<1>1. StationTypeOK'
  BY DropSocketTyping DEF TypeOK, Refused
<1>2. connected' \in BOOLEAN /\ published' \in [available : BOOLEAN, alerts : Boards]
  BY SetConnectedTyping DEF TypeOK, Refused
<1>. QED
  BY <1>1, <1>2 DEF TypeOK, Refused, TaskStates, historyVars, backoffVars

\* One frame folded in and announced.
LEMMA ReceiveTyping == TypeOK /\ Receive => TypeOK'
<1> SUFFICES ASSUME TypeOK, Receive PROVE TypeOK'
  OBVIOUS
<1> DEFINE f == Head(frames)
<1>1. f \in Frames /\ frames' \in Seq(Frames)
  BY HeadTailProperties DEF TypeOK, StationTypeOK, Receive
<1>2. StationTypeOK'
  BY <1>1 DEF TypeOK, StationTypeOK, Receive
<1>3. board' \in Boards
  <2>1. CASE f.event = "snapshot"
    BY <1>1, <2>1 DEF Receive, Apply, Frames, IsTransition, Events, Opens, Closes
  <2>2. CASE IsTransition(f)
    BY <2>2, EntriesAreEntries DEF TypeOK, Receive, Apply, Boards, IsTransition,
                                   Events, Opens, Closes
  <2>3. CASE f.event \notin Events \cup {"snapshot"}
    BY <2>3 DEF TypeOK, Receive, Apply, IsTransition
  <2>. QED
    BY <2>1, <2>2, <2>3 DEF Receive, Apply
<1>4. connected' \in BOOLEAN
  BY DEF TypeOK, Receive
<1>5. published' \in [available : BOOLEAN, alerts : Boards]
  BY <1>3, <1>4, RenderTyping DEF TypeOK, Receive, Apply, Notify
<1>6. bus' \in Seq(BusEvents)
  <2>1. CASE IsTransition(f)
    <3>1. [event |-> f.event, alert |-> f.alert, n |-> f.n,
           seen |-> published'.alerts[f.alert]] \in BusEvents
      BY <1>1, <1>5, <2>1 DEF Frames, BusEvents, IsTransition, Boards
    <3>. QED
      BY <2>1, <3>1, AppendProperties DEF TypeOK, Receive, Dispatch
  <2>2. CASE ~IsTransition(f)
    BY <2>2 DEF TypeOK, Receive, Dispatch
  <2>. QED
    BY <2>1, <2>2
<1>7. upTo' \in Nat
  BY <1>1 DEF TypeOK, Receive, Frames
<1>. QED
  BY <1>2, <1>3, <1>4, <1>5, <1>6, <1>7 DEF TypeOK, Receive, taskVars, backoffVars

LEMMA InitTyping == Init => TypeOK
<1> SUFFICES ASSUME Init PROVE TypeOK
  OBVIOUS
<1>1. StationTypeOK
  BY EmptySeq DEF Init, StationInit, StationTypeOK, SocketStates
<1>2. published \in [available : BOOLEAN, alerts : Boards]
  BY NoBoardIsABoard, RenderTyping DEF Init
<1>3. failures \in 0 .. BackoffMaxFailures
  BY BackoffAssumption DEF Init
<1>4. bus \in Seq(BusEvents)
  BY EmptySeq DEF Init
<1>. QED
  BY <1>1, <1>2, <1>3, <1>4, NoBoardIsABoard
     DEF Init, TypeOK, TaskStates, StopStates, HeldStates

LEMMA NextTyping == TypeOK /\ [Next]_vars => TypeOK'
<1> SUFFICES ASSUME TypeOK, [Next]_vars PROVE TypeOK'
  OBVIOUS
<1>. USE DEF TypeOK, TaskStates, StopStates, HeldStates, historyVars, stateVars,
             backoffVars, taskVars
<1>1. CASE StationStep
  BY <1>1, StationTyping DEF StationStep
<1>2. CASE AnswerSeed
  <2>1. Len(log) \in Nat
    BY LenProperties DEF StationTypeOK
  <2>. QED
    BY <1>2, <2>1, OpenBoardIsABoard DEF AnswerSeed, stationVars, StationTypeOK
<1>3. CASE Subscribe
  <2>1. Len(log) \in Nat
    BY LenProperties DEF StationTypeOK
  <2>2. SnapshotFrame \in Frames
    BY <2>1, OpenBoardIsABoard DEF SnapshotFrame, Frames
  <2>3. frames' \in Seq(Frames)
    BY <1>3, <2>2, EmptySeq, JoinSnapshotAssumption DEF Subscribe, AcceptSocket
  <2>4. StationTypeOK'
    BY <1>3, <2>3 DEF Subscribe, AcceptSocket, StationTypeOK, SocketStates
  <2>. QED
    BY <1>3, <2>1, <2>4 DEF Subscribe
<1>4. CASE Start
  BY <1>4 DEF Start, stationVars, StationTypeOK
<1>5. CASE SeedArrives
  <2>1. board' \in Boards
    BY <1>5 DEF SeedArrives
  <2>. QED
    BY <1>5, <2>1, RenderTyping DEF SeedArrives, Notify, stationVars, StationTypeOK
<1>6. CASE SeedRefused
  BY <1>6, RefusedTyping DEF SeedRefused
<1>7. CASE SeedFails
  BY <1>7, RetryTyping DEF SeedFails
<1>8. CASE SocketOpens
  <2>1. board' \in Boards /\ SetConnected(TRUE)
    BY <1>8 DEF SocketOpens
  <2>2. connected' \in BOOLEAN /\ published' \in [available : BOOLEAN, alerts : Boards]
    BY <2>1, SetConnectedTyping
  <2>. QED
    BY <1>8, <2>1, <2>2 DEF SocketOpens, stationVars, StationTypeOK
<1>9. CASE OpenRefused
  BY <1>9, RefusedTyping DEF OpenRefused
<1>10. CASE OpenFails
  BY <1>10, RetryTyping DEF OpenFails
<1>11. CASE Receive
  BY <1>11, ReceiveTyping
<1>12. CASE StreamEnds
  BY <1>12, RetryTyping DEF StreamEnds
<1>13. CASE HeartbeatFails
  BY <1>13, RetryTyping DEF HeartbeatFails
<1>14. CASE Wake
  BY <1>14 DEF Wake, stationVars, StationTypeOK
<1>15. CASE Unwind
  <2>1. StationTypeOK'
    BY <1>15, DropSocketTyping DEF Unwind
  <2>. QED
    BY <1>15, <2>1, SetConnectedTyping DEF Unwind
<1>16. CASE StopReturns
  BY <1>16, SetConnectedTyping DEF StopReturns, stationVars, StationTypeOK
<1>17. CASE SocketHolds
  BY <1>17 DEF SocketHolds, stationVars, StationTypeOK
<1>18. CASE Stop
  BY <1>18 DEF Stop, stationVars, StationTypeOK
<1>19. CASE UNCHANGED vars
  BY <1>19 DEF vars, stationVars, StationTypeOK
<1>. QED
  BY <1>1, <1>2, <1>3, <1>4, <1>5, <1>6, <1>7, <1>8, <1>9, <1>10, <1>11, <1>12,
     <1>13, <1>14, <1>15, <1>16, <1>17, <1>18, <1>19 DEF Next, TaskStep

\* Type correctness: connection.py's fields keep their types, and the failure
\* count its cap, whatever the station, the network and the unload do.
THEOREM TypeCorrect == Spec => []TypeOK
BY InitTyping, NextTyping, PTL DEF Spec

------------------------------------------------------------------------------
(* Control: the task, the socket, what is connected and what is shown. *)

\* Setting the connection state keeps the entities current, whether it
\* notifies them or finds nothing to tell.
LEMMA SetConnectedPublishes ==
    ASSUME PublishedIsCurrent, NEW c \in BOOLEAN, SetConnected(c), board' = board
    PROVE  connected' = c /\ PublishedIsCurrent'
BY DEF PublishedIsCurrent, SetConnected, Notify, Render

LEMMA RetryControl == TypeOK /\ Control /\ Retry /\ pc # "ended" /\ stop = "no"
                        => Control'
<1> SUFFICES ASSUME TypeOK, Control, Retry, pc # "ended", stop = "no"
             PROVE  Control'
  OBVIOUS
<1>1. connected' = FALSE /\ PublishedIsCurrent'
  BY SetConnectedPublishes DEF Control, Retry
<1>. QED
  BY <1>1 DEF Control, Retry, NextBackoff, DropSocket, RefusedNeverRetries

LEMMA RefusedControl == TypeOK /\ Control /\ Refused /\ stop = "no" /\ reply = NoReply
                        /\ pc \in {"seeding", "opening"}
                        => Control'
<1> SUFFICES ASSUME TypeOK, Control, Refused, stop = "no", reply = NoReply,
                    pc \in {"seeding", "opening"}
             PROVE  Control'
  OBVIOUS
<1>1. connected' = FALSE /\ PublishedIsCurrent'
  BY SetConnectedPublishes DEF Control, Refused
<1>. QED
  BY <1>1 DEF Control, Refused, DropSocket, RefusedNeverRetries, backoffVars

LEMMA InitControl == Init => Control
BY DEF Init, StationInit, Control, RefusedNeverRetries, PublishedIsCurrent

LEMMA NextControl == TypeOK /\ Control /\ [Next]_vars => Control'
<1> SUFFICES ASSUME TypeOK, Control, [Next]_vars PROVE Control'
  OBVIOUS
<1>. USE DEF RefusedNeverRetries, historyVars, stateVars, backoffVars, taskVars,
             stationVars
<1>1. CASE StationStep
  <2>1. UNCHANGED <<taskVars, reply, stateVars, backoffVars>>
    BY <1>1 DEF StationStep
  <2>2. /\ socket' = "none" <=> socket = "none"
        /\ socket = "none" => frames' = frames
    <3>1. ASSUME NEW a \in Alerts, NEW e \in Events, Transition(a, e)
          PROVE  UNCHANGED socket /\ (socket = "none" => frames' = frames)
      BY <3>1 DEF Transition, Queue
    <3>2. ASSUME NEW a \in Alerts, SendAdditive(a)
          PROVE  UNCHANGED socket /\ (socket = "none" => frames' = frames)
      BY <3>2 DEF SendAdditive
    <3>3. ASSUME NEW how \in {"closed", "dead"}, LoseSocket(how)
          PROVE  socket # "none" /\ socket' # "none"
      BY <3>3 DEF LoseSocket
    <3>. QED
      BY <1>1, <3>1, <3>2, <3>3 DEF StationStep, StationNext, ChangeHealth, Revoke
  <2>. QED
    BY <2>1, <2>2 DEF Control, PublishedIsCurrent
<1>2. CASE AnswerSeed
  BY <1>2 DEF AnswerSeed, Control, PublishedIsCurrent
<1>3. CASE Subscribe
  BY <1>3 DEF Subscribe, AcceptSocket, Control, PublishedIsCurrent
<1>4. CASE Start
  BY <1>4 DEF Start, Control, PublishedIsCurrent
<1>5. CASE SeedArrives
  BY <1>5 DEF SeedArrives, Notify, Control, PublishedIsCurrent
<1>6. CASE SeedRefused
  BY <1>6, RefusedControl DEF SeedRefused, Control
<1>7. CASE SeedFails
  BY <1>7, RetryControl DEF SeedFails, Control
<1>8. CASE SocketOpens
  <2>1. connected' = TRUE /\ PublishedIsCurrent'
    BY <1>8, SetConnectedPublishes DEF SocketOpens, Control
  <2>. QED
    BY <1>8, <2>1 DEF SocketOpens, Control
<1>9. CASE OpenRefused
  BY <1>9, RefusedControl DEF OpenRefused, Control
<1>10. CASE OpenFails
  BY <1>10, RetryControl DEF OpenFails, Control
<1>11. CASE Receive
  <2>1. PublishedIsCurrent'
    BY <1>11 DEF Receive, Apply, Notify, Control, PublishedIsCurrent
  <2>. QED
    BY <1>11, <2>1 DEF Receive, Control
<1>12. CASE StreamEnds
  BY <1>12, RetryControl DEF StreamEnds, Control
<1>13. CASE HeartbeatFails
  BY <1>13, RetryControl DEF HeartbeatFails, Control
<1>14. CASE Wake
  BY <1>14 DEF Wake, Control, PublishedIsCurrent
<1>15. CASE Unwind
  <2>1. connected' = FALSE /\ PublishedIsCurrent'
    BY <1>15, SetConnectedPublishes DEF Unwind, Control
  <2>. QED
    BY <1>15, <2>1 DEF Unwind, DropSocket, Control
<1>16. CASE StopReturns
  <2>1. connected' = FALSE /\ PublishedIsCurrent'
    BY <1>16, SetConnectedPublishes DEF StopReturns, Control
  <2>. QED
    BY <1>16, <2>1 DEF StopReturns, Control
<1>17. CASE SocketHolds
  BY <1>17 DEF SocketHolds, Control, PublishedIsCurrent
<1>18. CASE Stop
  BY <1>18 DEF Stop, Control, PublishedIsCurrent, TypeOK, TaskStates
<1>19. CASE UNCHANGED vars
  BY <1>19 DEF vars, Control, PublishedIsCurrent
<1>. QED
  BY <1>1, <1>2, <1>3, <1>4, <1>5, <1>6, <1>7, <1>8, <1>9, <1>10, <1>11, <1>12,
     <1>13, <1>14, <1>15, <1>16, <1>17, <1>18, <1>19 DEF Next, TaskStep

LEMMA ControlInvariant == Spec => []Control
<1>1. Init => Control
  BY InitControl
<1>2. TypeOK /\ Control /\ [Next]_vars => Control'
  BY NextControl
<1>. QED
  BY <1>1, <1>2, TypeCorrect, PTL DEF Spec

\* `connected` never outlives the reading of the socket, however the loop, the
\* refusal of the token or the unload got there.
THEOREM NeverConnectedAndDeaf == Spec => []ConnectedMeansListening
<1>1. Control => ConnectedMeansListening
  BY DEF Control, ConnectedMeansListening
<1>. QED
  BY <1>1, ControlInvariant, PTL

\* No change of the connection goes without its notification: entities show
\* what the connection would say now.
THEOREM EntitiesAreCurrent == Spec => []PublishedIsCurrent
<1>1. Control => PublishedIsCurrent
  BY DEF Control
<1>. QED
  BY <1>1, ControlInvariant, PTL

\* A 401 ends the task for good: it is not retried.
THEOREM RefusalIsFinal == Spec => []RefusedNeverRetries
<1>1. Control => RefusedNeverRetries
  BY DEF Control
<1>. QED
  BY <1>1, ControlInvariant, PTL

\* A diagnostics download never contradicts itself, whatever the connection
\* was doing when it was taken.
THEOREM DownloadCanBeRead == Spec => []DescriptionTellsWhy
<1>1. Control /\ TypeOK => DescriptionTellsWhy
  BY DEF Control, TypeOK, TaskStates, StopStates, Describe, DescriptionTellsWhy
<1>. QED
  BY <1>1, ControlInvariant, TypeCorrect, PTL

\* Once async_stop is called the station cannot reach the entities or the bus
\* any more, close handshake and old frames notwithstanding.
THEOREM StopIsFinal == Spec => NothingAfterStop
<1> DEFINE Quiet == stop # "no" => /\ UNCHANGED <<board, bus>>
                                   /\ connected' => connected
<1>1. TypeOK /\ Control /\ [Next]_vars => [Quiet]_vars
  <2> SUFFICES ASSUME TypeOK, Control, Next, stop # "no"
               PROVE  /\ UNCHANGED <<board, bus>>
                      /\ connected' => connected
    BY DEF vars
  <2>1. pc \in {"cancelled", "closing", "ended"}
    BY DEF Control
  <2>2. CASE StationStep
    BY <2>2 DEF StationStep, stateVars
  <2>3. CASE Unwind
    BY <2>3 DEF Unwind, SetConnected
  <2>4. CASE StopReturns
    BY <2>4 DEF StopReturns, SetConnected
  <2>. QED
    BY <2>1, <2>2, <2>3, <2>4
       DEF Next, TaskStep, Start, AnswerSeed, Subscribe, SeedArrives, SeedRefused,
           SeedFails, SocketOpens, OpenRefused, OpenFails, Receive, StreamEnds,
           HeartbeatFails, Wake, SocketHolds, Stop
<1>. QED
  BY <1>1, TypeCorrect, ControlInvariant, PTL DEF Spec, NothingAfterStop

------------------------------------------------------------------------------
(* Delivery: what was heard, what is on its way, and what happened. *)

\* Delivery depends on the histories alone.
LEMMA DeliveryUnchanged ==
    Delivery /\ UNCHANGED <<log, frames, bus, seededAt, subscribedAt>> => Delivery'
BY DEF Delivery, HeardInOrder, EventsSeeTheirEffect, IsTransition

\* Dropping the socket leaves nothing on its way to go wrong.
LEMMA DeliveryDropped ==
    Delivery /\ DropSocket /\ UNCHANGED <<bus, seededAt, subscribedAt>> => Delivery'
BY DEF Delivery, DropSocket, HeardInOrder, EventsSeeTheirEffect

\* Nor does losing the tail of the frames.
LEMMA DeliveryLost ==
    ASSUME TypeOK, Delivery, NEW k \in 0 .. Len(frames),
           frames' = SubSeq(frames, 1, k), UNCHANGED <<log, bus, seededAt, subscribedAt>>
    PROVE  Delivery'
<1>1. /\ Len(frames') = k
      /\ \A i \in 1 .. k : frames'[i] = frames[i]
  <2>1. Len(frames) \in Nat /\ \A i \in 1 .. k : frames[i] \in Frames
    BY ElementOfSeq, LenProperties DEF TypeOK, StationTypeOK
  <2>. QED
    BY <2>1, SubSeqProperties
<1>2. \A i \in 1 .. Len(frames') : i \in 1 .. Len(frames)
  BY <1>1, LenProperties DEF TypeOK, StationTypeOK
<1>. QED
  BY <1>1, <1>2 DEF Delivery, HeardInOrder, EventsSeeTheirEffect, IsTransition

\* A frame that reports no transition may be added.
LEMMA DeliveryAdditive ==
    ASSUME TypeOK, Delivery, NEW f \in Frames, ~IsTransition(f),
           frames' = Append(frames, f), UNCHANGED <<log, bus, seededAt, subscribedAt>>
    PROVE  Delivery'
<1>1. /\ Len(frames') = Len(frames) + 1
      /\ \A i \in 1 .. Len(frames) : frames'[i] = frames[i]
      /\ frames'[Len(frames) + 1] = f
  BY AppendProperties DEF TypeOK, StationTypeOK
<1>2. Len(frames) \in Nat
  BY LenProperties DEF TypeOK, StationTypeOK
<1>3. \A i \in 1 .. Len(frames') : IsTransition(frames'[i]) =>
          i \in 1 .. Len(frames) /\ frames'[i] = frames[i]
  BY <1>1, <1>2
<1>. QED
  BY <1>1, <1>2, <1>3 DEF Delivery, HeardInOrder, EventsSeeTheirEffect, IsTransition

\* The station adds to the log, and to the frames of an open socket.
LEMMA DeliveryTransition ==
    ASSUME TypeOK, Delivery, NEW a \in Alerts, NEW e \in Events, Transition(a, e),
           UNCHANGED <<bus, seededAt, subscribedAt>>
    PROVE  Delivery'
<1> DEFINE t == [event |-> e, alert |-> a]
           f == TransitionFrame(Len(log) + 1, e, a)
<1>1. Len(log) \in Nat /\ Len(frames) \in Nat
  BY LenProperties DEF TypeOK, StationTypeOK
<1>2. t \in Transitions
  BY DEF Transitions
<1>3. /\ Len(log') = Len(log) + 1
      /\ \A i \in 1 .. Len(log) : log'[i] = log[i]
      /\ log'[Len(log) + 1] = t
  BY <1>2, AppendProperties DEF TypeOK, StationTypeOK, Transition
<1>4. \A i \in 1 .. Len(log) : i \in 1 .. Len(log')
  BY <1>1, <1>3
<1>5. HeardInOrder'
  BY <1>3, <1>4 DEF Delivery, HeardInOrder
<1>5a. EventsSeeTheirEffect' /\ seededAt' <= Len(log') /\ subscribedAt' <= Len(log')
  BY <1>1, <1>3 DEF Delivery, EventsSeeTheirEffect, TypeOK
<1>6. f \in Frames /\ f.n = Len(log) + 1 /\ f.event = e /\ f.alert = a
  BY <1>1, NoBoardIsABoard DEF TransitionFrame, Frames
<1>7. CASE socket # "open"
  <2>1. frames' = frames
    BY <1>7 DEF Transition, Queue
  <2>. QED
    BY <1>3, <1>4, <1>5, <1>5a, <2>1 DEF Delivery
<1>8. CASE socket = "open"
  <2>1. /\ Len(frames') = Len(frames) + 1
        /\ \A i \in 1 .. Len(frames) : frames'[i] = frames[i]
        /\ frames'[Len(frames) + 1] = f
    BY <1>6, <1>8, AppendProperties DEF TypeOK, StationTypeOK, Transition, Queue
  <2>2. \A j \in 1 .. Len(bus) : bus[j].n < Len(log) + 1
    <3>1. \A j \in 1 .. Len(bus) : bus[j].n \in 1 .. Len(log)
      BY DEF Delivery, HeardInOrder
    <3>. QED
      BY <1>1, <3>1
  <2>3. ASSUME NEW i \in 1 .. Len(frames'), IsTransition(frames'[i])
        PROVE  /\ frames'[i].n \in 1 .. Len(log')
               /\ log'[frames'[i].n] =
                    [event |-> frames'[i].event, alert |-> frames'[i].alert]
               /\ \A j \in i + 1 .. Len(frames') :
                     IsTransition(frames'[j]) => frames'[i].n < frames'[j].n
               /\ \A j \in 1 .. Len(bus') : bus'[j].n < frames'[i].n
    <3>1. CASE i = Len(frames) + 1
      BY <1>1, <1>3, <1>6, <2>1, <2>2, <3>1
    <3>2. CASE i \in 1 .. Len(frames)
      <4>1. /\ frames[i].n \in 1 .. Len(log)
            /\ log[frames[i].n] = [event |-> frames[i].event, alert |-> frames[i].alert]
            /\ \A j \in i + 1 .. Len(frames) :
                  IsTransition(frames[j]) => frames[i].n < frames[j].n
            /\ \A j \in 1 .. Len(bus) : bus[j].n < frames[i].n
        BY <2>1, <2>3, <3>2 DEF Delivery
      <4>2. ASSUME NEW j \in i + 1 .. Len(frames'), IsTransition(frames'[j])
            PROVE  frames'[i].n < frames'[j].n
        <5>1. CASE j = Len(frames) + 1
          BY <1>1, <1>6, <2>1, <3>2, <4>1, <5>1
        <5>2. CASE j \in i + 1 .. Len(frames)
          BY <1>1, <2>1, <3>2, <4>1, <4>2, <5>2
        <5>. QED
          BY <1>1, <2>1, <3>2, <5>1, <5>2
      <4>3. log'[frames[i].n] = log[frames[i].n] /\ frames[i].n \in 1 .. Len(log')
        BY <1>3, <4>1
      <4>. QED
        BY <1>4, <2>1, <3>2, <4>1, <4>2, <4>3
    <3>3. i = Len(frames) + 1 \/ i \in 1 .. Len(frames)
      BY <1>1, <2>1
    <3>. QED
      BY ONLY <3>1, <3>2, <3>3
  <2>. QED
    BY <1>5, <1>5a, <2>3 DEF Delivery
<1>. QED
  BY <1>7, <1>8

\* What is received is the head of the frames, folded in and announced.
LEMMA ReceiveFacts ==
    ASSUME TypeOK, Control, Receive
    PROVE  /\ Head(frames) = frames[1] /\ frames[1] \in Frames
           /\ Len(frames') = Len(frames) - 1
           /\ Len(frames) \in Nat \ {0}
           /\ \A i \in 1 .. Len(frames') : frames'[i] = frames[i + 1]
           /\ published'.alerts = board'
           /\ IsTransition(frames[1]) =>
                board' = [board EXCEPT ![frames[1].alert] = EntryFor(frames[1].event)]
           /\ frames[1].event = "snapshot" => board' = frames[1].alerts
           /\ ~IsTransition(frames[1]) /\ frames[1].event # "snapshot" => board' = board
<1>. DEFINE f == Head(frames)
<1>1. /\ f = frames[1] /\ Len(frames) \in Nat \ {0}
      /\ f \in Frames
      /\ Len(frames') = Len(frames) - 1
      /\ \A i \in 1 .. Len(frames') : frames'[i] = frames[i + 1]
  BY HeadTailProperties, EmptySeq, LenProperties DEF TypeOK, StationTypeOK, Receive
<1>2. connected' = TRUE
  BY DEF Receive, Control
<1>3. PublishedIsCurrent'
  BY NextControl DEF Next, TaskStep, Control
<1>4. published'.alerts = board'
  BY <1>2, <1>3 DEF PublishedIsCurrent, Render
<1>5. /\ IsTransition(f) => board' = [board EXCEPT ![f.alert] = EntryFor(f.event)]
      /\ f.event = "snapshot" => board' = f.alerts
      /\ ~IsTransition(f) /\ f.event # "snapshot" => board' = board
  <2>1. "snapshot" \notin Events
    BY DEF Events, Opens, Closes
  <2>. QED
    BY <1>1, <2>1 DEF Receive, Apply, IsTransition
<1>. QED
  BY <1>1, <1>4, <1>5

\* A transition joins the bus as it leaves the frames; anything else only leaves.
LEMMA BusFacts ==
    ASSUME TypeOK, Control, Receive
    PROVE  \/ /\ ~IsTransition(frames[1])
              /\ bus' = bus
           \/ /\ IsTransition(frames[1])
              /\ Len(bus) \in Nat /\ Len(bus') = Len(bus) + 1
              /\ \A i \in 1 .. Len(bus) : bus'[i] = bus[i]
              /\ bus'[Len(bus) + 1].n = frames[1].n
              /\ bus'[Len(bus) + 1].event = frames[1].event
              /\ bus'[Len(bus) + 1].alert = frames[1].alert
              /\ bus'[Len(bus) + 1].seen = EntryFor(frames[1].event)
<1>. DEFINE f == frames[1]
<1>1. CASE ~IsTransition(f)
  BY <1>1, ReceiveFacts DEF Receive, Dispatch
<1>2. CASE IsTransition(f)
  <2> DEFINE b == [event |-> f.event, alert |-> f.alert, n |-> f.n,
                   seen |-> published'.alerts[f.alert]]
  <2>1. f \in Frames /\ bus' = Append(bus, b)
    BY <1>2, ReceiveFacts DEF Receive, Dispatch
  <2>2. published'.alerts[f.alert] = EntryFor(f.event)
    BY <1>2, ReceiveFacts DEF TypeOK, Boards, IsTransition
  <2>3. b \in BusEvents
    BY <1>2, <2>1, <2>2, EntriesAreEntries DEF BusEvents, Frames, IsTransition
  <2>4. /\ Len(bus') = Len(bus) + 1
        /\ \A i \in 1 .. Len(bus) : bus'[i] = bus[i]
        /\ bus'[Len(bus) + 1] = b
        /\ Len(bus) \in Nat
    BY <2>1, <2>3, AppendProperties, LenProperties DEF TypeOK
  <2>. QED
    BY <1>2, <2>2, <2>4
<1>. QED
  BY <1>1, <1>2

LEMMA DeliveryReceived == TypeOK /\ Control /\ Delivery /\ Receive => Delivery'
<1> SUFFICES ASSUME TypeOK, Control, Delivery, Receive PROVE Delivery'
  OBVIOUS
<1>1. UNCHANGED <<log, seededAt, subscribedAt>>
  BY DEF Receive
<1>2. /\ Len(frames) \in Nat \ {0}
      /\ Len(frames') = Len(frames) - 1
      /\ \A i \in 1 .. Len(frames') : frames'[i] = frames[i + 1]
  BY ReceiveFacts
\* What is still on its way was behind the head before.
<1>3. ASSUME NEW i \in 1 .. Len(frames'), IsTransition(frames'[i])
      PROVE  /\ frames'[i].n \in 1 .. Len(log)
             /\ log[frames'[i].n] =
                   [event |-> frames'[i].event, alert |-> frames'[i].alert]
             /\ \A j \in i + 1 .. Len(frames') :
                   IsTransition(frames'[j]) => frames'[i].n < frames'[j].n
             /\ \A j \in 1 .. Len(bus) : bus[j].n < frames'[i].n
             /\ IsTransition(frames[1]) => frames[1].n < frames'[i].n
  <2>1. i + 1 \in 1 .. Len(frames) /\ frames'[i] = frames[i + 1]
    BY <1>2
  <2>2. /\ frames[i + 1].n \in 1 .. Len(log)
        /\ log[frames[i + 1].n] =
              [event |-> frames[i + 1].event, alert |-> frames[i + 1].alert]
        /\ \A j \in (i + 1) + 1 .. Len(frames) :
              IsTransition(frames[j]) => frames[i + 1].n < frames[j].n
        /\ \A j \in 1 .. Len(bus) : bus[j].n < frames[i + 1].n
    BY <1>3, <2>1 DEF Delivery
  <2>3. ASSUME NEW j \in i + 1 .. Len(frames'), IsTransition(frames'[j])
        PROVE  frames'[i].n < frames'[j].n
    <3>1. j + 1 \in (i + 1) + 1 .. Len(frames) /\ frames'[j] = frames[j + 1]
      BY <1>2
    <3>. QED
      BY <2>1, <2>2, <2>3, <3>1
  <2>4. IsTransition(frames[1]) => frames[1].n < frames[i + 1].n
    <3>1. 1 \in 1 .. Len(frames) /\ i + 1 \in 1 + 1 .. Len(frames)
      BY <1>2
    <3>. QED
      BY <1>3, <2>1, <3>1 DEF Delivery
  <2>. QED
    BY <2>1, <2>2, <2>3, <2>4
<1>4. CASE ~IsTransition(frames[1])
  <2>1. bus' = bus
    BY <1>4, BusFacts
  <2>. QED
    BY <1>1, <1>3, <2>1 DEF Delivery, HeardInOrder, EventsSeeTheirEffect
<1>5. CASE IsTransition(frames[1])
  <2>1. /\ Len(bus) \in Nat /\ Len(bus') = Len(bus) + 1
        /\ \A i \in 1 .. Len(bus) : bus'[i] = bus[i]
        /\ bus'[Len(bus) + 1].n = frames[1].n
        /\ bus'[Len(bus) + 1].event = frames[1].event
        /\ bus'[Len(bus) + 1].alert = frames[1].alert
        /\ bus'[Len(bus) + 1].seen = EntryFor(frames[1].event)
    BY <1>5, BusFacts
  <2>2. /\ frames[1].n \in 1 .. Len(log)
        /\ log[frames[1].n] = [event |-> frames[1].event, alert |-> frames[1].alert]
        /\ \A j \in 1 .. Len(bus) : bus[j].n < frames[1].n
    <3>1. 1 \in 1 .. Len(frames)
      BY <1>2
    <3>. QED
      BY <1>5, <3>1 DEF Delivery
  <2>3. \A i \in 1 .. Len(bus') : i \in 1 .. Len(bus) \/ i = Len(bus) + 1
    BY <2>1
  <2>4. HeardInOrder'
    <3>1. \A i \in 1 .. Len(bus') :
            /\ bus'[i].n \in 1 .. Len(log)
            /\ log[bus'[i].n] = [event |-> bus'[i].event, alert |-> bus'[i].alert]
      BY <2>1, <2>2, <2>3 DEF Delivery, HeardInOrder
    <3>2. \A i, j \in 1 .. Len(bus') : i < j => bus'[i].n < bus'[j].n
      <4>1. ASSUME NEW i \in 1 .. Len(bus'), NEW j \in 1 .. Len(bus'), i < j
            PROVE  bus'[i].n < bus'[j].n
        <5>1. i \in 1 .. Len(bus)
          BY <2>1, <4>1
        <5>2. CASE j = Len(bus) + 1
          BY <2>1, <2>2, <5>1, <5>2
        <5>3. CASE j \in 1 .. Len(bus)
          BY <2>1, <4>1, <5>1, <5>3 DEF Delivery, HeardInOrder
        <5>. QED
          BY <2>3, <5>2, <5>3
      <4>. QED
        BY <4>1
    <3>. QED
      BY <1>1, <3>1, <3>2 DEF HeardInOrder
  <2>5. EventsSeeTheirEffect'
    BY <2>1, <2>3 DEF Delivery, EventsSeeTheirEffect
  <2>6. ASSUME NEW i \in 1 .. Len(frames'), IsTransition(frames'[i])
        PROVE  \A j \in 1 .. Len(bus') : bus'[j].n < frames'[i].n
    BY <1>3, <1>5, <2>1, <2>3, <2>6
  <2>. QED
    BY <1>1, <1>3, <2>4, <2>5, <2>6 DEF Delivery
<1>. QED
  BY <1>4, <1>5

LEMMA InitDelivery == Init => Delivery
BY DEF Init, StationInit, Delivery, HeardInOrder, EventsSeeTheirEffect

LEMMA NextDelivery == TypeOK /\ Control /\ Delivery /\ [Next]_vars => Delivery'
<1> SUFFICES ASSUME TypeOK, Control, Delivery, [Next]_vars PROVE Delivery'
  OBVIOUS
<1>. USE DEF historyVars, stateVars, backoffVars, taskVars, stationVars
<1>1. CASE StationStep
  <2>1. UNCHANGED <<bus, seededAt, subscribedAt>>
    BY <1>1 DEF StationStep
  <2>2. ASSUME NEW a \in Alerts, SendAdditive(a) PROVE Delivery'
    <3>1. AdditiveFrame(a) \in Frames /\ ~IsTransition(AdditiveFrame(a))
      BY NoBoardIsABoard
         DEF AdditiveFrame, Frames, IsTransition, Events, Opens, Closes
    <3>. QED
      BY <2>1, <2>2, <3>1, DeliveryAdditive DEF SendAdditive, Queue
  <2>3. ASSUME NEW how \in {"closed", "dead"}, LoseSocket(how) PROVE Delivery'
    BY <2>1, <2>3, DeliveryLost DEF LoseSocket
  <2>4. CASE ChangeHealth \/ Revoke
    BY <2>1, <2>4, DeliveryUnchanged DEF ChangeHealth, Revoke
  <2>. QED
    BY <1>1, <2>1, <2>2, <2>3, <2>4, DeliveryTransition DEF StationStep, StationNext
<1>2. CASE AnswerSeed
  <2>1. Len(log) \in Nat
    BY LenProperties DEF TypeOK, StationTypeOK
  <2>2. seededAt' <= Len(log') /\ subscribedAt' <= Len(log')
    BY <1>2, <2>1 DEF AnswerSeed, Delivery, stationVars
  <2>3. UNCHANGED <<frames, log, bus>>
    BY <1>2 DEF AnswerSeed, stateVars, stationVars
  <2>4. HeardInOrder' /\ EventsSeeTheirEffect'
    BY <2>3 DEF Delivery, HeardInOrder, EventsSeeTheirEffect
  <2>. QED
    BY <2>2, <2>3, <2>4 DEF Delivery
<1>3. CASE Subscribe
  <2>1. Len(log) \in Nat
    BY LenProperties DEF TypeOK, StationTypeOK
  <2>2. ~IsTransition(SnapshotFrame)
    BY DEF SnapshotFrame, IsTransition, Events, Opens, Closes
  <2>3. \A i \in 1 .. Len(frames') : ~IsTransition(frames'[i])
    BY <1>3, <2>2 DEF Subscribe, AcceptSocket
  <2>. QED
    BY <1>3, <2>1, <2>3
       DEF Subscribe, AcceptSocket, Delivery, HeardInOrder, EventsSeeTheirEffect
<1>4. CASE Receive
  BY <1>4, DeliveryReceived
<1>5. CASE Retry \/ Refused \/ Unwind
  BY <1>5, DeliveryDropped DEF Retry, Refused, Unwind
<1>6. CASE Start \/ SeedArrives \/ SocketOpens \/ Wake \/ StopReturns \/ SocketHolds \/ Stop
  BY <1>6, DeliveryUnchanged
     DEF Start, SeedArrives, SocketOpens, Wake, StopReturns, SocketHolds, Stop
<1>7. CASE UNCHANGED vars
  BY <1>7, DeliveryUnchanged DEF vars
<1>. QED
  BY <1>1, <1>2, <1>3, <1>4, <1>5, <1>6, <1>7
     DEF Next, TaskStep, SeedRefused, SeedFails, OpenRefused, OpenFails, StreamEnds,
         HeartbeatFails

LEMMA DeliveryInvariant == Spec => []Delivery
<1>1. Init => Delivery
  BY InitDelivery
<1>2. TypeOK /\ Control /\ Delivery /\ [Next]_vars => Delivery'
  BY NextDelivery
<1>. QED
  BY <1>1, <1>2, TypeCorrect, ControlInvariant, PTL DEF Spec

\* Automations hear what happened, in order and at most once, across any
\* number of sockets, seeds and lost frames.
THEOREM BusIsInOrder == Spec => []HeardInOrder
<1>1. Delivery => HeardInOrder
  BY DEF Delivery
<1>. QED
  BY <1>1, DeliveryInvariant, PTL

\* An automation woken by an event finds its effect on the entities.
THEOREM StateBeforeBus == Spec => []EventsSeeTheirEffect
<1>1. Delivery => EventsSeeTheirEffect
  BY DEF Delivery
<1>. QED
  BY <1>1, DeliveryInvariant, PTL

------------------------------------------------------------------------------
(* Nothing is lost between an open socket and the bus. *)

\* While no socket is open there is nothing to lose.
LEMMA NoGapElsewhere ==
    ~(pc' \in {"opening", "streaming"} /\ socket' = "open") => NoGapInFrames'
BY DEF NoGapInFrames

LEMMA NextNoGap ==
    TypeOK /\ Control /\ Delivery /\ NoGapInFrames /\ [Next]_vars => NoGapInFrames'
<1> SUFFICES ASSUME TypeOK, Control, Delivery, NoGapInFrames, [Next]_vars,
                    pc' \in {"opening", "streaming"}, socket' = "open"
             PROVE  NoGapInFrames'
  BY NoGapElsewhere
<1>. USE DEF historyVars, stateVars, backoffVars, taskVars, stationVars
<1>0. Len(log) \in Nat /\ Len(frames) \in Nat
  BY LenProperties DEF TypeOK, StationTypeOK
<1>1. CASE StationStep
  <2>1. UNCHANGED <<pc, bus, subscribedAt>>
    BY <1>1 DEF StationStep
  <2>2. ASSUME NEW a \in Alerts, NEW e \in Events, Transition(a, e)
        PROVE  NoGapInFrames'
    <3> DEFINE f == TransitionFrame(Len(log) + 1, e, a)
    <3>1. f \in Frames /\ f.n = Len(log) + 1 /\ IsTransition(f)
      BY <1>0, NoBoardIsABoard DEF TransitionFrame, Frames, IsTransition
    <3>2. socket = "open" /\ frames' = Append(frames, f)
      BY <2>2 DEF Transition, Queue
    <3>3. /\ Len(frames') = Len(frames) + 1
          /\ \A i \in 1 .. Len(frames) : frames'[i] = frames[i]
          /\ frames'[Len(frames) + 1] = f
      BY <3>1, <3>2, AppendProperties DEF TypeOK, StationTypeOK
    <3>4. Len(log') = Len(log) + 1
      BY <2>2, AppendProperties DEF Transition, TypeOK, StationTypeOK, Transitions
    <3>5. ASSUME NEW n \in subscribedAt + 1 .. Len(log')
          PROVE  \/ \E i \in 1 .. Len(bus) : bus[i].n = n
                 \/ \E i \in 1 .. Len(frames') :
                       IsTransition(frames'[i]) /\ frames'[i].n = n
      <4>1. CASE n = Len(log) + 1
        <5>1. Len(frames) + 1 \in 1 .. Len(frames')
          BY <1>0, <3>3
        <5>. QED
          BY <3>1, <3>3, <4>1, <5>1
      <4>2. CASE n # Len(log) + 1
        <5>1. n \in subscribedAt + 1 .. Len(log)
          BY <1>0, <3>4, <4>2 DEF TypeOK
        <5>2. \A i \in 1 .. Len(frames) : i \in 1 .. Len(frames') /\ frames'[i] = frames[i]
          BY <1>0, <3>3
        <5>. QED
          BY <2>1, <3>2, <5>1, <5>2 DEF NoGapInFrames
      <4>. QED
        BY <4>1, <4>2
    <3>. QED
      BY <2>1, <3>5 DEF NoGapInFrames
  <2>3. ASSUME NEW a \in Alerts, SendAdditive(a) PROVE NoGapInFrames'
    <3>1. AdditiveFrame(a) \in Frames
      BY NoBoardIsABoard DEF AdditiveFrame, Frames
    <3>2. /\ Len(frames') = Len(frames) + 1
          /\ \A i \in 1 .. Len(frames) : frames'[i] = frames[i]
      BY <2>3, <3>1, AppendProperties DEF SendAdditive, Queue, TypeOK, StationTypeOK
    <3>3. \A i \in 1 .. Len(frames) : i \in 1 .. Len(frames') /\ frames'[i] = frames[i]
      BY <1>0, <3>2
    <3>. QED
      BY <2>1, <2>3, <3>3 DEF SendAdditive, NoGapInFrames
  <2>4. ASSUME NEW how \in {"closed", "dead"} PROVE ~LoseSocket(how)
    BY DEF LoseSocket
  <2>5. CASE ChangeHealth
    BY <2>1, <2>5 DEF ChangeHealth, NoGapInFrames
  <2>6. CASE Revoke
    BY <2>1, <2>6 DEF Revoke
  <2>. QED
    BY <1>1, <2>2, <2>3, <2>4, <2>5, <2>6 DEF StationStep, StationNext
<1>2. CASE AnswerSeed
  BY <1>2 DEF AnswerSeed, NoGapInFrames
<1>3. CASE Subscribe
  <2>1. log' = log /\ subscribedAt' = Len(log)
    BY <1>3 DEF Subscribe, AcceptSocket
  <2>2. subscribedAt' + 1 .. Len(log') = {}
    BY <1>0, <2>1
  <2>. QED
    BY <2>2 DEF NoGapInFrames
<1>4. CASE Receive
  <2>1. /\ UNCHANGED <<pc, socket, log, subscribedAt>>
        /\ Len(frames') = Len(frames) - 1
        /\ \A i \in 1 .. Len(frames') : frames'[i] = frames[i + 1]
    BY <1>4, ReceiveFacts DEF Receive
  <2>2. ASSUME NEW n \in subscribedAt + 1 .. Len(log)
        PROVE  \/ \E i \in 1 .. Len(bus') : bus'[i].n = n
               \/ \E i \in 1 .. Len(frames') :
                     IsTransition(frames'[i]) /\ frames'[i].n = n
    <3>1. CASE \E i \in 1 .. Len(bus) : bus[i].n = n
      <4>1. Len(bus) \in Nat /\ \A i \in 1 .. Len(bus) :
                i \in 1 .. Len(bus') /\ bus'[i] = bus[i]
        BY <1>4, BusFacts, LenProperties DEF TypeOK
      <4>. QED
        BY <3>1, <4>1
    <3>2. ASSUME NEW i \in 1 .. Len(frames), IsTransition(frames[i]), frames[i].n = n
          PROVE  \/ \E j \in 1 .. Len(bus') : bus'[j].n = n
                 \/ \E j \in 1 .. Len(frames') :
                       IsTransition(frames'[j]) /\ frames'[j].n = n
      <4>1. CASE i = 1
        <5>1. /\ Len(bus) \in Nat /\ Len(bus') = Len(bus) + 1
              /\ bus'[Len(bus) + 1].n = frames[1].n
          BY <1>4, <3>2, <4>1, BusFacts
        <5>2. Len(bus) + 1 \in 1 .. Len(bus')
          BY <5>1
        <5>. QED
          BY <3>2, <4>1, <5>1, <5>2
      <4>2. CASE i # 1
        <5>1. i - 1 \in 1 .. Len(frames') /\ frames'[i - 1] = frames[i]
          BY <1>0, <2>1, <4>2
        <5>. QED
          BY <3>2, <5>1
      <4>. QED
        BY <4>1, <4>2
    <3>. QED
      BY <2>1, <3>1, <3>2 DEF NoGapInFrames
  <2>. QED
    BY <2>1, <2>2 DEF NoGapInFrames
<1>5. CASE SocketOpens
  BY <1>5 DEF SocketOpens, NoGapInFrames
<1>6. CASE SeedArrives
  BY <1>6 DEF SeedArrives, Control
<1>7. CASE SocketHolds
  BY <1>7 DEF SocketHolds, NoGapInFrames
<1>8. CASE Retry \/ Refused \/ Unwind
  BY <1>8 DEF Retry, Refused, Unwind, DropSocket
<1>9. CASE Start \/ Wake \/ Stop
  BY <1>9 DEF Start, Wake, Stop
<1>10. CASE StopReturns
  BY <1>10 DEF StopReturns
<1>11. CASE UNCHANGED vars
  BY <1>11 DEF vars, NoGapInFrames
<1>. QED
  BY <1>1, <1>2, <1>3, <1>4, <1>5, <1>6, <1>7, <1>8, <1>9, <1>10, <1>11
     DEF Next, TaskStep, SeedRefused, SeedFails, OpenRefused, OpenFails, StreamEnds,
         HeartbeatFails

\* The expiry nobody heard: on a socket that is still open, every transition
\* since the station accepted it has been fired or is on its way.
THEOREM NothingLost == Spec => []NothingLostOnALiveSocket
<1>1. Init => NoGapInFrames
  BY DEF Init, NoGapInFrames
<1>2. TypeOK /\ Control /\ Delivery /\ NoGapInFrames /\ [Next]_vars => NoGapInFrames'
  BY NextNoGap
<1>3. NoGapInFrames => NothingLostOnALiveSocket
  BY DEF NoGapInFrames, NothingLostOnALiveSocket
<1>. QED
  BY <1>1, <1>2, <1>3, TypeCorrect, ControlInvariant, DeliveryInvariant, PTL DEF Spec

------------------------------------------------------------------------------
(* The board, from the answer to the seed to the live socket. *)

\* A board that was true when it was answered is still so, but for what moved.
LEMMA AsSeededKeeps ==
    ASSUME TypeOK, StationNext, UNCHANGED seededAt, seededAt <= Len(log),
           NEW b \in Boards, AsSeeded(b)
    PROVE  \A c \in Alerts : \/ b[c] = EntryFor(status'[c])
                             \/ \E n \in seededAt + 1 .. Len(log') : log'[n].alert = c
<1>0. Len(log) \in Nat
  BY LenProperties DEF TypeOK, StationTypeOK
<1> SUFFICES ASSUME NEW c \in Alerts
             PROVE  \/ b[c] = EntryFor(status'[c])
                    \/ \E n \in seededAt + 1 .. Len(log') : log'[n].alert = c
  OBVIOUS
<1>1. ASSUME NEW a \in Alerts, NEW e \in Events, Transition(a, e)
      PROVE  \/ b[c] = EntryFor(status'[c])
             \/ \E n \in seededAt + 1 .. Len(log') : log'[n].alert = c
  <2>1. /\ Len(log') = Len(log) + 1
        /\ \A i \in 1 .. Len(log) : log'[i] = log[i]
        /\ log'[Len(log) + 1] = [event |-> e, alert |-> a]
    BY <1>1, AppendProperties DEF Transition, TypeOK, StationTypeOK, Transitions
  <2>2. CASE c = a
    <3>1. Len(log) + 1 \in seededAt + 1 .. Len(log') /\ log'[Len(log) + 1].alert = c
      BY <1>0, <2>1, <2>2 DEF TypeOK
    <3>. QED
      BY <3>1
  <2>3. CASE c # a
    <3>1. status'[c] = status[c]
      BY <1>1, <2>3 DEF Transition, TypeOK, StationTypeOK
    <3>2. \A n \in seededAt + 1 .. Len(log) :
              n \in seededAt + 1 .. Len(log') /\ log'[n] = log[n]
      BY <1>0, <2>1 DEF TypeOK
    <3>. QED
      BY <3>1, <3>2 DEF AsSeeded
  <2>. QED
    BY <2>2, <2>3
<1>2. CASE UNCHANGED <<status, log>>
  BY <1>2 DEF AsSeeded
<1>. QED
  BY <1>1, <1>2 DEF StationNext, SendAdditive, ChangeHealth, LoseSocket, Revoke

\* An open socket keeps the board right, or on its way to it, while the
\* station moves an alert.
LEMMA TransitionFollowed ==
    ASSUME TypeOK, Delivery, StaleOnlyInTheGap, socket = "open",
           pc \in {"opening", "streaming"},
           NEW a \in Alerts, NEW e \in Events, Transition(a, e),
           UNCHANGED <<pc, board, seededAt, subscribedAt>>
    PROVE  StaleOnlyInTheGap'
<1> DEFINE f == TransitionFrame(Len(log) + 1, e, a)
<1>1. Len(log) \in Nat /\ Len(frames) \in Nat
  BY LenProperties DEF TypeOK, StationTypeOK
<1>2. /\ f \in Frames /\ IsTransition(f) /\ f.event = e /\ f.alert = a
      /\ e # "snapshot"
  BY <1>1, NoBoardIsABoard
     DEF TransitionFrame, Frames, IsTransition, Events, Opens, Closes
<1>3. /\ Len(frames') = Len(frames) + 1
      /\ \A i \in 1 .. Len(frames) : frames'[i] = frames[i]
      /\ frames'[Len(frames) + 1] = f
  BY <1>2, AppendProperties DEF Transition, Queue, TypeOK, StationTypeOK
<1>4. /\ Len(log') = Len(log) + 1
      /\ \A i \in 1 .. Len(log) : log'[i] = log[i]
      /\ log'[Len(log) + 1] = [event |-> e, alert |-> a]
  BY AppendProperties DEF Transition, TypeOK, StationTypeOK, Transitions
<1>5. CatchesUp(a)'
  <2>1. PICK k \in 1 .. Len(frames') : k = Len(frames) + 1
    BY <1>1, <1>3
  <2>2. Carries(f, a) /\ EntryIn(f, a) = EntryFor(e)
    BY <1>2 DEF Carries, EntryIn
  <2>3. status'[a] = e
    BY DEF Transition, TypeOK, StationTypeOK
  <2>4. \A j \in k + 1 .. Len(frames') : FALSE
    BY <1>1, <1>3, <2>1
  <2>5. LastFrameIs(a, k)'
    BY <1>3, <2>1, <2>2, <2>4 DEF LastFrameIs
  <2>. QED
    BY <1>3, <2>1, <2>2, <2>3, <2>5 DEF CatchesUp
<1>6. ASSUME NEW c \in Alerts, c # a
      PROVE  CatchesUp(c)' \/ (~JoinSnapshot /\ MissedInTheGap(c)')
  <2>1. status'[c] = status[c] /\ ~Carries(f, c)
    BY <1>2, <1>6 DEF Transition, TypeOK, StationTypeOK, Carries
  <2>2. CASE CatchesUp(c)
    <3>1. CASE /\ \A i \in 1 .. Len(frames) : ~Carries(frames[i], c)
               /\ board[c] = EntryFor(status[c])
      <4>1. \A i \in 1 .. Len(frames') : ~Carries(frames'[i], c)
        BY <1>1, <1>3, <2>1, <3>1
      <4>. QED
        BY <2>1, <3>1, <4>1 DEF CatchesUp
    <3>2. ASSUME NEW i \in 1 .. Len(frames), LastFrameIs(c, i),
                 EntryIn(frames[i], c) = EntryFor(status[c])
          PROVE  CatchesUp(c)'
      <4>1. i \in 1 .. Len(frames') /\ frames'[i] = frames[i]
        BY <1>1, <1>3
      <4>2. \A j \in i + 1 .. Len(frames') : ~Carries(frames'[j], c)
        BY <1>1, <1>3, <2>1, <3>2 DEF LastFrameIs
      <4>3. LastFrameIs(c, i)'
        BY <3>2, <4>1, <4>2 DEF LastFrameIs
      <4>. QED
        BY <2>1, <3>2, <4>1, <4>3 DEF CatchesUp
    <3>. QED
      BY <2>2, <3>1, <3>2 DEF CatchesUp
  <2>3. CASE ~JoinSnapshot /\ MissedInTheGap(c)
    <3>1. \A n \in seededAt + 1 .. subscribedAt : log'[n] = log[n]
      BY <1>1, <1>4 DEF Delivery, TypeOK
    <3>2. \A n \in subscribedAt + 1 .. Len(log') : log'[n].alert # c
      BY <1>1, <1>4, <1>6, <2>3 DEF MissedInTheGap, TypeOK
    <3>. QED
      BY <2>3, <3>1, <3>2 DEF MissedInTheGap
  <2>. QED
    BY <2>2, <2>3 DEF StaleOnlyInTheGap
<1>. QED
  BY <1>5, <1>6 DEF StaleOnlyInTheGap

\* A frame that bears on nothing changes nothing.
LEMMA AdditiveFollowed ==
    ASSUME TypeOK, StaleOnlyInTheGap, socket = "open", pc \in {"opening", "streaming"},
           NEW x \in Alerts, SendAdditive(x),
           UNCHANGED <<pc, board, seededAt, subscribedAt>>
    PROVE  StaleOnlyInTheGap'
<1> DEFINE f == AdditiveFrame(x)
<1>1. Len(frames) \in Nat
  BY LenProperties DEF TypeOK, StationTypeOK
<1>2. f \in Frames /\ \A a \in Alerts : ~Carries(f, a)
  BY NoBoardIsABoard
     DEF AdditiveFrame, Frames, Carries, IsTransition, Events, Opens, Closes
<1>3. /\ Len(frames') = Len(frames) + 1
      /\ \A i \in 1 .. Len(frames) : frames'[i] = frames[i]
      /\ frames'[Len(frames) + 1] = f
  BY <1>2, AppendProperties DEF SendAdditive, Queue, TypeOK, StationTypeOK
<1>4. UNCHANGED <<status, log>>
  BY DEF SendAdditive
<1>5. ASSUME NEW c \in Alerts
      PROVE  CatchesUp(c)' \/ (~JoinSnapshot /\ MissedInTheGap(c)')
  <2>1. CASE /\ \A i \in 1 .. Len(frames) : ~Carries(frames[i], c)
             /\ board[c] = EntryFor(status[c])
    <3>1. \A i \in 1 .. Len(frames') : ~Carries(frames'[i], c)
      BY <1>1, <1>2, <1>3, <2>1
    <3>. QED
      BY <1>4, <2>1, <3>1 DEF CatchesUp
  <2>2. ASSUME NEW i \in 1 .. Len(frames), LastFrameIs(c, i),
               EntryIn(frames[i], c) = EntryFor(status[c])
        PROVE  CatchesUp(c)'
    <3>1. i \in 1 .. Len(frames') /\ frames'[i] = frames[i]
      BY <1>1, <1>3
    <3>2. \A j \in i + 1 .. Len(frames') : ~Carries(frames'[j], c)
      BY <1>1, <1>2, <1>3, <2>2 DEF LastFrameIs
    <3>3. LastFrameIs(c, i)'
      BY <2>2, <3>1, <3>2 DEF LastFrameIs
    <3>. QED
      BY <1>4, <2>2, <3>1, <3>3 DEF CatchesUp
  <2>3. CASE ~JoinSnapshot /\ MissedInTheGap(c)
    BY <1>4, <2>3 DEF MissedInTheGap
  <2>. QED
    BY <2>1, <2>2, <2>3 DEF StaleOnlyInTheGap, CatchesUp
<1>. QED
  BY <1>5 DEF StaleOnlyInTheGap

\* Folding in the head of the frames brings the board a step nearer.
LEMMA ReceiveFollowed ==
    TypeOK /\ Control /\ StaleOnlyInTheGap /\ Receive => StaleOnlyInTheGap'
<1> SUFFICES ASSUME TypeOK, Control, StaleOnlyInTheGap, Receive, socket = "open"
             PROVE  StaleOnlyInTheGap'
  BY DEF Receive, StaleOnlyInTheGap
<1> DEFINE f == frames[1]
<1>1. UNCHANGED <<pc, status, log, socket, seededAt, subscribedAt>> /\ pc = "streaming"
  BY DEF Receive, taskVars
<1>2. /\ f \in Frames /\ Len(frames) \in Nat \ {0}
      /\ Len(frames') = Len(frames) - 1
      /\ \A i \in 1 .. Len(frames') : frames'[i] = frames[i + 1]
  BY ReceiveFacts
<1>3. ASSUME NEW c \in Alerts, Carries(f, c) PROVE board'[c] = EntryIn(f, c)
  BY <1>3, ReceiveFacts
     DEF Carries, EntryIn, IsTransition, Events, Opens, Closes, TypeOK, Boards
<1>4. ASSUME NEW c \in Alerts, ~Carries(f, c) PROVE board'[c] = board[c]
  BY <1>4, ReceiveFacts DEF Carries, TypeOK, Boards
<1>5. ASSUME NEW c \in Alerts
      PROVE  CatchesUp(c)' \/ (~JoinSnapshot /\ MissedInTheGap(c)')
  <2>1. CASE /\ \A i \in 1 .. Len(frames) : ~Carries(frames[i], c)
             /\ board[c] = EntryFor(status[c])
    <3>1. \A i \in 1 .. Len(frames') : ~Carries(frames'[i], c)
      BY <1>2, <2>1
    <3>2. ~Carries(f, c)
      BY <1>2, <2>1
    <3>. QED
      BY <1>1, <1>4, <2>1, <3>1, <3>2 DEF CatchesUp
  <2>2. ASSUME NEW i \in 1 .. Len(frames), LastFrameIs(c, i),
               EntryIn(frames[i], c) = EntryFor(status[c])
        PROVE  CatchesUp(c)'
    <3>1. CASE i = 1
      <4>1. \A j \in 1 .. Len(frames') : ~Carries(frames'[j], c)
        BY <1>2, <2>2, <3>1 DEF LastFrameIs
      <4>2. board'[c] = EntryFor(status[c])
        BY <1>3, <2>2, <3>1 DEF LastFrameIs
      <4>. QED
        BY <1>1, <4>1, <4>2 DEF CatchesUp
    <3>2. CASE i # 1
      <4>1. i - 1 \in 1 .. Len(frames') /\ frames'[i - 1] = frames[i]
        BY <1>2, <3>2
      <4>2. \A j \in (i - 1) + 1 .. Len(frames') : ~Carries(frames'[j], c)
        BY <1>2, <2>2 DEF LastFrameIs
      <4>3. LastFrameIs(c, i - 1)'
        BY <2>2, <4>1, <4>2 DEF LastFrameIs
      <4>. QED
        BY <1>1, <2>2, <4>1, <4>3 DEF CatchesUp
    <3>. QED
      BY <3>1, <3>2
  <2>3. CASE ~JoinSnapshot /\ MissedInTheGap(c)
    BY <1>1, <2>3 DEF MissedInTheGap
  <2>. QED
    BY <1>1, <2>1, <2>2, <2>3 DEF StaleOnlyInTheGap, CatchesUp
<1>. QED
  BY <1>5 DEF StaleOnlyInTheGap

\* A socket starts from the join snapshot, or from the seed and what it missed.
LEMMA SubscribeFollowed ==
    TypeOK /\ Control /\ BoardFollows /\ Subscribe => StaleOnlyInTheGap'
<1> SUFFICES ASSUME TypeOK, Control, BoardFollows, Subscribe, NEW c \in Alerts
             PROVE  CatchesUp(c)' \/ (~JoinSnapshot /\ MissedInTheGap(c)')
  BY DEF StaleOnlyInTheGap
<1>1. /\ UNCHANGED <<board, status, log, seededAt>>
      /\ subscribedAt' = Len(log)
      /\ frames' = IF JoinSnapshot THEN <<SnapshotFrame>> ELSE <<>>
  BY DEF Subscribe, AcceptSocket, stateVars
<1>2. Len(log) \in Nat
  BY LenProperties DEF TypeOK, StationTypeOK
<1>3. CASE JoinSnapshot
  <2>1. frames' = <<SnapshotFrame>>
    BY <1>1, <1>3
  <2>2. Len(frames') = 1 /\ frames'[1] = SnapshotFrame
    BY <2>1
  <2>3. Carries(SnapshotFrame, c) /\ EntryIn(SnapshotFrame, c) = EntryFor(status[c])
    BY DEF SnapshotFrame, Carries, EntryIn, OpenBoard
  <2>4. LastFrameIs(c, 1)'
    BY <2>2, <2>3 DEF LastFrameIs
  <2>. QED
    BY <1>1, <2>2, <2>3, <2>4 DEF CatchesUp
<1>4. CASE ~JoinSnapshot
  <2>1. frames' = <<>>
    BY <1>1, <1>4
  <2>2. AsSeeded(board)
    BY DEF BoardFollows, Subscribe, AcceptSocket
  <2>3. CASE board[c] = EntryFor(status[c])
    BY <1>1, <2>1, <2>3 DEF CatchesUp
  <2>4. CASE \E n \in seededAt + 1 .. Len(log) : log[n].alert = c
    BY <1>1, <1>2, <1>4, <2>4 DEF MissedInTheGap
  <2>. QED
    BY <2>2, <2>3, <2>4 DEF AsSeeded
<1>. QED
  BY <1>3, <1>4

LEMMA NextBoard ==
    TypeOK /\ Control /\ Delivery /\ BoardFollows /\ [Next]_vars => BoardFollows'
<1> SUFFICES ASSUME TypeOK, Control, Delivery, BoardFollows, [Next]_vars
             PROVE  BoardFollows'
  OBVIOUS
<1>. USE DEF historyVars, stateVars, backoffVars, taskVars, stationVars
<1>1. CASE StationStep
  <2>1. UNCHANGED <<pc, reply, board, seededAt, subscribedAt>> /\ StationNext
    BY <1>1 DEF StationStep
  <2>2. pc = "seeding" /\ reply # NoReply => AsSeeded(reply)'
    BY <2>1, AsSeededKeeps DEF TypeOK, Delivery, BoardFollows, AsSeeded
  <2>3. pc = "opening" /\ socket = "none" => AsSeeded(board)'
    BY <2>1, AsSeededKeeps DEF TypeOK, Delivery, BoardFollows, AsSeeded
  <2>4. socket' = "none" <=> socket = "none"
    BY <2>1 DEF StationNext, Transition, SendAdditive, ChangeHealth, LoseSocket, Revoke
  <2>5. StaleOnlyInTheGap'
    <3>1. CASE ~(pc' \in {"opening", "streaming"} /\ socket' = "open")
      BY <3>1 DEF StaleOnlyInTheGap
    <3>2. CASE pc' \in {"opening", "streaming"} /\ socket' = "open"
      <4>1. socket = "open"
        BY <2>1, <3>2
           DEF StationNext, Transition, SendAdditive, ChangeHealth, LoseSocket, Revoke
      <4>2. ASSUME NEW how \in {"closed", "dead"} PROVE ~LoseSocket(how)
        BY <3>2 DEF LoseSocket
      <4>3. CASE ChangeHealth
        BY <2>1, <4>3
           DEF ChangeHealth, BoardFollows, StaleOnlyInTheGap, CatchesUp, LastFrameIs,
               Carries, EntryIn, IsTransition, MissedInTheGap
      <4>4. ~Revoke
        BY <3>2 DEF Revoke
      <4>. QED
        BY <2>1, <3>2, <4>1, <4>2, <4>3, <4>4, TransitionFollowed, AdditiveFollowed
           DEF StationNext, BoardFollows
    <3>. QED
      BY <3>1, <3>2
  <2>. QED
    BY <2>1, <2>2, <2>3, <2>4, <2>5 DEF BoardFollows, AsSeeded
<1>2. CASE AnswerSeed
  <2>1. AsSeeded(reply)'
    BY <1>2 DEF AnswerSeed, AsSeeded, OpenBoard
  <2>. QED
    BY <1>2, <2>1 DEF AnswerSeed, BoardFollows, StaleOnlyInTheGap
<1>3. CASE SeedArrives
  <2>1. AsSeeded(board)' /\ socket' = "none"
    BY <1>3 DEF SeedArrives, BoardFollows, AsSeeded, Control
  <2>. QED
    BY <1>3, <2>1 DEF SeedArrives, BoardFollows, StaleOnlyInTheGap
<1>4. CASE Subscribe
  <2>1. pc' = "opening" /\ socket' = "open"
    BY <1>4 DEF Subscribe, AcceptSocket
  <2>. QED
    BY <1>4, <2>1, SubscribeFollowed DEF BoardFollows
<1>5. CASE SocketOpens
  BY <1>5 DEF SocketOpens, BoardFollows, StaleOnlyInTheGap, CatchesUp, LastFrameIs,
              Carries, EntryIn, IsTransition, MissedInTheGap
<1>6. CASE Receive
  <2>1. pc' = "streaming"
    BY <1>6 DEF Receive
  <2>. QED
    BY <1>6, <2>1, ReceiveFollowed DEF BoardFollows
<1>7. CASE Start \/ Wake
  BY <1>7 DEF Start, Wake, BoardFollows, StaleOnlyInTheGap, Control
<1>8. CASE Retry \/ Refused \/ Unwind \/ Stop
  BY <1>8 DEF Retry, Refused, Unwind, Stop, BoardFollows, StaleOnlyInTheGap
<1>9. CASE StopReturns
  BY <1>9 DEF StopReturns, BoardFollows, StaleOnlyInTheGap
<1>10. CASE SocketHolds \/ UNCHANGED vars
  BY <1>10 DEF SocketHolds, vars, BoardFollows, AsSeeded, StaleOnlyInTheGap, CatchesUp,
               LastFrameIs, Carries, EntryIn, IsTransition, MissedInTheGap, Control
<1>. QED
  BY <1>1, <1>2, <1>3, <1>4, <1>5, <1>6, <1>7, <1>8, <1>9, <1>10
     DEF Next, TaskStep, SeedRefused, SeedFails, OpenRefused, OpenFails, StreamEnds,
         HeartbeatFails

LEMMA InitBoard == Init => BoardFollows
BY DEF Init, BoardFollows, StaleOnlyInTheGap

LEMMA BoardInvariant == Spec => []BoardFollows
<1>1. TypeOK /\ Control /\ Delivery /\ BoardFollows /\ [Next]_vars => BoardFollows'
  BY NextBoard
<1>. QED
  BY <1>1, InitBoard, TypeCorrect, ControlInvariant, DeliveryInvariant, PTL DEF Spec

\* What a dashboard shows of a station whose socket delivers is right, or on
\* its way to be; on a station without the join snapshot, but for an alert
\* that moved between the seed and the socket.
THEOREM StalenessIsBounded == Spec => []StaleOnlyInTheGap
<1>1. BoardFollows => StaleOnlyInTheGap
  BY DEF BoardFollows
<1>. QED
  BY <1>1, BoardInvariant, PTL

\* With the shipped service, a quiet socket means a current dashboard.
THEOREM ShippedStationIsCurrent ==
    ASSUME JoinSnapshot
    PROVE  Spec => []QuietBoardIsCurrent
<1>1. ASSUME TypeOK, Control, StaleOnlyInTheGap, PublishedIsCurrent
      PROVE  QuietBoardIsCurrent
  <2> SUFFICES ASSUME connected, stop = "no", socket = "open", frames = <<>>
               PROVE  published.alerts = OpenBoard
    BY DEF QuietBoardIsCurrent
  <2>1. pc = "streaming" /\ published.alerts = board
    BY <1>1 DEF Control, PublishedIsCurrent, Render
  <2>2. ASSUME NEW a \in Alerts PROVE board[a] = EntryFor(status[a])
    <3>1. CatchesUp(a)
      BY <1>1, <2>1 DEF StaleOnlyInTheGap
    <3>2. \A i \in 1 .. Len(frames) : FALSE
      OBVIOUS
    <3>. QED
      BY <3>1, <3>2 DEF CatchesUp
  <2>. QED
    BY <1>1, <2>1, <2>2 DEF TypeOK, Boards, OpenBoard
<1>. QED
  BY <1>1, TypeCorrect, ControlInvariant, StalenessIsBounded, EntitiesAreCurrent, PTL

------------------------------------------------------------------------------
(* The connection is the task its entry takes it for. *)

\* An attempt that failed: the entry sees the socket given up, or nothing.
LEMMA RetrySeen ==
    ASSUME TypeOK, Control, Retry, stop = "no",
           pc \in {"seeding", "opening", "streaming"}
    PROVE  Task!Drop \/ UNCHANGED Task!taskVars
<1>1. /\ pc' = "sleeping" /\ socket' = "none"
      /\ UNCHANGED <<stop, accepts>>
  BY DEF Retry, DropSocket
<1>2. TaskSeen' = "trying"
  BY <1>1 DEF TaskSeen
<1>3. CASE socket = "none"
  <2>1. TaskSeen = "trying"
    BY <1>3 DEF TaskSeen, Control
  <2>. QED
    BY <1>1, <1>2, <1>3, <2>1 DEF Task!taskVars
<1>4. CASE socket # "none"
  <2>1. TaskSeen = "streaming"
    BY <1>4 DEF TaskSeen, Control
  <2>. QED
    BY <1>1, <1>2, <2>1 DEF Task!Drop
<1>. QED
  BY <1>3, <1>4

\* A refused token: the one end the task comes to by itself.
LEMMA RefusedSeen ==
    ASSUME TypeOK, Control, Refused, stop = "no",
           pc = "seeding" \/ (pc = "opening" /\ socket = "none")
    PROVE  Task!Refuse
<1>1. TaskSeen = "trying" /\ socket = "none"
  BY DEF TaskSeen, Control
<1>2. /\ pc' = "ended" /\ socket' = "none" /\ ~accepts
      /\ UNCHANGED <<stop, accepts>>
  BY DEF Refused, DropSocket
<1>3. TaskSeen' = "ended"
  BY <1>2 DEF TaskSeen
<1>. QED
  BY <1>1, <1>2, <1>3 DEF Task!Refuse

\* What the station does by itself takes the socket away, or nothing.
LEMMA StationSeen ==
    ASSUME TypeOK, Control, StationStep
    PROVE  Task!Lose \/ Task!Forget \/ UNCHANGED Task!taskVars
<1>1. UNCHANGED <<pc, stop>>
  BY DEF StationStep, taskVars
<1>2. ASSUME NEW a \in Alerts, NEW e \in Events, Transition(a, e)
      PROVE  UNCHANGED Task!taskVars
  BY <1>1, <1>2 DEF Transition, Task!taskVars, TaskSeen
<1>3. ASSUME NEW a \in Alerts, SendAdditive(a)
      PROVE  UNCHANGED Task!taskVars
  BY <1>1, <1>3 DEF SendAdditive, Task!taskVars, TaskSeen
<1>4. CASE ChangeHealth
  BY <1>1, <1>4 DEF ChangeHealth, Task!taskVars, TaskSeen
<1>5. ASSUME NEW how \in {"closed", "dead"}, LoseSocket(how) PROVE Task!Lose
  <2>1. socket = "open" /\ socket' # "open" /\ socket' # "none" /\ accepts' = accepts
    BY <1>5 DEF LoseSocket
  <2>2. TaskSeen' = TaskSeen
    BY <1>1, <2>1 DEF TaskSeen
  <2>. QED
    BY <1>1, <2>1, <2>2 DEF Task!Lose
<1>6. CASE Revoke
  <2>1. accepts /\ ~accepts' /\ socket' # "open" /\ (socket' = "none" <=> socket = "none")
    BY <1>6 DEF Revoke
  <2>2. TaskSeen' = TaskSeen
    BY <1>1, <2>1 DEF TaskSeen
  <2>3. accepts \in BOOLEAN /\ accepts' = FALSE
    BY <1>6 DEF Revoke, TypeOK, StationTypeOK
  <2>. QED
    BY <1>1, <2>1, <2>2, <2>3 DEF Task!Forget
<1>. QED
  BY <1>2, <1>3, <1>4, <1>5, <1>6 DEF StationStep, StationNext

LEMMA StepSeen == TypeOK /\ Control /\ [Next]_vars => [Task!Next]_Task!taskVars
<1> SUFFICES ASSUME TypeOK, Control, [Next]_vars PROVE [Task!Next]_Task!taskVars
  OBVIOUS
<1>. USE DEF stationVars, taskVars
<1>1. CASE StationStep
  BY <1>1, StationSeen DEF Task!Next
<1>2. CASE AnswerSeed \/ SocketHolds
  BY <1>2 DEF AnswerSeed, SocketHolds, Task!taskVars, TaskSeen
<1>3. CASE Subscribe
  <2>1. TaskSeen = "trying" /\ stop = "no"
    BY <1>3 DEF Subscribe, AcceptSocket, TaskSeen, Control, TypeOK, StopStates
  <2>2. TaskSeen' = "streaming"
    BY <1>3 DEF Subscribe, AcceptSocket, TaskSeen
  <2>. QED
    BY <1>3, <2>1, <2>2 DEF Subscribe, AcceptSocket, Task!Next, Task!Come
<1>4. CASE Start
  BY <1>4 DEF Start, Control, TaskSeen, Task!Next, Task!Begin
<1>5. CASE SeedArrives
  BY <1>5 DEF SeedArrives, Control, TaskSeen, Task!taskVars
<1>6. CASE SeedRefused \/ OpenRefused
  <2>1. stop = "no"
    BY <1>6 DEF SeedRefused, OpenRefused, Control
  <2>. QED
    BY <1>6, <2>1, RefusedSeen DEF SeedRefused, OpenRefused, Task!Next
<1>7. CASE SeedFails \/ OpenFails \/ StreamEnds \/ HeartbeatFails
  <2>1. stop = "no" /\ pc \in {"seeding", "opening", "streaming"} /\ Retry
    BY <1>7 DEF SeedFails, OpenFails, StreamEnds, HeartbeatFails, Control
  <2>. QED
    BY <2>1, RetrySeen DEF Task!Next
<1>8. CASE SocketOpens
  BY <1>8 DEF SocketOpens, TaskSeen, Task!taskVars
<1>9. CASE Receive
  BY <1>9 DEF Receive, TaskSeen, Task!taskVars
<1>10. CASE Wake
  BY <1>10 DEF Wake, TaskSeen, Task!taskVars
<1>11. CASE Unwind
  <2>1. /\ pc' = "ended" /\ socket' = "none" /\ TaskSeen' = "ended"
        /\ UNCHANGED <<stop, accepts>>
    BY <1>11 DEF Unwind, DropSocket, TaskSeen
  <2>2. CASE socket = "none"
    BY <1>11, <2>1, <2>2 DEF Unwind, TaskSeen, Task!taskVars
  <2>3. CASE socket # "none"
    BY <1>11, <2>1, <2>3 DEF Unwind, TaskSeen, Task!Next, Task!Finish
  <2>. QED
    BY <2>2, <2>3
<1>12. CASE StopReturns
  <2>1. /\ UNCHANGED <<pc, socket, accepts>>
        /\ stop = "waiting" /\ stop' = "returned"
    BY <1>12 DEF StopReturns
  <2>. QED
    BY <2>1 DEF TaskSeen, Task!taskVars
<1>13. CASE Stop
  <2>1. /\ stop = "no" /\ stop' = "waiting" /\ UNCHANGED <<socket, accepts>>
        /\ pc \in TaskStates /\ pc # "unstarted"
    BY <1>13 DEF Stop, TypeOK
  <2>2. CASE pc = "ended"
    BY <1>13, <2>1, <2>2 DEF Stop, TaskSeen, Task!Next, Task!Cancel
  <2>3. CASE pc = "streaming"
    BY <1>13, <2>1, <2>3 DEF Stop, Control, TaskSeen, Task!Next, Task!Cancel
  <2>4. CASE pc \notin {"ended", "streaming"}
    <3>1. pc \in {"seeding", "opening", "sleeping"} /\ pc' = "cancelled"
      BY <1>13, <2>1, <2>4 DEF Stop, Control, TaskStates
    <3>2. CASE socket = "none"
      BY <2>1, <3>1, <3>2 DEF TaskSeen, Task!Next, Task!Cancel
    <3>3. CASE socket # "none"
      BY <2>1, <3>1, <3>3 DEF Control, TaskSeen, Task!Next, Task!Cancel
    <3>. QED
      BY <3>2, <3>3
  <2>. QED
    BY <2>2, <2>3, <2>4
<1>14. CASE UNCHANGED vars
  BY <1>14 DEF vars, TaskSeen, Task!taskVars
<1>. QED
  BY <1>1, <1>2, <1>3, <1>4, <1>5, <1>6, <1>7, <1>8, <1>9, <1>10, <1>11, <1>12,
     <1>13, <1>14 DEF Next, TaskStep

\* REFINEMENT.  Every step of the seed-open-stream-sleep loop, of the station
\* and of async_stop is a step of the task an entry relies on, or none.
THEOREM ConnectionIsTask == Spec => ImplementsTask
<1>1. Init => Task!Init
  BY DEF Init, StationInit, Task!Init, TaskSeen
<1>. QED
  BY <1>1, StepSeen, TypeCorrect, ControlInvariant, PTL
     DEF Spec, ImplementsTask, Task!Spec
==============================================================================
