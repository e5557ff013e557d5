---------------------- MODULE StationConnectionFeedProofs ----------------------
(****************************************************************************)
(* StationConnection implements AlertFeed, for any set of alerts and any    *)
(* history of the station, when the station sends a snapshot on join.       *)
(*                                                                          *)
(* The argument is that everything the connection holds or is about to be   *)
(* told is the station's log up to some moment: the board, the answer to a  *)
(* seed, the snapshot, and each frame the moment after the one before it.   *)
(****************************************************************************)
EXTENDS StationConnectionFeed, StationConnectionProofs

------------------------------------------------------------------------------
(* What a log says of an alert. *)

\* The last word on an alert is what the log says of it.
LEMMA LastIsTold ==
    ASSUME NEW h, NEW a, NEW p \in Nat, NEW n \in 1 .. p, Feed!IsLast(h, a, p, n)
    PROVE  Feed!EntryAfter(h, a, p) = EntryFor(h[n].event)
<1>. DEFINE m == CHOOSE k \in 1 .. p : Feed!IsLast(h, a, p, k)
<1>1. m \in 1 .. p /\ Feed!IsLast(h, a, p, m)
  OBVIOUS
<1>2. Feed!EntryAfter(h, a, p) = EntryFor(h[m].event)
  BY DEF Feed!EntryAfter, Feed!IsLast, Feed!EntryFor, EntryFor, Feed!Opens, Opens
<1>. HIDE DEF m
<1>3. m = n
  BY <1>1 DEF Feed!IsLast
<1>. QED
  BY <1>2, <1>3

\* An alert the log does not mention is not open.
LEMMA UnheardIsAbsent ==
    ASSUME NEW h, NEW a, NEW p \in Nat, \A n \in 1 .. p : h[n].alert # a
    PROVE  Feed!EntryAfter(h, a, p) = "absent"
BY DEF Feed!EntryAfter

\* Two logs that agree up to a moment say the same of it.
LEMMA SameUpTo ==
    ASSUME NEW h, NEW g, NEW a, NEW p \in Nat, \A n \in 1 .. p : g[n] = h[n],
           (\E n \in 1 .. p : h[n].alert = a) => \E n \in 1 .. p : Feed!IsLast(h, a, p, n)
    PROVE  Feed!EntryAfter(g, a, p) = Feed!EntryAfter(h, a, p)
<1>1. CASE \E n \in 1 .. p : Feed!IsLast(h, a, p, n)
  <2>. PICK n \in 1 .. p : Feed!IsLast(h, a, p, n)
    BY <1>1
  <2>1. Feed!IsLast(g, a, p, n)
    BY DEF Feed!IsLast
  <2>. QED
    BY <2>1, LastIsTold
<1>2. CASE \A n \in 1 .. p : h[n].alert # a
  BY <1>2, UnheardIsAbsent
<1>. QED
  BY <1>1, <1>2

\* One transition more changes the alert it is about, and no other.
LEMMA OneMore ==
    ASSUME NEW h, NEW a, NEW p \in Nat,
           (\E n \in 1 .. p : h[n].alert = a) => \E n \in 1 .. p : Feed!IsLast(h, a, p, n)
    PROVE  Feed!EntryAfter(h, a, p + 1) =
              IF h[p + 1].alert = a THEN EntryFor(h[p + 1].event) ELSE Feed!EntryAfter(h, a, p)
<1>1. CASE h[p + 1].alert = a
  <2>1. Feed!IsLast(h, a, p + 1, p + 1) /\ p + 1 \in 1 .. p + 1
    BY <1>1 DEF Feed!IsLast
  <2>. QED
    BY <1>1, <2>1, LastIsTold
<1>2. CASE h[p + 1].alert # a /\ \E n \in 1 .. p : Feed!IsLast(h, a, p, n)
  <2>. PICK n \in 1 .. p : Feed!IsLast(h, a, p, n)
    BY <1>2
  <2>1. Feed!IsLast(h, a, p + 1, n) /\ n \in 1 .. p + 1
    BY <1>2 DEF Feed!IsLast
  <2>. QED
    BY <1>2, <2>1, LastIsTold
<1>3. CASE h[p + 1].alert # a /\ \A n \in 1 .. p : h[n].alert # a
  <2>1. \A n \in 1 .. p + 1 : h[n].alert # a
    BY <1>3
  <2>. QED
    BY <1>3, <2>1, UnheardIsAbsent
<1>. QED
  BY <1>1, <1>2, <1>3

\* The same, of all alerts: what a transition does to the open alerts.
LEMMA OneMoreOnTheBoard ==
    ASSUME LastsExist, NEW p \in 0 .. Len(log) - 1, Len(log) \in Nat, log[p + 1].alert \in Alerts
    PROVE  Feed!BoardAfter(log, p + 1) =
              [Feed!BoardAfter(log, p) EXCEPT ![log[p + 1].alert] = EntryFor(log[p + 1].event)]
<1>1. \A a \in Alerts : (\E n \in 1 .. p : log[n].alert = a) =>
                            \E n \in 1 .. p : Feed!IsLast(log, a, p, n)
  BY DEF LastsExist
<1>2. ASSUME NEW a \in Alerts
      PROVE  Feed!EntryAfter(log, a, p + 1) =
                IF log[p + 1].alert = a THEN EntryFor(log[p + 1].event)
                                        ELSE Feed!EntryAfter(log, a, p)
  <2>1. p \in Nat
    OBVIOUS
  <2>. QED
    BY ONLY <1>1, <2>1, OneMore
<1>. QED
  BY <1>2 DEF Feed!BoardAfter

\* The log grows: the moments so far stay what they were, and the new one has
\* a last word too.
LEMMA LogGrows ==
    ASSUME TypeOK, LastsExist, NEW x \in Transitions, log' = Append(log, x)
    PROVE  /\ LastsExist' /\ Len(log') = Len(log) + 1 /\ Len(log) \in Nat
           /\ log'[Len(log) + 1] = x /\ \A n \in 1 .. Len(log) : log'[n] = log[n]
           /\ \A p \in 0 .. Len(log) : Feed!BoardAfter(log', p) = Feed!BoardAfter(log, p)
           /\ Feed!BoardAfter(log', Len(log')) =
                 [Feed!BoardAfter(log, Len(log)) EXCEPT ![x.alert] = EntryFor(x.event)]
<1>1. /\ Len(log') = Len(log) + 1 /\ Len(log) \in Nat
      /\ log'[Len(log) + 1] = x /\ \A n \in 1 .. Len(log) : log'[n] = log[n]
  BY AppendProperties, LenProperties DEF TypeOK, StationTypeOK
<1>2. ASSUME NEW a \in Alerts, NEW p \in 0 .. Len(log)
      PROVE  /\ (\E n \in 1 .. p : log'[n].alert = a) =>
                    \E n \in 1 .. p : Feed!IsLast(log', a, p, n)
             /\ Feed!EntryAfter(log', a, p) = Feed!EntryAfter(log, a, p)
  <2>1. (\E n \in 1 .. p : log[n].alert = a) => \E n \in 1 .. p : Feed!IsLast(log, a, p, n)
    BY <1>1 DEF LastsExist
  <2>2. ASSUME NEW n \in 1 .. p, Feed!IsLast(log, a, p, n) PROVE Feed!IsLast(log', a, p, n)
    BY <1>1, <2>2 DEF Feed!IsLast
  <2>3. p \in Nat /\ \A n \in 1 .. p : log'[n] = log[n]
    BY <1>1
  <2>4. Feed!EntryAfter(log', a, p) = Feed!EntryAfter(log, a, p)
    BY ONLY <2>1, <2>3, SameUpTo
  <2>. QED
    BY <2>1, <2>2, <2>3, <2>4
<1>3. ASSUME NEW a \in Alerts, \E n \in 1 .. Len(log') : log'[n].alert = a
      PROVE  \E n \in 1 .. Len(log') : Feed!IsLast(log', a, Len(log'), n)
  <2>1. CASE x.alert = a
    BY <1>1, <2>1 DEF Feed!IsLast
  <2>2. CASE x.alert # a
    <3>1. PICK n \in 1 .. Len(log) : Feed!IsLast(log', a, Len(log), n)
      BY <1>1, <1>2, <1>3, <2>2
    <3>. QED
      BY <1>1, <2>2, <3>1 DEF Feed!IsLast
  <2>. QED
    BY <2>1, <2>2
<1>4. LastsExist'
  BY <1>1, <1>2, <1>3 DEF LastsExist
<1>5. \A p \in 0 .. Len(log) : Feed!BoardAfter(log', p) = Feed!BoardAfter(log, p)
  BY <1>2 DEF Feed!BoardAfter
<1>6. \A a \in Alerts : Feed!EntryAfter(log', a, Len(log')) =
         IF x.alert = a THEN EntryFor(x.event) ELSE Feed!EntryAfter(log, a, Len(log))
  <2>1. Len(log) \in Nat /\ Len(log) \in 0 .. Len(log)
    BY <1>1
  <2>2. ASSUME NEW a \in Alerts
        PROVE  Feed!EntryAfter(log', a, Len(log) + 1) =
                  IF log'[Len(log) + 1].alert = a THEN EntryFor(log'[Len(log) + 1].event)
                                                 ELSE Feed!EntryAfter(log', a, Len(log))
    BY ONLY <1>2, <2>1, OneMore
  <2>. QED
    BY <1>1, <1>2, <2>1, <2>2
<1>7. x.alert \in Alerts
  BY DEF Transitions
<1>. QED
  BY <1>1, <1>4, <1>5, <1>6, <1>7 DEF Feed!BoardAfter

------------------------------------------------------------------------------
(* The station's steps. *)

\* The log as it was.
LEMMA LastsKept == ASSUME LastsExist, UNCHANGED log PROVE LastsExist'
BY DEF LastsExist

\* The station's transition is shown by its own list, and goes out on an open
\* socket as the next frame.
LEMMA TransitionFollowedOn ==
    ASSUME TypeOK, Followed, NEW a \in Alerts, NEW e \in Events, Transition(a, e),
           UNCHANGED <<reply, board, seededAt, upTo>>
    PROVE  Followed'
<1>. DEFINE x == [event |-> e, alert |-> a]
           new == Len(frames) + 1
           f == TransitionFrame(Len(log) + 1, e, a)
<1>1. x \in Transitions /\ log' = Append(log, x) /\ x.event = e /\ x.alert = a
  BY DEF Transition, Transitions
<1>2. /\ f.event = e /\ f.alert = a /\ f.n = Len(log) + 1 /\ f.event \in Events
      /\ f.event # "additive" /\ f.event # "snapshot" /\ IsTransition(f)
  BY DEF TransitionFrame, IsTransition, Events, Opens, Closes
<1>3. /\ status' = [status EXCEPT ![a] = e] /\ socket' = socket
      /\ frames' = IF socket = "open" THEN Append(frames, f) ELSE frames
  BY DEF Transition, Queue
<1>. HIDE DEF x, f
<1>4. /\ LastsExist' /\ Len(log') = Len(log) + 1 /\ Len(log) \in Nat
      /\ \A p \in 0 .. Len(log) : Feed!BoardAfter(log', p) = Feed!BoardAfter(log, p)
      /\ Feed!BoardAfter(log', Len(log')) =
            [Feed!BoardAfter(log, Len(log)) EXCEPT ![a] = EntryFor(e)]
  BY <1>1, LogGrows DEF Followed
<1>5. MomentsAreTrue'
  <2>1. OpenBoard' = [OpenBoard EXCEPT ![a] = EntryFor(e)]
    BY <1>3 DEF OpenBoard, TypeOK, StationTypeOK
  <2>. QED
    BY <1>4, <2>1 DEF Followed, MomentsAreTrue, TypeOK
<1>6. CASE socket = "open"
  <2>1. /\ Len(frames') = new /\ Len(frames) \in Nat /\ frames'[new] = f
        /\ \A i \in 1 .. Len(frames) : frames'[i] = frames[i]
    BY <1>3, <1>6, AppendProperties, LenProperties DEF TypeOK, StationTypeOK
  <2>2. ~Additive(frames'[new]) /\ \A i \in 1 .. Len(frames) : Additive(frames'[i]) <=> Additive(frames[i])
    BY <1>2, <2>1 DEF Additive
  <2>3. ASSUME NEW i \in 1 .. new, frames'[i].event = "snapshot"
        PROVE  /\ frames'[i].n \in upTo .. Len(log')
               /\ frames'[i].alerts = Feed!BoardAfter(log', frames'[i].n)
               /\ \A j \in 1 .. i - 1 : Additive(frames'[j])
    <3>1. i \in 1 .. Len(frames) /\ frames'[i] = frames[i]
      BY <1>2, <2>1, <2>3
    <3>2. /\ frames[i].n \in upTo .. Len(log) /\ upTo \in Nat
          /\ frames[i].alerts = Feed!BoardAfter(log, frames[i].n)
          /\ \A j \in 1 .. i - 1 : Additive(frames[j])
      BY <2>3, <3>1 DEF Followed, SnapshotsAreTrue, TypeOK
    <3>. QED
      BY <1>4, <2>1, <2>2, <3>1, <3>2
  <2>4. FramesFollowOn'
    <3>1. ASSUME NEW i \in 1 .. new, frames'[i].event \in Events
          PROVE  /\ IsTransition(frames'[i])
                 /\ (\A j \in 1 .. i - 1 : Additive(frames'[j])) => frames'[i].n = upTo + 1
      <4>1. CASE i = new
        BY <1>2, <1>6, <2>1, <2>2, <4>1 DEF Followed, SocketIsUpToDate
      <4>2. CASE i # new
        BY <2>1, <2>2, <3>1, <4>2 DEF Followed, FramesFollowOn
      <4>. QED
        BY <4>1, <4>2
    <3>2. ASSUME NEW i \in 1 .. new, NEW j \in 1 .. new, i < j, ~Additive(frames'[i]), ~Additive(frames'[j]),
                 \A k \in i + 1 .. j - 1 : Additive(frames'[k])
          PROVE  frames'[j].n = frames'[i].n + 1
      <4>1. i \in 1 .. Len(frames)
        BY <2>1, <3>2
      <4>2. CASE j = new
        <5>1. ~Additive(frames[i]) /\ \A k \in i + 1 .. Len(frames) : Additive(frames[k])
          BY <2>1, <2>2, <3>2, <4>1, <4>2
        <5>. QED
          BY <1>2, <1>6, <2>1, <4>1, <4>2, <5>1 DEF Followed, SocketIsUpToDate
      <4>3. CASE j # new
        BY <2>1, <2>2, <3>2, <4>1, <4>3 DEF Followed, FramesFollowOn
      <4>. QED
        BY <4>2, <4>3
    <3>. QED
      BY <2>1, <3>1, <3>2 DEF FramesFollowOn
  <2>5. SocketIsUpToDate'
    BY <1>2, <1>4, <2>1, <2>2 DEF SocketIsUpToDate
  <2>. QED
    BY <1>4, <1>5, <2>1, <2>3, <2>4, <2>5 DEF Followed, SnapshotsAreTrue
<1>7. CASE socket # "open"
  <2>1. UNCHANGED frames
    BY <1>3, <1>7
  <2>2. SnapshotsAreTrue'
    <3>1. SnapshotsAreTrue /\ upTo' = upTo /\ upTo \in Nat
      BY DEF Followed, TypeOK
    <3>. QED
      BY ONLY <1>4, <2>1, <3>1 DEF SnapshotsAreTrue, Additive
  <2>3. FramesFollowOn' /\ SocketIsUpToDate'
    BY <1>3, <1>7, <2>1 DEF Followed, FramesFollowOn, SocketIsUpToDate, Additive
  <2>. QED
    BY <1>4, <1>5, <2>2, <2>3 DEF Followed
<1>. QED
  BY <1>6, <1>7

\* A frame that says nothing of an alert does not come between those that do.
LEMMA AdditiveFollowedOn ==
    ASSUME TypeOK, Followed, NEW a \in Alerts, SendAdditive(a),
           UNCHANGED <<reply, board, seededAt, upTo>>
    PROVE  Followed'
<1>. DEFINE new == Len(frames) + 1
           f == AdditiveFrame(a)
<1>1. f.event = "additive" /\ f.event \notin Events /\ f.event # "snapshot"
  BY DEF AdditiveFrame, Events, Opens, Closes
<1>2. UNCHANGED <<status, log, socket>> /\ frames' = Append(frames, f)
  BY DEF SendAdditive, Queue
<1>. HIDE DEF f
<1>3. /\ Len(frames') = new /\ Len(frames) \in Nat /\ frames'[new] = f
      /\ \A i \in 1 .. Len(frames) : frames'[i] = frames[i]
  BY <1>2, AppendProperties, LenProperties DEF TypeOK, StationTypeOK
<1>4. Additive(frames'[new]) /\ \A i \in 1 .. Len(frames) : Additive(frames'[i]) <=> Additive(frames[i])
  BY <1>1, <1>3 DEF Additive
<1>5. LastsExist' /\ MomentsAreTrue'
  BY <1>2, LastsKept DEF Followed, MomentsAreTrue, OpenBoard
<1>6. SnapshotsAreTrue'
  BY <1>1, <1>2, <1>3, <1>4 DEF Followed, SnapshotsAreTrue
<1>7. FramesFollowOn'
  <2>1. ASSUME NEW i \in 1 .. new, frames'[i].event \in Events
        PROVE  /\ IsTransition(frames'[i])
               /\ (\A j \in 1 .. i - 1 : Additive(frames'[j])) => frames'[i].n = upTo + 1
    <3>1. i \in 1 .. Len(frames)
      BY <1>1, <1>3, <2>1
    <3>. QED
      BY <1>3, <1>4, <2>1, <3>1 DEF Followed, FramesFollowOn
  <2>2. ASSUME NEW i \in 1 .. new, NEW j \in 1 .. new, i < j, ~Additive(frames'[i]),
               ~Additive(frames'[j]), \A k \in i + 1 .. j - 1 : Additive(frames'[k])
        PROVE  frames'[j].n = frames'[i].n + 1
    <3>1. i \in 1 .. Len(frames) /\ j \in 1 .. Len(frames)
      BY <1>3, <1>4, <2>2
    <3>. QED
      BY <1>3, <1>4, <2>2, <3>1 DEF Followed, FramesFollowOn
  <2>. QED
    BY <1>3, <2>1, <2>2 DEF FramesFollowOn
<1>8. SocketIsUpToDate'
  BY <1>2, <1>3, <1>4 DEF Followed, SocketIsUpToDate
<1>. QED
  BY <1>5, <1>6, <1>7, <1>8 DEF Followed

\* What is left of the frames when a socket is lost is the beginning of them.
LEMMA LossFollowedOn ==
    ASSUME TypeOK, Followed, NEW how \in {"closed", "dead"}, LoseSocket(how),
           UNCHANGED <<reply, board, seededAt, upTo>>
    PROVE  Followed'
<1>1. PICK k \in 0 .. Len(frames) : frames' = SubSeq(frames, 1, k)
  BY DEF LoseSocket
<1>2. /\ Len(frames') = k /\ Len(frames) \in Nat
      /\ \A i \in 1 .. k : frames'[i] = frames[i] /\ i \in 1 .. Len(frames)
  BY <1>1, SubSeqProperties, LenProperties DEF TypeOK, StationTypeOK
<1>3. \A i \in 1 .. k : Additive(frames'[i]) <=> Additive(frames[i])
  BY <1>2 DEF Additive
<1>4. UNCHANGED <<status, log>> /\ socket' # "open"
  BY DEF LoseSocket
<1>5. LastsExist' /\ MomentsAreTrue'
  BY <1>4, LastsKept DEF Followed, MomentsAreTrue, OpenBoard
<1>8. SnapshotsAreTrue /\ FramesFollowOn /\ upTo' = upTo /\ k \in Nat
  BY DEF Followed
<1>6. SnapshotsAreTrue'
  BY ONLY <1>2, <1>3, <1>4, <1>8 DEF SnapshotsAreTrue
<1>7. FramesFollowOn'
  BY ONLY <1>2, <1>3, <1>8 DEF FramesFollowOn
<1>. QED
  BY <1>4, <1>5, <1>6, <1>7 DEF Followed, SocketIsUpToDate

LEMMA StationFollowedOn == TypeOK /\ Followed /\ StationStep => Followed'
<1> SUFFICES ASSUME TypeOK, Followed, StationStep PROVE Followed'
  OBVIOUS
<1>1. UNCHANGED <<reply, board, seededAt, upTo>> /\ StationNext
  BY DEF StationStep, stateVars, historyVars
<1>2. CASE ChangeHealth \/ Revoke
  <2>1. /\ UNCHANGED <<status, log, frames>> /\ LastsExist'
        /\ socket' = "open" => socket = "open"
    BY <1>2, LastsKept DEF ChangeHealth, Revoke, Followed
  <2>. QED
    BY <1>1, <2>1 DEF Followed, MomentsAreTrue, OpenBoard, SnapshotsAreTrue, FramesFollowOn,
       SocketIsUpToDate
<1>. QED
  BY <1>1, <1>2, TransitionFollowedOn, AdditiveFollowedOn, LossFollowedOn DEF StationNext

------------------------------------------------------------------------------
(* The connection's steps. *)

\* A socket is dropped, or there is none: only the moments matter.
LEMMA NothingOnItsWay ==
    ASSUME LastsExist', MomentsAreTrue', frames' = <<>>, socket' = "none"
    PROVE  Followed'
BY DEF Followed, SnapshotsAreTrue, FramesFollowOn, SocketIsUpToDate

\* Whatever ends an attempt leaves the board at the moment it had come to.
LEMMA DropFollowedOn ==
    ASSUME Followed, DropSocket, reply' \in {reply, NoReply}, UNCHANGED <<board, seededAt, upTo>>
    PROVE  Followed'
<1>1. LastsExist' /\ MomentsAreTrue'
  BY LastsKept DEF Followed, DropSocket, MomentsAreTrue, OpenBoard
<1>. QED
  BY <1>1, NothingOnItsWay DEF DropSocket

\* A step that touches none of it.
LEMMA QuietFollowedOn ==
    ASSUME Followed, UNCHANGED <<status, log, socket, frames, reply, board, seededAt, upTo>>
    PROVE  Followed'
<1>1. LastsExist' /\ MomentsAreTrue'
  BY LastsKept DEF Followed, MomentsAreTrue, OpenBoard
<1>. QED
  BY <1>1 DEF Followed, SnapshotsAreTrue, FramesFollowOn, SocketIsUpToDate

\* The seed is answered with the log up to now, and taken up.
LEMMA SeedFollowedOn ==
    TypeOK /\ Control /\ Followed /\ (AnswerSeed \/ SeedArrives) => Followed'
<1> SUFFICES ASSUME TypeOK, Control, Followed, AnswerSeed \/ SeedArrives PROVE Followed'
  OBVIOUS
<1>1. UNCHANGED <<status, log, socket, frames>> /\ socket = "none" /\ frames = <<>>
  BY DEF AnswerSeed, SeedArrives, stationVars, Control
<1>2. Len(log) \in Nat /\ upTo \in Nat /\ OpenBoard' = OpenBoard
  BY <1>1, LenProperties DEF TypeOK, StationTypeOK, OpenBoard
<1>3. MomentsAreTrue'
  <2>1. CASE AnswerSeed
    BY <1>1, <1>2, <2>1 DEF AnswerSeed, stateVars, Followed, MomentsAreTrue
  <2>2. CASE SeedArrives
    BY <1>1, <1>2, <2>2 DEF SeedArrives, Followed, MomentsAreTrue
  <2>. QED
    BY <2>1, <2>2
<1>. QED
  BY <1>1, <1>3, LastsKept, NothingOnItsWay DEF Followed

\* The station takes the upgrade, and says first what is open.
LEMMA SubscribeFollowedOn ==
    ASSUME JoinSnapshot = TRUE, TypeOK, Followed, Subscribe
    PROVE  Followed'
<1>1. /\ UNCHANGED <<status, log, reply, board, seededAt, upTo>>
      /\ frames' = <<SnapshotFrame>>
  BY DEF Subscribe, AcceptSocket, stateVars
<1>2. /\ SnapshotFrame.event = "snapshot" /\ SnapshotFrame.alerts = OpenBoard
      /\ SnapshotFrame.n = Len(log)
  BY DEF SnapshotFrame
<1>3. Len(frames') = 1 /\ frames'[1] = SnapshotFrame
  BY <1>1
<1>4. Len(log) \in Nat /\ upTo \in Nat
  BY LenProperties DEF TypeOK, StationTypeOK
<1>5. LastsExist' /\ MomentsAreTrue'
  BY <1>1, LastsKept DEF Followed, MomentsAreTrue, OpenBoard
<1>6. SnapshotsAreTrue'
  BY <1>1, <1>2, <1>3, <1>4 DEF SnapshotsAreTrue, Followed, MomentsAreTrue
<1>7. FramesFollowOn' /\ SocketIsUpToDate'
  BY <1>1, <1>2, <1>3 DEF FramesFollowOn, SocketIsUpToDate, Additive, Events, Opens, Closes
<1>. QED
  BY <1>5, <1>6, <1>7 DEF Followed

\* What one turn of the loop does: the frames move up, and the board moves to
\* the moment the first of them tells, the next one or the snapshot's.
LEMMA ReceiveTells ==
    ASSUME TypeOK, Followed, Receive
    PROVE  /\ Len(frames) \in Nat /\ Len(frames) >= 1 /\ Len(frames') = Len(frames) - 1
           /\ \A i \in 1 .. Len(frames') : frames'[i] = frames[i + 1] /\ i + 1 \in 1 .. Len(frames)
           /\ UNCHANGED <<status, log, socket, reply, seededAt>>
           /\ \/ /\ Additive(frames[1]) /\ UNCHANGED <<board, published, bus, upTo>>
              \/ /\ frames[1].event = "snapshot" /\ ~Additive(frames[1])
                 /\ upTo' = frames[1].n /\ upTo' \in upTo .. Len(log)
                 /\ board' = Feed!BoardAfter(log, upTo') /\ UNCHANGED bus
              \/ /\ IsTransition(frames[1]) /\ ~Additive(frames[1])
                 /\ upTo' = frames[1].n /\ upTo' = upTo + 1
                 /\ board' = [board EXCEPT ![frames[1].alert] = EntryFor(frames[1].event)]
                 /\ bus' = Append(bus, [event |-> frames[1].event, alert |-> frames[1].alert,
                                        n |-> frames[1].n,
                                        seen |-> published'.alerts[frames[1].alert]])
<1>1. /\ frames \in Seq(Frames) /\ frames # <<>> /\ Head(frames) = frames[1]
      /\ frames' = Tail(frames) /\ frames[1] \in Frames
  BY HeadTailProperties DEF TypeOK, StationTypeOK, Receive
<1>2. /\ Len(frames) \in Nat /\ Len(frames) >= 1 /\ Len(frames') = Len(frames) - 1
      /\ \A i \in 1 .. Len(frames') : frames'[i] = frames[i + 1] /\ i + 1 \in 1 .. Len(frames)
  BY <1>1, HeadTailProperties, LenProperties
<1>3. UNCHANGED <<status, log, socket, reply, seededAt>>
  BY DEF Receive
<1>4. /\ Apply(frames[1]) /\ Dispatch(frames[1])
      /\ upTo' = IF frames[1].event = "additive" THEN upTo ELSE frames[1].n
  BY <1>1 DEF Receive
<1>5. CASE frames[1].event = "additive"
  <2>1. frames[1].event \notin Events /\ frames[1].event # "snapshot"
    BY <1>5 DEF Events, Opens, Closes
  <2>. QED
    BY <1>2, <1>3, <1>4, <1>5, <2>1 DEF Apply, Dispatch, IsTransition, Additive
<1>6. CASE frames[1].event = "snapshot"
  <2>1. frames[1].event \notin Events /\ frames[1].event # "additive"
    BY <1>6 DEF Events, Opens, Closes
  <2>2. frames[1].n \in upTo .. Len(log) /\ frames[1].alerts = Feed!BoardAfter(log, frames[1].n)
    BY <1>2, <1>6 DEF Followed, SnapshotsAreTrue
  <2>. QED
    BY <1>2, <1>3, <1>4, <1>6, <2>1, <2>2 DEF Apply, Dispatch, IsTransition, Additive
<1>7. CASE frames[1].event \in Events
  <2>1. frames[1].event # "snapshot" /\ frames[1].event # "additive"
    BY <1>7 DEF Events, Opens, Closes
  <2>2. IsTransition(frames[1]) /\ frames[1].n = upTo + 1
    BY <1>2, <1>7 DEF Followed, FramesFollowOn
  <2>. QED
    BY <1>2, <1>3, <1>4, <1>7, <2>1, <2>2 DEF Apply, Dispatch, IsTransition, Additive
<1>. QED
  BY <1>1, <1>5, <1>6, <1>7 DEF Frames

\* The transition the first frame reports is in the log, where it says.
LEMMA FirstFrameIsInTheLog ==
    ASSUME TypeOK, Delivery, Len(frames) >= 1, IsTransition(frames[1])
    PROVE  /\ frames[1].n \in 1 .. Len(log)
           /\ log[frames[1].n].alert = frames[1].alert /\ log[frames[1].n].event = frames[1].event
<1>1. Len(frames) \in Nat
  BY LenProperties DEF TypeOK, StationTypeOK
<1>2. /\ frames[1].n \in 1 .. Len(log)
      /\ log[frames[1].n] = [event |-> frames[1].event, alert |-> frames[1].alert]
  BY <1>1 DEF Delivery
<1>. QED
  BY <1>2

\* What is left of the frames follows on from the moment the board is at now.
LEMMA ReceiveFollowedOn ==
    ASSUME TypeOK, Control, Delivery, Followed, Receive
    PROVE  /\ Followed'
           /\ ~Additive(frames[1]) => board' = Feed!BoardAfter(log, upTo') /\ upTo' \in upTo .. Len(log)
<1>1. /\ Len(frames) \in Nat /\ Len(frames) >= 1 /\ Len(frames') = Len(frames) - 1
      /\ \A i \in 1 .. Len(frames') : frames'[i] = frames[i + 1] /\ i + 1 \in 1 .. Len(frames)
      /\ UNCHANGED <<status, log, socket, reply, seededAt>>
  BY ReceiveTells
<1>2. /\ Additive(frames[1]) => upTo' = upTo /\ board' = board
      /\ ~Additive(frames[1]) =>
            /\ upTo' = frames[1].n /\ board' = Feed!BoardAfter(log, upTo')
            /\ upTo' \in upTo .. Len(log)
  <2>1. CASE Additive(frames[1])
    <3>1. ~IsTransition(frames[1]) /\ frames[1].event # "snapshot"
      BY <2>1 DEF Additive, IsTransition, Events, Opens, Closes
    <3>. QED
      BY <2>1, <3>1, ReceiveTells
  <2>2. CASE frames[1].event = "snapshot" /\ ~Additive(frames[1])
    <3>1. ~IsTransition(frames[1])
      BY <2>2 DEF IsTransition, Events, Opens, Closes
    <3>. QED
      BY <2>2, <3>1, ReceiveTells
  <2>3. CASE IsTransition(frames[1]) /\ ~Additive(frames[1])
    <3>1. frames[1].event # "snapshot"
      BY <2>3 DEF IsTransition, Events, Opens, Closes
    <3>2. /\ upTo' = frames[1].n /\ upTo' = upTo + 1
          /\ board' = [board EXCEPT ![frames[1].alert] = EntryFor(frames[1].event)]
      BY <2>3, <3>1, ReceiveTells
    <3>3. /\ upTo + 1 \in 1 .. Len(log) /\ log[upTo + 1].alert = frames[1].alert
          /\ log[upTo + 1].event = frames[1].event
      BY <1>1, <2>3, <3>2, FirstFrameIsInTheLog
    <3>4. /\ Len(log) \in Nat /\ upTo \in 0 .. Len(log) - 1 /\ log[upTo + 1].alert \in Alerts
          /\ board = Feed!BoardAfter(log, upTo)
      BY <2>3, <3>3, LenProperties DEF TypeOK, StationTypeOK, IsTransition, Followed, MomentsAreTrue
    <3>5. Feed!BoardAfter(log, upTo + 1) =
             [Feed!BoardAfter(log, upTo) EXCEPT ![log[upTo + 1].alert] = EntryFor(log[upTo + 1].event)]
      BY <3>4, OneMoreOnTheBoard DEF Followed
    <3>. QED
      BY <2>3, <3>2, <3>3, <3>4, <3>5
  <2>. QED
    BY <2>1, <2>2, <2>3, ReceiveTells
<1>3. LastsExist'
  BY <1>1, LastsKept DEF Followed
<1>4. MomentsAreTrue'
  <2>1. reply = NoReply /\ OpenBoard' = OpenBoard
    BY <1>1 DEF Receive, Control, OpenBoard
  <2>2. Len(log) \in Nat /\ upTo \in Nat
    BY LenProperties DEF TypeOK, StationTypeOK
  <2>. QED
    BY <1>1, <1>2, <2>1, <2>2 DEF Followed, MomentsAreTrue
<1>5. SnapshotsAreTrue'
  <2>. SUFFICES ASSUME NEW i \in 1 .. Len(frames'), frames'[i].event = "snapshot"
                PROVE  /\ frames'[i].n \in upTo' .. Len(log')
                       /\ frames'[i].alerts = Feed!BoardAfter(log', frames'[i].n)
                       /\ \A j \in 1 .. i - 1 : Additive(frames'[j])
    BY DEF SnapshotsAreTrue
  <2>1. /\ frames[i + 1].n \in upTo .. Len(log)
        /\ frames[i + 1].alerts = Feed!BoardAfter(log, frames[i + 1].n)
        /\ \A j \in 1 .. (i + 1) - 1 : Additive(frames[j])
    BY <1>1 DEF Followed, SnapshotsAreTrue
  <2>2. /\ Additive(frames[1]) /\ upTo' = upTo
        /\ \A j \in 1 .. i - 1 : Additive(frames[j + 1]) /\ frames'[j] = frames[j + 1]
    BY <1>1, <1>2, <2>1
  <2>3. frames'[i] = frames[i + 1] /\ log' = log
    BY <1>1
  <2>. QED
    BY <2>1, <2>2, <2>3
<1>6. FramesFollowOn'
  <2>1. ASSUME NEW i \in 1 .. Len(frames'), frames'[i].event \in Events
        PROVE  /\ IsTransition(frames'[i])
               /\ (\A j \in 1 .. i - 1 : Additive(frames'[j])) => frames'[i].n = upTo' + 1
    <3>1. /\ i + 1 \in 1 .. Len(frames) /\ frames'[i] = frames[i + 1] /\ frames[i + 1].event \in Events
          /\ \A j \in 1 .. i - 1 : frames'[j] = frames[j + 1]
      BY <1>1, <2>1
    <3>2. IsTransition(frames[i + 1]) /\ ~Additive(frames[i + 1])
      BY <3>1 DEF Followed, FramesFollowOn, Additive, Events, Opens, Closes
    <3>3. ASSUME \A j \in 1 .. i - 1 : Additive(frames'[j])
          PROVE  frames[i + 1].n = upTo' + 1
      <4>1. \A k \in 2 .. i : Additive(frames[k])
        <5>1. ASSUME NEW k \in 2 .. i PROVE Additive(frames[k])
          <6>1. k - 1 \in 1 .. i - 1 /\ frames'[k - 1] = frames[(k - 1) + 1]
            BY <3>1, <5>1
          <6>. QED
            BY <3>3, <6>1
        <5>. QED
          BY <5>1
      <4>2. CASE Additive(frames[1])
        <5>1. \A j \in 1 .. (i + 1) - 1 : Additive(frames[j])
          BY <4>1, <4>2
        <5>. QED
          BY <1>2, <3>1, <4>2, <5>1 DEF Followed, FramesFollowOn
      <4>3. CASE ~Additive(frames[1])
        <5>1. 1 \in 1 .. Len(frames) /\ 1 < i + 1 /\ \A k \in 1 + 1 .. (i + 1) - 1 : Additive(frames[k])
          BY <1>1, <4>1
        <5>2. frames[i + 1].n = frames[1].n + 1
          BY <3>1, <3>2, <4>3, <5>1 DEF Followed, FramesFollowOn
        <5>. QED
          BY <1>2, <4>3, <5>2
      <4>. QED
        BY <4>2, <4>3
    <3>. QED
      BY <3>1, <3>2, <3>3
  <2>2. ASSUME NEW i \in 1 .. Len(frames'), NEW j \in 1 .. Len(frames'), i < j,
               ~Additive(frames'[i]), ~Additive(frames'[j]),
               \A k \in i + 1 .. j - 1 : Additive(frames'[k])
        PROVE  frames'[j].n = frames'[i].n + 1
    <3>1. /\ i + 1 \in 1 .. Len(frames) /\ frames'[i] = frames[i + 1]
          /\ j + 1 \in 1 .. Len(frames) /\ frames'[j] = frames[j + 1] /\ i + 1 < j + 1
      BY <1>1, <2>2
    <3>2. ASSUME NEW k \in (i + 1) + 1 .. (j + 1) - 1 PROVE Additive(frames[k])
      <4>1. k - 1 \in i + 1 .. j - 1 /\ k - 1 \in 1 .. Len(frames') /\ (k - 1) + 1 = k
        BY <1>1, <3>2
      <4>2. frames'[k - 1] = frames[k]
        BY <1>1, <4>1
      <4>. QED
        BY <2>2, <4>1, <4>2
    <3>. QED
      BY <2>2, <3>1, <3>2 DEF Followed, FramesFollowOn
  <2>. QED
    BY <2>1, <2>2 DEF FramesFollowOn
<1>7. SocketIsUpToDate'
  <2>. SUFFICES ASSUME socket = "open"
                PROVE  /\ (\A i \in 1 .. Len(frames') : Additive(frames'[i])) => upTo' = Len(log)
                       /\ \A i \in 1 .. Len(frames') :
                             /\ ~Additive(frames'[i])
                             /\ \A k \in i + 1 .. Len(frames') : Additive(frames'[k])
                             => frames'[i].n = Len(log)
    BY <1>1 DEF SocketIsUpToDate
  <2>1. ASSUME NEW i \in 0 .. Len(frames'), \A k \in i + 1 .. Len(frames') : Additive(frames'[k])
        PROVE  \A k \in (i + 1) + 1 .. Len(frames) : Additive(frames[k])
    <3>1. ASSUME NEW k \in (i + 1) + 1 .. Len(frames) PROVE Additive(frames[k])
      <4>1. k - 1 \in i + 1 .. Len(frames') /\ k - 1 \in 1 .. Len(frames') /\ (k - 1) + 1 = k
        BY <1>1, <3>1
      <4>2. frames'[k - 1] = frames[k]
        BY <1>1, <4>1
      <4>. QED
        BY <2>1, <4>1, <4>2
    <3>. QED
      BY <3>1
  <2>2. ASSUME \A k \in 1 .. Len(frames') : Additive(frames'[k]) PROVE upTo' = Len(log)
    <3>1. \A k \in 2 .. Len(frames) : Additive(frames[k])
      BY <1>1, <2>1, <2>2
    <3>2. CASE Additive(frames[1])
      <4>1. \A k \in 1 .. Len(frames) : Additive(frames[k])
        BY <1>1, <3>1, <3>2
      <4>. QED
        BY <1>2, <3>2, <4>1 DEF Followed, SocketIsUpToDate
    <3>3. CASE ~Additive(frames[1])
      BY <1>1, <1>2, <3>1, <3>3 DEF Followed, SocketIsUpToDate
    <3>. QED
      BY <3>2, <3>3
  <2>3. ASSUME NEW i \in 1 .. Len(frames'), ~Additive(frames'[i]),
               \A k \in i + 1 .. Len(frames') : Additive(frames'[k])
        PROVE  frames'[i].n = Len(log)
    <3>1. i + 1 \in 1 .. Len(frames) /\ frames'[i] = frames[i + 1]
      BY <1>1
    <3>2. \A k \in (i + 1) + 1 .. Len(frames) : Additive(frames[k])
      BY <2>1, <2>3
    <3>. QED
      BY <2>3, <3>1, <3>2 DEF Followed, SocketIsUpToDate
  <2>. QED
    BY <2>2, <2>3
<1>. QED
  BY <1>2, <1>3, <1>4, <1>5, <1>6, <1>7 DEF Followed

LEMMA InitFollowed == Init => Followed
<1> SUFFICES ASSUME Init PROVE Followed
  OBVIOUS
<1>1. /\ Len(log) = 0 /\ Len(frames) = 0 /\ upTo = 0 /\ board = NoBoard /\ OpenBoard = NoBoard
      /\ reply = NoReply
  BY DEF Init, StationInit, OpenBoard, NoBoard, EntryFor, Opens
<1>2. Feed!BoardAfter(log, 0) = NoBoard
  BY UnheardIsAbsent DEF Feed!BoardAfter, NoBoard
<1>3. LastsExist
  BY <1>1 DEF LastsExist
<1>4. MomentsAreTrue
  BY <1>1, <1>2 DEF MomentsAreTrue
<1>. QED
  BY <1>1, <1>3, <1>4 DEF Followed, SnapshotsAreTrue, FramesFollowOn, SocketIsUpToDate

\* Every step keeps to the log.
LEMMA NextFollowed ==
    ASSUME JoinSnapshot = TRUE
    PROVE  TypeOK /\ Control /\ Delivery /\ Followed /\ [Next]_vars => Followed'
<1> SUFFICES ASSUME TypeOK, Control, Delivery, Followed, [Next]_vars PROVE Followed'
  OBVIOUS
<1>. USE DEF historyVars, stateVars, backoffVars, taskVars, stationVars
<1>1. CASE Retry
  BY <1>1, DropFollowedOn DEF Retry
<1>2. CASE Refused
  BY <1>2, DropFollowedOn DEF Refused
<1>3. CASE Unwind
  BY <1>3, DropFollowedOn DEF Unwind
<1>4. CASE Start \/ SocketOpens \/ Wake \/ StopReturns \/ SocketHolds \/ Stop \/ UNCHANGED vars
  BY <1>4, QuietFollowedOn DEF Start, SocketOpens, Wake, StopReturns, SocketHolds, Stop, vars
<1>5. CASE TaskStep
  BY <1>1, <1>2, <1>3, <1>4, <1>5, SeedFollowedOn, ReceiveFollowedOn
  DEF TaskStep, SeedRefused, SeedFails, OpenRefused, OpenFails, StreamEnds, HeartbeatFails
<1>. QED
  BY <1>4, <1>5, StationFollowedOn, SeedFollowedOn, SubscribeFollowedOn DEF Next

\* With a snapshot on join, everything held or on its way is the log up to a
\* moment.
LEMMA FollowedInvariant ==
    ASSUME JoinSnapshot = TRUE
    PROVE  Spec => []Followed
BY InitFollowed, NextFollowed, TypeCorrect, ControlInvariant, DeliveryInvariant, PTL DEF Spec

------------------------------------------------------------------------------
(* The refinement. *)

\* An entity that is told to be shown the board shows that moment of the log.
LEMMA ShownMoment ==
    ASSUME NEW p, board = Feed!BoardAfter(log, p)
    PROVE  Render(TRUE, board) = Feed!Showing(p)
BY DEF Render, Feed!Showing

LEMMA UnknownIsNotConnected == \A b : Render(FALSE, b) = Feed!Unknown
BY DEF Render, Feed!Unknown, Feed!NoBoard, NoBoard

\* Whatever clears the connection only makes the entities unknown.
LEMMA DisconnectSeen ==
    ASSUME Control, SetConnected(FALSE), UNCHANGED <<log, bus, board, upTo>>
    PROVE  [Feed!Next]_Feed!feedVars
<1>1. published' = published \/ published' = Feed!Unknown
  BY UnknownIsNotConnected DEF SetConnected, Notify
<1>. QED
  BY <1>1 DEF Feed!Next, Feed!Disappear, Feed!feedVars

\* A transition is heard, a snapshot caught up with, anything else ignored.
LEMMA ReceiveSeen ==
    ASSUME TypeOK, Control, Delivery, Followed, Receive
    PROVE  [Feed!Next]_Feed!feedVars
<1>1. /\ connected = TRUE /\ connected' = TRUE /\ log' = log
      /\ published = Render(connected, board)
  BY DEF Receive, Control, PublishedIsCurrent
<1>2. published.available = TRUE
  BY <1>1 DEF Render
<1>3. Control'
  BY NextControl DEF Next, TaskStep
<1>4. published' = Render(TRUE, board')
  BY <1>1, <1>3 DEF Control, PublishedIsCurrent
<1>5. CASE Additive(frames[1])
  <2>1. ~IsTransition(frames[1]) /\ frames[1].event # "snapshot"
    BY <1>5 DEF Additive, IsTransition, Events, Opens, Closes
  <2>2. UNCHANGED <<published, bus, upTo>>
    BY <1>5, <2>1, ReceiveTells
  <2>. QED
    BY <1>1, <2>2 DEF Feed!feedVars
<1>6. CASE ~Additive(frames[1])
  <2>1. board' = Feed!BoardAfter(log', upTo') /\ upTo' \in upTo .. Len(log)
    BY <1>1, <1>6, ReceiveFollowedOn
  <2>2. published' = [available |-> TRUE, alerts |-> Feed!BoardAfter(log', upTo')]
    BY <1>4, <2>1 DEF Render
  <2>3. upTo \in Nat /\ Len(log) \in Nat
    BY LenProperties DEF TypeOK, StationTypeOK
  <2>4. CASE UNCHANGED bus
    BY <1>1, <1>2, <2>1, <2>2, <2>3, <2>4 DEF Feed!Next, Feed!CatchUp, Feed!Showing
  <2>5. CASE IsTransition(frames[1])
    <3>1. frames[1].event # "snapshot"
      BY <2>5 DEF IsTransition, Events, Opens, Closes
    <3>2. /\ upTo' = upTo + 1 /\ frames[1].n = upTo + 1
          /\ bus' = Append(bus, [event |-> frames[1].event, alert |-> frames[1].alert,
                                 n |-> frames[1].n,
                                 seen |-> published'.alerts[frames[1].alert]])
      BY <1>6, <3>1, ReceiveTells
    <3>3. [i \in 1 .. Len(bus') |-> bus'[i].n] =
             Append([i \in 1 .. Len(bus) |-> bus[i].n], upTo + 1)
      BY <3>2, AppendProperties, LenProperties DEF TypeOK
    <3>4. upTo < Len(log) /\ upTo' = upTo + 1 /\ UNCHANGED log
      BY <1>1, <2>1, <2>3, <3>2
    <3>5. Feed!Hear
      BY <1>2, <2>2, <3>2, <3>3, <3>4, Zenon DEF Feed!Hear, Feed!Showing
    <3>. QED
      BY <3>5 DEF Feed!Next
  <2>. QED
    BY <1>6, <2>4, <2>5, ReceiveTells
<1>. QED
  BY <1>5, <1>6

\* A transition of the station happens in the feed; nothing else of the
\* station's is seen there.
LEMMA StationSeenInFeed == StationStep => [Feed!Next]_Feed!feedVars
<1> SUFFICES ASSUME StationStep PROVE [Feed!Next]_Feed!feedVars
  OBVIOUS
<1>1. StationNext /\ UNCHANGED <<published, bus, upTo>>
  BY DEF StationStep, stateVars, historyVars
<1>2. ASSUME NEW a \in Alerts, NEW e \in Events, Transition(a, e)
      PROVE  Feed!Happen(a, e)
  BY <1>1, <1>2 DEF Transition, Feed!Happen
<1>3. CASE UNCHANGED log
  BY <1>1, <1>3 DEF Feed!feedVars
<1>4. Feed!Events = Events
  BY DEF Feed!Events, Events, Feed!Opens, Opens, Feed!Closes, Closes
<1>. QED
  BY <1>1, <1>2, <1>3, <1>4
  DEF StationNext, SendAdditive, ChangeHealth, LoseSocket, Revoke, Feed!Next

\* The seed is taken up while nobody can see it; a connected socket shows it.
LEMMA SeedSeen ==
    ASSUME TypeOK, Control, Followed, SeedArrives
    PROVE  [Feed!Next]_Feed!feedVars
<1>1. connected = FALSE /\ published = Render(connected, board)
  BY DEF SeedArrives, Control, PublishedIsCurrent
<1>2. UNCHANGED <<log, bus>> /\ published' = Render(FALSE, reply) /\ upTo' = seededAt
  BY <1>1 DEF SeedArrives, Notify, stationVars
<1>3. published' = published /\ published.available = FALSE
  BY <1>1, <1>2 DEF Render
<1>4. upTo' \in upTo .. Len(log)
  BY <1>2 DEF SeedArrives, Followed, MomentsAreTrue
<1>. QED
  BY <1>2, <1>3, <1>4 DEF Feed!Next, Feed!CatchUp

LEMMA OpeningSeen ==
    ASSUME Control, Followed, SocketOpens
    PROVE  [Feed!Next]_Feed!feedVars
<1>1. connected = FALSE /\ published = Render(connected, board) /\ published.available = FALSE
  BY DEF SocketOpens, Control, PublishedIsCurrent, Render
<1>2. UNCHANGED <<log, bus, board, upTo>> /\ published' = Render(TRUE, board)
  BY <1>1 DEF SocketOpens, SetConnected, Notify, stationVars, historyVars
<1>3. published' = Feed!Showing(upTo)
  BY <1>2, ShownMoment DEF Followed, MomentsAreTrue
<1>. QED
  BY <1>1, <1>2, <1>3 DEF Feed!Next, Feed!Appear

\* Every step of the connection is a step of the feed, or is not seen there.
LEMMA StepSeenInFeed ==
    ASSUME JoinSnapshot = TRUE
    PROVE  TypeOK /\ Control /\ Delivery /\ Followed /\ [Next]_vars => [Feed!Next]_Feed!feedVars
<1> SUFFICES ASSUME TypeOK, Control, Delivery, Followed, [Next]_vars
             PROVE  [Feed!Next]_Feed!feedVars
  OBVIOUS
<1>1. CASE UNCHANGED <<log, upTo, published, bus>>
  BY <1>1 DEF Feed!feedVars
<1>2. CASE Retry \/ Refused \/ Unwind \/ StopReturns
  <2>1. SetConnected(FALSE) /\ UNCHANGED <<log, bus, board, upTo>>
    BY <1>2 DEF Retry, Refused, Unwind, StopReturns, DropSocket, historyVars, stationVars
  <2>. QED
    BY <2>1, DisconnectSeen
<1>3. CASE TaskStep
  <2>1. Start \/ Wake => UNCHANGED <<log, upTo, published, bus>>
    BY DEF Start, Wake, stationVars, stateVars, historyVars
  <2>. QED
    BY <1>1, <1>2, <1>3, <2>1, SeedSeen, OpeningSeen, ReceiveSeen
    DEF TaskStep, SeedRefused, SeedFails, OpenRefused, OpenFails, StreamEnds, HeartbeatFails
<1>4. AnswerSeed \/ Subscribe \/ SocketHolds \/ Stop \/ UNCHANGED vars
         => UNCHANGED <<log, upTo, published, bus>>
  BY DEF AnswerSeed, Subscribe, AcceptSocket, SocketHolds, Stop, vars, stationVars, stateVars,
     historyVars
<1>. QED
  BY <1>1, <1>3, <1>4, StationSeenInFeed DEF Next

LEMMA InitSeenInFeed == Init => Feed!Init
<1> SUFFICES ASSUME Init PROVE Feed!Init
  OBVIOUS
<1>1. [i \in 1 .. Len(bus) |-> bus[i].n] = <<>>
  BY DEF Init
<1>. QED
  BY <1>1, UnknownIsNotConnected DEF Init, StationInit, Feed!Init

\* THEOREM.  What connection.py shows and fires of a station that sends a
\* snapshot on join is one reading of that station's history, moment by
\* moment and never backwards: each step forward is announced, or is made
\* while catching up and not announced.
THEOREM ConnectionIsFeed ==
    ASSUME JoinSnapshot = TRUE
    PROVE  Spec => ImplementsFeed
<1>1. Init => Feed!Init
  BY InitSeenInFeed
<1>2. TypeOK /\ Control /\ Delivery /\ Followed /\ [Next]_vars => [Feed!Next]_Feed!feedVars
  BY StepSeenInFeed
<1>3. Spec => []Followed
  BY FollowedInvariant
<1>. QED
  BY <1>1, <1>2, <1>3, TypeCorrect, ControlInvariant, DeliveryInvariant, PTL
  DEF Spec, ImplementsFeed, Feed!Spec
==============================================================================
