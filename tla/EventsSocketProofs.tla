-------------------------- MODULE EventsSocketProofs --------------------------
(****************************************************************************)
(* What EventsSocket guarantees for any heartbeat and any time limits.      *)
(****************************************************************************)
EXTENDS EventsSocket, TLAPS

USE SocketAssumption

LEMMA InitHolds == Init => Inductive
BY DEF Init, Inductive, TypeOK, NoTimerLeft, TimersCount, Results

\* However a generator comes to its end.
LEMMA FinallyHolds ==
    ASSUME Inductive, NEW r \in Results, Finally(r), silence' \in Nat
    PROVE  Inductive'
BY DEF Finally, TimersOff, Inductive, TypeOK, NoTimerLeft, TimersCount

LEMMA StepHolds == Inductive /\ [Next]_vars => Inductive'
<1> SUFFICES ASSUME Inductive, [Next]_vars PROVE Inductive'
  OBVIOUS
<1>. USE DEF Inductive, TypeOK, NoTimerLeft, TimersCount
<1>1. CASE Open
  BY <1>1 DEF Open, Heard
<1>2. CASE Rejected \/ HandshakeTimesOut \/ StreamEnds \/ ProtocolError \/ CloseEnds
  <2>1. silence' \in Nat
    <3>1. silence' = silence \/ silence' = 0
      BY <1>2, Zenon DEF Rejected, HandshakeTimesOut, StreamEnds, ProtocolError, CloseEnds
    <3>. QED
      BY <3>1
  <2>2. \E r \in Results : Finally(r)
    BY <1>2 DEF Rejected, HandshakeTimesOut, StreamEnds, ProtocolError, CloseEnds, Results
  <2>. QED
    BY <2>1, <2>2, FinallyHolds
<1>3. CASE Message
  BY <1>3 DEF Message, Heard
<1>4. CASE SendPing
  BY <1>4 DEF SendPing
<1>5. CASE PongOverdue
  <2>1. CASE phase = "reading"
    BY <1>5, <2>1, FinallyHolds DEF PongOverdue, Results
  <2>2. CASE phase # "reading"
    BY <1>5, <2>2 DEF PongOverdue
  <2>. QED
    BY <2>1, <2>2
<1>6. CASE LetGo
  <2>1. CASE phase = "reading"
    BY <1>6, <2>1 DEF LetGo, TimersOff, Results
  <2>2. CASE phase = "handshake"
    BY <1>6, <2>2, FinallyHolds DEF LetGo, Results
  <2>. QED
    BY <1>6, <2>1, <2>2 DEF LetGo
<1>7. CASE MessageWhileClosing
  BY <1>7 DEF MessageWhileClosing, Heard
<1>8. CASE Again
  BY <1>8 DEF Again, Results
<1>9. CASE ChangeLink
  BY <1>9 DEF ChangeLink
<1>10. CASE Tick
  <2>1. \A t \in Nat \cup {Off} : t # 0 =>
           /\ Less(t) \in Nat \cup {Off}
           /\ Less(t) = Off <=> t = Off
           /\ t # Off => Less(t) = t - 1
    BY DEF Less
  <2>2. TypeOK'
    BY <1>10, <2>1 DEF Tick
  <2>3. NoTimerLeft'
    BY <1>10, <2>1 DEF Tick
  <2>4. TimersCount'
    BY <1>10, <2>1 DEF Tick
  <2>. QED
    BY <2>2, <2>3, <2>4
<1>11. CASE UNCHANGED vars
  BY <1>11 DEF vars
<1>. QED
  BY <1>1, <1>2, <1>3, <1>4, <1>5, <1>6, <1>7, <1>8, <1>9, <1>10, <1>11 DEF Next

\* The two timers settle how long a socket that is read has been silent.
THEOREM InductiveInvariant == Spec => []Inductive
BY InitHolds, StepHolds, PTL DEF Spec

\* The heartbeat and the time limits of api.py keep their ranges.
THEOREM TypeCorrect == Spec => []TypeOK
<1>1. Inductive => TypeOK
  BY DEF Inductive
<1>. QED
  BY <1>1, InductiveInvariant, PTL

\* _cancel_heartbeat's promise: no reconnect leaves a timer behind.
THEOREM NothingLeftBehind == Spec => []NoTimerLeft
<1>1. Inductive => NoTimerLeft
  BY DEF Inductive
<1>. QED
  BY <1>1, InductiveInvariant, PTL

\* A socket is not read in silence for longer than its two timers run.
LEMMA SilenceIsBounded ==
    ASSUME Inductive, phase = "reading"
    PROVE  silence <= Heartbeat + PongLimit
<1>1. CASE ping # Off
  BY <1>1 DEF Inductive, TypeOK, TimersCount
<1>2. CASE ping = Off
  BY <1>2 DEF Inductive, TypeOK, TimersCount
<1>. QED
  BY <1>1, <1>2

\* A dead link is given up after a heartbeat and its pong, and a quiet one
\* never.
THEOREM OnlySilenceEnds == Spec => SilenceDecides
<1> DEFINE Bounded == phase = "reading" => silence <= Heartbeat + PongLimit
           Blamed == phase = "reading" /\ result' = "CannotConnect" =>
                         silence' = 0 \/ silence = Heartbeat + PongLimit
<1>1. Inductive => Bounded
  BY SilenceIsBounded
<1>2. Inductive /\ [Next]_vars => [Blamed]_vars
  <2> SUFFICES ASSUME Inductive, Next, phase = "reading", result' = "CannotConnect"
               PROVE  silence' = 0 \/ silence = Heartbeat + PongLimit
    OBVIOUS
  <2>1. CASE PongOverdue
    BY <2>1 DEF PongOverdue, Inductive, TypeOK, TimersCount
  <2>2. CASE ProtocolError
    BY <2>2 DEF ProtocolError
  <2>3. CASE ~PongOverdue /\ ~ProtocolError
    BY <2>3 DEF Inductive, TimersCount, Next, Open, Rejected, HandshakeTimesOut,
       Message, StreamEnds, SendPing, LetGo, MessageWhileClosing, CloseEnds, Again,
       ChangeLink, Tick, Finally
  <2>. QED
    BY <2>1, <2>2, <2>3
<1>3. Bounded /\ Bounded' /\ [Blamed]_vars =>
         [phase = "reading" =>
             /\ phase' = "reading" => silence' <= Heartbeat + PongLimit
             /\ result' = "CannotConnect" =>
                   silence' = 0 \/ silence = Heartbeat + PongLimit]_vars
  OBVIOUS
<1>. QED
  BY <1>1, <1>2, <1>3, InductiveInvariant, PTL DEF Spec, SilenceDecides
==============================================================================
