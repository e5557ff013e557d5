---------------------------- MODULE BackoffProofs ----------------------------
(****************************************************************************)
(* The delays of Backoff, for any start, cap and number of failures that    *)
(* PaceAssumption and PowerAssumption allow.                                *)
(****************************************************************************)
EXTENDS Backoff, Integers, SequenceTheorems, TLAPS

\* What the doubling rests on: the failures are within the table of powers.
Counting ==
    /\ failures \in 0 .. MaxFailures
    /\ DelaysDouble

\* One more failure doubles the delay, up to the cap.
LEMMA DelayDoubles ==
    ASSUME NEW n \in 0 .. MaxFailures
    PROVE  Delay(Least(n + 1, MaxFailures)) = Least(Maximum, 2 * Delay(n))
<1>. DEFINE p == Start * Power[n]
<1>1. Power[n] \in Nat /\ p \in Nat /\ Maximum \in Nat
  BY PaceAssumption, PowerAssumption
<1>2. CASE n < MaxFailures
  <2>1. Least(n + 1, MaxFailures) = n + 1
    BY <1>2, PaceAssumption DEF Least
  <2>2. Power[n + 1] = 2 * Power[n]
    BY <1>2, PowerAssumption, PaceAssumption
  <2>3. Start * Power[n + 1] = 2 * p
    BY <1>1, <2>2, PaceAssumption
  <2>4. Delay(n) = Least(Maximum, p) /\ Delay(n + 1) = Least(Maximum, 2 * p)
    BY <2>3 DEF Delay
  <2>5. ASSUME NEW q \in Nat
        PROVE  Least(Maximum, 2 * q) = Least(Maximum, 2 * Least(Maximum, q))
    BY <1>1 DEF Least
  <2>6. Least(Maximum, 2 * p) = Least(Maximum, 2 * Least(Maximum, p))
    <3>. HIDE DEF p
    <3>. QED
      BY <1>1, <2>5
  <2>. QED
    BY <2>1, <2>4, <2>6
<1>3. CASE n = MaxFailures
  <2>1. Least(n + 1, MaxFailures) = n
    BY <1>3, PaceAssumption DEF Least
  <2>2. p >= Maximum
    BY <1>3, PowerAssumption
  <2>. QED
    BY <1>1, <2>1, <2>2 DEF Delay, Least
<1>. QED
  BY <1>2, <1>3, PaceAssumption

LEMMA FirstDelay == 0 \in 0 .. MaxFailures /\ Delay(0) = Start
BY PaceAssumption, PowerAssumption DEF Delay, Least

LEMMA InitCounting == Init => Counting
BY FirstDelay DEF Init, Counting, DelaysDouble

LEMMA NextCounting == Counting /\ [Next]_vars => Counting'
<1> SUFFICES ASSUME Counting, [Next]_vars PROVE Counting'
  OBVIOUS
<1>1. CASE Fail
  <2> DEFINE counted == IF Held THEN 0 ELSE failures
  <2>1. counted \in 0 .. MaxFailures
    BY FirstDelay DEF Counting
  <2>2. Delay(counted) = IF Held THEN Start ELSE expected
    BY FirstDelay DEF Counting, DelaysDouble
  <2>3. Delay(Least(counted + 1, MaxFailures)) = Least(Maximum, 2 * Delay(counted))
    BY <2>1, DelayDoubles
  <2>4. failures' = Least(counted + 1, MaxFailures)
    BY <1>1 DEF Fail
  <2>5. expected' = Least(Maximum, 2 * Delay(counted))
    BY <1>1, <2>2 DEF Fail
  <2>6. failures' \in 0 .. MaxFailures
    BY <2>1, <2>4, PaceAssumption DEF Least
  <2>. QED
    BY <2>3, <2>4, <2>5, <2>6 DEF Counting, DelaysDouble, Delay
<1>2. CASE Linger \/ Connect \/ Retry \/ UNCHANGED vars
  BY <1>2 DEF Linger, Connect, Retry, vars, Counting, DelaysDouble, Delay
<1>. QED
  BY <1>1, <1>2 DEF Next

\* Capping the exponent does not change a delay: the loop waits as plain
\* doubling up to BACKOFF_MAX would have it, after any number of failures.
THEOREM CapIsInvisible == Spec => []DelaysDouble
<1>1. Counting => DelaysDouble
  BY DEF Counting
<1>. QED
  BY <1>1, InitCounting, NextCounting, PTL DEF Spec

------------------------------------------------------------------------------
(* Types. *)

\* The lesser of two numbers is one of them.
LEMMA LeastIsNoMore ==
    ASSUME NEW x \in Nat, NEW y \in Nat
    PROVE  Least(x, y) \in 0 .. x /\ Least(x, y) \in 0 .. y
BY DEF Least

\* What stays in the window is younger than the window is long.
LEMMA StayersAreYoung ==
    ASSUME TypeOK, NEW k \in 0 .. Len(ages), NEW d \in Nat, Leave(k, d)
    PROVE  Stay(k, d) \in Seq(0 .. Maximum - 1)
<1>. DEFINE n == Len(ages) - k
<1>1. n \in Nat /\ Len(ages) \in Nat /\ Maximum \in Nat
  BY PaceAssumption DEF TypeOK
<1>2. ASSUME NEW i \in 1 .. n PROVE ages[k + i] + d \in 0 .. Maximum - 1
  <2>1. k + i \in 1 .. Len(ages) /\ ~(k + i <= k)
    BY <1>1
  <2>2. ages[k + i] \in 0 .. Maximum - 1
    <3>. ages \in Seq(0 .. Maximum - 1)
      BY DEF TypeOK
    <3>. QED
      BY <2>1, ElementOfSeq
  <2>. QED
    BY <1>1, <2>1, <2>2 DEF Leave
<1>3. Stay(k, d) = [i \in 1 .. n |-> ages[k + i] + d]
  BY DEF Stay
<1>. HIDE DEF n
<1>. QED
  BY <1>1, <1>2, <1>3

\* Before the first attempt fails.
LEMMA InitIsTyped == Init => TypeOK
<1>1. <<0>> \in Seq(0 .. Maximum - 1)
  BY PaceAssumption
<1>. QED
  BY <1>1, PaceAssumption DEF Init, TypeOK

\* Every step keeps the types.
LEMMA NextIsTyped == TypeOK /\ [Next]_vars => TypeOK'
<1> SUFFICES ASSUME TypeOK, [Next]_vars PROVE TypeOK'
  OBVIOUS
<1>. USE PaceAssumption
<1>1. CASE Linger
  <2>1. PICK d \in Durations : Pass(d)
    BY <1>1 DEF Linger
  <2>2. ages' \in Seq(0 .. Maximum - 1)
    BY <2>1, StayersAreYoung DEF Pass
  <2>3. connectedAt' \in 0 .. Maximum \cup {Never}
    <3>1. d \in Nat /\ connectedAt' = IF connectedAt = Never THEN Never ELSE Older(connectedAt, d)
      BY <2>1 DEF Pass
    <3>. QED
      BY <3>1 DEF Older, Least, TypeOK
  <2>. QED
    BY <1>1, <2>2, <2>3 DEF Linger, TypeOK
<1>2. CASE Connect
  BY <1>2 DEF Connect, TypeOK
<1>3. CASE Fail
  <2>. DEFINE counted == IF Held THEN 0 ELSE failures
  <2>1. counted \in 0 .. MaxFailures
    BY DEF TypeOK
  <2>2. /\ failures' = Least(counted + 1, MaxFailures) /\ base' = Delay(counted)
        /\ expected' = Least(Maximum, 2 * (IF Held THEN Start ELSE expected))
        /\ left' \in {base' \div 2, base'}
        /\ pc' = "waiting" /\ connectedAt' = Never /\ UNCHANGED ages
    BY <1>3 DEF Fail
  <2>3. failures' \in 0 .. MaxFailures
    <3>. HIDE DEF counted
    <3>. QED
      BY <2>1, <2>2 DEF Least
  <2>4. base' \in 0 .. Maximum
    <3>1. Power[counted] \in Nat
      BY <2>1, PowerAssumption
    <3>2. Start * Power[counted] \in Nat
      BY <3>1
    <3>. QED
      BY <2>2, <3>2, LeastIsNoMore DEF Delay
  <2>5. left' \in 0 .. Maximum
    BY <2>2, <2>4
  <2>6. expected' \in Start .. Maximum
    BY <2>2 DEF TypeOK, Least
  <2>. QED
    BY <2>2, <2>3, <2>4, <2>5, <2>6 DEF TypeOK
<1>4. CASE Retry
  <2>1. PICK k \in 0 .. Len(ages) : Leave(k, left) /\ ages' = Append(Stay(k, left), 0)
    BY <1>4 DEF Retry
  <2>2. Stay(k, left) \in Seq(0 .. Maximum - 1)
    BY <2>1, StayersAreYoung DEF TypeOK
  <2>3. ages' \in Seq(0 .. Maximum - 1)
    BY <2>1, <2>2
  <2>. QED
    BY <1>4, <2>3 DEF Retry, TypeOK
<1>5. CASE UNCHANGED vars
  BY <1>5 DEF vars, TypeOK
<1>. QED
  BY <1>1, <1>2, <1>3, <1>4, <1>5 DEF Next

\* THEOREM.  However long the station is away, _failures stays within the
\* table of powers and no delay of _next_backoff is longer than BACKOFF_MAX.
THEOREM TypeCorrect == Spec => []TypeOK
BY InitIsTyped, NextIsTyped, PTL DEF Spec

------------------------------------------------------------------------------
(* How often the station is tried. *)

\* The powers go past the cap by more than the first delay: 64 against 60 and
\* 1 in connection.py.
PastTheCap == Start * Power[MaxFailures] >= Maximum + Start

\* The halves of the two constants, and the least a wait can take.
LEMMA Halves ==
    /\ Start \div 2 \in Nat /\ Start = 2 * (Start \div 2)
    /\ Maximum \div 2 \in Nat /\ Maximum = 2 * (Maximum \div 2)
BY PaceAssumption

LEMMA HalfDelay ==
    ASSUME NEW j \in 0 .. MaxFailures
    PROVE  /\ Delay(j) \in Nat
           /\ Delay(j) \div 2 = Least(Maximum \div 2, (Start \div 2) * Power[j])
<1>. DEFINE h == Start \div 2
            m == Maximum \div 2
            p == h * Power[j]
<1>1. /\ h \in Nat /\ Start = 2 * h /\ m \in Nat /\ Maximum = 2 * m /\ Power[j] \in Nat
  BY Halves, PowerAssumption
<1>2. p \in Nat /\ Start * Power[j] = 2 * p
  <2>. HIDE DEF h
  <2>. QED
    BY <1>1
<1>3. Delay(j) = Least(2 * m, 2 * p)
  BY <1>1, <1>2 DEF Delay
<1>. HIDE DEF m, p
<1>4. Delay(j) \in Nat /\ Delay(j) \div 2 = Least(m, p)
  BY <1>1, <1>2, <1>3 DEF Least
<1>. QED
  BY <1>4 DEF m, p

\* A wait after j failures takes what the next step of the backoff asks for.
LEMMA WaitIsSpent ==
    ASSUME PastTheCap, NEW j \in 0 .. MaxFailures
    PROVE  /\ Spent(j) \in Int /\ Spent(j + 1) \in Int
           /\ Spent(j + 1) <= Spent(j) + (Delay(j) \div 2)
<1>. DEFINE h == Start \div 2
            m == Maximum \div 2
            p == h * Power[j]
<1>1. /\ h \in Nat /\ Start = 2 * h /\ m \in Nat /\ Maximum = 2 * m /\ Power[j] \in Nat
      /\ MaxFailures \in Nat
  BY Halves, PowerAssumption, PaceAssumption
<1>. HIDE DEF h, m
<1>2. p \in Nat /\ h * (Power[j] - 1) = p - h /\ Start * Power[j] = 2 * p
  BY <1>1
<1>. HIDE DEF p
<1>3. Spent(j) = Least(m, p - h) /\ Delay(j) \div 2 = Least(m, p)
  BY <1>1, <1>2, HalfDelay DEF Spent, h, m, p
<1>4. m >= h
  BY <1>1, PaceAssumption
<1>5. CASE j < MaxFailures
  <2>1. Power[j + 1] = 2 * Power[j] /\ j + 1 <= MaxFailures
    BY <1>1, <1>5, PowerAssumption
  <2>2. h * (Power[j + 1] - 1) = 2 * p - h
    BY <1>1, <2>1 DEF p
  <2>3. Spent(j + 1) = Least(m, 2 * p - h)
    BY <1>1, <2>1, <2>2 DEF Spent, h, m
  <2>. QED
    BY <1>1, <1>2, <1>3, <1>4, <2>3 DEF Least
<1>6. CASE j = MaxFailures
  <2>1. Spent(j + 1) = 2 * m
    BY <1>1, <1>6 DEF Spent
  <2>2. 2 * p >= 2 * m + 2 * h
    BY <1>1, <1>2, <1>6 DEF PastTheCap
  <2>. QED
    BY <1>1, <1>2, <1>3, <2>1, <2>2 DEF Least
<1>7. j < MaxFailures \/ j = MaxFailures
  BY <1>1
<1>. QED
  BY <1>5, <1>6, <1>7

\* What the attempts in the window have taken fits in it.
LEMMA SpacingBounds == TypeOK /\ Spacing => AttemptsAreApart
<1> SUFFICES ASSUME TypeOK, Spacing, Len(ages) > MaxFailures + 1 PROVE FALSE
  BY LenProperties, PaceAssumption DEF AttemptsAreApart, TypeOK
<1>1. Len(ages) \in Nat /\ MaxFailures \in Nat /\ 1 \in 1 .. Len(ages) /\ Maximum \in Nat
  BY LenProperties, PaceAssumption DEF TypeOK
<1>2. Spent(Len(ages) - 1) = Maximum
  BY <1>1 DEF Spent
<1>3. ages[1] \in 0 .. Maximum - 1
  BY <1>1, ElementOfSeq DEF TypeOK
<1>4. Spent(Len(ages) - 1) <= ages[1]
  BY <1>1 DEF Spacing
<1>. QED
  BY <1>1, <1>2, <1>3, <1>4

\* Those that stay in the window are as far apart as they were.
LEMMA StayersAreApart ==
    ASSUME PastTheCap, TypeOK, Spacing, NEW k \in 0 .. Len(ages), NEW d \in Nat, Leave(k, d)
    PROVE  /\ Len(Stay(k, d)) = Len(ages) - k /\ Len(ages) \in Nat
           /\ \A i \in 1 .. Len(ages) - k :
                 /\ k + i \in 1 .. Len(ages) /\ ages[k + i] \in Nat
                 /\ Stay(k, d)[i] = ages[k + i] + d
                 /\ Spent(Len(ages) - k - i) <= ages[k + i]
                 /\ Spent(Len(ages) - k - i) \in Int
<1>1. Len(ages) \in Nat /\ Len(ages) - k \in Nat /\ MaxFailures \in Nat
  BY LenProperties, PaceAssumption DEF TypeOK
<1>2. Len(Stay(k, d)) = Len(ages) - k
  BY <1>1 DEF Stay
<1>3. ASSUME NEW i \in 1 .. Len(ages) - k
      PROVE  /\ k + i \in 1 .. Len(ages) /\ ages[k + i] \in Nat
             /\ Stay(k, d)[i] = ages[k + i] + d
             /\ Spent(Len(ages) - k - i) <= ages[k + i]
             /\ Spent(Len(ages) - k - i) \in Int
  <2>1. k + i \in 1 .. Len(ages) /\ Len(ages) - (k + i) = Len(ages) - k - i
    BY <1>1
  <2>2. ages[k + i] \in 0 .. Maximum - 1 /\ Maximum \in Nat
    BY <2>1, ElementOfSeq, PaceAssumption DEF TypeOK
  <2>3. Spent(Len(ages) - (k + i)) <= ages[k + i]
    BY <2>1 DEF Spacing
  <2>4. Len(ages) - k - i \in 0 .. MaxFailures
    BY <1>1, <2>1, SpacingBounds DEF AttemptsAreApart
  <2>5. Spent(Len(ages) - k - i) \in Int
    BY <2>4, WaitIsSpent
  <2>. QED
    BY <2>1, <2>2, <2>3, <2>5 DEF Stay
<1>. QED
  BY <1>1, <1>2, <1>3

LEMMA InitSpacing == Init => Spacing
<1> SUFFICES ASSUME Init PROVE Spacing
  OBVIOUS
<1>1. Len(ages) = 1 /\ ages[1] = 0
  BY DEF Init
<1>2. Spent(0) <= 0
  BY Halves, FirstDelay, PowerAssumption, PaceAssumption DEF Spent, Least
<1>. QED
  BY <1>1, <1>2, FirstDelay, PaceAssumption DEF Init, Spacing

LEMMA LingerSpacing ==
    ASSUME PastTheCap, TypeOK, Spacing, Linger
    PROVE  Spacing'
<1>1. PICK d \in Durations : Pass(d)
  BY DEF Linger
<1>2. d \in Nat /\ Maximum \in Nat
  BY PaceAssumption
<1>3. PICK k \in 0 .. Len(ages) : Leave(k, d) /\ ages' = Stay(k, d)
  BY <1>1 DEF Pass
<1>4. /\ Len(ages') = Len(ages) - k /\ Len(ages) \in Nat
      /\ \A i \in 1 .. Len(ages) - k :
            /\ k + i \in 1 .. Len(ages) /\ ages[k + i] \in Nat
            /\ ages'[i] = ages[k + i] + d
            /\ Spent(Len(ages) - k - i) <= ages[k + i]
            /\ Spent(Len(ages) - k - i) \in Int
  BY <1>2, <1>3, StayersAreApart
<1>5. \A i \in 1 .. Len(ages') : Spent(Len(ages') - i) <= ages'[i]
  BY <1>2, <1>4
<1>6. pc' = pc /\ pc # "waiting" /\ expected' = expected
  BY DEF Linger
<1>7. connectedAt' # Never => pc' = "up" /\ \A i \in 1 .. Len(ages') : connectedAt' <= ages'[i]
  <2>. SUFFICES ASSUME connectedAt' # Never
                PROVE  pc' = "up" /\ \A i \in 1 .. Len(ages') : connectedAt' <= ages'[i]
    OBVIOUS
  <2>1. connectedAt # Never /\ connectedAt' = Least(connectedAt + d, Maximum)
    BY <1>1 DEF Pass, Older
  <2>2. connectedAt \in Nat /\ connectedAt' <= connectedAt + d /\ connectedAt' \in Nat
    BY <1>2, <2>1 DEF TypeOK, Least
  <2>3. pc = "up" /\ \A i \in 1 .. Len(ages) : connectedAt <= ages[i]
    BY <2>1 DEF Spacing
  <2>4. ASSUME NEW i \in 1 .. Len(ages') PROVE connectedAt' <= ages'[i]
    <3>1. i \in 1 .. Len(ages) - k
      BY <1>4
    <3>2. k + i \in 1 .. Len(ages) /\ ages[k + i] \in Nat /\ ages'[i] = ages[k + i] + d
      BY <1>4, <3>1
    <3>3. connectedAt <= ages[k + i]
      BY <2>3, <3>2
    <3>. QED
      BY <1>2, <2>2, <3>2, <3>3
  <2>. QED
    BY <1>6, <2>3, <2>4
<1>8. \A j \in 0 .. MaxFailures : j < Len(ages') => Delay(j) <= expected
  BY <1>3, <1>4, PaceAssumption DEF Spacing
<1>. QED
  BY <1>5, <1>6, <1>7, <1>8 DEF Spacing, Delay

LEMMA FailSpacing ==
    ASSUME PastTheCap, TypeOK, Counting, Spacing, Fail
    PROVE  Spacing'
<1>1. Len(ages) \in Nat /\ Maximum \in Nat /\ Start \in Nat /\ MaxFailures \in Nat
  BY LenProperties, PaceAssumption DEF TypeOK
<1>2. CASE Held
  <2>1. Len(ages) = 0
    <3>. SUFFICES ASSUME Len(ages) # 0 PROVE FALSE
      OBVIOUS
    <3>1. 1 \in 1 .. Len(ages)
      BY <1>1
    <3>2. ages[1] \in 0 .. Maximum - 1
      BY <3>1, ElementOfSeq DEF TypeOK
    <3>3. connectedAt \in Nat /\ connectedAt >= Maximum /\ connectedAt <= ages[1]
      BY <1>2, <3>1 DEF Held, Spacing, TypeOK
    <3>. QED
      BY <1>1, <3>2, <3>3
  <2>2. pc' = "waiting" /\ connectedAt' = Never /\ ages' = ages /\ expected' = Least(Maximum, 2 * Start)
    BY <1>2 DEF Fail
  <2>3. Delay(0) <= expected'
    BY <1>1, <2>2, FirstDelay, PaceAssumption DEF Least
  <2>. QED
    BY <1>1, <2>1, <2>2, <2>3 DEF Spacing, Delay
<1>3. CASE ~Held
  <2>1. /\ pc' = "waiting" /\ connectedAt' = Never /\ ages' = ages
        /\ expected' = Least(Maximum, 2 * expected) /\ base' = Delay(failures)
        /\ left' \in {base' \div 2, base'} /\ expected \in Start .. Maximum
        /\ pc # "waiting"
    BY <1>3 DEF Fail, TypeOK
  <2>2. base' = expected
    BY <2>1 DEF Counting, DelaysDouble
  <2>3. ASSUME NEW j \in 0 .. Len(ages) - 1
        PROVE  Spent(j + 1) <= Spent(j) + left'
    <3>1. j \in 0 .. MaxFailures
      BY <1>1, SpacingBounds DEF AttemptsAreApart
    <3>2. Delay(j) <= expected /\ Delay(j) \in Nat
      BY <1>1, <3>1, HalfDelay DEF Spacing
    <3>3. Delay(j) \div 2 <= left' /\ left' \in Nat /\ Delay(j) \div 2 \in Nat
      BY <1>1, <2>1, <2>2, <3>2
    <3>4. /\ Spent(j) \in Int /\ Spent(j + 1) \in Int
          /\ Spent(j + 1) <= Spent(j) + (Delay(j) \div 2)
      BY <3>1, WaitIsSpent
    <3>. QED
      BY <3>3, <3>4
  <2>4. ASSUME NEW j \in 0 .. MaxFailures, j <= Len(ages)
        PROVE  Delay(j) <= expected'
    <3>1. CASE j = 0
      BY <1>1, <2>1, <3>1, FirstDelay, PaceAssumption DEF Least
    <3>2. CASE j # 0
      <4>. PICK i \in 0 .. MaxFailures : j = i + 1 /\ i < MaxFailures
        BY <1>1, <3>2
      <4>1. Delay(i) <= expected /\ Delay(i) \in Nat
        BY <1>1, <2>4, HalfDelay DEF Spacing
      <4>2. Delay(j) = Least(Maximum, 2 * Delay(i))
        <5>1. Least(i + 1, MaxFailures) = j
          BY <1>1 DEF Least
        <5>. QED
          BY <5>1, DelayDoubles
      <4>. QED
        BY <1>1, <2>1, <4>1, <4>2 DEF Least
    <3>. QED
      BY <3>1, <3>2
  <2>. QED
    BY <1>1, <2>1, <2>3, <2>4 DEF Spacing, Delay
<1>. QED
  BY <1>2, <1>3

LEMMA RetrySpacing ==
    ASSUME PastTheCap, TypeOK, Spacing, Retry
    PROVE  Spacing'
<1>1. PICK k \in 0 .. Len(ages) : Leave(k, left) /\ ages' = Append(Stay(k, left), 0)
  BY DEF Retry
<1>2. left \in Nat /\ MaxFailures \in Nat
  BY PaceAssumption DEF TypeOK
<1>3. /\ Len(Stay(k, left)) = Len(ages) - k /\ Len(ages) \in Nat
      /\ \A i \in 1 .. Len(ages) - k :
            /\ k + i \in 1 .. Len(ages) /\ ages[k + i] \in Nat
            /\ Stay(k, left)[i] = ages[k + i] + left
            /\ Spent(Len(ages) - k - i) <= ages[k + i]
            /\ Spent(Len(ages) - k - i) \in Int
  BY <1>1, <1>2, StayersAreApart
<1>4. Stay(k, left) \in Seq(0 .. Maximum - 1)
  BY <1>1, <1>2, StayersAreYoung
<1>5. /\ Len(ages') = Len(ages) - k + 1 /\ ages'[Len(ages')] = 0
      /\ \A i \in 1 .. Len(ages) - k : ages'[i] = ages[k + i] + left
  BY <1>1, <1>3, <1>4
<1>6. pc = "waiting" /\ pc' = "trying" /\ UNCHANGED <<connectedAt, expected>>
  BY DEF Retry
<1>7. connectedAt = Never
  BY <1>6 DEF Spacing
<1>8. ASSUME NEW i \in 1 .. Len(ages') PROVE Spent(Len(ages') - i) <= ages'[i]
  <2>1. CASE i = Len(ages')
    <3>1. Spent(0) <= 0
      BY Halves, FirstDelay, PowerAssumption, PaceAssumption DEF Spent, Least
    <3>. QED
      BY <1>3, <1>5, <2>1, <3>1
  <2>2. CASE i # Len(ages')
    <3>. DEFINE j == Len(ages) - k - i
    <3>1. i \in 1 .. Len(ages) - k /\ j \in 0 .. Len(ages) - 1 /\ Len(ages') - i = j + 1
      BY <1>3, <1>5, <2>2
    <3>2. Spent(j) <= ages[k + i] /\ Spent(j) \in Int /\ ages[k + i] \in Nat
      BY <1>3, <3>1
    <3>3. Spent(j + 1) <= Spent(j) + left
      BY <1>6, <3>1 DEF Spacing
    <3>4. Spent(j + 1) \in Int
      <4>1. j \in 0 .. MaxFailures
        BY <1>2, <1>3, <3>1, SpacingBounds DEF AttemptsAreApart
      <4>. QED
        BY <4>1, WaitIsSpent
    <3>5. ages'[i] = ages[k + i] + left
      BY <1>5, <3>1
    <3>. HIDE DEF j
    <3>. QED
      BY <1>2, <3>1, <3>2, <3>3, <3>4, <3>5
  <2>. QED
    BY <2>1, <2>2
<1>9. ASSUME NEW j \in 0 .. MaxFailures, j < Len(ages') PROVE Delay(j) <= expected
  BY <1>3, <1>5, <1>6, <1>9 DEF Spacing
<1>. QED
  BY <1>6, <1>7, <1>8, <1>9 DEF Spacing, Delay

LEMMA NextSpacing ==
    ASSUME PastTheCap
    PROVE  TypeOK /\ Counting /\ Spacing /\ [Next]_vars => Spacing'
<1> SUFFICES ASSUME TypeOK, Counting, Spacing, [Next]_vars PROVE Spacing'
  OBVIOUS
<1>1. CASE Connect
  <2>1. /\ pc' = "up" /\ connectedAt' = 0 /\ pc = "trying"
        /\ UNCHANGED <<left, ages, expected>>
    BY <1>1 DEF Connect
  <2>2. \A i \in 1 .. Len(ages) : 0 <= ages[i]
    BY ElementOfSeq, PaceAssumption DEF TypeOK
  <2>. QED
    BY <2>1, <2>2 DEF Spacing, Delay
<1>2. CASE UNCHANGED vars
  BY <1>2 DEF vars, Spacing, Delay
<1>. QED
  BY <1>1, <1>2, LingerSpacing, FailSpacing, RetrySpacing DEF Next

\* THEOREM.  However the station drops the connection, _next_backoff lets no
\* more attempts into any BACKOFF_MAX than there are steps of the backoff:
\* seven in a minute, with connection.py's numbers.
THEOREM TriedAtAPace ==
    ASSUME PastTheCap
    PROVE  Spec => []AttemptsAreApart
<1>1. Spec => []Counting
  BY InitCounting, NextCounting, PTL DEF Spec
<1>2. Spec => []Spacing
  BY <1>1, InitSpacing, NextSpacing, TypeCorrect, PTL DEF Spec
<1>. QED
  BY <1>2, SpacingBounds, TypeCorrect, PTL
==============================================================================
