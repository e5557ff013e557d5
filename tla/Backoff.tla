------------------------------- MODULE Backoff -------------------------------
(****************************************************************************)
(* The pace of the reconnect loop of connection.py: when it tries, how long *)
(* a socket stays up, and how long _next_backoff makes it wait.             *)
(*                                                                          *)
(* Time is counted in ticks of half a second, so that the smallest delay    *)
(* after jitter is whole.  Nothing counts from a beginning: a moment is     *)
(* kept as its age, and forgotten when it is out of the window.             *)
(****************************************************************************)
EXTENDS Naturals, Sequences

CONSTANTS
    Start,          \* BACKOFF_START, in ticks
    Maximum,        \* BACKOFF_MAX, in ticks: the cap, and what "held" means
    MaxFailures,    \* _BACKOFF_MAX_FAILURES
    Power,          \* 2**n, for n up to MaxFailures
    Durations,      \* how long an attempt, or a socket, may go on at a time
    Never           \* _connected_at is None

ASSUME PaceAssumption ==
    /\ Start \in Nat /\ Start % 2 = 0 /\ Start > 0
    /\ Maximum \in Nat /\ Maximum % 2 = 0 /\ Maximum > Start
    /\ MaxFailures \in Nat
    /\ Durations \subseteq Nat
    /\ Never \notin Nat

\* "2**6 = 64, already past the cap".
ASSUME PowerAssumption ==
    /\ Power \in [0 .. MaxFailures -> Nat]
    /\ Power[0] = 1
    /\ \A n \in 0 .. MaxFailures - 1 : Power[n + 1] = 2 * Power[n]
    /\ Start * Power[MaxFailures] >= Maximum

VARIABLES
    pc,             \* "trying", "up" or "waiting"
    failures,       \* _failures
    connectedAt,    \* the age of _connected_at, or Never; ages stop at Maximum
    base,           \* the delay last computed, before jitter
    left,           \* what is left to wait of it, after jitter
    ages,           \* history: the ages of the attempts less than Maximum old
    expected        \* history: what the next delay should be, by doubling

vars == <<pc, failures, connectedAt, base, left, ages, expected>>

Least(x, y) == IF x < y THEN x ELSE y
Older(age, d) == Least(age + d, Maximum)

\* The oldest attempts come first: the first k will be out of the window d
\* from now, and the others will be d older.
Leave(k, d) == \A i \in 1 .. Len(ages) : ages[i] + d >= Maximum <=> i <= k
Stay(k, d) == [i \in 1 .. Len(ages) - k |-> ages[k + i] + d]

\* Time passes for everything that has an age.
Pass(d) ==
    /\ connectedAt' = IF connectedAt = Never THEN Never ELSE Older(connectedAt, d)
    /\ \E k \in 0 .. Len(ages) : Leave(k, d) /\ ages' = Stay(k, d)

Init ==
    /\ pc = "trying"
    /\ failures = 0
    /\ connectedAt = Never
    /\ base = 0
    /\ left = 0
    /\ ages = <<0>>
    /\ expected = Start

\* An attempt takes its time, and a socket stays up for some.
Linger ==
    /\ pc \in {"trying", "up"}
    /\ \E d \in Durations : Pass(d)
    /\ UNCHANGED <<pc, failures, base, left, expected>>

\* Mutant: the backoff is cleared as soon as a socket opens.
ConnectResets ==
    /\ pc = "trying"
    /\ pc' = "up"
    /\ connectedAt' = 0
    /\ failures' = 0
    /\ UNCHANGED <<base, left, ages, expected>>

\* _async_on_connect: the backoff is not cleared here.
Connect ==
    /\ pc = "trying"
    /\ pc' = "up"
    /\ connectedAt' = 0
    /\ UNCHANGED <<failures, base, left, ages, expected>>

\* _held_for() >= BACKOFF_MAX
Held == connectedAt # Never /\ connectedAt >= Maximum

\* Mutant: the exponent stops one short of the cap.
DelayOneShort(counted) ==
    Least(Maximum, Start * Power[IF counted = MaxFailures THEN counted - 1 ELSE counted])

\* Mutant: the delay itself is not capped.
DelayUncapped(counted) == Start * Power[counted]

\* The delay after `counted` failures that count.
Delay(counted) == Least(Maximum, Start * Power[counted])

\* The attempt, or the socket, fails: _next_backoff.  The jitter takes off up
\* to a half; both ends of it stand for what is between.
Fail ==
    LET counted == IF Held THEN 0 ELSE failures
    IN  /\ pc \in {"trying", "up"}
        /\ pc' = "waiting"
        /\ connectedAt' = Never
        /\ base' = Delay(counted)
        /\ failures' = Least(counted + 1, MaxFailures)
        /\ left' \in {base' \div 2, base'}
        /\ expected' = Least(Maximum, 2 * (IF Held THEN Start ELSE expected))
        /\ UNCHANGED ages

\* The wait is over: the loop tries again.
Retry ==
    /\ pc = "waiting"
    /\ pc' = "trying"
    /\ left' = 0
    /\ \E k \in 0 .. Len(ages) : Leave(k, left) /\ ages' = Append(Stay(k, left), 0)
    /\ UNCHANGED <<failures, connectedAt, base, expected>>

Next == Linger \/ Connect \/ Fail \/ Retry

Spec == Init /\ [][Next]_vars

------------------------------------------------------------------------------

\* TYPE.  The exponent stays below the cap that keeps it from overflowing,
\* and no delay is longer than BACKOFF_MAX.
TypeOK ==
    /\ pc \in {"trying", "up", "waiting"}
    /\ failures \in 0 .. MaxFailures
    /\ connectedAt \in 0 .. Maximum \cup {Never}
    /\ base \in 0 .. Maximum
    /\ left \in 0 .. Maximum
    /\ ages \in Seq(0 .. Maximum - 1)
    /\ expected \in Start .. Maximum

\* The cap on the exponent never shows: the next delay is always what plain
\* doubling from BACKOFF_START up to BACKOFF_MAX would give, however many
\* failures there were, and starts over only after a socket that held.
DelaysDouble == Delay(failures) = expected

\* However the station behaves -- absent, or accepting and dropping at once,
\* or dropping just before a socket counts as held -- it is tried once for
\* each step of the backoff in any BACKOFF_MAX, and no more: seven times in a
\* minute.
AttemptsAreApart == Len(ages) <= MaxFailures + 1

------------------------------------------------------------------------------
(* The inductive invariant behind AttemptsAreApart. *)

\* The least that k waits in a row can have taken; past the table of powers,
\* all of the window.
Spent(k) ==
    IF k > MaxFailures THEN Maximum
    ELSE Least(Maximum \div 2, (Start \div 2) * (Power[k] - 1))

\* An attempt is as old as the waits since, and the socket that is up is of
\* the last; the next wait has as many doublings behind it as there were
\* attempts.
Spacing ==
    /\ \A i \in 1 .. Len(ages) : Spent(Len(ages) - i) <= ages[i]
    /\ connectedAt # Never => pc = "up" /\ \A i \in 1 .. Len(ages) : connectedAt <= ages[i]
    /\ \A j \in 0 .. MaxFailures :
          j < Len(ages) \/ (pc = "waiting" /\ j = Len(ages)) => Delay(j) <= expected
    /\ pc = "waiting" =>
          \A j \in 0 .. Len(ages) - 1 : Spent(j + 1) <= Spent(j) + left
==============================================================================
