--------------------------- MODULE EventsTaskProofs ---------------------------
(****************************************************************************)
(* What EventsTask promises, proved once for everything that implements it. *)
(****************************************************************************)
EXTENDS EventsTask, TLAPS

\* The task of an entry is alive or its token refused (connection.py's "nothing
\* short of cancellation or a revoked token ends this"), and the station never
\* serves a socket nobody may read.
THEOREM PromiseKept == Spec => []Promise
<1> USE DEF Promise
<1>1. Init => Promise
  BY DEF Init
<1>2. Promise /\ [Next]_taskVars => Promise'
  <2> SUFFICES ASSUME Promise, [Next]_taskVars PROVE Promise'
    OBVIOUS
  <2>1. CASE Make
    BY <2>1 DEF Make
  <2>2. CASE Begin \/ Come \/ Drop \/ Refuse
    BY <2>2 DEF Begin, Come, Drop, Refuse
  <2>3. CASE Cancel
    BY <2>3 DEF Cancel
  <2>4. CASE Finish \/ Perish
    BY <2>4 DEF Finish, Perish
  <2>5. CASE Lose \/ Forget
    BY <2>5 DEF Lose, Forget
  <2>6. CASE UNCHANGED taskVars
    BY <2>6 DEF taskVars
  <2>. QED
    BY <2>1, <2>2, <2>3, <2>4, <2>5, <2>6 DEF Next
<1>. QED
  BY <1>1, <1>2, PTL DEF Spec
==============================================================================
