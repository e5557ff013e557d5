------------------------------ MODULE MCBackoff ------------------------------
(****************************************************************************)
(* Backoff with the constants of connection.py, in ticks of half a second.  *)
(****************************************************************************)
EXTENDS Backoff

PowersOfTwo == [n \in 0 .. MaxFailures |-> 2 ^ n]

\* An attempt or a socket goes on for no time, or for one of these: a
\* while, just less than what counts as having held, and exactly that.
SomeDurations == {30, 119, 120}
==============================================================================
