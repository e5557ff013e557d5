--------------------------- MODULE MCEntryLifecycle ---------------------------
(****************************************************************************)
(* EntryLifecycle with two names for connections, one after the other.      *)
(****************************************************************************)
EXTENDS Diagnostics

CONSTANTS g1, g2

TwoConnections == {g1, g2}
==============================================================================
