------------------------------- MODULE MCPairing -------------------------------
(****************************************************************************)
(* Pairing with one station or two, two addresses, and a flow or two of     *)
(* each kind.                                                               *)
(****************************************************************************)
EXTENDS Pairing, TLC

CONSTANTS studio, workshop, x1, x2, d1, d2, m1, m2, r1

NoFlow == {}
OneStation == {studio}
TwoStations == {studio, workshop}
TwoAddresses == {x1, x2}
OneDiscovery == {d1}
TwoDiscoveries == {d1, d2}
OneManual == {m1}
OneReauth == {r1}

AddressSymmetry == Permutations(TwoAddresses)

------------------------------------------------------------------------------
(* Two scenarios of following.  The paired one is of two stations that take *)
(* each other's addresses; the new one of a station that nobody has paired, *)
(* discovered and typed in at a time.                                       *)

\* Both stations are paired, each with an entry that points at it.  The
\* studio's was typed in while the studio was too old to tell its name, or
\* discovered.
BothPaired ==
    /\ \A s \in Stations : Cardinality(at[s]) = 1
    /\ minted = 2
    /\ owner = <<workshop, studio>>
    /\ live = Pairings
    /\ entries \in [Pairings -> [host : Hosts, name : {studio, workshop, None},
                                 version : {Untold}, token : Pairings]]
    /\ \A n \in Pairings :
          /\ entries[n].token = n
          /\ entries[n].host \in at[owner[n]] \cup {owner[n]}
          /\ entries[n].name = owner[n] \/ (n = 2 /\ entries[n].name = None)

\* The workshop was paired and deleted, and is off; the studio is new.
OneIsNew ==
    /\ at[workshop] = {} /\ Cardinality(at[studio]) = 1
    /\ version[workshop] = Untold
    /\ minted = 1
    /\ owner = <<workshop, None>>
    /\ live = {}
    /\ entries = [n \in Pairings |-> None]

FollowInit ==
    /\ at \in [Stations -> SUBSET Addresses]
    /\ at[studio] \cap at[workshop] = {}
    /\ version \in [Stations -> Versions]
    /\ window = [s \in Stations |-> [open |-> FALSE, wrong |-> 0]]
    /\ ignored = {}
    /\ flows = [f \in Flows |-> Idle]
    /\ BothPaired \/ OneIsNew

\* The stations there are, and those where something new may be paired.
Present == IF 1 \in Entries THEN Stations ELSE {studio}
Pairable == IF 1 \in Entries THEN {} ELSE {studio}

\* A station's announcements go to a flow of its own.
Listener == [s \in TwoStations |-> IF s = studio THEN d1 ELSE d2]

\* What the scenarios leave out: the code is never mistyped, and nothing that
\* is paired is forgotten or deleted; of two paired stations nothing new is
\* paired, and a new one is alone.
FollowNext ==
    \/ \E s \in Present, seen \in SUBSET Addresses : Announced(Listener[s], s, seen)
    \/ \E s \in Present : Upgrade(s) \/ \E where \in SUBSET Addresses : Move(s, where)
    \/ \E s \in Pairable : TurnWindow(s) \/ \E f \in Manuals, h \in Hosts : Typed(f, h)
    \/ \E f \in Flows : Answer(f) \/ PairUnreachable(f) \/ RightCode(f) \/ Dismiss(f)

FollowSpec == FollowInit /\ [][FollowNext]_vars /\ Fairness
==============================================================================
