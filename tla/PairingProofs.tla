----------------------------- MODULE PairingProofs -----------------------------
(****************************************************************************)
(* Theorems about Pairing, for any stations, addresses, flows and bounds.   *)
(* Types first; then, for as long as no address changes hands and nobody    *)
(* types one, that a station never has two entries.                         *)
(****************************************************************************)
EXTENDS Pairing, TLAPS

------------------------------------------------------------------------------
(* The records the steps make. *)

\* What the assumptions say of None.
LEMMA NoneIsNothing ==
    /\ None \notin Stations /\ None \notin Addresses /\ None \notin Hosts
    /\ None \notin Pairings /\ None \notin Entry
    /\ \A n \in Pairings : n \in Nat /\ n >= 1
BY PairingAssumption, NoneAssumption DEF Hosts, Pairings

\* The fields of a flow.
LEMMA FlowFields ==
    ASSUME NEW r \in Flow
    PROVE  /\ r.step \in {"idle", "probing", "checking", "seeking", "form", "paired"}
           /\ r.host \in Hosts \cup {None} /\ r.name \in Stations \cup {None}
           /\ r.version \in Versions /\ r.seen \in SUBSET Addresses
           /\ r.entry \in Pairings \cup {None} /\ r.token \in Pairings \cup {None}
           /\ r.renames \in BOOLEAN /\ r.wrong \in 0 .. PairingAttempts
           /\ r.error \in {"none", "cannot_connect", "invalid_code", "window_exhausted"}
BY DEF Flow

\* The fields of an entry.
LEMMA EntryFields ==
    ASSUME TypeOK, NEW e \in Entries
    PROVE  /\ e \in Pairings /\ entries[e] \in Entry
           /\ entries[e].host \in Hosts /\ entries[e].name \in Stations \cup {None}
           /\ entries[e].version \in Versions /\ entries[e].token \in Pairings
<1>1. e \in Pairings /\ entries[e] \in Entry
  BY DEF TypeOK, Entries
<1>. QED
  BY <1>1 DEF Entry

\* A flow that is over.
LEMMA IdleIsAFlow ==
    /\ Idle \in Flow /\ Idle.step = "idle" /\ Idle.name = None /\ Idle.entry = None
    /\ Idle.token = None
<1>1. 0 \in Versions /\ 0 \in 0 .. PairingAttempts
  BY PairingAssumption DEF Versions
<1>. QED
  BY <1>1 DEF Idle, Flow, Untold

\* A flow moves on, and nothing else: it is enough that it still has what its
\* step needs.
LEMMA OneFlowMoves ==
    ASSUME WellTyped, NEW f \in Flows, NEW r \in Flow, Step(f, r),
           UNCHANGED <<at, version>>, ignored' \subseteq Stations,
           window' \in [Stations -> [open : BOOLEAN, wrong : 0 .. PairingAttempts]],
           minted' \in 0 .. MaxPairings, owner' \in [Pairings -> Stations \cup {None}],
           live' \subseteq 1 .. minted', entries' \in [Pairings -> Entry \cup {None}],
           Entries \subseteq Entries',
           r.step \in {"form", "paired"} => r.host # None,
           r.step = "probing" /\ f \notin Discoveries => r.host # None,
           r.step \in {"checking", "seeking"} => f \in Discoveries /\ r.entry # None,
           r.step # "idle" /\ f \in Discoveries => r.name # None,
           r.step = "paired" => r.token # None,
           f \in Reauths /\ r.step # "idle" => r.entry \in Entries
    PROVE  WellTyped'
<1>1. /\ flows' \in [Flows -> Flow] /\ flows'[f] = r
      /\ \A g \in Flows \ {f} : flows'[g] = flows[g]
  BY DEF Step, WellTyped, TypeOK
<1>2. ASSUME NEW g \in Flows
      PROVE  /\ flows'[g].step \in {"form", "paired"} => flows'[g].host # None
             /\ flows'[g].step \in {"checking", "seeking"} =>
                   flows'[g].entry # None /\ g \in Discoveries
             /\ g \in Reauths /\ flows'[g].step # "idle" => flows'[g].entry \in Entries'
             /\ flows'[g].step = "probing" /\ g \notin Discoveries => flows'[g].host # None
             /\ flows'[g].step = "paired" => flows'[g].token # None
             /\ flows'[g].step # "idle" /\ g \in Discoveries => flows'[g].name # None
  <2>1. CASE g = f
    BY <1>1, <2>1
  <2>2. CASE g # f
    BY <1>1, <2>2 DEF WellTyped, TypeOK, StepsHaveTheirData
  <2>. QED
    BY <2>1, <2>2
<1>3. TypeOK'
  BY <1>1, <1>2 DEF WellTyped, TypeOK
<1>4. StepsHaveTheirData'
  BY <1>2 DEF StepsHaveTheirData
<1>. QED
  BY <1>3, <1>4 DEF WellTyped

\* The same, for a step that changes no entry and asks the station nothing.
LEMMA OnlyAFlowMoves ==
    ASSUME WellTyped, NEW f \in Flows, NEW r \in Flow, Step(f, r),
           UNCHANGED <<stationVars, entries, ignored>>,
           r.step \in {"form", "paired"} => r.host # None,
           r.step = "probing" /\ f \notin Discoveries => r.host # None,
           r.step \in {"checking", "seeking"} => f \in Discoveries /\ r.entry # None,
           r.step # "idle" /\ f \in Discoveries => r.name # None,
           r.step = "paired" => r.token # None,
           f \in Reauths /\ r.step # "idle" => r.entry \in Entries
    PROVE  WellTyped'
<1>1. Entries \subseteq Entries'
  BY DEF Entries
<1>. QED
  BY <1>1, OneFlowMoves DEF WellTyped, TypeOK, stationVars

\* What a flow finds the entry of a station to be.
LEMMA PairedIsAnEntry ==
    ASSUME NEW name, NEW seen, NEW e \in PairedStation(name, seen)
    PROVE  /\ e \in Entries
           /\ entries[e].name = name \/ entries[e].host \in seen \cup {name}
BY DEF PairedStation

\* What a follow flow writes: into the entry it matched, its name if that has
\* changed, its host and its version, never its token.
LEMMA WriteMakes ==
    ASSUME WellTyped, NEW f \in Flows, NEW h \in Addresses \cup {None}, NEW v \in Versions,
           Write(f, h, v)
    PROVE  /\ entries' \in [Pairings -> Entry \cup {None}] /\ Entries' = Entries
           /\ \A d \in Entries \ {flows[f].entry} : entries'[d] = entries[d]
           /\ flows[f].entry \in Entries =>
                 /\ entries'[flows[f].entry].token = entries[flows[f].entry].token
                 /\ entries'[flows[f].entry].name \in {flows[f].name, entries[flows[f].entry].name}
                 /\ entries'[flows[f].entry].host =
                       IF h = None THEN entries[flows[f].entry].host ELSE h
<1>1. flows[f] \in Flow /\ entries \in [Pairings -> Entry \cup {None}]
  BY DEF WellTyped, TypeOK
<1>2. CASE flows[f].entry \notin Entries
  BY <1>1, <1>2 DEF Write, Entries
<1>3. CASE flows[f].entry \in Entries
  <2>. PICK e \in Entries : e = flows[f].entry
    BY <1>3
  <2>. PICK old \in Entry : old = entries[e]
    BY <1>1 DEF Entries
  <2>. PICK name : name = IF flows[f].renames THEN flows[f].name ELSE old.name
    OBVIOUS
  <2>. DEFINE new == [old EXCEPT !.name = name,
                                 !.host = IF h = None THEN @ ELSE h,
                                 !.version = IF v = Untold THEN @ ELSE v]
  <2>1. name \in Stations \cup {None} /\ name \in {flows[f].name, old.name}
    BY <1>1, FlowFields DEF Entry
  <2>2. /\ new \in Entry /\ new.token = old.token /\ new.name = name
        /\ new.host = IF h = None THEN old.host ELSE h
    BY <2>1 DEF Entry, Hosts
  <2>3. entries' = [entries EXCEPT ![e] = new]
    BY <1>3 DEF Write
  <2>. HIDE DEF new
  <2>4. /\ entries' \in [Pairings -> Entry \cup {None}] /\ entries'[e] = new
        /\ \A d \in Pairings \ {e} : entries'[d] = entries[d]
    BY <1>1, <2>2, <2>3 DEF Entries
  <2>5. Entries' = Entries
    BY <2>2, <2>4, NoneIsNothing DEF Entries
  <2>. QED
    BY <2>1, <2>2, <2>4, <2>5 DEF Entries
<1>. QED
  BY <1>2, <1>3
------------------------------------------------------------------------------
(* What each action does to its flow. *)

LEMMA AnnouncedMakes ==
    ASSUME WellTyped, NEW f \in Discoveries, NEW s \in Stations, NEW seen \in SUBSET Addresses,
           Announced(f, s, seen)
    PROVE  \E r \in Flow :
              /\ Step(f, r) /\ r.name = s /\ r.seen = seen /\ r.token = None
              /\ \/ r.step = "probing" /\ r.entry = None /\ PairedStation(s, seen) = {}
                 \/ r.step = "checking" /\ r.entry \in PairedStation(s, seen)
<1>1. CASE PairedStation(s, seen) = {}
  <2>. DEFINE r == [Idle EXCEPT !.step = "probing", !.name = s, !.seen = seen]
  <2>1. /\ r \in Flow /\ r.name = s /\ r.seen = seen /\ r.token = None /\ r.step = "probing"
        /\ r.entry = None
    BY IdleIsAFlow DEF Flow
  <2>2. Step(f, r)
    BY <1>1 DEF Announced
  <2>. HIDE DEF r
  <2>. QED
    BY <1>1, <2>1, <2>2
<1>2. ASSUME NEW e \in PairedStation(s, seen),
             Step(f, [Idle EXCEPT !.step = "checking", !.host = entries[e].host,
                                  !.name = s, !.seen = seen, !.entry = e,
                                  !.renames = (entries[e].name # s)])
      PROVE  \E r \in Flow :
                /\ Step(f, r) /\ r.name = s /\ r.seen = seen /\ r.token = None
                /\ r.step = "checking" /\ r.entry \in PairedStation(s, seen)
  <2>. PICK h \in Hosts : h = entries[e].host
    BY PairedIsAnEntry, EntryFields DEF WellTyped
  <2>. PICK renames \in BOOLEAN : renames = (entries[e].name # s)
    OBVIOUS
  <2>. DEFINE x == [Idle EXCEPT !.step = "checking", !.host = h, !.name = s]
              r == [x EXCEPT !.seen = seen, !.entry = e, !.renames = renames]
  <2>1. e \in Pairings
    BY PairedIsAnEntry, EntryFields DEF WellTyped
  <2>3. Step(f, r)
    BY <1>2
  <2>4. x \in Flow /\ x.name = s /\ x.token = None /\ x.step = "checking"
    BY IdleIsAFlow DEF Flow
  <2>. HIDE DEF x
  <2>2. /\ r \in Flow /\ r.name = s /\ r.seen = seen /\ r.token = None /\ r.step = "checking"
        /\ r.entry = e
    BY <2>1, <2>4 DEF Flow
  <2>. HIDE DEF r
  <2>. QED
    BY <2>2, <2>3
<1>. QED
  BY <1>1, <1>2 DEF Announced

\* A flow that keeps all but its step, its host and what it was told.
KeepsMost(f, r) ==
    /\ r \in Flow /\ Step(f, r)
    /\ r.seen = flows[f].seen /\ r.entry = flows[f].entry

\* A flow that has learned where its station is, who it is, or how a code fared.
LEMMA FlowToldWhere ==
    ASSUME NEW r \in Flow, NEW h \in Hosts, NEW v \in Versions
    PROVE  [r EXCEPT !.step = "form", !.host = h, !.version = v] \in Flow
BY DEF Flow

LEMMA FlowToldWho ==
    ASSUME NEW r \in Flow, NEW v \in Versions, NEW name \in Stations \cup {None}
    PROVE  [r EXCEPT !.step = "form", !.version = v, !.name = name] \in Flow
BY DEF Flow

LEMMA FlowToldWrong ==
    ASSUME NEW r \in Flow, NEW wrong \in 0 .. PairingAttempts,
           NEW error \in {"none", "cannot_connect", "invalid_code", "window_exhausted"}
    PROVE  [r EXCEPT !.wrong = wrong, !.error = error] \in Flow
BY DEF Flow

LEMMA DiscoveredMakes ==
    ASSUME WellTyped, NEW f \in Flows, Discovered(f)
    PROVE  \/ Step(f, Idle)
           \/ \E r : /\ KeepsMost(f, r) /\ r.step = "form" /\ r.host \in flows[f].seen
                     /\ r.name = flows[f].name /\ r.token = flows[f].token
<1>1. SUFFICES ASSUME NEW where \in Reachable(flows[f].seen),
                      Step(f, [flows[f] EXCEPT !.step = "form", !.host = where[1],
                                               !.version = version[where[2]]])
               PROVE  \E r : /\ KeepsMost(f, r) /\ r.step = "form" /\ r.host \in flows[f].seen
                            /\ r.name = flows[f].name /\ r.token = flows[f].token
  BY DEF Discovered
<1>. PICK old \in Flow : old = flows[f]
  BY DEF WellTyped, TypeOK
<1>. PICK h \in old.seen, s \in Stations : where[1] = h /\ where[2] = s
  BY DEF Reachable
<1>. PICK v \in Versions : v = version[s]
  BY DEF WellTyped, TypeOK
<1>. DEFINE r == [old EXCEPT !.step = "form", !.host = h, !.version = v]
<1>2. h \in Hosts
  BY FlowFields DEF Hosts
<1>5. r \in Flow
  BY <1>2, FlowToldWhere
<1>3. /\ r \in Flow /\ r.step = "form" /\ r.host = h /\ r.seen = old.seen /\ r.entry = old.entry
      /\ r.name = old.name /\ r.token = old.token
  BY <1>5 DEF Flow
<1>4. Step(f, r)
  BY <1>1
<1>. HIDE DEF r
<1>. QED
  BY <1>3, <1>4 DEF KeepsMost

LEMMA TypedMakes ==
    ASSUME NEW f \in Manuals, NEW h \in Hosts, Typed(f, h)
    PROVE  \E r \in Flow : /\ Step(f, r) /\ r.step = "probing" /\ r.host = h
                           /\ r.entry = None /\ r.token = None
<1>. DEFINE r == [Idle EXCEPT !.step = "probing", !.host = h]
<1>1. /\ r \in Flow /\ r.step = "probing" /\ r.host = h /\ r.entry = None /\ r.token = None
  BY IdleIsAFlow DEF Flow
<1>2. Step(f, r)
  BY DEF Typed
<1>. HIDE DEF r
<1>. QED
  BY <1>1, <1>2

LEMMA ProbedMakes ==
    ASSUME WellTyped, NEW f \in Flows, Probed(f)
    PROVE  \E r \in Flow : /\ Step(f, r) /\ r.step \in {"idle", "form"}
                           /\ r.step = "form" => r.host = flows[f].host
                           /\ r.entry \in {None, flows[f].entry}
<1>1. CASE Step(f, [Idle EXCEPT !.error = "cannot_connect"])
  <2>. DEFINE r == [Idle EXCEPT !.error = "cannot_connect"]
  <2>1. r \in Flow /\ r.step = "idle" /\ r.entry = None
    BY IdleIsAFlow DEF Flow
  <2>2. Step(f, r)
    BY <1>1
  <2>. HIDE DEF r
  <2>. QED
    BY <2>1, <2>2
<1>2. ASSUME NEW s \in Stations,
             Step(f, [flows[f] EXCEPT !.step = "form", !.version = version[s],
                                      !.name = IF version[s] = Untold THEN None ELSE s])
      PROVE  \E r \in Flow : /\ Step(f, r) /\ r.step = "form"
                             /\ r.host = flows[f].host /\ r.entry = flows[f].entry
  <2>. PICK old \in Flow : old = flows[f]
    BY DEF WellTyped, TypeOK
  <2>. PICK v \in Versions : v = version[s]
    BY DEF WellTyped, TypeOK
  <2>. PICK name \in Stations \cup {None} : name = IF version[s] = Untold THEN None ELSE s
    OBVIOUS
  <2>. DEFINE r == [old EXCEPT !.step = "form", !.version = v, !.name = name]
  <2>3. r \in Flow
    BY FlowToldWho
  <2>1. r \in Flow /\ r.step = "form" /\ r.host = old.host /\ r.entry = old.entry
    BY <2>3 DEF Flow
  <2>2. Step(f, r)
    BY <1>2
  <2>. HIDE DEF r
  <2>. QED
    BY <2>1, <2>2
<1>. QED
  BY <1>1, <1>2 DEF Probed, Answering

\* The stored host answered, and what it told is written; or it did not.
LEMMA StoredCheckedMakes ==
    ASSUME WellTyped, NEW f \in Flows, StoredChecked(f)
    PROVE  \/ Step(f, Idle) /\ \E v \in Versions : Write(f, None, v)
           \/ /\ UNCHANGED entries
              /\ \E r : /\ KeepsMost(f, r) /\ r.step = "seeking"
                       /\ r.name = flows[f].name /\ r.token = flows[f].token
<1>1. CASE Step(f, Idle) /\ \E s \in Answering(flows[f].host) : Write(f, None, version[s])
  BY <1>1 DEF Answering, WellTyped, TypeOK
<1>2. CASE Step(f, [flows[f] EXCEPT !.step = "seeking"]) /\ UNCHANGED entries
  <2>. PICK old \in Flow : old = flows[f]
    BY DEF WellTyped, TypeOK
  <2>. DEFINE r == [old EXCEPT !.step = "seeking"]
  <2>1. /\ r \in Flow /\ r.step = "seeking" /\ r.seen = old.seen /\ r.entry = old.entry
        /\ r.name = old.name /\ r.token = old.token
    BY DEF Flow
  <2>2. Step(f, r)
    BY <1>2
  <2>. HIDE DEF r
  <2>. QED
    BY <1>2, <2>1, <2>2 DEF KeepsMost
<1>. QED
  BY <1>1, <1>2 DEF StoredChecked

LEMMA FollowedMakes ==
    ASSUME WellTyped, NEW f \in Flows, Followed(f)
    PROVE  /\ Step(f, Idle)
           /\ \E h \in flows[f].seen \cup {None}, v \in Versions : Write(f, h, v)
<1>1. Untold \in Versions
  BY PairingAssumption DEF Untold, Versions
<1>2. ASSUME NEW where \in Reachable(flows[f].seen), Write(f, where[1], version[where[2]])
      PROVE  \E h \in flows[f].seen, v \in Versions : Write(f, h, v)
  BY <1>2 DEF Reachable, WellTyped, TypeOK
<1>. QED
  BY <1>1, <1>2 DEF Followed

LEMMA ReauthMakes ==
    ASSUME WellTyped, NEW f \in Reauths, NEW e \in Entries, Reauth(f, e)
    PROVE  \E r \in Flow : /\ Step(f, r) /\ r.step = "probing" /\ r.entry = e
                           /\ r.host = entries[e].host /\ r.token = None
<1>. PICK old \in Entry : old = entries[e] /\ old.host \in Hosts /\ old.name \in Stations \cup {None}
                         /\ old.version \in Versions
  BY EntryFields DEF WellTyped
<1>. DEFINE r == [Idle EXCEPT !.step = "probing", !.host = old.host, !.name = old.name,
                              !.version = old.version, !.entry = e]
<1>1. e \in Pairings
  BY DEF Entries
<1>2. /\ r \in Flow /\ r.step = "probing" /\ r.entry = e /\ r.host = old.host /\ r.token = None
  BY <1>1, IdleIsAFlow DEF Flow
<1>3. Step(f, r)
  BY DEF Reauth
<1>. HIDE DEF r
<1>. QED
  BY <1>2, <1>3
LEMMA ReauthProbedMakes ==
    ASSUME WellTyped, NEW f \in Flows, ReauthProbed(f)
    PROVE  \E r : /\ KeepsMost(f, r) /\ r.step = "form" /\ r.host = flows[f].host
                 /\ r.token = flows[f].token
<1>. PICK old \in Flow : old = flows[f]
  BY DEF WellTyped, TypeOK
<1>. PICK v \in Versions :
        Step(f, [flows[f] EXCEPT !.step = "form", !.version = IF v = Untold THEN @ ELSE v])
  <2>1. Untold \in Versions
    BY PairingAssumption DEF Untold, Versions
  <2>. QED
    BY <2>1 DEF ReauthProbed, Answering, WellTyped, TypeOK
<1>. PICK told \in Versions : told = IF v = Untold THEN old.version ELSE v
  BY FlowFields
<1>. DEFINE r == [old EXCEPT !.step = "form", !.version = told]
<1>1. /\ r \in Flow /\ r.step = "form" /\ r.host = old.host /\ r.seen = old.seen
      /\ r.entry = old.entry /\ r.token = old.token
  BY DEF Flow
<1>2. Step(f, r)
  OBVIOUS
<1>. HIDE DEF r
<1>. QED
  BY <1>1, <1>2 DEF KeepsMost

LEMMA PairUnreachableMakes ==
    ASSUME WellTyped, NEW f \in Flows, PairUnreachable(f)
    PROVE  \E r : /\ KeepsMost(f, r) /\ r.step = "form" /\ r.host = flows[f].host
                 /\ r.name = flows[f].name /\ r.token = None
<1>. PICK old \in Flow : old = flows[f]
  BY DEF WellTyped, TypeOK
<1>. DEFINE r == [old EXCEPT !.step = "form", !.token = None, !.error = "cannot_connect"]
<1>1. /\ r \in Flow /\ r.step = "form" /\ r.host = old.host /\ r.seen = old.seen
      /\ r.entry = old.entry /\ r.name = old.name /\ r.token = None
  BY DEF Flow
<1>2. Step(f, r)
  BY DEF PairUnreachable
<1>. HIDE DEF r
<1>. QED
  BY <1>1, <1>2 DEF KeepsMost

LEMMA WrongCodeMakes ==
    ASSUME WellTyped, NEW f \in Flows, WrongCode(f)
    PROVE  /\ window' \in [Stations -> [open : BOOLEAN, wrong : 0 .. PairingAttempts]]
           /\ \E r : /\ KeepsMost(f, r) /\ r.step = "form" /\ r.host = flows[f].host
                    /\ r.name = flows[f].name /\ r.token = flows[f].token
<1>. DEFINE count(n) == IF n < PairingAttempts THEN n + 1 ELSE n
<1>. PICK s \in Stations :
        LET open == window[s].open /\ count(window[s].wrong) < PairingAttempts
            wrong == count(flows[f].wrong)
        IN  /\ window' = [window EXCEPT ![s] = [open |-> open, wrong |-> count(@.wrong)]]
            /\ Step(f, [flows[f] EXCEPT
                           !.wrong = wrong,
                           !.error = IF wrong >= PairingAttempts THEN "window_exhausted"
                                                                 ELSE "invalid_code"])
  BY DEF WrongCode, Answering
<1>1. \A n \in 0 .. PairingAttempts : count(n) \in 0 .. PairingAttempts
  BY PairingAssumption
<1>. HIDE DEF count
<1>. PICK old \in Flow : old = flows[f]
  BY DEF WellTyped, TypeOK
<1>. PICK shown \in [open : BOOLEAN, wrong : 0 .. PairingAttempts] : shown = window[s]
  BY DEF WellTyped, TypeOK
<1>2. window' \in [Stations -> [open : BOOLEAN, wrong : 0 .. PairingAttempts]]
  <2>. DEFINE open == shown.open /\ count(shown.wrong) < PairingAttempts
  <2>1. open \in BOOLEAN /\ count(shown.wrong) \in 0 .. PairingAttempts
    BY <1>1
  <2>2. window' = [window EXCEPT ![s] = [open |-> open, wrong |-> count(shown.wrong)]]
    BY DEF WellTyped, TypeOK
  <2>. HIDE DEF open
  <2>. QED
    BY <2>1, <2>2 DEF WellTyped, TypeOK
<1>. PICK wrong \in 0 .. PairingAttempts : wrong = count(old.wrong)
  BY <1>1, FlowFields
<1>. DEFINE error == IF wrong >= PairingAttempts THEN "window_exhausted" ELSE "invalid_code"
<1>3. error \in {"none", "cannot_connect", "invalid_code", "window_exhausted"}
  OBVIOUS
<1>. DEFINE r == [old EXCEPT !.wrong = wrong, !.error = error]
<1>4. Step(f, r)
  OBVIOUS
<1>. HIDE DEF error
<1>7. r \in Flow
  BY <1>3, FlowToldWrong
<1>5. /\ r \in Flow /\ r.step = old.step /\ r.host = old.host /\ r.seen = old.seen
      /\ r.entry = old.entry /\ r.name = old.name /\ r.token = old.token
  BY <1>7 DEF Flow
<1>6. old.step = "form"
  BY DEF WrongCode
<1>. HIDE DEF r
<1>. QED
  BY <1>2, <1>4, <1>5, <1>6 DEF KeepsMost

LEMMA RightCodeMakes ==
    ASSUME WellTyped, NEW f \in Flows, RightCode(f)
    PROVE  /\ window' \in [Stations -> [open : BOOLEAN, wrong : 0 .. PairingAttempts]]
           /\ minted' = minted + 1 /\ minted' \in Pairings
           /\ live' \subseteq 1 .. minted'
           /\ \E s \in Answering(flows[f].host) : owner' = [owner EXCEPT ![minted + 1] = s]
           /\ \E r : /\ KeepsMost(f, r) /\ r.step = "paired" /\ r.host = flows[f].host
                    /\ r.name = flows[f].name /\ r.token = minted'
<1>. PICK old \in Flow : old = flows[f]
  BY DEF WellTyped, TypeOK
<1>1. minted' = minted + 1 /\ minted' \in Pairings
  BY PairingAssumption DEF RightCode, WellTyped, TypeOK, Pairings
<1>2. live' \subseteq 1 .. minted'
  BY <1>1, PairingAssumption DEF RightCode, WellTyped, TypeOK
<1>3. ASSUME NEW s \in Answering(flows[f].host),
             window' = [window EXCEPT ![s] = [open |-> FALSE, wrong |-> 0]]
      PROVE  window' \in [Stations -> [open : BOOLEAN, wrong : 0 .. PairingAttempts]]
  <2>1. [open |-> FALSE, wrong |-> 0] \in [open : BOOLEAN, wrong : 0 .. PairingAttempts]
    BY PairingAssumption
  <2>. QED
    BY <1>3, <2>1 DEF WellTyped, TypeOK
<1>. PICK n \in Pairings : n = minted'
  BY <1>1
<1>. DEFINE r == [old EXCEPT !.step = "paired", !.token = n]
<1>4. /\ r \in Flow /\ r.step = "paired" /\ r.host = old.host /\ r.seen = old.seen
      /\ r.entry = old.entry /\ r.name = old.name /\ r.token = n
  BY DEF Flow
<1>5. Step(f, r)
  BY DEF RightCode
<1>. HIDE DEF r
<1>. QED
  BY <1>1, <1>2, <1>3, <1>4, <1>5 DEF KeepsMost, RightCode

\* The token is written with the entry being reauthed, or in a new entry.
LEMMA FinishMakes ==
    ASSUME WellTyped, NEW f \in Flows, Finish(f)
    PROVE  /\ Step(f, Idle)
           /\ entries' \in [Pairings -> Entry \cup {None}]
           /\ f \in Reauths =>
                 /\ flows[f].entry \in Entries /\ Entries' = Entries
                 /\ entries'[flows[f].entry].token = flows[f].token
                 /\ entries'[flows[f].entry].name = entries[flows[f].entry].name
                 /\ entries'[flows[f].entry].host = entries[flows[f].entry].host
                 /\ \A e \in Entries \ {flows[f].entry} : entries'[e] = entries[e]
           /\ f \notin Reauths =>
                 /\ Entries' = Entries \cup {flows[f].token} /\ flows[f].token \in Pairings
                 /\ entries'[flows[f].token].token = flows[f].token
                 /\ entries'[flows[f].token].name = flows[f].name
                 /\ entries'[flows[f].token].host = flows[f].host
                 /\ \A e \in Entries \ {flows[f].token} : entries'[e] = entries[e]
<1>. PICK flow \in Flow : flow = flows[f]
  BY DEF WellTyped, TypeOK
<1>1. /\ entries \in [Pairings -> Entry \cup {None}]
      /\ flow.token \in Pairings /\ flow.host \in Hosts /\ flow.name \in Stations \cup {None}
      /\ flow.version \in Versions
  BY FlowFields DEF Finish, WellTyped, TypeOK, StepsHaveTheirData
<1>2. CASE f \in Reauths
  <2>. PICK e \in Entries : e = flow.entry
    BY <1>2 DEF Finish, WellTyped, TypeOK
  <2>. PICK old \in Entry : old = entries[e]
    BY <1>1 DEF Entries
  <2>. DEFINE new == [old EXCEPT !.token = flow.token, !.version = flow.version]
  <2>1. new \in Entry /\ new.token = flow.token /\ new.name = old.name /\ new.host = old.host
    BY <1>1 DEF Entry
  <2>2. entries' = [entries EXCEPT ![e] = new]
    BY <1>2 DEF Finish
  <2>. HIDE DEF new
  <2>3. /\ entries' \in [Pairings -> Entry \cup {None}] /\ entries'[e] = new
        /\ \A d \in Pairings \ {e} : entries'[d] = entries[d]
    BY <1>1, <2>1, <2>2 DEF Entries
  <2>4. Entries' = Entries
    BY <2>1, <2>3, NoneIsNothing DEF Entries
  <2>. QED
    BY <1>2, <2>1, <2>3, <2>4 DEF Entries, Finish
<1>3. CASE f \notin Reauths
  <2>. PICK e \in Pairings : e = flow.token
    BY <1>1
  <2>. DEFINE new == [host |-> flow.host, name |-> flow.name,
                      version |-> flow.version, token |-> flow.token]
  <2>1. new \in Entry /\ new.token = flow.token /\ new.name = flow.name /\ new.host = flow.host
    BY <1>1 DEF Entry
  <2>2. entries' = [entries EXCEPT ![e] = new]
    BY <1>3 DEF Finish
  <2>. HIDE DEF new
  <2>3. /\ entries' \in [Pairings -> Entry \cup {None}] /\ entries'[e] = new
        /\ \A d \in Pairings \ {e} : entries'[d] = entries[d]
    BY <1>1, <2>1, <2>2
  <2>4. Entries' = Entries \cup {e}
    BY <2>1, <2>3, NoneIsNothing DEF Entries
  <2>. QED
    BY <1>3, <2>1, <2>3, <2>4 DEF Entries, Finish
<1>. QED
  BY <1>2, <1>3

LEMMA DeleteEntryMakes ==
    ASSUME WellTyped, NEW e \in Entries, DeleteEntry(e)
    PROVE  /\ entries' \in [Pairings -> Entry \cup {None}]
           /\ Entries' = Entries \ {e} /\ \A d \in Entries' : entries'[d] = entries[d]
           /\ flows' \in [Flows -> Flow]
           /\ \A f \in Flows : flows'[f] = IF f \in Reauths /\ flows[f].entry = e
                                          THEN Idle ELSE flows[f]
BY IdleIsAFlow DEF DeleteEntry, WellTyped, TypeOK, Entries

------------------------------------------------------------------------------
(* Types. *)

\* Before the first flow.
LEMMA InitIsTyped == Init => WellTyped
<1> SUFFICES ASSUME Init PROVE WellTyped
  OBVIOUS
<1>1. flows \in [Flows -> Flow] /\ \A f \in Flows : flows[f].step = "idle"
  BY IdleIsAFlow DEF Init
<1>2. at \in [Stations -> SUBSET Addresses]
  BY DEF Init
<1>3. TypeOK
  BY <1>1, <1>2, PairingAssumption DEF Init, TypeOK
<1>. QED
  BY <1>1, <1>3 DEF WellTyped, StepsHaveTheirData

\* The stations change only what is theirs.
LEMMA StationsAreTyped ==
    ASSUME WellTyped, StationStep
    PROVE  WellTyped' /\ UNCHANGED <<minted, owner, entries, ignored, flows>>
<1>1. UNCHANGED <<minted, owner, entries, ignored, flows>>
  BY DEF StationStep, TurnWindow, Upgrade, Move, Forget
<1>2. ASSUME NEW s \in Stations, TurnWindow(s) PROVE TypeOK'
  BY <1>1, <1>2, PairingAssumption DEF TurnWindow, WellTyped, TypeOK, Entries
<1>3. ASSUME NEW s \in Stations, Upgrade(s) PROVE TypeOK'
  BY <1>1, <1>3, PairingAssumption DEF Upgrade, WellTyped, TypeOK, Entries, Versions
<1>4. ASSUME NEW s \in Stations, NEW where \in SUBSET Addresses, Move(s, where) PROVE TypeOK'
  BY <1>1, <1>4 DEF Move, WellTyped, TypeOK, Entries
<1>5. ASSUME NEW n \in Pairings, Forget(n) PROVE TypeOK'
  BY <1>1, <1>5 DEF Forget, WellTyped, TypeOK, Entries
<1>. QED
  BY <1>1, <1>2, <1>3, <1>4, <1>5 DEF StationStep, WellTyped, StepsHaveTheirData
\* Every action keeps the types, and the data each step of a flow needs.
LEMMA StepIsTyped == WellTyped /\ [Next]_vars => WellTyped'
<1> SUFFICES ASSUME WellTyped, [Next]_vars PROVE WellTyped'
  OBVIOUS
<1>. USE DEF stationVars
<1>1. ASSUME NEW f \in Discoveries, NEW s \in Stations, NEW seen \in SUBSET Addresses,
             Announced(f, s, seen)
      PROVE  WellTyped'
  <2>1. f \in Flows /\ f \notin Reauths
    BY PairingAssumption DEF Flows
  <2>2. PICK r \in Flow :
           /\ Step(f, r) /\ r.step \in {"probing", "checking"} /\ r.name = s
           /\ r.step = "checking" => r.entry \in PairedStation(s, seen)
    BY <1>1, AnnouncedMakes
  <2>3. r.name # None /\ (r.step = "checking" => r.entry # None)
    <3>1. ASSUME NEW e \in PairedStation(s, seen) PROVE e # None
      BY PairedIsAnEntry, NoneIsNothing DEF Entries
    <3>. QED
      BY <2>2, <3>1, NoneIsNothing
  <2>4. UNCHANGED <<stationVars, entries, ignored>>
    BY <1>1 DEF Announced
  <2>. QED
    BY <2>1, <2>2, <2>3, <2>4, OnlyAFlowMoves
<1>2. ASSUME NEW f \in Manuals, NEW h \in Hosts, Typed(f, h) PROVE WellTyped'
  <2>1. f \in Flows /\ f \notin Reauths
    BY PairingAssumption DEF Flows
  <2>2. PICK r \in Flow : Step(f, r) /\ r.step = "probing" /\ r.host = h
    BY <1>2, TypedMakes
  <2>3. UNCHANGED <<stationVars, entries, ignored>> /\ h # None /\ f \notin Discoveries
    BY <1>2, PairingAssumption, NoneIsNothing DEF Typed
  <2>. QED
    BY <2>1, <2>2, <2>3, OnlyAFlowMoves
<1>3. ASSUME NEW f \in Reauths, NEW e \in Entries, Reauth(f, e) PROVE WellTyped'
  <2>1. f \in Flows /\ entries[e].host # None
    BY EntryFields, NoneIsNothing DEF Flows, WellTyped
  <2>2. PICK r \in Flow : Step(f, r) /\ r.step = "probing" /\ r.entry = e /\ r.host = entries[e].host
    BY <1>3, ReauthMakes
  <2>3. UNCHANGED <<stationVars, entries, ignored>> /\ f \notin Discoveries
    BY <1>3, PairingAssumption DEF Reauth
  <2>. QED
    BY <2>1, <2>2, <2>3, OnlyAFlowMoves
<1>4. ASSUME NEW e \in Entries, DeleteEntry(e) PROVE WellTyped'
  <2>1. ASSUME NEW f \in Reauths, flows'[f].step # "idle" PROVE flows'[f].entry \in Entries'
    BY <1>4, <2>1, DeleteEntryMakes, IdleIsAFlow DEF Flows, WellTyped, TypeOK
  <2>2. UNCHANGED <<at, version, window, minted, owner, ignored>> /\ live' \subseteq live
    BY <1>4 DEF DeleteEntry
  <2>3. ASSUME NEW f \in Flows PROVE flows'[f] = flows[f] \/ flows'[f].step = "idle"
    BY <1>4, DeleteEntryMakes, IdleIsAFlow
  <2>4. TypeOK'
    BY <1>4, <2>1, <2>2, <2>3, DeleteEntryMakes DEF WellTyped, TypeOK
  <2>5. StepsHaveTheirData'
    BY <2>3 DEF WellTyped, StepsHaveTheirData
  <2>. QED
    BY <2>4, <2>5 DEF WellTyped
<1>5. ASSUME NEW f \in Flows, Answer(f) PROVE WellTyped'
  <2>1. /\ flows[f].step # "idle" /\ f \in Reauths => flows[f].entry \in Entries
        /\ flows[f].step # "idle" /\ f \in Discoveries => flows[f].name # None
    BY DEF WellTyped, TypeOK, StepsHaveTheirData
  <2>2. CASE Discovered(f)
    <3>1. f \notin Reauths /\ flows[f].step = "probing"
      BY <2>2, PairingAssumption DEF Discovered
    <3>2. flows[f].seen \subseteq Addresses
      BY FlowFields DEF WellTyped, TypeOK
    <3>3. CASE Step(f, Idle)
      BY <2>2, <3>3, IdleIsAFlow, OnlyAFlowMoves DEF Discovered
    <3>. QED
      BY <2>1, <2>2, <3>1, <3>2, <3>3, DiscoveredMakes, NoneIsNothing, OnlyAFlowMoves
      DEF Discovered, KeepsMost
  <2>3. CASE Probed(f)
    <3>1. f \notin Reauths /\ f \notin Discoveries /\ flows[f].host # None
      BY <2>3, PairingAssumption DEF Probed, WellTyped, StepsHaveTheirData
    <3>. QED
      BY <2>3, <3>1, ProbedMakes, OnlyAFlowMoves DEF Probed
  <2>4. CASE ReauthProbed(f)
    <3>1. f \notin Discoveries /\ flows[f].host # None /\ flows[f].step = "probing"
      BY <2>4, PairingAssumption DEF ReauthProbed, WellTyped, StepsHaveTheirData
    <3>. QED
      BY <2>1, <2>4, <3>1, ReauthProbedMakes, OnlyAFlowMoves DEF ReauthProbed, KeepsMost
  <2>5. CASE StoredChecked(f)
    <3>1. f \in Discoveries /\ f \notin Reauths /\ flows[f].entry # None
      BY <2>5, PairingAssumption DEF StoredChecked, WellTyped, TypeOK, StepsHaveTheirData
    <3>2. ASSUME NEW v \in Versions, Write(f, None, v), Step(f, Idle) PROVE WellTyped'
      BY <2>5, <3>2, WriteMakes, IdleIsAFlow, OneFlowMoves DEF StoredChecked, WellTyped, TypeOK
    <3>3. ASSUME NEW r, KeepsMost(f, r), r.step = "seeking", r.name = flows[f].name,
                 UNCHANGED entries
          PROVE  WellTyped'
      BY <2>1, <2>5, <3>1, <3>3, OnlyAFlowMoves DEF StoredChecked, KeepsMost
    <3>. QED
      BY <2>5, <3>2, <3>3, StoredCheckedMakes
  <2>6. CASE Followed(f)
    <3>1. flows[f].seen \subseteq Addresses
      BY FlowFields DEF WellTyped, TypeOK
    <3>2. PICK h \in Addresses \cup {None}, v \in Versions : Write(f, h, v)
      BY <2>6, <3>1, FollowedMakes
    <3>. QED
      BY <2>6, <3>2, FollowedMakes, WriteMakes, IdleIsAFlow, OneFlowMoves
      DEF Followed, WellTyped, TypeOK
  <2>7. CASE Finish(f)
    <3>1. Entries \subseteq Entries' /\ entries' \in [Pairings -> Entry \cup {None}] /\ Step(f, Idle)
      BY <2>7, FinishMakes
    <3>. QED
      BY <2>7, <3>1, IdleIsAFlow, OneFlowMoves DEF Finish, WellTyped, TypeOK
  <2>. QED
    BY <1>5, <2>2, <2>3, <2>4, <2>5, <2>6, <2>7 DEF Answer
<1>6. ASSUME NEW f \in Flows, UserStep(f) PROVE WellTyped'
  <2>1. /\ flows[f].step # "idle" /\ f \in Reauths => flows[f].entry \in Entries
        /\ flows[f].step # "idle" /\ f \in Discoveries => flows[f].name # None
    BY DEF WellTyped, TypeOK, StepsHaveTheirData
  <2>2. flows[f].step \in {"form", "paired"} => flows[f].host # None
    BY DEF WellTyped, TypeOK
  <2>3. CASE PairUnreachable(f)
    BY <2>1, <2>2, <2>3, PairUnreachableMakes, OnlyAFlowMoves DEF PairUnreachable, KeepsMost
  <2>4. CASE WrongCode(f)
    <3>1. PICK r : /\ KeepsMost(f, r) /\ r.step = "form" /\ r.host = flows[f].host
                   /\ r.name = flows[f].name
      BY <2>4, WrongCodeMakes
    <3>2. Entries' = Entries /\ flows[f].step = "form"
      BY <2>4 DEF WrongCode, Entries
    <3>. QED
      BY <2>1, <2>2, <2>4, <3>1, <3>2, WrongCodeMakes, OneFlowMoves
      DEF WrongCode, KeepsMost, WellTyped, TypeOK
  <2>5. CASE RightCode(f)
    <3>1. PICK r : /\ KeepsMost(f, r) /\ r.step = "paired" /\ r.host = flows[f].host
                   /\ r.name = flows[f].name /\ r.token = minted'
      BY <2>5, RightCodeMakes
    <3>2. Entries' = Entries /\ flows[f].step = "form"
      BY <2>5 DEF RightCode, Entries
    <3>3. minted' \in 0 .. MaxPairings /\ minted' # None
      BY <2>5, RightCodeMakes, NoneIsNothing, PairingAssumption DEF Pairings
    <3>4. owner' \in [Pairings -> Stations \cup {None}]
      BY <2>5, RightCodeMakes DEF Answering, WellTyped, TypeOK
    <3>. QED
      BY <2>1, <2>2, <2>5, <3>1, <3>2, <3>3, <3>4, RightCodeMakes, OneFlowMoves
      DEF RightCode, KeepsMost, WellTyped, TypeOK
  <2>6. CASE Dismiss(f)
    BY <2>6, IdleIsAFlow, OnlyAFlowMoves DEF Dismiss
  <2>7. CASE Ignore(f)
    <3>1. Step(f, Idle) /\ UNCHANGED <<stationVars, entries>>
      BY <2>7 DEF Ignore
    <3>2. flows[f].name \in Stations
      BY <2>1, <2>7, FlowFields DEF Ignore, WellTyped, TypeOK
    <3>3. ignored' \subseteq Stations /\ Entries' = Entries
      BY <2>7, <3>1, <3>2 DEF Ignore, WellTyped, TypeOK, Entries
    <3>. QED
      BY <3>1, <3>3, IdleIsAFlow, OneFlowMoves DEF WellTyped, TypeOK
  <2>. QED
    BY <1>6, <2>3, <2>4, <2>5, <2>6, <2>7 DEF UserStep
<1>7. CASE StationStep
  BY <1>7, StationsAreTyped
<1>8. CASE UNCHANGED vars
  BY <1>8 DEF vars, WellTyped, TypeOK, StepsHaveTheirData, Entries
<1>. QED
  BY <1>1, <1>2, <1>3, <1>4, <1>5, <1>6, <1>7, <1>8 DEF Next

\* THEOREM.  config_flow.py keeps the type of everything: a form always has an
\* address to pair at, and a reauth an entry that exists.
THEOREM TypeCorrect == Spec => []TypeOK
<1>1. WellTyped => TypeOK
  BY DEF WellTyped
<1>. QED
  BY <1>1, InitIsTyped, StepIsTyped, PTL DEF Spec

------------------------------------------------------------------------------
(* While no address changes hands. *)

\* A flow moves on, short of a new token: the pairings under way stay fresh,
\* and what the flow stored was one of them.
LEMMA TokensStayFresh ==
    ASSUME WellTyped, TokensAreFresh, NEW f \in Flows, NEW r \in Flow, Step(f, r),
           r.step # "paired", r.entry \in Entries \cup {None, flows[f].entry},
           minted' = minted,
           \A e \in Entries' : \/ e \in Entries
                               \/ flows[f].step = "paired" /\ e = flows[f].token,
           \A e \in Entries' : entries'[e].token <= minted
    PROVE  TokensAreFresh'
<1>1. flows'[f] = r /\ \A g \in Flows \ {f} : flows'[g] = flows[g]
  BY DEF Step, WellTyped, TypeOK
<1>2. \A g \in Flows : flows'[g].entry = None \/ flows'[g].entry <= minted
  BY <1>1 DEF TokensAreFresh
<1>3. \A e \in Entries' : e <= minted
  BY DEF TokensAreFresh
<1>4. ASSUME NEW g \in Flows, flows'[g].step = "paired"
      PROVE  /\ flows'[g].token <= minted /\ flows'[g].token \notin Entries'
             /\ \A h \in Flows : flows'[h].entry # flows'[g].token
             /\ \A h \in Flows \ {g} :
                   flows'[h].step = "paired" => flows'[h].token # flows'[g].token
  <2>1. g # f /\ flows'[g] = flows[g] /\ flows[g].step = "paired"
    BY <1>1, <1>4
  <2>2. flows[g].token # None
    BY <2>1 DEF WellTyped, StepsHaveTheirData
  <2>3. r.entry # flows[g].token
    BY <2>1, <2>2 DEF TokensAreFresh
  <2>4. flows[g].token \notin Entries'
    BY <2>1 DEF TokensAreFresh
  <2>. QED
    BY <1>1, <2>1, <2>3, <2>4 DEF TokensAreFresh
<1>. QED
  BY <1>2, <1>3, <1>4 DEF TokensAreFresh

\* The entries as they were, for as long as their tokens are who they were.
LEMMA EntriesStayTrue ==
    ASSUME NEW Home, WellTyped, TokensAreFresh, EntriesAreTrue(Home), UNCHANGED entries,
           \A n \in Pairings : n <= minted => owner'[n] = owner[n]
    PROVE  EntriesAreTrue(Home)'
<1>1. Entries' = Entries
  BY DEF Entries
<1>2. \A e \in Entries : owner'[entries[e].token] = owner[entries[e].token]
  BY EntryFields DEF WellTyped, TokensAreFresh
<1>. QED
  BY <1>1, <1>2 DEF EntriesAreTrue

\* What one flow does, ending with an entry of its own at most, is true to
\* the other flows if it is to itself.
LEMMA OthersStayTrue ==
    ASSUME NEW Home, Inductive(Home), NEW f \in Flows, NEW r \in Flow, Step(f, r),
           Entries \subseteq Entries',
           \A e \in Entries' :
              \/ e \in Entries /\ entries'[e].name = entries[e].name
              \/ /\ f \in Discoveries /\ flows[f].step = "paired"
                 /\ e = flows[f].token /\ entries'[e].name = flows[f].name,
           \A n \in Pairings : n <= minted => owner'[n] = owner[n],
           f \in Discoveries => AnnouncementIsTrue(Home, f)',
           f \in Reauths => ReauthIsTrue(Home, f)'
    PROVE  FlowsAreTrue(Home)'
<1>1. flows'[f] = r /\ \A g \in Flows \ {f} : flows'[g] = flows[g]
  BY DEF Step, Inductive, WellTyped, TypeOK
<1>2. \A g \in Flows : flows[g].step = "paired" =>
         flows[g].token \in Pairings /\ owner'[flows[g].token] = owner[flows[g].token]
  BY FlowFields DEF Inductive, WellTyped, TypeOK, StepsHaveTheirData, TokensAreFresh
<1>3. ASSUME NEW g \in Discoveries \ {f} PROVE AnnouncementIsTrue(Home, g)'
  <2>1. g \in Flows /\ flows'[g] = flows[g] /\ AnnouncementIsTrue(Home, g)
    BY <1>1 DEF Flows, Inductive, FlowsAreTrue
  <2>2. flows[g].step # "idle" =>
           /\ flows[g].name \in Stations
           /\ \A a \in flows[g].seen : Home[a] = flows[g].name
           /\ \A h \in Discoveries \ {g} : flows'[h].name # flows[g].name
    <3>1. CASE f \in Discoveries
      BY <1>1, <2>1, <3>1, NoneIsNothing DEF AnnouncementIsTrue, Flows
    <3>2. CASE f \notin Discoveries
      BY <1>1, <2>1, <3>2 DEF AnnouncementIsTrue, Flows
    <3>. QED
      BY <3>1, <3>2
  <2>3. flows[g].step \in {"checking", "seeking"} /\ flows[g].entry \in Entries' =>
           entries'[flows[g].entry].name = flows[g].name
    BY <2>1 DEF AnnouncementIsTrue, Inductive, TokensAreFresh
  <2>4. flows[g].step \in {"probing", "form", "paired"} =>
           \A e \in Entries' : entries'[e].name # flows[g].name
    BY <2>1 DEF AnnouncementIsTrue
  <2>. QED
    BY <1>2, <2>1, <2>2, <2>3, <2>4 DEF AnnouncementIsTrue
<1>4. ASSUME NEW g \in Reauths \ {f} PROVE ReauthIsTrue(Home, g)'
  <2>1. g \in Flows /\ flows'[g] = flows[g] /\ ReauthIsTrue(Home, g)
    BY <1>1 DEF Flows, Inductive, FlowsAreTrue
  <2>2. flows[g].step # "idle" =>
           entries'[flows[g].entry].name = entries[flows[g].entry].name
    BY <2>1 DEF Inductive, WellTyped, TypeOK, TokensAreFresh
  <2>. QED
    BY <1>2, <2>1, <2>2 DEF ReauthIsTrue
<1>. QED
  BY <1>3, <1>4 DEF FlowsAreTrue

\* The case in which the entries stay as they are.
LEMMA OneFlowStaysTrue ==
    ASSUME NEW Home, Inductive(Home), WellTyped', NEW f \in Flows, NEW r \in Flow, Step(f, r),
           r.step # "paired", r.entry \in Entries \cup {None, flows[f].entry},
           UNCHANGED <<minted, owner, entries>>,
           f \in Discoveries => AnnouncementIsTrue(Home, f)',
           f \in Reauths => ReauthIsTrue(Home, f)'
    PROVE  Inductive(Home)'
<1>1. Entries' = Entries
  BY DEF Entries
<1>2. TokensAreFresh'
  BY <1>1, TokensStayFresh DEF Inductive, TokensAreFresh
<1>3. EntriesAreTrue(Home)'
  BY EntriesStayTrue DEF Inductive
<1>4. FlowsAreTrue(Home)'
  BY <1>1, OthersStayTrue
<1>. QED
  BY <1>2, <1>3, <1>4 DEF Inductive

\* The case in which the flow ends.
LEMMA EndedFlowStaysTrue ==
    ASSUME NEW Home, Inductive(Home), WellTyped', NEW f \in Flows, Step(f, Idle),
           UNCHANGED <<minted, owner, entries>>
    PROVE  Inductive(Home)'
<1>1. flows'[f] = Idle
  BY DEF Step, Inductive, WellTyped, TypeOK
<1>2. AnnouncementIsTrue(Home, f)' /\ ReauthIsTrue(Home, f)'
  BY <1>1, IdleIsAFlow DEF AnnouncementIsTrue, ReauthIsTrue
<1>. QED
  BY <1>2, IdleIsAFlow, OneFlowStaysTrue

\* The entry an announcement is matched with is the announced station's, by
\* whichever of the two it was found.
LEMMA MatchIsTheStation ==
    ASSUME NEW Home, Inductive(Home), AddressesKept(Home),
           NEW s \in Stations, NEW seen, seen \subseteq at[s]
    PROVE  /\ \A e \in PairedStation(s, seen) : e \in Entries /\ entries[e].name = s
           /\ PairedStation(s, seen) = {} => \A e \in Entries : entries[e].name # s
<1>1. ASSUME NEW e \in PairedStation(s, seen) PROVE e \in Entries /\ entries[e].name = s
  <2>1. e \in Entries /\ (entries[e].name = s \/ entries[e].host \in seen \cup {s})
    BY PairedIsAnEntry
  <2>2. entries[e].host \in Addresses /\ Home[entries[e].host] = entries[e].name
    BY <2>1 DEF Inductive, EntriesAreTrue
  <2>3. entries[e].host # s
    BY <2>2, PairingAssumption
  <2>. QED
    BY <2>1, <2>2, <2>3 DEF AddressesKept
<1>2. PairedStation(s, seen) = {} => \A e \in Entries : entries[e].name # s
  BY DEF PairedStation
<1>. QED
  BY <1>1, <1>2

\* Who answers at an address is the station the address belongs to.
LEMMA HomeAnswers ==
    ASSUME NEW Home, AddressesKept(Home), NEW h \in Addresses, NEW s \in Answering(h)
    PROVE  s \in Stations /\ Home[h] = s
BY PairingAssumption DEF Answering, AddressesKept

\* A follow flow writes into the entry of its own station.
LEMMA WriteStaysTrue ==
    ASSUME NEW Home, Inductive(Home), WellTyped', NEW f \in Discoveries, Step(f, Idle),
           flows[f].step \in {"checking", "seeking"},
           NEW h \in flows[f].seen \cup {None}, NEW v \in Versions, Write(f, h, v),
           UNCHANGED <<minted, owner>>
    PROVE  Inductive(Home)'
<1>1. f \in Flows /\ AnnouncementIsTrue(Home, f)
  BY DEF Flows, Inductive, FlowsAreTrue
<1>2. flows[f].seen \subseteq Addresses /\ h \in Addresses \cup {None}
  BY <1>1, FlowFields DEF Inductive, WellTyped, TypeOK
<1>3. /\ Entries' = Entries
      /\ \A d \in Entries \ {flows[f].entry} : entries'[d] = entries[d]
      /\ flows[f].entry \in Entries =>
            /\ entries'[flows[f].entry].token = entries[flows[f].entry].token
            /\ entries'[flows[f].entry].name \in {flows[f].name, entries[flows[f].entry].name}
            /\ entries'[flows[f].entry].host =
                  IF h = None THEN entries[flows[f].entry].host ELSE h
  BY <1>1, <1>2, WriteMakes DEF Inductive
<1>4. ASSUME NEW e \in Entries
      PROVE  /\ entries'[e].name = entries[e].name /\ entries'[e].token = entries[e].token
             /\ entries'[e].host \in Addresses /\ Home[entries'[e].host] = entries[e].name
  <2>1. entries[e].host \in Addresses /\ Home[entries[e].host] = entries[e].name
    BY DEF Inductive, EntriesAreTrue
  <2>2. CASE e = flows[f].entry
    BY <1>1, <1>2, <1>3, <2>1, <2>2 DEF AnnouncementIsTrue
  <2>3. CASE e # flows[f].entry
    BY <1>3, <2>1, <2>3
  <2>. QED
    BY <2>2, <2>3
<1>5. EntriesAreTrue(Home)'
  BY <1>3, <1>4 DEF Inductive, EntriesAreTrue
<1>6. TokensAreFresh'
  BY <1>1, <1>3, <1>4, IdleIsAFlow, TokensStayFresh DEF Inductive, TokensAreFresh
<1>7. flows'[f] = Idle
  BY <1>1 DEF Step, Inductive, WellTyped, TypeOK
<1>8. AnnouncementIsTrue(Home, f)' /\ ReauthIsTrue(Home, f)'
  BY <1>7, IdleIsAFlow DEF AnnouncementIsTrue, ReauthIsTrue
<1>9. FlowsAreTrue(Home)'
  BY <1>1, <1>3, <1>4, <1>8, IdleIsAFlow, OthersStayTrue
<1>. QED
  BY <1>5, <1>6, <1>9 DEF Inductive

\* The station that mints the pairing is the one the form was opened for.
LEMMA RightCodeStaysTrue ==
    ASSUME NEW Home, Inductive(Home), AddressesKept(Home), WellTyped',
           NEW f \in Discoveries \cup Reauths, RightCode(f)
    PROVE  Inductive(Home)'
<1>1. f \in Flows /\ flows[f].step = "form" /\ UNCHANGED entries
  BY DEF RightCode, Flows
<1>2. PICK s \in Answering(flows[f].host) : owner' = [owner EXCEPT ![minted + 1] = s]
  BY <1>1, RightCodeMakes DEF Inductive
<1>3. PICK r : /\ KeepsMost(f, r) /\ r.step = "paired" /\ r.host = flows[f].host
               /\ r.name = flows[f].name /\ r.token = minted'
  BY <1>1, RightCodeMakes DEF Inductive
<1>4. /\ minted' = minted + 1 /\ minted' \in Pairings /\ minted \in Nat
      /\ owner'[minted'] = s
      /\ \A n \in Pairings : n <= minted => owner'[n] = owner[n]
  BY <1>1, <1>2, RightCodeMakes, NoneIsNothing, PairingAssumption DEF Inductive, WellTyped, TypeOK
<1>5. Entries' = Entries
  BY <1>1 DEF Entries
<1>6. flows'[f] = r /\ \A g \in Flows \ {f} : flows'[g] = flows[g]
  BY <1>1, <1>3 DEF KeepsMost, Step, Inductive, WellTyped, TypeOK
<1>7. EntriesAreTrue(Home)'
  BY <1>1, <1>4, EntriesStayTrue DEF Inductive
<1>8. TokensAreFresh'
  <2>1. ASSUME NEW g \in Flows
        PROVE  /\ flows'[g].entry = flows[g].entry
               /\ flows[g].entry \in Pairings \cup {None} /\ flows[g].token \in Pairings \cup {None}
    BY <1>3, <1>6, FlowFields DEF KeepsMost, Inductive, WellTyped, TypeOK
  <2>2. ASSUME NEW e \in Entries
        PROVE  /\ e \in Nat /\ entries[e].token \in Nat /\ e <= minted /\ entries[e].token <= minted
    BY EntryFields, NoneIsNothing DEF Inductive, WellTyped, TokensAreFresh
  <2>3. ASSUME NEW g \in Flows, flows[g].step = "paired"
        PROVE  flows[g].token \in Nat /\ flows[g].token <= minted
    BY <2>1, <2>3, NoneIsNothing DEF Inductive, WellTyped, StepsHaveTheirData, TokensAreFresh
  <2>4. ASSUME NEW g \in Flows
        PROVE  flows[g].entry = None \/ (flows[g].entry \in Nat /\ flows[g].entry <= minted)
    BY <2>1, NoneIsNothing DEF Inductive, TokensAreFresh
  <2>5. \A g \in Flows : flows'[g].entry = None \/ flows'[g].entry <= minted'
    BY <1>4, <2>1, <2>4
  <2>6. \A e \in Entries' : e <= minted' /\ entries'[e].token <= minted'
    BY <1>1, <1>4, <1>5, <2>2
  <2>7. ASSUME NEW g \in Flows, flows'[g].step = "paired"
        PROVE  /\ flows'[g].token <= minted' /\ flows'[g].token \notin Entries'
               /\ \A h \in Flows : flows'[h].entry # flows'[g].token
               /\ \A h \in Flows \ {g} :
                     flows'[h].step = "paired" => flows'[h].token # flows'[g].token
    <3>1. CASE g = f
      <4>1. minted' \notin Entries /\ minted' # None
        BY <1>4, <2>2, NoneIsNothing
      <4>2. \A h \in Flows : flows[h].entry # minted'
        BY <1>4, <2>4, <4>1
      <4>3. \A h \in Flows : flows[h].step = "paired" => flows[h].token # minted'
        BY <1>4, <2>3
      <4>. QED
        BY <1>3, <1>4, <1>5, <1>6, <2>1, <3>1, <4>1, <4>2, <4>3
    <3>2. CASE g # f
      <4>1. flows[g].step = "paired" /\ flows'[g] = flows[g]
        BY <1>6, <2>7, <3>2
      <4>2. flows[g].token <= minted' /\ flows[g].token # minted'
        BY <1>4, <2>3, <4>1
      <4>3. ASSUME NEW h \in Flows \ {g}, flows'[h].step = "paired"
            PROVE  flows'[h].token # flows[g].token
        BY <1>3, <1>6, <4>1, <4>2, <4>3 DEF Inductive, TokensAreFresh
      <4>. QED
        BY <1>5, <2>1, <4>1, <4>2, <4>3 DEF Inductive, TokensAreFresh
    <3>. QED
      BY <3>1, <3>2
  <2>. QED
    BY <2>5, <2>6, <2>7 DEF TokensAreFresh
<1>9. f \in Discoveries => AnnouncementIsTrue(Home, f)'
  <2>1. CASE f \in Discoveries
    <3>1. AnnouncementIsTrue(Home, f)
      BY <2>1 DEF Inductive, FlowsAreTrue
    <3>2. s = flows[f].name
      BY <1>1, <1>2, <3>1, HomeAnswers DEF AnnouncementIsTrue
    <3>. QED
      BY <1>1, <1>3, <1>4, <1>5, <1>6, <3>1, <3>2 DEF AnnouncementIsTrue, KeepsMost, Flows
  <2>. QED
    BY <2>1
<1>10. f \in Reauths => ReauthIsTrue(Home, f)'
  <2>1. CASE f \in Reauths
    <3>1. ReauthIsTrue(Home, f)
      BY <2>1 DEF Inductive, FlowsAreTrue
    <3>2. s = entries[flows[f].entry].name
      BY <1>1, <1>2, <3>1, HomeAnswers DEF ReauthIsTrue
    <3>. QED
      BY <1>1, <1>3, <1>4, <1>6, <3>1, <3>2 DEF ReauthIsTrue, KeepsMost
  <2>. QED
    BY <2>1
<1>11. FlowsAreTrue(Home)'
  BY <1>1, <1>3, <1>4, <1>5, <1>9, <1>10, OthersStayTrue DEF KeepsMost
<1>. QED
  BY <1>7, <1>8, <1>11 DEF Inductive

\* The token is stored with the station that minted it.
LEMMA FinishStaysTrue ==
    ASSUME NEW Home, Inductive(Home), WellTyped', NEW f \in Discoveries \cup Reauths, Finish(f)
    PROVE  Inductive(Home)'
<1>1. f \in Flows /\ Step(f, Idle) /\ flows[f].step = "paired" /\ UNCHANGED <<minted, owner>>
  BY FinishMakes DEF Flows, Finish, Inductive, stationVars
<1>2. flows'[f] = Idle
  BY <1>1 DEF Step, Inductive, WellTyped, TypeOK
<1>3. AnnouncementIsTrue(Home, f)' /\ ReauthIsTrue(Home, f)'
  BY <1>2, IdleIsAFlow DEF AnnouncementIsTrue, ReauthIsTrue
<1>4. flows[f].token <= minted /\ flows[f].token \notin Entries
  BY <1>1 DEF Inductive, TokensAreFresh
<1>5. CASE f \in Reauths
  <2>1. ReauthIsTrue(Home, f)
    BY <1>5 DEF Inductive, FlowsAreTrue
  <2>2. /\ flows[f].entry \in Entries /\ Entries' = Entries
        /\ entries'[flows[f].entry].token = flows[f].token
        /\ entries'[flows[f].entry].name = entries[flows[f].entry].name
        /\ entries'[flows[f].entry].host = entries[flows[f].entry].host
        /\ \A e \in Entries \ {flows[f].entry} : entries'[e] = entries[e]
    BY <1>1, <1>5, FinishMakes DEF Inductive
  <2>3. TokensAreFresh'
    BY <1>1, <1>4, <2>2, IdleIsAFlow, TokensStayFresh DEF Inductive, TokensAreFresh
  <2>4. owner[flows[f].token] = entries[flows[f].entry].name
    BY <1>1, <2>1 DEF ReauthIsTrue
  <2>5. EntriesAreTrue(Home)'
    BY <1>1, <2>2, <2>4 DEF Inductive, EntriesAreTrue
  <2>6. FlowsAreTrue(Home)'
    BY <1>1, <1>3, <2>2, IdleIsAFlow, OthersStayTrue
  <2>. QED
    BY <2>3, <2>5, <2>6 DEF Inductive
<1>6. CASE f \in Discoveries
  <2>1. AnnouncementIsTrue(Home, f) /\ f \notin Reauths
    BY <1>6, PairingAssumption DEF Inductive, FlowsAreTrue
  <2>2. /\ Entries' = Entries \cup {flows[f].token}
        /\ entries'[flows[f].token].token = flows[f].token
        /\ entries'[flows[f].token].name = flows[f].name
        /\ entries'[flows[f].token].host = flows[f].host
        /\ \A e \in Entries : entries'[e] = entries[e]
    BY <1>1, <1>4, <2>1, FinishMakes DEF Inductive
  <2>3. TokensAreFresh'
    BY <1>1, <1>4, <2>2, IdleIsAFlow, TokensStayFresh DEF Inductive, TokensAreFresh
  <2>4. /\ flows[f].name \in Stations /\ flows[f].host \in Addresses
        /\ Home[flows[f].host] = flows[f].name /\ owner[flows[f].token] = flows[f].name
        /\ \A e \in Entries : entries[e].name # flows[f].name
    BY <1>1, <2>1 DEF AnnouncementIsTrue
  <2>5. EntriesAreTrue(Home)'
    BY <1>1, <2>2, <2>4 DEF Inductive, EntriesAreTrue
  <2>6. FlowsAreTrue(Home)'
    BY <1>1, <1>3, <1>6, <2>2, IdleIsAFlow, OthersStayTrue
  <2>. QED
    BY <2>3, <2>5, <2>6 DEF Inductive
<1>. QED
  BY <1>5, <1>6

\* A deleted entry leaves nothing behind: its reauths go with it, and a follow
\* flow that matched it finds nothing to write.
LEMMA DeleteEntryStaysTrue ==
    ASSUME NEW Home, Inductive(Home), WellTyped', NEW e \in Entries, DeleteEntry(e)
    PROVE  Inductive(Home)'
<1>1. /\ Entries' = Entries \ {e} /\ \A d \in Entries' : entries'[d] = entries[d]
      /\ \A f \in Flows : flows'[f] = IF f \in Reauths /\ flows[f].entry = e
                                       THEN Idle ELSE flows[f]
  BY DeleteEntryMakes DEF Inductive
<1>2. UNCHANGED <<minted, owner>>
  BY DEF DeleteEntry
<1>3. TokensAreFresh'
  <2>1. ASSUME NEW f \in Flows
        PROVE  \/ flows'[f] = flows[f]
               \/ flows'[f].step = "idle" /\ flows'[f].entry = None
    BY <1>1, IdleIsAFlow
  <2>2. ASSUME NEW f \in Flows, flows'[f].step = "paired"
        PROVE  flows'[f] = flows[f] /\ flows[f].token # None
    BY <2>1, <2>2 DEF Inductive, WellTyped, StepsHaveTheirData
  <2>. QED
    BY <1>1, <1>2, <2>1, <2>2 DEF Inductive, TokensAreFresh
<1>4. EntriesAreTrue(Home)'
  BY <1>1, <1>2 DEF Inductive, EntriesAreTrue
<1>5. ASSUME NEW f \in Discoveries PROVE AnnouncementIsTrue(Home, f)'
  <2>1. \A g \in Discoveries : g \in Flows /\ flows'[g] = flows[g]
    BY <1>1, PairingAssumption DEF Flows
  <2>2. AnnouncementIsTrue(Home, f)
    BY DEF Inductive, FlowsAreTrue
  <2>. QED
    BY <1>1, <1>2, <2>1, <2>2 DEF AnnouncementIsTrue
<1>6. ASSUME NEW f \in Reauths PROVE ReauthIsTrue(Home, f)'
  <2>1. CASE flows[f].entry = e
    BY <1>1, <2>1, IdleIsAFlow DEF Flows, ReauthIsTrue
  <2>2. CASE flows[f].entry # e
    <3>1. ReauthIsTrue(Home, f) /\ flows'[f] = flows[f] /\ f \in Flows
      BY <1>1, <2>2 DEF Inductive, FlowsAreTrue, Flows
    <3>2. flows[f].step # "idle" => entries'[flows[f].entry] = entries[flows[f].entry]
      BY <1>1, <2>2, <3>1 DEF Inductive, WellTyped, TypeOK
    <3>. QED
      BY <1>2, <3>1, <3>2 DEF ReauthIsTrue
  <2>. QED
    BY <2>1, <2>2
<1>. QED
  BY <1>3, <1>4, <1>5, <1>6 DEF Inductive, FlowsAreTrue

\* Nothing is wrong before the first flow.
LEMMA InitIsTrue == \A Home : Init => Inductive(Home)
<1> SUFFICES ASSUME NEW Home, Init PROVE Inductive(Home)
  OBVIOUS
<1>1. /\ Entries = {} /\ \A f \in Flows : flows[f] = Idle
      /\ Discoveries \subseteq Flows /\ Reauths \subseteq Flows
  BY DEF Init, Entries, Flows
<1>2. TokensAreFresh /\ EntriesAreTrue(Home) /\ FlowsAreTrue(Home)
  BY <1>1, IdleIsAFlow DEF TokensAreFresh, EntriesAreTrue, FlowsAreTrue,
     AnnouncementIsTrue, ReauthIsTrue
<1>. QED
  BY <1>2, InitIsTyped DEF Inductive

\* Every action keeps the invariant.
LEMMA StepStaysTrue ==
    ASSUME NEW Home, Manuals = {}, Inductive(Home), AddressesKept(Home), [Next]_vars
    PROVE  Inductive(Home)'
<1>. USE DEF stationVars
<1>0. WellTyped' /\ Flows = Discoveries \cup Reauths /\ Discoveries \cap Reauths = {}
  BY StepIsTyped, PairingAssumption DEF Inductive, Flows
<1>1. ASSUME NEW f \in Discoveries, NEW s \in Stations, NEW seen \in SUBSET Addresses,
             Announced(f, s, seen)
      PROVE  Inductive(Home)'
  <2>1. PICK r \in Flow :
           /\ Step(f, r) /\ r.name = s /\ r.seen = seen /\ r.token = None
           /\ \/ r.step = "probing" /\ r.entry = None /\ PairedStation(s, seen) = {}
              \/ r.step = "checking" /\ r.entry \in PairedStation(s, seen)
    BY <1>1, AnnouncedMakes DEF Inductive
  <2>2. /\ seen \subseteq at[s] /\ \A g \in Discoveries : flows[g].name # s
        /\ UNCHANGED <<minted, owner, entries>>
    BY <1>1 DEF Announced
  <2>3. flows'[f] = r /\ \A g \in Flows \ {f} : flows'[g] = flows[g]
    BY <1>0, <2>1 DEF Step, Inductive, WellTyped, TypeOK
  <2>4. Entries' = Entries
    BY <2>2 DEF Entries
  <2>5. AnnouncementIsTrue(Home, f)'
    BY <1>0, <2>1, <2>2, <2>3, <2>4, MatchIsTheStation DEF AnnouncementIsTrue, AddressesKept
  <2>6. r.entry \in Entries \cup {None, flows[f].entry}
    BY <2>1, PairedIsAnEntry
  <2>. QED
    BY <1>0, <2>1, <2>2, <2>5, <2>6, OneFlowStaysTrue
<1>2. ASSUME NEW f \in Reauths, NEW e \in Entries, Reauth(f, e) PROVE Inductive(Home)'
  <2>1. PICK r \in Flow : /\ Step(f, r) /\ r.step = "probing" /\ r.entry = e
                          /\ r.host = entries[e].host
    BY <1>2, ReauthMakes DEF Inductive
  <2>2. flows'[f] = r /\ UNCHANGED <<minted, owner, entries>>
    BY <1>0, <1>2, <2>1 DEF Reauth, Step, Inductive, WellTyped, TypeOK
  <2>3. ReauthIsTrue(Home, f)'
    BY <2>1, <2>2 DEF ReauthIsTrue, Inductive, EntriesAreTrue
  <2>. QED
    BY <1>0, <2>1, <2>2, <2>3, OneFlowStaysTrue
<1>3. ASSUME NEW e \in Entries, DeleteEntry(e) PROVE Inductive(Home)'
  BY <1>0, <1>3, DeleteEntryStaysTrue
<1>4. ASSUME NEW f \in Flows, Answer(f) PROVE Inductive(Home)'
  <2>1. CASE Discovered(f)
    <3>1. /\ f \in Discoveries /\ flows[f].step = "probing" /\ AnnouncementIsTrue(Home, f)
          /\ UNCHANGED <<minted, owner, entries>>
      BY <2>1 DEF Discovered, Inductive, FlowsAreTrue
    <3>2. CASE Step(f, Idle)
      BY <1>0, <3>1, <3>2, EndedFlowStaysTrue
    <3>3. ASSUME NEW r, KeepsMost(f, r), r.step = "form", r.host \in flows[f].seen,
                 r.name = flows[f].name
          PROVE  Inductive(Home)'
      <4>1. flows'[f] = r /\ \A g \in Flows \ {f} : flows'[g] = flows[g]
        BY <3>3 DEF KeepsMost, Step, Inductive, WellTyped, TypeOK
      <4>2. flows[f].seen \subseteq Addresses /\ Entries' = Entries
        BY <3>1, FlowFields DEF Inductive, WellTyped, TypeOK, Entries
      <4>3. AnnouncementIsTrue(Home, f)'
        BY <1>0, <3>1, <3>3, <4>1, <4>2 DEF AnnouncementIsTrue, KeepsMost
      <4>. QED
        BY <1>0, <3>1, <3>3, <4>3, OneFlowStaysTrue DEF KeepsMost
    <3>. QED
      BY <2>1, <3>2, <3>3, DiscoveredMakes DEF Inductive
  <2>2. CASE Probed(f)
    BY <2>2 DEF Probed
  <2>3. CASE ReauthProbed(f)
    <3>1. /\ f \in Reauths /\ flows[f].step = "probing" /\ ReauthIsTrue(Home, f)
          /\ UNCHANGED <<minted, owner, entries>>
      BY <2>3 DEF ReauthProbed, Inductive, FlowsAreTrue
    <3>2. PICK r : KeepsMost(f, r) /\ r.step = "form" /\ r.host = flows[f].host
      BY <2>3, ReauthProbedMakes DEF Inductive
    <3>3. flows'[f] = r
      BY <3>2 DEF KeepsMost, Step, Inductive, WellTyped, TypeOK
    <3>4. ReauthIsTrue(Home, f)'
      BY <3>1, <3>2, <3>3 DEF ReauthIsTrue, KeepsMost
    <3>. QED
      BY <1>0, <3>1, <3>2, <3>4, OneFlowStaysTrue DEF KeepsMost
  <2>4. CASE StoredChecked(f)
    <3>1. /\ f \in Discoveries /\ flows[f].step = "checking" /\ UNCHANGED <<minted, owner>>
      BY <2>4 DEF StoredChecked, Inductive, WellTyped, StepsHaveTheirData
    <3>2. ASSUME NEW v \in Versions, Write(f, None, v), Step(f, Idle) PROVE Inductive(Home)'
      BY <1>0, <3>1, <3>2, WriteStaysTrue
    <3>3. ASSUME NEW r, KeepsMost(f, r), r.step = "seeking", r.name = flows[f].name,
                 UNCHANGED entries
          PROVE  Inductive(Home)'
      <4>1. flows'[f] = r /\ \A g \in Flows \ {f} : flows'[g] = flows[g]
        BY <3>3 DEF KeepsMost, Step, Inductive, WellTyped, TypeOK
      <4>2. AnnouncementIsTrue(Home, f) /\ Entries' = Entries
        BY <3>1, <3>3 DEF Inductive, FlowsAreTrue, Entries
      <4>3. AnnouncementIsTrue(Home, f)'
        BY <1>0, <3>1, <3>3, <4>1, <4>2 DEF AnnouncementIsTrue, KeepsMost
      <4>. QED
        BY <1>0, <3>1, <3>3, <4>3, OneFlowStaysTrue DEF KeepsMost
    <3>. QED
      BY <2>4, <3>2, <3>3, StoredCheckedMakes DEF Inductive
  <2>5. CASE Followed(f)
    <3>1. /\ f \in Discoveries /\ flows[f].step = "seeking" /\ UNCHANGED <<minted, owner>>
      BY <2>5 DEF Followed, Inductive, WellTyped, StepsHaveTheirData
    <3>. QED
      BY <1>0, <2>5, <3>1, FollowedMakes, WriteStaysTrue DEF Inductive
  <2>6. CASE Finish(f)
    BY <1>0, <2>6, FinishStaysTrue
  <2>. QED
    BY <1>4, <2>1, <2>2, <2>3, <2>4, <2>5, <2>6 DEF Answer
<1>5. ASSUME NEW f \in Flows, UserStep(f) PROVE Inductive(Home)'
  <2>1. ASSUME NEW r, KeepsMost(f, r), r.step = "form", r.host = flows[f].host,
               r.name = flows[f].name, flows[f].step \in {"form", "paired"},
               UNCHANGED <<minted, owner, entries>>
        PROVE  Inductive(Home)'
    <3>1. flows'[f] = r /\ \A g \in Flows \ {f} : flows'[g] = flows[g]
      BY <2>1 DEF KeepsMost, Step, Inductive, WellTyped, TypeOK
    <3>2. Entries' = Entries
      BY <2>1 DEF Entries
    <3>3. f \in Discoveries => AnnouncementIsTrue(Home, f)'
      BY <1>0, <2>1, <3>1, <3>2 DEF AnnouncementIsTrue, KeepsMost, Inductive, FlowsAreTrue
    <3>4. f \in Reauths => ReauthIsTrue(Home, f)'
      BY <2>1, <3>1 DEF ReauthIsTrue, KeepsMost, Inductive, FlowsAreTrue
    <3>. QED
      BY <1>0, <2>1, <3>3, <3>4, OneFlowStaysTrue DEF KeepsMost
  <2>2. CASE PairUnreachable(f)
    BY <2>1, <2>2, PairUnreachableMakes DEF PairUnreachable, Inductive
  <2>3. CASE WrongCode(f)
    BY <2>1, <2>3, WrongCodeMakes DEF WrongCode, Inductive
  <2>4. CASE RightCode(f)
    BY <1>0, <2>4, RightCodeStaysTrue
  <2>5. CASE Dismiss(f)
    BY <1>0, <2>5, EndedFlowStaysTrue DEF Dismiss
  <2>6. CASE Ignore(f)
    BY <1>0, <2>6, EndedFlowStaysTrue DEF Ignore
  <2>. QED
    BY <1>5, <2>2, <2>3, <2>4, <2>5, <2>6 DEF UserStep
<1>6. ASSUME UNCHANGED <<minted, owner, entries, flows>> PROVE Inductive(Home)'
  BY <1>0, <1>6 DEF Inductive, TokensAreFresh, EntriesAreTrue, FlowsAreTrue,
     AnnouncementIsTrue, ReauthIsTrue, Entries
<1>7. CASE StationStep
  BY <1>6, <1>7, StationsAreTyped DEF Inductive
<1>8. CASE UNCHANGED vars
  BY <1>6, <1>8 DEF vars
<1>. QED
  BY <1>1, <1>2, <1>3, <1>4, <1>5, <1>6, <1>7, <1>8 DEF Next

\* THEOREM.  config_flow.py never makes two entries for a station, however
\* many announcements, forms and reauths run at once, whatever answers are
\* lost and whatever the user deletes or ignores -- provided no address passes
\* from one station to another, and nobody types a host.
THEOREM OneStationOneEntry ==
    ASSUME NEW Home \in [Addresses -> Stations], Manuals = {}
    PROVE  Spec /\ []AddressesKept(Home) => []OneEntryPerStation
<1>1. Init => Inductive(Home)
  BY InitIsTrue
<1>2. Inductive(Home) /\ AddressesKept(Home) /\ [Next]_vars => Inductive(Home)'
  BY StepStaysTrue
<1>3. Inductive(Home) => OneEntryPerStation
  BY DEF Inductive, EntriesAreTrue, OneEntryPerStation
<1>. QED
  BY <1>1, <1>2, <1>3, PTL DEF Spec
==============================================================================
