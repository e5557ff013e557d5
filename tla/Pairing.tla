-------------------------------- MODULE Pairing --------------------------------
(****************************************************************************)
(* config_flow.py: how stations become entries, and how an entry keeps      *)
(* pointing at its station.  Flows of three kinds run side by side -- from  *)
(* an announcement (zeroconf), from a typed host (user), and for a token    *)
(* the station no longer takes (reauth) -- while stations change address.   *)
(*                                                                          *)
(* What runs between two awaits of a flow is one action.  A pairing is a    *)
(* number: it is the source_id and the token the station mints together.    *)
(****************************************************************************)
EXTENDS Naturals, FiniteSets

CONSTANTS
    Stations,           \* the stations, each also its own display name
    Addresses,          \* addresses on the LAN
    Discoveries,        \* zeroconf flows at a time
    Manuals,            \* user flows at a time
    Reauths,            \* reauth flows at a time
    Ignoring,           \* the user may ignore a discovered station
    None,
    MaxPairings,        \* bound: pairings minted
    MaxVersion,         \* bound: releases of the station's software
    PairingAttempts     \* PAIRING_ATTEMPTS

ASSUME PairingAssumption ==
    /\ None \notin Stations \cup Addresses \cup Nat
    /\ Stations \cap Addresses = {}
    /\ Discoveries \cap (Manuals \cup Reauths) = {} /\ Manuals \cap Reauths = {}
    /\ Ignoring \in BOOLEAN
    /\ MaxPairings \in Nat /\ MaxVersion \in Nat /\ PairingAttempts \in Nat \ {0}

VARIABLES
    at,         \* the addresses a station answers at; no two share one
    version,    \* its release; the first is too old to answer /v1/discover
    window,     \* its pairing window, and the wrong codes it has counted
    minted,     \* how many pairings have been made
    owner,      \* history: the station that minted each
    live,       \* the pairings the stations recognise
    entries,    \* the config entries, each under its first pairing
    ignored,    \* the names ignored by the user
    flows       \* the flows: see Flow

stationVars == <<at, version, window, minted, owner, live>>
vars == <<stationVars, entries, ignored, flows>>

Flows == Discoveries \cup Manuals \cup Reauths
Pairings == 1 .. MaxPairings

\* A host is an address, or a station's hostname, which is good anywhere.
Hosts == Addresses \cup Stations

\* A release, where the first tells a probe nothing: not its name, and no
\* version (StationInfo).
Versions == 0 .. MaxVersion
Untold == 0

\* An entry's data: CONF_HOST, CONF_STATION_NAME, CONF_STATION_VERSION, and
\* CONF_TOKEN with its source_id.
Entry == [host : Hosts, name : Stations \cup {None}, version : Versions, token : Pairings]
ASSUME NoneAssumption == None \notin Entry

\* renames: the entry a flow matched had another name, or none, when it did.
\* "probing": is there a station, and which release; "checking": does the
\* stored host of the entry answer; "seeking": which announced address does;
\* "form": the pairing code is asked for; "paired": the reply to it is on its
\* way, with the token.
Flow == [step : {"idle", "probing", "checking", "seeking", "form", "paired"},
         host : Hosts \cup {None}, name : Stations \cup {None}, version : Versions,
         seen : SUBSET Addresses, entry : Pairings \cup {None}, renames : BOOLEAN,
         token : Pairings \cup {None}, wrong : 0 .. PairingAttempts,
         error : {"none", "cannot_connect", "invalid_code", "window_exhausted"}]

Idle == [step |-> "idle", host |-> None, name |-> None, version |-> Untold, seen |-> {},
         entry |-> None, renames |-> FALSE, token |-> None, wrong |-> 0, error |-> "none"]

Init ==
    /\ at \in [Stations -> {{a} : a \in Addresses}]
    /\ \A s, t \in Stations : s # t => at[s] # at[t]
    /\ version \in [Stations -> Versions]
    /\ window = [s \in Stations |-> [open |-> FALSE, wrong |-> 0]]
    /\ minted = 0
    /\ owner = [n \in Pairings |-> None]
    /\ live = {}
    /\ entries = [n \in Pairings |-> None]
    /\ ignored = {}
    /\ flows = [f \in Flows |-> Idle]

------------------------------------------------------------------------------
(* The helpers of the steps. *)

\* Who answers a probe of h: anything that listens there will do.
Answering(h) == {s \in Stations : (h = s /\ at[s] # {}) \/ h \in at[s]}

Entries == {e \in Pairings : entries[e] # None}

Step(f, new) == flows' = [flows EXCEPT ![f] = new]

\* Mutant: an entry is only recognised by where it points.
PairedByAddress(name, seen) ==
    {e \in Entries : entries[e].host \in seen \cup {name}}

\* _async_paired_station: by the name, else by an announced address or the
\* announced hostname.
PairedStation(name, seen) ==
    LET byName == {e \in Entries : entries[e].name = name}
    IN  IF byName # {} THEN byName ELSE {e \in Entries : entries[e].host \in seen \cup {name}}

------------------------------------------------------------------------------
(* async_step_zeroconf and async_step_user, up to the pairing form. *)

\* Mutant: the flow's unique id is set without raise_on_progress.
AnnouncedAgain(f, s, seen) ==
    /\ flows[f].step = "idle"
    /\ seen \subseteq at[s] /\ seen # {}
    /\ s \notin ignored
    /\ \/ /\ PairedStation(s, seen) = {}
          /\ Step(f, [Idle EXCEPT !.step = "probing", !.name = s, !.seen = seen])
       \/ \E e \in PairedStation(s, seen) :
             Step(f, [Idle EXCEPT !.step = "checking", !.host = entries[e].host,
                                  !.name = s, !.seen = seen, !.entry = e,
                                  !.renames = (entries[e].name # s)])
    /\ UNCHANGED <<stationVars, entries, ignored>>

\* A station announces itself under its name: one flow for that name at a
\* time, none for a name that is ignored; a paired station is followed, any
\* other is probed at what it announced.
Announced(f, s, seen) ==
    /\ flows[f].step = "idle"
    /\ seen \subseteq at[s] /\ seen # {}
    /\ \A g \in Discoveries : flows[g].name # s
    /\ s \notin ignored
    /\ \/ /\ PairedStation(s, seen) = {}
          /\ Step(f, [Idle EXCEPT !.step = "probing", !.name = s, !.seen = seen])
       \/ \E e \in PairedStation(s, seen) :
             Step(f, [Idle EXCEPT !.step = "checking", !.host = entries[e].host,
                                  !.name = s, !.seen = seen, !.entry = e,
                                  !.renames = (entries[e].name # s)])
    /\ UNCHANGED <<stationVars, entries, ignored>>

\* _async_reachable_address: an address that answers, with the station that
\* did, and so what the probe learned; nothing if none does.
Reachable(hosts) == {where \in hosts \X Stations : where[2] \in Answering(where[1])}

\* Mutant: the card is shown whether or not an address answered.
DiscoveredAnyway(f) ==
    /\ f \in Discoveries /\ flows[f].step = "probing"
    /\ Step(f, [flows[f] EXCEPT !.step = "form"])
    /\ UNCHANGED <<stationVars, entries, ignored>>

\* An unpaired station: the card is shown, with an address that answered.
Discovered(f) ==
    /\ f \in Discoveries /\ flows[f].step = "probing"
    /\ \/ Reachable(flows[f].seen) = {} /\ Step(f, Idle)
       \/ \E where \in Reachable(flows[f].seen) :
             Step(f, [flows[f] EXCEPT !.step = "form", !.host = where[1],
                                      !.version = version[where[2]]])
    /\ UNCHANGED <<stationVars, entries, ignored>>

\* The user types a host that no entry has, and it is probed.
Typed(f, h) ==
    /\ flows[f].step = "idle"
    /\ \A e \in Entries : entries[e].host # h
    /\ Step(f, [Idle EXCEPT !.step = "probing", !.host = h])
    /\ UNCHANGED <<stationVars, entries, ignored>>

\* An old station tells neither its name nor its version.
Probed(f) ==
    /\ f \in Manuals /\ flows[f].step = "probing"
    /\ \/ /\ Answering(flows[f].host) = {}
          /\ Step(f, [Idle EXCEPT !.error = "cannot_connect"])
       \/ \E s \in Answering(flows[f].host) :
             Step(f, [flows[f] EXCEPT !.step = "form", !.version = version[s],
                                      !.name = IF version[s] = Untold THEN None ELSE s])
    /\ UNCHANGED <<stationVars, entries, ignored>>

------------------------------------------------------------------------------
(* _async_follow_station *)

\* Mutant: what the probe told is thrown away.
WriteUnversioned(f, h, v) ==
    LET e == flows[f].entry
    IN  entries' = IF e \notin Entries THEN entries
                   ELSE [entries EXCEPT ![e].name = IF flows[f].renames THEN flows[f].name ELSE @,
                                        ![e].host = IF h = None THEN @ ELSE h]

\* Mutant: the name is looked at after the probes, like the version.
WriteLate(f, h, v) ==
    LET e == flows[f].entry
    IN  entries' = IF e \notin Entries THEN entries
                   ELSE [entries EXCEPT
                            ![e].name = flows[f].name,
                            ![e].host = IF h = None THEN @ ELSE h,
                            ![e].version = IF v = Untold THEN @ ELSE v]

\* What the flow writes into the entry it matched: the announced name if it
\* was not the entry's before the probes, an address if a new one was found,
\* and the version if it was told one.
Write(f, h, v) ==
    LET e == flows[f].entry
    IN  entries' = IF e \notin Entries THEN entries
                   ELSE [entries EXCEPT
                            ![e].name = IF flows[f].renames THEN flows[f].name ELSE @,
                            ![e].host = IF h = None THEN @ ELSE h,
                            ![e].version = IF v = Untold THEN @ ELSE v]

\* Mutant: an announced address is always taken, whatever is stored.
FollowAnyway(f) ==
    /\ flows[f].step = "checking"
    /\ Step(f, [flows[f] EXCEPT !.step = "seeking"])
    /\ UNCHANGED <<stationVars, entries, ignored>>

\* The stored host answers, or another is looked for.
StoredChecked(f) ==
    /\ flows[f].step = "checking"
    /\ \/ /\ \E s \in Answering(flows[f].host) : Write(f, None, version[s])
          /\ Step(f, Idle)
       \/ /\ Answering(flows[f].host) = {}
          /\ Step(f, [flows[f] EXCEPT !.step = "seeking"])
          /\ UNCHANGED entries
    /\ UNCHANGED <<stationVars, ignored>>

Followed(f) ==
    /\ flows[f].step = "seeking"
    /\ \/ Reachable(flows[f].seen) = {} /\ Write(f, None, Untold)
       \/ \E where \in Reachable(flows[f].seen) : Write(f, where[1], version[where[2]])
    /\ Step(f, Idle)
    /\ UNCHANGED <<stationVars, ignored>>

------------------------------------------------------------------------------
(* The pairing form: _async_pair and _async_finish. *)

\* async_step_reauth: the events task or a call met a 401, and no reauth is
\* in progress for the entry.  What the flow knows is the entry's, as it is
\* now, and the station is asked for its version.
Reauth(f, e) ==
    /\ flows[f].step = "idle"
    /\ \A g \in Reauths : flows[g].entry # e
    /\ \E s \in Answering(entries[e].host) :
          ~(entries[e].token \in live /\ owner[entries[e].token] = s)
    /\ Step(f, [Idle EXCEPT !.step = "probing", !.host = entries[e].host,
                            !.name = entries[e].name, !.version = entries[e].version,
                            !.entry = e])
    /\ UNCHANGED <<stationVars, entries, ignored>>

\* The form is shown whether or not the probe is answered.
ReauthProbed(f) ==
    /\ f \in Reauths /\ flows[f].step = "probing"
    /\ \E v \in IF Answering(flows[f].host) = {} THEN {Untold}
                 ELSE {version[s] : s \in Answering(flows[f].host)} :
          Step(f, [flows[f] EXCEPT !.step = "form",
                                   !.version = IF v = Untold THEN @ ELSE v])
    /\ UNCHANGED <<stationVars, entries, ignored>>

\* The station is not there, or its answer -- to a code it may have accepted,
\* and minted a row for -- is lost on the way.
PairUnreachable(f) ==
    /\ flows[f].step \in {"form", "paired"}
    /\ Step(f, [flows[f] EXCEPT !.step = "form", !.token = None, !.error = "cannot_connect"])
    /\ UNCHANGED <<stationVars, entries, ignored>>

\* A 403 for a code that is not the one shown.  Both ends count: the flow
\* from when it was opened, the station from when its window was.
WrongCode(f) ==
    /\ flows[f].step = "form"
    /\ \E s \in Answering(flows[f].host) :
          LET count(n) == IF n < PairingAttempts THEN n + 1 ELSE n
              open == window[s].open /\ count(window[s].wrong) < PairingAttempts
              wrong == count(flows[f].wrong)
          IN  /\ window' = [window EXCEPT ![s] = [open |-> open, wrong |-> count(@.wrong)]]
              /\ Step(f, [flows[f] EXCEPT
                             !.wrong = wrong,
                             !.error = IF wrong >= PairingAttempts THEN "window_exhausted"
                                                                   ELSE "invalid_code"])
    /\ UNCHANGED <<at, version, minted, owner, live, entries, ignored>>

\* The code shown by whatever station answers at the flow's address: a new
\* row, a new token, and a reply.
RightCode(f) ==
    /\ flows[f].step = "form" /\ minted < MaxPairings
    /\ \E s \in Answering(flows[f].host) :
          /\ window[s].open
          /\ window' = [window EXCEPT ![s] = [open |-> FALSE, wrong |-> 0]]
          /\ owner' = [owner EXCEPT ![minted + 1] = s]
    /\ minted' = minted + 1
    /\ live' = live \cup {minted'}
    /\ Step(f, [flows[f] EXCEPT !.step = "paired", !.token = minted'])
    /\ UNCHANGED <<at, version, entries, ignored>>

\* _async_finish stores the token with the entry being reauthed, and with it
\* the version the flow learned when it began; or in an entry of its own --
\* the source_id is new, so _abort_if_unique_id_configured finds nothing to
\* abort for.
Finish(f) ==
    /\ flows[f].step = "paired"
    /\ entries' =
          IF f \in Reauths
          THEN [entries EXCEPT ![flows[f].entry].token = flows[f].token,
                               ![flows[f].entry].version = flows[f].version]
          ELSE [entries EXCEPT ![flows[f].token] =
                   [host |-> flows[f].host, name |-> flows[f].name,
                    version |-> flows[f].version, token |-> flows[f].token]]
    /\ Step(f, Idle)
    /\ UNCHANGED <<stationVars, ignored>>

------------------------------------------------------------------------------
(* The user, and the stations. *)

Dismiss(f) ==
    /\ flows[f].step = "form"
    /\ Step(f, Idle)
    /\ UNCHANGED <<stationVars, entries, ignored>>

\* Home Assistant's "Ignore" on a discovery card stores its unique id.
Ignore(f) ==
    /\ Ignoring /\ f \in Discoveries /\ flows[f].step = "form"
    /\ ignored' = ignored \cup {flows[f].name}
    /\ Step(f, Idle)
    /\ UNCHANGED <<stationVars, entries>>

\* The user deletes an entry: Home Assistant aborts its reauth flows, and the
\* token is revoked if the station can be reached (async_remove_entry).
DeleteEntry(e) ==
    /\ entries' = [entries EXCEPT ![e] = None]
    /\ live' \in {live, live \ {entries[e].token}}
    /\ flows' = [f \in Flows |-> IF f \in Reauths /\ flows[f].entry = e THEN Idle ELSE flows[f]]
    /\ UNCHANGED <<at, version, window, minted, owner, ignored>>

\* A station goes off, comes back, or has its addresses change.
Move(s, where) ==
    /\ where # at[s]
    /\ \A t \in Stations \ {s} : at[t] \cap where = {}
    /\ at' = [at EXCEPT ![s] = where]
    /\ UNCHANGED <<version, window, minted, owner, live, entries, ignored, flows>>

\* A station is upgraded.
Upgrade(s) ==
    /\ version[s] < MaxVersion
    /\ version' = [version EXCEPT ![s] = @ + 1]
    /\ UNCHANGED <<at, window, minted, owner, live, entries, ignored, flows>>

\* Somebody opens Pairing on the station, or it closes.
TurnWindow(s) ==
    /\ window' = [window EXCEPT ![s] = [open |-> ~window[s].open, wrong |-> 0]]
    /\ UNCHANGED <<at, version, minted, owner, live, entries, ignored, flows>>

Forget(n) ==
    /\ n \in live
    /\ live' = live \ {n}
    /\ UNCHANGED <<at, version, window, minted, owner, entries, ignored, flows>>

------------------------------------------------------------------------------

\* The awaits of the flows, none of which is for the user.
Answer(f) ==
    \/ Discovered(f) \/ Probed(f) \/ ReauthProbed(f)
    \/ StoredChecked(f) \/ Followed(f) \/ Finish(f)

UserStep(f) ==
    PairUnreachable(f) \/ WrongCode(f) \/ RightCode(f) \/ Dismiss(f) \/ Ignore(f)

StationStep ==
    \/ \E s \in Stations :
          TurnWindow(s) \/ Upgrade(s) \/ \E where \in SUBSET Addresses : Move(s, where)
    \/ \E n \in Pairings : Forget(n)

Next ==
    \/ \E f \in Discoveries, s \in Stations, seen \in SUBSET Addresses : Announced(f, s, seen)
    \/ \E f \in Manuals, h \in Hosts : Typed(f, h)
    \/ \E f \in Reauths : \E e \in Entries : Reauth(f, e)
    \/ \E e \in Entries : DeleteEntry(e)
    \/ \E f \in Flows : Answer(f) \/ UserStep(f)
    \/ StationStep

Spec == Init /\ [][Next]_vars

\* A probe is answered or times out, a station announces itself on a timer,
\* and the user does not leave a card open for ever.
Fairness ==
    /\ \A f \in Flows : WF_vars(Answer(f)) /\ WF_vars(Dismiss(f))
    /\ \A s \in Stations : WF_vars(\E f \in Discoveries : Announced(f, s, at[s]))

------------------------------------------------------------------------------
(* What the flows promise. *)

\* TYPE.  Every variable keeps its type; a flow that is past its probes has
\* an address, and one that reauths has an entry that exists.
TypeOK ==
    /\ at \in [Stations -> SUBSET Addresses]
    /\ version \in [Stations -> Versions]
    /\ window \in [Stations -> [open : BOOLEAN, wrong : 0 .. PairingAttempts]]
    /\ minted \in 0 .. MaxPairings
    /\ owner \in [Pairings -> Stations \cup {None}]
    /\ live \subseteq 1 .. minted
    /\ entries \in [Pairings -> Entry \cup {None}]
    /\ ignored \subseteq Stations
    /\ flows \in [Flows -> Flow]
    /\ \A f \in Flows :
          /\ flows[f].step \in {"form", "paired"} => flows[f].host # None
          /\ flows[f].step \in {"checking", "seeking"} => flows[f].entry # None
          /\ f \in Reauths /\ flows[f].step # "idle" => flows[f].entry \in Entries

\* One station, one entry: two entries never hold pairings minted by the same
\* station.
OneEntryPerStation ==
    \A d, e \in Entries : owner[entries[d].token] = owner[entries[e].token] => d = e

\* The one entry that knows station s by its name: of two, an announcement
\* follows the first it finds.
KnownBy(e, s) == {d \in Entries : entries[d].name = s} = {e}

\* Entry e is the one that knows s, and nobody else answers where it points:
\* whoever does is taken for the station, by StoredChecked as by the rest.
Followable(e, s) ==
    at[s] # {} /\ KnownBy(e, s) /\ Answering(entries[e].host) \subseteq {s}

\* LIVENESS.  An entry follows its station: once the stations stay where they
\* are, the entry that knows its name comes to point at it -- unless another
\* station has taken the address it points at.
EntryFollowsStation ==
    \A s \in Stations : \A e \in Pairings :
        <>[]Followable(e, s) /\ <>[][at' = at]_vars
            => <>[](e \in Entries /\ s \in Answering(entries[e].host))

\* LIVENESS.  It follows the station's software too, with nothing polling for
\* it: once the stations stay as they are, the entry comes to carry the version
\* of its own, with the same exception.
VersionFollows ==
    \A s \in Stations : \A e \in Pairings :
        <>[]Followable(e, s) /\ <>[][UNCHANGED <<at, version>>]_vars
            => <>[](e \in Entries /\ version[s] \in {Untold, entries[e].version})

\* LIVENESS.  It does so quietly: a station with several addresses that
\* announces them over and over does not have its entry rewritten, and
\* reloaded, for ever.
EntrySettles == <>[][at' = at]_vars => <>[][entries' = entries]_vars
------------------------------------------------------------------------------
(* The inductive invariants the proofs need. *)

\* What each step of a flow has to go on.
StepsHaveTheirData ==
    \A f \in Flows :
        /\ flows[f].step = "probing" /\ f \notin Discoveries => flows[f].host # None
        /\ flows[f].step \in {"checking", "seeking"} => f \in Discoveries
        /\ flows[f].step # "idle" /\ f \in Discoveries => flows[f].name # None
        /\ flows[f].step = "paired" => flows[f].token # None

\* Every address is, whenever anybody answers there, the station home[a].
AddressesKept(home) == \A s \in Stations : \A a \in at[s] : home[a] = s

\* A pairing is handed to one flow, and is no entry before that flow ends.
TokensAreFresh ==
    /\ \A f \in Flows : flows[f].entry = None \/ flows[f].entry <= minted
    /\ \A e \in Entries : e <= minted /\ entries[e].token <= minted
    /\ \A f \in Flows : flows[f].step = "paired" =>
          /\ flows[f].token <= minted
          /\ flows[f].token \notin Entries
          /\ \A g \in Flows : flows[g].entry # flows[f].token
          /\ \A g \in Flows \ {f} :
                flows[g].step = "paired" => flows[g].token # flows[f].token

\* An entry knows its station by name, and points at one of its addresses; no
\* two know the same.
EntriesAreTrue(home) ==
    /\ \A e \in Entries :
          /\ entries[e].name \in Stations /\ entries[e].host \in Addresses
          /\ home[entries[e].host] = entries[e].name
          /\ owner[entries[e].token] = entries[e].name
    /\ \A d, e \in Entries : entries[d].name = entries[e].name => d = e

\* One announcement of a station is looked into at a time, and towards a
\* pairing only while there is no entry for it.
AnnouncementIsTrue(home, f) ==
    /\ flows[f].step = "idle" => flows[f].name = None
    /\ flows[f].step # "idle" =>
          /\ flows[f].name \in Stations
          /\ \A a \in flows[f].seen : home[a] = flows[f].name
          /\ \A g \in Discoveries \ {f} : flows[g].name # flows[f].name
    /\ flows[f].step \in {"checking", "seeking"} /\ flows[f].entry \in Entries =>
          entries[flows[f].entry].name = flows[f].name
    /\ flows[f].step \in {"probing", "form", "paired"} =>
          \A e \in Entries : entries[e].name # flows[f].name
    /\ flows[f].step \in {"form", "paired"} =>
          flows[f].host \in Addresses /\ home[flows[f].host] = flows[f].name
    /\ flows[f].step = "paired" => owner[flows[f].token] = flows[f].name

\* A reauth goes to the station its entry is for, wherever that was when the
\* flow was opened.
ReauthIsTrue(home, f) ==
    flows[f].step # "idle" =>
        /\ flows[f].host \in Addresses
        /\ home[flows[f].host] = entries[flows[f].entry].name
        /\ flows[f].step = "paired" => owner[flows[f].token] = entries[flows[f].entry].name

FlowsAreTrue(home) ==
    /\ \A f \in Discoveries : AnnouncementIsTrue(home, f)
    /\ \A f \in Reauths : ReauthIsTrue(home, f)

WellTyped == TypeOK /\ StepsHaveTheirData
Inductive(home) ==
    WellTyped /\ TokensAreFresh /\ EntriesAreTrue(home) /\ FlowsAreTrue(home)
==============================================================================
