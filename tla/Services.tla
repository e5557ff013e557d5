------------------------------- MODULE Services -------------------------------
(****************************************************************************)
(* services.py: the `raise` and `resolve` actions automations call, any     *)
(* number of them at a time, over api.py's requests -- while stations       *)
(* restart and forget pairings, and entries unload, load and are paired     *)
(* again underneath.                                                        *)
(*                                                                          *)
(* What runs between two awaits of a call is one action.  A pairing is a    *)
(* number: the token it minted and the source row it made are one thing.    *)
(****************************************************************************)
EXTENDS Naturals, Sequences, FiniteSets

CONSTANTS
    Stations,       \* the paired stations: each is one config entry
    Calls,          \* the service calls, each made at most once
    Keys,           \* dedup keys
    NoKey,          \* no dedup key given
    None,           \* no station named, no id given, no runtime_data
    MaxAlerts,      \* bound: the alerts a station may hold
    MaxPairings     \* bound: how often an entry is paired

ASSUME ServicesAssumption ==
    /\ NoKey \notin Keys
    /\ None \notin Nat \cup Stations \cup Calls
    /\ MaxAlerts \in Nat /\ MaxPairings \in Nat \ {0}

VARIABLES
    loaded,     \* the entry is LOADED
    client,     \* the pairing runtime_data.client presents, or None
    token,      \* the pairing in entry.data
    reauth,     \* a reauth flow is open for the entry
    up,         \* the station answers
    rows,       \* the pairings it recognises
    alerts,     \* its alerts, by id, with who raised and who closed each
    calls       \* the calls: see Call

entryVars == <<loaded, client, token, reauth>>
stationVars == <<up, rows, alerts>>
vars == <<entryVars, stationVars, calls>>

Ids == 1 .. MaxAlerts
\* An id no URL can hold; no alert has it.
Malformed == 0
Pairings == 1 .. MaxPairings

Alert == [key : Keys \cup {NoKey}, source : Pairings, open : BOOLEAN,
          by : Calls, closedBy : Calls \cup {None}]
Reply == [status : {"ok", "unauthorised", "error"}, ids : SUBSET Ids]
NoReply == [status |-> "ok", ids |-> {}]

\* key and id are the call's data; `found` is the alert a resolve asks for, or
\* the one a create is told.  The request outlives a caller that gave up on it.
Outcomes == {"none", "ok", "invalid", "unreachable", "unauthorised", "refused",
             "no_id", "AttributeError"}
Call == [pc : {"idle", "waiting", "done"}, kind : {"raise", "resolve"},
         station : Stations \cup {None}, named : BOOLEAN,
         key : Keys \cup {NoKey}, id : Ids \cup {None, Malformed}, found : Ids \cup {None},
         doing : {"create", "list", "resolve"}, using : Pairings \cup {None},
         wire : {"none", "request", "reply"}, reply : Reply, outcome : Outcomes]

Unmade == [pc |-> "idle", kind |-> "raise", station |-> None, named |-> FALSE,
           key |-> NoKey, id |-> None, found |-> None, doing |-> "create",
           using |-> None, wire |-> "none", reply |-> NoReply, outcome |-> "none"]

Init ==
    /\ loaded = [s \in Stations |-> TRUE]
    /\ client = [s \in Stations |-> 1]
    /\ token = [s \in Stations |-> 1]
    /\ reauth = [s \in Stations |-> FALSE]
    /\ up = [s \in Stations |-> TRUE]
    /\ rows = [s \in Stations |-> {1}]
    /\ alerts = [s \in Stations |-> <<>>]
    /\ calls = [c \in Calls |-> Unmade]

------------------------------------------------------------------------------
(* The calls. *)

Loaded == {s \in Stations : loaded[s]}

\* Mutant: an entry that is paired is taken for one that is loaded.
TargetPaired(named) ==
    IF named # None THEN {named}
    ELSE IF Cardinality(Stations) = 1 THEN Stations ELSE {}

\* _target_entry: the entry named, if it is loaded; else the only loaded one.
TargetEntry(named) ==
    IF named # None THEN {named} \cap Loaded
    ELSE IF Cardinality(Loaded) = 1 THEN Loaded ELSE {}

\* The request goes out with the token of the client the entry has now.
Ask(call, s, doing, found) ==
    [call EXCEPT !.pc = "waiting", !.station = s, !.doing = doing, !.found = found,
                 !.using = client[s], !.wire = "request", !.reply = NoReply]
\* The call returns, and leaves on the wire what nobody waits for.
Done(call, outcome, wire) ==
    [call EXCEPT !.pc = "done", !.outcome = outcome, !.wire = wire]

\* _async_raise, up to the answer.
Raise(c, named, key) ==
    LET call == [Unmade EXCEPT !.kind = "raise", !.named = (named # None), !.key = key]
    IN  /\ calls[c].pc = "idle"
        /\ \/ /\ TargetEntry(named) = {}
              /\ calls' = [calls EXCEPT ![c] = Done(call, "invalid", "none")]
           \/ \E s \in TargetEntry(named) :
                 calls' = [calls EXCEPT ![c] = Ask(call, s, "create", None)]
        /\ UNCHANGED <<entryVars, stationVars>>

\* _async_resolve, up to the first answer.  InvalidAlertId: the id given is
\* none that can go into a URL.
Resolve(c, named, key, id) ==
    LET call == [Unmade EXCEPT !.kind = "resolve", !.named = (named # None),
                               !.key = key, !.id = id]
        valid == (id = None) # (key = NoKey)
    IN  /\ calls[c].pc = "idle"
        /\ \/ /\ ~valid \/ TargetEntry(named) = {} \/ id = Malformed
              /\ calls' = [calls EXCEPT ![c] = Done(call, "invalid", "none")]
           \/ /\ valid /\ id # Malformed
              /\ \E s \in TargetEntry(named) :
                    calls' = [calls EXCEPT ![c] =
                                 Ask(call, s, IF id = None THEN "list" ELSE "resolve", id)]
        /\ UNCHANGED <<entryVars, stationVars>>

\* CannotConnect: no connection, a broken one, or no answer within
\* REQUEST_TIMEOUT.  The station may still get to the request.
CannotConnect(c) ==
    /\ calls[c].pc = "waiting"
    /\ \E wire \in {"none", calls[c].wire} \ {"reply"} :
          calls' = [calls EXCEPT ![c] = Done(@, "unreachable", wire)]
    /\ UNCHANGED <<entryVars, stationVars>>

\* Mutant: a 401 is reported like any other refusal.
UnauthorisedQuietly(c) ==
    /\ calls[c].pc = "waiting" /\ calls[c].wire = "reply"
    /\ calls[c].reply.status = "unauthorised"
    /\ calls' = [calls EXCEPT ![c] = Done(@, "unauthorised", "none")]
    /\ UNCHANGED <<entryVars, stationVars>>

\* InvalidAuth: the call fails, and asks for the station to be paired again.
Unauthorised(c) ==
    /\ calls[c].pc = "waiting" /\ calls[c].wire = "reply"
    /\ calls[c].reply.status = "unauthorised"
    /\ calls' = [calls EXCEPT ![c] = Done(@, "unauthorised", "none")]
    /\ reauth' = [reauth EXCEPT ![calls[c].station] = TRUE]
    /\ UNCHANGED <<loaded, client, token, stationVars>>

\* Mutant: an error status is not told from a good one.
RefusedIsSuccess(c) ==
    /\ calls[c].pc = "waiting" /\ calls[c].wire = "reply"
    /\ calls[c].reply.status = "error"
    /\ calls' = [calls EXCEPT ![c] = Done(@, "ok", "none")]
    /\ UNCHANGED <<entryVars, stationVars>>

\* StationError: the station refused the request.
Refused(c) ==
    /\ calls[c].pc = "waiting" /\ calls[c].wire = "reply"
    /\ calls[c].reply.status = "error"
    /\ calls' = [calls EXCEPT ![c] = Done(@, "refused", "none")]
    /\ UNCHANGED <<entryVars, stationVars>>

\* _alert_from: the alert in a body, if there is one.
AlertFrom(reply) == IF reply.ids = {} THEN {None} ELSE reply.ids

\* A create or a resolve has a good status.  The caller of a create has the
\* alert it was told, or an empty answer.
Succeeded(c) ==
    /\ calls[c].pc = "waiting" /\ calls[c].wire = "reply"
    /\ calls[c].reply.status = "ok" /\ calls[c].doing # "list"
    /\ LET over == [calls[c] EXCEPT !.reply = NoReply]
       IN  \/ /\ calls[c].doing = "create"
              /\ \E i \in AlertFrom(calls[c].reply) :
                    calls' = [calls EXCEPT ![c] = Done([over EXCEPT !.found = i], "ok", "none")]
           \/ /\ calls[c].doing = "resolve"
              /\ calls' = [calls EXCEPT ![c] = Done(over, "ok", "none")]
    /\ UNCHANGED <<entryVars, stationVars>>

\* Mutant: the first open alert is taken for the one with the key.
AnyMatch(c) == calls[c].reply.ids

\* matches: the listed alerts with the key asked for.
Matches(c) == {i \in calls[c].reply.ids : alerts[calls[c].station][i].key = calls[c].key}

\* The rest of _async_resolve after list_alerts: the match is to have an id,
\* the entry's runtime_data is read again, and the id is to fit into a URL, for
\* a second request.
Listed(c) ==
    /\ calls[c].pc = "waiting" /\ calls[c].wire = "reply"
    /\ calls[c].reply.status = "ok" /\ calls[c].doing = "list"
    /\ LET s == calls[c].station
           over == [calls[c] EXCEPT !.reply = NoReply]
       IN  \/ /\ Matches(c) = {}
              /\ calls' = [calls EXCEPT ![c] = Done(over, "invalid", "none")]
           \/ /\ Matches(c) # {}
              /\ calls' = [calls EXCEPT ![c] = Done(over, "no_id", "none")]
           \/ /\ Matches(c) # {} /\ client[s] # None
              /\ calls' = [calls EXCEPT ![c] = Done(over, "invalid", "none")]
           \/ /\ Matches(c) # {} /\ client[s] = None
              /\ calls' = [calls EXCEPT ![c] = Done(over, "AttributeError", "none")]
           \/ /\ client[s] # None
              /\ \E i \in Matches(c) : calls' = [calls EXCEPT ![c] = Ask(over, s, "resolve", i)]
    /\ UNCHANGED <<entryVars, stationVars>>

------------------------------------------------------------------------------
(* The station (external): it sees only what its caller's row raised. *)

\* _decode: a body that is missing, or cannot be read, is an empty one.
Decoded(ids) == {ids, {}}

Answer(c, status, ids) ==
    \E told \in Decoded(ids) :
        calls' = [calls EXCEPT
                     ![c].wire = IF calls[c].pc = "waiting" THEN "reply" ELSE "none",
                     ![c].reply = IF calls[c].pc = "waiting"
                                  THEN [status |-> status, ids |-> told] ELSE NoReply]

OwnIds(s, source) == {i \in 1 .. Len(alerts[s]) : alerts[s][i].source = source}
OpenIds(s, source) == {i \in OwnIds(s, source) : alerts[s][i].open}

\* Mutant: create_alert leaves the dedup key out of the payload.
PayloadWithoutKey(c) == NoKey

\* The dedup_key field of create_alert's payload.
PayloadKey(c) == calls[c].key

ServeCreate(c) ==
    LET s == calls[c].station
        known == {i \in OpenIds(s, calls[c].using) :
                     PayloadKey(c) # NoKey /\ alerts[s][i].key = PayloadKey(c)}
    IN  \/ /\ known # {}
           /\ \E i \in known : Answer(c, "ok", {i})
           /\ UNCHANGED alerts
        \/ /\ known = {} /\ Len(alerts[s]) < MaxAlerts
           /\ alerts' = [alerts EXCEPT ![s] =
                            Append(@, [key |-> PayloadKey(c), source |-> calls[c].using,
                                       open |-> TRUE, by |-> c, closedBy |-> None])]
           /\ Answer(c, "ok", {Len(alerts[s]) + 1})

ServeList(c) ==
    /\ Answer(c, "ok", OpenIds(calls[c].station, calls[c].using))
    /\ UNCHANGED alerts

ServeResolve(c) ==
    LET s == calls[c].station
        i == calls[c].found
    IN  \/ /\ i \in OwnIds(s, calls[c].using)
           /\ alerts' = IF alerts[s][i].open
                        THEN [alerts EXCEPT ![s][i].open = FALSE, ![s][i].closedBy = c]
                        ELSE alerts
           /\ Answer(c, "ok", {i})
        \/ /\ i \notin OwnIds(s, calls[c].using)
           /\ Answer(c, "error", {})
           /\ UNCHANGED alerts

\* A request is answered: refused for its token, served, or failed.
Serve(c) ==
    /\ calls[c].wire = "request" /\ up[calls[c].station]
    /\ \/ /\ calls[c].using \notin rows[calls[c].station]
          /\ Answer(c, "unauthorised", {})
          /\ UNCHANGED alerts
       \/ /\ calls[c].using \in rows[calls[c].station]
          /\ \/ calls[c].doing = "create" /\ ServeCreate(c)
             \/ calls[c].doing = "list" /\ ServeList(c)
             \/ calls[c].doing = "resolve" /\ ServeResolve(c)
             \/ Answer(c, "error", {}) /\ UNCHANGED alerts
    /\ UNCHANGED <<entryVars, up, rows>>

\* Somebody at the station closes an alert, or nobody does in time.
Close(s, i) ==
    /\ i \in 1 .. Len(alerts[s]) /\ alerts[s][i].open
    /\ alerts' = [alerts EXCEPT ![s][i].open = FALSE]
    /\ UNCHANGED <<entryVars, up, rows, calls>>

ComeOrGo(s) ==
    /\ up' = [up EXCEPT ![s] = ~up[s]]
    /\ UNCHANGED <<entryVars, rows, alerts, calls>>

Revoke(s, n) ==
    /\ n \in rows[s]
    /\ rows' = [rows EXCEPT ![s] = @ \ {n}]
    /\ UNCHANGED <<entryVars, up, alerts, calls>>

------------------------------------------------------------------------------
(* The entry (EntryLifecycle, Pairing): loaded, unloaded, paired again. *)

\* The entry is no longer LOADED; runtime_data goes when the unload is over.
Unload(s) ==
    /\ loaded[s]
    /\ loaded' = [loaded EXCEPT ![s] = FALSE]
    /\ UNCHANGED <<client, token, reauth, stationVars, calls>>

Unloaded(s) ==
    /\ ~loaded[s] /\ client[s] # None
    /\ client' = [client EXCEPT ![s] = None]
    /\ UNCHANGED <<loaded, token, reauth, stationVars, calls>>

Load(s) ==
    /\ ~loaded[s] /\ client[s] = None
    /\ loaded' = [loaded EXCEPT ![s] = TRUE]
    /\ client' = [client EXCEPT ![s] = token[s]]
    /\ UNCHANGED <<token, reauth, stationVars, calls>>

\* The reauth flow ends in a new pairing; the entry is reloaded after.
PairAgain(s) ==
    /\ reauth[s] /\ up[s] /\ token[s] < MaxPairings
    /\ token' = [token EXCEPT ![s] = @ + 1]
    /\ rows' = [rows EXCEPT ![s] = @ \cup {token'[s]}]
    /\ reauth' = [reauth EXCEPT ![s] = FALSE]
    /\ UNCHANGED <<loaded, client, up, alerts, calls>>

------------------------------------------------------------------------------

MakeCall(c) ==
    \E named \in Stations \cup {None}, key \in Keys \cup {NoKey} :
        \/ Raise(c, named, key)
        \/ \E id \in Ids \cup {None, Malformed} : Resolve(c, named, key, id)

Resume(c) ==
    CannotConnect(c) \/ Unauthorised(c) \/ Refused(c) \/ Succeeded(c) \/ Listed(c)

Environment ==
    \E s \in Stations :
        \/ \E i \in Ids : Close(s, i)
        \/ ComeOrGo(s)
        \/ \E n \in Pairings : Revoke(s, n)
        \/ Unload(s) \/ Unloaded(s) \/ Load(s) \/ PairAgain(s)

Next == (\E c \in Calls : MakeCall(c) \/ Resume(c) \/ Serve(c)) \/ Environment

Spec == Init /\ [][Next]_vars

------------------------------------------------------------------------------
(* What an automation is promised. *)

\* TYPE.  Every variable keeps its type: a request never goes out from an
\* entry without a client.
TypeOK ==
    /\ loaded \in [Stations -> BOOLEAN]
    /\ client \in [Stations -> Pairings \cup {None}]
    /\ token \in [Stations -> Pairings]
    /\ reauth \in [Stations -> BOOLEAN]
    /\ up \in [Stations -> BOOLEAN]
    /\ rows \in [Stations -> SUBSET Pairings]
    /\ alerts \in [Stations -> Seq(Alert)]
    /\ calls \in [Calls -> Call]
    /\ \A c \in Calls : calls[c].wire = "request" =>
          calls[c].station \in Stations /\ calls[c].using \in Pairings

\* "A retrying automation is safe": whatever was lost, late or repeated, two
\* calls that raise under one key leave one open alert -- under one pairing.
RetriesAreSafe ==
    \A s \in Stations : \A i, j \in 1 .. Len(alerts[s]) :
        /\ i # j
        /\ alerts[s][i].open /\ alerts[s][j].open
        /\ alerts[s][i].source = alerts[s][j].source
        => calls[alerts[s][i].by].key = NoKey
           \/ calls[alerts[s][i].by].key # calls[alerts[s][j].by].key

\* c asked for alert i of its station: by its id, or, giving none, by a key
\* the alert has.
Named(c, i) ==
    IF calls[c].id # None THEN calls[c].id = i
    ELSE /\ calls[c].key # NoKey
         /\ i \in 1 .. Len(alerts[calls[c].station])
         /\ alerts[calls[c].station][i].key = calls[c].key

\* Alert i of its station is what c asked for: under its key and its pairing,
\* and raised by itself if there is no key to share it under.
RaisedFor(c, i) ==
    /\ i \in 1 .. Len(alerts[calls[c].station])
    /\ alerts[calls[c].station][i].key = calls[c].key
    /\ alerts[calls[c].station][i].source = calls[c].using
    /\ calls[c].key = NoKey => alerts[calls[c].station][i].by = c

\* A call closes no alert but the one it named: the one with its id, or, when
\* it gave a key, one with that key -- whatever was raised, closed or paired
\* again between its two requests.
ResolvesWhatItNamed ==
    \A s \in Stations : \A i \in 1 .. Len(alerts[s]) :
        LET c == alerts[s][i].closedBy
        IN  c # None => calls[c].kind = "resolve" /\ calls[c].station = s /\ Named(c, i)

\* A call that returns has done it, whatever could be read of the answer: the
\* alert it named is closed; the alert it was to raise is there, and is the
\* one its caller was told of, if it was told.
SuccessIsReal ==
    \A c \in Calls : calls[c].outcome = "ok" =>
        /\ calls[c].kind = "resolve" =>
              /\ calls[c].found \in 1 .. Len(alerts[calls[c].station])
              /\ ~alerts[calls[c].station][calls[c].found].open
              /\ Named(c, calls[c].found)
        /\ calls[c].kind = "raise" =>
              /\ \E i \in Ids : RaisedFor(c, i)
              /\ calls[c].found # None => RaisedFor(c, calls[c].found)

\* Nobody is told to pair again with nothing offering it: a call failed for
\* its token leaves a reauth flow, until the station has been paired again.
UnauthorisedAsksToPair ==
    \A c \in Calls : calls[c].outcome = "unauthorised" =>
        reauth[calls[c].station] \/ token[calls[c].station] > calls[c].using

\* "With several, leaving it out is an error" (README.md:145): a call that
\* names no station reaches one only if it is the only one paired.
NeverGuesses ==
    \A c \in Calls : calls[c].station # None /\ ~calls[c].named =>
        Cardinality(Stations) = 1

\* "Every failure becomes a HomeAssistantError naming the station"
\* (services.py:10): no call ends in a bare AttributeError.
EveryFailureIsReadable ==
    \A c \in Calls : calls[c].outcome # "AttributeError"

------------------------------------------------------------------------------
(* The inductive invariant the proofs need. *)

\* A loaded entry has a client, with no newer token than the entry's own.
ClientsPresentTokens ==
    \A s \in Stations :
        /\ loaded[s] => client[s] # None
        /\ client[s] # None => client[s] <= token[s]
        /\ Len(alerts[s]) <= MaxAlerts

\* What a good status says: the request has been carried out.
CarriedOut(c) ==
    /\ calls[c].doing = "create" => \E i \in Ids : RaisedFor(c, i)
    /\ calls[c].doing = "resolve" =>
          /\ calls[c].found \in 1 .. Len(alerts[calls[c].station])
          /\ ~alerts[calls[c].station][calls[c].found].open

\* Alert i can be in the body of the answer.
Answers(c, i) ==
    /\ i \in 1 .. Len(alerts[calls[c].station])
    /\ calls[c].doing = "create" => RaisedFor(c, i)

\* What c has sent, is told or has told its caller stays true of the station.
CallIsTrue(c) ==
    /\ calls[c].pc = "idle" => calls[c] = Unmade
    /\ calls[c].pc # "done" => calls[c].outcome = "none"
    /\ calls[c].wire = "reply" => calls[c].pc = "waiting"
    /\ \/ calls[c].pc = "waiting" \/ calls[c].wire # "none"
       \/ calls[c].outcome \in {"ok", "unauthorised"}
       => /\ calls[c].station \in Stations /\ calls[c].using \in Pairings
          /\ calls[c].using <= token[calls[c].station]
          /\ calls[c].kind = "raise" <=> calls[c].doing = "create"
          /\ calls[c].doing = "list" => calls[c].id = None /\ calls[c].key # NoKey
          /\ calls[c].doing = "resolve" => Named(c, calls[c].found)
    /\ calls[c].wire = "reply" /\ calls[c].reply.status = "ok" =>
          CarriedOut(c) /\ \A i \in calls[c].reply.ids : Answers(c, i)
    /\ calls[c].outcome = "ok" =>
          /\ CarriedOut(c) /\ calls[c].doing # "list"
          /\ calls[c].doing = "create" /\ calls[c].found # None => RaisedFor(c, calls[c].found)
    /\ calls[c].outcome = "unauthorised" =>
          reauth[calls[c].station] \/ token[calls[c].station] > calls[c].using

\* An alert stands under the key of the call that raised it, and was closed
\* by a call that named it.
AlertIsTrue(s, i) ==
    /\ calls[alerts[s][i].by].pc # "idle"
    /\ calls[alerts[s][i].by].key = alerts[s][i].key
    /\ alerts[s][i].closedBy # None =>
          /\ calls[alerts[s][i].closedBy].pc # "idle"
          /\ calls[alerts[s][i].closedBy].kind = "resolve"
          /\ calls[alerts[s][i].closedBy].station = s
          /\ Named(alerts[s][i].closedBy, i)

\* The station never keeps two open alerts of one pairing under one key.
NoTwins ==
    \A s \in Stations : \A i, j \in 1 .. Len(alerts[s]) :
        /\ i # j
        /\ alerts[s][i].open /\ alerts[s][j].open
        /\ alerts[s][i].source = alerts[s][j].source
        => alerts[s][i].key = NoKey \/ alerts[s][i].key # alerts[s][j].key

Inductive ==
    /\ TypeOK /\ ClientsPresentTokens /\ NoTwins
    /\ \A c \in Calls : CallIsTrue(c)
    /\ \A s \in Stations : \A i \in 1 .. Len(alerts[s]) : AlertIsTrue(s, i)
==============================================================================
