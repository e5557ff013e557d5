---------------------------- MODULE ServicesProofs ----------------------------
(****************************************************************************)
(* Theorems about Services, for any stations, calls, keys and bounds.       *)
(* Inductive says what holds of a request on its way; one lemma says what   *)
(* is left of it by a step that is not its own, and the rest go action by   *)
(* action.                                                                  *)
(****************************************************************************)
EXTENDS Services, SequenceTheorems, TLAPS

------------------------------------------------------------------------------
(* The records the actions make. *)

\* The fields of a call.
LEMMA CallFields ==
    ASSUME NEW r \in Call
    PROVE  /\ r.pc \in {"idle", "waiting", "done"} /\ r.kind \in {"raise", "resolve"}
           /\ r.station \in Stations \cup {None} /\ r.named \in BOOLEAN
           /\ r.key \in Keys \cup {NoKey} /\ r.id \in Ids \cup {None, Malformed}
           /\ r.found \in Ids \cup {None} /\ r.doing \in {"create", "list", "resolve"}
           /\ r.using \in Pairings \cup {None} /\ r.wire \in {"none", "request", "reply"}
           /\ r.reply \in Reply /\ r.outcome \in Outcomes
           /\ r.reply.status \in {"ok", "unauthorised", "error"}
           /\ r.reply.ids \in SUBSET Ids
BY DEF Call, Reply

\* A call nobody has made, and the reply nobody has sent.
LEMMA UnmadeIsACall == NoReply \in Reply /\ Unmade \in Call
<1>1. NoReply \in Reply
  BY DEF NoReply, Reply
<1>. QED
  BY <1>1 DEF Unmade, Call, Outcomes

\* A call that is given a kind, an aim, or a request.
LEMMA CallOfKind ==
    ASSUME NEW r \in Call, NEW kind \in {"raise", "resolve"}, NEW named \in BOOLEAN
    PROVE  [r EXCEPT !.kind = kind, !.named = named] \in Call
BY DEF Call

LEMMA CallWithAim ==
    ASSUME NEW r \in Call, NEW doing \in {"create", "list", "resolve"}, NEW found \in Ids \cup {None}
    PROVE  [r EXCEPT !.doing = doing, !.found = found] \in Call
BY DEF Call

LEMMA CallOnTheWire ==
    ASSUME NEW r \in Call, NEW using \in Pairings
    PROVE  [r EXCEPT !.using = using, !.wire = "request"] \in Call
BY DEF Call

\* A request that has just gone out.
LEMMA AskMakes ==
    ASSUME NEW call \in Call, NEW s \in Stations, client[s] \in Pairings,
           NEW doing \in {"create", "list", "resolve"}, NEW found \in Ids \cup {None}
    PROVE  /\ Ask(call, s, doing, found) \in Call
           /\ Ask(call, s, doing, found).pc = "waiting"
           /\ Ask(call, s, doing, found).kind = call.kind
           /\ Ask(call, s, doing, found).station = s
           /\ Ask(call, s, doing, found).key = call.key
           /\ Ask(call, s, doing, found).id = call.id
           /\ Ask(call, s, doing, found).found = found
           /\ Ask(call, s, doing, found).doing = doing
           /\ Ask(call, s, doing, found).using = client[s]
           /\ Ask(call, s, doing, found).wire = "request"
           /\ Ask(call, s, doing, found).outcome = call.outcome
<1>. PICK using \in Pairings : using = client[s]
  OBVIOUS
<1>. DEFINE r == [call EXCEPT !.pc = "waiting", !.station = s, !.doing = doing, !.found = found,
                              !.using = using, !.wire = "request", !.reply = NoReply]
<1>1. Ask(call, s, doing, found) = r
  BY DEF Ask
<1>2. r \in Call
  <2>. DEFINE x == [call EXCEPT !.pc = "waiting", !.station = s]
              y == [x EXCEPT !.doing = doing, !.found = found]
              z == [y EXCEPT !.using = using, !.wire = "request"]
  <2>1. r = [z EXCEPT !.reply = NoReply]
    OBVIOUS
  <2>2. NoReply \in Reply
    BY UnmadeIsACall
  <2>3. x \in Call
    BY DEF Call
  <2>. HIDE DEF r, x
  <2>4. y \in Call
    BY <2>3, CallWithAim DEF y
  <2>. HIDE DEF y
  <2>5. z \in Call
    BY <2>4, CallOnTheWire DEF z
  <2>. HIDE DEF z
  <2>. QED
    BY <2>1, <2>2, <2>5 DEF Call
<1>3. /\ r.pc = "waiting" /\ r.kind = call.kind /\ r.station = s /\ r.key = call.key
      /\ r.id = call.id /\ r.found = found /\ r.doing = doing /\ r.using = using
      /\ r.wire = "request" /\ r.outcome = call.outcome
  BY DEF Call
<1>. QED
  BY <1>1, <1>2, <1>3

\* A call that has returned, and what it leaves on the wire.
LEMMA DoneMakes ==
    ASSUME NEW call \in Call, NEW outcome \in Outcomes, NEW wire \in {"none", "request", "reply"}
    PROVE  /\ Done(call, outcome, wire) \in Call
           /\ Done(call, outcome, wire).pc = "done"
           /\ Done(call, outcome, wire).kind = call.kind
           /\ Done(call, outcome, wire).station = call.station
           /\ Done(call, outcome, wire).key = call.key
           /\ Done(call, outcome, wire).id = call.id
           /\ Done(call, outcome, wire).found = call.found
           /\ Done(call, outcome, wire).doing = call.doing
           /\ Done(call, outcome, wire).using = call.using
           /\ Done(call, outcome, wire).wire = wire
           /\ Done(call, outcome, wire).reply = call.reply
           /\ Done(call, outcome, wire).outcome = outcome
<1>. DEFINE r == [call EXCEPT !.pc = "done", !.outcome = outcome, !.wire = wire]
<1>1. Done(call, outcome, wire) = r
  BY DEF Done
<1>2. r \in Call
  BY DEF Call
<1>3. /\ r.pc = "done" /\ r.kind = call.kind /\ r.station = call.station /\ r.key = call.key
      /\ r.id = call.id /\ r.found = call.found /\ r.doing = call.doing /\ r.using = call.using
      /\ r.wire = wire /\ r.reply = call.reply /\ r.outcome = outcome
  BY DEF Call
<1>. QED
  BY <1>1, <1>2, <1>3

------------------------------------------------------------------------------
(* What no step undoes. *)

\* Alerts are only added and closed, tokens only replaced by newer ones, and a
\* reauth flow only ends in one.
StationsGoOn ==
    \A s \in Stations :
        /\ token[s] <= token'[s]
        /\ reauth[s] => reauth'[s] \/ token'[s] > token[s]
        /\ Len(alerts[s]) <= Len(alerts'[s])
        /\ \A i \in 1 .. Len(alerts[s]) :
              /\ alerts'[s][i].key = alerts[s][i].key
              /\ alerts'[s][i].source = alerts[s][i].source
              /\ alerts'[s][i].by = alerts[s][i].by
              /\ alerts'[s][i].open => alerts[s][i].open

\* A call that is made stays what it is: the key, the id and the station it
\* was made with are the ones it ends with.
CallsGoOn ==
    \A c \in Calls : calls[c].pc # "idle" =>
        /\ calls'[c].pc # "idle"
        /\ calls'[c].kind = calls[c].kind
        /\ calls'[c].key = calls[c].key
        /\ calls'[c].id = calls[c].id
        /\ calls'[c].station = calls[c].station

\* What typing says of an alert.
LEMMA AlertFields ==
    ASSUME TypeOK, NEW s \in Stations, NEW i \in 1 .. Len(alerts[s])
    PROVE  /\ Len(alerts[s]) \in Nat
           /\ alerts[s][i] \in Alert
           /\ alerts[s][i].key \in Keys \cup {NoKey} /\ alerts[s][i].source \in Pairings
           /\ alerts[s][i].open \in BOOLEAN /\ alerts[s][i].by \in Calls
           /\ alerts[s][i].closedBy \in Calls \cup {None}
<1>1. alerts[s] \in Seq(Alert)
  BY DEF TypeOK
<1>2. alerts[s][i] \in Alert
  BY <1>1, ElementOfSeq
<1>. QED
  BY <1>1, <1>2 DEF Alert

\* What a call named, and what was done for it, is so after any step.
LEMMA TruthsStay ==
    ASSUME TypeOK, TypeOK', StationsGoOn,
           NEW c \in Calls, calls[c].station \in Stations,
           calls'[c].station = calls[c].station, calls'[c].key = calls[c].key,
           calls'[c].id = calls[c].id, calls'[c].using = calls[c].using,
           calls'[c].doing = calls[c].doing
    PROVE  /\ \A i : Named(c, i) => Named(c, i)'
           /\ \A i : RaisedFor(c, i) => RaisedFor(c, i)'
           /\ \A i : Answers(c, i) => Answers(c, i)'
           /\ calls'[c].found = calls[c].found /\ CarriedOut(c) => CarriedOut(c)'
<1>. PICK s \in Stations : s = calls[c].station /\ s = calls'[c].station
  OBVIOUS
<1>1. Len(alerts[s]) \in Nat /\ Len(alerts'[s]) \in Nat
  BY DEF TypeOK
<1>2. /\ Len(alerts[s]) <= Len(alerts'[s])
      /\ \A i \in 1 .. Len(alerts[s]) :
            /\ alerts'[s][i].key = alerts[s][i].key /\ alerts'[s][i].source = alerts[s][i].source
            /\ alerts'[s][i].by = alerts[s][i].by
            /\ alerts'[s][i].open => alerts[s][i].open
  BY DEF StationsGoOn
<1>3. \A i \in 1 .. Len(alerts[s]) : i \in 1 .. Len(alerts'[s])
  BY <1>1, <1>2
<1>4. ASSUME NEW i PROVE Named(c, i) => Named(c, i)'
  BY <1>2, <1>3 DEF Named
<1>5. ASSUME NEW i PROVE RaisedFor(c, i) => RaisedFor(c, i)'
  BY <1>2, <1>3 DEF RaisedFor
<1>6. ASSUME NEW i PROVE Answers(c, i) => Answers(c, i)'
  BY <1>3, <1>5 DEF Answers
<1>7. calls'[c].found = calls[c].found /\ CarriedOut(c) => CarriedOut(c)'
  BY <1>2, <1>3, <1>5 DEF CarriedOut
<1>. QED
  BY <1>4, <1>5, <1>6, <1>7

\* What was true of a call is true after a step that is not its own.
LEMMA CallStays ==
    ASSUME TypeOK, TypeOK', StationsGoOn,
           NEW c \in Calls, CallIsTrue(c), calls'[c] = calls[c]
    PROVE  CallIsTrue(c)'
<1>. DEFINE s == calls[c].station
<1>1. calls[c] \in Call /\ s' = s
  BY DEF TypeOK
<1>2. CASE s \notin Stations
  BY <1>1, <1>2 DEF CallIsTrue
<1>3. CASE s \in Stations
  <2>1. /\ Len(alerts[s]) \in Nat /\ Len(alerts'[s]) \in Nat
        /\ Len(alerts[s]) <= Len(alerts'[s])
        /\ token[s] \in Nat /\ token'[s] \in Nat /\ token[s] <= token'[s]
        /\ reauth[s] => reauth'[s] \/ token'[s] > token[s]
    BY <1>3 DEF StationsGoOn, TypeOK, Pairings
  <2>2. ASSUME NEW i PROVE /\ Named(c, i) => Named(c, i)'
                           /\ RaisedFor(c, i) => RaisedFor(c, i)'
                           /\ Answers(c, i) => Answers(c, i)'
    BY <1>1, <1>3, TruthsStay DEF Call
  <2>3. CarriedOut(c) => CarriedOut(c)'
    BY <1>1, <1>3, TruthsStay
  <2>4. calls[c].using \in Pairings => calls[c].using \in Nat
    BY DEF Pairings
  <2>5. \/ calls[c].pc = "waiting" \/ calls[c].wire # "none"
        \/ calls[c].outcome \in {"ok", "unauthorised"}
        => calls[c].using \in Pairings /\ calls[c].using <= token'[s]
    BY <1>1, <1>3, <2>1, <2>4 DEF CallIsTrue
  <2>6. calls[c].outcome = "unauthorised" => reauth'[s] \/ token'[s] > calls[c].using
    BY <1>1, <1>3, <2>1, <2>4 DEF CallIsTrue
  <2>. QED
    BY <1>1, <1>3, <2>2, <2>3, <2>5, <2>6 DEF CallIsTrue
<1>. QED
  BY <1>2, <1>3

\* What was true of an alert is true after a step that is not a call closing it.
LEMMA AlertStays ==
    ASSUME TypeOK, TypeOK', StationsGoOn, CallsGoOn,
           NEW s \in Stations, NEW i \in 1 .. Len(alerts[s]), AlertIsTrue(s, i),
           alerts'[s][i].closedBy = alerts[s][i].closedBy
    PROVE  AlertIsTrue(s, i)'
<1>1. /\ alerts[s][i].by \in Calls /\ alerts[s][i].closedBy \in Calls \cup {None}
      /\ alerts'[s][i].by = alerts[s][i].by /\ alerts'[s][i].key = alerts[s][i].key
  BY AlertFields DEF StationsGoOn
<1>2. ASSUME NEW c \in Calls, calls[c].pc # "idle", calls[c].station = s, Named(c, i)
      PROVE  Named(c, i)'
  <2>1. /\ calls'[c].station = s /\ calls'[c].key = calls[c].key /\ calls'[c].id = calls[c].id
        /\ Len(alerts[s]) \in Nat /\ Len(alerts'[s]) \in Nat /\ Len(alerts[s]) <= Len(alerts'[s])
    BY <1>2 DEF CallsGoOn, StationsGoOn, TypeOK
  <2>. QED
    BY <1>1, <1>2, <2>1 DEF Named
<1>. QED
  BY <1>1, <1>2 DEF AlertIsTrue, CallsGoOn
------------------------------------------------------------------------------
(* The steps of a call. *)

\* A step that only moves call c on, to r, and asks for a pairing if anything:
\* it is enough that r is still the same call, and true.
LEMMA OneCallMoves ==
    ASSUME Inductive, NEW c \in Calls, NEW r \in Call,
           calls' = [calls EXCEPT ![c] = r],
           UNCHANGED <<loaded, client, token, stationVars>>,
           reauth' \in [Stations -> BOOLEAN],
           \A s \in Stations : reauth[s] => reauth'[s],
           r.pc # "idle",
           calls[c].pc # "idle" => /\ r.kind = calls[c].kind /\ r.key = calls[c].key
                                   /\ r.id = calls[c].id /\ r.station = calls[c].station,
           r.wire = "request" => r.station \in Stations /\ r.using \in Pairings,
           CallIsTrue(c)'
    PROVE  Inductive'
<1>1. /\ calls' \in [Calls -> Call] /\ calls'[c] = r
      /\ \A d \in Calls \ {c} : calls'[d] = calls[d]
  BY DEF Inductive, TypeOK
<1>2. TypeOK'
  BY <1>1 DEF Inductive, TypeOK, stationVars
<1>3. StationsGoOn
  <2>1. ASSUME NEW s \in Stations PROVE token[s] \in Nat /\ Len(alerts[s]) \in Nat
    BY DEF Inductive, TypeOK, Pairings
  <2>. QED
    BY <2>1 DEF StationsGoOn, stationVars
<1>4. CallsGoOn
  BY <1>1 DEF CallsGoOn
<1>5. ASSUME NEW d \in Calls PROVE CallIsTrue(d)'
  BY <1>1, <1>2, <1>3, CallStays DEF Inductive
<1>6. ASSUME NEW s \in Stations, NEW i \in 1 .. Len(alerts[s]) PROVE AlertIsTrue(s, i)'
  BY <1>2, <1>3, <1>4, AlertStays DEF Inductive, stationVars
<1>7. (ClientsPresentTokens /\ NoTwins)'
  BY DEF Inductive, ClientsPresentTokens, NoTwins, stationVars
<1>. QED
  BY <1>2, <1>5, <1>6, <1>7 DEF Inductive, stationVars

\* A loaded entry has a token to present, no newer than its own.
LEMMA LoadedPresents ==
    ASSUME Inductive, NEW s \in Stations, loaded[s] \/ client[s] # None
    PROVE  client[s] \in Pairings /\ client[s] <= token[s]
BY DEF Inductive, TypeOK, ClientsPresentTokens

\* The entry a call goes to is loaded.
LEMMA TargetIsLoaded ==
    ASSUME NEW named, NEW s \in TargetEntry(named)
    PROVE  s \in Stations /\ loaded[s]
BY DEF TargetEntry, Loaded

LEMMA RaiseHolds ==
    ASSUME Inductive, NEW c \in Calls, NEW named \in Stations \cup {None},
           NEW key \in Keys \cup {NoKey}, Raise(c, named, key)
    PROVE  Inductive'
<1>. DEFINE call == [Unmade EXCEPT !.kind = "raise", !.named = (named # None), !.key = key]
<1>1. /\ call \in Call /\ call.pc = "idle" /\ call.kind = "raise" /\ call.doing = "create"
      /\ call.wire = "none" /\ call.outcome = "none"
  BY UnmadeIsACall DEF Unmade, Call
<1>2. calls[c].pc = "idle"
  BY DEF Raise
<1>. HIDE DEF call
<1>3. CASE calls' = [calls EXCEPT ![c] = Done(call, "invalid", "none")]
  <2>1. calls'[c] = Done(call, "invalid", "none")
    BY <1>3 DEF Inductive, TypeOK
  <2>2. CallIsTrue(c)'
    BY <1>1, <2>1, DoneMakes DEF CallIsTrue, Outcomes
  <2>3. UNCHANGED <<loaded, client, token, reauth, stationVars>>
    BY DEF Raise, entryVars
  <2>. DEFINE r == Done(call, "invalid", "none")
  <2>4. r \in Call /\ r.pc = "done" /\ r.wire = "none" /\ calls' = [calls EXCEPT ![c] = r]
    BY <1>1, <1>3, DoneMakes DEF Outcomes
  <2>. HIDE DEF r
  <2>. QED
    BY <1>2, <2>2, <2>3, <2>4, OneCallMoves DEF Inductive, TypeOK
<1>4. ASSUME NEW s \in TargetEntry(named),
             calls' = [calls EXCEPT ![c] = Ask(call, s, "create", None)]
      PROVE  Inductive'
  <2>1. s \in Stations /\ client[s] \in Pairings /\ client[s] <= token[s]
    BY TargetIsLoaded, LoadedPresents
  <2>2. calls'[c] = Ask(call, s, "create", None)
    BY <1>4 DEF Inductive, TypeOK
  <2>3. token' = token
    BY DEF Raise, entryVars
  <2>4. CallIsTrue(c)'
    BY <1>1, <2>1, <2>2, <2>3, AskMakes DEF CallIsTrue
  <2>5. UNCHANGED <<loaded, client, token, reauth, stationVars>>
    BY DEF Raise, entryVars
  <2>. DEFINE r == Ask(call, s, "create", None)
  <2>6. r \in Call /\ r.pc = "waiting" /\ r.station \in Stations /\ r.using \in Pairings
    BY <1>1, <2>1, AskMakes
  <2>7. calls' = [calls EXCEPT ![c] = r]
    BY <1>4
  <2>. HIDE DEF r
  <2>. QED
    BY <1>2, <2>4, <2>5, <2>6, <2>7, OneCallMoves DEF Inductive, TypeOK
<1>. QED
  BY <1>3, <1>4 DEF Raise, call

LEMMA ResolveHolds ==
    ASSUME Inductive, NEW c \in Calls, NEW named \in Stations \cup {None},
           NEW key \in Keys \cup {NoKey}, NEW id \in Ids \cup {None, Malformed},
           Resolve(c, named, key, id)
    PROVE  Inductive'
<1>. DEFINE call == [Unmade EXCEPT !.kind = "resolve", !.named = (named # None),
                                   !.key = key, !.id = id]
<1>. DEFINE doing == IF id = None THEN "list" ELSE "resolve"
<1>1. /\ call \in Call /\ call.pc = "idle" /\ call.kind = "resolve" /\ call.id = id
      /\ call.key = key /\ call.wire = "none" /\ call.outcome = "none"
  <2>1. /\ Unmade \in Call /\ Unmade.pc = "idle"
        /\ Unmade.wire = "none" /\ Unmade.outcome = "none"
    BY UnmadeIsACall DEF Unmade
  <2>. DEFINE x == [Unmade EXCEPT !.kind = "resolve", !.named = (named # None)]
  <2>2. call = [x EXCEPT !.key = key, !.id = id]
    OBVIOUS
  <2>4. x \in Call
    BY <2>1, CallOfKind
  <2>3. /\ x \in Call /\ x.kind = "resolve"
        /\ x.pc = "idle" /\ x.wire = "none" /\ x.outcome = "none"
    BY <2>1, <2>4 DEF Call
  <2>. HIDE DEF call, x
  <2>. QED
    BY <2>2, <2>3 DEF Call
<1>2. calls[c].pc = "idle"
  BY DEF Resolve
<1>3. /\ doing \in {"list", "resolve"}
      /\ calls' = [calls EXCEPT ![c] = Done(call, "invalid", "none")]
         \/ /\ (id = None) # (key = NoKey) /\ id # Malformed
            /\ \E s \in TargetEntry(named) : calls' = [calls EXCEPT ![c] = Ask(call, s, doing, id)]
      /\ doing = "list" <=> id = None
  BY DEF Resolve
<1>. HIDE DEF call, doing
<1>4. CASE calls' = [calls EXCEPT ![c] = Done(call, "invalid", "none")]
  <2>1. calls'[c] = Done(call, "invalid", "none")
    BY <1>4 DEF Inductive, TypeOK
  <2>2. CallIsTrue(c)'
    BY <1>1, <2>1, DoneMakes DEF CallIsTrue, Outcomes
  <2>3. UNCHANGED <<loaded, client, token, reauth, stationVars>>
    BY DEF Resolve, entryVars
  <2>. DEFINE r == Done(call, "invalid", "none")
  <2>4. r \in Call /\ r.pc = "done" /\ r.wire = "none" /\ calls' = [calls EXCEPT ![c] = r]
    BY <1>1, <1>4, DoneMakes DEF Outcomes
  <2>. HIDE DEF r
  <2>. QED
    BY <1>2, <2>2, <2>3, <2>4, OneCallMoves DEF Inductive, TypeOK
<1>5. ASSUME NEW s \in TargetEntry(named), (id = None) # (key = NoKey), id # Malformed,
             calls' = [calls EXCEPT ![c] = Ask(call, s, doing, id)]
      PROVE  Inductive'
  <2>1. s \in Stations /\ client[s] \in Pairings /\ client[s] <= token[s]
    BY TargetIsLoaded, LoadedPresents
  <2>2. calls'[c] = Ask(call, s, doing, id) /\ id \in Ids \cup {None}
    BY <1>5 DEF Inductive, TypeOK
  <2>3. token' = token
    BY DEF Resolve, entryVars
  <2>8. /\ calls'[c].pc = "waiting" /\ calls'[c].kind = "resolve" /\ calls'[c].station = s
        /\ calls'[c].id = id /\ calls'[c].key = key /\ calls'[c].found = id
        /\ calls'[c].doing = doing /\ calls'[c].using = client[s]
        /\ calls'[c].wire = "request" /\ calls'[c].outcome = "none"
    BY <1>1, <1>3, <2>1, <2>2, AskMakes
  <2>9. doing = "resolve" => Named(c, id)'
    BY <1>3, <1>5, <2>8 DEF Named
  <2>4. CallIsTrue(c)'
    BY <1>3, <1>5, <2>1, <2>3, <2>8, <2>9 DEF CallIsTrue
  <2>5. UNCHANGED <<loaded, client, token, reauth, stationVars>>
    BY DEF Resolve, entryVars
  <2>. DEFINE r == Ask(call, s, doing, id)
  <2>6. r \in Call /\ r.pc = "waiting" /\ r.station \in Stations /\ r.using \in Pairings
    BY <1>1, <1>3, <2>1, <2>2, AskMakes
  <2>7. calls' = [calls EXCEPT ![c] = r]
    BY <1>5
  <2>. HIDE DEF r
  <2>. QED
    BY <1>2, <2>4, <2>5, <2>6, <2>7, OneCallMoves DEF Inductive, TypeOK
<1>. QED
  BY <1>3, <1>4, <1>5
LEMMA CannotConnectHolds ==
    ASSUME Inductive, NEW c \in Calls, CannotConnect(c)
    PROVE  Inductive'
<1>1. PICK wire \in {"none", calls[c].wire} \ {"reply"} :
          calls' = [calls EXCEPT ![c] = Done(calls[c], "unreachable", wire)]
  BY DEF CannotConnect
<1>. DEFINE r == Done(calls[c], "unreachable", wire)
<1>2. calls[c] \in Call /\ calls'[c] = r
  BY <1>1 DEF Inductive, TypeOK
<1>3. /\ r \in Call /\ r.pc = "done" /\ r.wire = wire /\ r.outcome = "unreachable"
      /\ r.kind = calls[c].kind /\ r.station = calls[c].station /\ r.key = calls[c].key
      /\ r.id = calls[c].id /\ r.found = calls[c].found /\ r.doing = calls[c].doing
      /\ r.using = calls[c].using
  <2>1. calls[c] \in Call /\ wire \in {"none", "request", "reply"}
    BY <1>2, CallFields
  <2>. QED
    BY <2>1, DoneMakes DEF Outcomes
<1>4. UNCHANGED <<loaded, client, token, reauth, stationVars>>
  BY DEF CannotConnect, entryVars
<1>5. r.wire = "request" => calls[c].wire = "request"
  BY <1>1, <1>3
<1>6. calls' = [calls EXCEPT ![c] = r]
  BY <1>1
<1>. HIDE DEF r
<1>7. CallIsTrue(c)'
  BY <1>2, <1>3, <1>4, <1>5 DEF Inductive, CallIsTrue, Named, CannotConnect, stationVars
<1>. QED
  BY <1>2, <1>3, <1>4, <1>5, <1>6, <1>7, OneCallMoves DEF Inductive, TypeOK

LEMMA UnauthorisedHolds ==
    ASSUME Inductive, NEW c \in Calls, Unauthorised(c)
    PROVE  Inductive'
<1>. DEFINE r == Done(calls[c], "unauthorised", "none")
<1>1. calls' = [calls EXCEPT ![c] = r]
  BY DEF Unauthorised
<1>2. calls[c] \in Call /\ calls'[c] = r
  BY <1>1 DEF Inductive, TypeOK
<1>3. /\ r \in Call /\ r.pc = "done" /\ r.wire = "none" /\ r.outcome = "unauthorised"
      /\ r.kind = calls[c].kind /\ r.station = calls[c].station /\ r.key = calls[c].key
      /\ r.id = calls[c].id /\ r.found = calls[c].found /\ r.doing = calls[c].doing
      /\ r.using = calls[c].using
  <2>1. calls[c] \in Call
    BY <1>2
  <2>. QED
    BY <2>1, DoneMakes DEF Outcomes
<1>. HIDE DEF r
<1>4. calls[c].station \in Stations /\ UNCHANGED <<loaded, client, token, stationVars>>
  BY DEF Inductive, CallIsTrue, Unauthorised
<1>5. /\ reauth' \in [Stations -> BOOLEAN] /\ reauth'[calls[c].station]
      /\ \A s \in Stations : reauth[s] => reauth'[s]
  BY <1>4 DEF Inductive, TypeOK, Unauthorised
<1>6. CallIsTrue(c)'
  <2>1. calls[c].doing = "resolve" => Named(c, calls[c].found)'
    BY <1>2, <1>3, <1>4 DEF Inductive, CallIsTrue, Named, Unauthorised, stationVars
  <2>. QED
    BY <1>2, <1>3, <1>4, <1>5, <2>1 DEF Inductive, CallIsTrue, Unauthorised
<1>. QED
  BY <1>1, <1>3, <1>4, <1>5, <1>6, OneCallMoves

LEMMA RefusedHolds ==
    ASSUME Inductive, NEW c \in Calls, Refused(c)
    PROVE  Inductive'
<1>. DEFINE r == Done(calls[c], "refused", "none")
<1>1. calls' = [calls EXCEPT ![c] = r]
  BY DEF Refused
<1>2. calls[c] \in Call /\ calls'[c] = r
  BY <1>1 DEF Inductive, TypeOK
<1>3. /\ r \in Call /\ r.pc = "done" /\ r.wire = "none" /\ r.outcome = "refused"
      /\ r.kind = calls[c].kind /\ r.station = calls[c].station /\ r.key = calls[c].key
      /\ r.id = calls[c].id
  <2>1. calls[c] \in Call
    BY <1>2
  <2>. QED
    BY <2>1, DoneMakes DEF Outcomes
<1>. HIDE DEF r
<1>4. UNCHANGED <<loaded, client, token, reauth, stationVars>>
  BY DEF Refused, entryVars
<1>5. CallIsTrue(c)'
  BY <1>2, <1>3 DEF CallIsTrue
<1>. QED
  BY <1>1, <1>3, <1>4, <1>5, OneCallMoves DEF Inductive, TypeOK

\* A call that returns with found as what it knows: it is enough that found is
\* what a resolve asked for, or an alert that answers a create.
LEMMA ReturnHolds ==
    ASSUME Inductive, NEW c \in Calls, NEW found \in Ids \cup {None}, NEW told \in Call,
           calls[c].pc = "waiting", calls[c].wire = "reply", calls[c].reply.status = "ok",
           calls[c].doing # "list", UNCHANGED <<entryVars, stationVars>>,
           calls' = [calls EXCEPT ![c] = Done(told, "ok", "none")],
           told.found = found, told.kind = calls[c].kind, told.station = calls[c].station,
           told.key = calls[c].key, told.id = calls[c].id,
           told.doing = calls[c].doing, told.using = calls[c].using,
           calls[c].doing = "resolve" => found = calls[c].found,
           calls[c].doing = "create" /\ found # None => Answers(c, found)
    PROVE  Inductive'
<1>. DEFINE r == Done(told, "ok", "none")
<1>1. calls[c] \in Call /\ calls'[c] = r /\ calls' = [calls EXCEPT ![c] = r]
  BY DEF Inductive, TypeOK
<1>2. /\ r \in Call /\ r.pc = "done" /\ r.wire = "none" /\ r.outcome = "ok" /\ r.found = found
      /\ r.kind = calls[c].kind /\ r.station = calls[c].station /\ r.key = calls[c].key
      /\ r.id = calls[c].id /\ r.doing = calls[c].doing /\ r.using = calls[c].using
  BY DoneMakes DEF Outcomes
<1>. HIDE DEF r
<1>3. UNCHANGED <<loaded, client, token, reauth, stationVars, alerts>>
  BY DEF entryVars, stationVars
<1>4. CarriedOut(c) /\ (calls[c].doing = "resolve" => Named(c, calls[c].found))
  BY DEF Inductive, CallIsTrue
<1>5. ASSUME NEW i PROVE RaisedFor(c, i) => RaisedFor(c, i)'
  BY <1>1, <1>2, <1>3 DEF RaisedFor
<1>6. CarriedOut(c)' /\ (calls[c].doing = "resolve" => Named(c, found)')
  BY <1>1, <1>2, <1>3, <1>4, <1>5 DEF CarriedOut, Named
<1>7. calls[c].doing = "create" /\ found # None => RaisedFor(c, found)'
  BY <1>5 DEF Answers
<1>8. CallIsTrue(c)'
  BY <1>1, <1>2, <1>3, <1>6, <1>7 DEF Inductive, CallIsTrue
<1>. QED
  BY <1>1, <1>2, <1>3, <1>8, OneCallMoves DEF Inductive, TypeOK

LEMMA SucceededHolds ==
    ASSUME Inductive, NEW c \in Calls, Succeeded(c)
    PROVE  Inductive'
<1>. DEFINE over == [calls[c] EXCEPT !.reply = NoReply]
<1>1. /\ calls[c] \in Call /\ calls[c].pc = "waiting" /\ calls[c].wire = "reply"
      /\ calls[c].reply.status = "ok" /\ calls[c].doing # "list"
      /\ UNCHANGED <<entryVars, stationVars>>
  BY DEF Inductive, TypeOK, Succeeded
<1>2. /\ over \in Call /\ over.found = calls[c].found
      /\ over.kind = calls[c].kind /\ over.station = calls[c].station /\ over.key = calls[c].key
      /\ over.id = calls[c].id /\ over.doing = calls[c].doing /\ over.using = calls[c].using
  BY <1>1, UnmadeIsACall DEF Call
<1>3. \/ /\ calls[c].doing = "create"
         /\ \E i \in AlertFrom(calls[c].reply) :
               calls' = [calls EXCEPT ![c] = Done([over EXCEPT !.found = i], "ok", "none")]
      \/ calls[c].doing = "resolve" /\ calls' = [calls EXCEPT ![c] = Done(over, "ok", "none")]
  BY DEF Succeeded
<1>. HIDE DEF over
<1>4. ASSUME calls[c].doing = "create", NEW i \in AlertFrom(calls[c].reply),
             calls' = [calls EXCEPT ![c] = Done([over EXCEPT !.found = i], "ok", "none")]
      PROVE  Inductive'
  <2>. DEFINE told == [over EXCEPT !.found = i]
  <2>1. i \in Ids \cup {None} /\ (i # None => Answers(c, i))
    BY <1>1, CallFields DEF AlertFrom, Inductive, CallIsTrue
  <2>2. /\ told \in Call /\ told.found = i
        /\ told.kind = calls[c].kind /\ told.station = calls[c].station /\ told.key = calls[c].key
        /\ told.id = calls[c].id /\ told.doing = calls[c].doing /\ told.using = calls[c].using
    BY <1>2, <2>1 DEF Call
  <2>3. calls' = [calls EXCEPT ![c] = Done(told, "ok", "none")]
    BY <1>4
  <2>. HIDE DEF told
  <2>. QED
    BY <1>1, <1>4, <2>1, <2>2, <2>3, ReturnHolds
<1>5. ASSUME calls[c].doing = "resolve", calls' = [calls EXCEPT ![c] = Done(over, "ok", "none")]
      PROVE  Inductive'
  <2>1. calls[c].found \in Ids \cup {None}
    BY <1>1, CallFields
  <2>. QED
    BY <1>1, <1>2, <1>5, <2>1, ReturnHolds
<1>. QED
  BY <1>3, <1>4, <1>5

LEMMA ListedHolds ==
    ASSUME Inductive, NEW c \in Calls, Listed(c)
    PROVE  Inductive'
<1>. DEFINE s == calls[c].station
<1>. DEFINE over == [calls[c] EXCEPT !.reply = NoReply]
<1>1. /\ calls[c] \in Call /\ calls[c].pc = "waiting" /\ calls[c].wire = "reply"
      /\ s \in Stations /\ calls[c].kind = "resolve" /\ calls[c].outcome = "none"
      /\ calls[c].id = None /\ calls[c].key # NoKey
  BY CallFields DEF Inductive, TypeOK, CallIsTrue, Listed
<1>2. /\ over \in Call /\ over.pc = "waiting" /\ over.kind = "resolve" /\ over.station = s
      /\ over.key = calls[c].key /\ over.id = calls[c].id
      /\ over.outcome = "none"
  BY <1>1, UnmadeIsACall DEF Call
<1>3. UNCHANGED <<loaded, client, token, reauth, stationVars>>
  BY DEF Listed, entryVars
<1>4. ASSUME NEW outcome \in {"invalid", "no_id", "AttributeError"},
             calls' = [calls EXCEPT ![c] = Done(over, outcome, "none")]
      PROVE  Inductive'
  <2>. HIDE DEF over
  <2>. DEFINE r == Done(over, outcome, "none")
  <2>1. /\ r \in Call /\ r.pc = "done" /\ r.wire = "none" /\ r.outcome = outcome
        /\ r.kind = over.kind /\ r.station = s /\ r.key = over.key /\ r.id = over.id
    BY <1>2, DoneMakes DEF Outcomes
  <2>2. calls'[c] = r /\ calls' = [calls EXCEPT ![c] = r]
    BY <1>4 DEF Inductive, TypeOK
  <2>. HIDE DEF r
  <2>3. CallIsTrue(c)'
    BY <2>1, <2>2 DEF CallIsTrue
  <2>. QED
    BY <1>1, <1>2, <1>3, <2>1, <2>2, <2>3, OneCallMoves DEF Inductive, TypeOK
<1>5. ASSUME client[s] # None, NEW i \in Matches(c),
             calls' = [calls EXCEPT ![c] = Ask(over, s, "resolve", i)]
      PROVE  Inductive'
  <2>1. client[s] \in Pairings /\ client[s] <= token[s]
    BY <1>1, <1>5, LoadedPresents
  <2>2. i \in Ids /\ i \in 1 .. Len(alerts[s]) /\ alerts[s][i].key = calls[c].key
    BY <1>1, CallFields DEF Matches, Inductive, CallIsTrue, Answers, Listed
  <2>. HIDE DEF over
  <2>. DEFINE r == Ask(over, s, "resolve", i)
  <2>3. /\ r \in Call /\ r.pc = "waiting" /\ r.kind = "resolve" /\ r.station = s
        /\ r.key = calls[c].key /\ r.id = calls[c].id /\ r.found = i /\ r.doing = "resolve"
        /\ r.using = client[s] /\ r.wire = "request" /\ r.outcome = "none"
    BY <1>1, <1>2, <2>1, <2>2, AskMakes
  <2>4. calls'[c] = r /\ calls' = [calls EXCEPT ![c] = r]
    BY <1>5 DEF Inductive, TypeOK
  <2>. HIDE DEF r
  <2>5. Named(c, i)'
    BY <1>1, <1>3, <2>2, <2>3, <2>4 DEF Named, stationVars
  <2>6. CallIsTrue(c)'
    BY <1>1, <1>3, <2>1, <2>3, <2>4, <2>5 DEF CallIsTrue
  <2>. QED
    BY <1>1, <1>3, <2>1, <2>3, <2>4, <2>6, OneCallMoves DEF Inductive, TypeOK
<1>. QED
  BY <1>4, <1>5 DEF Listed
------------------------------------------------------------------------------
(* The steps of a station. *)

\* Alert i of s is replaced by a.
Replaces(s, i, a) == alerts' = [alerts EXCEPT ![s] = [alerts[s] EXCEPT ![i] = a]]

\* One alert is replaced.
LEMMA AlertReplaced ==
    ASSUME TypeOK, NEW s \in Stations, NEW i \in 1 .. Len(alerts[s]), NEW a \in Alert,
           Replaces(s, i, a)
    PROVE  /\ alerts' \in [Stations -> Seq(Alert)]
           /\ \A t \in Stations : Len(alerts'[t]) = Len(alerts[t])
           /\ alerts'[s][i] = a
           /\ \A t \in Stations : \A j \in 1 .. Len(alerts[t]) :
                 t # s \/ j # i => alerts'[t][j] = alerts[t][j]
<1>1. alerts[s] \in Seq(Alert)
  BY DEF TypeOK
<1>2. alerts'[s] = [alerts[s] EXCEPT ![i] = a] /\ \A t \in Stations \ {s} : alerts'[t] = alerts[t]
  BY DEF TypeOK, Replaces
<1>3. /\ alerts'[s] \in Seq(Alert) /\ Len(alerts'[s]) = Len(alerts[s])
      /\ \A j \in 1 .. Len(alerts[s]) : alerts'[s][j] = IF j = i THEN a ELSE alerts[s][j]
  BY <1>1, <1>2, ExceptSeq
<1>. QED
  BY <1>2, <1>3 DEF TypeOK, Replaces

\* One alert is added.
LEMMA AlertAdded ==
    ASSUME TypeOK, NEW s \in Stations, NEW a \in Alert,
           alerts' = [alerts EXCEPT ![s] = Append(@, a)]
    PROVE  /\ alerts' \in [Stations -> Seq(Alert)]
           /\ Len(alerts[s]) \in Nat /\ Len(alerts'[s]) = Len(alerts[s]) + 1
           /\ alerts'[s][Len(alerts[s]) + 1] = a
           /\ \A j \in 1 .. Len(alerts[s]) : alerts'[s][j] = alerts[s][j]
           /\ \A t \in Stations \ {s} : alerts'[t] = alerts[t]
<1>1. alerts[s] \in Seq(Alert)
  BY DEF TypeOK
<1>2. alerts'[s] = Append(alerts[s], a) /\ \A t \in Stations \ {s} : alerts'[t] = alerts[t]
  BY DEF TypeOK
<1>3. /\ alerts'[s] \in Seq(Alert) /\ Len(alerts'[s]) = Len(alerts[s]) + 1
      /\ \A j \in 1 .. Len(alerts[s]) : alerts'[s][j] = alerts[s][j]
      /\ alerts'[s][Len(alerts[s]) + 1] = a
  BY <1>1, <1>2, AppendProperties
<1>. QED
  BY <1>1, <1>2, <1>3, LenProperties DEF TypeOK

\* The call an answer reaches is still the same call.
LEMMA AnswerMakes ==
    ASSUME Inductive, NEW c \in Calls, NEW status \in {"ok", "unauthorised", "error"},
           NEW ids \in SUBSET Ids, Answer(c, status, ids)
    PROVE  /\ calls' \in [Calls -> Call]
           /\ \A d \in Calls \ {c} : calls'[d] = calls[d]
           /\ calls'[c].pc = calls[c].pc /\ calls'[c].kind = calls[c].kind
           /\ calls'[c].station = calls[c].station /\ calls'[c].key = calls[c].key
           /\ calls'[c].id = calls[c].id /\ calls'[c].found = calls[c].found
           /\ calls'[c].doing = calls[c].doing /\ calls'[c].using = calls[c].using
           /\ calls'[c].outcome = calls[c].outcome
           /\ calls'[c].wire = IF calls[c].pc = "waiting" THEN "reply" ELSE "none"
           /\ calls[c].pc = "waiting" =>
                 calls'[c].reply.status = status /\ calls'[c].reply.ids \subseteq ids
<1>. PICK told \in Decoded(ids) :
        calls' = [calls EXCEPT
                     ![c].wire = IF calls[c].pc = "waiting" THEN "reply" ELSE "none",
                     ![c].reply = IF calls[c].pc = "waiting"
                                  THEN [status |-> status, ids |-> told] ELSE NoReply]
  BY DEF Answer
<1>7. told \in SUBSET Ids /\ told \subseteq ids
  BY DEF Decoded
<1>1. [status |-> status, ids |-> told] \in Reply /\ NoReply \in Reply
  BY <1>7, UnmadeIsACall DEF Reply
<1>. DEFINE wire == IF calls[c].pc = "waiting" THEN "reply" ELSE "none"
<1>. DEFINE reply == IF calls[c].pc = "waiting" THEN [status |-> status, ids |-> told] ELSE NoReply
<1>2. calls' = [calls EXCEPT ![c].wire = wire, ![c].reply = reply]
  OBVIOUS
<1>3. wire \in {"none", "request", "reply"} /\ reply \in Reply
  BY <1>1
<1>4. calls \in [Calls -> Call]
  BY DEF Inductive, TypeOK
<1>5. calls[c].pc = "waiting" => reply.status = status /\ reply.ids \subseteq ids
  BY <1>7
<1>. HIDE DEF reply, wire
<1>6. /\ calls' \in [Calls -> Call] /\ calls'[c].wire = wire /\ calls'[c].reply = reply
      /\ \A d \in Calls \ {c} : calls'[d] = calls[d]
      /\ calls'[c].pc = calls[c].pc /\ calls'[c].kind = calls[c].kind
      /\ calls'[c].station = calls[c].station /\ calls'[c].key = calls[c].key
      /\ calls'[c].id = calls[c].id /\ calls'[c].found = calls[c].found
      /\ calls'[c].doing = calls[c].doing /\ calls'[c].using = calls[c].using
      /\ calls'[c].outcome = calls[c].outcome
  <2>1. calls[c] \in Call
    BY <1>4
  <2>. DEFINE r == [calls[c] EXCEPT !.wire = wire, !.reply = reply]
  <2>2. calls'[c] = r /\ \A d \in Calls \ {c} : calls'[d] = calls[d]
    BY <1>2, <1>4
  <2>5. r \in Call
    BY ONLY <1>3, <2>1 DEF r, Call
  <2>3. /\ r.wire = wire /\ r.reply = reply
        /\ r.pc = calls[c].pc /\ r.kind = calls[c].kind
        /\ r.station = calls[c].station /\ r.key = calls[c].key
        /\ r.id = calls[c].id /\ r.found = calls[c].found
        /\ r.doing = calls[c].doing /\ r.using = calls[c].using
        /\ r.outcome = calls[c].outcome
    BY ONLY <2>1 DEF r, Call
  <2>4. calls' = [calls EXCEPT ![c] = r]
    BY <1>2, <1>4
  <2>. HIDE DEF r
  <2>. QED
    BY <1>4, <2>2, <2>3, <2>4, <2>5
<1>. QED
  BY <1>5, <1>6 DEF wire

\* A request is answered, and at most one alert is changed to make it so: it
\* is enough that the answer is true, and the alert.
LEMMA OneAnswerHolds ==
    ASSUME Inductive, NEW c \in Calls, calls[c].wire = "request",
           UNCHANGED <<entryVars, up, rows>>,
           NEW status \in {"ok", "unauthorised", "error"}, NEW ids \in SUBSET Ids,
           Answer(c, status, ids),
           alerts' \in [Stations -> Seq(Alert)], StationsGoOn, NoTwins',
           \A t \in Stations : Len(alerts'[t]) <= MaxAlerts,
           status = "ok" => CarriedOut(c)' /\ \A i \in ids : Answers(c, i)',
           \A t \in Stations : \A i \in 1 .. Len(alerts'[t]) :
              \/ i \in 1 .. Len(alerts[t]) /\ alerts'[t][i].closedBy = alerts[t][i].closedBy
              \/ AlertIsTrue(t, i)'
    PROVE  Inductive'
<1>1. calls[c].station \in Stations /\ calls[c].using \in Pairings /\ calls[c].pc # "idle"
  BY DEF Inductive, TypeOK, CallIsTrue, Unmade
<1>. DEFINE wire == IF calls[c].pc = "waiting" THEN "reply" ELSE "none"
<1>5. /\ calls' \in [Calls -> Call]
      /\ \A d \in Calls \ {c} : calls'[d] = calls[d]
      /\ calls'[c].pc = calls[c].pc /\ calls'[c].kind = calls[c].kind
      /\ calls'[c].station = calls[c].station /\ calls'[c].key = calls[c].key
      /\ calls'[c].id = calls[c].id /\ calls'[c].found = calls[c].found
      /\ calls'[c].doing = calls[c].doing /\ calls'[c].using = calls[c].using
      /\ calls'[c].outcome = calls[c].outcome /\ calls'[c].wire = wire
      /\ calls[c].pc = "waiting" =>
            calls'[c].reply.status = status /\ calls'[c].reply.ids \subseteq ids
  BY AnswerMakes
<1>6. wire # "request" /\ (wire = "reply" => calls[c].pc = "waiting")
  OBVIOUS
<1>. HIDE DEF wire
<1>2. TypeOK'
  <2>1. TypeOK
    BY DEF Inductive
  <2>2. ASSUME NEW d \in Calls, calls'[d].wire = "request"
        PROVE  calls'[d].station \in Stations /\ calls'[d].using \in Pairings
    BY ONLY <1>5, <1>6, <2>1, <2>2 DEF TypeOK
  <2>. QED
    BY <1>5, <2>1, <2>2 DEF TypeOK, entryVars
<1>3. CallsGoOn
  BY ONLY <1>5 DEF CallsGoOn
<1>4. ASSUME NEW d \in Calls PROVE CallIsTrue(d)'
  <2>1. CASE d # c
    <3>1. calls'[d] = calls[d] /\ CallIsTrue(d) /\ TypeOK
      BY <1>5, <2>1 DEF Inductive
    <3>. QED
      BY <1>2, <3>1, CallStays
  <2>2. CASE d = c
    <3>7. TypeOK
      BY DEF Inductive
    <3>8. /\ \A i : Named(c, i) => Named(c, i)'
          /\ \A i : RaisedFor(c, i) => RaisedFor(c, i)'
          /\ CarriedOut(c) => CarriedOut(c)'
      BY ONLY <1>1, <1>2, <1>5, <3>7, StationsGoOn, TruthsStay
    <3>1. /\ calls[c].outcome = "ok" =>
                /\ CarriedOut(c)'
                /\ calls[c].doing = "create" /\ calls[c].found # None =>
                      RaisedFor(c, calls[c].found)'
          /\ calls[c].doing = "resolve" => Named(c, calls[c].found)'
      <4>1. CallIsTrue(c) /\ calls[c].wire = "request"
        BY DEF Inductive
      <4>. QED
        BY ONLY <1>5, <3>8, <4>1 DEF CallIsTrue
    <3>2. calls[c].outcome = "unauthorised" =>
             reauth'[calls[c].station] \/ token'[calls[c].station] > calls[c].using
      BY DEF Inductive, CallIsTrue, entryVars
    <3>3. /\ calls[c].using <= token'[calls[c].station]
          /\ calls[c].kind = "raise" <=> calls[c].doing = "create"
          /\ calls[c].pc # "done" => calls[c].outcome = "none"
          /\ calls[c].outcome = "ok" => calls[c].doing # "list"
          /\ calls[c].doing = "list" => calls[c].id = None /\ calls[c].key # NoKey
      BY DEF Inductive, CallIsTrue, entryVars
    <3>4. calls'[c].wire = "reply" => /\ calls'[c].pc = "waiting"
                                      /\ calls'[c].reply.status = status
                                      /\ calls'[c].reply.ids \subseteq ids
      BY ONLY <1>5, <1>6
    <3>5. status = "ok" => CarriedOut(c)' /\ \A i \in ids : Answers(c, i)'
      OBVIOUS
    <3>. QED
      BY ONLY <1>1, <1>5, <1>6, <2>2, <3>1, <3>2, <3>3, <3>4, <3>5 DEF CallIsTrue
  <2>. QED
    BY <2>1, <2>2
<1>7. ASSUME NEW t \in Stations, NEW i \in 1 .. Len(alerts'[t]) PROVE AlertIsTrue(t, i)'
  BY <1>2, <1>3, AlertStays DEF Inductive
<1>8. ClientsPresentTokens'
  BY DEF Inductive, ClientsPresentTokens, entryVars
<1>. QED
  BY <1>2, <1>4, <1>7, <1>8 DEF Inductive
\* An answer with nothing done to the alerts.
LEMMA QuietAnswerHolds ==
    ASSUME Inductive, NEW c \in Calls, calls[c].wire = "request",
           UNCHANGED <<entryVars, up, rows, alerts>>,
           NEW status \in {"ok", "unauthorised", "error"}, NEW ids \in SUBSET Ids,
           Answer(c, status, ids),
           status = "ok" => CarriedOut(c) /\ \A i \in ids : Answers(c, i)
    PROVE  Inductive'
<1>1. StationsGoOn
  <2>1. ASSUME NEW t \in Stations PROVE token[t] \in Nat /\ Len(alerts[t]) \in Nat
    BY DEF Inductive, TypeOK, Pairings
  <2>. QED
    BY <2>1 DEF StationsGoOn, entryVars
<1>2. /\ alerts' \in [Stations -> Seq(Alert)] /\ NoTwins'
      /\ \A t \in Stations : Len(alerts'[t]) <= MaxAlerts
  BY DEF Inductive, TypeOK, ClientsPresentTokens, NoTwins
<1>3. status = "ok" => CarriedOut(c)' /\ \A i \in ids : Answers(c, i)'
  <2>1. /\ calls'[c].station = calls[c].station /\ calls'[c].doing = calls[c].doing
        /\ calls'[c].key = calls[c].key /\ calls'[c].using = calls[c].using
        /\ calls'[c].found = calls[c].found
    BY AnswerMakes
  <2>2. ASSUME NEW i PROVE RaisedFor(c, i) => RaisedFor(c, i)'
    BY <2>1 DEF RaisedFor
  <2>. QED
    BY <2>1, <2>2 DEF Answers, CarriedOut
<1>. QED
  BY <1>1, <1>2, <1>3, OneAnswerHolds

\* The station raises an alert, or finds the open one it has under the key.
LEMMA ServeCreateHolds ==
    ASSUME Inductive, NEW c \in Calls, calls[c].wire = "request", calls[c].doing = "create",
           UNCHANGED <<entryVars, up, rows>>, ServeCreate(c)
    PROVE  Inductive'
<1>1. /\ calls[c].station \in Stations /\ calls[c].using \in Pairings /\ calls[c].pc # "idle"
      /\ calls[c] \in Call /\ calls[c].key \in Keys \cup {NoKey}
  BY CallFields DEF Inductive, TypeOK, CallIsTrue, Unmade
<1>. PICK s \in Stations : s = calls[c].station
  BY <1>1
<1>. DEFINE known == {i \in OpenIds(s, calls[c].using) :
                         PayloadKey(c) # NoKey /\ alerts[s][i].key = PayloadKey(c)}
<1>2. Len(alerts[s]) \in Nat /\ Len(alerts[s]) <= MaxAlerts
  BY DEF Inductive, TypeOK, ClientsPresentTokens
<1>3. ASSUME NEW i \in known, Answer(c, "ok", {i}), UNCHANGED alerts
      PROVE  Inductive'
  <2>1. RaisedFor(c, i) /\ i \in Ids
    BY <1>2, ServicesAssumption DEF RaisedFor, OpenIds, OwnIds, PayloadKey, Ids
  <2>2. CarriedOut(c) /\ Answers(c, i) /\ {i} \in SUBSET Ids
    BY <2>1 DEF CarriedOut, Answers, RaisedFor
  <2>. QED
    BY <1>3, <2>2, QuietAnswerHolds
<1>4. ASSUME known = {}, Len(alerts[s]) < MaxAlerts,
             alerts' = [alerts EXCEPT ![s] =
                            Append(@, [key |-> PayloadKey(c), source |-> calls[c].using,
                                       open |-> TRUE, by |-> c, closedBy |-> None])],
             Answer(c, "ok", {Len(alerts[s]) + 1})
      PROVE  Inductive'
  <2>. DEFINE a == [key |-> PayloadKey(c), source |-> calls[c].using,
                    open |-> TRUE, by |-> c, closedBy |-> None]
  <2>. PICK n \in Nat : n = Len(alerts[s]) + 1
    BY <1>2
  <2>1. /\ a \in Alert /\ a.key = calls[c].key /\ a.source = calls[c].using
        /\ a.open /\ a.by = c /\ a.closedBy = None
    BY <1>1 DEF Alert, PayloadKey
  <2>. HIDE DEF a
  <2>2. alerts' = [alerts EXCEPT ![s] = Append(@, a)]
    BY <1>4 DEF a
  <2>3. /\ alerts' \in [Stations -> Seq(Alert)] /\ Len(alerts'[s]) = n /\ alerts'[s][n] = a
        /\ \A j \in 1 .. Len(alerts[s]) : alerts'[s][j] = alerts[s][j]
        /\ \A t \in Stations \ {s} : alerts'[t] = alerts[t]
    <3>1. TypeOK
      BY DEF Inductive
    <3>. QED
      BY ONLY <1>1, <1>2, <2>1, <2>2, <3>1, AlertAdded, n = Len(alerts[s]) + 1
  <2>4. StationsGoOn
    <3>1. ASSUME NEW t \in Stations PROVE token[t] \in Nat /\ Len(alerts[t]) \in Nat
      BY DEF Inductive, TypeOK, Pairings
    <3>2. ASSUME NEW t \in Stations
          PROVE  /\ Len(alerts[t]) <= Len(alerts'[t])
                 /\ \A j \in 1 .. Len(alerts[t]) : alerts'[t][j] = alerts[t][j]
      BY <1>2, <2>3, <3>1
    <3>. QED
      BY <3>1, <3>2 DEF StationsGoOn, entryVars
  <2>5. \A t \in Stations : Len(alerts'[t]) <= MaxAlerts
    BY <1>2, <1>4, <2>3, ServicesAssumption DEF Inductive, ClientsPresentTokens
  <2>6. /\ calls'[c].station = s /\ calls'[c].doing = calls[c].doing /\ calls'[c].key = calls[c].key
        /\ calls'[c].using = calls[c].using /\ calls'[c].pc # "idle"
    <3>1. {n} \in SUBSET Ids
      BY <1>2, <1>4, ServicesAssumption DEF Ids
    <3>. QED
      BY <1>1, <1>4, <3>1, AnswerMakes
  <2>7. CarriedOut(c)' /\ \A i \in {n} : Answers(c, i)'
    <3>1. RaisedFor(c, n)' /\ n \in Ids
      BY <1>2, <1>4, <2>1, <2>3, <2>6, ServicesAssumption DEF RaisedFor, Ids
    <3>. QED
      BY <2>6, <3>1 DEF CarriedOut, Answers, RaisedFor
  <2>8. AlertIsTrue(s, n)'
    BY <2>1, <2>3, <2>6 DEF AlertIsTrue
  <2>9. NoTwins'
    <3>1. ASSUME NEW t \in Stations, NEW i \in 1 .. Len(alerts'[t]), NEW j \in 1 .. Len(alerts'[t]),
                 i # j, alerts'[t][i].open, alerts'[t][j].open,
                 alerts'[t][i].source = alerts'[t][j].source
          PROVE  alerts'[t][i].key = NoKey \/ alerts'[t][i].key # alerts'[t][j].key
      <4>1. CASE t # s
        BY <2>3, <3>1, <4>1 DEF Inductive, NoTwins
      <4>2. CASE t = s /\ i # n /\ j # n
        <5>1. /\ i \in 1 .. Len(alerts[s]) /\ j \in 1 .. Len(alerts[s])
              /\ alerts'[t][i] = alerts[s][i] /\ alerts'[t][j] = alerts[s][j]
          <6>1. Len(alerts[s]) \in Nat /\ Len(alerts'[t]) = Len(alerts[s]) + 1 /\ n = Len(alerts[s]) + 1
            BY <1>2, <2>3, <4>2
          <6>2. i \in 1 .. Len(alerts[s]) /\ j \in 1 .. Len(alerts[s])
            BY ONLY <3>1, <4>2, <6>1
          <6>. QED
            BY ONLY <2>3, <4>2, <6>2
        <5>2. NoTwins
          BY DEF Inductive
        <5>. QED
          BY ONLY <1>1, <3>1, <5>1, <5>2 DEF NoTwins
      <4>3. ASSUME NEW k \in 1 .. Len(alerts[s]), alerts[s][k].open, alerts[s][k].source = a.source
            PROVE  a.key = NoKey \/ alerts[s][k].key # a.key
        BY <1>4, <2>1, <4>3 DEF OpenIds, OwnIds, PayloadKey
      <4>4. CASE t = s /\ i = n
        <5>1. j \in 1 .. Len(alerts[s]) /\ alerts'[s][j] = alerts[s][j]
          BY <1>2, <2>3, <3>1, <4>4
        <5>. QED
          BY ONLY <2>3, <3>1, <4>3, <4>4, <5>1
      <4>5. CASE t = s /\ j = n
        <5>1. i \in 1 .. Len(alerts[s]) /\ alerts'[s][i] = alerts[s][i]
          BY <1>2, <2>3, <3>1, <4>5
        <5>. QED
          BY ONLY <2>3, <3>1, <4>3, <4>5, <5>1
      <4>. QED
        BY <4>1, <4>2, <4>4, <4>5
    <3>. QED
      BY <3>1 DEF NoTwins
  <2>10. ASSUME NEW t \in Stations, NEW i \in 1 .. Len(alerts'[t])
         PROVE  \/ i \in 1 .. Len(alerts[t]) /\ alerts'[t][i].closedBy = alerts[t][i].closedBy
                \/ AlertIsTrue(t, i)'
    <3>1. CASE t = s /\ i = n
      BY <2>8, <3>1
    <3>2. CASE t = s /\ i # n
      BY <1>2, <2>3, <3>2
    <3>3. CASE t # s
      BY <2>3, <3>3
    <3>. QED
      BY <3>1, <3>2, <3>3
  <2>11. {n} \in SUBSET Ids
    BY <1>2, <1>4, ServicesAssumption DEF Ids
  <2>12. Answer(c, "ok", {n})
    BY <1>4
  <2>. QED
    BY ONLY Inductive, calls[c].wire = "request", UNCHANGED <<entryVars, up, rows>>,
            <2>3, <2>4, <2>5, <2>7, <2>9, <2>10, <2>11, <2>12, OneAnswerHolds
<1>. QED
  BY <1>3, <1>4 DEF ServeCreate
\* What a step that replaces one alert by the same one, closed, leaves true.
LEMMA CloseGoesOn ==
    ASSUME Inductive, NEW s \in Stations, NEW i \in 1 .. Len(alerts[s]), NEW a \in Alert,
           a.key = alerts[s][i].key, a.source = alerts[s][i].source,
           a.by = alerts[s][i].by, ~a.open,
           Replaces(s, i, a),
           UNCHANGED entryVars
    PROVE  /\ alerts' \in [Stations -> Seq(Alert)]
           /\ \A t \in Stations : Len(alerts'[t]) = Len(alerts[t])
           /\ alerts'[s][i] = a
           /\ \A t \in Stations : \A j \in 1 .. Len(alerts[t]) :
                 t # s \/ j # i => alerts'[t][j] = alerts[t][j]
           /\ StationsGoOn /\ NoTwins'
<1>1. /\ alerts' \in [Stations -> Seq(Alert)]
      /\ \A t \in Stations : Len(alerts'[t]) = Len(alerts[t])
      /\ alerts'[s][i] = a
      /\ \A t \in Stations : \A j \in 1 .. Len(alerts[t]) :
            t # s \/ j # i => alerts'[t][j] = alerts[t][j]
  BY AlertReplaced DEF Inductive
<1>2. ASSUME NEW t \in Stations, NEW j \in 1 .. Len(alerts[t])
      PROVE  /\ alerts'[t][j].key = alerts[t][j].key
             /\ alerts'[t][j].source = alerts[t][j].source
             /\ alerts'[t][j].by = alerts[t][j].by
             /\ alerts'[t][j].open => alerts[t][j].open
  <2>1. CASE t = s /\ j = i
    BY <1>1, <2>1
  <2>2. CASE t # s \/ j # i
    BY <1>1, <2>2
  <2>. QED
    BY <2>1, <2>2
<1>3. StationsGoOn
  <2>1. ASSUME NEW t \in Stations PROVE token[t] \in Nat /\ Len(alerts[t]) \in Nat
    BY DEF Inductive, TypeOK, Pairings
  <2>. QED
    BY <1>1, <1>2, <2>1 DEF StationsGoOn, entryVars
<1>4. NoTwins'
  <2>1. ASSUME NEW t \in Stations, NEW j \in 1 .. Len(alerts'[t]), NEW k \in 1 .. Len(alerts'[t]),
               j # k, alerts'[t][j].open, alerts'[t][k].open,
               alerts'[t][j].source = alerts'[t][k].source
        PROVE  alerts'[t][j].key = NoKey \/ alerts'[t][j].key # alerts'[t][k].key
    <3>1. j \in 1 .. Len(alerts[t]) /\ k \in 1 .. Len(alerts[t])
      BY <1>1
    <3>2. NoTwins
      BY DEF Inductive
    <3>. QED
      BY ONLY <1>2, <2>1, <3>1, <3>2 DEF NoTwins
  <2>. QED
    BY <2>1 DEF NoTwins
<1>. QED
  BY <1>1, <1>3, <1>4

\* The station closes the alert the request names, if the caller raised it.
LEMMA ServeResolveHolds ==
    ASSUME Inductive, NEW c \in Calls, calls[c].wire = "request", calls[c].doing = "resolve",
           UNCHANGED <<entryVars, up, rows>>, ServeResolve(c)
    PROVE  Inductive'
<1>1. /\ calls[c].station \in Stations /\ calls[c].pc # "idle" /\ calls[c] \in Call
      /\ calls[c].kind = "resolve" /\ calls[c].found \in Ids \cup {None}
      /\ Named(c, calls[c].found)
  BY CallFields DEF Inductive, TypeOK, CallIsTrue, Unmade
<1>. PICK s \in Stations : s = calls[c].station
  BY <1>1
<1>. PICK i \in Ids \cup {None} : i = calls[c].found
  BY <1>1
<1>2. Len(alerts[s]) \in Nat /\ Len(alerts[s]) <= MaxAlerts
  BY DEF Inductive, TypeOK, ClientsPresentTokens
<1>3. ASSUME Answer(c, "error", {}), UNCHANGED alerts PROVE Inductive'
  BY <1>3, QuietAnswerHolds
<1>4. ASSUME i \in OwnIds(s, calls[c].using), Answer(c, "ok", {i}), ~alerts[s][i].open,
             UNCHANGED alerts
      PROVE  Inductive'
  <2>1. CarriedOut(c) /\ Answers(c, i) /\ {i} \in SUBSET Ids
    BY <1>2, <1>4, ServicesAssumption DEF CarriedOut, Answers, OwnIds, Ids
  <2>. QED
    BY <1>4, <2>1, QuietAnswerHolds
<1>5. ASSUME i \in OwnIds(s, calls[c].using), Answer(c, "ok", {i}), alerts[s][i].open,
             alerts' = [alerts EXCEPT ![s][i].open = FALSE, ![s][i].closedBy = c]
      PROVE  Inductive'
  <2>1. i \in 1 .. Len(alerts[s]) /\ {i} \in SUBSET Ids
    <3>1. i \in OwnIds(s, calls[c].using)
      BY <1>5
    <3>. QED
      BY ONLY <1>2, <3>1, ServicesAssumption DEF OwnIds, Ids
  <2>2. alerts[s] \in Seq(Alert) /\ alerts[s][i] \in Alert
    BY <2>1, AlertFields DEF Inductive, TypeOK
  <2>. DEFINE a == [alerts[s][i] EXCEPT !.open = FALSE, !.closedBy = c]
  <2>3. /\ a \in Alert /\ a.key = alerts[s][i].key /\ a.source = alerts[s][i].source
        /\ a.by = alerts[s][i].by /\ ~a.open /\ a.closedBy = c
    BY <2>2 DEF Alert
  <2>4. Replaces(s, i, a)
    <3>1. alerts' = [alerts EXCEPT ![s][i].open = FALSE, ![s][i].closedBy = c]
      BY <1>5
    <3>. QED
      BY ONLY <3>1 DEF Replaces, a
  <2>. HIDE DEF a
  <2>5. /\ alerts' \in [Stations -> Seq(Alert)]
        /\ \A t \in Stations : Len(alerts'[t]) = Len(alerts[t])
        /\ alerts'[s][i] = a
        /\ \A t \in Stations : \A j \in 1 .. Len(alerts[t]) :
              t # s \/ j # i => alerts'[t][j] = alerts[t][j]
        /\ StationsGoOn /\ NoTwins'
    BY <2>1, <2>3, <2>4, CloseGoesOn
  <2>6. /\ calls'[c].station = s /\ calls'[c].doing = "resolve" /\ calls'[c].key = calls[c].key
        /\ calls'[c].pc # "idle" /\ calls'[c].kind = "resolve" /\ calls'[c].id = calls[c].id
        /\ calls'[c].found = i
    BY <1>1, <1>5, <2>1, AnswerMakes
  <2>7. CarriedOut(c)' /\ Answers(c, i)'
    BY <2>1, <2>3, <2>5, <2>6 DEF CarriedOut, Answers
  <2>8. AlertIsTrue(s, i)'
    <3>1. AlertIsTrue(s, i)
      BY <2>1 DEF Inductive
    <3>2. a.by \in Calls /\ calls'[a.by].pc # "idle" /\ calls'[a.by].key = a.key
      <4>1. a.by \in Calls
        BY <2>1, <2>3, AlertFields DEF Inductive
      <4>2. calls[a.by].pc # "idle" /\ calls[a.by].key = a.key
        BY <2>3, <3>1 DEF AlertIsTrue
      <4>3. \A d \in Calls \ {c} : calls'[d] = calls[d]
        BY <1>5, <2>1, AnswerMakes
      <4>. QED
        BY <2>6, <4>1, <4>2, <4>3
    <3>3. Named(c, i)'
      BY <1>1, <2>1, <2>3, <2>5, <2>6 DEF Named
    <3>. QED
      BY <2>3, <2>5, <2>6, <3>2, <3>3 DEF AlertIsTrue
  <2>9. ASSUME NEW t \in Stations, NEW j \in 1 .. Len(alerts'[t])
        PROVE  \/ j \in 1 .. Len(alerts[t]) /\ alerts'[t][j].closedBy = alerts[t][j].closedBy
               \/ AlertIsTrue(t, j)'
    BY <2>5, <2>8
  <2>10. \A t \in Stations : Len(alerts'[t]) <= MaxAlerts
    BY <2>5 DEF Inductive, ClientsPresentTokens
  <2>11. CarriedOut(c)' /\ \A j \in {i} : Answers(c, j)'
    BY <2>7
  <2>. QED
    BY <1>5, <2>1, <2>5, <2>9, <2>10, <2>11, OneAnswerHolds
<1>. QED
  BY <1>3, <1>4, <1>5 DEF ServeResolve

LEMMA ServeHolds ==
    ASSUME Inductive, NEW c \in Calls, Serve(c)
    PROVE  Inductive'
<1>1. calls[c].wire = "request" /\ UNCHANGED <<entryVars, up, rows>>
  BY DEF Serve
<1>2. ASSUME NEW status \in {"unauthorised", "error"}, Answer(c, status, {}), UNCHANGED alerts
      PROVE  Inductive'
  BY <1>1, <1>2, QuietAnswerHolds
<1>3. ASSUME calls[c].doing = "list", ServeList(c) PROVE Inductive'
  <2>1. calls[c].station \in Stations
    BY <1>1 DEF Inductive, CallIsTrue
  <2>2. Len(alerts[calls[c].station]) \in Nat /\ Len(alerts[calls[c].station]) <= MaxAlerts
    BY <2>1 DEF Inductive, TypeOK, ClientsPresentTokens
  <2>. DEFINE ids == OpenIds(calls[c].station, calls[c].using)
  <2>3. ids \in SUBSET Ids /\ CarriedOut(c) /\ \A i \in ids : Answers(c, i)
    BY <1>3, <2>2, ServicesAssumption DEF OpenIds, OwnIds, Ids, Answers, CarriedOut
  <2>4. Answer(c, "ok", ids) /\ UNCHANGED alerts
    BY <1>3 DEF ServeList
  <2>. HIDE DEF ids
  <2>. QED
    BY <1>1, <2>3, <2>4, QuietAnswerHolds
<1>. QED
  BY <1>1, <1>2, <1>3, ServeCreateHolds, ServeResolveHolds DEF Serve
\* Nothing happens to the calls: it is enough that the station goes on, and
\* that no alert is closed in a call's name.
LEMMA NoCallMoves ==
    ASSUME Inductive, TypeOK', StationsGoOn, UNCHANGED calls, ClientsPresentTokens', NoTwins',
           \A s \in Stations :
              /\ Len(alerts'[s]) = Len(alerts[s])
              /\ \A i \in 1 .. Len(alerts[s]) : alerts'[s][i].closedBy = alerts[s][i].closedBy
    PROVE  Inductive'
<1>1. CallsGoOn
  BY DEF CallsGoOn
<1>2. ASSUME NEW c \in Calls PROVE CallIsTrue(c)'
  BY CallStays DEF Inductive
<1>3. ASSUME NEW s \in Stations, NEW i \in 1 .. Len(alerts'[s]) PROVE AlertIsTrue(s, i)'
  BY <1>1, AlertStays DEF Inductive
<1>. QED
  BY <1>2, <1>3 DEF Inductive

LEMMA CloseHolds ==
    ASSUME Inductive, NEW s \in Stations, NEW i \in Ids, Close(s, i)
    PROVE  Inductive'
<1>1. i \in 1 .. Len(alerts[s]) /\ UNCHANGED <<entryVars, up, rows, calls>>
  BY DEF Close
<1>2. alerts[s][i] \in Alert
  BY <1>1, AlertFields DEF Inductive
<1>. DEFINE a == [alerts[s][i] EXCEPT !.open = FALSE]
<1>3. /\ a \in Alert /\ a.key = alerts[s][i].key /\ a.source = alerts[s][i].source
      /\ a.by = alerts[s][i].by /\ ~a.open /\ a.closedBy = alerts[s][i].closedBy
  BY <1>2 DEF Alert
<1>4. Replaces(s, i, a)
  BY DEF Close, Replaces
<1>. HIDE DEF a
<1>5. /\ alerts' \in [Stations -> Seq(Alert)]
      /\ \A t \in Stations : Len(alerts'[t]) = Len(alerts[t])
      /\ alerts'[s][i] = a
      /\ \A t \in Stations : \A j \in 1 .. Len(alerts[t]) :
            t # s \/ j # i => alerts'[t][j] = alerts[t][j]
      /\ StationsGoOn /\ NoTwins'
  BY <1>1, <1>3, <1>4, CloseGoesOn
<1>6. ASSUME NEW t \in Stations, NEW j \in 1 .. Len(alerts[t])
      PROVE  alerts'[t][j].closedBy = alerts[t][j].closedBy
  BY <1>3, <1>5
<1>7. TypeOK' /\ ClientsPresentTokens'
  BY <1>1, <1>5 DEF Inductive, TypeOK, ClientsPresentTokens, entryVars
<1>. QED
  BY <1>1, <1>5, <1>6, <1>7, NoCallMoves

\* What the station and the entry do, but for the alerts.
LEMMA EntryHolds ==
    ASSUME Inductive, NEW s \in Stations,
           ComeOrGo(s) \/ (\E n \in Pairings : Revoke(s, n))
           \/ Unload(s) \/ Unloaded(s) \/ Load(s) \/ PairAgain(s)
    PROVE  Inductive'
<1>. USE DEF entryVars, stationVars
<1>1. UNCHANGED <<alerts, calls>>
  BY DEF ComeOrGo, Revoke, Unload, Unloaded, Load, PairAgain
<1>2. ASSUME NEW t \in Stations
      PROVE  token[t] \in Nat /\ Len(alerts[t]) \in Nat /\ (client[t] # None => client[t] \in Nat)
  BY DEF Inductive, TypeOK, Pairings
<1>3. NoTwins'
  BY <1>1 DEF Inductive, NoTwins
<1>4. CASE ComeOrGo(s)
  <2>1. TypeOK' /\ ClientsPresentTokens' /\ StationsGoOn
    BY <1>2, <1>4 DEF ComeOrGo, Inductive, TypeOK, ClientsPresentTokens, StationsGoOn
  <2>. QED
    BY <1>1, <1>3, <2>1, NoCallMoves
<1>5. ASSUME NEW n \in Pairings, Revoke(s, n) PROVE Inductive'
  <2>1. TypeOK' /\ ClientsPresentTokens' /\ StationsGoOn
    BY <1>2, <1>5 DEF Revoke, Inductive, TypeOK, ClientsPresentTokens, StationsGoOn
  <2>. QED
    BY <1>1, <1>3, <2>1, NoCallMoves
<1>6. CASE Unload(s)
  <2>1. TypeOK' /\ ClientsPresentTokens' /\ StationsGoOn
    BY <1>2, <1>6 DEF Unload, Inductive, TypeOK, ClientsPresentTokens, StationsGoOn
  <2>. QED
    BY <1>1, <1>3, <2>1, NoCallMoves
<1>7. CASE Unloaded(s)
  <2>1. TypeOK' /\ ClientsPresentTokens' /\ StationsGoOn
    BY <1>2, <1>7 DEF Unloaded, Inductive, TypeOK, ClientsPresentTokens, StationsGoOn
  <2>. QED
    BY <1>1, <1>3, <2>1, NoCallMoves
<1>8. CASE Load(s)
  <2>1. TypeOK' /\ ClientsPresentTokens' /\ StationsGoOn
    BY <1>2, <1>8, ServicesAssumption
    DEF Load, Inductive, TypeOK, ClientsPresentTokens, StationsGoOn, Pairings
  <2>. QED
    BY <1>1, <1>3, <2>1, NoCallMoves
<1>9. CASE PairAgain(s)
  <2>1. token[s] + 1 \in Pairings /\ token' = [token EXCEPT ![s] = token[s] + 1]
    BY <1>2, <1>9, ServicesAssumption DEF PairAgain, Pairings
  <2>2. TypeOK'
    BY <1>9, <2>1 DEF PairAgain, Inductive, TypeOK
  <2>3. ASSUME NEW t \in Stations
        PROVE  /\ t = s => token'[t] = token[t] + 1
               /\ t # s => token'[t] = token[t] /\ reauth'[t] = reauth[t]
    BY <1>9, <2>1 DEF PairAgain, Inductive, TypeOK
  <2>4. ClientsPresentTokens'
    BY <1>1, <1>2, <1>9, <2>3 DEF PairAgain, Inductive, ClientsPresentTokens
  <2>5. StationsGoOn
    BY <1>1, <1>2, <2>3 DEF StationsGoOn
  <2>. QED
    BY <1>1, <1>3, <2>2, <2>4, <2>5, NoCallMoves
<1>. QED
  BY <1>4, <1>5, <1>6, <1>7, <1>8, <1>9

------------------------------------------------------------------------------
(* The theorems. *)

\* Before the first call nothing is raised, asked or answered.
LEMMA InitHolds == Init => Inductive
<1> SUFFICES ASSUME Init PROVE Inductive
  OBVIOUS
<1>1. 1 \in Pairings
  BY ServicesAssumption DEF Pairings
<1>2. ASSUME NEW s \in Stations PROVE alerts[s] = <<>> /\ Len(alerts[s]) = 0
  BY DEF Init
<1>3. alerts \in [Stations -> Seq(Alert)]
  BY EmptySeq DEF Init
<1>4. calls \in [Calls -> Call] /\ \A c \in Calls : calls[c] = Unmade
  BY UnmadeIsACall DEF Init
<1>5. TypeOK
  BY <1>1, <1>3, <1>4 DEF Init, TypeOK, Unmade
<1>6. ClientsPresentTokens /\ NoTwins
  BY <1>1, <1>2, ServicesAssumption DEF Init, ClientsPresentTokens, NoTwins, Pairings
<1>7. ASSUME NEW c \in Calls PROVE CallIsTrue(c)
  BY <1>4 DEF CallIsTrue, Unmade
<1>. QED
  BY <1>2, <1>5, <1>6, <1>7 DEF Inductive

\* Every action keeps Inductive.
LEMMA StepHolds == Inductive /\ [Next]_vars => Inductive'
<1> SUFFICES ASSUME Inductive, [Next]_vars PROVE Inductive'
  OBVIOUS
<1>1. ASSUME NEW c \in Calls, MakeCall(c) PROVE Inductive'
  BY <1>1, RaiseHolds, ResolveHolds DEF MakeCall
<1>2. ASSUME NEW c \in Calls, Resume(c) PROVE Inductive'
  BY <1>2, CannotConnectHolds, UnauthorisedHolds, RefusedHolds, SucceededHolds, ListedHolds
  DEF Resume
<1>3. ASSUME NEW c \in Calls, Serve(c) PROVE Inductive'
  BY <1>3, ServeHolds
<1>4. CASE Environment
  BY <1>4, CloseHolds, EntryHolds DEF Environment
<1>5. CASE UNCHANGED vars
  <2>1. UNCHANGED <<loaded, client, token, reauth, up, rows, alerts, calls>>
    BY <1>5 DEF vars, entryVars, stationVars
  <2>2. TypeOK' /\ ClientsPresentTokens' /\ NoTwins'
    BY <2>1 DEF Inductive, TypeOK, ClientsPresentTokens, NoTwins
  <2>3. ASSUME NEW c \in Calls PROVE CallIsTrue(c)'
    <3>1. CallIsTrue(c) /\ calls'[c] = calls[c]
      BY <2>1 DEF Inductive
    <3>. QED
      BY <2>1, <3>1 DEF CallIsTrue, Answers, Named, RaisedFor, CarriedOut
  <2>4. ASSUME NEW s \in Stations, NEW i \in 1 .. Len(alerts[s]) PROVE AlertIsTrue(s, i)'
    BY <2>1 DEF Inductive, AlertIsTrue, Named
  <2>. QED
    BY <2>1, <2>2, <2>3, <2>4 DEF Inductive
<1>. QED
  BY <1>1, <1>2, <1>3, <1>4, <1>5 DEF Next

\* Inductive is an invariant of the specification.
THEOREM InductiveInvariant == Spec => []Inductive
  BY InitHolds, StepHolds, PTL DEF Spec

\* Every variable keeps its type: whatever an unload takes away between two
\* requests of a call, no request goes out without a token to present.
THEOREM TypeCorrect == Spec => []TypeOK
<1>1. Inductive => TypeOK
  BY DEF Inductive
<1>. QED
  BY <1>1, InductiveInvariant, PTL

\* "A retrying automation is safe": through any losses, late answers,
\* timeouts, restarts and re-pairings, any number of calls that raise under
\* one key leave one open alert per pairing.
THEOREM RetryingIsSafe == Spec => []RetriesAreSafe
<1>1. Inductive => RetriesAreSafe
  BY DEF Inductive, RetriesAreSafe, NoTwins, AlertIsTrue
<1>. QED
  BY <1>1, InductiveInvariant, PTL

\* resolve closes no alert but the one it was asked to: the one with the id it
\* was given, or, when it was given a key, one with that key, even when
\* list_alerts was answered long before.
THEOREM OnlyTheNamedIsResolved == Spec => []ResolvesWhatItNamed
<1>1. Inductive => ResolvesWhatItNamed
  <2> SUFFICES ASSUME Inductive, NEW s \in Stations, NEW i \in 1 .. Len(alerts[s]),
                      alerts[s][i].closedBy # None
               PROVE  LET c == alerts[s][i].closedBy
                      IN  calls[c].kind = "resolve" /\ calls[c].station = s /\ Named(c, i)
    BY DEF ResolvesWhatItNamed
  <2>. QED
    BY DEF Inductive, AlertIsTrue
<1>. QED
  BY <1>1, InductiveInvariant, PTL

\* A service call that returns without an error has done what it says: also
\* when the body of the answer could not be read, and its caller is told no id.
THEOREM OkMeansDone == Spec => []SuccessIsReal
<1>1. Inductive => SuccessIsReal
  <2> SUFFICES ASSUME Inductive, NEW c \in Calls, calls[c].outcome = "ok"
               PROVE  /\ calls[c].kind = "resolve" =>
                            /\ calls[c].found \in 1 .. Len(alerts[calls[c].station])
                            /\ ~alerts[calls[c].station][calls[c].found].open
                            /\ Named(c, calls[c].found)
                      /\ calls[c].kind = "raise" =>
                            /\ \E i \in Ids : RaisedFor(c, i)
                            /\ calls[c].found # None => RaisedFor(c, calls[c].found)
    BY DEF SuccessIsReal
  <2>1. calls[c].kind \in {"raise", "resolve"} /\ calls[c].doing \in {"create", "list", "resolve"}
    BY CallFields DEF Inductive, TypeOK
  <2>2. CallIsTrue(c)
    BY DEF Inductive
  <2>. QED
    BY <2>1, <2>2 DEF CallIsTrue, CarriedOut
<1>. QED
  BY <1>1, InductiveInvariant, PTL

\* A call that failed for its token leaves the user something to act on, until
\* a newer token is in the entry -- also when the 401 came after an unload.
THEOREM RefusedTokenAsksToPair == Spec => []UnauthorisedAsksToPair
<1>1. Inductive => UnauthorisedAsksToPair
  BY DEF Inductive, CallIsTrue, UnauthorisedAsksToPair
<1>. QED
  BY <1>1, InductiveInvariant, PTL
==============================================================================
