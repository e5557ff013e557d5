# The AlertRoster integration for Home Assistant, in TLA+

Specifications of `custom_components/alertroster`, model-checked with TLC, their
safety proved with TLAPS.
Line numbers are those of the source files in `src/custom_components/alertroster/`.

## 1. The system

A *station* is an AlertRoster receiver on the LAN. Home Assistant pairs with it,
raises and resolves alerts on it, shows what is open, and fires a bus event for
every transition the station reports. The one that matters most is `alert.expired`,
fired as `alertroster_unacknowledged`: nobody answered.

| Component | State it keeps | Operations | Talks to |
|---|---|---|---|
| Events connection, `connection.py` | task, `_connected`, `_alerts`, `_failures`, `_connected_at`, listeners | `async_start`, the loop of `_async_run`, `async_stop` | the client; entities and `events.py` by callback |
| Client, `api.py` | an address and a token | `probe`, `pair`, `revoke_self`, `list_alerts`, `create_alert`, `resolve_alert`, `events` | the station, over HTTP and one WebSocket |
| Bus events, `events.py` | none | `fire` | Home Assistant's bus |
| Entities, `entity.py`, `sensor.py`, `binary_sensor.py`, `event.py` | the state last written | re-read the connection when notified | the connection |
| Entry lifecycle, `__init__.py` | `entry.runtime_data`, what is registered with the entry | set up, unload, remove | Home Assistant, the connection, the client |
| Actions, `services.py` | none between calls | `raise`, `resolve` | the entry's client |
| Config flow, `config_flow.py` | host, name and wrong codes of each flow; the entries | discovery, manual step, pairing, following a moved station, reauth | the client, Home Assistant's flow manager |
| Diagnostics, `diagnostics.py` | none | a dump with the token scrubbed out | the connection, read only |
| The station (not in the repository) | alerts, pairings, a pairing window, sockets | answers requests, pushes frames | everybody above |

Everything in Home Assistant runs on one event loop. Code between two `await`s
is therefore atomic, and is one action here; what happens at an `await` is that
anything else may run: the station, another flow or call, an unload, `async_stop`.
That is where the hard behaviour is:

* the seed (`GET /v1/alerts`) races the transitions, of which none is replayed;
* sockets end cleanly, by a reset, or silently; frames on their way may be lost; what arrives
  during a close sets timers again;
* `async_stop` comes at any await, and its wait for the close handshake may run out;
* a 401 may come from the seed, the upgrade or a call, before or after a re-pairing;
* requests that timed out may still be served;
* `resolve` by dedup key is two requests, and the entry may change in between;
* several flows for one station run side by side while its address changes;
* Home Assistant restarts and keeps `entry.data` only.

### What makes each component correct

* **Connection.** `connected` is shown only with somebody reading the socket; what
  entities show is right or about to be; each transition is announced at most once,
  in order, after its effect; a refused token is not presented again; nothing
  happens after `async_stop`; the loop always gets back to a station that is there; seen from the
  entry it is a task that ends by itself only when refused.
* **Client.** A dead link is told from a quiet one by the heartbeat alone, and no timer
  outlives its socket.
* **Entities.** The four of them end up telling the truth together.
* **Diagnostics.** A download taken at any moment tells why the entities are unavailable.
* **Backoff.** Doubling to the cap, never reset by a socket that did not hold.
* **Lifecycle.** One socket per entry through any reload; `fire` is registered
  whenever there is something to hear; an entry that is kept listens, one that is
  not is silent; a removal always ends.
* **Actions.** A retry raises one alert; a resolve closes the alert it named; success
  is real; every call returns, and every failure is readable.
* **Config flow.** One entry per station; an entry follows its station's address and
  version, and is otherwise left alone.

`PROJECT.json` lists the hazards at their lines and the property that covers each.

## 2. The modules

| Module | Models | Notes |
|---|---|---|
| `AlertEvents` | the four transitions, and what each leaves on the board | shared vocabulary |
| `Station` | the station as one source sees it: health, token, alerts, socket, frames on their way | external: read off `api.py` and `tests/conftest.py` |
| `StationConnection` | `connection.py`, `events.py`, the entities' last written state | EXTENDS `Station` |
| `AlertFeed` | abstract: a reader of the log of what happened to the alerts | no socket, no seed, no retry |
| `StationConnectionFeed` | the refinement of `AlertFeed` by `StationConnection` | `INSTANCE ... WITH` |
| `EventsTask` | abstract: what an entry relies on in one connection | implemented by `StationConnection` from the inside, by `EntryLifecycle` once per connection |
| `Dashboard` | `sensor.py`, `binary_sensor.py`, `event.py`: what a user sees | EXTENDS `StationConnection` |
| `EventsSocket` | `events()` of `api.py`, its heartbeat and time limits | in seconds; aiohttp's part is external |
| `Backoff` | the timing of the reconnect loop | half-second ticks, ages instead of a clock |
| `EntryLifecycle` | `__init__.py`, with Home Assistant's part around it | each connection reduced to its task and socket |
| `Diagnostics` | `diagnostics.py`: what a download says | EXTENDS `EntryLifecycle` |
| `Services` | `services.py` over `api.py`'s requests, and the station that serves them | many calls at a time |
| `Pairing` | `config_flow.py`, and stations that move | many flows at a time |
| `StationConnectionProofs`, `StationConnectionFeedProofs`, `EventsTaskProofs`, `EventsSocketProofs`, `BackoffProofs`, `EntryLifecycleProofs`, `ServicesProofs`, `PairingProofs` | theorems about the module of that name (`EntryLifecycleProofs`: `Diagnostics` too) | the inductive invariants they need stand at the end of the modules themselves, where TLC can check them |
| `MC*` | values for the constants, symmetry, bounds | one per specification that is run |

### StationConnection

`pc` is the `await` the task is suspended in: the reply to the seed (`seeding`), the
upgrade (`opening`), the next frame (`streaming`), the sleep (`sleeping`), or the
unwinding after `task.cancel()` (`cancelled`, or `closing` when there is a socket whose
close is to be answered). `stop` is how far `async_stop` has come. `board`, `connected`,
`failures` and `held` are `_alerts`, `_connected`, `_failures` and `_connected_at`, the
last against `BACKOFF_MAX` only. `published` is the last state an entity wrote, updated by
`Notify` exactly where the code calls its listeners. `bus` is what `fire` has fired,
each event with what a template would read of its alert at that moment (`seen`).
`frames` is what is on its way to the client; a socket that ends or falls silent loses
any suffix of it. `log`, `seededAt`, `subscribedAt` and `upTo` are history.

Every failed attempt ends in `Retry`: no longer connected, count the failure, sleep.
The code's `AlertRosterError` and `Exception` branches (337-355) differ from `CannotConnect`
in what they log and are the same step. `DropSocket` throws away what the client had not
read, because each attempt closes its socket before it sleeps.

`JoinSnapshot` says which of two stations it is: the shipped one, which sends a
`snapshot` frame on join, or the one its protocol document describes, which does not.

`Describe` is what `diagnostics()` returns. Its comment (`connection.py:193-197`) fears the clock of a
socket that a 401 leaves running; `RefusedNeverRetries` shows that there is none: a 401 is only
raised where `_next_backoff` has been.

### EventsTask, and how the two sides of a connection meet

`StationConnection` has one connection with everything in it; `EntryLifecycle` has many, each
reduced to a task and a socket. Both are shown to implement `EventsTask`
(`ImplementsTask`, `ConnectionsAreTasks`), so what the lifecycle assumes of a
connection is what the connection does. From the entry's side a socket is `holds` from when the
station takes it, whether or not the answer to the upgrade has arrived; a connection is `wanted`
until `async_stop` is called or Home Assistant lets go of it.

### EventsSocket

One generator after another. `ping` and `pong` are aiohttp's two timers, `limit` is that of
the handshake or of the close, `silence` (history) how long nothing has arrived. aiohttp is
not in the repository: the docstrings of `events` and `_cancel_heartbeat` say what it does, the unguarded
`_reset_heartbeat` during a close included, and that is what is modelled. Assumed is that
what has arrived is dealt with before the generator runs on.

### Dashboard and Diagnostics

Both only read. `Dashboard` renders `published`, `board` and `bus` as the four entities do; `Diagnostics`
puts a download together in one state, as the code does without an await.

### EntryLifecycle

`state` follows Home Assistant's entry states, with one value for each await of the
three functions (`setting_up`, `unloading`, `stopping`, `revoking`). Connections are names
that are reused: a second one is needed while the first closes its socket, never
a third. `presented` is the token that the client of `async_remove_entry` was built with. `StopReturns` includes what Home Assistant does next -- the `on_unload` callbacks, the
cancellation of the entry's tasks, the end of `runtime_data` -- because no await of
this integration comes in between. The comment at `connection.py:272-274` relies on that
cancellation, and `OneSocketPerEntry` fails without it (mutant `StopOrphans`).

### Services

A call is a record; its request is in flight until it is answered, and goes on being so
after the caller gave up (`CannotConnect`). The station serves a request at any
time, with its dedup rule, scoped to the pairing (the fake station of the tests does not
scope, having one source). `Listed` is everything `_async_resolve` does after
its first answer: a match without an id, `runtime_data` read again, an id that fits no URL
(`Malformed`). A body that is missing, cannot be read or is no object is an empty one
(`Decoded`, `api.py:304-316`), and a success all the same: `Succeeded` may hand back no alert.

### Pairing

A pairing is a number: the `source_id` and the token the station mints together.
A host is an address or a station's hostname, the port included. `at` is where
each station answers. An entry is known by its first pairing, `owner` (history) by whom
it was minted. The steps are those between the awaits: an announcement, the check of
the stored host, the search for another, the form, the reply with the token. Probes look at the world when
they are answered, and what the flow knew before is kept in its record, as in the code: `renames`
says that the name in the entry was another when it was compared (`config_flow.py:265`), before the probes. A
station's `version` is its release; the first is too old for `/v1/discover` and tells a probe
neither its name nor a version. Deleting an entry aborts its reauth flows (Home Assistant
does), and not the flow that follows its station, which finds nothing to write to.

## 3. The runs

| Run | Asks | Bounds |
|---|---|---|
| `conn_shipped` | all safety properties of the connection, station with join snapshot; `AlertFeed` and `EventsTask` are implemented | 2 alerts, 3 transitions, failures capped at 1 |
| `conn_liveness` | liveness of the connection, and of the four entities | 1 alert, whose life bounds the log by itself |
| `backoff` | delays and pace | the code's own constants |
| `events_socket` | the heartbeat, second by second | the code's own constants: 30 s, 10 s, aiohttp's 15 s for the pong and 300 s for the handshake |
| `lifecycle` | safety and liveness of an entry; downloads; each connection implements `EventsTask` | 2 connection names, 2 platforms, 2 pairings |
| `services` | safety of calls | 3 calls, 1 station, 2 alerts, 1 key, 2 pairings |
| `pairing_discovery` | one entry per station | 1 station, 2 releases, 2 addresses, 2 discoveries, 1 reauth, 3 pairings, 3 wrong codes |
| `pairing_follow` | entries follow, and settle | 2 stations, 2 releases, 2 addresses, a discovery of each, 1 manual flow, 2 pairings, in two scenarios |
| `conn_documented_stale`, `services_unload`, `services_guess`, `pairing_twice` | claims of the documents that the code does not keep (section 4) | as small as shows it |

What `conn_shipped` checks of safety also holds of a station without the snapshot: the theorems of section 5 are
for both. `ImplementsFeed` is for the shipped one only.

**Why the bounds are enough.** Two alerts and three transitions let a transition fall
before the seed, between the seed and the upgrade, and after it, with another alert
to be confused with. The failure count only matters through `Backoff`, where it has its
own value. Each connection loses and regains its socket any number of times: nothing
bounds that. Three calls are a raise, its retry and a resolve; two stations, and calls that name one, matter
only to the choice between them (`services_guess`). Two releases are one that tells nothing
and one that does. Two addresses let a station move away and
back, or have both. Symmetry is used for alerts, calls and addresses in runs of
safety properties only; nothing in the specifications orders them.

`pairing_follow` (`FollowSpec`) starts in one of two scenarios, because all of them together are too many. In the first both
stations are paired, each with an entry that points at it; the studio's may lack the name, having been typed in while the
station was too old to tell it. They move, take each other's addresses, have both or none, are upgraded and announce themselves, in
any order with the probes of the flows. In the second the workshop is deleted and off, and the studio is paired from nothing, by the
discovery or by hand or both, and moves meanwhile. What is left out of both (`FollowNext`): wrong codes, pairings that are forgotten and
entries that are deleted, which `pairing_discovery` has; and of the first, new pairings. A discovery flow belongs to one
station, which loses nothing, since a station has one at a time.

**Deadlock** is checked everywhere but in the connection's runs, where a stopped
connection to a station whose alerts have all ended may stay as it is for ever.

**Fairness.** The connection's liveness assumes that the event loop runs what is
ready: timers fire (backoff, heartbeat, time limits of a close), replies that have
arrived are delivered, and a station that is there answers. Nothing is assumed about the
station staying there, about it ever changing, or about anybody calling `async_stop`;
the properties say "from when it is within reach for good". `KeepsReconnecting` also needs a socket
that is not lost in the middle of every upgrade. `EntryLifecycle` assumes that Home
Assistant goes on with what it began and that a scheduled reload takes place;
`Pairing` that probes end,
stations announce themselves again and again, and flows are not left open for ever.

`HeardIsFired` is about the order of a setup: the connection is handed to `fire` before the platforms are forwarded, and started
after. Its mutants are a setup without the first and one that starts too early (`SetUpDeaf`, `SetUpEager`).

`EntryFollowsStation` and `VersionFollows` speak of an entry that alone knows its station's name, of a station that is
there, and of an address where from some time on nobody else answers (`Followable`). The last is needed: see section 4.

Each property of a passing run has a mutant in `PROJECT.json`: a plausible bug put in
place of the definition that matters to it, which the run finds. The mutants stand before the
definitions they replace, under a comment that begins with "Mutant".

## 4. What the runs found

Four runs show the code to differ from what its documents, comments or tests say.
Each checks the claim as a property and ends in a counterexample.

1. `conn_documented_stale`: the seed is read *before* the socket opens, so without the
   join snapshot an alert that moves in between stays wrong on a connected board until the
   socket ends. `connection.py:20-22` and `api.py:492-493` say the re-seed alone is correct.
2. `services_unload`: `resolve` by key reads `runtime_data` again after its first request;
   an unload in between ends the call in an `AttributeError` (`services.py:240` against 10-12).
3. `services_guess`: "the only station" is the only one *loaded*; with another one paired but not
   loaded, a call that names none goes to it (`services.py:117` against `README.md:145`).
4. `pairing_twice`: the `source_id` guard cannot catch a station that moved, every
   pairing having a new one (`config_flow.py:534` against 197-199 and 384-386).

With the shipped station 1 does not arise: `QuietBoardIsCurrent` is proved for it
(`ShippedStationIsCurrent`).

`Pairing` reaches more behaviours worth knowing, which no run is spent on:

* A reauth form keeps the address its entry had when the form was opened (`config_flow.py:418`), and
  the version (420-446), which it writes back at the end (527). A discovery flow may have moved or
  updated the entry meanwhile. The next announcement puts the version right.
* A form that is open at an address to which another, already paired, station has come pairs with that one again
  (`config_flow.py:473`): a second entry for it, under the name that was announced.
* Whoever answers at the stored address is taken for the entry's station (`config_flow.py:272-285`): the probe's version is
  used, its name is not looked at. If the studio moves and the workshop takes its old address, the studio's
  announcements find an answer there, its entry stays where it is, and the workshop's version is written into it, for as long as the
  workshop stays. `EntryFollowsStation` and `VersionFollows` are false without the last conjunct of `Followable`; the run with two
  stations reaches it.
* A station without an entry of its name that comes to an address where another's entry still points has its name written over the
  stored one (`config_flow.py:265`, under a comment that speaks of a backfill), and the entry
  follows it from then on. It also cannot be paired: `OneEntryPerStation` is checked with one station, and proved
  where no address passes from one to another (section 5).
* A `raise` that succeeded may return an empty alert (`api.py:312-316`, 464-468), though "one that means to resolve the alert
  later needs the id, and §3.3 says it gets it from here" (`services.py:254-256`). The alert is on the station; `SuccessIsReal` says so.
* A station ignored once, then added by hand, is not followed: the flow ends at
  `config_flow.py:228`. `EntryFollowsStation` is checked with `Ignoring` off.
* Wrong codes are counted over the flow, not over the station's window: after the window was opened
  again, the next wrong code is still reported to have closed it (`config_flow.py:481`, `strings.json:32`).

## 5. What is proved

For any set of alerts, any number of transitions, reconnects, reloads, pairings and restarts,
and any cap on the failures:

**StationConnection** (`StationConnectionProofs`): the type invariant and every safety property of
`conn_shipped`. None but the type is inductive by itself. The invariant is
`Inductive`, in layers, each proved from those before it:

* `Control`: where the task is decides what is connected, open and on its way. From it
  follow `NeverConnectedAndDeaf`, `EntitiesAreCurrent`, `RefusalIsFinal`, and the action property
  `StopIsFinal`.
* `Delivery`: the frames on their way are true, in order, and newer than all that
  was heard. It gives `BusIsInOrder` and `StateBeforeBus`. Order on the bus cannot be kept
  without order in the queue, which is why `frames` is in it.
* `NoGapInFrames`: every transition since the socket was accepted is on the bus or in the
  queue (`NothingLost`).
* `BoardFollows`: the reply to a seed, then the board, was right when the seed was answered
  but for alerts that moved since; once a socket is open, each alert is right, or will be put
  right by the last frame that bears on it, or moved in the gap (`StalenessIsBounded`).
  `ShippedStationIsCurrent` adds the assumption `JoinSnapshot`: there is no gap.
* `DownloadCanBeRead` is about `Describe`, from `Control`.
* `ConnectionIsTask`: the refinement of `EventsTask`, one step of the proof per action, from `Control`. It is
  a theorem about whole behaviours: `Spec => Task!Spec`.

**EventsTask** (`EventsTaskProofs`): `PromiseKept`, the invariant of the abstract task, and so of both that
implement it.

**EventsSocket** (`EventsSocketProofs`): type, `NothingLeftBehind` and the action property `OnlySilenceEnds`, for any
heartbeat and limits, from an invariant (`TimersCount`) that says with the one timer that runs
how long nothing has been heard.

**The refinement of AlertFeed** (`StationConnectionFeedProofs`): `ConnectionIsFeed`, `Spec => ImplementsFeed`, under
`JoinSnapshot = TRUE`: a station without the snapshot does not give it (`conn_documented_stale`). Each step of the
connection is one of a reader of a log, or a stutter. What `Inductive` does not say of a reader is in `Followed`: a
snapshot on its way is what is open at a moment of the log (`SnapshotsAreTrue`), what follows it in the queue is
all that happened after that moment, in order (`FramesFollowOn`), and a reader that has taken in everything from its
snapshot on is at the last moment heard of (`SocketIsUpToDate`). Without `FramesFollowOn` a step could skip an
alert's transition and still leave the board looking right.

**Backoff** (`BackoffProofs`): the type; `CapIsInvisible`, that the capped exponent never shows, for any `Start`, `Maximum`
and cap with `Start * 2^cap >= Maximum` (`PowerAssumption`, "2**6 = 64, already past the cap"); and the pace, `TriedAtAPace`,
which needs a little more, `PastTheCap`: `Start * 2^cap >= Maximum + Start`, 64 s against 60 and 1.
The invariant is `Spacing`. `Spent(k)` is the least that `k` waits in a row can have taken, the jitter always
halving them; an attempt is at least as old as the waits since it, and the next delay is no shorter than the number of attempts in
the window calls for. A socket that was up as long as `BACKOFF_MAX`
starts the delays over, and then every earlier attempt has left the window: that is why the age of the socket is compared with the
attempts' in `Spacing`.

**EntryLifecycle** (`EntryLifecycleProofs`): the type invariant and all four safety properties, from
`Inductive`: only the connection in `runtime_data` is more than a name (`OnlyRuntime`), the state of
the entry settles what that one may be doing (`StateOfRuntime`) and which platforms there are
(`StateOfPlatforms`): all of them while it is loaded, none while it is set up. `EveryConnectionIsATask` is its refinement of `EventsTask`, for every connection at once. `DownloadIsReadable` is about
`Diagnostics`, from the same invariant.

**Services** (`ServicesProofs`): the type and all four safety properties of `services`, for any set of calls, stations, alerts,
keys and pairings, from `Inductive`. No twins (`RetriesAreSafe`) is about the station; the others
relate a call to what was served for it, possibly long ago: `CallIsTrue` says, for each request on its way or
answered, whose token it carries and what is then true on the station (`CarriedOut`, `Answers`), and `AlertIsTrue`
for each alert, who raised it and for whom it may be closed; what is so on the station is so whatever the answer says
(`CarriedOut`), and an answer that says something says what is so (`Answers`). By `ClientsPresentTokens` no call
uses a newer token than its entry has: one that fails with a 401 either opens a reauth flow or has been
overtaken by a pairing.

**Pairing** (`PairingProofs`): the type, for any number of stations, addresses and flows of every kind, and `OneStationOneEntry`,
for any number of discovery and reauth flows, under two hypotheses:

* `Manuals = {}`: `pairing_twice` is what happens otherwise.
* `AddressesKept`, a temporal hypothesis: an address never passes from one station to another, though stations move and
  have several. Without it TLC finds two entries for one station (two stations, two forms open: the first station is paired
  and moves to the second one's address, and the second form pairs with it again). The code cannot see this: a pairing's name is the
  announcement's, and the reply to `pair` brings none.

The invariant (`Inductive`) keeps apart what is remembered and what is so: the name in an entry is the name of the station that
minted it (`EntriesAreTrue`), an announcement and a form are about the station whose address they hold (`AnnouncementIsTrue`), a
reauth about its entry's owner (`ReauthIsTrue`), and a pairing belongs to one flow until it is an entry (`TokensAreFresh`). From these, two
entries of one station would have had one unique id.

The assumptions are the named `ASSUME`s of the modules, which TLC evaluates on every run.

Each inductive invariant was model-checked before it was proved.

**Only model-checked.** The liveness properties (`conn_liveness`, `lifecycle`, `pairing_follow`): the prover has no fairness and
no ENABLED. Where the boards of `AlertFeed` come from is by definition (`BoardAfter` says what is open from the last transition of each
alert), so nothing rests on induction over a log.

## 6. What is not modelled, and why

* **Parsing and wording**: titles, details, urgencies, messages, the ways in which a body or a frame can be
  malformed. What a body that cannot be read means to a call is modelled (`Services.Decoded`); to a probe it is a station
  too old to tell anything; to a pairing it is a failure (`PairUnreachable`); to a seed it would be an empty
  board, which no station here sends. Frames that are dropped are frames that were not sent, or `additive` ones.
* **A transition whose alert has no id**: `events.py` fires it, `_async_apply` leaves the board alone
  (`connection.py:408-414`). The station here always sends one.
* **What a form says** beyond the errors of `Pairing`: `window_closed` and `unknown` (`config_flow.py:475-479`, 488-493) are, like
  `cannot_connect`, a form shown again, and `PairUnreachable` stands for the three.
* **The order within a failed attempt**: the generator closes its socket, which is awaited, and the backoff is computed after.
  `Retry` is one action. `EventsSocket` has the close; that `connected` and the clock of the backoff stay as they were until it is over is
  not shown here.
* **Names, icons and device info** of the entities: data.
* **Ports, loopback addresses, TXT record checks** of the config flow. A port goes with its host.
  The loopback pass is documented to misfire, and nothing can be said for it.
* **The scrub of a download** (`diagnostics.py:114-166`): a substitution of one string in encoded text. A
  model of it would have to spell strings and their escapes out character by character, and would say
  nothing that the code does not.
* **Declarative files, CI, development scripts**: no behaviour.
* Things the code leaves to the user or the station, listed as hazards with a note: a late 401
  that opens a reauth flow after a re-pairing, a reauth flow that is dismissed, a pairing whose reply is lost.

## 7. Plan

Done, in this order because the connection is what everything else relies on:
`Station`, `StationConnection`, its proofs, `AlertFeed` and the refinement, `Backoff` and its proof,
`EntryLifecycle` and its proofs, `Services`, `Pairing`; then `EventsTask`, which joins
the connection and the lifecycle, with the proofs of both refinements, `EventsSocket` and its proofs,
`Dashboard`, `Diagnostics`, and in `Pairing` the station's version and the deletion of an entry.

Then the proofs: `Services`, `Diagnostics`, the type and the entries of `Pairing`, the refinement of `AlertFeed`, and
the pace of `Backoff`.

Next, proving: what a socket that did not hold does to the delays as an action property of `Backoff`; the safety half of
`EntryFollowsStation`, that an entry is left alone by everything but its own station's announcements, reauth and deletion.

And, in the model, listeners that come and go while they are notified (`connection.py:204-232`, 463), and
one that raises.
