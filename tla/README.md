# mqtt-linak in TLA+

A model of mqtt-linak, the daemon that keeps Bluetooth connections to LINAK
desks up, publishes what they report to MQTT and moves them on command. The
modules are translated from the Go source; paths below are relative to the
repository (`src/`). TLC checks small instances (the `.cfg` files), TLAPS proves
theorems for every value of the constants (the `*Proofs` modules), and
`PROJECT.json` lists runs, mapped lines, findings, hazards and theorems.

## 1. The system

### Components

| Component | State it keeps | Operations | Correct means |
|---|---|---|---|
| **Desk manager** `internal/bridge/desk.go`, one goroutine per desk | `peripheralID`, `consecFailure`, backoff, `lastHeld`; shared: `online`, `onlineAt`, `wantResolve`, the channels `resolved`, `disconnected` (1) and `commands` (8); what dpg holds: `subsSet`, `desk`, cached GATT handles | `run`, `resolve`, `connectAndServe`, `ensureSubscriptions`, `setOnline`, `forgetPeripheral`, `submit`, `command`, `apply` | the desk is connected again after any failure; no drop goes unnoticed and none is noticed twice; an online session is set up on its own link; the retries are paced; a bounded queue; commands only in the connection that accepted them |
| **Desk discovery** `bridge.go` | `byPeripheral`, `scanWake` (1), the controller's `scanning` | `eventPump`, `onDiscovery`, `onDisconnection`, `wakeScanner`, `scanController` | a request for an ID is answered exactly once and by a match; disconnections go to the desk that holds the peripheral; a scan is on exactly while a desk needs one |
| **Height throttle** `throttle.go` | `last`, `pending`, `lastAt` under a lock; `lastHeight` | `Set`, `Flush`, `Reset`, `publishHeight` | the newest height is neither lost nor repeated and gets out; the topic settles on it |
| **MQTT client** `internal/mqttc/mqttc.go` | backoff, `lost` (1), the filters | `Run`, `connectOnce`, `resubscribe`, `publish`, paho's handlers | comes back after every loss with all filters subscribed; sees every loss once |
| **State on the broker** `desk.go`, `bridge.go` | the retained availability, height and base height | `publishRetained`, `republishAll`, `republishState`, the last will | what the topics show is what the bridge knows, across reconnects and restarts |
| **Bridge lifecycle** `bridge.go` `Run` | the wait group | start, shutdown, goodbye | every goroutine returns, then the goodbyes go out |
| **Keepalive** `desk.go:409-454` | `lastActivity` | `markActivity`, `keepAlive` | no connection stays silent up to the controller's deadline of four hours, whatever attempts fail in between |
| **Payloads and topics** `topics.go` | none | `parseTenthsMM`, `checkRange`, topic names | the desk is told the nearest 16-bit height to what was sent, or nothing; topics never collide |
| **Configuration** `internal/config/config.go` | none after loading | `Load`, `Parse`, `ApplyEnv`, `Validate`, `LoadBluetooth` | what is refused in a file does not come in through the environment; what is accepted keeps topics apart |
| **Inventory scan** `scan.go` | the sightings found so far | `Inventory` | every peripheral heard is listed once, by a name if one was heard, and an entry copied from the list recognises it |
| **Command line** `cmd/mqtt-linak/main.go` | none | flags, logging, the signal context | the exit statuses |

### How they interact

Everything meets in one process. Each desk's manager, the event pump, the scan
controller and `Client.Run` have a goroutine of their own, all started and
waited for by `Bridge.Run`. paho runs the message handlers, `OnConnect` and
`ConnectionLost` on further goroutines that nobody waits for, and dpg delivers
notifications on yet another.

- manager -> controller: `wantResolve` (an atomic) and a token in `scanWake`;
- pump -> manager: the ID in `resolved`, a token in `disconnected`, routed by
  `byPeripheral`, which the manager also deletes from;
- paho -> manager: `submit` checks `isOnline`, then sends to `commands`;
- notification goroutine and manager share the throttle;
- manager and `OnConnect` both publish retained state;
- `ConnectionLost` -> `Run`: a token in `lost`;
- the signal context reaches all of them.

### What is hard

All of it lies between goroutines: tokens in channels of capacity one that may
stem from an earlier connection; flags read before an unlock and used after it;
a sweep over atomics that is not itself atomic; calls that report a timeout and
succeed all the same; events the BLE client drops; cached state of dpg that
outlives the link it was made for; retries and backoffs that are set in
different steps; calls that are carried out after their timeout; a helper
process that dies; and a shutdown that can come anywhere. The repository's tests
reach none of it (src/README.md: "The BLE and MQTT layers are not unit tested -
they need a real desk and a real broker"). `PROJECT.json` lists each hazard at
its line with the properties that would catch it.

## 2. Modules

| Module | Models | Proofs |
|---|---|---|
| `DeskManager` | one `deskManager` with the pump's side of its events, `submit` on paho's goroutines, the link and the shutdown | `DeskManagerProofs` |
| `Discovery` | several desks looking for their peripherals: managers, pump, scan controller, helper | `DiscoveryProofs` |
| `Resolution` | the abstract specification of that search, which `Discovery` implements | |
| `SupervisedLink` | the abstract specification of a connection that is kept up, which `DeskManager` and `MqttClient` both implement | `SupervisedLinkProofs` |
| `MCDiscovery` | what the entries match, for `Discovery`'s runs | |
| `MCDeskManager` | two interchangeable peripherals, for `DeskManagerSafety` | |
| `Throttle` | the throttle, `publishHeight` on its two goroutines and the height's republication over MQTT connections | `ThrottleProofs` |
| `MqttClient` | `Client.Run`, `connectOnce` and paho's handlers | `MqttClientProofs` |
| `Availability` | who writes the availability topics, the broker, kills and restarts, `Bridge.Run` from the cancelled context to `Close` | `AvailabilityProofs` |
| `Names` | how an entry of the configuration recognises a peripheral | |
| `Config` | the configuration: defaults, environment, validation, topics (extends `Names`) | |
| `Startup` | the process from the command line to the running bridge, or the listing of `-scan` (extends `Config`) | `InventoryProofs` |
| `Payload` | what a command's payload is parsed to | `ServingProofs` |
| `Serving` | commands and keepalive of one desk under the configuration the process was started with (composes `Startup` and `Payload`) | `ServingProofs` |
| `MCServing` | the strings, files, environments, advertisements and payloads of `Serving`'s run | |

A definition named after another with a suffix (`Claim_WithoutSwap`,
`Drain_KeepsToken`) is a deliberate fault: the definition as a plausible bug
would have it. No `Next` uses one; each stands in for its original to show that a
property notices (`PROJECT.json`, "mutants").

**DeskManager.** `pc` is the place in `run` (`loop`, `ended`, `backoff`),
`resolve` (`resolving`) or `connectAndServe` (the rest), and each action is what
the code does between two points where another goroutine can get in. `Ended` is
therefore all of `run` after `connectAndServe` returns: `setOnline(false)`,
`heldFor`, the switch, `forgetPeripheral`. History, and not in the
code, are the tag with the connection a command was accepted in; `left`, whether
a connection has ended with its link still up; `armed`, the session in which
notifications that the callback hears were last enabled; and `deaf`, a session
whose first subscription failed. Time is abstract: `age` turns from
`young` to `stable` at any moment, a sleep ends at any moment.
`SleepEnds` says what is assumed about speed: a disconnection is
normally read by the pump before the backoff sleep it falls into is over, and
`late` counts the exceptions. `Dead` peripherals match the name but never accept
a connection, as src/README.md:283 describes for a desk connected to another Mac.
dpg is external: its handles are cached until the next connect, its callbacks
cannot be removed (src/README.md, "Upstream"), and the callback hears the
peripheral it was registered for. The first subscription
(`AddReferenceOutputCallback`, desk.go:382-386) returns no error: on a link that
is gone, and also on a live one (src/README.md:319-323), it may fail, and the
set-up goes on (`FirstSubscribe`). Enabling the stream again does report errors
(`Rearm`, `SubscribeFails`).
The helper may die once (`HelperDies`): its links are gone, no event says so, no
call succeeds any more, and the pump finds its channels closed and returns
(`PumpReturns`, bridge.go:200-226), which is also how it ends at the shutdown.

**Discovery.** The managers, the pump and the controller share atomics and
channels and no lock but `byPeripheral`'s, so one action is one operation on
one of them: the sweep over `wantResolve` is one step per desk, `onDiscovery` is
claim, route, send, wake. Only the pump clears `wantResolve`, so the load and the
compare-and-swap of `onDiscovery` are one step. A channel of capacity one is a
set or a Boolean. `resolve` waits; `connectAndServe` is only "holding". A StartScan that fails may be one that
timed out and is carried out later (`starting`, `StartsLate`); `leftOn` is
history and says that a scan is on which the controller believes off. The
adapter being switched off is taken to end the scan (an assumption about
CoreBluetooth); `blind` is history and says that this ended a scan the
controller still believes on.

**Resolution** is the promise: per desk, *idle -> asked -> answered -> held*, one
answer to each question, by a peripheral the entry matches. `Discovery`'s
`PhaseOf` and `PidOf` are the refinement mapping: a desk has been answered from
the compare-and-swap on, before the ID is in its channel. Fairness makes the
answer come, unless `excused`, which for `Discovery` is `blind`.

**SupervisedLink** is what the two supervisors of the program have in common, a
desk's manager and the broker's client: an owner that is *away*, *trying*,
*holding*, *failing* or *closing*, *resting*, *stopped*; a connection that is
there or not; a report of its loss that is on its way or not; the rest before.
It tries only when no connection and no report of an earlier one is about, has
the loss of every connection it uses reported, gives up a connection only when it is
gone, and rests the minimum, then twice as long each time. `OwnerOf`,
`ToldOf` and `WaitOf` in the two modules are the refinement mappings. They differ
in what follows a loss: the client tries again at once (`WaitEnds`), the manager
closes and rests. `excused` is what neither can make up for, and after it the promise
is void: for a desk a late or a lost event, a link left up, the helper's death;
for the client a connection made after its attempt had timed out, while anything
of it is about. How long a connection lasted is not in it: a rest after one may
start from the minimum.

**Throttle.** Readings come at any time: from the arming of the callback
(desk.go:232, 383), which is before `Reset` (desk.go:269), until after the serve loop.
`Flush` is called in the serve loop only. The decision of `Set` and `Flush` is one step (they hold the
lock), publishing two more (`publishHeight` records, then publishes) that the
other goroutine can overtake. `since` is the time since the last decision, up to
the interval. A reading at rest (speed 0) is `force`. MQTT connections come and
go, the broker may restart without its retained messages, and each connect
starts a `republishState` on a goroutine of its own, which reads `lastHeight`
and publishes it in two steps; several may overlap. `overtaken` and `raced` are
history: what `lastHeight`, or the topic, holds was put there by a goroutine that
a newer decision had overtaken.

**MqttClient.** `Run` by place; `onConnect` is the set of `OnConnect` calls in
progress, each with the filters it has yet to subscribe, `lostCalls` the
`ConnectionLost` calls paho has started and that have not run. `stale` is
history: a connection was made after `connectOnce` had given it up
(`WaitTimeout`). paho (AutoReconnect off) refuses to connect while connected.

**Availability.** A desk's manager is reduced to when it calls `setOnline` and
when it publishes: two steps, as in the code. `republishState` reads under the
lock and publishes after it: two steps. A publish reaches the broker at once and
in order while the connection is up, and is dropped otherwise (`publish`'s early
return); `Run`'s own publication at bridge.go:118 is always dropped, being made
before the client is told to connect. The will of a connection that has died is
published by the broker some time later, at the latest when the client
takes the session over. `raced` and `overtaken` are history, as in `Throttle`.

**Names, Config, Startup.** A string is a value of `Text`, and what the code does
to its characters (trim, fold the case, compare prefixes, look for slashes and
wildcards) is given by constant functions and relations on `Text`. A topic is the
sequence of its levels. A desk's id is one level: `validDeskID`'s ban on slashes
is what makes that so, and is modelled. A file is a set of settings laid over the
defaults, an environment another laid over the file, and validation comes last
(`Parse`). `Startup` follows `main` from the flags to the running bridge or, with
`-scan`, through advertisements in any order (`found` is `Inventory`'s map,
`heard` is history) to the listing and the exit status. `Load` refuses unknown
keys, `LoadBluetooth` does not.

**Payload, Serving.** A number is its tenths, so `Round` is math.Round on
tenths; values that no `int` holds convert to one of its ends (Go leaves it to the
machine). A JSON object is the function of the fields it has. `Serving` takes the
configuration `Startup` came up with and adds one desk's loop on a clock in
minutes: the keepalive's ticker, its check, writes and reads and their failures,
and the controller's idle timer (`silence`), which only a write that got
through resets, where `idle` is what the code believes. `MaxLag` is by how much a
check that is due can be late: because Bluetooth calls keep the loop from its
ticker, and because the ticker is not in step with `lastActivity`, so that
`idleFor` can reach the interval just after a check. It is at least one check
interval (`ServingAssumption`). `silence` takes a wake-up that was written for
one that counts, as the code does; whether the controller counts a write to that
characteristic is unconfirmed (config.go:119-124, src/README.md:363-369). How
connections are made is `DeskManager`'s.

## 3. Runs

Every run leaves TLC's deadlock check off: each of these systems does come to rest, after a
shutdown or when its budget of faults is spent. That they do not get stuck
earlier is what the liveness properties say.

| Run | Question | Bounds |
|---|---|---|
| `DeskManagerSafety` | `SessionSetUp`, `DropIsSignalled`, `BackoffPaced`, `EndsForItsOwnLoss`, `SupervisesLink` (refines `SupervisedLink`) | one desk, two peripherals (interchangeable: symmetry), three drops or failed calls, one lost and one late event, two commands in a queue of one, re-scan after two failures, backoff 1 to 4 |
| `DeskManagerLive` | `KeptUp`, `StopsWhenAsked` | two peripherals, one dead; re-scan after three failures; the helper may die once |
| `DiscoverySafety` | `HandoverNeverLost`, `RoutingAgrees`, `ScanFollowsNeed` | two desks with a peripheral each, one ID given up, one power cycle |
| `DiscoveryAgain` | `KeepsPromise` (refines `Resolution`, fairness included), `ScanSettles` | one desk, one peripheral, two IDs given up, one StartScan that fails or begins late, or StopScan that fails, one power cycle |
| `Throttle` | `LatestIsKept`, `NoRepeatPending`, `ShowsTheHeight`, `PendingGetsOut` | two heights, four readings, interval 1, one reconnect of the desk, two of MQTT |
| `MqttClient` | `LossIsSeen`, `NoFalseAlarm`, `RetriesArePaced`, `ServedOrOnTheWay`, `SupervisesLink` (refines `SupervisedLink`), `ComesBack`, `RunReturns` | two filters, three losses or failed attempts, one refusal, backoff 1 to 4 |
| `Availability` | `ShowsTheDesks`, `ShowsTheBridge`, `NotLeftOnline`, `ShutsDown` | two desks, two Bluetooth attempts, one drop or broker restart, one kill |
| `Serving` | `TopicsKeptApart`, `ListsWhatWasHeard`, `CopiedEntryMatches`, `CommandsMeanWhatWasSent`, `NeverSilentTooLong` | files and environments with one setting wrong or changed, six advertisements of two peripherals, payloads at the limits, a queue of one, an hour of six "minutes", lag 1, three failures |

*Why the bounds are enough.* Each hazard needs few events. A token left over
from one connection takes two links and one drop, a callback registered twice
takes two connects; three faults let a failure fall into the set-up of a
connection, its service and the retry after it. Three doublings from 1 reach the cap
of 4. The throttle compares a new height only with the one decided on last, so
two heights tell its cases apart. Two desks are needed for the sweep to be overtaken
and for routes to go wrong; the proofs do the rest for `N`. A queue of one is
full after one command. Two MQTT connects are what it takes for a call of the first
to publish into the second. In `Serving` every rule of `Validate` is broken
by one of the files or environments, and each of the two peripherals advertises
with the name in either place, in neither, and blank; an hour of six minutes
makes the deadline of four hours 24 steps, and the intervals of 6 and 2 minutes
differ in how many failures fit before it. What the constants of the code are (8 commands, 3
failures, 2 s to 60 s) plays no part but through the comparisons.

*Fairness.* Goroutines go on when they can (`WF` on each goroutine's steps).
Where `select` has several ready cases Go picks at random, so a case that is
ready again and again is taken: `SF` on `Stop`, `PumpTake`, `ControllerStops`,
`PumpReturns`. In `Throttle` the ticker fires in the serve loop (`WF` on `Flush`) and a publish
that has begun is completed; nothing makes a dropped desk reconnect. A peripheral
that is near advertises for as long as a scan is on, hence `SF` on `OnDiscovery`
in `DeskManager` and `WF` on `Advertise` in `Discovery`, and the adapter is
switched on again. Nothing makes drops, failures, commands, readings or the
shutdown happen, and after the shutdown or the helper's death the pump may stop
reading at once (`~ctxDone`, `~helperGone` in the fairness of `DeskManager`). In `Availability` only the shutdown is fair: there, an attempt
ends because every Bluetooth and MQTT call has a timeout.

## 4. What the code does against what it says

Four runs expect a violation; each is a finding in `PROJECT.json`.

- `DeskManagerStaleCommand`: a command accepted in one connection is applied in
  a later one (desk.go:297), where src/README.md:418 says commands while
  offline are dropped.
- `DeskManagerRescanned`: after a re-scan has found another peripheral,
  `m.desk` and the position stream are still those of the first (desk.go:358,
  373), where desk.go:151-153 means to get away from it.
- `DeskManagerLostEvent`: one dropped Disconnection event leaves a desk online
  and unconnected for good (desk.go:291, with bridge.go:190-192).
- `ThrottleOvertaken`: `Set` and `Flush` publish after the unlock, so an older
  height can be published last (throttle.go:51, 76).

More was met while modelling and appears as stated exceptions of properties
that hold otherwise:

- `ShowsTheDesks` and `ShowsTheHeight` except (`raced`) what `republishState`
  published of a state it had read before the desk changed, after the desk's own
  publication (desk.go:488-497): the same publishing after an unlock as in
  `ThrottleOvertaken`. The topic stays wrong until the next change.
- `KeptUp` and `DropIsSignalled` except the helper's death. The pump returns
  (bridge.go:200-226) and nothing else notices: an online desk stays online, the
  others never connect, and the process goes on, so launchd, which restarts what
  exits with an error, does not help. The helper is not started again, though
  desk.go:152 and src/README.md:339 speak of one that restarted.
- `ScanSettles` excepts (`leftOn`) a StartScan that begins after its timeout, when
  no other follows, and a StopScan that failed. `stop` logs the error and sets
  `scanning` to false (bridge.go:300-308), so the scan stays on with no desk
  needing it, against bridge.go:287.
- `KeepsPromise` and `ScanFollowsNeed` except (`blind`) a scan that was on when
  the adapter was switched off. `scanning` stays true; switching the adapter on
  wakes the controller (bridge.go:216-219), which starts nothing (bridge.go:330), and
  the desk that asked is not found, against bridge.go:287. Nor is one that asks
  later, until somebody's answer ends the scan in the controller's mind: an advertisement
  that was still waiting for the pump.
- `SessionSetUp` excepts two sessions that are online over a live link and hear
  no height. One is the session whose first subscription failed (`deaf`):
  `AddReferenceOutputCallback` reports nothing and `subsSet` is set all the same
  (desk.go:382-386), so the desk stays silent until its next connection, which
  arms the stream again. The other is any session with a peripheral that a
  re-scan found: its notifications are enabled for a callback that was
  registered for the first (`DeskManagerRescanned` shows the commands' side).
- `EndsForItsOwnLoss` excepts (`left`) what follows a link that was left up: if
  `Connect` reports its deadline and the helper makes the link all the same, no
  `Disconnect` is deferred for it, and its drop may end a later connection
  (desk.go:212-216).
- `PendingGetsOut` is about a desk that is served. A reading that waits when a
  connection comes up is discarded by `Reset`, even one of that same connection that
  came between the arming and `Reset` (desk.go:383, 269); until the desk sends
  another the topic keeps the height before it. The comment at desk.go:269
  speaks of announcing the current height again.
- `NotLeftOnline` excepts (`overtaken`) an `OnConnect` call that announces the
  bridge between its goodbye and `Close`: `wg.Wait` does not wait for paho's
  goroutine (bridge.go:131-142).
- `RoutingAgrees` is checked and proved for entries that match disjoint sets of
  peripherals. `onDiscovery` does not ask whether another desk holds the
  peripheral (bridge.go:241), and `Validate` does not compare the entries, so
  two that overlap are both given it and only the second hears of its loss.
  Entries overlap easily: `matchesDesk` trims the prefix, so that the "Desk " of
  config.example.yaml:87 also matches "Desktop".
- `TopicsKeptApart` excepts equal bases. topics.go:11-12 puts commands and
  metrics "under different bases", but `Validate` accepts one base for both, and
  then the bridge receives its own heights as commands.
- `NeverSilentTooLong` is about an interval above zero and as many failures as
  fit before the deadline. With the defaults these are two in a row, what
  config.go:116 calls "several attempts"; `command` counts a write that failed,
  and any read, as activity. `Validate` does not look at `keepalive_interval`:
  one of four hours or more is accepted and never wakes the desk in time.

Further conditions in properties: `DropIsSignalled` asks that no event was lost;
`EndsForItsOwnLoss` that no event was late and no link was left up by a failed
Connect or Disconnect; `NoFalseAlarm` that no attempt that had timed out was made
after all; `ComesBack` and `ServedOrOnTheWay` except a refused subscription, which nothing
retries (mqttc.go:265-282).

## 5. Proofs

Theorems hold for all constants that satisfy the modules' named assumptions:
non-empty capacities, `MinBackoff <= MaxBackoff`, `None` outside the data, and
of the strings that trimming is idempotent and a peripheral's ID, a UUID
(src/README.md:105), has nothing to trim.

**DeskManagerProofs** proves every property of `DeskManagerSafety`. Inductive is
`IInv == TypeInv /\ Routing /\ LossCovered /\ SetUpSoFar /\ BackoffCarried /\
BackoffPaced /\ Quiet`:

- `Routing`: an ID the manager holds, or that is in its channel, is routed.
  `forgetPeripheral` drops both; without it an event might go nowhere.
- `LossCovered`: what `DropIsSignalled` says of the online places, from
  `Connect`'s return on.
- `SetUpSoFar`: each step of the set-up leaves the handles, then the
  notifications, of this link or one of the two reasons why none is heard;
  `subsSet` and the callback go together.
- `BackoffCarried`: the backoff in the loop is the one due after a short
  connection, and a connection has an age exactly if it has been online.
- `Quiet`: with no late event and no link left up, nothing of an earlier connection is
  about, in each place as much as must not be. `ConnectionsEndForTheirOwnLoss`,
  an action property, follows from it.

The helper's death enters `IInv` as `helperGone => linked = {}`.

`SupervisesItsLink`, that `Spec` implements `SupervisedLink`, uses all of these:
`Quiet` for an attempt with nothing of an earlier link about and for a
link given up only when it is gone, `LossCovered` and `Routing` for the report,
`BackoffCarried` and `BackoffPaced` for the rests. `LinkStep` has one case per
action; a step after or into an excuse is allowed by definition.
**SupervisedLinkProofs** says what the promise is worth: without an excuse an
owner has no connection while it is away or resting, and one that holds
a connection is told of its loss exactly when it is lost (`OwnersAreInformed`, whose
hypothesis `[]~excused` is that of the refinements).

**DiscoveryProofs**, for any number of desks and any matching. `IInv` says that
a request is in one place at a time (`OnePlace`): in the flag, in the
pump's hands, or in the channel, and only while the desk waits. From it:
`HandoversAreNeverLost`; `TypeCorrect` (with `Flags` and `Counts` for what the
search does not depend on); `RoutesAgree`, with `Disjoint` as hypothesis, from
`Routes`, which adds the place the pump has reached; and `SearchKeepsPromise`,
that `Spec` implements `Resolution`'s (initial states and steps; the fairness is TLC's).
`ScanIsFollowed` has an invariant of its own, `ScanInv`: a desk that wants an ID
has a token in `scanWake`, or lies ahead of the sweep, or has been counted in
`need`, in `scanning` or for a retry (`Minded`); and what the controller counts
as needed is still wanted or in the pump's hands, which will wake it (`Needed`).
`Belief` ties that to the radio: a scan the controller believes on is on or was
ended by the adapter, and one that is on is believed on or is `leftOn`.

**ThrottleProofs**: `LatestIsKept` and `NoRepeatPending` are inductive
together, and neither alone: `Flush` may take the pending reading for the newest
only because nothing waits before there has been a decision. `ShowsTheLastHeight`
rests on `BInv`: a goroutine still has the decision to record or to publish, or
`lastHeight` has it and the topic shows it, unless somebody was overtaken.

**MqttClientProofs**: `OneTrace` counts. A connection `Run` has seen is up, or
its loss is in a call, or in the token, and in one of them only, as long as no
connection `Run` did not see is about; `SomeTrace` is what is left of it
otherwise. `BackoffDue` holds everywhere. The three give `SupervisesItsLink`, the
client's refinement of `SupervisedLink`. `FiltersAreServed` needs the types only:
`ServedOrOnTheWay` is inductive, because a filter leaves a call's list only when it
is subscribed or refused, or no connection is up, and a connection comes up
with a call for all of them.

**AvailabilityProofs**, for any number of desks, connections, drops and kills.
`Structure` says where the managers, the client and `Run` can be together (after
`wg.Wait` all of them have stopped; a connection that is up has no will due).
`DesksAgree` and `BridgeAgrees` are `ShowsTheDesks` and `ShowsTheBridge` before
the `OnConnect` calls are done: a topic that is wrong has a call ahead of it that
will put it right. `WillMakesUp` follows the bridge's topic through a lost
connection, the goodbye and `Close`.

**ServingProofs.** `EveryNumberIsNearest` is about `checkRange` alone: every
number that rounds to a 16-bit height is accepted as the nearest. `TopicsStayApart`
needs that `cfg` has been accepted (`CfgAccepted`) and a fact about levels:
sequences that end in an id and a leaf are equal only if those are.
`CommandsAreMeant` has `CommandInv`, its statement with the types. `SilenceIsShort`
has `Paced`: `idle` stays within an interval and the lag, and `silence` within
`idle` and what the failures have hidden. `TypeCorrect` needs `idle <= silence`:
only `silence` stops the clock at the deadline, and `idle` is bounded by it.

**InventoryProofs**, for any number of peripherals, names and spellings.
`ScanInv` relates `found` to `heard`: every sighting is that of something heard
with its key, and everything heard has a sighting, with a name if it had one
(`SightingsOfHeard`). What `sorted` makes of that is `SortedListsAll`: a listing has
as many places as there are sightings and no sighting in two of them, an
injection between finite sets of one size, so every sighting has its place.
`ListingIsComplete` and `CopiedEntriesMatch` follow. That the advertisements are finitely
many is not assumed: `found` grows by one key at a time.

Only checked by TLC: the liveness properties (`KeptUp`, `StopsWhenAsked`,
`ScanSettles`, `PendingGetsOut`, `ComesBack`, `RunReturns`, `ShutsDown`) and
the fairness half of `KeepsPromise`: fairness and ENABLED are out of the prover's
reach. Every invariant and every action property of the passing runs is proved. No
module has a recursive operator, and nothing here needs an induction over data.

## 6. Not modelled

- Logging, its adapters (`pahoLogger`, `lineWriter`), the logger of `main.go`,
  `PrintInventory` and the services and manufacturer data it lists, the Makefile
  and launchd files: no state. launchd's restart is `Killed` in `Availability`.
- The helper, CoreBluetooth, dpg, paho, the YAML decoder and the broker are
  external and modelled by how the code uses them.
- Settings that only reach a library: client ID, credentials, the helper's
  path, the retain flag of metrics (taken as set). Reading durations and
  booleans: parsing.
- `base_height` as retained state: it has one writer, and its republication is
  the height's. That it is read on connect and after a write is in `DeskManager`
  and `Serving`.
- `Subscribe` on a running client: nothing calls it.
- `jitter`: it lengthens a sleep, and sleeps have no length in `DeskManager`.

## 7. Plan

Done: `DeskManager` with the helper's death; `Discovery` with late and failed
scans, and `Resolution`; `Throttle` over MQTT connections; `MqttClient`;
`Availability`; the path from the command line to a served desk (`Names`,
`Config`, `Startup`, `Payload`, `Serving`); `SupervisedLink`; the proofs of all
of them.

Left:

1. `base_height` beside the height in `Throttle`.
2. `DeskManager` for two desks whose entries overlap, to follow what the second
   desk hears of the first's peripheral.
3. What `SupervisedLink` promises under fairness: that an owner whose
   surroundings behave comes to hold a connection, as a property of both runs.
