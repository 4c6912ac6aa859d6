# wifi-presence in TLA+

A verification development of [wifi-presence](../src/README.md): TLA+ modules
that model its daemon, its connection to hostapd, its MQTT client, its life as a
process and its decoders; TLC runs that check them on small instances; and
theorems about them that TLAPS proves. Paths below are relative to `src/`.

## 1. The system

wifi-presence runs on a WiFi access point. It reads, from one Unix datagram
socket per radio, the events that hostapd sends when a station (a WiFi client)
comes or goes, and publishes retained MQTT messages that say which of the
*configured* stations are home. The configuration itself arrives as an MQTT
message, at any time.

```
 stations ──> hostapd ──(one FIFO per attached socket)──> Client.Attach ──> onHostapdEvent ─┐
                 │                                                           │   Daemon.mu  ├─> state,
                 └────────(command socket: STA-FIRST, STA-NEXT)─────────┐    │   stations   │   discovery,
                                                                        │    v              │   attributes
 broker ──(config topic)──> SubscribeConfig ──> onConfigChange ─────────┴─> debouncer ──────┘   topics
                                                                             │ timers
                                                                             └─> callback (not_home)
```

| component | state | operations | with whom | what is hard | what makes it correct |
|---|---|---|---|---|---|
| daemon (`internal/presence/daemon.go`) | `stations` (name, connected, bssid), under `mu`; `errs` (one place) | `Run`, `onConfigChange`, `onHostapdEvent`, `connectedStations`, the callback | all of the below | five kinds of goroutine; the lock is held over network calls in one handler and released before the publish in the others | belief agrees with the radios; topics agree with belief once things settle; shutdown completes |
| debouncer (`internal/presence/debounce.go`) | `queue`: MAC to timer, under a mutex of its own | `enqueue`, `cancel`, the timer's body | daemon; the Go runtime | a body that has started and waits for the mutex; `Stop` that comes too late | one pending callback per MAC, which begins once or is cancelled, and begins out of turn in one known case only |
| hostapd client (`internal/hostapd/client.go`, `ctrl.go`) | two sockets per radio, a mutex each, the read deadline, `detached`/`done` | `Stations`, `Status`, `Attach`, `cmd`, `detacher` | hostapd; daemon | answers after a timeout, events mixed with answers, detach racing the read loop, stations that move while they are listed | every command gets its own answer; a listing is regular; Attach ends after cancellation, with its listener detached |
| hostapd messages (`event.go`, `station.go`, `status.go`, `mac.go`) | none | parsers | client | escapes, cut answers, lines in any order | an SSID survives; a bad line is an error; the last flags count |
| hostapd socket (`conn.go`) | local socket file | dial, deadlines, close | client | the file that stays behind | every way out removes the file |
| hass MQTT client (`internal/hass/mqtt.go`) | the paho client, `connLostErrs` (one place) | publishes, `SubscribeConfig`, `OnConnectionLost`, `tokenWait` | broker; daemon; command | waiting for an acknowledgement inside a message callback, timeouts, a full error channel | configurations are handled in order; handlers and `SubscribeConfig` end |
| hass messages, topics (`messages.go`, `topics.go`), vendor table (`vendors.go`), MAC codec (`internal/presence/mac.go`) | none | encodings, lookups | daemon, MQTT client | three spellings of an address | one station has one name |
| command (`cmd/wifi-presence/main.go`) | contexts, errgroup | `run`: start-up, status topic, deferred clean-up | all | order of the clean-up; a failing step; a second process | the status topic is right, whoever died how |
| tests' fake hostapd (`hostapdtest`), integration test, `hostap-ctrl` | | | | | not part of the program; the fake says what hostapd answers |

The daemon's goroutines are: one that watches `errs`; one in `SubscribeConfig`
(its callback runs in a goroutine of the MQTT library, one message at a time);
one per radio in `Client.Attach`, plus one that detaches it when the context is
cancelled; and one per timer whose body has started.

The hazards of this code, each at the line where it bites and with the
properties that watch it, are listed in `PROJECT.json` under `hazards`.

## 2. The modules

| module | models | role |
|---|---|---|
| `PendingCallback` | what a debouncer promises, callback by callback | abstract specification |
| `Debouncer` | `debounce.go` | one action per critical section; `KeepsPromise` is its refinement of `PendingCallback` |
| `Daemon` | `daemon.go`, and what it needs of `mqtt.go`, `client.go`, `ctrl.go` | composes an instance of `Debouncer` (`Db`) with the radios, the configuration and the topics |
| `Attributes` | `StationAttributes` of `mqtt.go` and its three callers in `daemon.go` | extends `Daemon` with the attributes topic |
| `StationListing` | what `Client.Stations` promises | abstract specification |
| `HostapdCtrl` | `ctrl.go`, `client.go`, hostapd as `hostapdtest` describes it | one connection to hostapd; `ListingIsRegular` is its refinement of `StationListing` |
| `MqttPipeline` | `mqtt.go` over the vendored MQTT client | the goroutines that a packet passes, the handler that publishes, `SubscribeConfig` |
| `Lifecycle` | `main.go`, `conn.go`, `NewClient`, `Attach` | processes that start, end, crash and overlap, over one broker and one set of hostapds |
| `Messages` | `status.go`, `station.go`, both `mac.go`, `topics.go`, the vendor lookup | decoders, as loops over short texts |
| `MCDebouncer`, `MCDaemon`, `MCAttributes`, `MCHostapdCtrl`, `MCMqttPipeline`, `MCLifecycle`, `MCMessages` | | small sets for TLC |
| `DebouncerProofs`, `DaemonProofs`, `PublishProofs`, `HostapdCtrlProofs`, `ListingProofs`, `MqttPipelineProofs`, `LifecycleProofs`, `MessagesProofs` | | theorems |

The modules fit together as layers of the same program. `Daemon` takes a listing
in one step and a publish in one step; `HostapdCtrl` shows what a listing can be
(the faults "unknown", "truncate" and "list" of `Daemon` are its outcomes), and
`MqttPipeline` when a publish fails (the fault "publish"). `Lifecycle` takes
`Daemon.Run` as the goroutines in `Client.Attach`, and that they end is
`ShutdownCompletes` of `Daemon` and `CancelEndsAttach` of `HostapdCtrl`.

Some definitions are preceded by a comment that begins with "Faulty": they are
what a plausible mistake would make of the definition that the comment names, and
no specification uses them. They keep the properties honest: with the mistake
in place TLC must find the property violated (`PROJECT.json`, `mutants`).

### Debouncer

`queue` is `debouncer.queue`. A timer is `armed` until the runtime starts its
body, `fired` while the body waits for the mutex, and `running` while it
executes the callback; then its identity is free again. The point of the phases
is that `Stop` reaches an armed timer only, and that line 58 looks for *an* entry,
not for its own. `owner` is the MAC that the closure captured.

`PendingCallback` knows each callback by name; in the refinement its name is its
timer. The entry of an address is its pending callback (`pending`), the timers in phase
`running` are those that execute, and a timer that was cancelled when its body had
started, or that lost its entry to another, is `late`. A callback that begins is the one that is
pending (`Begin`), with one exception that has an action of its own: `TakeOver`
lets a late callback begin in the place of a younger one. That is what line 58 does
and what the comments at lines 40-43 and 59 do not allow. It takes five steps: `enqueue`
makes t1, t1's body starts and waits for the mutex, `cancel` (too late for `Stop`), `enqueue` makes
t2, and t1's body finds t2's entry. Then a cancelled callback runs, before its
time, and t2's body finds nothing. Without `TakeOver` in `PendingCallback` TLC finds
`KeepsPromise` violated by these steps.

### Daemon

| variables | in the code |
|---|---|
| `assoc`, `evq`, `attached` | hostapd: who is associated, the datagrams in the attached socket, whether ATTACH is in force |
| `stations` | `Daemon.stations` |
| `hap[h]` | the goroutine in `Client.Attach`: where it is in `attach` or `onHostapdEvent`, and that handler's locals |
| `conf` | the callback of `SubscribeConfig`: where it is in `onConfigChange`, and its locals `changes`, `hasUpdates`, `connected` |
| `queue`, `phase`, `owner`, `cb` | the debouncer, and how far the callback of a running timer is |
| `state`, `disc` | the retained topics at the broker |
| `done`, `errs`, `cfgErr`, `sub`, `watcher` | the errgroup's context, the two error channels, the goroutines of `Run` that have not returned |
| `unseen`, `late` | history, see below |

A step ends where another goroutine can see a difference: at a lock, an unlock,
a call of the debouncer, a command to hostapd or a publish. `Daemon.mu` is not a
variable: it is held exactly while `conf.pc` is a step of `onConfigChange`
(`LockedStep`), because the event handler and the callback take and release it
within one step. So `HandleConnect` is lines 377-397 of `daemon.go`, up to the
unlock; `HapCancel` the call of `cancel` after it; `HapHome` and `HapAttrs` the
two publishes. `onConfigChange` is one step per device (`DiffDevice`),
one for the removal loop (`DiffRemoved`), one per radio listed (`ListRadio`),
then, for one change after the other in any order (the iteration order of a Go
map), the calls that its kind of change makes. All the early returns are there:
`ConfFails` leaves the map as far as it was changed.

Data is abstract. A MAC is a model value, so `Decode` is an address or an error
(`None`). A radio is identified with its BSSID, as `daemon.go:118` assumes. A
station's times are left out; publishing its attributes is a step that can fail, and what
that leaves in the topic is added by `Attributes`. `unknown` and `truncate` are the two ways in which
`Client.Stations` gives less than hostapd has. A publish that fails may or may
not have reached the broker. MQTT's acknowledgement and `tokenWait` are one step
with the publish, and the topic changes in that step. What fails is chosen by the
constant `Fault`; what makes `Run` end from outside (a signal, a lost connection
to the broker) is `Stop`.

Two variables record history and no action reads them. `unseen[h]` has a
station whose last arrival or departure at `h` was sent to no socket. It is cleared for a device
that is new when a listing of `h` is taken, until the socket of `h` is at its end
(`Listens`; a listing after that comes too late: older events may still wait to be read, and nothing will
correct them). `late` has a station whose last state was
published by a callback while the daemon held the station for connected. Both are
exceptions that properties make, see "Known limits" below.

### Attributes

`attrs` is the retained attributes topic of each address, of which only `is_connected` is
kept. Each step of `Daemon` that publishes attributes (`HapAttrs`, `ConfAttrs`, `CbAttrs`) is
joined by `StationAttributes`, every other step leaves them alone (`NoReport`). They are a
module of their own because not every run of `Daemon` needs them; that of
`OneRadio` is one of `Attributes`, whose steps are those of `Daemon`.
`unsaid` and `overtaken` are history, for two exceptions: line 311 publishes a state and
no attributes for a device that is added while it is away, so that the retained ones of an
earlier time stay; and a callback may publish its attributes after the station has come back.

### HostapdCtrl

One connection, in one of the two `role`s that the program gives one: `main` is
`Client.ctrl`, which serves `Status` once and then `Stations`; `attach` is that of
`Client.Attach`. `op` is the program counter of the client. `requests` and `answers`
are the two directions of the socket; both keep their order and lose nothing.

| actions | in the code |
|---|---|
| `Send`, `SendFails`, `Reads`, `Timeout` | `ctrl.cmd`: write, deadline, one read. `ReadExpected` ... `ReadOther` are what the caller makes of the answer: the parsers' errors, `ok`, and the order in which `Client.Stations` looks at `ok` and `err` |
| `Stations` | the entry of `Client.Stations` (STA-FIRST, then STA-NEXT of the last answer) |
| `UnsetReadDeadline`, `ReadMessage`, `ReadTimeout` | `attach` after ATTACH was accepted: lines 193 to 245 of `ctrl.go` |
| `Wake`, `DetLock`, `DetWrite`, `DetArm`, `DetClose` | the goroutine that waits for the context, and `detacher.detach` for each of its two callers |
| `DeferredDetachDone`, `CloseConn` | the deferred calls |
| `Associate`, `Disassociate`, `Forget`, `Announce`, `Serve`, `Terminate` | hostapd (external) |

A request or an answer carries `own`, which is history: it is set while the command
that caused it waits. `must`, `may` and `trouble` are the history of a
listing that `StationListing` states its promise in.

hostapd's list grows at its head, as hostapd's own does, and STA-NEXT of a station it
has forgotten is answered FAIL; the fake hostapd of the tests ends the list
instead, and `station.go:27` has the error for the former. Where the code writes
`return s, ok, c.cmd(...)`, `ok` is set by the call before the result is read: this is
what the Go compiler does, the language leaves it open.

### MqttPipeline

The vendored client is run with its default, ordered handlers. A packet from the
broker passes three goroutines, each of which holds one packet while the next is
busy: `incoming` (`startIncomingComms`), `forwarder` (`startComms`) and `dispatcher`
(`startCommsWorkers`); then the router calls the handler in a goroutine that it
waits for. `incoming` completes the acknowledgements that end a handshake itself;
PUBREC is written by `forwarder`. So a QoS 2 publish needs `forwarder` to be
free and a QoS 1 publish does not. `router` is the handler of `SubscribeConfig`
(decode, callback, `onError`, the deferred `Ack`), `sub` is `SubscribeConfig`, `event`
a goroutine of the daemon that publishes at the same time. A token whose waiter
has given up is an "orphan": its identifier is not free.

The broker answers at once and in order. `tokenWait`'s second is long for
goroutines: a timeout is a step only when no goroutine of the client can move
(`Stuck`, which says for each of them what it waits for). With that the model errs on the side of the code: whatever times out in
it does so because nothing else can happen.

`listening` is both ends of the subscription, since the client adds the route to the handler
with SUBSCRIBE and deletes it as it hands UNSUBSCRIBE over. A message that comes to the router after
that is neither handled nor acknowledged (`RouterDrops`); `dropped` counts them and is history.

### Lifecycle

`pc[p]` is the step of `main.run` at which process `p` is. `attach[p][r]` is its
goroutine in `Client.Attach` for radio `r`. `file` says who made the socket file that
is there, `linked` which sockets still have hostapd at the far end. `conn` and
`owner` are the two ends of the connection to the broker, which may disagree:
`Cut` breaks the network, `ClientNotices` and `BrokerNotices` are the two keep-alives.
A process that connects takes the client ID over, and the broker publishes the
will of the connection that it ends. It does so as well if the process gives up just then, be it that
its context was cancelled (`NewMQTTCancelled`) or that the answer does not arrive (`NewMQTTCut`). The steps are `run`'s statements in order, every
error return, and the deferred calls in reverse (`ClientClose`, `StatusOffline`,
`Close`). `discarded` is history: a will was forgotten with a goodbye that had not
arrived. Any number of processes may be up at once: a supervisor restarts a crashed
one, an operator starts a second.

### Messages

The initial states enumerate every text up to a bound over an alphabet that has one
character (or line) of each sort the code tells apart; the actions are the iterations of
the loops. For an SSID the text is what hostapd's `printf_encode` makes of one, whole or
cut at any place, so that the decoder can be compared with what was meant.
An address has `Bytes` bytes, six in the code (`mac.go:11`) and two in TLC's run; the code's
other constants (digits, colons, the vendor's half) are given in terms of it.

## 3. The runs

| run | instance | properties | result |
|---|---|---|---|
| `Debouncer` | 2 addresses, 3 timers | `TypeOK`, `EntryIsLive`, `KeepsPromise` | hold |
| `OneRadio` | 1 radio, 1 device that is tracked and dropped, 2 timers, 2 waiting events, topics of an earlier run, fairness | `DepartureIsPublished`, `ArrivalIsPublished`, `DepartureInAttributes`, `ArrivalInAttributes`, `DepartureIsReported` | hold |
| `TwoRadios` | 2 radios, the same device, 2 timers, 1 waiting event each | `BelievedIsBacked`, `DepartureIsPublished`, `BeliefIsPublished` | hold |
| `Registry` | 2 devices, renamed, blank name, undecodable address, autodiscovery; publishes, listings and the subscription fail | `ConfiguredIsPublished` | holds |
| `Shutdown` | 1 radio; publishes, ATTACH, the subscription and hostapd fail, stop at any time, fairness | `TypeOK`, `BelievedIsBacked`, `ShutdownCompletes` | hold |
| `Ctrl` | both roles, 2 stations, 2 waiting datagrams, every fault, fairness | `TypeOK`, `InStep`, `DetachBeforeClose`, `ClosesOnce`, `StopsOnRequest`, `ListingIsRegular`, `CancelEndsAttach`, `ListingEnds` | hold |
| `Pipeline` | 3 configurations, 4 identifiers, 1 publish per callback, fairness | `TypeOK`, `TimeoutNeedsBacklog`, `HandledInOrder`, `SubscribeConfigReturns`, `HandlerEnds` | hold |
| `Lifecycle` | 2 processes, 1 radio, every fault, fairness | `TypeOK`, `OfflineWhenGone`, `OnlineWhileRunning`, `FilesAreHeld`, `TroubleEndsRun` | hold |
| `Messages` | SSIDs of 3 characters, 4 lines, addresses of 2 bytes, 5 characters of an address | `SsidSurvives`, `LinesDecide`, `OneStationOneName` | hold |
| `RoamingArrival` | 2 radios, 2 waiting events | `ArrivalIsPublished` | violated |
| `HandlerStuck` | as `Pipeline` | `HandlerNeverStuck` | violated |
| `LeftSocket` | 1 process, 2 radios | `RestartSucceeds` | violated |

What the properties say:

* `EntryIsLive`, `KeepsPromise`: an entry of the debouncer's map is a live timer with
  its own address; an address has at most one pending callback, which is not pending for ever; none
  begins twice, or after a cancel that reached it in time, or for another address. What the code
  does against its comments is allowed to one callback only, and by name: one that was cancelled too
  late may begin in the place of a younger one.
* `BelievedIsBacked`: the daemon holds a station for connected at a radio only if
  it is there, or its disconnect waits in the socket, or nobody was told.
* `DepartureIsPublished`: when nothing about a tracked station is under way
  (`Settled`, `InFlight`) and it is at no radio, its topic does not say home. It
  is the property that the debouncer's weakness, the cancel outside the lock, and
  the ignored latent disconnects could each break and do not, also with two radios.
* `ArrivalIsPublished`: the same for a station that is at a radio.
* `BeliefIsPublished`: what the daemon believes of a connected station it has published,
  also when the station goes from radio to radio; only what it believes may then be wrong
  (`RoamingArrival`).
* `ConfiguredIsPublished`: once a configuration is processed without an error,
  each device of it has a state and its latest name in the discovery topic.
* `DepartureIsReported`: a station that leaves for good is reported in the end.
* `DepartureInAttributes`, `ArrivalInAttributes`: when nothing about a tracked station is
  under way its attributes agree with hostapd, but for `unsaid` and `overtaken`. Between two
  radios this rests on the order within one goroutine: the attributes of an arrival are out
  before the same radio's disconnect is read, and one of the two disconnects is not ignored.
* `ShutdownCompletes`: after a failure or a cancellation `Run` returns.
* `InStep`: a command reads its own answer, unless an earlier one was given up
  before its answer came. The exception is real: after one late answer each command of
  this socket may read that of the one before, which no code resets.
* `ListingIsRegular`: a listing has every station that was associated throughout the
  call and none that was not at any time of it; it is short only if an answer was
  missing, fails only then or if hostapd forgot a station, and can be anything
  only in the case that `InStep` excepts.
* `ListingEnds`: a listing ends if hostapd's list does not change. Without this premise it
  need not: a station that is forgotten and comes back is at the head of the
  list again, and the listing starts over.
* `DetachBeforeClose`: whichever of its two callers detaches first, `attach` does not close
  a socket that hostapd sends events to before DETACH was sent. One case is left: hostapd has
  obeyed an ATTACH whose OK was missing or late. `attach` returns then before there is a
  detacher, and the listener stays.
* `ClosesOnce`: the two callers of the detacher do not both close its channel.
* `StopsOnRequest`: `attach` ends without error, by timeout, or by "unexpected OK" only
  after its context was cancelled.
* `CancelEndsAttach`: after cancellation `attach` returns, except if it removed the
  deadline that the detach had just set (`ctrl.go:193` after `:188`) and the answer
  to DETACH is missing as well.
* `TimeoutNeedsBacklog`: a publish times out (with a broker that answers) only while
  the handler has one configuration and two more wait for it.
* `HandledInOrder`: the broker hears that a configuration is received only after its
  handler, and the handler sees them once each and in order.
* `SubscribeConfigReturns`, `HandlerEnds`: both come to an end, whatever waits for
  what.
* `OfflineWhenGone`: the topic does not say online while nobody is connected, unless
  the broker was too slow to take the goodbye before the DISCONNECT that discards the will.
* `OnlineWhileRunning`: a daemon that runs on a connection that works is said to
  be online: neither the will nor the goodbye of an earlier process comes after.
* `FilesAreHeld`: a socket file outlives its process only if that was killed or refused.
* `TroubleEndsRun`: a signal, a lost connection or the end of one hostapd ends the process.
* `SsidSurvives`: what is decoded is a prefix of the SSID that was encoded, and all of it
  if the text was not cut.
* `LinesDecide`: a bad line anywhere is an error, and the last line of flags decides.
* `OneStationOneName`: an address that hostapd's parsers accept is accepted by the daemon
  in either case of its digits, has the topics of the configured device, and what the daemon
  prints decodes to the same.

**Findings.** Three runs end in a violation, each of something that the repository
says; `PROJECT.json` quotes the lines.

1. `RoamingArrival`. A station that two radios list (hostapd keeps a station that
   roamed away until its entry expires) is believed at the radio that comes last. When that
   one lets it go, not_home is published although the station is at the other.
2. `HandlerStuck`. The MQTT client's documentation forbids a handler to wait for
   a publish. `SubscribeConfig`'s does: with one configuration in the handler and two more
   behind it nobody answers PUBREC, `tokenWait` gives up and the daemon ends.
3. `LeftSocket`. `net.DialUnix` makes the local file before it connects. A start while
   hostapd is down leaves the file, and every later start fails on it.

**Known limits** that the properties except and that are no contradiction of what the
repository says: a callback that has begun publishes not_home over the home of a
station that comes back (`late`), and its attributes over theirs (`overtaken`); the
attributes of a device that is added while it is away are old (`unsaid`); a listing may precede ATTACH, and what happens
in between is told to nobody (`unseen`); an address that is configured twice is
tracked and never announced (`Distinct`; no run has one); a timer's body that lost its entry
may take over the entry of a later timer (`TakeOver`: the cancelled callback runs, early, and the
later one never does; `debounce.go:55-65`; that a station is reported in spite of it is
`DepartureIsReported`); an ATTACH that hostapd obeyed and whose OK is missing or late
leaves a listener behind (`ctrl.go:161-169`);
the removed deadline (`lifted`); a short or stale listing after a missing or late answer.

**Bounds.** `MaxEvents` bounds the datagrams that wait in an attached socket; the
environment waits when it is full, so nothing is dropped. In `Daemon` two suffice to
have a connect overtake an unread disconnect on one radio, and with two radios one
each suffices for every order of a roam. A timer's identity is reused after
its body ends; two timers are an old body that waits or runs and a new entry for
the same address; three, in `Debouncer`, add a second old body. The handlers treat
addresses independently but for `onConfigChange`'s loops, so one address is enough except in
`Registry`, where the order of changes and the failure of one of several matter;
there `MaxEvents` is 0, because only the configuration's goroutine is looked at.
In `HostapdCtrl` two stations are a listing with one before and one after any that
moves; a late answer happens once, because one is enough to put the rest out of step. In
`MqttPipeline` three configurations are the least that fill the pipeline, and
four identifiers are one more than can be pending or orphaned before everything stops.
In `Lifecycle` two processes overlap; the cases where one process has two radios and where
two have two were checked once by hand as well (safety, and for the former liveness), but the
latter takes minutes more. Five characters are an address and every text shorter than
one, with colons anywhere. Deadlock is checked in `Debouncer`, `OneRadio` and
`TwoRadios`;
the other runs have states where the program has ended for good.

**Fairness.** Each goroutine that can take a step does (`WF`).

* `Daemon`: steps that need `Daemon.mu` get it if it is free again and again: Go's mutex
  hands itself to a goroutine that has waited for more than a millisecond. So the
  goroutines of the radios and of the timers are strongly fair (`SF`). Nothing is assumed
  of hostapd, of the stations or of the operator. That a timer fires and that the answer
  to DETACH or the read deadline comes are the only timing assumptions.
* `HostapdCtrl`: hostapd serves its socket (its answer may still be missing), and an
  armed deadline is over some time. Stations need not move.
* `MqttPipeline`: each goroutine of the client, and the timer of `tokenWait`. The
  context is cancelled when `SubscribeConfig` has returned, which is what the errgroup
  does; otherwise nobody needs to cancel it, and the broker need not send.
* `Lifecycle`: a process goes on, because each call it makes has a timeout or is ended
  by the detach; both ends of a connection have a keep-alive. Nobody needs to start
  or stop anything, and hostapd need not come up or end.

## 4. What is proved

Theorems hold for any finite or infinite sets of addresses, radios, timers,
names and processes, any set of configurations, any subset of the faults and any bounds.

| theorem | says |
|---|---|
| `DebouncerProofs!DebouncerTyped` | `Spec => []TypeOK` |
| `DebouncerProofs!QueueIsConsistent` | `Spec => []EntryIsLive` |
| `DebouncerProofs!KeepsPromiseSafely` | the debouncer implements the safety part of `PendingCallback`: initial states map to initial states, each step to a step on the same callback or a stutter |
| `DaemonProofs!TypeCorrect` | `SafeSpec => []TypeOK` |
| `DaemonProofs!DaemonKeepsQueue` | each step of the daemon is one of the debouncer or leaves it alone; so `[]EntryIsLive` inside the daemon |
| `DaemonProofs!BeliefIsBacked` | `SafeSpec => []BelievedIsBacked` |
| `PublishProofs!DeparturesArePublished` | `SafeSpec => []DepartureIsPublished`, if `Distinct` |
| `PublishProofs!ConfigurationsArePublished` | `SafeSpec => []ConfiguredIsPublished`, if `Distinct` |
| `PublishProofs!DeparturesInAttributes` | `SafeAttributesSpec => []DepartureInAttributes`, if `Distinct` |
| `PublishProofs!BeliefsArePublished` | `SafeSpec => []BeliefIsPublished` |
| `PublishProofs!BeliefsInAttributes` | `SafeAttributesSpec => []BeliefInAttributes` |
| `PublishProofs!ArrivalsArePublished` | `SafeSpec => []ArrivalIsPublished`, if `Distinct`, `OneRadio` and `FullListings` |
| `PublishProofs!ArrivalsInAttributes` | `SafeAttributesSpec => []ArrivalInAttributes`, if `Distinct`, `OneRadio` and `FullListings` |
| `LifecycleProofs!LifecycleTyped` | `Spec => []TypeOK` |
| `LifecycleProofs!OfflineIsRight` | `Spec => []OfflineWhenGone` |
| `LifecycleProofs!StatusIsRight` | `Spec => []OnlineWhileRunning` |
| `LifecycleProofs!FilesAreClosed` | `Spec => []FilesAreHeld` |
| `HostapdCtrlProofs!CtrlTyped` | `Spec => []TypeOK` |
| `HostapdCtrlProofs!CommandsInStep` | `Spec => []InStep` |
| `HostapdCtrlProofs!DetachComesFirst` | `Spec => []DetachBeforeClose` |
| `HostapdCtrlProofs!DetacherClosesOnce` | `Spec => []ClosesOnce` |
| `HostapdCtrlProofs!AttachStopsOnRequest` | `Spec => []StopsOnRequest` |
| `ListingProofs!ListingRefines` | `Spec => ListingIsRegular`: `Client.Stations` implements `StationListing` |
| `MqttPipelineProofs!PipelineTyped` | `Spec => []TypeOK` |
| `MqttPipelineProofs!ConfigsInOrder` | `Spec => []HandledInOrder` |
| `MqttPipelineProofs!TimeoutsNeedBacklog` | `Spec => []TimeoutNeedsBacklog` |
| `MessagesProofs!SsidIsDecoded` | `Spec => []SsidSurvives` |
| `MessagesProofs!LastFlagsDecide` | `Spec => []LinesDecide` |
| `MessagesProofs!AddressesAreNames` | `Spec => []OneStationOneName` |

Assumptions (all named, evaluated by TLC in the runs): the model value `None` is no
address, radio, timer, name, station, value of a topic, packet, identifier or process, and neither
are the marks `Ghost`,
`Crashed` and `Refused`; `HapOrder` lists every radio once; configurations are sequences
of devices; `Fault` is a subset of the module's faults; there is at least one radio;
an address has at least one byte; bounds are numbers.

*The arguments.* `TypeOK` of `Daemon` needs one strengthening, `ChangeIsTracked`: a
device whose change is "added" or "updated" has its entry, because the lock is held
from the entry's creation to its use. That each step of the daemon is a
step of the debouncer (`NextIsDbStep`) carries the debouncer's invariant over
without proving it again.

`BelievedIsBacked` is not inductive: what the daemon believes next is decided by
connects that still wait in a socket and by listings that `onConfigChange` carries
from `connectedStations` to its loop. `BeliefInv` adds that both are backed:
`ArrivalsOK` (behind a waiting connect of a station that has left there is a
disconnect), `ListingOK` (a listing lives under the lock only, so no event is
handled meanwhile, and comes from a radio that is not asked again), `SilenceOK` (no
events before ATTACH) and `AddedOK` (a new device is not connected before its
change is processed). `NewsOK` says that no event waits of a station that was announced to nobody,
so that a listing may clear it from `unseen`. `Kept` is the frame: a step that takes no backing away.

The status topic is right by `StatusInv`: `OwnerInv` (a connection that works is the
one that the broker has, so at most one process can publish), `OnlineInv` (from the
acknowledged online status to the goodbye, a process with a working connection is said
to be online) and `GoodbyeInv` (after the goodbye, online means that a will is about to be
discarded). A new process breaks none of them because taking the client ID
over makes every other connection lost in the same step. `FilesAreHeld` follows from
`FileInv`: `MainHeld` and `AttachHeld` say at which steps a process may hold which file,
and every step that leaves this range has closed it.

The properties of one connection follow from `CtrlInv`. None of them is inductive, because
each depends on what is in the sockets and on where the two callers of the detacher are.
`MainInv` says that, as long as no answer was late, there is at most one request or answer
under way and it is the one that is awaited; `AttachInv` that ATTACH is sent and answered
once, before anybody can detach; `PlaceInv` relates the program counter to the callers,
`MutexInv` is the detacher's mutex with its flag; `WrittenInv` says that once a caller has
written DETACH, hostapd has it in its queue or has obeyed it; `StopInv` that an answer
to DETACH, or a deadline, that ends the wait for events goes back to the context. `EarlyInv` is about
the time before there is a detacher: nothing but ATTACH is under way, and its OK is the first answer,
so that a listener is left behind only if that was missing or late. `ClosedInv` says that who closed
the detacher's channel has returned.

The refinement of `StationListing` needs in addition what hostapd's list says about a
listing that is half done (`ListInv`). `WireInv`: nothing but the command of the listing
and its answer is under way. `AnswerInv`: an answer that waits is true when it is read
(`Truthful`), and every station that was there throughout and was not told yet is
behind the last one told (`Behind`), since stations are only added at the head and
removed. So when hostapd says that the list has ended nothing is missing, or a station
that was told was forgotten in between (`forgot`).

`HandledInOrder` follows from `PipelineInv`, which counts: the configuration in
each goroutine is the number of those handled, plus those held by the goroutines in
front of it, plus one (`HeldInv`), and the wire holds the rest in order (`InboxInv`). Those that
the router dropped count between it and the dispatcher; none are handled after them, because the route
does not come back (`RouteInv`).

`TimeoutNeedsBacklog` needs to know why an answer that somebody waits for has not come:
it is on its way (`AnswerInv`: a pending token has its answer on the wire or in one of
the goroutines, and so have SUBSCRIBE and UNSUBSCRIBE). When nothing can move, an answer can
only be behind a packet that `incoming` holds, because `forwarder` holds another; by
`WayInv` nothing gets there but messages and the steps of their handshakes, and `forwarder` is
held by a message only, and that by one in `dispatcher`, and that by the handler.

The topics are right by an account of who will correct them. `DepartureIsPublished`
speaks of a settled daemon and says nothing of how it got there. `AwayInv` says the same of
every state: a topic of a tracked device that says home is `Covered`, by a radio that still
backs the station (`Backed`, as in `BelievedIsBacked`), by a callback that is due (about to be
queued, queued, or running and not yet past its publish), or by a configuration whose change
for the device comes. Each step hands the cover on, and there is a lemma for each kind
of cover that says where it may go: `BackedUntil` (a radio stops to back a station by
a disconnect that is handled), `DisconnectCovers` (which is ignored only if the daemon believes
the station at another radio, and then, by `BeliefInv`, that one backs it; or if a callback is
pending), `QueuedUntil` (an entry leaves the map by its own timer, by an older one that takes it
over and publishes the same, or by a cancel, whose caller has a station that is backed:
`ConnectingInv`), `AddingUntil`, and `HomeIsBacked` for the steps that publish home. In a settled
state nothing covers a station that is gone (`SettledIsUncovered`). `AttrsInv` is the same for the
attributes, with a callback that is due until it has published them. `TopicInv`
says that a device without a state or with an old discovery topic has its change still before
it, and `StepInv` and `DiffInv` that the changes are those of the configuration that is processed.
`Trouble` is a failure after which `Run` ends, and it stays (`TroubleStays`): nothing
is promised after one.

The hypothesis `Distinct` says that no configuration lists an address twice. The
theorems need it: at the second entry `onConfigChange` finds the first one's in the map and
makes staNoChange of staAdded (`daemon.go:217-231`), the device is tracked and never announced, and
TLC finds `DepartureIsPublished` and `ConfiguredIsPublished` violated by a configuration of one
device that is listed twice and a topic of an earlier run.

Arrivals are in two halves. What the daemon believes it publishes, with any number of
radios: `HomeInv` says that a station that is held for connected has home in its topic, or a
goroutine is about to publish that (`Arriving`), or a late callback has overwritten it;
`HereInv` is the same for the attributes. They stand because who sets the flag publishes
next (`ConnectedArrives`), who was about to publish has published (`ArrivingUntil`), and
`onConfigChange` says not_home only of a device that is not connected: a new one,
by `NewInv` (`AwayIsSaid`). This gives `BeliefsArePublished` and `BeliefsInAttributes`.

The other half is that the daemon learns of who is there. `PresentInv`: a tracked station at the
radio is held for connected, or its connect waits in the socket (`Waits`), or it is new
and `onConfigChange` has still to list the radio or has found it there (`Awaited`; `UpdateInv`
says that a new device makes it ask). A disconnect that is handled takes the flag from a
station that is there only with a connect behind it (`ReturnsOK`, which holds for
any number of radios). This half needs two hypotheses, and TLC has a counterexample without each:
`OneRadio`, because with two the disconnect of the radio that was listed last takes a
station away that is at the other one (`RoamingArrival`, a finding); `FullListings`, because
a listing that is cut short, or that hostapd does not know, leaves out a station whose connect
came before the device was configured (`client.go:82`, `daemon.go:265-269`).
All other faults are allowed, and any number of stations, timers and configurations.

The theorems about `Messages` hold for texts of every length over its alphabets, and for
addresses of any number of bytes, so of six (`BytesAssumption`: there is one at least). `LinesInv` says that what is left is the end of what was told
(`RestInv`) and that the station is what the lines read so far say of it (`StationInv`); the
last line that has flags decides, because each such line sets `Associated` anew (`SayNext`).

`SsidSurvives` needs to know where the loop stands in a text whose characters are
spelled with one, two or four characters each. `FlattenPlaces` gives
that: in what `FlattenSeq` makes of any sequence of sequences, each one has its place, and the places
follow one another (`AreEnds`; `Offset` is where the characters of an SSID end). The recursion of
`FlattenSeq` is by induction on the number of sequences, written as the
absence of a least counterexample (`LeastNumber`, from the library's theorem on well-founded
relations, which takes no operator). `SsidInv` then says that what is decoded is the
beginning of the SSID, and that what is left of the text is its spelling from that offset on
to where it was cut, or that nothing is left and the text was cut. So the text goes
on with the whole spelling of the next character (`NextChar`), which the loop reads
(`CharIsRead`), or with less than that, and then it was cut (`CutChar`); an error
means a cut, and the end of a text that was not cut comes after the last character
(`SsidInvSays`, by `OffsetsGrow`).

`AddressInv` ties what was decoded to its text; that all forms of an address
are one name then follows from what the codec does to it: an accepted address loses its colons
and is left with its digits, each where it belongs (`ColonsGo`, by counting: there are `Bytes - 1`
colons, `ColonsCount`, and `k - 1` digits before the k-th, `DigitsBefore`), whatever decodes gives as many digits as there are in the
bytes (`DecodedBytes`), and what is printed of them decodes to them (`PrintedDecodes`).

*Not proved, model-checked only.* What needs fairness: `DepartureIsReported`,
`ShutdownCompletes`, `CancelEndsAttach`, `ListingEnds`, `SubscribeConfigReturns`,
`HandlerEnds`, `TroubleEndsRun` and the liveness of `KeepsPromise` (its safety is proved), since
liveness under fairness and ENABLED are out of this prover's reach. Every other property
that a passing run checks is a theorem.

## 5. What is not modelled

* Durations: a timeout or a timer may happen at any time it is possible. So the
  length of the debounce, and `ConnectedFor`, are left out.
* The fields of the attributes but `is_connected`.
* The spelling of topics but for the address, JSON, logging, flags and their checks.
* The vendor table: `Messages` has the lookup over a table of one prefix. Its 1650
  entries are data that nothing depends on.
* A session that the broker keeps for a process that is down (`CleanSession` is
  false): the configuration is retained and is sent again on SUBSCRIBE.
* hostapd that is killed without telling its listeners: nothing in the code would
  notice, and the daemon would go on believing what it heard last.
* The first publishes of a process wait for nothing but their answer; in `Lifecycle`
  a publish is one step that works, fails or comes too late.
* The integration test and the `hostap-ctrl` tool; the fake hostapd of the unit tests is
  used as a source of what hostapd answers.

## 6. Plan

Done: the modules, runs and theorems above. Left, in this order:

1. The radio that the attributes name.
2. A shorter way through the proofs about topics and attributes, which have many cases in common.
