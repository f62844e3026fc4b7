# WiFiManager in TLA+

A specification of the non-blocking core of WiFiManager (`lib/WiFiManager`), an
ESP8266/ESP32 library that joins a station to a Wi-Fi network and, when it
cannot, opens a configuration portal. The modules model the station-profile
controller, the portal session and the save-and-connect machine behind it, the
page that the portal serves, the asynchronous network scan, the blocking
connection at boot, the timers on a clock that wraps, the portal's time-out,
firmware uploads, the application's profile store and the contract of the WiFi
driver. TLC checks them on small instances; TLAPS proves the central safety
results for every value of the constants.

Paths are relative to the repository. `W` is
`lib/WiFiManager/src/WiFiManager.cpp`, `H` is
`lib/WiFiManager/src/WiFiManagerHandlers.cpp`, `I` is
`lib/WiFiManager/include/WiFiManager.h`, `J` is
`lib/WiFiManager/include/templates/PortalAppJS.h`. `PROJECT.json` maps each
definition to its lines.

## 1. The system

| Component | State | Operations | Correct when |
|---|---|---|---|
| Station-profile data (`I`, `W`, `H`) | `WiFiManagerStationProfiles`: slots, preferred slot, last successful slot | validate, choose the first slot, build a set from a form | a valid set always has a slot to start with; a form cannot produce a valid set without a primary |
| Station-profile controller (`W` 207-725) | `_stationProfiles`, the candidate and whose it is, the attempt mask, pending/attempted/active slot, `_stationStatus`, `_stationEverConnected` | load-and-start, candidate, save, clear; `processStationController` | a set is committed only after it connected; memory and store agree; cycles try a slot once and end; a lost connection comes back |
| Application-owned store (`I`) | one profile set that outlives a restart | `load`, `save`, `clear`, each of which may fail | holds what the controller promises of it |
| Portal session (`W` 850-1410) | `configPortalActive`, `webPortalActive`, the server, abort flags, captive detection | start/stop of either portal, shutdown, exit, time-out | the server lives exactly as long as a portal; forbidden exits never end a session; accepted ones do |
| Save-and-connect machine (`W` 1190-1345) | `_cpConnectState`, `_cpConnectSsid`, `_cpConnectStationIp` | queue, delay, begin, wait, hand off, close, fail | a save is answered, and on the network it was for; a hand-off has an address; nothing is left half done |
| `process()` (`W` 1143-1188) | position between its steps | scheduled restart and exit, scan, controller, connect machine, exit check | its steps leave one story although handlers run between them |
| HTTP handlers (`H`) | none of their own | save, exit, close, status, parameters, erase, restart, OTA | they change what `process()` will find, never what it is in the middle of |
| WiFi driver (external) | what it was told to join, the association, its stored configuration | `begin`, `disconnect`, `reconnect`, `status`, `localIP` | assumed, see `Radio` |
| Scan engine (`W` 1659-2001, 3365-3402) | `_scan`: state, generations, a recorded completion, whether the results are valid; the result cache | request, start, poll, event, time-out, reset, read | storage goes with the last portal; the results are those of one scan; a save goes before a scan; polling ends; the list shown is right |
| Boot connection (`W` 718-844, 1421-1642, 3365-3402) | the retry count, the result and the reason the event task recorded, the SDK's credentials | `autoConnect`, `connectWifi`, `waitForConnectResult`, `startConfigPortal` as its fall back, `WiFiEvent`, erase | the retries are kept; a failure is reported as one; the call returns |
| Timers (`W`, all comparisons with `millis()`) | an instant per timer | start, look, fire | due exactly when the time has passed, also when the clock starts over |
| Portal time-out (`W` 1002-1040, `H` 1090-1101, 1429-1445) | `_configPortalStart`, `_configPortalTimeout`, `_webPortalAccessed` | open, renew, look, close, tell the page | not closed early; lives as long as the page was told; ends |
| Portal page (`J`) | the view, the save in flight, the polling's token and timer, the hand-off's attempts, the countdown | navigate, submit, poll, hand off, count down | the user is told what happened to the save; the page leaves for the station only after a success; the form comes back |
| Firmware upload (`H` 922-1030) | the saved time-out, the core's one `Updater`, the scheduled restart | a chunk at a time, the outcome, the disconnection | the time-out comes back; no time-out under an upload; a restart only for a whole image |
| Custom parameters (`lib/WiFiManager/src/WiFiManagerParameter.cpp`, `W` 86-165) | an array of parameters | add, set, save | not modelled, section 8 |
| Templates, logging, static addresses, hardware test tooling | none the program acts on | | not modelled |

**How they interact.** The application calls the public operations and
`process()` from the loop task. The HTTP handlers run in the web server's task:
on ESP32 that task preempts the loop task, on ESP8266 handlers run between two
calls of `process()`. A handler in profile mode calls `startStationCandidate`,
in legacy mode `queuePortalConnect`; both communicate with `process()` through
unprotected fields. The controller and the legacy machine share
`_cpConnectState` and `_cpConnectStationIp`: the controller marks an attempt
of a portal `queued` and reports into the state the browser polls, and
`process()` must keep the legacy machine from acting on that mark.

**What is hard about it.** Handlers between the judgement of a link and the
action on it; two machines that share one report; a store that refuses a write
after the link is up; calls that replace the set in the middle of an attempt; a
link that is lost with its slot gone from the set; portals that overlap; exits,
time-outs and shutdowns that meet a save in flight; a restart anywhere; session
state that survives its session; a driver that changes its mind while a wait
for it ends; a counter of milliseconds that starts over; a browser whose
requests fail on either side of the answer, while its user moves between views;
uploads that share one `Updater` and one saved time-out, and stop without a
word. `PROJECT.json` lists each with its line and
the properties that speak about it.

## 2. The modules

| Module | Extends | What it models |
|---|---|---|
| `Networks` | - | credentials as values, which of them an access point accepts |
| `Radio` | `Networks` | the driver's contract, external to the repository |
| `StationProfiles` | `Networks` | profile sets, validity, choice, the set a form asks for |
| `Portal` | `Radio` | the portal session, the save-and-connect machine, the steps of `process()` that serve them |
| `StationController` | `StationProfiles`, `Portal` | the controller composed with the portal, the radio and the store |
| `LegacyPortal` | `Portal` | the portal composed with the radio, for an application without profiles |
| `SaveReport` | `Networks` | abstract: what the legacy portal reports of a save |
| `OfferedStore` | `StationProfiles` | abstract: what the controller promises about the store, wherever handlers run |
| `VerifiedStore` | `OfferedStore` | abstract: what it promises where handlers do not interrupt it |
| `Scan` | - | the scan engine, the driver and the event task, portals and saves as far as a scan depends on them |
| `ScanStatus` | `Scan` | the list of networks that the portal shows from the cache, and a reference for it |
| `PortalPage` | `LegacyPortal` | the portal's page in a browser composed with the device that serves it |
| `BootConnect` | - | `autoConnect` with its retries, the driver, the event task, the fall back to the portal |
| `Millis` | - | the clock: unsigned sums and differences modulo `Wrap` |
| `Timers` | `Millis` | the three ways in which the code compares instants |
| `PortalTimeout` | `Millis` | the portal's time-out, what renews it, what the page is told |
| `PortalCountdown` | `PortalTimeout` | the page's countdown composed with the time-out |
| `Ota` | - | firmware uploads that interleave, fail and stop |
| `MC...`, one per configuration's module | | values for TLC |
| `StationControllerProofs` | `StationController`, `TLAPS` | types, store and memory, the cycle, ownership |
| `StationRefinementProofs` | `StationControllerProofs` | the verified candidate, the implementation of `OfferedStore` and of `VerifiedStore` |
| `ScanProofs` | `ScanStatus`, `TLAPS` | types, released storage, whose results the cache holds, saves before scans, the list |
| `PortalProofs` | `PortalPage`, `TLAPS` | types, the server's life, the end of a save, the implementation of `SaveReport` and the hand-off's address, the page |
| `BootConnectProofs` | `BootConnect`, `TLAPS` | types, retries, what is reported |
| `TimersProofs` | `Timers`, `TLAPS` | exactness of the comparisons for every width of the clock |
| `PortalTimeoutProofs` | `PortalTimeout`, `TLAPS` | the portal is not cut short |
| `OtaProofs` | `Ota`, `TLAPS` | types, the saved time-out, the restart |

### Steps of `process()`

`pc` is where the loop task is in `process()`:

    loop -> station -> connect -> (read) .. (write) -> exit -> loop
                |-> joined  -|
                |-> expired -|

`BeginProcess` is the scheduled exit, the steps from `station` are
`processStationController`, those from `connect` are `processPortalConnect`
(or its omission, `ConnectOwned`), those from `exit` the check that closes the
portal. A handler may come between what `process()` reads and what it does about
it, so these are steps of their own. In `processStationController` they are the
judgement of an attempt (`hasUsableStationConnection()`, or the time-out) and the
action on it, with the positions `joined` and `expired` in between; its other
cases are one step each. `processPortalConnect` reads its state, the clock and the
status in one step of `ConnectDecides`, and what it then writes is another of
`ConnectReacts`:

| Position | What is still to be written | Source |
|---|---|---|
| `kept` | success of a save without an SSID | `W` 1257-1264 |
| `delay`, `start` | the next phase | `W` 1265-1275 |
| `begin` | nothing yet: `setSTAConfig`, `wifiConnectNew` with the SSID that is there by now | `W` 1276-1302, 1497-1511 |
| `begun`, `configured` | `waiting`; success of a save that is not to connect | `W` 1303-1307, 1286-1297 |
| `refused` | `failPortalConnect` | `W` 1231-1247 |
| `online`, `addressed` | the address; then the hand-off or the success | `W` 1312-1317, 1318-1323 |
| `finalize` | the success after the hand-off | `W` 1336-1341 |
| `shutdown` | the end of the portal, after the outcome was written | `W` 1227-1229, 1243-1245 |

A save that `queuePortalConnect` writes at one of these positions (`Reacting`) is
overwritten by the step that follows, as in the code; the history `overtaking`
says that this happened to the last one. Handlers themselves are one step. With
`Preemptive = TRUE` they run at any position (ESP32), with `FALSE` only at `loop`
(ESP8266). Application calls come at `loop` always: they are the loop task's own.

The radio acts at `loop`: `process()` reads the status once for a decision (the
text of the address that it reads afterwards is never empty, `W` 1314), and an
association that changes in the middle of a call is taken to change at its end.

### State

| TLA+ | Code |
|---|---|
| `store`, `attached` | what the `WiFiManagerStationProfileStore` holds (`EmptySet`: `load()` returns false), whether there is one |
| `profiles`, `loaded` | `_stationProfiles`, `_stationProfilesLoaded` |
| `candidate`, `fromPortal` | `_stationCandidate` with `_stationCandidateActive`, `_stationCandidateFromPortal` |
| `mask`, `pending` | `_stationAttemptMask` as a set of slots, `_stationPendingSlot` |
| `state`, `attempted`, `active`, `saveFailed` | the fields of `_stationStatus` |
| `everConnected` | `_stationEverConnected` |
| `configActive`, `webActive`, `server` | `configPortalActive`, `webPortalActive`, whether the server object exists |
| `abort`, `abortScheduled`, `captive` | the abort flag, the scheduled exit, `_enableCaptivePortal` |
| `cp`, `cpSsid`, `stationIp` | `_cpConnectState`, the pending credentials, whether `_cpConnectStationIp` is non-empty |
| `opt` | the options the application chose before it started, `OptionType` |
| `target`, `link`, `config` | the driver: what it is trying, what it is on, what it remembers |
| `calls` | application calls, requests, link losses and restarts so far: a bound of the model |

Data is abstract: an SSID with its password is one value; a slot is a network,
`Disabled`, or `Unterminated` (a buffer without its NUL, which
`validateStationProfiles` rejects). Texts, JSON and logging are left out.

Clocks are abstract: a step that compares a timer with `millis()` may find it
due or not due. This covers every duration, the acknowledgement of a hand-off
(`/api/wifi/connect-complete` only moves the time at which the portal closes)
and every choice of time-outs; it says nothing about the comparisons
themselves, which `Timers` and `PortalTimeout` are about. A time-out of 0 means "never" and is an
option (`connectTimeout`, `portalTimeout`).

### The driver's contract

`Radio` is not a translation; it is what `W` relies on: `WiFi.begin` ends an
earlier association and is the only thing that changes the target afterwards;
`WL_CONNECTED` and a non-zero address come together; `WiFi.disconnect` keeps
the configuration, `WiFi.reconnect` resumes it; an association may be lost at
any time, and the driver may keep trying or forget. Erasing the configuration
clears it on ESP32 and only its copy in the flash on ESP8266, hence the choice
in `WiFiErase`. If the driver reported a link of an earlier network after
`WiFi.begin` returned, the controller would take it for the success of the new
attempt; the proofs below depend on this clause.

### The scan engine

`Scan` stands beside the other modules instead of on top of them: of the portal
it needs only which one is up, that a portal opens and closes in two steps, and
whether a save or an exit is due, and it lets those change at any moment the
code can change them. It is checked once for both platforms (`esp32`).

| TLA+ | Code |
|---|---|
| `state`, `valid`, `pending`, `force` | `_scan.state`, `.resultsValid`, `.schedulePending`, `.forceRefresh` |
| `gen`, `running`, `completion` | `_scan.generation`, `.runningGeneration`, the recorded completion with its generation, or `None` |
| `cache`, `held` | the `_numNetworks` entries of `_scanResultsCache`, whether it is allocated |
| `finished`, `handOff` | `_scan.finishedAt > 0`; less than `minRestartIntervalMs` has passed since the last scan ended |
| `blocked`, `connect`, `exiting` | `_scanLifecycleBlocked`; a save at the portal, `queued` or `working` for the portal's machine, or the `candidate` of the station controller, for which the handler has called `WiFi.begin` already (`isConfigPortalConnectPending`); a scheduled exit or restart |
| `radio`, `found` | the driver's scan and the results it holds |
| `notice`, `event` | ESP32: the SCAN_DONE event, the count the event task has read and not stored |

The callback is one step on ESP8266. On ESP32 it has two: `EventReads` passes
the guard of `WiFi_scanComplete` and reads the driver's count, `EventStores`
writes the completion. With `Preemptive = FALSE` nothing comes between them
except another event; with `TRUE` the loop task may. `WiFi.scanComplete()` is
negative for a scan that failed or still runs, and `WiFi_scanComplete` takes an
unsigned count: `Wrapped` stands for those values (65535 and 65534 in the code).
The driver may end a scan late or never, join a second start to the first, fail
to start, and on ESP32 fail to scan.

### The page

`PortalPage` adds a browser to `LegacyPortal`: its `PageInit` is a device that
serves the page, its steps are the device's and the page's. A fetch is sent,
answered by the device from its state at that moment, and taken up by the page
later or never; it may fail before or after the answer.

| TLA+ | Code |
|---|---|
| `at`, `view`, `loads` | whether the page has left for the station's address; the view in `#app`; the fetches of `viewWifi` and `viewInfo` under way, of which an early one may render over a later view |
| `saving` | `_wmWifiSaveInFlight` |
| `post` | the fetch of `POST /api/wifi/save` |
| `runs`, `current`, `flight`, `timer` | how often polling was started; the run that has `_wmWifiConnectPollToken`; each run's fetch; `_wmWifiConnectPollTimer` |
| `ack`, `attempt` | the fetch of `POST /api/wifi/connect-complete`, `completeWifiHandoff`'s attempt |
| `told` | the outcome the user was told last |

`outcome` and `abandoned` are history: what became on the device of the save the
page waits for, and whether a view was rendered while its outcome was polled for. Another client's
save in between makes the outcome `other`, since the device has one save.

### The connection at boot

`BootConnect` follows one `autoConnect` after the other, of an ESP32 build.
`pc` is `check` (the credentials), `connect` (the head of the loop of
`connectWifi`), `wait` (`waitForConnectResult`), `fallback` (the portal is to be
started), `disconnect` (the station was not connected, and the portal is about to
switch it off, `W` 1086-1094), `open` (the portal opens), `save` (a save through
the portal), `app` (the application). The driver may act between any two of them.

| TLA+ | Code |
|---|---|
| `retry`, `connRes` | the locals of `connectWifi` |
| `last`, `reason` | `_lastconxresult`, `_lastconxresulttmp` |
| `hasBegun`, `registered` | `_hasBegun`, whether `WiFiEvent` is registered |
| `saved`, `trying`, `status` | the driver: stored credentials, whether it works on some, `WiFi.status()` |
| `portal`, `ap` | `configPortalActive`, whether the soft AP is up |
| `opt` | what the application set before |

`begins` and `rejected` are history. The driver joins and disconnects between
any two steps; a disconnection reports its reason to `WiFiEvent`, which writes
`reason` in the event task. A wait is over, or not: the time-outs are in
`Timers`. `_aggresiveReconn` is false, as nothing can set it.

### Time

In `Millis` an instant is a number below `Wrap` (2^32 on the device), sums and
differences are the machine's. `Timers` has one timer of each kind the code has:

| Kind | Comparison | Uses |
|---|---|---|
| `Spans` | `now - start >= length` | an attempt, the backoff, a save, a scan, the pause between scans |
| `Delays` | `(long)(now - deadline) >= 0` | the switch to the next profile |
| `Deadlines` | `now >= deadline` | restart, exit, the delay before a save's attempt, the end of a hand-off |

`process()` reads the clock (`Look`) and then acts on what it finds due
(`Fires`), because it passes one `now` along. `age` is the time that has really
passed, which the code does not have. With `Preemptive` a handler may start a
timer in between, whose start then lies after the clock value it is compared
with.

`PortalTimeout` is `configPortalHasTimeout` with what renews it (an opening, a
reset from the page, a client of the access point, a request, as the options
say), and the remaining seconds the page is told. `idle` and `promised` are
history. `PortalCountdown` adds the page's intervals: `running` are those that
nobody has cleared, `handle` is the one that `_wmPortalTimeoutTimer` can clear.

### Uploads

`Ota` has several requests that upload to one `Updater`. `upload[u]` is how far
request `u` is, `updating` and `hasError` the `Updater`'s, `timeoutSaved` and
`SAV` the static variables of `handleUpdating`, `reboot` `_rebootScheduled`.
`Begin` and `BeginFails` are a first chunk, `Chunk`, `ChunkFails` and `Final` the
following, `Done` is `handleUpdateDone`, `Disconnected` the callback that
schedules the restart, `Aborted` a connection that breaks, after which no
handler is called. The `Updater` belongs to the core: its operations are
external. `bytes`, `complete`, `setting`, `disturbed`, `crowded` are history.

### The abstract specifications

`OfferedStore` has a stored set and a proposal, and six things that may happen:
a proposal is made, is given up without an effect, is committed (whole, with
one of its slots as the last successful one, and it is the proposal no longer),
the slot that connected is remembered in the stored set and nothing else of it
changes, a valid set is written deliberately, the store is cleared.
`VerifiedStore` adds the link: a commit is of the slot on whose network the
station is, and only a station that is on a network remembers anything.
`StationController` implements both with `stored <- store` and
`proposal <- candidate`: `OfferedStore` under either scheduling of the handlers
(`OnlyOffered`), `VerifiedStore` without preemption (`CandidateVerified`). This
includes refused writes and restarts: neither can leave the store with something
else. The link is the environment's, so the specifications' subscript is the
store and the proposal.

`SaveReport` is what a client of the legacy portal sees by polling
`connect-status`: its save is pending until it settles, once; it settles as
joined only while the station has an address on the very network that was
submitted last, as kept if there is nothing to connect to, as failed only if
it had a network; and what has settled stays so until the next save, or until
its session is forgotten. `LegacyPortal` implements it with
`report` the status its phases map to (`SaveReported`), step by step but for the
steps under `overtaking`; where handlers run in the loop task there are none.

## 3. The runs

`MCStation` has two slots, as `WM_STATION_PROFILE_COUNT` is 2, and three
networks, one of them out of range. The sets at power-on are: nothing, a
primary alone, a pair whose primary is out of range and that last used its
fallback, and an invalid set. Proposals are a primary alone, a pair that
succeeds only with its fallback, and an invalid set. Forms replace the primary
or switch the fallback off. Two slots and one network out of range are enough
for every path of a cycle: success at first, success with the fallback,
failure of all, a slot that vanishes. `MaxCalls` bounds the calls, requests,
losses and restarts together; each property needs at most two or three of them
to be violated by a mutant, and no bound is put on the steps of `process()` and
of the radio, which loop.

| Run | Shows |
|---|---|
| `station` | without preemption, with a store or not, with portals, refused writes, losses and restarts (3 of these events, all initial sets): `StoreMatchesMemory`; `OneTryPerSlot`; `OwnedAttemptUntouched`; `CandidatePursued`; the implementation of `VerifiedStore` |
| `station_live` | with preemption: the implementation of `OfferedStore`; and under fairness `CycleEnds`, `PortalAttemptDecided`, `RecoversFromLoss` |
| `legacy_portal` | with preemption at every position of the table in section 2, over six option records that each matter to a branch: `HandoffHasAddress`; `ServerIffPortal`; `NoSaveLeftBehind`; the implementation of `SaveReport`; and under fairness `SaveAnswered`, `HandoffCloses`, `ExitHonoured` |
| `scan` | both platforms, without preemption of the event task, four calls or requests: `StorageReleased`; `ResultsAreReal`; `SaveGoesFirst`; `ListIsRight`; and under fairness `ScanAnswered` |
| `portal_page` | a page and its device, two requests or calls and one navigation or reload, every fetch failing on either side: `ToldTheOutcome`, `LeavesOnSuccess`, `LockedOnlyIfAbandoned`; under fairness `SaveSettles` |
| `boot` | five configurations, up to three retries, four calls: `RetriesKept`, `FailureReported`; under fairness `AutoConnectReturns` |
| `timers` | one timer of each kind, started at every instant of a clock: `DueExactly`, `NotFiredEarly`; under fairness `TimersFire` |
| `portal_timeout` | a portal at every instant of a clock, with and without a limit: `NotCutShort`, `OutlivesReport`; under fairness `PortalEnds` |
| `ota` | two uploads: `LimitKept`, `UploadNotTimedOut`, `RestartAfterUpdate` |
| `station_preempted`, `station_report`, `countdown` | one disagreement each between the code and what the repository says of it, section 5 |

The option record the runs start from is the library's defaults with both
time-outs switched on (they are 0, "never", by default); the untimed
configuration is one of the legacy run's. `MCStation` uses smaller sets for the
fair and the violation runs so that behaviours can be longer. `station_live`
and the controller's violation runs need no option but the timed defaults.

The behaviours with preemption include those without it, so `station_live` shows
its properties for both schedulings; the invariants of `station` that do not need
a quiet `process()` are proved for both (section 6). So is `TypeOK`, which is in no
run of its own: a value outside its type shows in `OneTryPerSlot` and in the
refinements.

`MCScan` lets a scan find nothing, two networks, or three entries in which a
name occurs twice at different strengths and another is hidden: what the list
leaves out, merges and sorts. Minimums are none, the lowest, and one that a
signal just has; whether such a network belongs to the list is left open, section 5. `Wrapped` is 4, one more than the longest finding,
so a wrapped count is told from every real one. Four calls are enough to open a
portal, request a scan, queue a save or close, and request again; the steps of
`process()`, the driver and the event task are not bounded.

`MCPortalPage` runs without preemption: the page's requests are answered between
two calls of `process()`, and its own races are between fetches. Two counted
requests are a save and another client's save or call; one navigation or reload
is enough to render a view over a save and to leave a stale run of the polling
behind. There is no bound on polls, failures of fetches and the device's steps.

`MCBootConnect` has the defaults and each setting that matters to a branch away
from its default; three retries let a count be one too few or one too many, four
calls an `autoConnect`, a save through its portal, an erasure and another
`autoConnect`. The run may end when the calls are used up and the driver is at
rest, so deadlock is not checked.

`MCTimers` has a clock of three bits, so every distance between a start and a
comparison, across the clock's start over and across the sign of a difference,
occurs; the width matters to nothing in the code, and `TimersProofs` shows the
safety for every width. Two starts are a timer that is started again. It runs
with handlers between two calls of `process()`; with handlers in a task of their
own a span that starts after the clock was read fires at once, which is the
hazard at `W` 482. `MCPortalTimeout` has the same clock, seconds of two
milliseconds and four calls. `MCPortalCountdown` has 16 instants, so that a
reset finds a countdown half way.

`MCOta` has two uploads, which are interchangeable (`SYMMETRY`), three limits, so
that a limit that is lost differs from the one that is set later, and five calls.
A device whose portal is closed and whose calls are used up does nothing, so
deadlock is not checked.

Every property has a mutant in `PROJECT.json`: a plausible slip in one
definition (a slot not marked as tried, a refused write taken for a success, a
server freed too early, ...) that breaks it.

### The properties

- `StoreMatchesMemory`: once loaded, the controller's set and the stored one
  agree in the slots and the preferred slot. They may differ in the last
  successful slot, because `handleStationConnectionSuccess` changes memory
  before a write that may fail.
- `OneTryPerSlot`: the slot being attempted is marked, the slot waiting for its
  turn is not; so no slot is tried twice in a cycle. It fails if any of the
  ways to restart a cycle forgets one of mask, pending and attempted.
- `OwnedAttemptUntouched`: while the controller owns a portal's attempt, the
  legacy machine has not moved. Only without preemption: a candidate that is
  submitted between the machine's read and its write is overwritten in the report.
- `CandidatePursued`: the strengthening below, which says that link, driver and
  controller agree on what is being tried. Only without preemption.
- `CandidateVerified`: the implementation of `VerifiedStore`. Only without
  preemption: `station_preempted` shows what preemption does to it.
- `OnlyOffered`: the implementation of `OfferedStore`, which is what is left of
  that promise with preemption: no mixture of two sets, no set that is invalid or
  that nobody offered, no slot that is not in it, no write of a candidate that
  stays a candidate.
- `CycleEnds`, `PortalAttemptDecided`, `RecoversFromLoss`: cycles end, the
  browser gets its answer, a lost connection comes back.
- `ServerIffPortal`, `NoSaveLeftBehind`, `SaveAnswered`, `HandoffCloses`,
  `ExitHonoured`: the session.
- `HandoffHasAddress`: a portal kept up for the browser has an address to hand
  over, unless a save came between the address and the state (`overtaking`).
- `SaveReported`: the implementation of `SaveReport`. It is violated by any step
  that lets a save settle on another network than the last one submitted, keeps
  an address of an earlier save, or settles one twice. Excepted is a save that came
  between the read and the write of one reaction to the save before, and nothing
  else that handlers do in the midst of `process()`.
- `StorageReleased`: no portal, no storage for results; it is violated by any
  way for a completion to outlive the portal it was for.
- `ResultsAreReal`: the count and the results are taken at different times, by the
  event task or by polling; what ends up in the cache is all that one scan has
  found, in its order. A count that wrapped pads it with entries without a name,
  and that case is named (`PaddedList`).
- `SaveGoesFirst`: no scan is started while a save is pending, by the portal's
  machine or by the station controller, and the engine has none running when the
  former is about to call `WiFi.begin`.
- `ScanAnswered`: the browser's polling ends whatever the driver does.
- `ListIsRight`: from every cache the engine can reach, in any order and for
  any minimum quality, the list has the presentable networks, each name once at
  its strongest, strongest first. `IsListOf` says this without the algorithm, and
  with a definition of its own of what is worth showing (`WorthShowing`), which
  allows either reading of a network exactly at the minimum.
- `ToldTheOutcome`, `LeavesOnSuccess`: no answer about an earlier save, and none
  that a later view or run has made stale, is passed for the outcome of the
  page's save. They relate what the page says to what the device did.
- `LockedOnlyIfAbandoned`: a locked form waits for a fetch or a timer that is under
  way; else the hand-off was given up and the user has been told of the success,
  or a view was rendered over the polling (`abandoned`). A view over the save's own
  fetch is no excuse.
- `SaveSettles`: the save ends for the user, but for such a view, and for a save
  that the device forgot.
- `RetriesKept`: exactly as many attempts as `setConnectRetries` says before the
  fall back.
- `FailureReported`: a connection that failed is reported as a failure, and as a
  wrong password only if an access point has rejected one.
- `DueExactly`, `NotFiredEarly`: a comparison agrees with the time that has
  really passed, at every instant at which the timer may have been started, in
  the range in which the comparison can tell (`InReach`). What a deadline's
  wrapped sum does is excepted by name.
- `NotCutShort`, `OutlivesReport`: the portal lives for its limit since the last
  renewal, and for as long as a page was told, up to the rounding to seconds;
  until the clock starts over.
- `LimitKept`, `UploadNotTimedOut`, `RestartAfterUpdate`: in any order of chunks of
  several uploads. Their exceptions are history variables: a limit that the
  application sets during an upload (`disturbed`), and uploads that meet
  (`crowded`), for which section 5 says what happens instead.

## 4. Fairness

`Process`, the disjunction of the loop task's steps, is weakly fair: the
application is documented to call `process()` in its loop, and no step of it
blocks. A step that finds a timer due is strongly fair (`JudgeExpired`,
`SwitchProfile`, `SwitchRefused`, `SwitchLost`, `BackoffEnds`; `ExitFallsDue`,
`DelayEnds`, `AttemptTimesOut`, `HandoffEnds`): a timer is polled again and
again and does not move away for ever. `AttemptTimesOut` is fair only if the
option gives the attempt a time-out. `AttemptAssociates` is strongly fair: a
network in range that is tried over and over joins before the time-out at least
once. `RecoversFromLoss` needs it and is worth exactly as much as that
assumption; the other properties do not depend on it. Requests, calls, losses
and restarts have no fairness.

In `Scan`, `process()` is weakly fair, calls that have begun return
(`SetupConfigPortal`, `EndClose`, `EventStores`), and the pause between two
scans passes. Weak fairness is enough: every step of `process()` at a queued
scan whose pause is over starts or cancels it, and every step at a running one
ends it, at the latest by the time-out. Nothing is assumed of the driver. A
step at a running scan that finds nothing to do changes no state, so that the
time-out is not due for a while is the stuttering before it.

In `PortalPage` a fetch ends, with an answer or a failure, and the page's timers
fire; no fetch need succeed and the user need do nothing. The device has
`LegacyPortal`'s fairness.

In `BootConnect` the loop task goes on (`AutoConnectGoesOn`, weakly fair), and a
wait ends (`WaitOver`, strongly fair, because polls change the result in
between): by the time-out that is set, or by the SDK's own of a minute. Nothing
is assumed of the driver.

In `Timers` time passes (`Tick` is strongly fair: looking, in which it stands
still on ESP8266, does not keep it from passing), a look ends (`Looked`), and
each timer is acted on if it is found due again and again, with a look at an
instant at which it is due. The last is an assumption about how often
`process()` is called: a deadline that lies just before the clock starts over
is due for a moment only. In `PortalTimeout` time passes, `process()` asks, and
strong fairness of `TimesOut` says the same of the portal's deadline; where no
instant comes after the deadline, `PortalEnds` demands nothing (`Unreachable`).

Properties quantified over `k` speak of the stretch in which `calls` stays `k`:
no call, request or loss intervenes, since any of them may rightly restart what
was going on.

`PortalAttemptDecided` has an escape: `startStationCandidate` with an invalid
set puts an active controller to `IDLE` and leaves the candidate in place
(`W` 372), so the application can stop an attempt without deciding it.
`SaveAnswered` needs `connectTimeout`, because without one only the driver's
verdict ends a save. `HandoffCloses` is about sessions without a web portal:
`shutdownConfigPortal` gives up while one runs (`W` 1365), so both portals stay
up after the hand-off of such a session.

## 5. Where the code and its documentation differ

Each of these is a run whose property states the quoted sentence and that TLC
violates; `PROJECT.json` has the quotes.

- `station_preempted`: the link is judged before the candidate is read. On
  ESP32 a save handler between the two exchanges the candidate, and one whose
  network was never joined is committed.
- `station_report`: `startStationConnection` while a portal's attempt is queued
  gives the attempt up, begins the stored set's cycle (or enters the portal state,
  if there is no usable set) and leaves the report queued. The legacy machine takes
  it for a save without an SSID and reports a success before the station has an
  address.
- `countdown`: a reset of the time-out starts a new countdown on the page and
  does not stop the one before. When that one ends it clears the new one through
  the shared variable, and the page stands at 0:00 while the portal is up.

Met while modelling and not run:

- `saveStationProfiles` during an attempt may disable the slot being attempted,
  which success then records as last successful (`W` 429, 581). The stored set no
  longer validates, and the next start opens the portal although the store has a
  usable primary (`docs/STATION_PROFILES.md` 100).
- Without a store the controller runs only while a candidate is active. When a
  second candidate fails, the cycle over the set in RAM starts with the candidate
  gone, and its attempt is never judged (`W` 663).
- Captive-portal detection disabled for one session stays disabled (`H` 663,
  `docs/PORTAL_API.md` 35), and a new session reports the station's address of
  the last one (`W` 1101, `docs/PORTAL_API.md` 77).
- The pause that ESP32 needs between two scans is measured from the end of the
  last one, and resetting the engine forgets that end but not that there was a
  scan (`W` 1945). A save without an SSID right after a scan is enough for the
  next scan to start within the pause.
- On ESP32 a completion that was read before the portal closed and is stored
  after it fills the cache again (`W` 1665, 1754). It takes an event task that is
  preempted between the two.
- A SCAN_DONE of an earlier scan that is handled after the next one has started
  completes that one: the generation is read when the completion is recorded
  (`W` 1665). The count is then negative, wraps to 65534 or 65535, and the list is
  filled up with entries without a name, which the portal does not show.
- `scanDelete()` forgets results and does not stop the driver: a scan that it has
  under way goes on beside the `WiFi.begin` of a save, in both modes. `SaveGoesFirst`
  is about scans that would start.
- A refresh forced while a scan runs is absorbed by it; a scan that the
  application requests without a portal is dropped.
- A network exactly at the minimum quality is hidden (`H` 241), although `I` 543 calls
  the setting the "min quality percentage to include in scan".
- On ESP32 a save that the web server's task queues while `process()` reacts to the
  one before, between what it has read and what it writes, is overwritten: it stays
  unanswered under the phase or the outcome of the other (`W` 1255-1341). It may be
  reported joined on the network of the other save, or `success_waiting_close` be
  written with the address that the new save has just cleared (`W` 1210, 1314, 1320).
- A station that joins between the check at `W` 1086 and the disconnection at 1090 is
  switched off although it is connected.
- `docs/API_REFERENCE.md` 11 says of `autoConnect` that it returns true if it connected
  and "otherwise starts the enabled portal fallback". It returns without one if the
  station mode does not come up (`W` 757, 785), if the AP password is refused (1083),
  and with one that nobody can join if the soft AP does not start (1112).
- An exit that was scheduled in one session closes the next one if that was opened
  before it is due (`W` 1156).
- After a refused portal candidate the controller stays in the portal state: a device
  that was connected before stays offline until the next call or request (`W` 638).
- A slot that is switched off while the controller waits to switch to it is refused
  (`W` 472-476), and the wait goes on with the instant 0 as its mark (684): that is
  not due during half of the clock's range.
- The reason that `WiFiEvent` recorded last (`_lastconxresulttmp`, `W` 24, 1596) is
  never cleared: a later failure that has none of its own is reported with it.
  This is why `FailureReported` speaks of a rejection since boot.
- A deadline whose sum wraps is in the past at once: a restart, an exit or a
  portal time-out near the clock's start over comes early. A portal whose
  deadline is the clock's last value never times out by it.
- An aborted upload calls no handler. The portal's time-out stays 0 until the
  next upload ends or the application sets one, and the `Updater` goes on
  waiting: the begin of the next upload is refused without an error, its chunks
  go into the image that is there, and `handleUpdateDone`, which asks for an
  error only, schedules a restart. A limit that is set during an upload is lost.
- `setView` stops the polling of a save and leaves `_wmWifiSaveInFlight` set: after
  a navigation the form stays locked until a reload. A save that the device
  forgot is polled for ever, as `idle` is asked again.

## 6. What is proved

`StationControllerProofs`, for every set of networks, every slot count from 1
to 8, all sets, proposals, forms and options, any number of calls, with or
without preemption where nothing else is said:

| Theorem | States |
|---|---|
| `FormNeedsPrimary` | a form yields a valid set only if it leaves a primary |
| `TypeCorrect` | `Spec => []TypeOK` |
| `MemoryFollowsStore` | `Spec => []StoreMatchesMemory` |
| `EachSlotOnce` | `Spec => []OneTryPerSlot` |
| `PortalLeavesAttempt` | `Spec => []OwnedAttemptUntouched`, for `Preemptive = FALSE` |

`StationRefinementProofs`, for the same constants:

| Theorem | States |
|---|---|
| `CandidateIsTracked` | `Spec => []CandidateTracked` |
| `StoreIsOffered` | `Spec => OnlyOffered`, i.e. `StationController` implements `OfferedStore` |
| `CandidateIsPursued` | `Spec => []CandidatePursued`, for `Preemptive = FALSE` |
| `StoreIsVerified` | `Spec => CandidateVerified`, i.e. `StationController` implements `VerifiedStore`, for `Preemptive = FALSE` |

**Assumptions.** `NetworkAssumption`, `ProfileAssumption`, `PortalAssumption`
and `ControllerAssumption`: the values are of their kinds and the markers
(`None`, `Disabled`, ...) are not networks. The slot count is at most 8 because
`_stationAttemptMask` is a byte. TLC evaluates them in each run.

**Argument.** Types are preserved by each action; the lemmas about profile sets
(`ChooseIsEnabled`, `ValidSetStarts`, `BuildType`, ...) say that what a cycle
starts with is a slot of the set. `StoreMatchesMemory` and `OneTryPerSlot` are
inductive given the types. `OwnedAttemptUntouched` needs to know in addition that
the connect machine, in the midst of a case, has no attempt of the controller
before it: it is only reached with `fromPortal` false, and without preemption that
stays so until the case is over (`AttemptOwned`).

That the store is verified is not inductive by itself: at `Promote` the
controller commits `candidate` at slot `attempted` and knows only that the
link was usable at the judgement. `CandidatePursued` is what makes it so, in
six parts. All but the fourth are preserved by every action under either
scheduling; together they are `CandidateTracked`:

1. `LinkIsConfigured`: a link is with the driver's target, and the target is
   what `WiFi.begin` was last called with.
2. `NoLegacyAttempt`: with a store attached the legacy machine never starts a
   connection, so that call was the controller's. This needs the fact that a
   request in profile mode never queues a save.
3. `JudgedIsAttempting`: from the judgement to the action on it, the state is
   ATTEMPTING. A handler in between may start another attempt, never leave none.
4. `LinkStands`: in between the link is still usable. This is the part that a
   handler breaks, by starting another attempt.
5. `SetIsLoaded`: a running controller has loaded the store's set.
6. `AttemptIsConfigured`: during an attempt of a candidate, the attempted slot is
   enabled in it, and the driver was called with its network.

`StepRefines` says what each action is to the store and the proposal: a step of
`OfferedStore` that connects nothing, a stutter, or `Promote` as a commit of the
attempted slot, or `RecordSuccess` as a remembered one. For these two the third
and the last part give that the slot is one of the candidate's
(`PromoteCommits`), and the fifth with `StoreMatchesMemory` that writing the set
in memory changes the stored set in its last slot only (`AgreeOnLast`,
`SuccessRemembers`). That is `StoreIsOffered`. With `LinkStands` the first and
the last part give `link = candidate.slot[attempted]` (`CommitsOnline`), which is
all that `VerifiedStore` asks for in addition.

`ScanProofs`, for every set of findings and every wrapped count, on both
platforms:

| Theorem | States |
|---|---|
| `ScanTypeCorrect` | `Spec => []ScanTypeOK` |
| `StorageIsReleased` | `Spec => []StorageReleased`, for `Preemptive = FALSE` |
| `ScanInvariant` | `Spec => []ScanInv`, for `Preemptive = FALSE` |
| `ResultsAreOfOneScan` | `Spec => []ResultsAreReal`, for `Preemptive = FALSE` |
| `SavesGoBeforeScans` | `Spec => SaveGoesFirst`, for `Preemptive = FALSE` |
| `VisibleIsRight` | for every list of entries and every minimum, `collectVisibleScanResults` (`Visible`) yields what `IsListOf` asks for |
| `ListIsAlwaysRight` | `Spec => []ListIsRight` |

`ScanInv` is the types and six facts. `CompletionOfRunningScan`: a completion that
waits is recorded under the generation of a scan that runs, so the guard in
`processScan` lets it pass; it does not say that the driver meant this scan.
`ScanOwned`: a count that the event task holds is of a running scan, a running scan
has a portal, a portal that opens is up already, and one that closes has released
its storage and stopped its scan. Without it `StorageReleased` is not inductive: a
completion in a state without a portal would fill the cache. `CountsHaveResults`: a
count that is not a wrapped one, held by the event task or recorded, is the number
of results the driver holds, and these stay until it is fetched. With it the step
that finishes a scan copies a whole finding (`CollectedWhole`), or pads one
(`CollectedPadded`), which is `ResultsAreReal`. `TakenUpAlone`: while the portal's
machine works on a save no scan runs in the engine; the step that takes a save up
stops it, and `canRunAsyncScan` lets none start before the save is over.

`VisibleIsRight` is about lists of any length, so it is by induction over their
loops. The loops are recursive functions of how far they have come. The
library's induction theorems take an operator as a parameter and cannot be
instantiated here; `NatSetInduction` states induction with a set instead, and
follows from the fact that the subsets of a finite set are well-founded:
of the intervals `1 .. n` for which the claim fails there would be a least.
`CountTo` is its form for loops, `StepsExist` that a recursive function of this
kind exists, and one lemma per loop unfolds it (`ShownUpToSteps`,
`SettledUpToSteps`, `OrderedUpToSteps`, `KeptUpToSteps`). What each loop
maintains is then a lemma of its own: the filter picks the presentable entries
in order (`ShownPicks`); every exchange rearranges, and one run of the inner loop
leaves the strongest of the rest at its position without disturbing what was
settled before (`ExchangeRearranges`, `SettleSettles`), so the outer loop sorts
(`StrongestFirstSorts`); in a sorted list the first of a name is its strongest
(`FirstOfEachNameLeads`, `FirstsShowBest`).

`PortalProofs`, for every set of networks and options, with or without
preemption:

| Theorem | States |
|---|---|
| `PortalInvariant`, `PortalTypeCorrect` | the inductive invariant `PortalInv`, types and the server's life; types |
| `ServerLivesWithPortal` | `Spec => []ServerIffPortal` |
| `SaveEndsWithPortal` | `Spec => NoSaveLeftBehind` |
| `SaveInvariant` | the inductive invariant `ReportInv` of a save |
| `HandoffKeepsAddress` | `Spec => []HandoffHasAddress` |
| `SavesAreReported` | `Spec => SaveReported`: every step that is not under `overtaking` is one of `SaveReport` |
| `NoOvertaking` | `Spec => []~overtaking`, for `Preemptive = FALSE` |
| `EverySaveIsReported` | `Spec => Outside!Spec`, i.e. `LegacyPortal` implements `SaveReport`, for `Preemptive = FALSE` |
| `PageInvariant`, `PageTypeCorrect` | `PageSpec => []PageInv`; types |
| `FormWaitsForSomething` | `PageSpec => []LockedOnlyIfAbandoned` |
| `UserIsToldTheOutcome` | `PageSpec => ToldTheOutcome` |
| `PageLeavesOnSuccess` | `PageSpec => LeavesOnSuccess` |

`PortalInv` is the types with `ServerIffPortal`; an action shuts the portal down and
forgets the save (`ShutdownPreserves`), opens it, or leaves the session alone
(`SaveStepPreserves`).

What a save is reported as depends on what `process()` has read and not yet acted
on, so `ReportInv` has a fact for each position. `Phases`: the phase at a position
is the one that the position was reached from, or another save has been queued
since. `Undisturbed`, for a save that did not come into the midst of a reaction:
what the reaction has read of it is still so (`StillSeen`); it has a network once it
is past the queue (`SaveHasNetwork`); while it waits the driver is configured for
that network, tries it or nothing, and can have a link with no other
(`OnlyThisNetwork`), so that `ConnectJoins`, which looks at the link alone, decides
on the network that was submitted; and a hand-off has its address (`AddressKept`),
which is `HandoffHasAddress`. A save that comes in between makes `overtaking` true,
and what is said of it is void until the next one. `StepSeen` says what each step
is to `SaveReport`. Without preemption there is no such save (`NoOvertaking`), and
the implementation has no exception (`EverySaveIsReported`).

`PageInv` relates the page to the device. `OneActivity`: a save is sent, or polled
for by one run, or handed off; a form that is locked without any of them was
abandoned by a view, or left at a hand-off that was given up, and then the user has
been told. `DeviceAgrees`: as long as the page waits, the device's phase
is still the one that the outcome of the page's save led to, or the device has
forgotten it. It is preserved because a save that has ended stays so until the
next is queued (`EndedSaveStays`). `AnswersAgree`: an answer to the run that counts,
and a hand-off, are about that outcome; answers to other runs may be about
anything, and the token is what keeps the page from acting on them (`StaleFlight`).
`Bounded` keeps the counters of the model in their types: every run of the polling
and every load of a view was paid for by a counted call or move.

`BootConnectProofs`, for every set of configurations and any greatest number of
retries:

| Theorem | States |
|---|---|
| `BootInvariant`, `BootTypeCorrect` | the inductive invariant `BootInv`; types |
| `RetriesAreKept` | `Spec => []RetriesKept` |
| `FailureIsReported` | `Spec => FailureReported` |

`RetriesKept` is not inductive: `Counted` ties the loop's count to the attempts
that were made at each position of the loop. `ReasonIsFailure` says of the event
task that what it recorded is never a success and, if it is a wrong password,
happened; it needs that a driver's report of a disconnection is never
`connected` but in the one case that WiFiEvent answers itself
(`StatusAfterType`).

`TimersProofs`, for every width of the clock, any timers and lengths:

| Theorem | States |
|---|---|
| `AgesAreDifferences` | the inductive invariant `TimersInv`: up to a full round, the real age of a timer is the machine's difference from its mark |
| `TimersAreExact` | `Spec => []DueExactly` |
| `NothingFiresEarly` | `Spec => NotFiredEarly`, for `Preemptive = FALSE` |

`PortalTimeoutProofs`, for every clock, second and set of limits:

| Theorem | States |
|---|---|
| `TimeoutInvariant` | the inductive invariant `TimeoutInv`: what the portal counts from, what really passed and what a page was told agree until the clock starts over |
| `PortalIsNotCutShort` | `Spec => NotCutShort` |
| `PortalOutlivesReport` | `Spec => OutlivesReport` |

`OtaProofs`, for any number of uploads and limits:

| Theorem | States |
|---|---|
| `OtaTypeCorrect`, `OtaInvariant` | types; the inductive invariant `OtaInv` |
| `LimitIsKept` | `Spec => []LimitKept` |
| `UploadIsNotTimedOut` | `Spec => UploadNotTimedOut` |
| `RestartsForWholeImages` | `Spec => RestartAfterUpdate` |

`OtaInv` strengthens them by what the handlers rely on: what is put back is what
the application set (`SavedLimit`), a taken upload has the time-out off
(`TimeoutOff`), uploads that are under way together have met (`OneAtATime`), the
`Updater` has the image of an upload that is alone or an error
(`ImageOfUpload`), and an upload that may be answered with a restart was ended
whole (`AnsweredWhole`).

The assumptions of these are the named `ASSUME`s of their modules
(`PortalAssumption`, `BootAssumption`, `MillisAssumption`, `TimerAssumption`,
`TimeoutAssumption`, `OtaAssumption`): kinds of values, timers that are each of
one kind, and delays shorter than half the clock.

## 7. What is only model-checked

Liveness, which rests on fairness: `CycleEnds`, `PortalAttemptDecided`,
`RecoversFromLoss`, `SaveAnswered`, `HandoffCloses`, `ExitHonoured`, `ScanAnswered`,
`SaveSettles`, `AutoConnectReturns`, `TimersFire`, `PortalEnds`. Fairness and
ENABLED are out of the proof system's reach. Every safety property of a passing
run is a theorem, and no module declares a RECURSIVE operator.

The theorems say of preemption what the code can keep. Without it only hold
`StorageReleased`, `ResultsAreReal` and `SaveGoesFirst` (of the event task),
`OwnedAttemptUntouched`, `CandidatePursued`, `CandidateVerified` and `NotFiredEarly`
(of the handlers), and `SaveReported` and `HandoffHasAddress` without their
exception; all others hold with it too.

## 8. What is not modelled, and the plan

Not modelled within the components that are: attaching another store while the
controller runs (it is set-up code); a `load()` that fails although the store
holds a set; application callbacks that call back into the library; requests in
flight while the server is freed, and what the update's disconnect callback
points to then; a request that reads the cache while it is being cleared; the
synchronous scan of cores without an asynchronous one, and the functions of the
cached scan that nothing calls; DNS; races inside a handler, which is one step, and inside a case of
`processStationController` other than the one between a judgement and its action;
handlers in the midst of `processScan`; the boot connection of an
ESP8266, which has no event task; the page's scan list and its setup and update
forms. A refused AP password and a soft AP that does not come up are in
`BootConnect` only.

Not modelled at all: the custom parameters, whose array grows by reallocation
and whose values are copied, sequential code whose result depends on its input
alone; static addresses and the access point's configuration, which are handed
to the SDK; templates, JSON, logging and the hardware test tooling.

The order of the work was: the station controller and the portal it shares a
report with; the legacy portal; the scan; the timers; the boot connection; the
portal's time-out and uploads; the page. What would come next, by what matters
most:

1. The page's polling of `scan-status`, composed with `Scan`: its states are
   there, the composition multiplies them.
2. `Parameters`, as operators with a reference definition, proved like the list.

## 9. Running it

    tlc -config MCStation.cfg MCStation.tla            # likewise each .cfg
    tlapm StationControllerProofs.tla
    tlapm StationRefinementProofs.tla
    tlapm ScanProofs.tla                                # likewise each *Proofs.tla
