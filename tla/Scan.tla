---- MODULE Scan ----
(***************************************************************************)
(* WiFiManager's asynchronous Wi-Fi scan: requests, the state machine that *)
(* process() runs, the completion callback, and the cache of results.      *)
(*                                                                         *)
(* Three parties take part.  The loop task runs processScan and opens and  *)
(* closes portals.  The driver scans; on ESP8266 its callback records the  *)
(* completion, on ESP32 an event task does, in two steps (it reads the     *)
(* count and the scan's state, then it stores), and process() polls too.   *)
(* The portal's handlers request scans and save networks.                  *)
(*                                                                         *)
(* The driver is external; the contract:                                   *)
(*   - one scan at a time: a start while one is under way joins it;        *)
(*   - a start may fail, silently on ESP8266; on ESP32 it may also report  *)
(*     a count at once;                                                    *)
(*   - scanDelete() drops results and does not stop a scan;                *)
(*   - a scan that fails reports no networks on ESP8266.                   *)
(* Clock comparisons are a choice of the step that makes them, except for  *)
(* the pause between two scans.                                            *)
(***************************************************************************)
EXTENDS Integers, Sequences

CONSTANTS
    Ssid,        \* names of networks
    Nameless,    \* the name of a hidden network, or of an entry that is not there
    Rssi,        \* signal strengths in dBm
    None,
    Findings,    \* what a scan may find: sequences of entries
    Wrapped,     \* WIFI_SCAN_RUNNING or WIFI_SCAN_FAILED as an unsigned count
    Preemptive,  \* the loop task may run between the steps of the event task
    MaxCalls     \* bound on calls and requests in a behaviour

Entry == [ssid : Ssid \cup {Nameless}, rssi : Rssi]

ASSUME ScanAssumption ==
    /\ Nameless \notin Ssid
    /\ Rssi \subseteq Int /\ 0 \in Rssi
    /\ <<>> \in Findings
    /\ Wrapped \in Nat \ {0}
    /\ \A f \in Findings : f \in Seq(Entry) /\ Len(f) < Wrapped
    /\ Preemptive \in BOOLEAN
    /\ MaxCalls \in Nat
    /\ None \notin 0 .. Wrapped

VARIABLES
    esp32,       \* the platform, fixed
    calls,       \* calls and requests so far (bounded by MaxCalls)
    configActive, webActive,
    blocked,     \* _scanLifecycleBlocked, and why
    connect,     \* a portal's save: none, queued, or being worked on by the portal's
                 \* machine, or a candidate that the station controller works on
    exiting,     \* _abortScheduled, _rebootScheduled or abort
    state,       \* _scan.state
    valid,       \* _scan.resultsValid, and with it _lastscan # 0
    pending,     \* _scan.schedulePending
    force,       \* _scan.forceRefresh
    completion,  \* _scan.completionResult and .completionGeneration, None
                 \* unless .completionPending
    gen,         \* _scan.generation
    running,     \* _scan.runningGeneration
    finished,    \* _scan.finishedAt > 0
    cache,       \* _scanResultsCache; its length is _numNetworks
    held,        \* the cache has an allocation
    radio,       \* the driver's scan: none, under way, or results to fetch
    found,       \* those results
    notice,      \* a SCAN_DONE event is on its way (ESP32)
    event,       \* the count the event task has read and not yet stored
    handOff      \* less than minRestartIntervalMs since the last scan ended

portalVars == <<configActive, webActive, blocked, connect, exiting>>
scanVars == <<state, valid, pending, force, completion, gen, running, finished>>
cacheVars == <<cache, held>>
driverVars == <<radio, found, notice, event>>
vars == <<esp32, calls, portalVars, scanVars, cacheVars, driverVars, handOff>>

Counts == 0 .. Wrapped
Resting == {"idle", "complete", "failed", "timeout"}

PortalTypeOK ==
    /\ esp32 \in BOOLEAN /\ calls \in 0 .. MaxCalls
    /\ configActive \in BOOLEAN /\ webActive \in BOOLEAN
    /\ blocked \in {"no", "opening", "closing"}
    /\ connect \in {"no", "queued", "working", "candidate"}
    /\ exiting \in BOOLEAN

EngineTypeOK ==
    /\ state \in Resting \cup {"queued", "running"}
    /\ valid \in BOOLEAN /\ pending \in BOOLEAN /\ force \in BOOLEAN
    /\ completion \in {None} \cup [count : Counts, gen : Nat]
    /\ running \in Nat
    /\ finished \in BOOLEAN /\ handOff \in BOOLEAN
    /\ cache \in Seq(Entry) /\ held \in BOOLEAN
    /\ radio \in {"idle", "scanning", "done"}

ScanTypeOK ==
    /\ PortalTypeOK
    /\ EngineTypeOK
    /\ gen \in Nat
    /\ found \in Findings
    /\ notice \in BOOLEAN /\ event \in Counts \cup {None}

Init ==
    /\ esp32 \in BOOLEAN /\ calls = 0
    /\ configActive = FALSE /\ webActive = FALSE /\ blocked = "no"
    /\ connect = "no" /\ exiting = FALSE
    /\ state = "idle" /\ valid = FALSE /\ pending = FALSE /\ force = FALSE
    /\ completion = None /\ gen = 0 /\ running = 0 /\ finished = FALSE
    /\ cache = <<>> /\ held = FALSE
    /\ radio = "idle" /\ found = <<>> /\ notice = FALSE /\ event = None
    /\ handOff = FALSE

----
(* Who acts.                                                                *)

PortalUp == configActive \/ webActive

\* Without preemption the event task finishes what it began.
EventTaskIdle == Preemptive \/ event = None

Count == calls < MaxCalls /\ calls' = calls + 1

\* The loop task and the handlers wait while a portal closes: its server is
\* freed and delay() does not return to the application.
LoopStep == EventTaskIdle /\ blocked # "closing" /\ UNCHANGED <<esp32, found, notice, event>>
Call == LoopStep /\ Count

----
(* Operations of the scan engine.                                           *)

\* Mutant: only a save that the portal's machine has not taken up yet holds a
\* scan back.
CanRunUnlessQueued == PortalUp /\ blocked = "no" /\ connect # "queued" /\ ~exiting

\* canRunAsyncScan
CanRun == PortalUp /\ blocked = "no" /\ connect = "no" /\ ~exiting

\* WiFi.scanDelete()
DeleteResults == radio' = IF radio = "done" THEN "idle" ELSE radio

\* What the driver answers for an index it has no result for.
Blank == [ssid |-> Nameless, rssi |-> 0]

\* Mutant: the driver's results are deleted before they are copied.
CollectedLate(n) == [i \in 1 .. n |-> Blank]

\* cacheScanResults: what the driver has for each of n indices.
Collected(n) ==
    [i \in 1 .. n |-> IF radio = "done" /\ i <= Len(found) THEN found[i] ELSE Blank]

\* finalizeAsyncScan, with the entries that it caches.
Finalize(entries) ==
    /\ state' = "complete" /\ valid' = TRUE
    /\ pending' = FALSE /\ force' = FALSE
    /\ completion' = None /\ running' = 0
    /\ finished' = TRUE /\ handOff' = TRUE
    /\ cache' = entries /\ held' = (held \/ entries # <<>>)
    /\ DeleteResults

\* failAsyncScan
Fail(as) ==
    /\ state' = as /\ valid' = FALSE
    /\ pending' = FALSE /\ force' = FALSE
    /\ completion' = None /\ running' = 0
    /\ finished' = TRUE /\ handOff' = TRUE
    /\ cache' = <<>> /\ UNCHANGED held
    /\ DeleteResults

\* resetAsyncScan(clear); `to' is "queued" when the portal's first scan is
\* scheduled right after it.
Reset(clear, to) ==
    /\ state' = to /\ valid' = (valid /\ ~clear)
    /\ pending' = (to = "queued") /\ force' = FALSE
    /\ completion' = None /\ running' = 0 /\ gen' = gen + 1
    /\ finished' = FALSE
    /\ cache' = IF clear THEN <<>> ELSE cache
    /\ DeleteResults
    /\ UNCHANGED handOff

\* Mutant: a completion is recorded whatever the engine is doing.
RecordAnyCompletion(n) == completion' = [count |-> n, gen |-> running]

\* WiFi_scanComplete on ESP8266, where the callback runs between two steps.
RecordCompletion(n) ==
    completion' = IF state = "running" THEN [count |-> n, gen |-> running] ELSE completion

----
(* Portals, saves and exits, as far as the scan depends on them.            *)

\* startConfigPortal up to setupConfigPortal.  The events and the access
\* point callback of the application run in between.
OpenConfigPortal ==
    /\ Call
    /\ ~configActive
    /\ configActive' = TRUE /\ blocked' = "opening" /\ connect' = "no"
    /\ exiting' \in {FALSE, exiting}
    /\ UNCHANGED <<webActive, scanVars, cacheVars, radio, handOff>>

\* setupConfigPortal clears the engine and schedules the first scan, if the
\* application has not switched that off.
SetupConfigPortal ==
    /\ LoopStep
    /\ blocked = "opening"
    /\ blocked' = "no"
    /\ \E first \in {"idle", "queued"} : Reset(TRUE, first)
    /\ UNCHANGED <<calls, configActive, webActive, connect, exiting, held>>

\* startWebPortal
StartWebPortal ==
    /\ Call
    /\ ~PortalUp
    /\ webActive' = TRUE /\ exiting' \in {FALSE, exiting}
    /\ \E first \in {"idle", "queued"} : Reset(TRUE, first)
    /\ UNCHANGED <<configActive, blocked, connect, held>>

\* shutdownConfigPortal with a configuration portal: the cache is released,
\* and the scan is blocked until the access point is down.  A save in flight is
\* forgotten; one that waits for the browser's hand-off is not.
BeginClose ==
    /\ Call
    /\ configActive /\ blocked = "no"
    /\ Reset(TRUE, "idle") /\ held' = FALSE
    /\ webActive' = FALSE /\ blocked' = "closing"
    /\ connect' \in {"no", connect} \ {"queued"}
    /\ exiting' \in {TRUE, exiting}
    /\ UNCHANGED configActive

EndClose ==
    /\ EventTaskIdle
    /\ blocked = "closing"
    /\ configActive' = FALSE /\ blocked' = "no"
    /\ UNCHANGED <<esp32, calls, webActive, connect, exiting, scanVars, cacheVars,
                   driverVars, handOff>>

\* shutdownConfigPortal for a web portal.
CloseWebPortal ==
    /\ Call
    /\ webActive /\ ~configActive
    /\ webActive' = FALSE
    /\ Reset(TRUE, "idle") /\ held' = FALSE
    /\ UNCHANGED <<configActive, blocked, connect, exiting>>

\* A handler schedules an exit or a restart, or stopConfigPortal sets abort and
\* leaves a running web portal alone.
ScheduleExit ==
    /\ Call
    /\ PortalUp
    /\ exiting' = TRUE
    /\ UNCHANGED <<configActive, webActive, blocked, connect, scanVars, cacheVars,
                   radio, handOff>>

\* A handler takes a save: queued for the portal's machine, or, with a profile
\* store, a candidate, for which WiFi.begin is called before the handler
\* returns.  A scan may be running.
SubmitSave ==
    /\ Call
    /\ PortalUp
    /\ connect' \in {"queued", "candidate"}
    /\ UNCHANGED <<configActive, webActive, blocked, exiting, scanVars, cacheVars,
                   radio, handOff>>

\* processPortalConnect takes the save up; one without an SSID is done at once,
\* and so is what is left of a candidate that the controller has let go of.
TakeConnect ==
    /\ LoopStep
    /\ \/ connect = "queued" /\ connect' \in {"no", "working"}
       \/ connect = "candidate" /\ connect' = "no"
    /\ Reset(FALSE, "idle")
    /\ UNCHANGED <<calls, configActive, webActive, blocked, exiting, held>>

\* The save is decided, and a hand-off that followed it is over.
EndConnect ==
    /\ LoopStep
    /\ connect \in {"working", "candidate"}
    /\ connect' = "no"
    /\ UNCHANGED <<calls, configActive, webActive, blocked, exiting, scanVars, cacheVars,
                   radio, handOff>>

PortalStep ==
    \/ OpenConfigPortal \/ SetupConfigPortal \/ StartWebPortal
    \/ BeginClose \/ EndClose \/ CloseWebPortal
    \/ ScheduleExit \/ SubmitSave \/ TakeConnect \/ EndConnect

----
(* Requests and processScan.                                                *)

\* requestAsyncScan by the application, or POST /api/wifi/scan, which forces.
RequestScan ==
    /\ Call
    /\ pending' = TRUE
    /\ force' \in {force, TRUE}
    /\ state' = IF state = "running" THEN state ELSE "queued"
    /\ UNCHANGED <<portalVars, valid, completion, gen, running, finished, cacheVars,
                   radio, handOff>>

ProcessStep == LoopStep /\ UNCHANGED <<calls, portalVars>>

\* A recorded completion: its count is never negative (it is unsigned on ESP32,
\* and a number of networks on ESP8266).
ScanCompletes ==
    /\ ProcessStep
    /\ completion # None
    /\ IF completion.gen = running
         THEN Finalize(Collected(completion.count))
         ELSE /\ completion' = None
              /\ UNCHANGED <<state, valid, pending, force, running, finished, cacheVars,
                             radio, handOff>>
    /\ UNCHANGED gen

\* Something else needs the radio, or there is no portal to scan for.
ScanCancelled ==
    /\ ProcessStep
    /\ completion = None
    /\ state \in {"queued", "running"} /\ ~CanRun
    /\ Reset(FALSE, "idle")
    /\ UNCHANGED held

ScanRests ==
    /\ ProcessStep
    /\ completion = None
    /\ state \in Resting
    /\ state' = IF pending THEN "queued" ELSE state
    /\ UNCHANGED <<valid, pending, force, completion, gen, running, finished, cacheVars,
                   radio, handOff>>

\* The pause between two scans is measured from finishedAt.
PauseOver == ~finished \/ ~handOff

\* The driver works on the scan.  A forced scan has dropped the old results.
StartRuns ==
    /\ state' = "running" /\ running' = gen + 1
    /\ pending' = FALSE /\ force' = FALSE /\ completion' = None
    /\ cache' = IF force THEN <<>> ELSE cache
    /\ valid' = (valid /\ ~force)
    /\ radio' \in IF esp32 \/ radio = "scanning" THEN {"scanning"} ELSE {"scanning", "idle"}
    /\ UNCHANGED <<finished, held, handOff>>

\* startAsyncScan
StartScan ==
    /\ ProcessStep
    /\ completion = None
    /\ state = "queued" /\ CanRun
    /\ PauseOver
    /\ gen' = gen + 1
    /\ \/ StartRuns
       \/ /\ esp32 /\ radio # "scanning"
          /\ Fail("failed") \/ \E entries \in Findings : Finalize(entries)

\* Mutant: the time-out drops the results and does not end the scan.
TimeOutKeepsRunning ==
    /\ ProcessStep
    /\ completion = None
    /\ state = "running" /\ CanRun
    /\ valid' = FALSE /\ cache' = <<>> /\ DeleteResults
    /\ UNCHANGED <<state, pending, force, completion, gen, running, finished, held, handOff>>

ScanTimesOut ==
    /\ ProcessStep
    /\ completion = None
    /\ state = "running" /\ CanRun
    /\ Fail("timeout")
    /\ UNCHANGED gen

\* ESP32 also asks the driver.
ScanPolled ==
    /\ ProcessStep
    /\ completion = None
    /\ state = "running" /\ CanRun
    /\ esp32
    /\ \/ radio = "done" /\ Finalize(found)
       \/ radio = "idle" /\ Fail("failed")
    /\ UNCHANGED gen

ProcessScan ==
    \/ ScanCompletes \/ ScanCancelled \/ ScanRests
    \/ StartScan \/ ScanTimesOut \/ ScanPolled

----
(* The driver and the event task.                                           *)

ScanEnds ==
    /\ EventTaskIdle
    /\ radio = "scanning"
    /\ \/ radio' = "done" /\ found' \in Findings
       \/ esp32 /\ radio' = "idle" /\ UNCHANGED found
    /\ IF esp32 THEN notice' = TRUE /\ UNCHANGED completion
                ELSE RecordCompletion(Len(found')) /\ UNCHANGED notice
    /\ UNCHANGED <<esp32, calls, portalVars, state, valid, pending, force, gen, running,
                   finished, cacheVars, event, handOff>>

\* WiFiEvent and the guard of WiFi_scanComplete.  scanComplete() is negative
\* while a scan is under way or if there are no results.
EventReads ==
    /\ notice /\ event = None
    /\ notice' = FALSE
    /\ event' = IF state # "running" THEN None
                ELSE IF radio = "done" THEN Len(found) ELSE Wrapped
    /\ UNCHANGED <<esp32, calls, portalVars, scanVars, cacheVars, radio, found, handOff>>

\* The rest of WiFi_scanComplete.
EventStores ==
    /\ event # None
    /\ completion' = [count |-> event, gen |-> running]
    /\ event' = None
    /\ UNCHANGED <<esp32, calls, portalVars, state, valid, pending, force, gen, running,
                   finished, cacheVars, radio, found, notice, handOff>>

\* minRestartIntervalMs passes.
PauseEnds ==
    /\ EventTaskIdle
    /\ handOff /\ handOff' = FALSE
    /\ UNCHANGED <<esp32, calls, portalVars, scanVars, cacheVars, driverVars>>

Next ==
    \/ PortalStep \/ RequestScan \/ ProcessScan
    \/ ScanEnds \/ EventReads \/ EventStores \/ PauseEnds

Spec == Init /\ [][Next]_vars

\* The application keeps calling process(), calls that have begun return, and
\* time passes.  Nothing is assumed of the driver.
Fairness ==
    /\ WF_vars(ProcessScan)
    /\ WF_vars(SetupConfigPortal)
    /\ WF_vars(EndClose)
    /\ WF_vars(EventStores)
    /\ WF_vars(PauseEnds)

FairSpec == Spec /\ Fairness

----
(* Safety                                                                   *)

\* shutdownConfigPortal releases the cache and no completion that is still on
\* its way fills it again: without a portal there is no storage to hold
\* results (docs/NETWORK_CONFIGURATION.md: it "clears and releases that storage
\* when the portal fully closes").
StorageReleased == ~PortalUp => ~held

\* The engine's bookkeeping, on which the properties below rest: a completion is
\* pending only while a scan runs, and under that scan's generation.  It does not
\* say that the driver meant this scan: the generation is read when the completion
\* is recorded.
CompletionOfRunningScan ==
    /\ completion # None => state = "running" /\ completion.gen = running
    /\ state = "running" <=> running # 0

\* The list in the cache is what one scan has found, whole and in the driver's
\* order: the count that the callback recorded and the results that processScan
\* fetches later belong together, whatever was requested, saved, opened or closed
\* in between, and whether the callback, the poll or both finish the scan.  Only an
\* event on ESP32 that comes when there is nothing to count, such as one of an
\* earlier scan, pads the list with entries that have no name.
PaddedList(f) ==
    /\ Len(cache) = Wrapped
    /\ \A i \in DOMAIN cache : cache[i] = IF i <= Len(f) THEN f[i] ELSE Blank

ResultsAreReal == \E f \in Findings : cache = f \/ (esp32 /\ PaddedList(f))

\* A save goes before a scan, in the legacy mode and with profiles.  While one is
\* pending at the portal no scan is started in the driver, a call of processScan
\* leaves none running in the engine, and a save that the portal's machine has
\* taken up, whose WiFi.begin is still to come, meets none.  A scan that the driver
\* has under way goes on beside the connection: scanDelete() does not stop it.
SaveGoesFirst ==
    [][ /\ connect # "no" /\ radio # "scanning" => radio' # "scanning"
        /\ connect # "no" /\ ProcessScan => state' # "running"
        /\ connect = "working" => state # "running" ]_vars

----
(* Liveness                                                                 *)

\* The browser polls /api/wifi/scan-status until `scanning' is false, and it
\* becomes false: the scan ends, fails, times out or is cancelled, even if the
\* driver never says a word.
ScanAnswered == state \in {"queued", "running"} ~> state \in Resting
====
