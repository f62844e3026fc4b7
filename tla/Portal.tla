---- MODULE Portal ----
(***************************************************************************)
(* One portal session of WiFiManager: the configuration portal (AP + DNS + *)
(* HTTP server) and the web portal (HTTP server only), the save-and-connect*)
(* machine behind POST /api/wifi/save in legacy mode, and the parts of     *)
(* process() that serve them.                                              *)
(*                                                                         *)
(* process() is a sequence of steps of the loop task, at positions         *)
(*     loop -> station -> connect -> exit -> loop,                         *)
(* because on ESP32 the AsyncWebServer handlers run in another task and    *)
(* may come between them (Preemptive); on ESP8266 they run between two     *)
(* calls of process().  The save-and-connect machine reads the state of    *)
(* the save at `connect' and writes the next one in a later step, at a     *)
(* position of Machine: a handler may exchange the save in between.        *)
(* Clock comparisons are a choice of the step that makes them: the timer   *)
(* is due, or it is not.                                                   *)
(***************************************************************************)
EXTENDS Radio, Naturals

CONSTANTS
    Options,     \* the configurations the application may have chosen
    Preemptive,  \* handlers may run between two steps of process()
    MaxCalls     \* bound on application calls and requests in a behaviour

OptionType ==
    [ disableConfigPortal : BOOLEAN,   \* close the portal after a successful save
      enableConfigPortal  : BOOLEAN,   \* fall back to the portal
      breakAfterConfig    : BOOLEAN,   \* close the portal after a failed save
      connectOnSave       : BOOLEAN,   \* a save tries to connect
      connectTimeout      : BOOLEAN,   \* a save attempt is bounded
      portalTimeout       : BOOLEAN,   \* a configuration session is bounded
      allowExit           : BOOLEAN ]  \* exit requests and time-outs are honoured

ASSUME PortalAssumption ==
    /\ Options \subseteq OptionType
    /\ Preemptive \in BOOLEAN
    /\ MaxCalls \in Nat

VARIABLES
    opt,            \* the configuration, fixed before the flow starts
    pc,             \* where the loop task is in process()
    calls,          \* calls and requests so far (bounded by MaxCalls)
    configActive, webActive,
    server,         \* a WiFiManagerServer exists
    abort, abortScheduled,
    captive,        \* _enableCaptivePortal
    cp,             \* _cpConnectState
    cpSsid,         \* _cpConnectSsid and _cpConnectPass, None for an empty SSID
    stationIp       \* _cpConnectStationIp is not empty

sessionVars == <<configActive, webActive, server, abort, abortScheduled, captive>>
connectVars == <<cp, cpSsid, stationIp>>
portalVars == <<opt, pc, calls, sessionVars, connectVars>>

InFlight == {"queued", "delaying", "starting", "waiting"}
CpStates == InFlight \cup {"idle", "success_waiting_close", "success", "failed"}

\* Inside one call of processPortalConnect: its switch has read the state, and
\* the next state is not written yet; or (shutdown) it is, and the portal has
\* still to be closed.
Reacting == {"kept", "delay", "start", "begin", "begun", "configured", "refused",
             "online", "addressed", "finalize"}
Machine == Reacting \cup {"shutdown"}
Positions == {"loop", "station", "joined", "expired", "connect", "exit"} \cup Machine

StepTypeOK ==
    /\ opt \in Options
    /\ pc \in Positions
    /\ calls \in 0 .. MaxCalls

SessionTypeOK ==
    /\ configActive \in BOOLEAN /\ webActive \in BOOLEAN /\ server \in BOOLEAN
    /\ abort \in BOOLEAN /\ abortScheduled \in BOOLEAN /\ captive \in BOOLEAN
    /\ cp \in CpStates
    /\ cpSsid \in Network \cup {None}
    /\ stationIp \in BOOLEAN

PortalTypeOK == StepTypeOK /\ SessionTypeOK

\* What a boot leaves: nothing of the previous run's portal.
PortalBooted ==
    /\ pc' = "loop"
    /\ configActive' = FALSE /\ webActive' = FALSE /\ server' = FALSE
    /\ abort' = FALSE /\ abortScheduled' = FALSE /\ captive' = TRUE
    /\ cp' = "idle" /\ cpSsid' = None /\ stationIp' = FALSE

PortalInit ==
    /\ opt \in Options
    /\ pc = "loop" /\ calls = 0
    /\ configActive = FALSE /\ webActive = FALSE /\ server = FALSE
    /\ abort = FALSE /\ abortScheduled = FALSE /\ captive = TRUE
    /\ cp = "idle" /\ cpSsid = None /\ stationIp = FALSE

PortalUp == configActive \/ webActive

----
(* Who may act: the application calls from the loop task, between two calls *)
(* of process(); a request handler also between its steps on ESP32.         *)

Count == calls < MaxCalls /\ calls' = calls + 1
ApplicationCall == pc = "loop" /\ Count /\ UNCHANGED <<pc, opt>>
Request ==
    /\ pc = "loop" \/ Preemptive
    /\ PortalUp
    /\ Count
    /\ UNCHANGED <<pc, opt>>
ProcessStep(from, to) == pc = from /\ pc' = to /\ UNCHANGED <<calls, opt>>

----
(* Session operations, as they are called from several places.              *)

\* startConfigPortal, once it is known that no configuration portal runs and
\* that the AP password is usable.
OpenSession ==
    /\ configActive' = TRUE /\ server' = TRUE
    /\ abort' = FALSE
    /\ cp' = "idle"
    /\ UNCHANGED <<webActive, abortScheduled, captive, cpSsid, stationIp>>

\* A station that is not connected is disconnected for it, which ends an
\* attempt in progress (_disableSTAConn).
OpenConfigPortal ==
    /\ OpenSession
    /\ target' = IF link = None THEN None ELSE target
    /\ UNCHANGED <<link, config>>

\* Mutant: the server is freed before the check for a running web portal.
ShutdownFreesServer(web) ==
    /\ webActive' = web
    /\ configActive' = (configActive /\ web)
    /\ server' = FALSE
    /\ IF configActive /\ ~web THEN WiFiReconnect ELSE UNCHANGED radioVars

\* shutdownConfigPortal, called when webPortalActive is web.  It gives up
\* while a web portal runs; otherwise it frees the server and, if there is a
\* configuration portal, closes it, forgets a save that is in flight ...
CloseSession(web) ==
    /\ webActive' = web
    /\ configActive' = (configActive /\ web)
    /\ server' = (server /\ web)

\* ... and lets the station resume what it did before.
Shutdown(web) ==
    /\ CloseSession(web)
    /\ IF configActive /\ ~web THEN WiFiReconnect ELSE UNCHANGED radioVars

\* Mutant: a save that is being delayed is forgotten when the portal closes.
CpKeepsDelayed(state, web) ==
    IF configActive /\ ~web /\ state \in InFlight \ {"delaying"} THEN "idle" ELSE state

CpAfterShutdown(state, web) ==
    IF configActive /\ ~web /\ state \in InFlight THEN "idle" ELSE state

\* startConfigPortal
StartConfigPortal ==
    /\ ApplicationCall
    /\ ~configActive
    /\ OpenConfigPortal

\* stopConfigPortal
StopConfigPortal ==
    /\ ApplicationCall
    /\ configActive
    /\ abort' = TRUE
    /\ Shutdown(webActive)
    /\ cp' = CpAfterShutdown(cp, webActive)
    /\ UNCHANGED <<abortScheduled, captive, cpSsid, stationIp>>

\* startWebPortal
StartWebPortal ==
    /\ ApplicationCall
    /\ ~PortalUp
    /\ abort' = FALSE
    /\ server' = TRUE /\ webActive' = TRUE
    /\ UNCHANGED <<configActive, abortScheduled, captive, connectVars, radioVars>>

\* stopWebPortal: closes a configuration portal too.
StopWebPortal ==
    /\ ApplicationCall
    /\ PortalUp
    /\ Shutdown(FALSE)
    /\ cp' = CpAfterShutdown(cp, FALSE)
    /\ UNCHANGED <<abort, abortScheduled, captive, cpSsid, stationIp>>

SessionCall == StartConfigPortal \/ StopConfigPortal \/ StartWebPortal \/ StopWebPortal

----
(* Request handlers.                                                        *)

\* POST /api/portal/exit
RequestExit ==
    /\ Request
    /\ opt.allowExit
    /\ abortScheduled' = TRUE
    /\ UNCHANGED <<configActive, webActive, server, abort, captive, connectVars, radioVars>>

\* POST /api/portal/close
RequestClose ==
    /\ Request
    /\ captive' = FALSE
    /\ UNCHANGED <<configActive, webActive, server, abort, abortScheduled,
                   connectVars, radioVars>>

\* Mutant: a save leaves an attempt that is under way to go on.
QueueKeepsAttempt ==
    /\ Request
    /\ \E n \in Network \cup {None} : cpSsid' = n
    /\ cp' = IF cp = "waiting" THEN cp ELSE "queued"
    /\ stationIp' = FALSE
    /\ UNCHANGED <<sessionVars, radioVars>>

\* POST /api/wifi/save without a profile store: queuePortalConnect.
QueuePortalConnect ==
    /\ Request
    /\ \E n \in Network \cup {None} : cpSsid' = n
    /\ cp' = "queued"
    /\ stationIp' = FALSE
    /\ UNCHANGED <<sessionVars, radioVars>>

----
(* process(): the scheduled exit, the save-and-connect machine, the exit    *)
(* check.                                                                   *)

\* Mutant: a due exit is taken off the schedule and not carried out.
BeginProcessForgetsExit ==
    /\ ProcessStep("loop", "station")
    /\ abortScheduled' \in {FALSE, abortScheduled}
    /\ UNCHANGED <<abort, configActive, webActive, server, captive, connectVars, radioVars>>

\* The first step of process(): a scheduled exit becomes an abort when due.
BeginProcess ==
    /\ ProcessStep("loop", "station")
    /\ \/ UNCHANGED <<abort, abortScheduled>>
       \/ abortScheduled /\ abort' = TRUE /\ abortScheduled' = FALSE
    /\ UNCHANGED <<configActive, webActive, server, captive, connectVars, radioVars>>

\* The switch of processPortalConnect: what it goes on with follows from the
\* state it reads, the clock and the status of the station.
Decide(to) == ProcessStep("connect", to) /\ UNCHANGED <<sessionVars, connectVars, radioVars>>

\* There is nothing to do, or the timer is not due, or the attempt undecided.
ConnectRests ==
    /\ cp # "queued" /\ cp # "starting"
    /\ cp = "waiting" => ~Usable
    /\ Decide("exit")

\* A save without an SSID only had parameters to keep.
ConnectQueued ==
    cp = "queued" /\ Decide(IF cpSsid = None THEN "kept" ELSE "delay")
DelayEnds == cp = "delaying" /\ Decide("start")
ConnectBegins == cp = "starting" /\ Decide("begin")
ConnectJoins == cp = "waiting" /\ Usable /\ Decide("online")

\* Mutant: only a save of the configuration portal is ever given up.
ConnectGivesUpInConfigPortal ==
    cp = "waiting" /\ ~Usable /\ configActive /\ Decide("refused")

\* The driver gives the network up, or the attempt times out.  Without a
\* time-out only the driver's verdict ends it.
ConnectGivesUp == cp = "waiting" /\ ~Usable /\ Decide("refused")

\* The hand-off's grace period is over.
HandoffEnds == cp = "success_waiting_close" /\ Decide("finalize")

ConnectDecides ==
    \/ ConnectRests \/ ConnectQueued \/ DelayEnds \/ ConnectBegins
    \/ ConnectJoins \/ ConnectGivesUp \/ HandoffEnds

\* A step that writes the next state of the save, whichever save that is by now.
Write(from, state, to) ==
    /\ ProcessStep(from, to)
    /\ cp' = state
    /\ UNCHANGED <<sessionVars, cpSsid, radioVars>>

AfterEnd(closes) == IF closes THEN "shutdown" ELSE "exit"

WriteKept == Write("kept", "success", "exit") /\ stationIp' = FALSE
WriteDelay == Write("delay", "delaying", "exit") /\ UNCHANGED stationIp
WriteStart == Write("start", "starting", "exit") /\ UNCHANGED stationIp

\* wifiConnectNew(connect = _connectonsave) with whatever SSID is there by now.
\* WiFi.begin fails by its return value, which may be WL_IDLE_STATUS: the save
\* has failed, the driver may work on its network all the same.  An empty SSID
\* leaves the driver alone, whatever begin returns.
BeginSucceeds ==
    /\ ProcessStep("begin", IF opt.connectOnSave THEN "begun" ELSE "configured")
    /\ IF cpSsid = None THEN UNCHANGED radioVars
       ELSE IF opt.connectOnSave THEN WiFiBegin(cpSsid)
       ELSE WiFiConfigure(cpSsid)
    /\ UNCHANGED <<sessionVars, connectVars>>

BeginFails ==
    /\ ProcessStep("begin", "refused")
    /\ \/ UNCHANGED radioVars
       \/ WiFiDisconnect                        \* _cleanConnect
       \/ cpSsid # None /\ opt.connectOnSave /\ WiFiBegin(cpSsid)
       \/ cpSsid # None /\ ~opt.connectOnSave /\ WiFiConfigure(cpSsid)
    /\ UNCHANGED <<sessionVars, connectVars>>

WriteBegun == Write("begun", "waiting", "exit") /\ UNCHANGED stationIp
WriteConfigured == Write("configured", "success", "exit") /\ stationIp' = FALSE

\* failPortalConnect
WriteRefused ==
    Write("refused", "failed", AfterEnd(opt.breakAfterConfig)) /\ stationIp' = FALSE

\* Mutant: the station's address is not recorded for the browser.
WriteNoAddress ==
    /\ ProcessStep("online", "addressed")
    /\ UNCHANGED <<sessionVars, connectVars, radioVars>>

\* The station has joined: its address first, ...
WriteAddress ==
    /\ ProcessStep("online", "addressed")
    /\ stationIp' = TRUE
    /\ UNCHANGED <<sessionVars, cp, cpSsid, radioVars>>

\* ... then the state: keep the portal up for the browser's hand-off, or finish
\* at once.
HandsOver == opt.disableConfigPortal /\ PortalUp

WriteHandoff ==
    /\ HandsOver
    /\ Write("addressed", "success_waiting_close", "exit")
    /\ UNCHANGED stationIp

\* Mutant: the portal stays up after the hand-off.
FinalizeLeavesPortal ==
    /\ \/ Write("finalize", "success", "exit")
       \/ ~HandsOver /\ Write("addressed", "success", "exit")
    /\ UNCHANGED stationIp

\* finalizePortalConnectSuccess
FinalizeSuccess ==
    /\ \/ Write("finalize", "success", AfterEnd(opt.disableConfigPortal))
       \/ ~HandsOver /\ Write("addressed", "success", AfterEnd(opt.disableConfigPortal))
    /\ UNCHANGED stationIp

ConnectWrites ==
    \/ WriteKept \/ WriteDelay \/ WriteStart \/ WriteBegun \/ WriteConfigured
    \/ WriteRefused \/ WriteAddress \/ WriteHandoff \/ FinalizeSuccess

\* The portal closes after the save has ended; a save that came after the end
\* was written is in flight again, and forgotten.
ConnectShutsDown ==
    /\ ProcessStep("shutdown", "exit")
    /\ Shutdown(webActive)
    /\ cp' = CpAfterShutdown(cp, webActive)
    /\ UNCHANGED <<abort, abortScheduled, captive, cpSsid, stationIp>>

\* processPortalConnect after its switch
ConnectReacts == BeginSucceeds \/ BeginFails \/ ConnectWrites \/ ConnectShutsDown

ProcessPortalConnect == ConnectDecides \/ ConnectReacts

\* configPortalHasTimeout() when the configured time-out is over.
TimeoutPossible == configActive /\ opt.portalTimeout

\* The last step: leave the portal on an abort or a time-out.
PortalExits ==
    /\ ProcessStep("exit", "loop")
    /\ PortalUp /\ opt.allowExit
    /\ TimeoutPossible \/ abort
    /\ Shutdown(FALSE)
    /\ cp' = CpAfterShutdown(cp, FALSE)
    /\ UNCHANGED <<abort, abortScheduled, captive, cpSsid, stationIp>>

PortalStays ==
    /\ ProcessStep("exit", "loop")
    /\ ~(PortalUp /\ opt.allowExit /\ abort)
    /\ UNCHANGED <<sessionVars, connectVars, radioVars>>

----
(* Safety                                                                   *)

\* The HTTP server lives exactly as long as a portal does: no portal without
\* one and, whatever closes the last portal, no server left behind.
ServerIffPortal == server <=> PortalUp
====
