---- MODULE BootConnect ----
(***************************************************************************)
(* autoConnect: the station is joined with the credentials the application *)
(* preloaded or the SDK keeps, by connectWifi with its retries, and if     *)
(* that fails the configuration portal is opened; and the result of it all *)
(* that the portal and getLastConxResult report.  The build is ESP32's:    *)
(* the driver reports a disconnection to WiFiEvent, which runs in the      *)
(* event task at any moment, also while autoConnect waits.                 *)
(*                                                                         *)
(* What the driver does is external: it joins when it has been told to,    *)
(* and disconnects when it likes.  Time is abstract: a wait is over, or    *)
(* not.  _aggresiveReconn has no setter and is false.                      *)
(***************************************************************************)
EXTENDS Naturals

CONSTANTS
    Settings,    \* the configurations the application may have chosen
    MaxRetries,  \* the greatest number of retries setConnectRetries lets through
    MaxCalls     \* bound on the application's calls in a behaviour

SettingType ==
    [ preloaded    : BOOLEAN,   \* preloadWiFi gave an SSID
      hostname     : BOOLEAN,   \* a host name is set, which restarts the station
      clean        : BOOLEAN,   \* setCleanConnect
      enablePortal : BOOLEAN,   \* setEnableConfigPortal
      apPassword   : BOOLEAN,   \* the AP password is one that validApPassword accepts
      retries      : 1 .. MaxRetries ]

ASSUME BootAssumption ==
    /\ MaxRetries \in Nat /\ MaxCalls \in Nat
    /\ Settings \subseteq SettingType

VARIABLES
    opt,         \* the configuration
    pc,          \* where the loop task is
    calls,       \* application calls so far (bounded by MaxCalls)
    hasBegun,    \* _hasBegun: WiFiEvent listens
    registered,  \* wm_event_id: WiFiEvent is registered
    saved,       \* the SDK keeps credentials
    trying,      \* the station is on and the driver works on credentials
    status,      \* WiFi.status()
    retry, connRes,  \* connectWifi's locals
    begins,      \* history: calls of WiFi.begin by this autoConnect
    last,        \* _lastconxresult
    reason,      \* _lastconxresulttmp
    rejected,    \* history: an access point has rejected the password since boot
    portal,      \* configPortalActive
    ap           \* the soft AP is up

callVars == <<pc, retry, connRes, begins>>
driverVars == <<trying, status>>
eventVars == <<reason, rejected>>
portalVars == <<portal, ap>>
vars == <<opt, calls, hasBegun, registered, saved, callVars, driverVars, last, eventVars,
          portalVars>>

Statuses == {"idle", "no_ssid", "connected", "failed", "lost", "disconnected"}
Results == Statuses \cup {"wrong_password"}
Positions == {"app", "check", "connect", "wait", "fallback", "disconnect", "open", "save"}

TypeOK ==
    /\ opt \in Settings
    /\ pc \in Positions
    /\ calls \in 0 .. MaxCalls
    /\ hasBegun \in BOOLEAN /\ registered \in BOOLEAN
    /\ saved \in BOOLEAN /\ trying \in BOOLEAN
    /\ status \in Statuses /\ connRes \in Statuses
    /\ retry \in 0 .. MaxRetries + 1 /\ begins \in 0 .. MaxRetries
    /\ last \in Results /\ reason \in Results
    /\ rejected \in BOOLEAN
    /\ portal \in BOOLEAN /\ ap \in BOOLEAN

Init ==
    /\ opt \in Settings
    /\ pc = "app" /\ calls = 0
    /\ hasBegun = FALSE /\ registered = FALSE
    /\ saved \in BOOLEAN /\ trying = FALSE
    /\ status = "idle"
    /\ retry = 0 /\ connRes = "idle" /\ begins = 0
    /\ last = "idle" /\ reason = "idle" /\ rejected = FALSE
    /\ portal = FALSE /\ ap = FALSE

----
(* Parts                                                                    *)

\* WiFi_Disconnect with the station switched off, or WiFi.mode(WIFI_OFF).
StationOff == trying' = FALSE /\ status' = "disconnected"

\* setupHostname and the restart of the station that a host name needs.
SetupHostname == IF opt.hostname THEN StationOff ELSE UNCHANGED driverVars

ValidApPassword == opt.apPassword

\* startAP tries three times, and nobody asks for the result.
StartAP == ap' \in BOOLEAN

\* WiFi_autoReconnect: WiFiEvent is registered once and for all.
WiFiAutoReconnect == registered' = TRUE

\* WiFi.begin, by wifiConnectNew and wifiConnectDefault, which ignore what it
\* returns.  Preloaded credentials are kept by the SDK.  The status may be the
\* one of the attempt before for a while.
Begin ==
    /\ trying' \in {TRUE, trying}
    /\ status' \in {status, "disconnected"}
    /\ saved' = (saved \/ opt.preloaded)

\* Mutant: a failure whose reason is unknown leaves the result as it was.
UpdateConxResultOfReason(s) ==
    last' = CASE s = "disconnected" /\ reason = "idle" -> last
              [] s \in {"failed", "disconnected"} /\ reason # "idle" -> reason
              [] OTHER -> s

\* updateConxResult: the reason that WiFiEvent recorded last, if there is one,
\* stands for a failure.
UpdateConxResult(s) ==
    last' = IF s \in {"failed", "disconnected"} /\ reason # "idle" THEN reason ELSE s

\* shutdownConfigPortal; the station resumes what the SDK keeps.
ClosePortal ==
    /\ portal' = FALSE /\ ap' = FALSE
    /\ hasBegun' = FALSE
    /\ trying' = saved

----
(* autoConnect                                                              *)

ApplicationCall == pc = "app" /\ calls < MaxCalls /\ calls' = calls + 1 /\ UNCHANGED opt
CallGoesOn == UNCHANGED <<opt, calls>>

AutoConnect ==
    /\ ApplicationCall
    /\ pc' = "check" /\ retry' = 0 /\ begins' = 0
    /\ hasBegun' = TRUE
    /\ SetupHostname
    /\ UNCHANGED <<registered, saved, connRes, last, eventVars, portalVars>>

\* WiFi.enableSTA fails: autoConnect returns at once, and opens no portal.
StationUnavailable ==
    /\ pc = "check" /\ pc' = "app"
    /\ CallGoesOn
    /\ UNCHANGED <<hasBegun, registered, saved, retry, connRes, begins, driverVars, last,
                   eventVars, portalVars>>

HasCredentials == opt.preloaded \/ saved

AlreadyConnected ==
    /\ pc = "check" /\ pc' = "app"
    /\ CallGoesOn
    /\ status = "connected"
    /\ last' = "connected"
    /\ WiFiAutoReconnect
    /\ UNCHANGED <<hasBegun, saved, retry, connRes, begins, driverVars, eventVars, portalVars>>

NoCredentials ==
    /\ pc = "check" /\ pc' = "fallback"
    /\ CallGoesOn
    /\ status # "connected" /\ ~HasCredentials
    /\ WiFiAutoReconnect
    /\ UNCHANGED <<hasBegun, saved, retry, connRes, begins, driverVars, last, eventVars,
                   portalVars>>

\* connectWifi up to its loop.
ConnectWifi ==
    /\ pc = "check" /\ pc' = "connect"
    /\ CallGoesOn
    /\ status # "connected" /\ HasCredentials
    /\ WiFiAutoReconnect
    /\ retry' = 1 /\ connRes' = "no_ssid"
    /\ IF opt.clean THEN trying' = FALSE /\ status' = "disconnected"
                    ELSE UNCHANGED driverVars
    /\ UNCHANGED <<hasBegun, saved, begins, last, eventVars, portalVars>>

\* Mutant: the last retry is not made.
MoreTriesTooFew == retry < opt.retries \/ begins = 0

MoreTries == retry <= opt.retries

\* One pass of the loop: begin, and waitForConnectResult reads the status at once.
Attempt ==
    /\ pc = "connect" /\ pc' = "wait"
    /\ CallGoesOn
    /\ MoreTries /\ connRes # "connected"
    /\ Begin
    /\ connRes' = status'
    /\ begins' = begins + 1
    /\ UNCHANGED <<hasBegun, registered, retry, last, eventVars, portalVars>>

\* It reads it again and again while it is undecided ...
Poll ==
    /\ pc = "wait"
    /\ CallGoesOn
    /\ connRes \notin {"connected", "failed"}
    /\ connRes # status /\ connRes' = status
    /\ UNCHANGED <<pc, hasBegun, registered, saved, retry, begins, driverVars, last,
                   eventVars, portalVars>>

\* ... or until the time is up: what was read last is the result.
WaitOver ==
    /\ pc = "wait" /\ pc' = "connect"
    /\ CallGoesOn
    /\ retry' = retry + 1
    /\ UNCHANGED <<hasBegun, registered, saved, connRes, begins, driverVars, last, eventVars,
                   portalVars>>

Connected ==
    /\ pc = "connect" /\ pc' = "app"
    /\ CallGoesOn
    /\ connRes = "connected"
    /\ last' = "connected"
    /\ UNCHANGED <<hasBegun, registered, saved, retry, connRes, begins, driverVars, eventVars,
                   portalVars>>

\* Mutant: only a verdict of the driver ends the loop, not its time-outs.
NotConnectedOnVerdict ==
    /\ pc = "connect" /\ pc' = "fallback"
    /\ CallGoesOn
    /\ ~MoreTries /\ connRes = "failed"
    /\ UpdateConxResult(connRes)
    /\ UNCHANGED <<hasBegun, registered, saved, retry, connRes, begins, driverVars, eventVars,
                   portalVars>>

NotConnected ==
    /\ pc = "connect" /\ pc' = "fallback"
    /\ CallGoesOn
    /\ ~MoreTries /\ connRes # "connected"
    /\ UpdateConxResult(connRes)
    /\ UNCHANGED <<hasBegun, registered, saved, retry, connRes, begins, driverVars, eventVars,
                   portalVars>>

FallBackStep ==
    /\ CallGoesOn
    /\ UNCHANGED <<registered, saved, retry, connRes, begins, last, eventVars>>

\* What keeps autoConnect from opening a portal, and startConfigPortal from going on.
NoPortalToOpen == ~opt.enablePortal \/ portal \/ ~ValidApPassword

ReturnWithoutPortal ==
    /\ pc = "fallback" /\ pc' = "app"
    /\ FallBackStep
    /\ NoPortalToOpen
    /\ hasBegun' = (hasBegun \/ opt.enablePortal)
    /\ UNCHANGED <<driverVars, portalVars>>

\* startConfigPortal looks whether the station is connected ...
OpenPortal ==
    /\ pc = "fallback" /\ pc' = IF status = "connected" THEN "open" ELSE "disconnect"
    /\ FallBackStep
    /\ ~NoPortalToOpen
    /\ hasBegun' = TRUE
    /\ UNCHANGED <<driverVars, portalVars>>

\* ... switches it off if it was not, and may be by now ...
DisableStation ==
    /\ pc = "disconnect" /\ pc' = "open"
    /\ FallBackStep
    /\ StationOff
    /\ UNCHANGED <<hasBegun, portalVars>>

\* ... and opens the portal.
PortalOpens ==
    /\ pc = "open" /\ pc' = "app"
    /\ FallBackStep
    /\ portal' = TRUE /\ StartAP
    /\ UNCHANGED <<hasBegun, driverVars>>

FallBack == ReturnWithoutPortal \/ OpenPortal \/ DisableStation \/ PortalOpens

AutoConnectGoesOn ==
    \/ StationUnavailable \/ AlreadyConnected \/ NoCredentials \/ ConnectWifi
    \/ Attempt \/ Poll \/ WaitOver \/ Connected \/ NotConnected \/ FallBack

----
(* What the application and the portal do between two calls of it           *)

\* A save's attempt: wifiConnectNew keeps its credentials ...
SaveBegins ==
    /\ ApplicationCall
    /\ pc' = "save"
    /\ portal
    /\ trying' \in {TRUE, trying} /\ status' \in {status, "disconnected"}
    /\ saved' = TRUE
    /\ UNCHANGED <<hasBegun, registered, retry, connRes, begins, last, eventVars, portalVars>>

\* What processPortalConnect takes for a verdict.
Verdicts == {"connected", "failed", "no_ssid", "lost"}

\* ... and processPortalConnect ends it with a verdict or, as failed, at its
\* time-out.  A portal closes after a success, which is the default.
SaveEnds ==
    /\ pc = "save" /\ pc' = "app"
    /\ CallGoesOn
    /\ \E s \in ({status} \cap Verdicts) \cup {"failed"} :
         /\ UpdateConxResult(s)
         /\ IF s = "connected" THEN ClosePortal /\ UNCHANGED status
                               ELSE UNCHANGED <<hasBegun, driverVars, portalVars>>
    /\ UNCHANGED <<registered, saved, retry, connRes, begins, eventVars>>

PortalCloses ==
    /\ ApplicationCall
    /\ portal
    /\ ClosePortal
    /\ UNCHANGED <<pc, registered, saved, status, retry, connRes, begins, last, eventVars>>

\* resetSettings and erase: the SDK's credentials are gone.
EraseSettings ==
    /\ ApplicationCall
    /\ saved' = FALSE
    /\ StationOff
    /\ UNCHANGED <<pc, hasBegun, registered, retry, connRes, begins, last, eventVars, portalVars>>

----
(* The driver and the event task                                            *)

DriverActs ==
    UNCHANGED <<opt, calls, hasBegun, registered, saved, callVars, last, portalVars>>

Joins ==
    /\ DriverActs
    /\ trying
    /\ status # "connected" /\ status' = "connected"
    /\ UNCHANGED <<trying, eventVars>>

\* The status that ESP32's core gives a disconnection before it calls WiFiEvent.
StatusAfter(why) ==
    CASE why = "auth_expire" -> IF status = "connected" THEN "disconnected" ELSE status
      [] why = "auth_fail" -> "failed"
      [] why = "assoc_fail" -> "failed"
      [] why = "no_ap" -> "no_ssid"
      [] why = "beacon" -> "lost"
      [] why = "other" -> "disconnected"

Disconnections == {"auth_expire", "auth_fail", "assoc_fail", "no_ap", "beacon", "other"}

\* WiFiEvent, while it listens.
WiFiEvent(why) ==
    reason' = IF ~(hasBegun /\ registered) THEN reason
              ELSE IF why \in {"auth_expire", "auth_fail"} THEN "wrong_password" ELSE status'

Disconnects ==
    /\ DriverActs
    /\ trying
    /\ \E why \in Disconnections :
         /\ status' = StatusAfter(why)
         /\ WiFiEvent(why)
         /\ rejected' = (rejected \/ why \in {"auth_expire", "auth_fail"})
    /\ trying' \in BOOLEAN

----
Next ==
    \/ AutoConnect \/ AutoConnectGoesOn
    \/ SaveBegins \/ SaveEnds \/ PortalCloses \/ EraseSettings
    \/ Joins \/ Disconnects

Spec == Init /\ [][Next]_vars

(* Fairness: the loop task goes on, and a wait comes to its end: a time-out *)
(* that is set, or the SDK's own.                                           *)
Fairness == WF_vars(AutoConnectGoesOn) /\ SF_vars(WaitOver)

FairSpec == Spec /\ Fairness

----
(* Safety                                                                   *)

\* connectWifi makes no more attempts than setConnectRetries allows, and gives
\* up only after all of them: `<=' against `<', and a count that starts at 1.
RetriesKept ==
    /\ begins <= opt.retries
    /\ pc = "fallback" /\ begins > 0 => begins = opt.retries

\* A connection that failed is not reported as one that succeeded, whatever an
\* earlier one has left behind, and a wrong password is not reported unless an
\* access point has rejected one.  (It may be an earlier attempt's: the recorded
\* reason outlives the attempt.)
FailureReported ==
    [][pc = "connect" /\ pc' = "fallback" =>
         last' # "connected" /\ (last' = "wrong_password" => rejected)]_vars

----
(* Liveness                                                                 *)

\* autoConnect returns, whatever the driver does meanwhile.
AutoConnectReturns == pc \in Positions \ {"app", "save"} ~> pc = "app"
====
