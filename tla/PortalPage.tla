---- MODULE PortalPage ----
(***************************************************************************)
(* The portal's page in a browser (templates/PortalAppJS.h) against the    *)
(* device it came from: the Wi-Fi form, a save and the polling of its      *)
(* outcome, the hand-off to the station's address, and the views that the  *)
(* user moves between while requests are under way.                        *)
(*                                                                         *)
(* A fetch is sent, answered by the device from its state at that moment,  *)
(* and taken up by the page later or never: any fetch may fail on either   *)
(* side of the answer.  The page forgets what it runs when it is reloaded. *)
(***************************************************************************)
EXTENDS LegacyPortal

CONSTANT MaxMoves    \* bound on the user's navigations and reloads
ASSUME PageAssumption == MaxMoves \in Nat

VARIABLES
    at,         \* "portal", or "station" when the page has left for the station
    view,       \* what #app shows: the Wi-Fi form, or anything else
    loads,      \* the fetches of viewWifi and viewInfo that are under way
    moves,      \* navigations and reloads so far (bounded by MaxMoves)
    saving,     \* _wmWifiSaveInFlight
    post,       \* the fetch of POST /api/wifi/save
    runs,       \* how often polling was started: the token's part of the closure
    current,    \* the run whose token is _wmWifiConnectPollToken, 0 if none
    flight,     \* per run, its fetch of GET /api/wifi/connect-status
    timer,      \* _wmWifiConnectPollTimer is set
    ack,        \* the fetch of POST /api/wifi/connect-complete
    attempt,    \* completeWifiHandoff's attempt
    told,       \* the outcome the user was told last
    outcome,    \* history: what the device made of the save the page waits for
    abandoned   \* history: a view was rendered while its outcome was polled for

viewVars == <<at, view, loads, moves>>
pollVars == <<runs, current, flight, timer>>
handoffVars == <<ack, attempt>>
pageVars == <<viewVars, saving, post, pollVars, handoffVars, told, outcome, abandoned>>
pageSpecVars == <<vars, pageVars>>

Loaded == {"wifi", "info"}
Views == {"form", "other"}
Runs == 1 .. MaxCalls

\* What GET /api/wifi/connect-status may report; "joined" is the state success
\* with a stationIp.
Reports == {"idle", "waiting", "joined", "success", "failed"}

PageTypeOK ==
    /\ at \in {"portal", "station"} /\ view \in Views
    /\ loads \in [Loaded -> 0 .. MaxMoves + 1] /\ moves \in 0 .. MaxMoves
    /\ saving \in BOOLEAN
    /\ post \in {"none", "sent", "accepted"}
    /\ runs \in 0 .. MaxCalls /\ current \in 0 .. MaxCalls
    /\ flight \in [Runs -> {"none", "sent"} \cup Reports]
    /\ timer \in BOOLEAN
    /\ ack \in {"none", "sent", "ok", "refused", "pause", "redirect", "manual"}
    /\ attempt \in 0 .. 2
    /\ told \in {"nothing", "success", "failed"}
    /\ outcome \in {"none", "pending", "success", "failed", "other"}
    /\ abandoned \in BOOLEAN

\* What the page keeps in memory, as loading the shell leaves it.
Fresh ==
    /\ saving' = FALSE /\ post' = "none"
    /\ runs' = 0 /\ current' = 0 /\ timer' = FALSE
    /\ flight' = [r \in Runs |-> "none"]
    /\ ack' = "none" /\ attempt' = 0
    /\ told' = "nothing" /\ outcome' = "none" /\ abandoned' = FALSE

\* bootPortal opens the view that the address names: one that is there at
\* once, or one that loads its data first.
Opening == {[v \in Loaded |-> IF v = l THEN 1 ELSE 0] : l \in Loaded \cup {"home"}}

\* A device that serves its page has one of its portals open.
Serving ==
    /\ RadioInit
    /\ opt \in Options
    /\ pc = "loop" /\ calls = 0
    /\ configActive \in BOOLEAN /\ webActive = ~configActive /\ server = TRUE
    /\ abort = FALSE /\ abortScheduled = FALSE /\ captive = TRUE
    /\ cp = "idle" /\ cpSsid = None /\ stationIp = FALSE
    /\ overtaking = FALSE

PageInit ==
    /\ Serving
    /\ at = "portal" /\ view = "other" /\ moves = 0
    /\ loads \in Opening
    /\ saving = FALSE /\ post = "none"
    /\ runs = 0 /\ current = 0 /\ timer = FALSE
    /\ flight = [r \in Runs |-> "none"]
    /\ ack = "none" /\ attempt = 0
    /\ told = "nothing" /\ outcome = "none" /\ abandoned = FALSE

----
(* Who acts: the page by itself, or the device on a request of the page.    *)

PageActs == at = "portal" /\ UNCHANGED vars
Served ==
    /\ pc = "loop" \/ Preemptive
    /\ PortalUp
    /\ UNCHANGED <<vars, outcome>>

----
(* Views                                                                    *)

\* stopWifiConnectPolling: the token moves on, the timer is cleared.
StopPolling == current' = 0 /\ timer' = FALSE

\* setView: whatever was polled is not any more, the save in flight stays so.
SetView(v) ==
    /\ view' = v
    /\ StopPolling
    /\ abandoned' = (abandoned \/ current # 0)
    /\ UNCHANGED <<at, saving, runs, flight>>

\* The hash changes: route() renders the new view, at first without its data.
Navigate ==
    /\ PageActs
    /\ moves < MaxMoves /\ moves' = moves + 1
    /\ SetView("other")
    /\ \/ UNCHANGED loads
       \/ \E v \in Loaded : loads' = [loads EXCEPT ![v] = @ + 1]
    /\ UNCHANGED <<post, handoffVars, told, outcome>>

\* The data of a view arrive and render it, wherever the user is by now; a
\* failed fetch renders the Wi-Fi view without its form, the others nothing.
ViewLoads(v) ==
    /\ PageActs
    /\ loads[v] > 0
    /\ loads' = [loads EXCEPT ![v] = @ - 1]
    /\ \/ PortalUp /\ SetView(IF v = "wifi" THEN "form" ELSE "other")
       \/ v = "wifi" /\ SetView("other")
       \/ v # "wifi" /\ UNCHANGED <<at, view, saving, pollVars, abandoned>>
    /\ UNCHANGED <<moves, post, handoffVars, told, outcome>>

\* The shell is loaded anew.
Reload ==
    /\ PageActs
    /\ PortalUp
    /\ moves < MaxMoves /\ moves' = moves + 1
    /\ Fresh /\ view' = "other" /\ loads' \in Opening
    /\ UNCHANGED at

----
(* A save                                                                   *)

\* Mutant: a save may be submitted while another one is in flight.
SubmitUnguarded ==
    /\ at = "portal" /\ view = "form" /\ post = "none"
    /\ saving' = TRUE /\ abandoned' = FALSE
    /\ post' = "sent" /\ told' = "nothing" /\ outcome' = "none"
    /\ UNCHANGED <<vars, viewVars, pollVars, handoffVars>>

\* submitWifi
Submit ==
    /\ at = "portal" /\ view = "form" /\ ~saving
    /\ saving' = TRUE /\ abandoned' = FALSE
    /\ post' = "sent" /\ told' = "nothing" /\ outcome' = "none"
    /\ UNCHANGED <<vars, viewVars, pollVars, handoffVars>>

\* handleApiWifiSave without a profile store.
ServeSave ==
    /\ post = "sent"
    /\ Save
    /\ post' = "accepted" /\ outcome' = "pending"
    /\ UNCHANGED <<viewVars, saving, pollVars, handoffVars, told, abandoned>>

FinishSave == saving' = FALSE /\ abandoned' = FALSE /\ outcome' = "none"

\* 202: pollWifiConnectStatus starts a new run with a new token.
SaveAccepted ==
    /\ PageActs
    /\ post = "accepted"
    /\ post' = "none"
    /\ runs' = runs + 1 /\ current' = runs' /\ timer' = FALSE
    /\ flight' = [flight EXCEPT ![runs'] = "sent"]
    /\ UNCHANGED <<viewVars, saving, handoffVars, told, outcome, abandoned>>

\* Mutant: the form is left disabled when the save could not be sent.
SaveLostKeepsForm ==
    /\ PageActs
    /\ post # "none"
    /\ post' = "none"
    /\ UNCHANGED <<viewVars, saving, pollVars, handoffVars, told, outcome, abandoned>>

\* The fetch fails, before or after the device has seen it.
SaveLost ==
    /\ PageActs
    /\ post # "none"
    /\ post' = "none"
    /\ FinishSave
    /\ UNCHANGED <<viewVars, pollVars, handoffVars, told>>

----
(* Polling its outcome                                                      *)

Succeeded == {"success", "success_waiting_close"}

\* getConfigPortalConnectState and buildApiWifiConnectStatusJson
Report ==
    CASE cp = "idle" -> "idle"
      [] cp \in Succeeded -> IF stationIp THEN "joined" ELSE "success"
      [] cp = "failed" -> "failed"
      [] OTHER -> "waiting"

ServeStatus(r) ==
    /\ Served
    /\ flight[r] = "sent"
    /\ flight' = [flight EXCEPT ![r] = Report]
    /\ UNCHANGED <<viewVars, saving, post, runs, current, timer, handoffVars, told, abandoned>>

\* The answer of run r is taken up; nothing happens if its token is not the
\* current one any more.
Takes(r) ==
    /\ PageActs
    /\ flight[r] \in Reports
    /\ flight' = [flight EXCEPT ![r] = "none"]
    /\ UNCHANGED <<viewVars, post, runs>>

IgnoreStale(r) ==
    /\ Takes(r) /\ r # current
    /\ UNCHANGED <<saving, current, timer, handoffVars, told, outcome, abandoned>>

\* A failed save, and a success that has no address to open, end here.
PollSettles(r) ==
    /\ Takes(r) /\ r = current
    /\ flight[r] \in {"success", "failed"}
    /\ StopPolling
    /\ told' = flight[r]
    /\ FinishSave
    /\ UNCHANGED handoffVars

\* Mutant: the form is given back while the hand-off is under way.
PollJoinedFreesForm(r) ==
    /\ Takes(r) /\ r = current
    /\ flight[r] = "joined"
    /\ StopPolling
    /\ told' = "success"
    /\ ack' = "sent" /\ attempt' = 0
    /\ FinishSave

\* A success with an address starts the hand-off; the save stays in flight.
PollJoined(r) ==
    /\ Takes(r) /\ r = current
    /\ flight[r] = "joined"
    /\ StopPolling
    /\ told' = "success"
    /\ ack' = "sent" /\ attempt' = 0
    /\ UNCHANGED <<saving, outcome, abandoned>>

\* Anything else, `idle' included, is asked for again.
PollAgain(r) ==
    /\ Takes(r) /\ r = current
    /\ flight[r] \in {"idle", "waiting"}
    /\ timer' = TRUE
    /\ UNCHANGED <<saving, current, handoffVars, told, outcome, abandoned>>

PollTimer ==
    /\ PageActs
    /\ timer
    /\ timer' = FALSE
    /\ flight' = [flight EXCEPT ![current] = "sent"]
    /\ UNCHANGED <<viewVars, saving, post, runs, current, handoffVars, told, outcome,
                   abandoned>>

\* Mutant: a failed poll is asked again.
PollLostTriesAgain(r) ==
    /\ PageActs
    /\ flight[r] # "none"
    /\ flight' = [flight EXCEPT ![r] = "none"]
    /\ timer' = (timer \/ r = current)
    /\ UNCHANGED <<viewVars, saving, post, runs, current, handoffVars, told, outcome,
                   abandoned>>

\* One failed poll gives the save up.
PollLost(r) ==
    /\ PageActs
    /\ flight[r] # "none"
    /\ flight' = [flight EXCEPT ![r] = "none"]
    /\ IF r = current
         THEN StopPolling /\ FinishSave
         ELSE UNCHANGED <<saving, current, timer, outcome, abandoned>>
    /\ UNCHANGED <<viewVars, post, runs, handoffVars, told>>

----
(* The hand-off                                                             *)

\* handleApiWifiConnectComplete; the device moves the time it closes at.
ServeComplete ==
    /\ Served
    /\ ack = "sent"
    /\ ack' = IF Report = "joined" THEN "ok" ELSE "refused"
    /\ UNCHANGED <<viewVars, saving, post, pollVars, attempt, told, abandoned>>

HandoffActs ==
    /\ PageActs
    /\ UNCHANGED <<viewVars, saving, post, pollVars, told, outcome, abandoned>>

\* The answer arrives: open the address.
HandoffAcknowledged ==
    HandoffActs /\ ack = "ok" /\ ack' = "redirect" /\ UNCHANGED attempt

\* The fetch fails or is refused: try again after a pause, or leave it to the user.
HandoffFails ==
    /\ HandoffActs
    /\ ack \in {"sent", "ok", "refused"}
    /\ IF attempt < 2 THEN ack' = "pause" /\ attempt' = attempt + 1
                      ELSE ack' = "manual" /\ UNCHANGED attempt
HandoffAgain ==
    HandoffActs /\ ack = "pause" /\ ack' = "sent" /\ UNCHANGED attempt

\* The page opens the station's address; what it was is gone.
Redirect ==
    /\ PageActs
    /\ ack = "redirect"
    /\ at' = "station" /\ view' = "other" /\ loads' = [v \in Loaded |-> 0]
    /\ Fresh
    /\ UNCHANGED moves

----
(* Composition                                                              *)

\* Another client's save takes the place of the page's.
OtherSave ==
    /\ Save
    /\ outcome' = IF outcome = "none" THEN "none" ELSE "other"

\* Any other step of the device, and what it means for the page's save: what the
\* device says of it (LegacyPortal's SaveReported says when that is the truth).
Follows ==
    outcome' = CASE outcome = "pending" /\ cp' \in Succeeded -> "success"
                 [] outcome = "pending" /\ cp' = "failed" -> "failed"
                 [] OTHER -> outcome

DeviceActs ==
    /\ \/ OtherSave
       \/ OtherStep /\ Follows /\ UNCHANGED overtaking
    /\ UNCHANGED <<viewVars, saving, post, pollVars, handoffVars, told, abandoned>>

PollActs(r) ==
    \/ IgnoreStale(r) \/ PollSettles(r) \/ PollJoined(r) \/ PollAgain(r) \/ PollLost(r)

PageNext ==
    \/ DeviceActs
    \/ Navigate \/ Reload \/ \E v \in Loaded : ViewLoads(v)
    \/ Submit \/ ServeSave \/ SaveAccepted \/ SaveLost
    \/ \E r \in Runs : ServeStatus(r) \/ PollActs(r)
    \/ PollTimer
    \/ ServeComplete \/ HandoffAcknowledged \/ HandoffFails \/ HandoffAgain \/ Redirect

PageSpec == PageInit /\ [][PageNext]_pageSpecVars

(* Fairness: a fetch ends, with an answer or a failure, and timers fire.     *)
(* The user need not do anything, and no fetch need succeed.                *)
PageFairness ==
    /\ WF_pageSpecVars(SaveAccepted \/ SaveLost)
    /\ \A r \in Runs : WF_pageSpecVars(ServeStatus(r) \/ PollActs(r))
    /\ WF_pageSpecVars(PollTimer)
    /\ WF_pageSpecVars(ServeComplete \/ HandoffAcknowledged \/ HandoffFails \/ HandoffAgain
                       \/ Redirect)

FairPageSpec == PageSpec /\ Fairness /\ PageFairness

----
(* Safety                                                                   *)

\* The user is told success or failure of a save only if the device came to
\* that result for it, or took another client's save in its place: no answer
\* about an earlier save, and no answer that a later view or a new token has
\* made stale, is passed for the save's own.
ToldTheOutcome ==
    [][told' # told /\ told' \in {"success", "failed"} => outcome \in {told', "other"}]_pageSpecVars

\* The page leaves for the station's address only after a success of the save
\* that was submitted last: nothing can be submitted between the answer and
\* the redirection, which no navigation cancels.
LeavesOnSuccess ==
    [][at' # at => outcome \in {"success", "other"}]_pageSpecVars

\* A form that stays locked (_wmWifiSaveInFlight) waits for a fetch or a timer
\* that is still under way.  It stays locked for good in two cases only: the
\* hand-off was given up, and the user was told of the success and sees the
\* address; or a view was rendered over the polling, and setView stopped that
\* and left the flag.  A view over the save's own fetch costs nothing.
LockedOnlyIfAbandoned ==
    saving =>
        \/ post # "none"
        \/ ack \notin {"none", "manual"}
        \/ current # 0 /\ (timer \/ flight[current] # "none")
        \/ ack = "manual" /\ told = "success"
        \/ abandoned

----
(* Liveness                                                                 *)

\* A portal that is up and knows nothing of the page's save any more: a
\* configuration portal was opened over it, or closed and opened again.
Forgotten == outcome # "none" /\ cp = "idle" /\ PortalUp

\* Once no more calls come, a save ends for the user: the form comes back, the
\* page opens the station's address or says where to find it, or the user had
\* another view rendered over the polling.  The exception is a save that the
\* device has forgotten: it reports idle, and the page asks for ever.
SaveSettles ==
    opt.connectTimeout /\ saving /\ calls = MaxCalls
        ~> ~saving \/ at = "station" \/ ack = "manual" \/ abandoned \/ Forgotten
====
