---- MODULE LegacyPortal ----
(***************************************************************************)
(* The portals of an application without station profiles: process() with  *)
(* an idle station controller, the session calls, the portal's requests    *)
(* and the radio.                                                          *)
(***************************************************************************)
EXTENDS Portal

\* History: the last save came while process() was deciding about the one before
\* it, between reading its state and writing the next.
VARIABLE overtaking

deviceVars == <<radioVars, portalVars>>
vars == <<deviceVars, overtaking>>

TypeOK ==
    /\ PortalTypeOK
    /\ {target, link, config} \subseteq Network \cup {None}
    /\ overtaking \in BOOLEAN

Init == RadioInit /\ PortalInit /\ overtaking = FALSE

\* processStationController without a store and without a candidate.
StationIdle ==
    /\ ProcessStep("station", "connect")
    /\ UNCHANGED <<sessionVars, connectVars, radioVars>>

Process ==
    \/ BeginProcess \/ StationIdle \/ ProcessPortalConnect
    \/ PortalExits \/ PortalStays

Save == QueuePortalConnect /\ overtaking' = (pc \in Reacting)
OtherRequest == RequestExit \/ RequestClose

\* A call of process() sees the link as it was when the call began.
RadioRuns == pc = "loop" /\ UNCHANGED <<opt, pc, sessionVars, connectVars>>
Associates == RadioRuns /\ Join /\ UNCHANGED calls
LosesLink == RadioRuns /\ Drop /\ Count

OtherStep == Process \/ SessionCall \/ OtherRequest \/ Associates \/ LosesLink

Next == Save \/ (OtherStep /\ UNCHANGED overtaking)

Spec == Init /\ [][Next]_vars

(* Fairness.  The application keeps calling process(); a delay, a grace     *)
(* period and a scheduled exit are found over eventually; so is a save      *)
(* attempt if it has a time-out at all.                                     *)
ExitFallsDue == BeginProcess /\ abort' # abort
AttemptTimesOut == opt.connectTimeout /\ ConnectGivesUp

Fairness ==
    /\ WF_deviceVars(Process)
    /\ SF_deviceVars(ExitFallsDue)
    /\ SF_deviceVars(DelayEnds)
    /\ SF_deviceVars(AttemptTimesOut)
    /\ SF_deviceVars(HandoffEnds)

FairSpec == Spec /\ Fairness

----
(* Safety                                                                   *)

\* A portal that is kept up for the browser's hand-off has an address to hand
\* over; POST /api/wifi/connect-complete would answer 409 without one.  Only a
\* save that came while the portal was writing that state takes it away.
HandoffHasAddress == cp = "success_waiting_close" => stationIp \/ overtaking

\* No save is still in flight when the configuration portal it came through
\* has been closed; a later session cannot find it half done.
NoSaveLeftBehind == [][configActive /\ ~configActive' => cp' \notin InFlight]_vars

\* What becomes of a save, seen from outside: the phases in flight are pending,
\* and a portal that waits for the hand-off has already reported success.
SaveState ==
    IF cp \in InFlight THEN "pending"
    ELSE IF cp = "success_waiting_close" THEN "success"
    ELSE cp

\* The phases, the portals that come and go and the radio that is reconnected
\* meanwhile keep the promise of SaveReport: no save is reported joined because
\* of the network of an earlier one, and no outcome changes.  Handlers may run
\* anywhere in process(); the one save that is not promised anything is that
\* which comes between the read and the write of one reaction to an earlier
\* save.  Handlers that run in the loop task leave no such exception.
Outside ==
    INSTANCE SaveReport WITH report <- SaveState, ssid <- cpSsid, address <- stationIp,
                             connects <- opt.connectOnSave
SaveReported ==
    Outside!Init /\ [][overtaking \/ Outside!Next]_<<SaveState, cpSsid, stationIp>>

----
(* Liveness                                                                 *)

\* A save whose attempt is bounded is answered unless a call intervenes: the
\* browser's polling of /api/wifi/connect-status ends.
SaveAnswered ==
    \A k \in 0 .. MaxCalls :
        opt.connectTimeout /\ cp \in InFlight /\ calls = k
            ~> cp \notin InFlight \/ calls > k

\* After a successful save the configuration portal closes, acknowledged or
\* not, unless a call intervenes.
HandoffCloses ==
    \A k \in 0 .. MaxCalls :
        cp = "success_waiting_close" /\ ~webActive /\ calls = k
            ~> ~configActive \/ calls > k

\* An exit that was accepted ends the session, whatever else the portal is
\* doing.
ExitHonoured ==
    \A k \in 0 .. MaxCalls :
        opt.allowExit /\ PortalUp /\ (abortScheduled \/ abort) /\ calls = k
            ~> ~PortalUp \/ calls > k
====
