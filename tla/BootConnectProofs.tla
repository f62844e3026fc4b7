---- MODULE BootConnectProofs ----
(***************************************************************************)
(* autoConnect for any configurations and any number of retries: the count *)
(* of attempts, and what is reported of a failure.                         *)
(***************************************************************************)
EXTENDS BootConnect, TLAPS

\* connectWifi's loop: the count of the pass and the attempts that were made.
Counted ==
    /\ pc = "check" => begins = 0
    /\ pc = "connect" => retry = begins + 1 /\ retry <= opt.retries + 1
    /\ pc = "wait" => begins = retry /\ retry <= opt.retries

\* What WiFiEvent recorded last is a failure, and it happened.
ReasonIsFailure ==
    /\ reason # "connected"
    /\ reason = "wrong_password" => rejected

BootInv == TypeOK /\ Counted /\ RetriesKept /\ ReasonIsFailure

----
(* Types                                                                    *)

LEMMA OptType ==
    ASSUME opt \in Settings
    PROVE  opt.retries \in Nat /\ 1 <= opt.retries /\ opt.retries <= MaxRetries
BY BootAssumption DEF BootAssumption, SettingType

LEMMA Bounds == MaxRetries \in Nat /\ MaxCalls \in Nat
BY BootAssumption DEF BootAssumption

LEMMA ConxResultType ==
    ASSUME NEW s \in Statuses, reason \in Results, UpdateConxResult(s)
    PROVE  last' \in Results
BY DEF UpdateConxResult, Results

\* What the driver reports of a disconnection is one of its states, and no success.
LEMMA StatusAfterType ==
    ASSUME status \in Statuses, NEW why \in Disconnections
    PROVE  /\ StatusAfter(why) \in Statuses
           /\ why # "auth_expire" => StatusAfter(why) # "connected"
<1> USE DEF StatusAfter, Statuses
<1>1. CASE why = "auth_expire"
  BY <1>1
<1>2. CASE why = "auth_fail"
  BY <1>2
<1>3. CASE why = "assoc_fail"
  BY <1>3
<1>4. CASE why = "no_ap"
  BY <1>4
<1>5. CASE why = "beacon"
  BY <1>5
<1>6. CASE why = "other"
  BY <1>6
<1> QED
  BY <1>1, <1>2, <1>3, <1>4, <1>5, <1>6 DEF Disconnections

LEMMA WiFiEventReason ==
    ASSUME TypeOK, ReasonIsFailure, Disconnects
    PROVE  reason' \in Results /\ ReasonIsFailure' /\ status' \in Statuses
<1>1. PICK why \in Disconnections :
        /\ status' = StatusAfter(why)
        /\ WiFiEvent(why)
        /\ rejected' = (rejected \/ why \in {"auth_expire", "auth_fail"})
  BY DEF Disconnects
<1>2. status' \in Statuses /\ (why # "auth_expire" => status' # "connected")
  BY <1>1, StatusAfterType DEF TypeOK
<1>3. CASE ~(hasBegun /\ registered)
  <2>1. reason' = reason
    BY <1>1, <1>3 DEF WiFiEvent
  <2>2. rejected => rejected'
    BY <1>1
  <2> QED
    BY <1>2, <2>1, <2>2 DEF TypeOK, ReasonIsFailure
<1>4. CASE hasBegun /\ registered /\ why \in {"auth_expire", "auth_fail"}
  BY <1>1, <1>2, <1>4 DEF WiFiEvent, ReasonIsFailure, Results
<1>5. CASE hasBegun /\ registered /\ why \notin {"auth_expire", "auth_fail"}
  <2>1. reason' = status'
    BY <1>1, <1>5 DEF WiFiEvent
  <2> QED
    BY <1>2, <1>5, <2>1 DEF ReasonIsFailure, Results, Statuses
<1> QED
  BY <1>2, <1>3, <1>4, <1>5

\* The loop task: autoConnect and what it calls.
LEMMA AutoConnectTypeOK ==
    ASSUME TypeOK, Counted, RetriesKept, AutoConnect \/ AutoConnectGoesOn
    PROVE  TypeOK'
<1> USE Bounds DEF TypeOK, callVars, driverVars, eventVars, portalVars, CallGoesOn
<1>0. "idle" \in Statuses /\ "no_ssid" \in Statuses /\ "disconnected" \in Statuses
  BY DEF Statuses
<1>1. "connected" \in Results
  BY DEF Results, Statuses
<1>2. CASE AutoConnect
  <2>1. trying' \in BOOLEAN /\ status' \in Statuses
    BY <1>0, <1>2 DEF AutoConnect, SetupHostname, StationOff
  <2>2. calls' \in 0 .. MaxCalls /\ opt' = opt
    BY <1>2 DEF AutoConnect, ApplicationCall
  <2> QED
    BY <1>2, <2>1, <2>2 DEF AutoConnect, Positions
<1>3. CASE StationUnavailable
  BY <1>3 DEF StationUnavailable, Positions
<1>4. CASE AlreadyConnected
  BY <1>1, <1>4 DEF AlreadyConnected, WiFiAutoReconnect, Positions
<1>5. CASE NoCredentials
  BY <1>5 DEF NoCredentials, WiFiAutoReconnect, Positions
<1>6. CASE ConnectWifi
  <2>1. retry' \in 0 .. MaxRetries + 1 /\ connRes' \in Statuses /\ pc' \in Positions
    BY <1>0, <1>6, OptType DEF ConnectWifi, Positions
  <2>2. trying' \in BOOLEAN /\ status' \in Statuses
    BY <1>0, <1>6 DEF ConnectWifi
  <2> QED
    BY <1>6, <2>1, <2>2 DEF ConnectWifi, WiFiAutoReconnect
<1>7. CASE Attempt
  <2>1. /\ trying' \in BOOLEAN /\ saved' \in BOOLEAN
        /\ status' \in Statuses /\ connRes' \in Statuses
    BY <1>0, <1>7 DEF Attempt, Begin
  <2>2. begins' \in 0 .. MaxRetries
    BY <1>7, OptType DEF Attempt, MoreTries, Counted
  <2> QED
    BY <1>7, <2>1, <2>2 DEF Attempt, Positions
<1>8. CASE Poll
  BY <1>8 DEF Poll
<1>9. CASE WaitOver
  <2>1. retry' \in 0 .. MaxRetries + 1
    BY <1>9, OptType DEF WaitOver, Counted
  <2> QED
    BY <1>9, <2>1 DEF WaitOver, Positions
<1>10. CASE Connected
  BY <1>1, <1>10 DEF Connected, Positions
<1>11. CASE NotConnected
  <2>1. last' \in Results
    BY <1>11, ConxResultType DEF NotConnected
  <2> QED
    BY <1>11, <2>1 DEF NotConnected, Positions
<1>12. CASE FallBack
  <2>1. opt.enablePortal \in BOOLEAN
    BY BootAssumption DEF BootAssumption, SettingType
  <2>2. CASE ReturnWithoutPortal
    BY <2>1, <2>2 DEF ReturnWithoutPortal, FallBackStep, Positions
  <2>3. CASE OpenPortal
    BY <2>3 DEF OpenPortal, FallBackStep, Positions
  <2>4. CASE DisableStation
    BY <1>0, <2>4 DEF DisableStation, FallBackStep, StationOff, Positions
  <2>5. CASE PortalOpens
    BY <2>5 DEF PortalOpens, FallBackStep, StartAP, Positions
  <2> QED
    BY <1>12, <2>2, <2>3, <2>4, <2>5 DEF FallBack
<1> QED
  BY <1>2, <1>3, <1>4, <1>5, <1>6, <1>7, <1>8, <1>9, <1>10, <1>11, <1>12
     DEF AutoConnectGoesOn

\* The application and the portal between two calls of it.
LEMMA ApplicationTypeOK ==
    ASSUME TypeOK, SaveBegins \/ SaveEnds \/ PortalCloses \/ EraseSettings
    PROVE  TypeOK'
<1> USE Bounds DEF TypeOK, callVars, driverVars, eventVars, portalVars
<1>0. "disconnected" \in Statuses /\ "failed" \in Statuses
  BY DEF Statuses
<1>1. ApplicationCall => calls' \in 0 .. MaxCalls /\ opt' = opt
  BY DEF ApplicationCall
<1>2. CASE SaveBegins
  BY <1>0, <1>1, <1>2 DEF SaveBegins, Positions
<1>3. CASE SaveEnds
  <2>1. PICK s \in ({status} \cap Verdicts) \cup {"failed"} :
          /\ UpdateConxResult(s)
          /\ IF s = "connected" THEN ClosePortal /\ UNCHANGED status
                               ELSE UNCHANGED <<hasBegun, driverVars, portalVars>>
    BY <1>3 DEF SaveEnds
  <2>2. s \in Statuses
    BY <1>0
  <2>3. last' \in Results
    BY <2>1, <2>2, ConxResultType
  <2>4. /\ hasBegun' \in BOOLEAN /\ portal' \in BOOLEAN /\ ap' \in BOOLEAN
        /\ trying' \in BOOLEAN /\ status' \in Statuses
    BY <2>1 DEF ClosePortal
  <2> QED
    BY <1>3, <2>3, <2>4 DEF SaveEnds, CallGoesOn, Positions
<1>4. CASE PortalCloses
  BY <1>1, <1>4 DEF PortalCloses, ClosePortal
<1>5. CASE EraseSettings
  BY <1>0, <1>1, <1>5 DEF EraseSettings, StationOff
<1> QED
  BY <1>2, <1>3, <1>4, <1>5

LEMMA DriverTypeOK ==
    ASSUME TypeOK, ReasonIsFailure, Joins \/ Disconnects
    PROVE  TypeOK'
<1> USE DEF TypeOK, DriverActs, callVars, eventVars, portalVars
<1>1. CASE Joins
  BY <1>1 DEF Joins, Statuses
<1>2. CASE Disconnects
  <2>1. reason' \in Results /\ status' \in Statuses
    BY <1>2, WiFiEventReason
  <2>2. trying' \in BOOLEAN /\ rejected' \in BOOLEAN
    BY <1>2 DEF Disconnects
  <2> QED
    BY <1>2, <2>1, <2>2 DEF Disconnects
<1> QED
  BY <1>1, <1>2

----
(* The loop                                                                 *)

LEMMA CountStep ==
    ASSUME TypeOK, Counted, RetriesKept, [Next]_vars
    PROVE  Counted' /\ RetriesKept'
<1> USE OptType DEF TypeOK, Counted, RetriesKept, callVars, CallGoesOn
<1>1. CASE AutoConnect
  BY <1>1 DEF AutoConnect, ApplicationCall
<1>2. CASE StationUnavailable \/ AlreadyConnected \/ NoCredentials
  BY <1>2 DEF StationUnavailable, AlreadyConnected, NoCredentials
<1>3. CASE ConnectWifi
  BY <1>3 DEF ConnectWifi
<1>4. CASE Attempt
  BY <1>4 DEF Attempt, MoreTries
<1>5. CASE Poll
  BY <1>5 DEF Poll
<1>6. CASE WaitOver
  BY <1>6 DEF WaitOver
<1>7. CASE Connected \/ FallBack
  BY <1>7 DEF Connected, FallBack, ReturnWithoutPortal, OpenPortal, DisableStation, PortalOpens,
     FallBackStep
<1>8. CASE NotConnected
  BY <1>8 DEF NotConnected, MoreTries
<1>9. CASE SaveBegins \/ SaveEnds \/ PortalCloses \/ EraseSettings
  BY <1>9 DEF SaveBegins, SaveEnds, PortalCloses, EraseSettings, ApplicationCall
<1>10. CASE Joins \/ Disconnects
  BY <1>10 DEF Joins, Disconnects, DriverActs
<1>11. CASE UNCHANGED vars
  BY <1>11 DEF vars
<1> QED
  BY <1>1, <1>2, <1>3, <1>4, <1>5, <1>6, <1>7, <1>8, <1>9, <1>10, <1>11
     DEF Next, AutoConnectGoesOn

LEMMA ReasonStep ==
    ASSUME TypeOK, ReasonIsFailure, [Next]_vars
    PROVE  ReasonIsFailure'
<1>1. CASE Disconnects
  BY <1>1, WiFiEventReason
<1>2. CASE UNCHANGED eventVars
  BY <1>2 DEF eventVars, ReasonIsFailure
<1>3. Next \/ UNCHANGED vars => Disconnects \/ UNCHANGED eventVars
  BY DEF Next, AutoConnectGoesOn, vars, eventVars, AutoConnect, StationUnavailable,
         AlreadyConnected, NoCredentials, ConnectWifi, Attempt, Poll, WaitOver, Connected,
         NotConnected, FallBack, ReturnWithoutPortal, OpenPortal, DisableStation, PortalOpens,
         FallBackStep, SaveBegins, SaveEnds, PortalCloses, EraseSettings, Joins
<1> QED
  BY <1>1, <1>2, <1>3

----
(* The theorems                                                             *)

\* The inductive invariant: the loop's count is the number of its attempts, and
\* what the event task recorded is a failure that happened.
THEOREM BootInvariant == Spec => []BootInv
<1>1. Init => BootInv
  <2> SUFFICES ASSUME Init PROVE BootInv
    OBVIOUS
  <2>1. TypeOK
    <3>1. calls \in 0 .. MaxCalls /\ retry \in 0 .. MaxRetries + 1 /\ begins \in 0 .. MaxRetries
      BY Bounds DEF Init
    <3>2. "idle" \in Statuses /\ "idle" \in Results /\ "app" \in Positions
      BY DEF Statuses, Results, Positions
    <3> QED
      BY <3>1, <3>2 DEF Init, TypeOK
  <2>2. Counted /\ RetriesKept /\ ReasonIsFailure
    BY OptType DEF Init, Counted, RetriesKept, ReasonIsFailure
  <2> QED
    BY <2>1, <2>2 DEF BootInv
<1>2. BootInv /\ [Next]_vars => BootInv'
  <2> SUFFICES ASSUME BootInv, [Next]_vars PROVE BootInv'
    OBVIOUS
  <2>1. TypeOK'
    <3>1. CASE UNCHANGED vars
      BY <3>1 DEF BootInv, TypeOK, vars, callVars, driverVars, eventVars, portalVars
    <3> QED
      BY <3>1, AutoConnectTypeOK, ApplicationTypeOK, DriverTypeOK DEF BootInv, Next
  <2> QED
    BY <2>1, CountStep, ReasonStep DEF BootInv
<1> QED
  BY <1>1, <1>2, PTL DEF Spec

\* Types, for any configurations.
THEOREM BootTypeCorrect == Spec => []TypeOK
<1>1. BootInv => TypeOK
  BY DEF BootInv
<1> QED
  BY BootInvariant, <1>1, PTL

\* setConnectRetries is kept exactly, for any number of retries and whatever the
\* driver reports when.
THEOREM RetriesAreKept == Spec => []RetriesKept
<1>1. BootInv => RetriesKept
  BY DEF BootInv
<1> QED
  BY BootInvariant, <1>1, PTL

\* A failure is never reported as a success, nor blamed on a password that no
\* access point has rejected.
THEOREM FailureIsReported == Spec => FailureReported
<1>1. BootInv /\ [Next]_vars =>
        [pc = "connect" /\ pc' = "fallback" =>
           last' # "connected" /\ (last' = "wrong_password" => rejected)]_vars
  <2> SUFFICES ASSUME BootInv, Next, pc = "connect", pc' = "fallback"
               PROVE  last' # "connected" /\ (last' = "wrong_password" => rejected)
    OBVIOUS
  <2>1. NotConnected
    BY DEF Next, AutoConnectGoesOn, AutoConnect, StationUnavailable, AlreadyConnected,
           NoCredentials, ConnectWifi, Attempt, Poll, WaitOver, Connected, FallBack,
           ReturnWithoutPortal, OpenPortal, DisableStation, PortalOpens, SaveBegins, SaveEnds,
           PortalCloses, EraseSettings, ApplicationCall, Joins,
           Disconnects, DriverActs, callVars
  <2>2. connRes \in Statuses /\ connRes # "connected" /\ UpdateConxResult(connRes)
    BY <2>1 DEF NotConnected, BootInv, TypeOK
  <2> QED
    BY <2>2 DEF UpdateConxResult, BootInv, ReasonIsFailure, Statuses
<1> QED
  BY BootInvariant, <1>1, PTL DEF Spec, FailureReported
====
